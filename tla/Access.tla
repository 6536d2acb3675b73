------------------------------- MODULE Access -------------------------------
(***************************************************************************)
(* Logins, their failure limiter and sessions: auth/service.py.  A login   *)
(* is several transactions around a slow password check, so logins of one  *)
(* account from several clients interleave; each runs in a process that    *)
(* may die between two transactions.  One account; a bucket per client and *)
(* one for the account.  Usernames, passwords and hashes are left out: the *)
(* password check is a choice.                                             *)
(***************************************************************************)
EXTENDS Integers, FiniteSets

CONSTANTS
    Processes, Clients, Account,
    MaxClientFailures, MaxAccountFailures, Window,  \* of LoginRateLimiter
    SessionTtl,                                     \* SESSION_TTL
    MaxTime, MaxTokens, MaxDeaths                   \* bounds

ASSUME AccessAssumption ==
    /\ Account \notin Clients
    /\ IsFiniteSet(Processes)
    /\ {MaxClientFailures, MaxAccountFailures, Window, SessionTtl, MaxTime} \subseteq Nat \ {0}
    /\ MaxAccountFailures >= MaxClientFailures
    /\ {MaxTokens, MaxDeaths} \subseteq Nat

VARIABLES
    now,       \* the clock all transactions read
    bucket,    \* login_rate_limits
    pc, client, token,   \* of each process: its step, its login's client (Account
                         \* when it has none), its session
    sessions,  \* token -> expiry, 0 when there is no row
    tokens,    \* tokens handed out
    audit,     \* audit_records: <<action, token>>
    deaths

loginVars == <<now, bucket, pc, client, token, sessions, tokens, audit, deaths>>

Buckets == Clients \union {Account}
Tokens == 1..MaxTokens
Never == 0
Absent == [count |-> 0, started |-> Never, blocked |-> Never, updated |-> Never]

MaxFailures(b) == IF b = Account THEN MaxAccountFailures ELSE MaxClientFailures

LoginInit ==
    /\ now = 1
    /\ bucket = [b \in Buckets |-> Absent]
    /\ pc = [p \in Processes |-> "idle"]
    /\ client = [p \in Processes |-> Account]
    /\ token = [p \in Processes |-> 0]
    /\ sessions = [t \in Tokens |-> Never]
    /\ tokens = 0 /\ audit = {} /\ deaths = 0

Rows == [count : Nat, started : Nat, blocked : Nat, updated : Nat]
Steps == {"idle", "checking", "failed", "refused", "passed", "cleared", "leaving"}

LoginTypeOK ==
    /\ now \in 1..MaxTime
    /\ bucket \in [Buckets -> Rows]
    /\ pc \in [Processes -> Steps]
    /\ client \in [Processes -> Buckets]
    /\ token \in [Processes -> 0..MaxTokens]
    /\ sessions \in [Tokens -> Nat]
    /\ tokens \in 0..MaxTokens /\ deaths \in 0..MaxDeaths
    /\ audit \subseteq {"login_failed", "login_succeeded", "logout"} \X (0..MaxTokens)

----------------------------------------------------------------------------
(* LoginRateLimiter: every method is one transaction. *)

Mine(p) == {Account, client[p]}

\* Mutant: a block is forgotten with its row.
CleanupIdle(buckets) ==
    [b \in Buckets |-> IF buckets[b].started <= now - Window THEN Absent ELSE buckets[b]]

\* Rows idle for a window, and not blocking, are deleted.
Cleanup(buckets) ==
    [b \in Buckets |->
        IF buckets[b].updated <= now - Window /\ buckets[b].blocked <= now
        THEN Absent ELSE buckets[b]]

Blocked(b) == bucket[b].blocked > now

\* Mutant: only the client's own bucket is consulted.
AllowedForClient(c) == ~Blocked(c)

Allowed(c) == \A b \in {Account, c} : ~Blocked(b)

\* The upsert: an expired window starts again, else the count goes up and at
\* the maximum blocks for a window from now.
RecordBucket(row, max) ==
    LET fresh == row.started <= now - Window \/ row = Absent
        count == IF fresh THEN 1 ELSE row.count + 1
    IN  [count |-> count,
         started |-> IF fresh THEN now ELSE row.started,
         blocked |-> IF count >= max THEN now + Window
                     ELSE IF fresh THEN Never ELSE row.blocked,
         updated |-> now]

----------------------------------------------------------------------------
(* AccountService.login, one action per transaction. *)

StartLogin(p) ==
    /\ pc[p] = "idle"
    /\ \E c \in Clients : client' = [client EXCEPT ![p] = c]
    /\ bucket' = Cleanup(bucket)
    /\ pc' = [pc EXCEPT ![p] = IF Allowed(client'[p]) THEN "checking" ELSE "refused"]
    /\ UNCHANGED <<now, token, sessions, tokens, audit, deaths>>

\* The password check, which no lock is held for.
CheckPassword(p) ==
    /\ pc[p] = "checking"
    /\ \E outcome \in {"failed", "passed"} : pc' = [pc EXCEPT ![p] = outcome]
    /\ UNCHANGED <<now, bucket, client, token, sessions, tokens, audit, deaths>>

RecordFailure(p) ==
    /\ pc[p] = "failed"
    /\ LET rows == Cleanup(bucket)
       IN  bucket' = [b \in Buckets |->
                        IF b \in Mine(p) THEN RecordBucket(rows[b], MaxFailures(b)) ELSE rows[b]]
    /\ pc' = [pc EXCEPT ![p] = "refused"]
    /\ UNCHANGED <<now, client, token, sessions, tokens, audit, deaths>>

\* _record_login_failure, a transaction of its own, and the error answer.
RecordLoginFailure(p) ==
    /\ pc[p] = "refused"
    /\ audit' = audit \union {<<"login_failed", 0>>}
    /\ pc' = [pc EXCEPT ![p] = "idle"] /\ client' = [client EXCEPT ![p] = Account]
    /\ UNCHANGED <<now, bucket, token, sessions, tokens, deaths>>

Clear(p) ==
    /\ pc[p] = "passed"
    /\ bucket' = [b \in Buckets |-> IF b \in Mine(p) THEN Absent ELSE bucket[b]]
    /\ pc' = [pc EXCEPT ![p] = "cleared"]
    /\ UNCHANGED <<now, client, token, sessions, tokens, audit, deaths>>

\* The session row and its audit record are one transaction.
OpenSession(p) ==
    /\ pc[p] = "cleared" /\ tokens < MaxTokens
    /\ tokens' = tokens + 1
    /\ token' = [token EXCEPT ![p] = tokens + 1]
    /\ sessions' = [sessions EXCEPT ![tokens + 1] = now + SessionTtl]
    /\ audit' = audit \union {<<"login_succeeded", tokens + 1>>}
    /\ pc' = [pc EXCEPT ![p] = "idle"] /\ client' = [client EXCEPT ![p] = Account]
    /\ UNCHANGED <<now, bucket, deaths>>
----------------------------------------------------------------------------
(* AccountService.logout and authenticate. *)

\* The row is read and then deleted in one transaction; another logout of the
\* same token may do so in between.
StartLogout(p) ==
    /\ pc[p] = "idle" /\ token[p] # 0
    /\ sessions[token[p]] # Never
    /\ pc' = [pc EXCEPT ![p] = "leaving"]
    /\ UNCHANGED <<now, bucket, client, token, sessions, tokens, audit, deaths>>

Logout(p) ==
    /\ pc[p] = "leaving"
    /\ sessions' = [sessions EXCEPT ![token[p]] = Never]
    /\ audit' = audit \union {<<"logout", token[p]>>}
    /\ pc' = [pc EXCEPT ![p] = "idle"]
    /\ UNCHANGED <<now, bucket, client, token, tokens, deaths>>

Authenticates(t) == sessions[t] > now

\* Another request of the browser that holds a live session.
UseSession(p) ==
    /\ pc[p] = "idle"
    /\ \E t \in Tokens : Authenticates(t) /\ token' = [token EXCEPT ![p] = t]
    /\ UNCHANGED <<now, bucket, pc, client, sessions, tokens, audit, deaths>>

\* The process dies: an open transaction rolls back.
Die(p) ==
    /\ deaths < MaxDeaths /\ pc[p] # "idle"
    /\ deaths' = deaths + 1
    /\ pc' = [pc EXCEPT ![p] = "idle"] /\ client' = [client EXCEPT ![p] = Account]
    /\ UNCHANGED <<now, bucket, token, sessions, tokens, audit>>

Tick ==
    /\ now < MaxTime
    /\ now' = now + 1
    /\ UNCHANGED <<bucket, pc, client, token, sessions, tokens, audit, deaths>>

LoginNext ==
    \/ Tick
    \/ \E p \in Processes :
          \/ StartLogin(p) \/ CheckPassword(p) \/ RecordFailure(p) \/ RecordLoginFailure(p)
          \/ Clear(p) \/ OpenSession(p)
          \/ StartLogout(p) \/ Logout(p) \/ UseSession(p) \/ Die(p)

LoginSpec == LoginInit /\ [][LoginNext]_loginVars

----------------------------------------------------------------------------
(* Properties. *)

\* Concurrent logins that were all let in before the block may fail after it,
\* but only those: a bucket never counts more failures than its maximum and
\* the other processes (allowed and record_failure are separate transactions).
OverrunBounded ==
    \A b \in Buckets : bucket[b].count <= MaxFailures(b) + Cardinality(Processes) - 1

\* A block is lifted by time, by a login that succeeds, or by a failure that
\* was let in before it and is counted after the bucket's window ended
\* (_record_bucket starts a new window then); by nothing else.
LateFailure(b) ==
    \E p \in Processes : /\ pc[p] = "failed" /\ pc'[p] = "refused"
                         /\ b \in Mine(p) /\ bucket[b].started <= now - Window

BlockLasts ==
    [][\A b \in Buckets : Blocked(b) /\ bucket'[b].blocked <= now' =>
          \/ now' > now
          \/ \E p \in Processes : pc[p] = "passed" /\ pc'[p] = "cleared" /\ b \in Mine(p)
          \/ LateFailure(b)]_loginVars
=============================================================================
