----------------------- MODULE AccessAndStorageProofs -----------------------
(***************************************************************************)
(* Proofs about Access and about Storage, two components that share no     *)
(* state.  Access: how far concurrent logins overrun the limiter, and what *)
(* lifts a block, for any number of processes, clients and failures.       *)
(* Storage: uploads against their quota, for any number of requests,       *)
(* uploads and faults, any sizes and any limits.                           *)
(***************************************************************************)
EXTENDS Access, Storage, FiniteSetTheorems, WellFoundedInduction, TLAPS

LEMMA NumbersAssumption ==
    /\ MaxClientFailures \in Nat \ {0} /\ MaxAccountFailures \in Nat \ {0}
    /\ Window \in Nat \ {0} /\ SessionTtl \in Nat \ {0} /\ MaxTime \in Nat \ {0}
    /\ MaxTokens \in Nat /\ MaxDeaths \in Nat
BY AccessAssumption

LEMMA MaxFailuresType == \A b : MaxFailures(b) \in Nat \ {0}
BY NumbersAssumption DEF MaxFailures

-----------------------------------------------------------------------------
(* Rows of the limiter.                                                    *)

LEMMA AbsentRow ==
    /\ Absent \in Rows /\ Absent.count = 0 /\ Absent.started = 0
    /\ Absent.blocked = 0 /\ Absent.updated = 0
BY DEF Absent, Rows, Never

\* Cleaning up deletes a row or leaves it; a row that blocks stays.
LEMMA CleanupRows ==
    ASSUME LoginTypeOK
    PROVE  /\ Cleanup(bucket) \in [Buckets -> Rows]
           /\ \A b \in Buckets :
                /\ Cleanup(bucket)[b] \in {Absent, bucket[b]}
                /\ Blocked(b) => Cleanup(bucket)[b] = bucket[b]
                /\ bucket[b].updated <= now - Window /\ ~Blocked(b) => Cleanup(bucket)[b] = Absent
<1>1. now \in Nat /\ \A b \in Buckets : bucket[b] \in Rows /\ bucket[b].blocked \in Nat
    BY DEF LoginTypeOK, Rows
<1> QED BY <1>1, AbsentRow DEF Cleanup, Blocked

\* A failure counts on from the row or starts a new window, and blocks for a
\* window once the maximum is reached.
LEMMA RecordedRow ==
    ASSUME LoginTypeOK, NEW row \in Rows, NEW max \in Nat \ {0}
    PROVE  LET new == RecordBucket(row, max)
           IN /\ new \in Rows
              /\ new.updated = now
              /\ new.count = 1 \/ new.count = row.count + 1
              /\ new.count >= max => new.blocked = now + Window
              /\ \/ row.started <= now - Window \/ row = Absent
                 \/ new.blocked = now + Window \/ new.blocked = row.blocked
<1> DEFINE fresh == row.started <= now - Window \/ row = Absent
           count == IF fresh THEN 1 ELSE row.count + 1
           started == IF fresh THEN now ELSE row.started
           blocked == IF count >= max THEN now + Window ELSE IF fresh THEN Never ELSE row.blocked
<1>1. RecordBucket(row, max) = [count |-> count, started |-> started, blocked |-> blocked, updated |-> now]
    BY DEF RecordBucket
<1>2. now \in Nat /\ row.count \in Nat /\ row.started \in Nat /\ row.blocked \in Nat
    BY DEF LoginTypeOK, Rows
<1>3. count \in Nat /\ (count = 1 \/ count = row.count + 1)
    BY <1>2
<1>4. started \in Nat
    BY <1>2
<1>5. /\ blocked \in Nat
      /\ count >= max => blocked = now + Window
      /\ fresh \/ blocked = now + Window \/ blocked = row.blocked
    BY <1>2, NumbersAssumption DEF Never
<1>6. RecordBucket(row, max) \in Rows
    <2> HIDE DEF fresh, count, started, blocked
    <2> QED BY <1>1, <1>2, <1>3, <1>4, <1>5 DEF Rows
<1> HIDE DEF count, started, blocked
<1> QED BY <1>1, <1>3, <1>5, <1>6

-----------------------------------------------------------------------------
(* The inductive invariant.                                                *)

\* The logins let in for a bucket whose failure, if they fail, is still to be
\* counted.
LoginsInFlight(b) == {p \in Processes : pc[p] \in {"checking", "failed"} /\ b \in Mine(p)}

\* A bucket at its maximum blocks for a window after its last failure, and has
\* room for every login that was let in before.
RowInv(row, max, flying) ==
    \/ row.count < max
    \/ /\ row.count + Cardinality(flying) <= max + Cardinality(Processes) - 1
       /\ row.blocked = row.updated + Window

LimiterInv == \A b \in Buckets : RowInv(bucket[b], MaxFailures(b), LoginsInFlight(b))

LEMMA FlightSizes ==
    ASSUME NEW S \in SUBSET Processes
    PROVE  /\ IsFiniteSet(S) /\ Cardinality(S) \in Nat /\ Cardinality(Processes) \in Nat
           /\ Cardinality(S) <= Cardinality(Processes)
           /\ \A p \in Processes : p \notin S => Cardinality(S) <= Cardinality(Processes) - 1
<1>1. IsFiniteSet(Processes) /\ Cardinality(Processes) \in Nat
    BY AccessAssumption, FS_CardinalityType
<1>2. IsFiniteSet(S) /\ Cardinality(S) \in Nat /\ Cardinality(S) <= Cardinality(Processes)
    BY <1>1, FS_Subset, FS_CardinalityType
<1>3. ASSUME NEW p \in Processes, p \notin S PROVE Cardinality(S) <= Cardinality(Processes) - 1
    <2>1. IsFiniteSet(Processes \ {p}) /\ Cardinality(Processes \ {p}) = Cardinality(Processes) - 1
        BY <1>1, FS_RemoveElement
    <2>2. S \subseteq Processes \ {p}
        BY <1>3
    <2> QED BY <2>1, <2>2, FS_Subset
<1> QED BY <1>1, <1>2, <1>3

\* With fewer logins in flight a row stays within its bound.
LEMMA FewerInFlight ==
    ASSUME NEW row \in Rows, NEW max \in Nat, NEW S \in SUBSET Processes, NEW T \in SUBSET S,
           RowInv(row, max, S)
    PROVE  RowInv(row, max, T)
<1>1. IsFiniteSet(S) /\ Cardinality(S) \in Nat /\ Cardinality(Processes) \in Nat
    BY FlightSizes
<1>2. Cardinality(T) \in Nat /\ Cardinality(T) <= Cardinality(S)
    BY <1>1, FS_Subset, FS_CardinalityType
<1>3. row.count \in Nat
    BY DEF Rows
<1> QED BY <1>1, <1>2, <1>3 DEF RowInv

\* A deleted row is within its bound.
LEMMA AbsentInv == ASSUME NEW max \in Nat \ {0}, NEW S PROVE RowInv(Absent, max, S)
BY AbsentRow DEF RowInv

-----------------------------------------------------------------------------
(* Every step keeps the types.                                             *)

LEMMA TypeStep == LoginTypeOK /\ [LoginNext]_loginVars => LoginTypeOK'
<1> SUFFICES ASSUME LoginTypeOK, [LoginNext]_loginVars PROVE LoginTypeOK'
    OBVIOUS
<1> USE NumbersAssumption
<1>1. ASSUME NEW p \in Processes, StartLogin(p) PROVE LoginTypeOK'
    <2>1. bucket' \in [Buckets -> Rows]
        BY <1>1, CleanupRows DEF StartLogin
    <2> QED BY <1>1, <2>1 DEF StartLogin, LoginTypeOK, Steps, Buckets
<1>2. ASSUME NEW p \in Processes, CheckPassword(p) PROVE LoginTypeOK'
    BY <1>2 DEF CheckPassword, LoginTypeOK, Steps
<1>3. ASSUME NEW p \in Processes, RecordFailure(p) PROVE LoginTypeOK'
    <2>1. \A b \in Buckets : Cleanup(bucket)[b] \in Rows
        BY CleanupRows
    <2>2. \A b \in Buckets : RecordBucket(Cleanup(bucket)[b], MaxFailures(b)) \in Rows
        BY <2>1, RecordedRow, MaxFailuresType
    <2>3. bucket' \in [Buckets -> Rows]
        BY <1>3, <2>1, <2>2 DEF RecordFailure
    <2> QED BY <1>3, <2>3 DEF RecordFailure, LoginTypeOK, Steps
<1>4. ASSUME NEW p \in Processes, RecordLoginFailure(p) PROVE LoginTypeOK'
    BY <1>4 DEF RecordLoginFailure, LoginTypeOK, Steps, Buckets
<1>5. ASSUME NEW p \in Processes, Clear(p) PROVE LoginTypeOK'
    <2>1. bucket' \in [Buckets -> Rows]
        BY <1>5, AbsentRow DEF Clear, LoginTypeOK
    <2> QED BY <1>5, <2>1 DEF Clear, LoginTypeOK, Steps
<1>6. ASSUME NEW p \in Processes, OpenSession(p) PROVE LoginTypeOK'
    <2>1. tokens + 1 \in 0..MaxTokens /\ now + SessionTtl \in Nat
        BY <1>6 DEF OpenSession, LoginTypeOK
    <2>2. /\ token' \in [Processes -> 0..MaxTokens] /\ tokens' \in 0..MaxTokens
          /\ sessions' \in [Tokens -> Nat]
        BY <1>6, <2>1 DEF OpenSession, LoginTypeOK
    <2>3. audit' \subseteq {"login_failed", "login_succeeded", "logout"} \X (0..MaxTokens)
        BY <1>6, <2>1 DEF OpenSession, LoginTypeOK
    <2>4. pc' \in [Processes -> Steps] /\ client' \in [Processes -> Buckets]
        BY <1>6 DEF OpenSession, LoginTypeOK, Steps, Buckets
    <2> QED BY <1>6, <2>2, <2>3, <2>4 DEF OpenSession, LoginTypeOK
<1>7. ASSUME NEW p \in Processes, StartLogout(p) PROVE LoginTypeOK'
    BY <1>7 DEF StartLogout, LoginTypeOK, Steps
<1>8. ASSUME NEW p \in Processes, Logout(p) PROVE LoginTypeOK'
    <2>1. sessions' \in [Tokens -> Nat]
        BY <1>8 DEF Logout, LoginTypeOK, Never
    <2>2. audit' \subseteq {"login_failed", "login_succeeded", "logout"} \X (0..MaxTokens)
        BY <1>8 DEF Logout, LoginTypeOK
    <2> QED BY <1>8, <2>1, <2>2 DEF Logout, LoginTypeOK, Steps
<1>9. ASSUME NEW p \in Processes, UseSession(p) PROVE LoginTypeOK'
    BY <1>9 DEF UseSession, LoginTypeOK, Tokens
<1>10. ASSUME NEW p \in Processes, Die(p) PROVE LoginTypeOK'
    <2>1. pc' \in [Processes -> Steps] /\ client' \in [Processes -> Buckets]
        BY <1>10 DEF Die, LoginTypeOK, Steps, Buckets
    <2> QED BY <1>10, <2>1 DEF Die, LoginTypeOK
<1>11. CASE Tick
    BY <1>11 DEF Tick, LoginTypeOK
<1>12. CASE UNCHANGED loginVars
    BY <1>12 DEF loginVars, LoginTypeOK
<1> QED BY <1>1, <1>2, <1>3, <1>4, <1>5, <1>6, <1>7, <1>8, <1>9, <1>10, <1>11, <1>12 DEF LoginNext

-----------------------------------------------------------------------------
(* Every step keeps the limiter's bound.                                   *)

\* Rows that are kept or deleted, while no login is let in.
LEMMA QuietLimiter ==
    ASSUME LoginTypeOK, LimiterInv,
           \A b \in Buckets : bucket'[b] \in {Absent, bucket[b]} /\ LoginsInFlight(b)' \subseteq LoginsInFlight(b)
    PROVE  LimiterInv'
<1> SUFFICES ASSUME NEW b \in Buckets PROVE RowInv(bucket'[b], MaxFailures(b), LoginsInFlight(b)')
    BY DEF LimiterInv, RowInv, MaxFailures
<1>1. RowInv(bucket[b], MaxFailures(b), LoginsInFlight(b)) /\ bucket[b] \in Rows
    BY DEF LimiterInv, LoginTypeOK
<1>2. LoginsInFlight(b) \subseteq Processes
    BY DEF LoginsInFlight
<1> QED BY <1>1, <1>2, AbsentInv, FewerInFlight, MaxFailuresType

\* A login is let in for a bucket only when its row does not block: a row at its
\* maximum is deleted first.
LEMMA StartLoginLimiter ==
    ASSUME LoginTypeOK, LimiterInv, NEW p \in Processes, StartLogin(p)
    PROVE  LimiterInv'
<1> SUFFICES ASSUME NEW b \in Buckets PROVE RowInv(bucket'[b], MaxFailures(b), LoginsInFlight(b)')
    BY DEF LimiterInv, RowInv, MaxFailures
<1>1. RowInv(bucket[b], MaxFailures(b), LoginsInFlight(b)) /\ bucket[b] \in Rows
    BY DEF LimiterInv, LoginTypeOK
<1>2. bucket'[b] = Cleanup(bucket)[b] /\ bucket'[b] \in {Absent, bucket[b]}
    BY CleanupRows DEF StartLogin
<1>3. CASE Blocked(b)
    <2>1. pc'[p] = "checking" => b \notin {Account, client'[p]}
        BY <1>3 DEF StartLogin, Allowed, LoginTypeOK
    <2>2. \A q \in Processes \ {p} : pc'[q] = pc[q] /\ client'[q] = client[q]
        BY DEF StartLogin, LoginTypeOK
    <2>3. pc'[p] \in {"checking", "refused"}
        BY DEF StartLogin, LoginTypeOK
    <2>4. LoginsInFlight(b)' \subseteq LoginsInFlight(b) /\ LoginsInFlight(b) \subseteq Processes
        BY <2>1, <2>2, <2>3 DEF LoginsInFlight, Mine
    <2> QED BY <1>1, <1>2, <2>4, AbsentInv, FewerInFlight, MaxFailuresType
<1>4. CASE ~Blocked(b) /\ bucket'[b] # Absent
    <2>1. ~(bucket[b].updated <= now - Window)
        BY <1>2, <1>4, CleanupRows
    <2>2. /\ bucket[b].blocked \in Nat /\ bucket[b].updated \in Nat /\ now \in Nat
          /\ bucket[b].blocked <= now
        BY <1>1, <1>4 DEF Rows, LoginTypeOK, Blocked
    <2>3. bucket[b].count < MaxFailures(b)
        BY <1>1, <2>1, <2>2, NumbersAssumption DEF RowInv
    <2> QED BY <1>2, <1>4, <2>3 DEF RowInv
<1>5. CASE bucket'[b] = Absent
    BY <1>5, AbsentInv, MaxFailuresType
<1> QED BY <1>3, <1>4, <1>5

\* A failure that is counted was in flight.
LEMMA RecordFailureLimiter ==
    ASSUME LoginTypeOK, LimiterInv, NEW p \in Processes, RecordFailure(p)
    PROVE  LimiterInv'
<1> SUFFICES ASSUME NEW b \in Buckets PROVE RowInv(bucket'[b], MaxFailures(b), LoginsInFlight(b)')
    BY DEF LimiterInv, RowInv, MaxFailures
<1> DEFINE row == Cleanup(bucket)[b]  max == MaxFailures(b)
           flying == LoginsInFlight(b)  left == LoginsInFlight(b)'
<1>1. RowInv(bucket[b], max, flying) /\ bucket[b] \in Rows /\ max \in Nat \ {0}
    BY MaxFailuresType DEF LimiterInv, LoginTypeOK
<1>2. row \in {Absent, bucket[b]} /\ row \in Rows /\ row.count \in Nat
    BY CleanupRows DEF Rows
<1>3. flying \subseteq Processes /\ left \subseteq Processes
    BY DEF LoginsInFlight
<1>4. left = flying \ {p} /\ (b \in Mine(p) => p \in flying)
    <2>1. pc[p] = "failed" /\ pc'[p] = "refused" /\ client' = client
        BY DEF RecordFailure, LoginTypeOK
    <2>2. \A q \in Processes \ {p} : pc'[q] = pc[q]
        BY DEF RecordFailure, LoginTypeOK
    <2> QED BY <2>1, <2>2 DEF LoginsInFlight, Mine
<1>5. RowInv(row, max, flying)
    BY <1>1, <1>2, AbsentInv
<1>6. CASE b \notin Mine(p)
    <2>1. bucket'[b] = row
        BY <1>6 DEF RecordFailure
    <2> QED BY <1>1, <1>2, <1>3, <1>4, <1>5, <2>1, FewerInFlight
<1>7. CASE b \in Mine(p)
    <2> DEFINE new == RecordBucket(row, max)
    <2>1. bucket'[b] = new
        BY <1>7 DEF RecordFailure
    <2>2. /\ new \in Rows /\ new.updated = now /\ new.count \in Nat
          /\ new.count = 1 \/ new.count = row.count + 1
          /\ new.count >= max => new.blocked = now + Window
        BY <1>1, <1>2, RecordedRow DEF Rows
    <2> HIDE DEF row, max, flying, left, new
    <2>3. /\ Cardinality(flying) \in Nat /\ Cardinality(Processes) \in Nat /\ IsFiniteSet(flying)
          /\ Cardinality(flying) <= Cardinality(Processes)
        BY <1>3, FlightSizes
    <2>4. Cardinality(left) = Cardinality(flying) - 1
        BY <1>4, <1>7, <2>3, FS_RemoveElement
    <2>5. new.count >= max => new.count + Cardinality(left) <= max + Cardinality(Processes) - 1
        BY <1>1, <1>2, <1>5, <2>2, <2>3, <2>4 DEF RowInv
    <2>6. RowInv(new, max, left)
        BY <1>1, <2>2, <2>5 DEF RowInv
    <2> QED BY <2>1, <2>6 DEF max, left
<1> QED BY <1>6, <1>7

LEMMA LimiterStep == LoginTypeOK /\ LimiterInv /\ [LoginNext]_loginVars => LimiterInv'
<1> SUFFICES ASSUME LoginTypeOK, LimiterInv, [LoginNext]_loginVars PROVE LimiterInv'
    OBVIOUS
<1>1. ASSUME NEW p \in Processes, StartLogin(p) PROVE LimiterInv'
    BY <1>1, StartLoginLimiter
<1>2. ASSUME NEW p \in Processes, RecordFailure(p) PROVE LimiterInv'
    BY <1>2, RecordFailureLimiter
<1>3. ASSUME NEW p \in Processes,
             \/ CheckPassword(p) \/ RecordLoginFailure(p) \/ Clear(p) \/ OpenSession(p)
             \/ StartLogout(p) \/ Logout(p) \/ UseSession(p) \/ Die(p)
      PROVE  LimiterInv'
    <2>1. \A b \in Buckets : bucket'[b] \in {Absent, bucket[b]}
        BY <1>3 DEF CheckPassword, RecordLoginFailure, Clear, OpenSession, StartLogout, Logout,
            UseSession, Die
    <2>2. \A q \in Processes \ {p} : pc'[q] = pc[q] /\ client'[q] = client[q]
        BY <1>3 DEF CheckPassword, RecordLoginFailure, Clear, OpenSession, StartLogout, Logout,
            UseSession, Die, LoginTypeOK
    <2>3. \/ pc'[p] \notin {"checking", "failed"}
          \/ pc[p] \in {"checking", "failed"} /\ client'[p] = client[p]
        BY <1>3 DEF CheckPassword, RecordLoginFailure, Clear, OpenSession, StartLogout, Logout,
            UseSession, Die, LoginTypeOK
    <2>4. \A b \in Buckets : LoginsInFlight(b)' \subseteq LoginsInFlight(b)
        BY <2>2, <2>3 DEF LoginsInFlight, Mine
    <2> QED BY <2>1, <2>4, QuietLimiter
<1>4. CASE UNCHANGED <<bucket, pc, client>>
    BY <1>4, QuietLimiter DEF LoginsInFlight, Mine
<1> QED BY <1>1, <1>2, <1>3, <1>4 DEF LoginNext, Tick, loginVars

-----------------------------------------------------------------------------
(* Theorems.                                                               *)

\* The specification keeps the types and the limiter's bound.
LEMMA AccessInvariant == LoginSpec => [](LoginTypeOK /\ LimiterInv)
<1>1. LoginInit => LoginTypeOK /\ LimiterInv
    <2> SUFFICES ASSUME LoginInit PROVE LoginTypeOK /\ LimiterInv
        OBVIOUS
    <2>1. LoginTypeOK
        BY AbsentRow, NumbersAssumption DEF LoginInit, LoginTypeOK, Steps, Buckets, Never
    <2>2. LimiterInv
        BY AbsentInv, MaxFailuresType DEF LoginInit, LimiterInv
    <2> QED BY <2>1, <2>2
<1> QED BY <1>1, TypeStep, LimiterStep, PTL DEF LoginSpec

\* Every state has its type.
THEOREM LoginTypeCorrect == LoginSpec => []LoginTypeOK
BY AccessInvariant, PTL

\* However many logins are checked at once, a bucket counts at most its maximum
\* and one failure for each other process.
THEOREM OverrunIsBounded == LoginSpec => []OverrunBounded
<1>1. LoginTypeOK /\ LimiterInv => OverrunBounded
    <2> SUFFICES ASSUME LoginTypeOK, LimiterInv, NEW b \in Buckets
                 PROVE  bucket[b].count <= MaxFailures(b) + Cardinality(Processes) - 1
        BY DEF OverrunBounded
    <2>1. RowInv(bucket[b], MaxFailures(b), LoginsInFlight(b)) /\ bucket[b].count \in Nat
        BY DEF LimiterInv, LoginTypeOK, Rows
    <2>2. LoginsInFlight(b) \subseteq Processes /\ Processes \subseteq Processes
        BY DEF LoginsInFlight
    <2>3. Cardinality(LoginsInFlight(b)) \in Nat /\ Cardinality(Processes) \in Nat
        BY <2>2, FlightSizes
    <2> QED BY <2>1, <2>3, MaxFailuresType DEF RowInv
<1> QED BY <1>1, AccessInvariant, PTL
\* What BlockLasts says of one step.
LEMMA BlockStep ==
    ASSUME LoginTypeOK, [LoginNext]_loginVars, NEW b \in Buckets, Blocked(b), bucket'[b].blocked <= now'
    PROVE  \/ now' > now
           \/ \E p \in Processes : pc[p] = "passed" /\ pc'[p] = "cleared" /\ b \in Mine(p)
           \/ LateFailure(b)
<1>1. /\ now \in Nat /\ bucket[b] \in Rows /\ bucket[b].blocked \in Nat /\ bucket[b].blocked > now
      /\ Cleanup(bucket)[b] = bucket[b]
    BY CleanupRows DEF LoginTypeOK, Rows, Blocked
<1>2. bucket'[b] = bucket[b] => now' > now
    <2>1. now' = now \/ now' = now + 1
        BY DEF LoginNext, loginVars, Tick, StartLogin, CheckPassword, RecordFailure, RecordLoginFailure, Clear,
            OpenSession, StartLogout, Logout, UseSession, Die
    <2> QED BY <1>1, <2>1
<1>3. CASE \E p \in Processes : StartLogin(p)
    BY <1>1, <1>2, <1>3 DEF StartLogin
<1>4. ASSUME NEW p \in Processes, RecordFailure(p) PROVE now' > now \/ LateFailure(b)
    <2>1. CASE b \notin Mine(p)
        BY <1>1, <1>2, <1>4, <2>1 DEF RecordFailure
    <2>2. CASE b \in Mine(p)
        <3> DEFINE new == RecordBucket(bucket[b], MaxFailures(b))
        <3>1. bucket'[b] = new /\ now' = now
            BY <1>1, <1>4, <2>2 DEF RecordFailure
        <3>2. \/ bucket[b].started <= now - Window \/ bucket[b] = Absent
              \/ new.blocked = now + Window \/ new.blocked = bucket[b].blocked
            BY <1>1, RecordedRow, MaxFailuresType
        <3>3. bucket[b] # Absent
            BY <1>1, AbsentRow
        <3> HIDE DEF new
        <3>4. bucket[b].started <= now - Window
            BY <1>1, <3>1, <3>2, <3>3, NumbersAssumption
        <3>5. pc[p] = "failed" /\ pc'[p] = "refused"
            BY <1>4 DEF RecordFailure, LoginTypeOK
        <3> QED BY <2>2, <3>4, <3>5 DEF LateFailure
    <2> QED BY <2>1, <2>2
<1>5. ASSUME NEW p \in Processes, Clear(p)
      PROVE  now' > now \/ (pc[p] = "passed" /\ pc'[p] = "cleared" /\ b \in Mine(p))
    BY <1>2, <1>5 DEF Clear, LoginTypeOK
<1>6. CASE UNCHANGED bucket
    BY <1>2, <1>6
<1> QED BY <1>3, <1>4, <1>5, <1>6 DEF LoginNext, loginVars, Tick, CheckPassword, RecordLoginFailure,
            OpenSession, StartLogout, Logout, UseSession, Die

\* A block is lifted by time, by a login that succeeds, or by a failure that was
\* let in before it and is counted after the window of its bucket.
THEOREM BlocksLast == LoginSpec => BlockLasts
<1>1. LoginTypeOK /\ [LoginNext]_loginVars =>
        [\A b \in Buckets : Blocked(b) /\ bucket'[b].blocked <= now' =>
            \/ now' > now
            \/ \E p \in Processes : pc[p] = "passed" /\ pc'[p] = "cleared" /\ b \in Mine(p)
            \/ LateFailure(b)]_loginVars
    BY BlockStep
<1> QED BY <1>1, LoginTypeCorrect, PTL DEF LoginSpec, BlockLasts

-----------------------------------------------------------------------------
(* Storage: induction, and what the sizes add up to.                       *)

Smaller == {p \in Nat \X Nat : p[1] < p[2]}

LEMMA LeastNumber ==
    ASSUME NEW S \in SUBSET Nat, S # {}
    PROVE  \E m \in S : \A k \in S : m <= k
<1>1. IsWellFoundedOn(Smaller, Nat)
    BY NatLessThanWellFounded DEF Smaller, OpToRel
<1>2. PICK m \in S : \A k \in S : ~(<<k, m>> \in Smaller)
    BY <1>1, WFMin
<1>3. ASSUME NEW k \in S PROVE m <= k
    <2>1. k \in Nat /\ m \in Nat
        OBVIOUS
    <2>2. ~(k < m)
        BY <1>2, <2>1 DEF Smaller
    <2> QED BY <2>1, <2>2
<1> QED BY <1>3

LEMMA NumbersByInduction ==
    ASSUME NEW T, 0 \in T, \A n \in Nat : n \in T => n + 1 \in T
    PROVE  Nat \subseteq T
<1> SUFFICES ASSUME Nat \ T # {} PROVE FALSE
    OBVIOUS
<1>1. PICK m \in Nat \ T : \A k \in Nat \ T : m <= k
    BY LeastNumber
<1>2. m # 0 /\ m - 1 \in Nat
    BY <1>1
<1>3. m - 1 \in T
    BY <1>1, <1>2
<1>4. (m - 1) + 1 = m
    BY <1>1
<1> QED BY <1>2, <1>3, <1>4

LEMMA BoundsFact ==
    FileCount \in Nat /\ TotalBytes \in Nat /\ MaxUploads \in Nat /\ MaxFaults \in Nat
BY StorageAssumption

\* sum adds up the first n values of f.
Sums(sum, f, n) == sum = [k \in 0..n |-> IF k = 0 THEN 0 ELSE sum[k - 1] + f[k]]

LEMMA SumExists ==
    ASSUME NEW f \in [Ids -> Nat]
    PROVE  \E sum : Sums(sum, f, MaxUploads)
<1> DEFINE T == {n \in Nat : n <= MaxUploads => \E sum : Sums(sum, f, n) /\ sum \in [0..n -> Nat]}
<1>0. MaxUploads \in Nat
    BY BoundsFact
<1>1. 0 \in T
    <2> DEFINE sum == [k \in 0..0 |-> 0]
    <2>1. Sums(sum, f, 0) /\ sum \in [0..0 -> Nat]
        BY DEF Sums
    <2> QED BY <2>1
<1>2. ASSUME NEW n \in Nat, n \in T PROVE n + 1 \in T
    <2> SUFFICES ASSUME n + 1 <= MaxUploads
                 PROVE  \E sum : Sums(sum, f, n + 1) /\ sum \in [0..n + 1 -> Nat]
        OBVIOUS
    <2>1. PICK g : Sums(g, f, n) /\ g \in [0..n -> Nat]
        BY <1>0, <1>2
    <2>2. f[n + 1] \in Nat
        BY <1>0 DEF Ids
    <2> DEFINE sum == [k \in 0..n + 1 |-> IF k = n + 1 THEN g[n] + f[n + 1] ELSE g[k]]
    <2>3. sum \in [0..n + 1 -> Nat]
        BY <2>1, <2>2
    <2>4. \A k \in 0..n + 1 : sum[k] = IF k = 0 THEN 0 ELSE sum[k - 1] + f[k]
        BY <2>1 DEF Sums
    <2>5. Sums(sum, f, n + 1)
        BY <2>4 DEF Sums
    <2> QED BY <2>3, <2>5
<1> HIDE DEF T
<1>3. Nat \subseteq T
    BY <1>1, <1>2, NumbersByInduction
<1>4. MaxUploads \in T
    BY <1>0, <1>3
<1> QED BY <1>0, <1>4 DEF T

\* Total is what it says: the first value, and each next one.
LEMMA TotalIsSum ==
    ASSUME NEW f \in [Ids -> Nat]
    PROVE  \E sum \in [0..MaxUploads -> Nat] :
             /\ sum[0] = 0 /\ sum[MaxUploads] = Total(f)
             /\ \A k \in Ids : sum[k] = sum[k - 1] + f[k]
<1> DEFINE c == CHOOSE sum : sum = [n \in 0..MaxUploads |-> IF n = 0 THEN 0 ELSE sum[n - 1] + f[n]]
<1>0. MaxUploads \in Nat
    BY BoundsFact
<1>1. \E sum : sum = [n \in 0..MaxUploads |-> IF n = 0 THEN 0 ELSE sum[n - 1] + f[n]]
    BY SumExists DEF Sums
<1>2. c = [n \in 0..MaxUploads |-> IF n = 0 THEN 0 ELSE c[n - 1] + f[n]]
    BY <1>1
<1>3. Total(f) = c[MaxUploads]
    BY DEF Total
<1> HIDE DEF c
<1>4. c[0] = 0 /\ \A k \in 1..MaxUploads : c[k] = c[k - 1] + f[k]
    BY <1>0, <1>2
<1> DEFINE T == {n \in Nat : n <= MaxUploads => c[n] \in Nat}
<1>5. 0 \in T
    BY <1>4
<1>6. ASSUME NEW n \in Nat, n \in T PROVE n + 1 \in T
    <2> SUFFICES ASSUME n + 1 <= MaxUploads PROVE c[n + 1] \in Nat
        OBVIOUS
    <2>1. c[n] \in Nat /\ n + 1 \in 1..MaxUploads /\ (n + 1) - 1 = n
        BY <1>0, <1>6
    <2>2. f[n + 1] \in Nat
        BY <2>1 DEF Ids
    <2>3. c[n + 1] = c[n] + f[n + 1]
        BY <1>4, <2>1
    <2> QED BY <2>1, <2>2, <2>3
<1> HIDE DEF T
<1>7. Nat \subseteq T
    BY <1>5, <1>6, NumbersByInduction
<1>8. \A n \in 0..MaxUploads : c[n] \in Nat
    BY <1>0, <1>7 DEF T
<1>9. c \in [0..MaxUploads -> Nat]
    BY <1>2, <1>8
<1> QED BY <1>3, <1>4, <1>9 DEF Ids

\* A value that grows by n makes the total grow by n.
LEMMA TotalGrows ==
    ASSUME NEW f \in [Ids -> Nat], NEW g \in [Ids -> Nat], NEW id \in Ids, NEW n \in Nat,
           g[id] = f[id] + n, \A k \in Ids \ {id} : g[k] = f[k]
    PROVE  Total(g) = Total(f) + n
<1>0. MaxUploads \in Nat
    BY BoundsFact
<1>1. PICK s \in [0..MaxUploads -> Nat] :
         s[0] = 0 /\ s[MaxUploads] = Total(f) /\ \A k \in Ids : s[k] = s[k - 1] + f[k]
    BY TotalIsSum
<1>2. PICK t \in [0..MaxUploads -> Nat] :
         t[0] = 0 /\ t[MaxUploads] = Total(g) /\ \A k \in Ids : t[k] = t[k - 1] + g[k]
    BY TotalIsSum
<1> DEFINE T == {k \in Nat : k <= MaxUploads => t[k] = IF id \in 1..k THEN s[k] + n ELSE s[k]}
<1>3. 0 \in T
    BY <1>1, <1>2
<1>4. ASSUME NEW k \in Nat, k \in T PROVE k + 1 \in T
    <2> SUFFICES ASSUME k + 1 <= MaxUploads
                 PROVE  t[k + 1] = IF id \in 1..k + 1 THEN s[k + 1] + n ELSE s[k + 1]
        OBVIOUS
    <2>1. /\ k + 1 \in Ids /\ (k + 1) - 1 = k /\ k \in 0..MaxUploads
          /\ t[k] = IF id \in 1..k THEN s[k] + n ELSE s[k]
        BY <1>0, <1>4 DEF Ids
    <2>2. s[k + 1] = s[k] + f[k + 1] /\ t[k + 1] = t[k] + g[k + 1]
        BY <1>1, <1>2, <2>1
    <2>3. f[k + 1] \in Nat /\ g[k + 1] \in Nat /\ s[k] \in Nat /\ t[k] \in Nat
        BY <2>1
    <2>4. g[k + 1] = IF k + 1 = id THEN f[k + 1] + n ELSE f[k + 1]
        BY <2>1
    <2>5. CASE id = k + 1
        BY <2>1, <2>2, <2>3, <2>4, <2>5
    <2>6. CASE id # k + 1
        <3>1. id \in 1..k + 1 <=> id \in 1..k
            BY <2>6
        <3> QED BY <2>1, <2>2, <2>3, <2>4, <2>6, <3>1
    <2> QED BY <2>5, <2>6
<1> HIDE DEF T
<1>5. Nat \subseteq T
    BY <1>3, <1>4, NumbersByInduction
<1>6. MaxUploads \in T
    BY <1>0, <1>5
<1>7. t[MaxUploads] = s[MaxUploads] + n
    BY <1>0, <1>6 DEF T, Ids
<1> QED BY <1>1, <1>2, <1>7

-----------------------------------------------------------------------------
(* What a step does to a request.                                          *)

Active(r) == up[r].step # "idle"

LEMMA AnswerFacts ==
    ASSUME TypeOK, NEW r \in Requests, NEW how \in {"idle", "undo"}, Answer(r, how)
    PROVE  /\ up' \in [Requests -> UploadRequests] /\ \A s \in Requests \ {r} : up'[s] = up[s]
           /\ up'[r].step = how /\ up'[r].id = up[r].id
<1> DEFINE new == [up[r] EXCEPT !.step = how]
<1>1. up[r] \in UploadRequests /\ up' = [up EXCEPT ![r] = new]
    BY DEF Answer, TypeOK
<1>2. new \in UploadRequests /\ new.step = how /\ new.id = up[r].id
    BY <1>1 DEF UploadRequests
<1> HIDE DEF new
<1> QED BY <1>1, <1>2 DEF TypeOK

LEMMA WriteFacts ==
    ASSUME TypeOK, NEW r \in Requests, WriteFile(r)
    PROVE  /\ up' \in [Requests -> UploadRequests] /\ \A s \in Requests \ {r} : up'[s] = up[s]
           /\ up'[r].step = "written" /\ up'[r].id = uploads + 1
           /\ uploads' = uploads + 1 /\ uploads' \in 0..MaxUploads
           /\ size' \in [Ids -> Nat] /\ \A id \in 1..uploads : size'[id] = size[id]
<1> DEFINE new == [step |-> "written", id |-> uploads + 1]
<1>1. uploads + 1 \in 0..MaxUploads /\ uploads \in Nat
    BY BoundsFact DEF WriteFile, TypeOK
<1>2. up' = [up EXCEPT ![r] = new]
    BY DEF WriteFile
<1>3. new \in UploadRequests /\ new.step = "written" /\ new.id = uploads + 1
    BY <1>1 DEF UploadRequests
<1> HIDE DEF new
<1>4. PICK n \in Sizes : size' = [size EXCEPT ![uploads + 1] = n]
    BY DEF WriteFile
<1>5. n \in Nat
    BY <1>4, StorageAssumption
<1>6. size' \in [Ids -> Nat]
    BY <1>4, <1>5 DEF TypeOK
<1>7. \A id \in 1..uploads : id \in Ids /\ id # uploads + 1
    BY <1>1, BoundsFact DEF Ids
<1>8. \A id \in 1..uploads : size'[id] = size[id]
    BY <1>4, <1>7 DEF TypeOK
<1> QED BY <1>1, <1>2, <1>3, <1>6, <1>8 DEF TypeOK, WriteFile

LEMMA RequestEffect ==
    ASSUME TypeOK, NEW r \in Requests, RequestStep(r)
    PROVE  /\ \A s \in Requests \ {r} : up'[s] = up[s]
           /\ up' \in [Requests -> UploadRequests]
           /\ \/ WriteFile(r) /\ up'[r].step = "written" /\ up'[r].id = uploads + 1
              \/ /\ Active(r) /\ up'[r].step \in {"idle", "undo"} /\ up'[r].id = up[r].id
                 /\ UNCHANGED <<uploads, size>>
<1>1. CASE WriteFile(r)
    BY <1>1, WriteFacts
<1>2. CASE SaveRow(r) \/ SaveFails(r) \/ Unlink(r) \/ RequestDies(r)
    <2>1. Active(r) /\ UNCHANGED <<uploads, size>>
        BY <1>2 DEF SaveRow, SaveFails, Unlink, RequestDies, Active
    <2>2. Answer(r, "idle") \/ Answer(r, "undo")
        BY <1>2 DEF SaveRow, SaveFails, Unlink, RequestDies
    <2> QED BY <2>1, <2>2, AnswerFacts
<1> QED BY <1>1, <1>2 DEF RequestStep

-----------------------------------------------------------------------------
(* Types, and the ids of the requests at work.                             *)

\* Requests at work have ids of their own; a row is not saved twice.
IdsInv ==
    /\ \A r \in Requests : Active(r) => up[r].id \in 1..uploads
    /\ \A r, s \in Requests : Active(r) /\ Active(s) /\ r # s => up[r].id # up[s].id
    /\ \A r \in Requests : up[r].step = "written" => up[r].id \notin rows

LEMMA FaultType == ASSUME TypeOK, Fault PROVE faults' \in 0..MaxFaults /\ faults' # 0
BY BoundsFact DEF Fault, TypeOK

LEMMA QuotaType == ASSUME TypeOK PROVE quota.count \in Nat /\ quota.bytes \in Nat
BY DEF TypeOK, Quotas

LEMMA StorageTypes ==
    ASSUME TypeOK, IdsInv, NEW r \in Requests, RequestStep(r)
    PROVE  TypeOK'
<1>0. up' \in [Requests -> UploadRequests]
    BY RequestEffect
<1>1. CASE WriteFile(r)
    <2>1. uploads \in Nat /\ uploads' = uploads + 1 /\ uploads' \in 0..MaxUploads /\ size' \in [Ids -> Nat]
        BY <1>1, WriteFacts DEF TypeOK
    <2>2. 1..uploads \subseteq 1..uploads' /\ uploads + 1 \in 1..uploads'
        BY <2>1
    <2>3. {files', rows', unanswered'} \subseteq SUBSET (1..uploads')
        BY <1>1, <2>2 DEF WriteFile, TypeOK
    <2>4. quota' \in Quotas /\ faults' \in 0..MaxFaults
        BY <1>1 DEF WriteFile, TypeOK
    <2> QED BY <1>0, <2>1, <2>3, <2>4 DEF TypeOK
<1>2. CASE ~WriteFile(r)
    <2>1. Active(r) /\ UNCHANGED <<uploads, size>> /\ up[r].id \in 1..uploads
        BY <1>2, RequestEffect DEF IdsInv
    <2>2. up[r].id \in Ids
        BY <2>1, BoundsFact DEF TypeOK, Ids
    <2>3. size[up[r].id] \in Nat
        BY <2>2 DEF TypeOK
    <2>4. quota' \in Quotas
        <3>1. quota' = quota \/ quota' = [count |-> quota.count + 1, bytes |-> quota.bytes + size[up[r].id]]
            BY <1>2 DEF RequestStep, SaveRow, SaveFails, Unlink, RequestDies
        <3> QED BY <2>3, <3>1, QuotaType DEF Quotas, TypeOK
    <2>5. faults' \in 0..MaxFaults
        BY <1>2, FaultType DEF RequestStep, SaveRow, SaveFails, Unlink, RequestDies, TypeOK
    <2>6. /\ files' \subseteq files /\ rows' \subseteq rows \cup {up[r].id}
          /\ unanswered' \subseteq unanswered \cup {up[r].id}
        BY <1>2 DEF RequestStep, SaveRow, SaveFails, Unlink, RequestDies
    <2>7. {files', rows', unanswered'} \subseteq SUBSET (1..uploads')
        BY <2>1, <2>6 DEF TypeOK
    <2> QED BY <1>0, <2>1, <2>4, <2>5, <2>7 DEF TypeOK
<1> QED BY <1>1, <1>2

LEMMA IdsRequests ==
    ASSUME TypeOK, IdsInv, NEW r \in Requests, RequestStep(r)
    PROVE  IdsInv'
<1>0. uploads \in Nat /\ rows \in SUBSET (1..uploads)
    BY DEF TypeOK
<1>1. /\ \A s \in Requests \ {r} : up'[s] = up[s]
      /\ \/ WriteFile(r) /\ up'[r].step = "written" /\ up'[r].id = uploads + 1
         \/ Active(r) /\ up'[r].step \in {"idle", "undo"} /\ up'[r].id = up[r].id /\ uploads' = uploads
    BY RequestEffect
<1>2. CASE WriteFile(r)
    <2>1. uploads' = uploads + 1 /\ rows' = rows /\ up'[r].step = "written" /\ up'[r].id = uploads + 1
        BY <1>2, WriteFacts DEF WriteFile
    <2>2. \A s \in Requests \ {r} : Active(s)' => up'[s].id \in 1..uploads
        BY <1>1 DEF IdsInv, Active
    <2>3. ASSUME NEW s \in Requests, Active(s)' PROVE up'[s].id \in 1..uploads'
        BY <1>0, <2>1, <2>2, <2>3
    <2>4. ASSUME NEW s \in Requests, NEW t \in Requests, Active(s)', Active(t)', s # t
          PROVE  up'[s].id # up'[t].id
        <3>1. CASE s # r /\ t # r
            BY <1>1, <2>4, <3>1 DEF IdsInv, Active
        <3>2. CASE s = r \/ t = r
            BY <1>0, <2>1, <2>2, <2>4, <3>2
        <3> QED BY <3>1, <3>2
    <2>5. ASSUME NEW s \in Requests, up'[s].step = "written" PROVE up'[s].id \notin rows'
        <3>1. CASE s = r
            BY <1>0, <2>1, <3>1
        <3>2. CASE s # r
            BY <1>1, <2>1, <2>5, <3>2 DEF IdsInv
        <3> QED BY <3>1, <3>2
    <2> QED BY <2>3, <2>4, <2>5 DEF IdsInv
<1>3. CASE ~WriteFile(r)
    <2>1. \A s \in Requests : Active(s)' => up'[s].id \in 1..uploads'
        BY <1>1, <1>3 DEF IdsInv, Active
    <2>2. \A s, t \in Requests : Active(s)' /\ Active(t)' /\ s # t => up'[s].id # up'[t].id
        BY <1>1, <1>3 DEF IdsInv, Active
    <2>3. rows' = rows \/ (rows' = rows \cup {up[r].id} /\ Active(r))
        BY <1>3 DEF RequestStep, SaveRow, SaveFails, Unlink, RequestDies, Active
    <2>4. ASSUME NEW s \in Requests, up'[s].step = "written" PROVE up'[s].id \notin rows'
        <3>1. s # r /\ up[s].step = "written" /\ up'[s].id = up[s].id /\ Active(s)
            BY <1>1, <1>3, <2>4 DEF Active
        <3> QED BY <2>3, <3>1 DEF IdsInv
    <2> QED BY <2>1, <2>2, <2>4 DEF IdsInv
<1> QED BY <1>2, <1>3

-----------------------------------------------------------------------------
(* The quota, and the files.                                               *)

QuotaInv ==
    /\ quota.count = Cardinality(rows) /\ quota.count <= FileCount
    /\ quota.bytes = StoredBytes /\ quota.bytes <= TotalBytes

\* A file is there from before its row is saved until a request that got no
\* answer takes it away; without a fault no other file is there.
FilesInv ==
    /\ rows \ files \subseteq unanswered
    /\ \A r \in Requests : /\ up[r].step = "written" => up[r].id \in files
                           /\ up[r].step = "undo" /\ up[r].id \in rows => up[r].id \in unanswered
    /\ faults = 0 =>
          /\ unanswered = {}
          /\ \A id \in files : id \in rows \/ \E r \in Requests : Active(r) /\ up[r].id = id

Sized(S, f) == [id \in Ids |-> IF id \in S THEN f[id] ELSE 0]

LEMMA SizedType == ASSUME TypeOK, NEW S PROVE Sized(S, size) \in [Ids -> Nat]
BY DEF Sized, TypeOK

LEMMA QuotaRequests ==
    ASSUME TypeOK, IdsInv, QuotaInv, NEW r \in Requests, RequestStep(r)
    PROVE  QuotaInv'
<1>1. CASE WriteFile(r)
    <2>1. /\ UNCHANGED <<quota, rows>> /\ rows \subseteq 1..uploads
          /\ \A id \in 1..uploads : size'[id] = size[id]
        BY <1>1, WriteFacts DEF WriteFile, TypeOK
    <2>2. Sized(rows, size)' = Sized(rows, size)
        BY <2>1 DEF Sized
    <2>3. StoredBytes' = StoredBytes
        BY <2>2 DEF StoredBytes, Sized
    <2> QED BY <2>1, <2>3 DEF QuotaInv
<1>2. CASE SaveRow(r)
    <2> DEFINE id == up[r].id
    <2>1. /\ rows' = rows \cup {id} /\ UNCHANGED size /\ id \notin rows /\ id \in 1..uploads
          /\ quota' = [count |-> quota.count + 1, bytes |-> quota.bytes + size[id]]
          /\ quota.count < FileCount /\ quota.bytes + size[id] <= TotalBytes
        BY <1>2 DEF SaveRow, QuotaLeft, IdsInv, Active
    <2>2. id \in Ids
        BY <2>1, BoundsFact DEF TypeOK, Ids
    <2>3. size[id] \in Nat
        BY <2>2 DEF TypeOK
    <2> HIDE DEF id
    <2>4. quota'.count = quota.count + 1 /\ quota'.bytes = quota.bytes + size[id]
        BY <2>1
    <2>5. IsFiniteSet(rows)
        <3>1. IsFiniteSet(1..uploads)
            BY FS_Interval DEF TypeOK
        <3> QED BY <3>1, FS_Subset DEF TypeOK
    <2>6. Cardinality(rows') = Cardinality(rows) + 1
        BY <2>1, <2>5, FS_AddElement
    <2> DEFINE f == Sized(rows, size)
               g == Sized(rows', size)
    <2>7. f \in [Ids -> Nat] /\ g \in [Ids -> Nat]
        BY SizedType
    <2>8. g[id] = f[id] + size[id] /\ \A k \in Ids \ {id} : g[k] = f[k]
        BY <2>1, <2>2, <2>3 DEF Sized
    <2>9. StoredBytes = Total(f)
        BY DEF StoredBytes, Sized
    <2>10. StoredBytes' = Total(g)
        BY <2>1 DEF StoredBytes, Sized
    <2> HIDE DEF f, g
    <2>11. Total(g) = Total(f) + size[id]
        <3>1. \A n \in Nat : g[id] = f[id] + n => Total(g) = Total(f) + n
            BY <2>2, <2>7, <2>8, TotalGrows
        <3> QED BY <2>3, <2>8, <3>1
    <2> QED BY <2>1, <2>3, <2>4, <2>6, <2>9, <2>10, <2>11, QuotaType, BoundsFact DEF QuotaInv
<1>3. CASE SaveFails(r) \/ Unlink(r) \/ RequestDies(r)
    <2>1. UNCHANGED <<quota, rows, size>>
        BY <1>3 DEF SaveFails, Unlink, RequestDies
    <2> QED BY <2>1 DEF QuotaInv, StoredBytes
<1> QED BY <1>1, <1>2, <1>3 DEF RequestStep

LEMMA FilesRequests ==
    ASSUME TypeOK, IdsInv, FilesInv, NEW r \in Requests, RequestStep(r)
    PROVE  FilesInv'
<1>0. /\ rows \ files \subseteq unanswered
      /\ \A s \in Requests : /\ up[s].step = "written" => up[s].id \in files
                             /\ up[s].step = "undo" /\ up[s].id \in rows => up[s].id \in unanswered
      /\ faults = 0 =>
            /\ unanswered = {}
            /\ \A id \in files : id \in rows \/ \E s \in Requests : Active(s) /\ up[s].id = id
    BY DEF FilesInv
<1>1. \A s \in Requests \ {r} : up'[s] = up[s] /\ Active(s)' = Active(s)
    BY RequestEffect DEF Active
<1>2. CASE WriteFile(r)
    <2>1. /\ files' = files \cup {uploads + 1} /\ UNCHANGED <<rows, unanswered, faults>>
          /\ up'[r].step = "written" /\ up'[r].id = uploads + 1 /\ Active(r)' /\ ~Active(r)
        BY <1>2, WriteFacts DEF WriteFile, Active
    <2>2. rows' \ files' \subseteq unanswered'
        BY <1>0, <2>1
    <2>3. \A s \in Requests :
             /\ up'[s].step = "written" => up'[s].id \in files'
             /\ up'[s].step = "undo" /\ up'[s].id \in rows' => up'[s].id \in unanswered'
        BY <1>0, <1>1, <2>1
    <2>4. ASSUME faults' = 0, NEW id \in files'
          PROVE  id \in rows' \/ \E s \in Requests : Active(s)' /\ up'[s].id = id
        <3>1. CASE id = uploads + 1
            BY <2>1, <3>1
        <3>2. CASE id \in files
            BY <1>0, <1>1, <2>1, <2>4, <3>2
        <3> QED BY <2>1, <3>1, <3>2
    <2> QED BY <1>0, <2>1, <2>2, <2>3, <2>4 DEF FilesInv
<1>3. CASE SaveRow(r)
    <2> DEFINE id == up[r].id
    <2>1. /\ rows' = rows \cup {id} /\ files' = files
          /\ id \notin rows /\ id \in files /\ up[r].step = "written"
        BY <1>0, <1>3 DEF SaveRow, IdsInv
    <2>2. /\ up'[r].id = id
          /\ \/ up'[r].step = "idle" /\ unanswered' = unanswered /\ faults' = faults
             \/ up'[r].step = "undo" /\ unanswered' = unanswered \cup {id} /\ faults' # 0
        BY <1>3, AnswerFacts, FaultType DEF SaveRow
    <2>3. \A s \in Requests \ {r} : Active(s) => up[s].id # id
        BY <2>1 DEF IdsInv, Active
    <2>4. rows' \ files' \subseteq unanswered'
        BY <1>0, <2>1, <2>2
    <2>5. ASSUME NEW s \in Requests
          PROVE  /\ up'[s].step = "written" => up'[s].id \in files'
                 /\ up'[s].step = "undo" /\ up'[s].id \in rows' => up'[s].id \in unanswered'
        <3>1. CASE s = r
            BY <2>2, <3>1
        <3>2. CASE s # r
            BY <1>0, <1>1, <2>1, <2>2, <2>3, <3>2 DEF Active
        <3> QED BY <3>1, <3>2
    <2>6. ASSUME faults' = 0
          PROVE  /\ unanswered' = {}
                 /\ \A k \in files' : k \in rows' \/ \E s \in Requests : Active(s)' /\ up'[s].id = k
        <3>1. faults = 0 /\ unanswered' = unanswered
            BY <2>2, <2>6
        <3>2. ASSUME NEW k \in files', k \notin rows'
              PROVE  \E s \in Requests : Active(s)' /\ up'[s].id = k
            <4>1. PICK s \in Requests : Active(s) /\ up[s].id = k
                BY <1>0, <2>1, <3>1, <3>2
            <4>2. s # r
                BY <2>1, <3>2, <4>1
            <4> QED BY <1>1, <4>1, <4>2
        <3> QED BY <1>0, <3>1, <3>2
    <2> QED BY <2>4, <2>5, <2>6 DEF FilesInv
<1>4. CASE SaveFails(r)
    <2>1. /\ UNCHANGED <<files, rows, unanswered>> /\ up[r].step = "written"
          /\ up'[r].step = "undo" /\ up'[r].id = up[r].id /\ Active(r) /\ Active(r)'
          /\ faults' = 0 => faults = 0
        BY <1>4, AnswerFacts, FaultType DEF SaveFails, Active
    <2>2. up'[r].id \notin rows'
        BY <2>1 DEF IdsInv
    <2>3. ASSUME faults' = 0, NEW k \in files'
          PROVE  k \in rows' \/ \E s \in Requests : Active(s)' /\ up'[s].id = k
        BY <1>0, <1>1, <2>1, <2>3
    <2> QED BY <1>0, <1>1, <2>1, <2>2, <2>3 DEF FilesInv
<1>5. CASE Unlink(r)
    <2>1. /\ UNCHANGED <<rows, unanswered, faults>> /\ files' = files \ {up[r].id}
          /\ up[r].step = "undo" /\ up'[r].step = "idle"
        BY <1>5, AnswerFacts DEF Unlink
    <2>2. \A s \in Requests \ {r} : Active(s) => up[s].id # up[r].id
        BY <2>1 DEF IdsInv, Active
    <2>3. up[r].id \in rows => up[r].id \in unanswered
        BY <1>0, <2>1
    <2>4. ASSUME faults' = 0, NEW k \in files'
          PROVE  k \in rows' \/ \E s \in Requests : Active(s)' /\ up'[s].id = k
        BY <1>0, <1>1, <2>1, <2>4
    <2>5. rows' \ files' \subseteq unanswered'
        BY <1>0, <2>1, <2>3
    <2>6. \A s \in Requests :
             /\ up'[s].step = "written" => up'[s].id \in files'
             /\ up'[s].step = "undo" /\ up'[s].id \in rows' => up'[s].id \in unanswered'
        BY <1>0, <1>1, <2>1, <2>2 DEF Active
    <2> QED BY <1>0, <2>1, <2>4, <2>5, <2>6 DEF FilesInv
<1>6. CASE RequestDies(r)
    <2>1. UNCHANGED <<files, rows, unanswered>> /\ up'[r].step = "idle" /\ faults' # 0
        BY <1>6, AnswerFacts, FaultType DEF RequestDies
    <2>2. \A s \in Requests :
             /\ up'[s].step = "written" => up'[s].id \in files'
             /\ up'[s].step = "undo" /\ up'[s].id \in rows' => up'[s].id \in unanswered'
        BY <1>0, <1>1, <2>1
    <2> QED BY <1>0, <2>1, <2>2 DEF FilesInv
<1> QED BY <1>2, <1>3, <1>4, <1>5, <1>6 DEF RequestStep

-----------------------------------------------------------------------------
(* The theorems about Storage.                                             *)

StorageInv == TypeOK /\ IdsInv /\ QuotaInv /\ FilesInv

LEMMA InitStorage == Init => StorageInv
<1> SUFFICES ASSUME Init PROVE StorageInv
    OBVIOUS
<1>1. [step |-> "idle", id |-> 0] \in UploadRequests /\ [count |-> 0, bytes |-> 0] \in Quotas
    BY DEF UploadRequests, Quotas
<1>2. TypeOK
    BY <1>1, BoundsFact DEF Init, TypeOK
<1>3. \A r \in Requests : ~Active(r) /\ up[r].step = "idle"
    BY DEF Init, Active
<1>4. IdsInv /\ FilesInv
    BY <1>3 DEF Init, IdsInv, FilesInv
<1>5. StoredBytes = 0
    <2> DEFINE f == Sized(rows, size)
    <2>1. f \in [Ids -> Nat] /\ \A k \in Ids : f[k] = 0
        BY <1>2, SizedType DEF Sized, Init
    <2>2. StoredBytes = Total(f)
        BY DEF StoredBytes, Sized
    <2> HIDE DEF f
    <2>3. PICK s \in [0..MaxUploads -> Nat] :
             s[0] = 0 /\ s[MaxUploads] = Total(f) /\ \A k \in Ids : s[k] = s[k - 1] + f[k]
        BY <2>1, TotalIsSum
    <2> DEFINE T == {k \in Nat : k <= MaxUploads => s[k] = 0}
    <2>4. 0 \in T
        BY <2>3
    <2>5. ASSUME NEW k \in Nat, k \in T PROVE k + 1 \in T
        <3> SUFFICES ASSUME k + 1 <= MaxUploads PROVE s[k + 1] = 0
            OBVIOUS
        <3>1. k + 1 \in Ids /\ (k + 1) - 1 = k /\ s[k] = 0
            BY <2>5, BoundsFact DEF Ids
        <3> QED BY <2>1, <2>3, <3>1
    <2> HIDE DEF T
    <2>6. Nat \subseteq T
        BY <2>4, <2>5, NumbersByInduction
    <2>7. s[MaxUploads] = 0
        BY <2>6, BoundsFact DEF T
    <2> QED BY <2>2, <2>3, <2>7
<1>6. QuotaInv
    BY <1>5, BoundsFact, FS_EmptySet DEF Init, QuotaInv
<1> QED BY <1>2, <1>4, <1>6 DEF StorageInv

LEMMA NextStorage == StorageInv /\ [Next]_vars => StorageInv'
<1> SUFFICES ASSUME StorageInv, [Next]_vars PROVE StorageInv'
    OBVIOUS
<1>0. TypeOK /\ IdsInv /\ QuotaInv /\ FilesInv
    BY DEF StorageInv
<1>1. ASSUME NEW r \in Requests, RequestStep(r) PROVE StorageInv'
    BY <1>0, <1>1, StorageTypes, IdsRequests, QuotaRequests, FilesRequests DEF StorageInv
<1>2. CASE UNCHANGED vars
    <2>1. TypeOK' /\ IdsInv'
        BY <1>0, <1>2 DEF vars, TypeOK, IdsInv, Active
    <2>2. QuotaInv'
        BY <1>0, <1>2 DEF vars, QuotaInv, StoredBytes
    <2>3. FilesInv'
        BY <1>0, <1>2 DEF vars, FilesInv, Active
    <2> QED BY <2>1, <2>2, <2>3 DEF StorageInv
<1> QED BY <1>1, <1>2 DEF Next

\* The specification keeps the inductive invariant.
LEMMA StorageInvariant == Spec => []StorageInv
BY InitStorage, NextStorage, PTL DEF Spec

\* Every state has its type.
THEOREM TypeCorrect == Spec => []TypeOK
BY StorageInvariant, PTL DEF StorageInv

\* The quota row is the number and the bytes of the stored uploads, within both
\* limits; a stored upload has its file but for one whose commit went
\* unanswered; and without a fault no file is left without a row.
THEOREM QuotaMatchesUploads == Spec => []UploadsConsistent
<1>1. StorageInv => UploadsConsistent
    <2> SUFFICES ASSUME StorageInv PROVE UploadsConsistent
        OBVIOUS
    <2>1. ASSUME faults = 0, \A r \in Requests : up[r].step = "idle" PROVE files = rows
        <3>1. rows \subseteq files
            BY <2>1 DEF StorageInv, FilesInv
        <3>2. files \subseteq rows
            BY <2>1 DEF StorageInv, FilesInv, Active
        <3> QED BY <3>1, <3>2
    <2> QED BY <2>1 DEF StorageInv, QuotaInv, FilesInv, UploadsConsistent
<1> QED BY <1>1, StorageInvariant, PTL
=============================================================================
