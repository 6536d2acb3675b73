------------------------------ MODULE Storage -------------------------------
(***************************************************************************)
(* What one hunt's uploads keep on disk and in the database, with their    *)
(* quota (UploadService.save of services/uploads.py).  Requests interleave,*)
(* fail and die between the file, the transaction and the answer.  Files   *)
(* and rows are named by upload id; of the content only its size is kept.  *)
(***************************************************************************)
EXTENDS Integers, FiniteSets

CONSTANTS
    Requests,
    Sizes,          \* byte sizes that save's checks of the content let through
    FileCount, TotalBytes,      \* UploadLimits.file_count and total_bytes
    MaxUploads, MaxFaults       \* bounds

ASSUME StorageAssumption ==
    /\ Sizes \subseteq Nat
    /\ FileCount \in Nat /\ TotalBytes \in Nat
    /\ MaxUploads \in Nat /\ MaxFaults \in Nat

VARIABLES
    files, rows,    \* upload ids on disk, in the uploads table
    quota,          \* the upload_quotas row; one that is absent counts nothing
    up,             \* of each request: [step, id]
    size,           \* byte_size of each upload
    uploads,        \* ids handed out
    unanswered,     \* uploads whose commit succeeded without saying so
    faults

vars == <<files, rows, quota, up, size, uploads, unanswered, faults>>

Ids == 1..MaxUploads
Quotas == [count : Nat, bytes : Nat]
UploadRequests == [step : {"idle", "written", "undo"}, id : Nat]

TypeOK ==
    /\ uploads \in 0..MaxUploads /\ faults \in 0..MaxFaults
    /\ {files, rows, unanswered} \subseteq SUBSET (1..uploads)
    /\ quota \in Quotas
    /\ size \in [Ids -> Nat]
    /\ up \in [Requests -> UploadRequests]

Init ==
    /\ files = {} /\ rows = {} /\ unanswered = {}
    /\ quota = [count |-> 0, bytes |-> 0]
    /\ up = [r \in Requests |-> [step |-> "idle", id |-> 0]]
    /\ size = [id \in Ids |-> 0]
    /\ uploads = 0 /\ faults = 0

Fault == faults < MaxFaults /\ faults' = faults + 1

----------------------------------------------------------------------------
(* UploadService.save: the file first, then quota and row in one           *)
(* transaction; any error removes the file again.                          *)

WriteFile(r) ==
    /\ up[r].step = "idle" /\ uploads < MaxUploads
    /\ uploads' = uploads + 1
    /\ \E n \in Sizes : size' = [size EXCEPT ![uploads + 1] = n]
    /\ files' = files \union {uploads + 1}
    /\ up' = [up EXCEPT ![r] = [step |-> "written", id |-> uploads + 1]]
    /\ UNCHANGED <<rows, quota, unanswered, faults>>

\* Mutant: the bytes already stored are compared, without the new ones.
QuotaLeftBefore(n) == quota.count < FileCount /\ quota.bytes <= TotalBytes

\* The WHERE clause of _reserve_quota.
QuotaLeft(n) == quota.count < FileCount /\ quota.bytes + n <= TotalBytes

Answer(r, how) == up' = [up EXCEPT ![r].step = how]

SaveRow(r) ==
    LET id == up[r].id IN
    /\ up[r].step = "written" /\ QuotaLeft(size[id])
    /\ quota' = [count |-> quota.count + 1, bytes |-> quota.bytes + size[id]]
    /\ rows' = rows \union {id}
    /\ \/ Answer(r, "idle") /\ UNCHANGED <<unanswered, faults>>
       \/ /\ Fault                  \* committed, but the connection is lost
          /\ unanswered' = unanswered \union {id}
          /\ Answer(r, "undo")
    /\ UNCHANGED <<files, size, uploads>>

SaveFails(r) ==
    /\ up[r].step = "written"
    /\ (~QuotaLeft(size[up[r].id]) /\ UNCHANGED faults) \/ Fault
    /\ Answer(r, "undo")
    /\ UNCHANGED <<files, rows, quota, size, uploads, unanswered>>

Unlink(r) ==
    /\ up[r].step = "undo"
    /\ files' = files \ {up[r].id}
    /\ Answer(r, "idle")
    /\ UNCHANGED <<rows, quota, size, uploads, unanswered, faults>>

RequestDies(r) ==
    /\ up[r].step # "idle" /\ Fault
    /\ Answer(r, "idle")
    /\ UNCHANGED <<files, rows, quota, size, uploads, unanswered>>

----------------------------------------------------------------------------
RequestStep(r) == WriteFile(r) \/ SaveRow(r) \/ SaveFails(r) \/ Unlink(r) \/ RequestDies(r)

Next == \E r \in Requests : RequestStep(r)

Spec == Init /\ [][Next]_vars

----------------------------------------------------------------------------
(* Properties. *)

\* What f adds up to over all ids.
Total(f) ==
    LET sum[n \in 0..MaxUploads] == IF n = 0 THEN 0 ELSE sum[n - 1] + f[n]
    IN  sum[MaxUploads]

StoredBytes == Total([id \in Ids |-> IF id \in rows THEN size[id] ELSE 0])

\* Whatever overlaps, fails or dies between the file and its row, the quota
\* is the number and the bytes of the stored uploads, within both limits; a
\* stored upload has its file, unless its commit succeeded without an answer
\* (save's except branch then removes the file of a committed row); and
\* without such faults a refused upload leaves no file behind.
UploadsConsistent ==
    /\ quota.count = Cardinality(rows) /\ quota.count <= FileCount
    /\ quota.bytes = StoredBytes /\ quota.bytes <= TotalBytes
    /\ rows \ files \subseteq unanswered
    /\ faults = 0 /\ (\A r \in Requests : up[r].step = "idle") => files = rows
=============================================================================
