---------------------------- MODULE StorageObjects ----------------------------
(***************************************************************************)
(* Object metadata in PostgreSQL, object bytes in a backend (local disk or *)
(* S3), and the durable queue that removes the bytes of soft-deleted rows. *)
(*                                                                         *)
(* Three kinds of process share them.  A request (an HTTP or MCP handler)  *)
(* uploads, links, soft-deletes, or copies objects: completing a repeating *)
(* issue gives the next one copies that are rows of their own but share    *)
(* the original's bytes.  A deletion worker (one per trackd replica)       *)
(* leases jobs and deletes bytes.  Every database statement that takes a   *)
(* row lock, every commit and every backend call is a step of its own, so  *)
(* that a check and the delete it allows can be separated by anything.     *)
(*                                                                         *)
(* A backend key is named by the row that uploaded it.  The rows are those *)
(* of one project.                                                         *)
(***************************************************************************)
EXTENDS Naturals, FiniteSets

CONSTANTS
    Object,         \* ids of storage_objects rows, and of the backend keys
    NoObject,       \* stands for "no row"
    Request,        \* request handlers
    Worker,         \* deletion workers
    Misconfigured,  \* workers set up for another backend or bucket
    BatchSize,      \* DeletionWorkerOptions.BatchSize
    MaxAttempts,    \* DeletionWorkerOptions.MaxAttempts
    MaxClaims,      \* bound: no job is claimed more often than this
    Faults          \* which database failures a request can meet

ASSUME ObjectAssumption ==
    /\ NoObject \notin Object
    /\ Misconfigured \subseteq Worker
    /\ BatchSize \in Nat \ {0}
    /\ MaxAttempts \in Nat \ {0}
    /\ MaxClaims \in Nat
    /\ Faults \subseteq {"cleanupStore", "lostCommit"}

VARIABLES
    row,        \* storage_objects: absent, live or soft-deleted
    key,        \* object_key of each row
    deletedAt,  \* deleted_at, as the order of the commits that deleted the rows
    clock,      \* the last deleted_at given out
    linked,     \* rows an issue's attachment refers to
    job,        \* storage_object_deletions
    bytes,      \* backend keys that hold bytes
    pc, obj, target, locked, shared, todo,  \* requests
    wpc, cur, batch                         \* workers

rows == <<row, key, deletedAt, clock, linked>>
requests == <<pc, obj, target, locked, shared, todo>>
workers == <<wpc, cur, batch>>
vars == <<rows, job, bytes, requests, workers>>

NoJob == [status |-> "none", attempt |-> 0]
Job == [status : {"none", "pending", "processing", "failed"}, attempt : Nat]
Claim == [object : Object, attempt : Nat]
NoClaim == [object |-> NoObject, attempt |-> 0]

DataTypes ==
    /\ row \in [Object -> {"none", "live", "deleted"}]
    /\ key \in [Object -> Object]
    /\ deletedAt \in [Object -> Nat]
    /\ clock \in Nat
    /\ linked \subseteq Object
    /\ job \in [Object -> Job]
    /\ bytes \subseteq Object

RequestTypes ==
    /\ pc \in [Request -> {"idle", "insert", "drop", "link", "cleanup", "cleanupBytes",
                           "locking", "check", "remove", "copying"}]
    /\ obj \in [Request -> Object \cup {NoObject}]
    /\ target \in [Request -> SUBSET Object]
    /\ locked \in [Request -> SUBSET Object]
    /\ shared \in [Request -> SUBSET Object]
    /\ todo \in [Request -> SUBSET Object]
    /\ \A r \in Request :
        pc[r] \in {"insert", "drop", "link", "cleanup", "cleanupBytes", "remove"} => obj[r] \in Object

WorkerTypes ==
    /\ wpc \in [Worker -> {"idle", "next", "keep", "delete", "complete", "fail", "giveUp"}]
    /\ cur \in [Worker -> Claim \cup {NoClaim}]
    /\ batch \in [Worker -> SUBSET Claim]
    /\ \A w \in Worker : wpc[w] \notin {"idle", "next"} => cur[w] \in Claim

TypeOK == DataTypes /\ RequestTypes /\ WorkerTypes

Init ==
    /\ row = [o \in Object |-> "none"]
    /\ key = [o \in Object |-> o]
    /\ deletedAt = [o \in Object |-> 0]
    /\ clock = 0
    /\ linked = {}
    /\ job = [o \in Object |-> NoJob]
    /\ bytes = {}
    /\ pc = [r \in Request |-> "idle"]
    /\ obj = [r \in Request |-> NoObject]
    /\ target = [r \in Request |-> {}]
    /\ locked = [r \in Request |-> {}]
    /\ shared = [r \in Request |-> {}]
    /\ todo = [r \in Request |-> {}]
    /\ wpc = [w \in Worker |-> "idle"]
    /\ cur = [w \in Worker |-> NoClaim]
    /\ batch = [w \in Worker |-> {}]

Live(o) == row[o] = "live"
\* Mutant: only the row that uploaded the bytes counts, not its copies.
InUseByUploader(k) == Live(k)
\* StorageObjectBytesInUse: a live row still has the key.
InUse(k) == \E o \in Object : Live(o) /\ key[o] = k

\* Row locks: FOR UPDATE (locked) and FOR SHARE (shared).
ExclusivelyLocked(o) == \E r \in Request : o \in locked[r]
\* Mutant: a writer that does not wait for FOR SHARE.
UnlockedForUpdate(o) == ~ExclusivelyLocked(o)
Unlocked(o) == ~ExclusivelyLocked(o) /\ \A r \in Request : o \notin shared[r]

\* A row of the project is inserted under the project's row lock.
ProjectFree == \A r \in Request : pc[r] # "copying"

\* An id nobody has used: uuid.New(), or the row's default.
Fresh(o) == /\ row[o] = "none" /\ o \notin bytes
            /\ \A r \in Request : obj[r] # o

\* Mutant: a job only for a row whose bytes no other row still shares.
SoftDeleteLastOnly(S) ==
    LET shares(o) == \E p \in Object \ {o} : Live(p) /\ key[p] = key[o] IN
    /\ row' = [o \in Object |-> IF o \in S THEN "deleted" ELSE row[o]]
    /\ clock' = clock + 1
    /\ deletedAt' = [o \in Object |-> IF o \in S THEN clock + 1 ELSE deletedAt[o]]
    /\ job' = [o \in Object |-> IF o \in S /\ ~shares(o) THEN [status |-> "pending", attempt |-> 0]
                                ELSE job[o]]
    /\ UNCHANGED <<key, linked>>

\* Soft-deleting rows fires the trigger that queues their deletion.
SoftDelete(S) ==
    /\ row' = [o \in Object |-> IF o \in S THEN "deleted" ELSE row[o]]
    /\ clock' = clock + 1
    /\ deletedAt' = [o \in Object |-> IF o \in S THEN clock + 1 ELSE deletedAt[o]]
    /\ job' = [o \in Object |-> IF o \in S THEN [status |-> "pending", attempt |-> 0]
                                ELSE job[o]]
    /\ UNCHANGED <<key, linked>>

-------------------------------------------------------------------------------
(* Requests *)

Goto(r, label) == pc' = [pc EXCEPT ![r] = label]

\* Put writes the bytes before any row names them.
PutBytes(r, o) ==
    /\ pc[r] = "idle" /\ Fresh(o)
    /\ bytes' = bytes \cup {o}
    /\ Goto(r, "insert")
    /\ obj' = [obj EXCEPT ![r] = o]
    /\ UNCHANGED <<rows, job, target, locked, shared, todo, workers>>

\* CreateStorageObject commits.  The handler is done, or has a link to make.
InsertRow(r, next) ==
    /\ pc[r] = "insert" /\ ProjectFree
    /\ row' = [row EXCEPT ![obj[r]] = "live"]
    /\ Goto(r, next)
    /\ obj' = IF next = "idle" THEN [obj EXCEPT ![r] = NoObject] ELSE obj
    /\ UNCHANGED <<key, deletedAt, clock, linked, job, bytes, target, locked, shared, todo, workers>>

\* CreateStorageObject fails, so the handler takes its bytes back.
InsertFails(r) ==
    /\ pc[r] = "insert"
    /\ Goto(r, "drop")
    /\ UNCHANGED <<rows, job, bytes, obj, target, locked, shared, todo, workers>>

\* deleteStorageBackendObject: its error is ignored, as if the request stopped.
DropBytes(r) ==
    /\ pc[r] = "drop"
    /\ bytes' = bytes \ {obj[r]}
    /\ Goto(r, "idle")
    /\ obj' = [obj EXCEPT ![r] = NoObject]
    /\ UNCHANGED <<rows, job, target, locked, shared, todo, workers>>

\* CreateIssueAttachment locks the live row and commits the link.
LinkUpload(r) ==
    /\ pc[r] = "link" /\ Live(obj[r]) /\ Unlocked(obj[r])
    /\ linked' = linked \cup {obj[r]}
    /\ Goto(r, "idle")
    /\ obj' = [obj EXCEPT ![r] = NoObject]
    /\ UNCHANGED <<row, key, deletedAt, clock, job, bytes, target, locked, shared, todo, workers>>

\* Mutant: the handler forgets which object it has to clean up.
LinkFailsForgetting(r) ==
    /\ pc[r] = "link"
    /\ Goto(r, "cleanup")
    /\ obj' = [obj EXCEPT ![r] = NoObject]
    /\ UNCHANGED <<rows, job, bytes, target, locked, shared, todo, workers>>

LinkFails(r) ==
    /\ pc[r] = "link"
    /\ Goto(r, "cleanup")
    /\ UNCHANGED <<rows, job, bytes, obj, target, locked, shared, todo, workers>>

\* cleanupStorageObject soft-deletes the row that could not be linked.
CleanupRow(r) ==
    /\ pc[r] = "cleanup" /\ Live(obj[r]) /\ Unlocked(obj[r])
    /\ SoftDelete({obj[r]})
    /\ Goto(r, "cleanupBytes")
    /\ UNCHANGED <<bytes, obj, target, locked, shared, todo, workers>>

\* The soft-delete fails: the row is already gone or, as a fault, the database is.
CleanupRowFails(r) ==
    /\ pc[r] = "cleanup"
    /\ ~Live(obj[r]) \/ "cleanupStore" \in Faults
    /\ Goto(r, "cleanupBytes")
    /\ UNCHANGED <<rows, job, bytes, obj, target, locked, shared, todo, workers>>

\* Either way it deletes the bytes, without asking whether they are in use.
CleanupBytes(r) ==
    /\ pc[r] = "cleanupBytes"
    /\ bytes' = bytes \ {obj[r]}
    /\ Goto(r, "idle")
    /\ obj' = [obj EXCEPT ![r] = NoObject]
    /\ UNCHANGED <<rows, job, target, locked, shared, todo, workers>>

\* A commit the server made and the client never heard of is taken for a failure.
CommitLost(r) ==
    /\ "lostCommit" \in Faults
    /\ \/ /\ pc[r] = "insert" /\ ProjectFree
          /\ row' = [row EXCEPT ![obj[r]] = "live"]
          /\ Goto(r, "drop")
          /\ UNCHANGED linked
       \/ /\ pc[r] = "link" /\ Live(obj[r]) /\ Unlocked(obj[r])
          /\ linked' = linked \cup {obj[r]}
          /\ Goto(r, "cleanup")
          /\ UNCHANGED row
    /\ UNCHANGED <<key, deletedAt, clock, job, bytes, obj, target, locked, shared, todo, workers>>

\* DeleteStorageObject, an attachment's removal, an image's replacement and
\* DeleteProjectContext soft-delete one row or several in one transaction.
BeginDelete(r, S) ==
    /\ pc[r] = "idle" /\ S # {} /\ \A o \in S : Live(o)
    /\ Goto(r, "locking")
    /\ target' = [target EXCEPT ![r] = S]
    /\ todo' = [todo EXCEPT ![r] = S]
    /\ UNCHANGED <<rows, job, bytes, obj, locked, shared, workers>>

\* A row is locked once nobody else holds it; one deleted meanwhile is skipped.
LockRow(r, o) ==
    /\ pc[r] = "locking" /\ o \in target[r] /\ Unlocked(o)
    /\ target' = [target EXCEPT ![r] = @ \ {o}]
    /\ locked' = IF Live(o) THEN [locked EXCEPT ![r] = @ \cup {o}] ELSE locked
    /\ UNCHANGED <<rows, job, bytes, pc, obj, shared, todo, workers>>

CommitDelete(r) ==
    /\ pc[r] = "locking" /\ target[r] = {} /\ locked[r] # {}
    /\ SoftDelete(locked[r])
    /\ locked' = [locked EXCEPT ![r] = {}]
    /\ Goto(r, "check")
    /\ UNCHANGED <<bytes, obj, target, shared, todo, workers>>

\* deleteRemovedStorageBytes asks whether the bytes are still in use; when they
\* are, or it cannot tell, it leaves them to the worker.
CheckRemoved(r, o) ==
    /\ pc[r] = "check" /\ o \in todo[r]
    /\ todo' = [todo EXCEPT ![r] = @ \ {o}]
    /\ \/ /\ ~InUse(key[o])
          /\ Goto(r, "remove")
          /\ obj' = [obj EXCEPT ![r] = key[o]]
       \/ UNCHANGED <<pc, obj>>
    /\ UNCHANGED <<rows, job, bytes, target, locked, shared, workers>>

RemoveBytes(r) ==
    /\ pc[r] = "remove"
    /\ bytes' \in {bytes, bytes \ {obj[r]}}
    /\ Goto(r, "check")
    /\ obj' = [obj EXCEPT ![r] = NoObject]
    /\ UNCHANGED <<rows, job, target, locked, shared, todo, workers>>

\* copyRepeatAttachments holds the live attachments FOR SHARE, passing over
\* those being deleted (SKIP LOCKED).
BeginCopy(r, S) ==
    LET sources == {o \in S : ~ExclusivelyLocked(o)} IN
    /\ pc[r] = "idle" /\ ProjectFree
    /\ \A o \in S : Live(o) /\ o \in linked
    /\ sources # {}
    /\ Goto(r, "copying")
    /\ shared' = [shared EXCEPT ![r] = sources]
    /\ UNCHANGED <<rows, job, bytes, obj, target, locked, todo, workers>>

\* Its transaction commits one new row, linked and live, for each source.
CommitCopy(r, copies) ==
    /\ pc[r] = "copying"
    /\ copies \in [shared[r] -> {o \in Object : Fresh(o)}]
    /\ \A a, b \in shared[r] : copies[a] = copies[b] => a = b
    /\ row' = [o \in Object |-> IF \E s \in shared[r] : copies[s] = o THEN "live" ELSE row[o]]
    /\ key' = [o \in Object |-> IF \E s \in shared[r] : copies[s] = o
                                THEN key[CHOOSE s \in shared[r] : copies[s] = o] ELSE key[o]]
    /\ linked' = linked \cup {copies[s] : s \in shared[r]}
    /\ shared' = [shared EXCEPT ![r] = {}]
    /\ Goto(r, "idle")
    /\ UNCHANGED <<deletedAt, clock, job, bytes, obj, target, locked, todo, workers>>

\* An error, a cancelled request, a deadlock or a crash: an open transaction
\* rolls back; what is left to do outside one is not done.
Stop(r) ==
    /\ pc[r] # "idle"
    /\ Goto(r, "idle")
    /\ obj' = [obj EXCEPT ![r] = NoObject]
    /\ target' = [target EXCEPT ![r] = {}]
    /\ locked' = [locked EXCEPT ![r] = {}]
    /\ shared' = [shared EXCEPT ![r] = {}]
    /\ todo' = [todo EXCEPT ![r] = {}]
    /\ UNCHANGED <<rows, job, bytes, workers>>

-------------------------------------------------------------------------------
(* Deletion workers *)

\* Mutant: the claim query forgets jobs whose lease ran out.
ClaimableIfPending(o) == job[o].status = "pending" /\ job[o].attempt < MaxClaims

\* A pending job comes due, and a lease can run out before its holder is done.
Claimable(o) == job[o].status \in {"pending", "processing"} /\ job[o].attempt < MaxClaims

\* Mutant: claiming an expired lease again is not counted as an attempt.
ClaimJobsUncounted(w, S) ==
    LET attempt(o) == IF job[o].status = "processing" THEN job[o].attempt ELSE job[o].attempt + 1 IN
    /\ wpc[w] = "idle" /\ S # {} /\ Cardinality(S) <= BatchSize
    /\ \A o \in S : Claimable(o)
    /\ job' = [o \in Object |-> IF o \in S
                 THEN [status |-> "processing", attempt |-> attempt(o)] ELSE job[o]]
    /\ batch' = [batch EXCEPT ![w] = {[object |-> o, attempt |-> attempt(o)] : o \in S}]
    /\ wpc' = [wpc EXCEPT ![w] = "next"]
    /\ UNCHANGED <<rows, bytes, requests, cur>>

\* ClaimStorageObjectDeletions
ClaimJobs(w, S) ==
    /\ wpc[w] = "idle" /\ S # {} /\ Cardinality(S) <= BatchSize
    /\ \A o \in S : Claimable(o)
    /\ job' = [o \in Object |-> IF o \in S
                 THEN [status |-> "processing", attempt |-> job[o].attempt + 1] ELSE job[o]]
    /\ batch' = [batch EXCEPT ![w] = {[object |-> o, attempt |-> job[o].attempt + 1] : o \in S}]
    /\ wpc' = [wpc EXCEPT ![w] = "next"]
    /\ UNCHANGED <<rows, bytes, requests, cur>>

\* RunOnce takes the next job of its batch and asks whether the bytes are in
\* use; a query that fails counts as a failed attempt.
TakeJob(w, c) ==
    /\ wpc[w] = "next" /\ c \in batch[w]
    /\ cur' = [cur EXCEPT ![w] = c]
    /\ batch' = [batch EXCEPT ![w] = @ \ {c}]
    /\ wpc' \in {[wpc EXCEPT ![w] = next] :
                   next \in IF w \in Misconfigured THEN {"giveUp"}
                            ELSE {"fail", IF InUse(key[c.object]) THEN "keep" ELSE "delete"}}
    /\ UNCHANGED <<rows, job, bytes, requests>>

\* service.Delete: removed or already absent, or an error that may come after
\* the backend did its work.
DeleteBytes(w) ==
    /\ wpc[w] = "delete"
    /\ \/ /\ bytes' = bytes \ {key[cur[w].object]}
          /\ wpc' = [wpc EXCEPT ![w] = "complete"]
       \/ /\ bytes' \in {bytes, bytes \ {key[cur[w].object]}}
          /\ wpc' = [wpc EXCEPT ![w] = "fail"]
    /\ UNCHANGED <<rows, job, requests, cur, batch>>

\* Complete, Retry and Fail touch the job only under the lease they were given.
HoldsLease(w) == job[cur[w].object] = [status |-> "processing", attempt |-> cur[w].attempt]
Settle(w, outcome) ==
    /\ job' = IF HoldsLease(w) THEN [job EXCEPT ![cur[w].object] = outcome] ELSE job
    /\ cur' = [cur EXCEPT ![w] = NoClaim]
    /\ wpc' = [wpc EXCEPT ![w] = IF batch[w] = {} THEN "idle" ELSE "next"]
    /\ UNCHANGED <<rows, bytes, requests, batch>>

CompleteJob(w) ==
    /\ wpc[w] \in {"keep", "complete"}
    /\ Settle(w, NoJob)

RetryJob(w) ==
    /\ wpc[w] = "fail" /\ cur[w].attempt < MaxAttempts
    /\ Settle(w, [status |-> "pending", attempt |-> cur[w].attempt])

GiveUpJob(w) ==
    /\ \/ wpc[w] = "giveUp"
       \/ wpc[w] = "fail" /\ cur[w].attempt >= MaxAttempts
    /\ Settle(w, [status |-> "failed", attempt |-> cur[w].attempt])

\* The job's store call fails, or the process crashes: the rest of the batch
\* stays leased.  A job's last claim within the bound is not interrupted.
AbandonBatch(w) ==
    /\ wpc[w] # "idle"
    /\ \A c \in batch[w] \cup {cur[w]} : c.attempt < MaxClaims
    /\ wpc' = [wpc EXCEPT ![w] = "idle"]
    /\ cur' = [cur EXCEPT ![w] = NoClaim]
    /\ batch' = [batch EXCEPT ![w] = {}]
    /\ UNCHANGED <<rows, job, bytes, requests>>

\* An operator puts a failed job back in the queue, its attempts kept.
RequeueJob(o) ==
    /\ job[o].status = "failed" /\ job[o].attempt < MaxClaims
    /\ job' = [job EXCEPT ![o].status = "pending"]
    /\ UNCHANGED <<rows, bytes, requests, workers>>

-------------------------------------------------------------------------------
Upload(r) ==
    \/ \E o \in Object : PutBytes(r, o)
    \/ \E next \in {"idle", "link"} : InsertRow(r, next)
    \/ InsertFails(r) \/ DropBytes(r)
    \/ LinkUpload(r) \/ LinkFails(r)
    \/ CleanupRow(r) \/ CleanupRowFails(r) \/ CleanupBytes(r)
    \/ CommitLost(r)

Delete(r) ==
    \/ \E S \in SUBSET Object : BeginDelete(r, S)
    \/ \E o \in Object : LockRow(r, o) \/ CheckRemoved(r, o)
    \/ CommitDelete(r) \/ RemoveBytes(r)

Copy(r) ==
    \/ \E S \in SUBSET Object : BeginCopy(r, S)
    \/ \E copies \in [shared[r] -> Object] : CommitCopy(r, copies)

Work(w) ==
    \/ \E S \in SUBSET Object : ClaimJobs(w, S)
    \/ \E c \in batch[w] : TakeJob(w, c)
    \/ DeleteBytes(w) \/ CompleteJob(w) \/ RetryJob(w) \/ GiveUpJob(w)

Next ==
    \/ \E r \in Request : Upload(r) \/ Delete(r) \/ Copy(r) \/ Stop(r)
    \/ \E w \in Worker : Work(w) \/ AbandonBatch(w)
    \/ \E o \in Object : RequeueJob(o)

Spec == Init /\ [][Next]_vars

\* Every worker's Run loop keeps polling and works through what it claimed.
FairSpec == Spec /\ \A w \in Worker : WF_vars(Work(w))

-------------------------------------------------------------------------------
(* Properties *)

\* The bytes of a live object are never deleted, whoever deletes, and however
\* checks, copies and leases interleave (STORAGE.md, Write And Delete Flow).
LiveBytesKept == \A o \in Object : Live(o) => key[o] \in bytes

\* Bytes whose every row is soft-deleted are not forgotten: a deletion job for
\* one of those rows is still there, even when jobs were completed as "kept"
\* because another row was live when they were looked at.
Forgotten(k) ==
    /\ k \in bytes /\ ~InUse(k)
    /\ \E o \in Object : row[o] = "deleted" /\ key[o] = k
    /\ \A o \in Object : key[o] = k => job[o] = NoJob
NoBytesForgotten == \A k \in Object : ~Forgotten(k)

\* At most one worker holds a claim that can still settle a job: the attempt
\* number fences off a worker whose lease ran out.
LeaseExclusive ==
    \A v, w \in Worker : \A c \in (batch[v] \cup {cur[v]}) \cap (batch[w] \cup {cur[w]}) :
        c # NoClaim /\ job[c.object] = [status |-> "processing", attempt |-> c.attempt] => v = w

\* Once nothing live uses a key, its bytes go, or a failed job says they did not.
DeletedBytesGo ==
    \A k \in Object :
        ~InUse(k) /\ (\E o \in Object : row[o] = "deleted" /\ key[o] = k)
            ~> \/ k \notin bytes
               \/ \E o \in Object : key[o] = k /\ job[o].status = "failed"

-------------------------------------------------------------------------------
(* Inductive invariants: what the proofs need beside the properties. *)

\* Who deleted what and where its key comes from.
RowsInv ==
    \A o \in Object :
        /\ row[o] = "none" => key[o] = o
        /\ row[o] # "none" => row[key[o]] # "none"
        /\ job[o].status # "none" => row[o] = "deleted"
        /\ deletedAt[o] <= clock

\* FOR UPDATE excludes every other lock; a locked row stays live.
LocksInv ==
    \A r \in Request :
        /\ \A o \in locked[r] : Live(o) /\ \A q \in Request : o \notin shared[q] /\ (q # r => o \notin locked[q])
        /\ \A o \in shared[r] : Live(o) /\ o \in linked
        /\ \A o \in todo[r] \cup target[r] : row[o] # "none"

\* Two handlers never hold the same new object.
Uploading == {"insert", "drop", "link", "cleanup", "cleanupBytes"}
UploadsInv ==
    \A r \in Request :
        /\ pc[r] \in Uploading => \A q \in Request \ {r} : pc[q] \in Uploading => obj[q] # obj[r]
        /\ pc[r] = "insert" => row[obj[r]] = "none"
        /\ pc[r] \in {"link", "cleanup", "cleanupBytes", "remove"} => row[obj[r]] # "none"

\* A worker only holds jobs of soft-deleted rows.
WorkersInv ==
    \A w \in Worker :
        /\ \A c \in batch[w] : row[c.object] = "deleted"
        /\ wpc[w] \notin {"idle", "next"} => row[cur[w].object] = "deleted"

BaseInv == TypeOK /\ RowsInv /\ LocksInv /\ UploadsInv /\ WorkersInv

\* Nothing live uses bytes that somebody is about to delete.
BytesInv ==
    /\ LiveBytesKept
    /\ \A o \in linked : row[o] # "none"
    /\ \A o \in Object : row[o] # "none" /\ key[o] # o => key[o] \in linked
    /\ \A r \in Request :
        /\ pc[r] = "insert" => obj[r] \in bytes
        /\ pc[r] = "drop" => row[obj[r]] = "none"
        /\ pc[r] \in {"link", "cleanup", "cleanupBytes"} => obj[r] \notin linked /\ key[obj[r]] = obj[r]
        /\ pc[r] = "cleanupBytes" => row[obj[r]] = "deleted"
        /\ pc[r] = "remove" => ~InUse(obj[r])
    /\ \A w \in Worker : wpc[w] = "delete" => ~InUse(key[cur[w].object])

\* Another row answers for the bytes of x: it is live, or was deleted after x
\* and has a job.  The order rules out two jobs each completed for the other.
Covered(x) ==
    \/ key[x] \notin bytes
    \/ \E o \in Object :
        /\ key[o] = key[x]
        /\ Live(o) \/ (row[o] = "deleted" /\ deletedAt[o] > deletedAt[x] /\ job[o].status # "none")

CoverInv ==
    /\ \A x \in Object : row[x] = "deleted" /\ job[x].status = "none" => Covered(x)
    /\ \A w \in Worker :
        /\ wpc[w] = "keep" => Covered(cur[w].object)
        /\ wpc[w] = "complete" => key[cur[w].object] \notin bytes

===============================================================================
