------------------------- MODULE StorageObjectsProofs -------------------------
(***************************************************************************)
(* Proofs about StorageObjects, for any number of rows, requests and       *)
(* workers, any batch size and any limit on attempts.                      *)
(***************************************************************************)
EXTENDS StorageObjects, TLAPS

\* The actions, one by one: a step of the specification is one of these.
LEMMA Actions ==
    ASSUME Next
    PROVE  \/ \E r \in Request : \E o \in Object : PutBytes(r, o)
           \/ \E r \in Request : \E next \in {"idle", "link"} : InsertRow(r, next)
           \/ \E r \in Request : \/ InsertFails(r) \/ DropBytes(r) \/ LinkUpload(r)
                                 \/ LinkFails(r) \/ CleanupRow(r) \/ CleanupRowFails(r)
                                 \/ CleanupBytes(r) \/ CommitLost(r)
           \/ \E r \in Request : \E S \in SUBSET Object : BeginDelete(r, S) \/ BeginCopy(r, S)
           \/ \E r \in Request : \E o \in Object : LockRow(r, o) \/ CheckRemoved(r, o)
           \/ \E r \in Request : CommitDelete(r) \/ RemoveBytes(r) \/ Stop(r)
           \/ \E r \in Request : \E copies \in [shared[r] -> Object] : CommitCopy(r, copies)
           \/ \E w \in Worker : \E S \in SUBSET Object : ClaimJobs(w, S)
           \/ \E w \in Worker : \E c \in batch[w] : TakeJob(w, c)
           \/ \E w \in Worker : \/ DeleteBytes(w) \/ CompleteJob(w) \/ RetryJob(w)
                                \/ GiveUpJob(w) \/ AbandonBatch(w)
           \/ \E o \in Object : RequeueJob(o)
BY DEF Next, Upload, Delete, Copy, Work

-------------------------------------------------------------------------------
(* Every variable keeps its type. *)

LEMMA TypeInit == Init => TypeOK
BY DEF Init, TypeOK, DataTypes, RequestTypes, WorkerTypes, Job, NoJob, NoClaim

LEMMA DataUnchanged == ASSUME DataTypes, UNCHANGED <<rows, job, bytes>> PROVE DataTypes'
BY DEF DataTypes, rows

LEMMA RequestsUnchanged == ASSUME RequestTypes, UNCHANGED requests PROVE RequestTypes'
BY DEF RequestTypes, requests

LEMMA WorkersUnchanged == ASSUME WorkerTypes, UNCHANGED workers PROVE WorkerTypes'
BY DEF WorkerTypes, workers

LEMMA TypeStep == ASSUME TypeOK, [Next]_vars PROVE TypeOK'
<1>0. DataTypes /\ RequestTypes /\ WorkerTypes
  BY DEF TypeOK
<1>1. CASE UNCHANGED vars
  BY <1>0, <1>1, DataUnchanged, RequestsUnchanged, WorkersUnchanged DEF TypeOK, vars
<1>2. ASSUME NEW r \in Request, NEW o \in Object, PutBytes(r, o) PROVE TypeOK'
  <2>1. DataTypes'
    BY <1>0, <1>2 DEF PutBytes, DataTypes, NoJob, rows
  <2>2. RequestTypes'
    BY <1>0, <1>2 DEF PutBytes, Goto, RequestTypes
  <2>3. WorkerTypes'
    BY <1>0, <1>2, WorkersUnchanged DEF PutBytes
  <2> QED
    BY <2>1, <2>2, <2>3 DEF TypeOK
<1>3. ASSUME NEW r \in Request, NEW next \in {"idle", "link"}, InsertRow(r, next) PROVE TypeOK'
  <2>1. DataTypes'
    BY <1>0, <1>3 DEF InsertRow, DataTypes, NoJob
  <2>2. RequestTypes'
    BY <1>0, <1>3 DEF InsertRow, Goto, RequestTypes
  <2>3. WorkerTypes'
    BY <1>0, <1>3, WorkersUnchanged DEF InsertRow
  <2> QED
    BY <2>1, <2>2, <2>3 DEF TypeOK
<1>4. ASSUME NEW r \in Request, InsertFails(r) PROVE TypeOK'
  <2>1. DataTypes'
    BY <1>0, <1>4, DataUnchanged DEF InsertFails
  <2>2. RequestTypes'
    BY <1>0, <1>4 DEF InsertFails, Goto, RequestTypes
  <2>3. WorkerTypes'
    BY <1>0, <1>4, WorkersUnchanged DEF InsertFails
  <2> QED
    BY <2>1, <2>2, <2>3 DEF TypeOK
<1>5. ASSUME NEW r \in Request, DropBytes(r) PROVE TypeOK'
  <2>1. DataTypes'
    BY <1>0, <1>5 DEF DropBytes, DataTypes, NoJob, rows
  <2>2. RequestTypes'
    BY <1>0, <1>5 DEF DropBytes, Goto, RequestTypes
  <2>3. WorkerTypes'
    BY <1>0, <1>5, WorkersUnchanged DEF DropBytes
  <2> QED
    BY <2>1, <2>2, <2>3 DEF TypeOK
<1>6. ASSUME NEW r \in Request, LinkUpload(r) PROVE TypeOK'
  <2>1. DataTypes'
    BY <1>0, <1>6 DEF LinkUpload, DataTypes, NoJob, RequestTypes
  <2>2. RequestTypes'
    BY <1>0, <1>6 DEF LinkUpload, Goto, RequestTypes
  <2>3. WorkerTypes'
    BY <1>0, <1>6, WorkersUnchanged DEF LinkUpload
  <2> QED
    BY <2>1, <2>2, <2>3 DEF TypeOK
<1>7. ASSUME NEW r \in Request, LinkFails(r) PROVE TypeOK'
  <2>1. DataTypes'
    BY <1>0, <1>7, DataUnchanged DEF LinkFails
  <2>2. RequestTypes'
    BY <1>0, <1>7 DEF LinkFails, Goto, RequestTypes
  <2>3. WorkerTypes'
    BY <1>0, <1>7, WorkersUnchanged DEF LinkFails
  <2> QED
    BY <2>1, <2>2, <2>3 DEF TypeOK
<1>8. ASSUME NEW r \in Request, CleanupRow(r) PROVE TypeOK'
  <2>1. DataTypes'
    BY <1>0, <1>8 DEF CleanupRow, SoftDelete, DataTypes, Job, NoJob
  <2>2. RequestTypes'
    BY <1>0, <1>8 DEF CleanupRow, SoftDelete, Goto, RequestTypes
  <2>3. WorkerTypes'
    BY <1>0, <1>8, WorkersUnchanged DEF CleanupRow, SoftDelete
  <2> QED
    BY <2>1, <2>2, <2>3 DEF TypeOK
<1>9. ASSUME NEW r \in Request, CleanupRowFails(r) PROVE TypeOK'
  <2>1. DataTypes'
    BY <1>0, <1>9, DataUnchanged DEF CleanupRowFails
  <2>2. RequestTypes'
    BY <1>0, <1>9 DEF CleanupRowFails, Goto, RequestTypes
  <2>3. WorkerTypes'
    BY <1>0, <1>9, WorkersUnchanged DEF CleanupRowFails
  <2> QED
    BY <2>1, <2>2, <2>3 DEF TypeOK
<1>10. ASSUME NEW r \in Request, CleanupBytes(r) PROVE TypeOK'
  <2>1. DataTypes'
    BY <1>0, <1>10 DEF CleanupBytes, DataTypes, NoJob, rows
  <2>2. RequestTypes'
    BY <1>0, <1>10 DEF CleanupBytes, Goto, RequestTypes
  <2>3. WorkerTypes'
    BY <1>0, <1>10, WorkersUnchanged DEF CleanupBytes
  <2> QED
    BY <2>1, <2>2, <2>3 DEF TypeOK
<1>11. ASSUME NEW r \in Request, CommitLost(r) PROVE TypeOK'
  <2>1. DataTypes'
    BY <1>0, <1>11 DEF CommitLost, DataTypes, NoJob, RequestTypes
  <2>2. RequestTypes'
    BY <1>0, <1>11 DEF CommitLost, Goto, RequestTypes
  <2>3. WorkerTypes'
    BY <1>0, <1>11, WorkersUnchanged DEF CommitLost
  <2> QED
    BY <2>1, <2>2, <2>3 DEF TypeOK
<1>12. ASSUME NEW r \in Request, NEW S \in SUBSET Object, BeginDelete(r, S) PROVE TypeOK'
  <2>1. DataTypes'
    BY <1>0, <1>12, DataUnchanged DEF BeginDelete
  <2>2. RequestTypes'
    BY <1>0, <1>12 DEF BeginDelete, Goto, RequestTypes
  <2>3. WorkerTypes'
    BY <1>0, <1>12, WorkersUnchanged DEF BeginDelete
  <2> QED
    BY <2>1, <2>2, <2>3 DEF TypeOK
<1>13. ASSUME NEW r \in Request, NEW o \in Object, LockRow(r, o) PROVE TypeOK'
  <2>1. DataTypes'
    BY <1>0, <1>13, DataUnchanged DEF LockRow
  <2>2. RequestTypes'
    BY <1>0, <1>13 DEF LockRow, RequestTypes
  <2>3. WorkerTypes'
    BY <1>0, <1>13, WorkersUnchanged DEF LockRow
  <2> QED
    BY <2>1, <2>2, <2>3 DEF TypeOK
<1>14. ASSUME NEW r \in Request, CommitDelete(r) PROVE TypeOK'
  <2>1. DataTypes'
    BY <1>0, <1>14 DEF CommitDelete, SoftDelete, DataTypes, Job, NoJob
  <2>2. RequestTypes'
    BY <1>0, <1>14 DEF CommitDelete, SoftDelete, Goto, RequestTypes
  <2>3. WorkerTypes'
    BY <1>0, <1>14, WorkersUnchanged DEF CommitDelete, SoftDelete
  <2> QED
    BY <2>1, <2>2, <2>3 DEF TypeOK
<1>15. ASSUME NEW r \in Request, NEW o \in Object, CheckRemoved(r, o) PROVE TypeOK'
  <2>1. DataTypes'
    BY <1>0, <1>15, DataUnchanged DEF CheckRemoved
  <2>2. RequestTypes'
    BY <1>0, <1>15 DEF CheckRemoved, Goto, RequestTypes, DataTypes
  <2>3. WorkerTypes'
    BY <1>0, <1>15, WorkersUnchanged DEF CheckRemoved
  <2> QED
    BY <2>1, <2>2, <2>3 DEF TypeOK
<1>16. ASSUME NEW r \in Request, RemoveBytes(r) PROVE TypeOK'
  <2>1. DataTypes'
    BY <1>0, <1>16 DEF RemoveBytes, DataTypes, NoJob, rows
  <2>2. RequestTypes'
    BY <1>0, <1>16 DEF RemoveBytes, Goto, RequestTypes
  <2>3. WorkerTypes'
    BY <1>0, <1>16, WorkersUnchanged DEF RemoveBytes
  <2> QED
    BY <2>1, <2>2, <2>3 DEF TypeOK
<1>17. ASSUME NEW r \in Request, NEW S \in SUBSET Object, BeginCopy(r, S) PROVE TypeOK'
  <2>1. DataTypes'
    BY <1>0, <1>17, DataUnchanged DEF BeginCopy
  <2>2. RequestTypes'
    BY <1>0, <1>17 DEF BeginCopy, Goto, RequestTypes
  <2>3. WorkerTypes'
    BY <1>0, <1>17, WorkersUnchanged DEF BeginCopy
  <2> QED
    BY <2>1, <2>2, <2>3 DEF TypeOK
<1>18. ASSUME NEW r \in Request, NEW copies \in [shared[r] -> Object], CommitCopy(r, copies) PROVE TypeOK'
  <2>1. DataTypes'
    BY <1>0, <1>18 DEF CommitCopy, DataTypes, NoJob, RequestTypes
  <2>2. RequestTypes'
    BY <1>0, <1>18 DEF CommitCopy, Goto, RequestTypes
  <2>3. WorkerTypes'
    BY <1>0, <1>18, WorkersUnchanged DEF CommitCopy
  <2> QED
    BY <2>1, <2>2, <2>3 DEF TypeOK
<1>19. ASSUME NEW r \in Request, Stop(r) PROVE TypeOK'
  <2>1. DataTypes'
    BY <1>0, <1>19, DataUnchanged DEF Stop
  <2>2. RequestTypes'
    BY <1>0, <1>19 DEF Stop, Goto, RequestTypes
  <2>3. WorkerTypes'
    BY <1>0, <1>19, WorkersUnchanged DEF Stop
  <2> QED
    BY <2>1, <2>2, <2>3 DEF TypeOK
<1>20. ASSUME NEW w \in Worker, NEW S \in SUBSET Object, ClaimJobs(w, S) PROVE TypeOK'
  <2>1. DataTypes'
    BY <1>0, <1>20, ObjectAssumption DEF ClaimJobs, DataTypes, Job, NoJob, rows
  <2>2. RequestTypes'
    BY <1>0, <1>20, RequestsUnchanged DEF ClaimJobs
  <2>3. WorkerTypes'
    BY <1>0, <1>20 DEF ClaimJobs, DataTypes, Job, WorkerTypes, Claim, NoClaim
  <2> QED
    BY <2>1, <2>2, <2>3 DEF TypeOK
<1>21. ASSUME NEW w \in Worker, NEW c \in batch[w], TakeJob(w, c) PROVE TypeOK'
  <2>1. DataTypes'
    BY <1>0, <1>21, DataUnchanged DEF TakeJob
  <2>2. RequestTypes'
    BY <1>0, <1>21, RequestsUnchanged DEF TakeJob
  <2>3. WorkerTypes'
    BY <1>0, <1>21 DEF TakeJob, WorkerTypes, NoClaim
  <2> QED
    BY <2>1, <2>2, <2>3 DEF TypeOK
<1>22. ASSUME NEW w \in Worker, DeleteBytes(w) PROVE TypeOK'
  <2>1. DataTypes'
    BY <1>0, <1>22, ObjectAssumption DEF DeleteBytes, DataTypes, NoJob, rows
  <2>2. RequestTypes'
    BY <1>0, <1>22, RequestsUnchanged DEF DeleteBytes
  <2>3. WorkerTypes'
    BY <1>0, <1>22 DEF DeleteBytes, WorkerTypes, NoClaim
  <2> QED
    BY <2>1, <2>2, <2>3 DEF TypeOK
<1>23. ASSUME NEW w \in Worker, CompleteJob(w) PROVE TypeOK'
  <2>1. DataTypes'
    BY <1>0, <1>23, ObjectAssumption DEF CompleteJob, Settle, DataTypes, Job, NoJob, rows
  <2>2. RequestTypes'
    BY <1>0, <1>23, RequestsUnchanged DEF CompleteJob, Settle
  <2>3. WorkerTypes'
    BY <1>0, <1>23 DEF CompleteJob, Settle, WorkerTypes, NoClaim
  <2> QED
    BY <2>1, <2>2, <2>3 DEF TypeOK
<1>24. ASSUME NEW w \in Worker, RetryJob(w) PROVE TypeOK'
  <2>1. DataTypes'
    BY <1>0, <1>24, ObjectAssumption DEF RetryJob, Settle, DataTypes, Job, NoJob, rows, Claim, WorkerTypes
  <2>2. RequestTypes'
    BY <1>0, <1>24, RequestsUnchanged DEF RetryJob, Settle
  <2>3. WorkerTypes'
    BY <1>0, <1>24 DEF RetryJob, Settle, WorkerTypes, NoClaim
  <2> QED
    BY <2>1, <2>2, <2>3 DEF TypeOK
<1>25. ASSUME NEW w \in Worker, GiveUpJob(w) PROVE TypeOK'
  <2>1. DataTypes'
    BY <1>0, <1>25, ObjectAssumption DEF GiveUpJob, Settle, DataTypes, Job, NoJob, rows, Claim, WorkerTypes
  <2>2. RequestTypes'
    BY <1>0, <1>25, RequestsUnchanged DEF GiveUpJob, Settle
  <2>3. WorkerTypes'
    BY <1>0, <1>25 DEF GiveUpJob, Settle, WorkerTypes, NoClaim
  <2> QED
    BY <2>1, <2>2, <2>3 DEF TypeOK
<1>26. ASSUME NEW w \in Worker, AbandonBatch(w) PROVE TypeOK'
  <2>1. DataTypes'
    BY <1>0, <1>26, DataUnchanged DEF AbandonBatch
  <2>2. RequestTypes'
    BY <1>0, <1>26, RequestsUnchanged DEF AbandonBatch
  <2>3. WorkerTypes'
    BY <1>0, <1>26 DEF AbandonBatch, WorkerTypes, NoClaim
  <2> QED
    BY <2>1, <2>2, <2>3 DEF TypeOK
<1>27. ASSUME NEW o \in Object, RequeueJob(o) PROVE TypeOK'
  <2>1. DataTypes'
    BY <1>0, <1>27 DEF RequeueJob, DataTypes, Job, NoJob, rows
  <2>2. RequestTypes'
    BY <1>0, <1>27, RequestsUnchanged DEF RequeueJob
  <2>3. WorkerTypes'
    BY <1>0, <1>27, WorkersUnchanged DEF RequeueJob
  <2> QED
    BY <2>1, <2>2, <2>3 DEF TypeOK
<1> QED
  BY <1>1, <1>2, <1>3, <1>4, <1>5, <1>6, <1>7, <1>8, <1>9, <1>10, <1>11, <1>12, <1>13,
     <1>14, <1>15, <1>16, <1>17, <1>18, <1>19, <1>20, <1>21, <1>22, <1>23, <1>24, <1>25, <1>26, <1>27, Actions

\* Type correctness: the queue's states, the rows and what every handler and
\* worker remembers stay within their types.
THEOREM TypeCorrect == Spec => []TypeOK
<1>1. Init => TypeOK
  BY TypeInit
<1>2. TypeOK /\ [Next]_vars => TypeOK'
  BY TypeStep
<1> QED
  BY <1>1, <1>2, PTL DEF Spec

-------------------------------------------------------------------------------
(* What every reachable state has: locks exclude, ids and jobs are accounted  *)
(* for.                                                                       *)

\* Only soft-deleted rows have jobs to claim.
LEMMA ClaimedRows ==
  ASSUME BaseInv, NEW w \in Worker, NEW S \in SUBSET Object, ClaimJobs(w, S)
  PROVE RowsInv' /\ WorkersInv'
<1>1. \A o \in S : row[o] = "deleted" /\ job[o].status # "none"
  BY DEF ClaimJobs, Claimable, BaseInv, RowsInv
<1>2. \A o \in Object : job'[o].status # "none" => row[o] = "deleted"
  <2>1. TAKE o \in Object
  <2>2. CASE o \in S
    BY <1>1, <2>2
  <2>3. CASE o \notin S
    BY <2>3 DEF ClaimJobs, BaseInv, RowsInv
  <2> QED
    BY <2>2, <2>3
<1>3. UNCHANGED <<row, key, deletedAt, clock, cur>>
  BY DEF ClaimJobs, rows
<1>4. RowsInv'
  BY <1>2, <1>3 DEF BaseInv, RowsInv
<1>5. \A v \in Worker : \A c \in batch'[v] : row[c.object] = "deleted"
  <2>1. batch' = [batch EXCEPT ![w] = {[object |-> o, attempt |-> job[o].attempt + 1] : o \in S}]
    BY DEF ClaimJobs
  <2>2. \A v \in Worker \ {w} : batch'[v] = batch[v]
    BY <2>1 DEF BaseInv, TypeOK
  <2>3. batch'[w] = {[object |-> o, attempt |-> job[o].attempt + 1] : o \in S}
    BY <2>1 DEF BaseInv, TypeOK, WorkerTypes
  <2>4. \A c \in batch'[w] : row[c.object] = "deleted"
    BY <2>3, <1>1
  <2> QED
    BY <2>2, <2>4 DEF BaseInv, WorkersInv
<1>6. WorkersInv'
  BY <1>3, <1>5 DEF ClaimJobs, BaseInv, TypeOK, WorkersInv
<1> QED
  BY <1>4, <1>6

LEMMA BaseStep == ASSUME BaseInv, [Next]_vars PROVE RowsInv' /\ LocksInv' /\ UploadsInv' /\ WorkersInv'
<1>0. DataTypes /\ RequestTypes /\ WorkerTypes /\ RowsInv /\ LocksInv /\ UploadsInv /\ WorkersInv
  BY DEF BaseInv, TypeOK
<1>1. CASE UNCHANGED vars
  BY <1>0, <1>1 DEF vars, rows, requests, workers, RowsInv, LocksInv, UploadsInv, WorkersInv, Live
<1>2. ASSUME NEW r \in Request, NEW o \in Object, PutBytes(r, o) PROVE RowsInv' /\ LocksInv' /\ UploadsInv' /\ WorkersInv'
  <2>1. RowsInv'
    BY <1>0, <1>2 DEF PutBytes, rows, workers, Fresh, UploadsInv, Uploading, WorkersInv, RowsInv
  <2>2. LocksInv'
    BY <1>0, <1>2 DEF PutBytes, rows, workers, Fresh, Live, LocksInv
  <2>3. UploadsInv'
    BY <1>0, <1>2 DEF PutBytes, Goto, rows, workers, Fresh, Uploading, RequestTypes, UploadsInv
  <2>4. WorkersInv'
    BY <1>0, <1>2 DEF PutBytes, rows, workers, Fresh, WorkersInv
  <2> QED
    BY <2>1, <2>2, <2>3, <2>4
<1>3. ASSUME NEW r \in Request, NEW next \in {"idle", "link"}, InsertRow(r, next) PROVE RowsInv' /\ LocksInv' /\ UploadsInv' /\ WorkersInv'
  <2>1. RowsInv'
    BY <1>0, <1>3 DEF InsertRow, workers, UploadsInv, Uploading, WorkersInv, RowsInv
  <2>2. LocksInv'
    BY <1>0, <1>3 DEF InsertRow, workers, UploadsInv, Uploading, Live, LocksInv
  <2>3. UploadsInv'
    BY <1>0, <1>3 DEF InsertRow, Goto, workers, Uploading, DataTypes, RequestTypes, UploadsInv
  <2>4. WorkersInv'
    BY <1>0, <1>3 DEF InsertRow, workers, UploadsInv, Uploading, WorkersInv
  <2> QED
    BY <2>1, <2>2, <2>3, <2>4
<1>4. ASSUME NEW r \in Request, InsertFails(r) PROVE RowsInv' /\ LocksInv' /\ UploadsInv' /\ WorkersInv'
  <2>1. RowsInv'
    BY <1>0, <1>4 DEF InsertFails, rows, workers, UploadsInv, Uploading, WorkersInv, RowsInv
  <2>2. LocksInv'
    BY <1>0, <1>4 DEF InsertFails, rows, workers, Live, LocksInv
  <2>3. UploadsInv'
    BY <1>0, <1>4 DEF InsertFails, Goto, rows, workers, Uploading, UploadsInv
  <2>4. WorkersInv'
    BY <1>0, <1>4 DEF InsertFails, rows, workers, WorkersInv
  <2> QED
    BY <2>1, <2>2, <2>3, <2>4
<1>5. ASSUME NEW r \in Request, DropBytes(r) PROVE RowsInv' /\ LocksInv' /\ UploadsInv' /\ WorkersInv'
  <2>1. RowsInv'
    BY <1>0, <1>5 DEF DropBytes, rows, workers, UploadsInv, Uploading, WorkersInv, RowsInv
  <2>2. LocksInv'
    BY <1>0, <1>5 DEF DropBytes, rows, workers, Live, LocksInv
  <2>3. UploadsInv'
    BY <1>0, <1>5 DEF DropBytes, Goto, rows, workers, Uploading, RequestTypes, UploadsInv
  <2>4. WorkersInv'
    BY <1>0, <1>5 DEF DropBytes, rows, workers, WorkersInv
  <2> QED
    BY <2>1, <2>2, <2>3, <2>4
<1>6. ASSUME NEW r \in Request, LinkUpload(r) PROVE RowsInv' /\ LocksInv' /\ UploadsInv' /\ WorkersInv'
  <2>1. RowsInv'
    BY <1>0, <1>6 DEF LinkUpload, workers, UploadsInv, Uploading, WorkersInv, RowsInv
  <2>2. LocksInv'
    BY <1>0, <1>6 DEF LinkUpload, workers, Live, LocksInv
  <2>3. UploadsInv'
    BY <1>0, <1>6 DEF LinkUpload, Goto, workers, Uploading, RequestTypes, UploadsInv
  <2>4. WorkersInv'
    BY <1>0, <1>6 DEF LinkUpload, workers, WorkersInv
  <2> QED
    BY <2>1, <2>2, <2>3, <2>4
<1>7. ASSUME NEW r \in Request, LinkFails(r) PROVE RowsInv' /\ LocksInv' /\ UploadsInv' /\ WorkersInv'
  <2>1. RowsInv'
    BY <1>0, <1>7 DEF LinkFails, rows, workers, UploadsInv, Uploading, WorkersInv, RowsInv
  <2>2. LocksInv'
    BY <1>0, <1>7 DEF LinkFails, rows, workers, Live, LocksInv
  <2>3. UploadsInv'
    BY <1>0, <1>7 DEF LinkFails, Goto, rows, workers, Uploading, UploadsInv
  <2>4. WorkersInv'
    BY <1>0, <1>7 DEF LinkFails, rows, workers, WorkersInv
  <2> QED
    BY <2>1, <2>2, <2>3, <2>4
<1>8. ASSUME NEW r \in Request, CleanupRow(r) PROVE RowsInv' /\ LocksInv' /\ UploadsInv' /\ WorkersInv'
  <2>1. RowsInv'
    BY <1>0, <1>8 DEF CleanupRow, SoftDelete, workers, Unlocked, ExclusivelyLocked, UploadsInv, Uploading, WorkersInv, DataTypes, RowsInv
  <2>2. LocksInv'
    BY <1>0, <1>8 DEF CleanupRow, SoftDelete, workers, Live, Unlocked, ExclusivelyLocked, RequestTypes, LocksInv
  <2>3. UploadsInv'
    BY <1>0, <1>8 DEF CleanupRow, SoftDelete, Goto, workers, Unlocked, ExclusivelyLocked, Uploading, RequestTypes, UploadsInv
  <2>4. WorkersInv'
    BY <1>0, <1>8 DEF CleanupRow, SoftDelete, workers, Unlocked, ExclusivelyLocked, WorkerTypes, Claim, WorkersInv
  <2> QED
    BY <2>1, <2>2, <2>3, <2>4
<1>9. ASSUME NEW r \in Request, CleanupRowFails(r) PROVE RowsInv' /\ LocksInv' /\ UploadsInv' /\ WorkersInv'
  <2>1. RowsInv'
    BY <1>0, <1>9 DEF CleanupRowFails, rows, workers, UploadsInv, Uploading, WorkersInv, RowsInv
  <2>2. LocksInv'
    BY <1>0, <1>9 DEF CleanupRowFails, rows, workers, Live, LocksInv
  <2>3. UploadsInv'
    BY <1>0, <1>9 DEF CleanupRowFails, Goto, rows, workers, Uploading, UploadsInv
  <2>4. WorkersInv'
    BY <1>0, <1>9 DEF CleanupRowFails, rows, workers, WorkersInv
  <2> QED
    BY <2>1, <2>2, <2>3, <2>4
<1>10. ASSUME NEW r \in Request, CleanupBytes(r) PROVE RowsInv' /\ LocksInv' /\ UploadsInv' /\ WorkersInv'
  <2>1. RowsInv'
    BY <1>0, <1>10 DEF CleanupBytes, rows, workers, UploadsInv, Uploading, WorkersInv, RowsInv
  <2>2. LocksInv'
    BY <1>0, <1>10 DEF CleanupBytes, rows, workers, Live, LocksInv
  <2>3. UploadsInv'
    BY <1>0, <1>10 DEF CleanupBytes, Goto, rows, workers, Uploading, RequestTypes, UploadsInv
  <2>4. WorkersInv'
    BY <1>0, <1>10 DEF CleanupBytes, rows, workers, WorkersInv
  <2> QED
    BY <2>1, <2>2, <2>3, <2>4
<1>11. ASSUME NEW r \in Request, CommitLost(r) PROVE RowsInv' /\ LocksInv' /\ UploadsInv' /\ WorkersInv'
  <2>1. RowsInv'
    BY <1>0, <1>11 DEF CommitLost, workers, UploadsInv, Uploading, WorkersInv, DataTypes, RowsInv
  <2>2. LocksInv'
    BY <1>0, <1>11 DEF CommitLost, workers, Live, UploadsInv, Uploading, DataTypes, RequestTypes, LocksInv
  <2>3. UploadsInv'
    BY <1>0, <1>11 DEF CommitLost, Goto, workers, Uploading, DataTypes, RequestTypes, UploadsInv
  <2>4. WorkersInv'
    BY <1>0, <1>11 DEF CommitLost, workers, UploadsInv, Uploading, DataTypes, WorkerTypes, Claim, WorkersInv
  <2> QED
    BY <2>1, <2>2, <2>3, <2>4
<1>12. ASSUME NEW r \in Request, NEW S \in SUBSET Object, BeginDelete(r, S) PROVE RowsInv' /\ LocksInv' /\ UploadsInv' /\ WorkersInv'
  <2>1. RowsInv'
    BY <1>0, <1>12 DEF BeginDelete, rows, workers, UploadsInv, Uploading, WorkersInv, RowsInv
  <2>2. LocksInv'
    BY <1>0, <1>12 DEF BeginDelete, rows, workers, Live, LocksInv
  <2>3. UploadsInv'
    BY <1>0, <1>12 DEF BeginDelete, Goto, rows, workers, Uploading, UploadsInv
  <2>4. WorkersInv'
    BY <1>0, <1>12 DEF BeginDelete, rows, workers, WorkersInv
  <2> QED
    BY <2>1, <2>2, <2>3, <2>4
<1>13. ASSUME NEW r \in Request, NEW o \in Object, LockRow(r, o) PROVE RowsInv' /\ LocksInv' /\ UploadsInv' /\ WorkersInv'
  <2>1. RowsInv'
    BY <1>0, <1>13 DEF LockRow, rows, workers, Unlocked, ExclusivelyLocked, UploadsInv, Uploading, WorkersInv, RowsInv
  <2>2. LocksInv'
    BY <1>0, <1>13 DEF LockRow, rows, workers, Unlocked, ExclusivelyLocked, Live, LocksInv
  <2>3. UploadsInv'
    BY <1>0, <1>13 DEF LockRow, rows, workers, Unlocked, ExclusivelyLocked, Uploading, UploadsInv
  <2>4. WorkersInv'
    BY <1>0, <1>13 DEF LockRow, rows, workers, Unlocked, ExclusivelyLocked, WorkersInv
  <2> QED
    BY <2>1, <2>2, <2>3, <2>4
<1>14. ASSUME NEW r \in Request, CommitDelete(r) PROVE RowsInv' /\ LocksInv' /\ UploadsInv' /\ WorkersInv'
  <2>1. RowsInv'
    BY <1>0, <1>14 DEF CommitDelete, SoftDelete, workers, UploadsInv, Uploading, WorkersInv, DataTypes, RowsInv
  <2>2. LocksInv'
    BY <1>0, <1>14 DEF CommitDelete, SoftDelete, workers, Live, RequestTypes, LocksInv
  <2>3. UploadsInv'
    BY <1>0, <1>14 DEF CommitDelete, SoftDelete, Goto, workers, Uploading, LocksInv, Live, RequestTypes, UploadsInv
  <2>4. WorkersInv'
    BY <1>0, <1>14 DEF CommitDelete, SoftDelete, workers, WorkerTypes, Claim, WorkersInv
  <2> QED
    BY <2>1, <2>2, <2>3, <2>4
<1>15. ASSUME NEW r \in Request, NEW o \in Object, CheckRemoved(r, o) PROVE RowsInv' /\ LocksInv' /\ UploadsInv' /\ WorkersInv'
  <2>1. RowsInv'
    BY <1>0, <1>15 DEF CheckRemoved, rows, workers, UploadsInv, Uploading, WorkersInv, RowsInv
  <2>2. LocksInv'
    BY <1>0, <1>15 DEF CheckRemoved, rows, workers, Live, LocksInv
  <2>3. UploadsInv'
    BY <1>0, <1>15 DEF CheckRemoved, Goto, rows, workers, Uploading, RowsInv, LocksInv, RequestTypes, UploadsInv
  <2>4. WorkersInv'
    BY <1>0, <1>15 DEF CheckRemoved, rows, workers, WorkersInv
  <2> QED
    BY <2>1, <2>2, <2>3, <2>4
<1>16. ASSUME NEW r \in Request, RemoveBytes(r) PROVE RowsInv' /\ LocksInv' /\ UploadsInv' /\ WorkersInv'
  <2>1. RowsInv'
    BY <1>0, <1>16 DEF RemoveBytes, rows, workers, UploadsInv, Uploading, WorkersInv, RowsInv
  <2>2. LocksInv'
    BY <1>0, <1>16 DEF RemoveBytes, rows, workers, Live, LocksInv
  <2>3. UploadsInv'
    BY <1>0, <1>16 DEF RemoveBytes, Goto, rows, workers, Uploading, RequestTypes, UploadsInv
  <2>4. WorkersInv'
    BY <1>0, <1>16 DEF RemoveBytes, rows, workers, WorkersInv
  <2> QED
    BY <2>1, <2>2, <2>3, <2>4
<1>17. ASSUME NEW r \in Request, NEW S \in SUBSET Object, BeginCopy(r, S) PROVE RowsInv' /\ LocksInv' /\ UploadsInv' /\ WorkersInv'
  <2>1. RowsInv'
    BY <1>0, <1>17 DEF BeginCopy, rows, workers, ExclusivelyLocked, UploadsInv, Uploading, WorkersInv, RowsInv
  <2>2. LocksInv'
    BY <1>0, <1>17 DEF BeginCopy, rows, workers, ExclusivelyLocked, Live, LocksInv
  <2>3. UploadsInv'
    BY <1>0, <1>17 DEF BeginCopy, Goto, rows, workers, ExclusivelyLocked, Uploading, UploadsInv
  <2>4. WorkersInv'
    BY <1>0, <1>17 DEF BeginCopy, rows, workers, ExclusivelyLocked, WorkersInv
  <2> QED
    BY <2>1, <2>2, <2>3, <2>4
<1>18. ASSUME NEW r \in Request, NEW copies \in [shared[r] -> Object], CommitCopy(r, copies) PROVE RowsInv' /\ LocksInv' /\ UploadsInv' /\ WorkersInv'
  <2>1. RowsInv'
    BY <1>0, <1>18 DEF CommitCopy, workers, Fresh, LocksInv, UploadsInv, Uploading, Live, WorkersInv, DataTypes, RowsInv
  <2>2. LocksInv'
    BY <1>0, <1>18 DEF CommitCopy, workers, Fresh, Live, RequestTypes, LocksInv
  <2>3. UploadsInv'
    BY <1>0, <1>18 DEF CommitCopy, Goto, workers, Fresh, Uploading, RequestTypes, UploadsInv
  <2>4. WorkersInv'
    BY <1>0, <1>18 DEF CommitCopy, workers, Fresh, WorkerTypes, Claim, WorkersInv
  <2> QED
    BY <2>1, <2>2, <2>3, <2>4
<1>19. ASSUME NEW r \in Request, Stop(r) PROVE RowsInv' /\ LocksInv' /\ UploadsInv' /\ WorkersInv'
  <2>1. RowsInv'
    BY <1>0, <1>19 DEF Stop, rows, workers, UploadsInv, Uploading, WorkersInv, RowsInv
  <2>2. LocksInv'
    BY <1>0, <1>19 DEF Stop, rows, workers, Live, LocksInv
  <2>3. UploadsInv'
    BY <1>0, <1>19 DEF Stop, Goto, rows, workers, Uploading, RequestTypes, UploadsInv
  <2>4. WorkersInv'
    BY <1>0, <1>19 DEF Stop, rows, workers, WorkersInv
  <2> QED
    BY <2>1, <2>2, <2>3, <2>4
<1>20. ASSUME NEW w \in Worker, NEW S \in SUBSET Object, ClaimJobs(w, S) PROVE RowsInv' /\ LocksInv' /\ UploadsInv' /\ WorkersInv'
  <2>1. RowsInv'
    BY <1>20, ClaimedRows
  <2>2. LocksInv'
    BY <1>0, <1>20 DEF ClaimJobs, rows, requests, Claimable, Live, LocksInv
  <2>3. UploadsInv'
    BY <1>0, <1>20 DEF ClaimJobs, rows, requests, Claimable, Uploading, UploadsInv
  <2>4. WorkersInv'
    BY <1>20, ClaimedRows
  <2> QED
    BY <2>1, <2>2, <2>3, <2>4
<1>21. ASSUME NEW w \in Worker, NEW c \in batch[w], TakeJob(w, c) PROVE RowsInv' /\ LocksInv' /\ UploadsInv' /\ WorkersInv'
  <2>1. RowsInv'
    BY <1>0, <1>21 DEF TakeJob, rows, requests, UploadsInv, Uploading, WorkersInv, RowsInv
  <2>2. LocksInv'
    BY <1>0, <1>21 DEF TakeJob, rows, requests, Live, LocksInv
  <2>3. UploadsInv'
    BY <1>0, <1>21 DEF TakeJob, rows, requests, Uploading, UploadsInv
  <2>4. WorkersInv'
    BY <1>0, <1>21 DEF TakeJob, rows, requests, WorkerTypes, WorkersInv
  <2> QED
    BY <2>1, <2>2, <2>3, <2>4
<1>22. ASSUME NEW w \in Worker, DeleteBytes(w) PROVE RowsInv' /\ LocksInv' /\ UploadsInv' /\ WorkersInv'
  <2>1. RowsInv'
    BY <1>0, <1>22 DEF DeleteBytes, rows, requests, UploadsInv, Uploading, WorkersInv, RowsInv
  <2>2. LocksInv'
    BY <1>0, <1>22 DEF DeleteBytes, rows, requests, Live, LocksInv
  <2>3. UploadsInv'
    BY <1>0, <1>22 DEF DeleteBytes, rows, requests, Uploading, UploadsInv
  <2>4. WorkersInv'
    BY <1>0, <1>22 DEF DeleteBytes, rows, requests, WorkerTypes, WorkersInv
  <2> QED
    BY <2>1, <2>2, <2>3, <2>4
<1>23. ASSUME NEW w \in Worker, CompleteJob(w) PROVE RowsInv' /\ LocksInv' /\ UploadsInv' /\ WorkersInv'
  <2>1. RowsInv'
    BY <1>0, <1>23 DEF CompleteJob, Settle, HoldsLease, rows, requests, NoJob, UploadsInv, Uploading, WorkersInv, RowsInv
  <2>2. LocksInv'
    BY <1>0, <1>23 DEF CompleteJob, Settle, HoldsLease, rows, requests, NoJob, Live, LocksInv
  <2>3. UploadsInv'
    BY <1>0, <1>23 DEF CompleteJob, Settle, HoldsLease, rows, requests, NoJob, Uploading, UploadsInv
  <2>4. WorkersInv'
    BY <1>0, <1>23 DEF CompleteJob, Settle, HoldsLease, rows, requests, NoJob, WorkerTypes, WorkersInv
  <2> QED
    BY <2>1, <2>2, <2>3, <2>4
<1>24. ASSUME NEW w \in Worker, RetryJob(w) PROVE RowsInv' /\ LocksInv' /\ UploadsInv' /\ WorkersInv'
  <2>1. RowsInv'
    BY <1>0, <1>24 DEF RetryJob, Settle, HoldsLease, rows, requests, UploadsInv, Uploading, WorkersInv, RowsInv
  <2>2. LocksInv'
    BY <1>0, <1>24 DEF RetryJob, Settle, HoldsLease, rows, requests, Live, LocksInv
  <2>3. UploadsInv'
    BY <1>0, <1>24 DEF RetryJob, Settle, HoldsLease, rows, requests, Uploading, UploadsInv
  <2>4. WorkersInv'
    BY <1>0, <1>24 DEF RetryJob, Settle, HoldsLease, rows, requests, WorkerTypes, WorkersInv
  <2> QED
    BY <2>1, <2>2, <2>3, <2>4
<1>25. ASSUME NEW w \in Worker, GiveUpJob(w) PROVE RowsInv' /\ LocksInv' /\ UploadsInv' /\ WorkersInv'
  <2>1. RowsInv'
    BY <1>0, <1>25 DEF GiveUpJob, Settle, HoldsLease, rows, requests, UploadsInv, Uploading, WorkersInv, RowsInv
  <2>2. LocksInv'
    BY <1>0, <1>25 DEF GiveUpJob, Settle, HoldsLease, rows, requests, Live, LocksInv
  <2>3. UploadsInv'
    BY <1>0, <1>25 DEF GiveUpJob, Settle, HoldsLease, rows, requests, Uploading, UploadsInv
  <2>4. WorkersInv'
    BY <1>0, <1>25 DEF GiveUpJob, Settle, HoldsLease, rows, requests, WorkerTypes, WorkersInv
  <2> QED
    BY <2>1, <2>2, <2>3, <2>4
<1>26. ASSUME NEW w \in Worker, AbandonBatch(w) PROVE RowsInv' /\ LocksInv' /\ UploadsInv' /\ WorkersInv'
  <2>1. RowsInv'
    BY <1>0, <1>26 DEF AbandonBatch, rows, requests, NoJob, UploadsInv, Uploading, WorkersInv, RowsInv
  <2>2. LocksInv'
    BY <1>0, <1>26 DEF AbandonBatch, rows, requests, NoJob, Live, LocksInv
  <2>3. UploadsInv'
    BY <1>0, <1>26 DEF AbandonBatch, rows, requests, NoJob, Uploading, UploadsInv
  <2>4. WorkersInv'
    BY <1>0, <1>26 DEF AbandonBatch, rows, requests, NoJob, WorkerTypes, WorkersInv
  <2> QED
    BY <2>1, <2>2, <2>3, <2>4
<1>27. ASSUME NEW o \in Object, RequeueJob(o) PROVE RowsInv' /\ LocksInv' /\ UploadsInv' /\ WorkersInv'
  <2>1. RowsInv'
    BY <1>0, <1>27 DEF RequeueJob, rows, requests, workers, UploadsInv, Uploading, WorkersInv, RowsInv
  <2>2. LocksInv'
    BY <1>0, <1>27 DEF RequeueJob, rows, requests, workers, Live, LocksInv
  <2>3. UploadsInv'
    BY <1>0, <1>27 DEF RequeueJob, rows, requests, workers, Uploading, UploadsInv
  <2>4. WorkersInv'
    BY <1>0, <1>27 DEF RequeueJob, rows, requests, workers, WorkersInv
  <2> QED
    BY <2>1, <2>2, <2>3, <2>4
<1> QED
  BY <1>1, <1>2, <1>3, <1>4, <1>5, <1>6, <1>7, <1>8, <1>9, <1>10, <1>11, <1>12, <1>13,
     <1>14, <1>15, <1>16, <1>17, <1>18, <1>19, <1>20, <1>21, <1>22, <1>23, <1>24, <1>25, <1>26, <1>27, Actions

LEMMA BaseInit == Init => BaseInv
BY TypeInit DEF Init, BaseInv, RowsInv, LocksInv, UploadsInv, Uploading, WorkersInv, NoJob

LEMMA BaseAlways == Spec => []BaseInv
<1>1. BaseInv /\ [Next]_vars => BaseInv'
  BY BaseStep, TypeStep DEF BaseInv
<1> QED
  BY BaseInit, <1>1, PTL DEF Spec

-------------------------------------------------------------------------------
(* The bytes of a live row are never deleted.                                 *)

\* The row of an upload is the first to use its key.
LEMMA InsertBytes ==
  ASSUME BaseInv, BytesInv, NEW r \in Request, NEW next \in {"idle", "link"}, InsertRow(r, next)
  PROVE BytesInv'
<1>1. /\ pc[r] = "insert" /\ obj[r] \in Object /\ row[obj[r]] = "none" /\ key[obj[r]] = obj[r]
      /\ obj[r] \in bytes /\ obj[r] \notin linked
  BY DEF InsertRow, BaseInv, TypeOK, RequestTypes, UploadsInv, RowsInv, BytesInv
<1>2. row' = [row EXCEPT ![obj[r]] = "live"] /\ UNCHANGED <<key, linked, bytes, wpc, cur>>
  BY DEF InsertRow, workers
<1>3. \A o \in Object : row'[o] # "none" => row[o] # "none" \/ o = obj[r]
  BY <1>1, <1>2 DEF BaseInv, TypeOK
<1>4. LiveBytesKept'
  BY <1>1, <1>2 DEF BytesInv, LiveBytesKept, Live, BaseInv, TypeOK
<1>5. \A o \in linked' : row'[o] # "none"
  BY <1>1, <1>2 DEF BytesInv, BaseInv, TypeOK
<1>6. \A o \in Object : row'[o] # "none" /\ key'[o] # o => key'[o] \in linked'
  BY <1>1, <1>2, <1>3 DEF BytesInv
<1>7. \A k \in Object : row[k] # "none" /\ ~InUse(k) => ~InUse(k)'
  BY <1>1, <1>2 DEF InUse, Live, BaseInv, TypeOK
<1>8. \A q \in Request : q # r => pc'[q] = pc[q] /\ obj'[q] = obj[q]
  BY DEF InsertRow, Goto, BaseInv, TypeOK
<1>9. pc'[r] \in {"idle", "link"} /\ (pc'[r] = "link" => obj'[r] = obj[r])
  BY DEF InsertRow, Goto, BaseInv, TypeOK, RequestTypes
<1>10. ASSUME NEW q \in Request
       PROVE  /\ pc'[q] = "insert" => obj'[q] \in bytes'
              /\ pc'[q] = "drop" => row'[obj'[q]] = "none"
              /\ pc'[q] \in {"link", "cleanup", "cleanupBytes"} => obj'[q] \notin linked' /\ key'[obj'[q]] = obj'[q]
              /\ pc'[q] = "cleanupBytes" => row'[obj'[q]] = "deleted"
              /\ pc'[q] = "remove" => ~InUse(obj[q])'
  <2>1. CASE q = r
    BY <2>1, <1>1, <1>2, <1>9
  <2>2. CASE q # r
    <3>1. pc[q] \in {"insert", "drop", "link", "cleanup", "cleanupBytes"} => obj[q] # obj[r]
      BY <2>2, <1>1 DEF BaseInv, UploadsInv, Uploading
    <3>2. pc[q] = "remove" => row[obj[q]] # "none" /\ obj[q] \in Object
      BY DEF BaseInv, UploadsInv, TypeOK, RequestTypes
    <3> QED
      BY <2>2, <3>1, <3>2, <1>1, <1>2, <1>7, <1>8 DEF BytesInv, BaseInv, TypeOK
  <2> QED
    BY <2>1, <2>2
<1>11. \A w \in Worker : wpc'[w] = "delete" => ~InUse(key[cur[w].object])'
  BY <1>2, <1>7 DEF BytesInv, BaseInv, TypeOK, DataTypes, WorkerTypes, WorkersInv, Claim
<1>12. \A q \in Request : pc'[q] = "remove" => obj'[q] = obj[q]
  BY <1>8, <1>9
<1> QED
  BY <1>4, <1>5, <1>6, <1>10, <1>11, <1>12, <1>2 DEF BytesInv, InUse

\* A copy's new rows were unused, and share the key of a live, linked row.
LEMMA CopiedRows ==
  ASSUME BaseInv, NEW r \in Request, NEW copies \in [shared[r] -> Object], CommitCopy(r, copies)
  PROVE  /\ \A o \in Object : row[o] # "none" => row'[o] = row[o] /\ key'[o] = key[o]
         /\ \A o \in Object : row'[o] # row[o] =>
              /\ row[o] = "none" /\ row'[o] = "live" /\ Fresh(o)
              /\ \E s \in shared[r] : Live(s) /\ s \in linked /\ key'[o] = key[s]
         /\ \A o \in Object : row'[o] = "none" => key'[o] = key[o]
<1> DEFINE new(o) == \E s \in shared[r] : copies[s] = o
<1>1. \A s \in shared[r] : s \in Object /\ Live(s) /\ s \in linked /\ copies[s] \in Object /\ Fresh(copies[s])
  BY DEF CommitCopy, BaseInv, LocksInv, TypeOK, RequestTypes
<1>2. \A o \in Object : row'[o] = IF new(o) THEN "live" ELSE row[o]
  BY DEF CommitCopy
<1>3. \A o \in Object : key'[o] = IF new(o) THEN key[CHOOSE s \in shared[r] : copies[s] = o] ELSE key[o]
  BY DEF CommitCopy
<1>4. \A o \in Object : new(o) => row[o] = "none" /\ Fresh(o)
  BY <1>1 DEF Fresh
<1>5. \A o \in Object : new(o) => \E s \in shared[r] : key'[o] = key[s]
  BY <1>3
<1> HIDE DEF new
<1> QED
  BY <1>1, <1>2, <1>3, <1>4, <1>5

\* A copy is only made of a live row, so it brings no key back into use.
LEMMA CopyBytes ==
  ASSUME BaseInv, BytesInv, NEW r \in Request, NEW copies \in [shared[r] -> Object], CommitCopy(r, copies)
  PROVE BytesInv'
<1>1. /\ \A o \in Object : row[o] # "none" => row'[o] = row[o] /\ key'[o] = key[o]
      /\ \A o \in Object : row'[o] # row[o] =>
           /\ row[o] = "none" /\ row'[o] = "live" /\ Fresh(o)
           /\ \E s \in shared[r] : Live(s) /\ s \in linked /\ key'[o] = key[s]
      /\ \A o \in Object : row'[o] = "none" => key'[o] = key[o]
  BY CopiedRows
<1>2. /\ UNCHANGED <<bytes, obj, wpc, cur>> /\ linked' = linked \cup {copies[s] : s \in shared[r]}
      /\ \A s \in shared[r] : copies[s] \in Object /\ row'[copies[s]] = "live" /\ Fresh(copies[s])
  BY DEF CommitCopy, workers
<1>3. shared[r] \subseteq Object
  BY DEF BaseInv, TypeOK, RequestTypes
<1>4. LiveBytesKept'
  BY <1>1, <1>2, <1>3 DEF LiveBytesKept, Live, BytesInv
<1>5. \A o \in linked' : row'[o] # "none"
  BY <1>1, <1>2 DEF BytesInv, BaseInv, TypeOK, DataTypes
<1>6. \A o \in Object : row'[o] # "none" /\ key'[o] # o => key'[o] \in linked'
  <2>1. TAKE o \in Object
  <2>2. CASE row'[o] = row[o]
    BY <2>2, <1>1, <1>2 DEF BytesInv
  <2>3. CASE row'[o] # row[o]
    BY <2>3, <1>1, <1>2, <1>3 DEF BytesInv
  <2> QED
    BY <2>2, <2>3
<1>7. \A k \in Object : ~InUse(k) => ~InUse(k)'
  BY <1>1, <1>3 DEF InUse, Live
<1>8. \A q \in Request : obj[q] \in Object => row'[obj[q]] = row[obj[q]] /\ key'[obj[q]] = key[obj[q]]
                              /\ (obj[q] \notin linked => obj[q] \notin linked')
  BY <1>1, <1>2 DEF Fresh
<1>9. \A q \in Request : pc'[q] = pc[q] \/ pc'[q] = "idle"
  BY DEF CommitCopy, Goto, BaseInv, TypeOK
<1>10. \A q \in Request :
         /\ pc'[q] = "insert" => obj'[q] \in bytes'
         /\ pc'[q] = "drop" => row'[obj'[q]] = "none"
         /\ pc'[q] \in {"link", "cleanup", "cleanupBytes"} => obj'[q] \notin linked' /\ key'[obj'[q]] = obj'[q]
         /\ pc'[q] = "cleanupBytes" => row'[obj'[q]] = "deleted"
  BY <1>2, <1>8, <1>9 DEF BytesInv, BaseInv, TypeOK, RequestTypes
<1>11. \A q \in Request : pc'[q] = "remove" => ~InUse(obj[q])'
  <2>1. \A q \in Request : pc'[q] = "remove" => obj[q] \in Object /\ ~InUse(obj[q])
    BY <1>9 DEF BytesInv, BaseInv, TypeOK, RequestTypes
  <2> QED
    BY <2>1, <1>2, <1>7 DEF InUse
<1>12. \A w \in Worker : wpc[w] = "delete" => ~InUse(key[cur[w].object]) /\ cur[w].object \in Object
                                               /\ row[cur[w].object] = "deleted"
  BY DEF BytesInv, BaseInv, TypeOK, WorkerTypes, WorkersInv, Claim
<1>13. \A w \in Worker : wpc'[w] = "delete" => ~InUse(key[cur[w].object])'
  BY <1>1, <1>2, <1>7, <1>12 DEF BaseInv, TypeOK, DataTypes
<1> QED
  BY <1>2, <1>4, <1>5, <1>6, <1>10, <1>11, <1>13 DEF BytesInv, InUse

\* A worker that got this far deletes bytes nothing live uses.
LEMMA WorkerDeletesBytes ==
  ASSUME BaseInv, BytesInv, NEW w \in Worker, DeleteBytes(w)
  PROVE BytesInv'
<1> DEFINE k == key[cur[w].object]
<1>1. wpc[w] = "delete" /\ UNCHANGED <<rows, job, requests, cur, batch>>
  BY DEF DeleteBytes
<1>2. k \in Object /\ ~InUse(k) /\ row[k] # "none"
  BY <1>1 DEF BytesInv, BaseInv, TypeOK, DataTypes, WorkerTypes, WorkersInv, Claim
<1>3. bytes \ {k} \subseteq bytes'
  BY DEF DeleteBytes
<1>4. LiveBytesKept'
  BY <1>1, <1>2, <1>3 DEF LiveBytesKept, BytesInv, InUse, Live, rows
<1>5. \A q \in Request : pc[q] = "insert" => obj[q] # k /\ obj[q] \in bytes
  BY <1>2 DEF BaseInv, UploadsInv, BytesInv
<1>6. \A v \in Worker : wpc'[v] = "delete" => wpc[v] = "delete"
  BY <1>1 DEF DeleteBytes, BaseInv, TypeOK, WorkerTypes
<1> HIDE DEF k
<1> QED
  BY <1>1, <1>3, <1>4, <1>5, <1>6 DEF BytesInv, rows, requests, InUse, Live

LEMMA BytesStep == ASSUME Faults = {}, BaseInv, BytesInv, [Next]_vars PROVE BytesInv'
<1>0. BaseInv /\ BytesInv /\ Faults = {}
  OBVIOUS
<1>1. CASE UNCHANGED vars
  BY <1>0, <1>1 DEF vars, rows, requests, workers, BytesInv, LiveBytesKept, Live, InUse
<1>2. ASSUME NEW r \in Request, NEW o \in Object, PutBytes(r, o) PROVE BytesInv'
  BY <1>0, <1>2 DEF PutBytes, Goto, rows, workers, BaseInv, TypeOK, RequestTypes, UploadsInv, Uploading, WorkersInv, Live, InUse, Fresh, BytesInv, LiveBytesKept
<1>3. ASSUME NEW r \in Request, NEW next \in {"idle", "link"}, InsertRow(r, next) PROVE BytesInv'
  BY <1>0, <1>3, InsertBytes
<1>4. ASSUME NEW r \in Request, InsertFails(r) PROVE BytesInv'
  BY <1>0, <1>4 DEF InsertFails, Goto, rows, workers, BaseInv, TypeOK, UploadsInv, Uploading, WorkersInv, Live, InUse, BytesInv, LiveBytesKept
<1>5. ASSUME NEW r \in Request, DropBytes(r) PROVE BytesInv'
  BY <1>0, <1>5 DEF DropBytes, Goto, rows, workers, BaseInv, TypeOK, RequestTypes, UploadsInv, Uploading, WorkersInv, Live, InUse, BytesInv, LiveBytesKept
<1>6. ASSUME NEW r \in Request, LinkUpload(r) PROVE BytesInv'
  BY <1>0, <1>6 DEF LinkUpload, Goto, workers, BaseInv, TypeOK, RequestTypes, UploadsInv, Uploading, WorkersInv, Live, InUse, BytesInv, LiveBytesKept
<1>7. ASSUME NEW r \in Request, LinkFails(r) PROVE BytesInv'
  BY <1>0, <1>7 DEF LinkFails, Goto, rows, workers, BaseInv, TypeOK, UploadsInv, Uploading, WorkersInv, Live, InUse, BytesInv, LiveBytesKept
<1>8. ASSUME NEW r \in Request, CleanupRow(r) PROVE BytesInv'
  BY <1>0, <1>8 DEF CleanupRow, SoftDelete, Goto, workers, BaseInv, TypeOK, DataTypes, RequestTypes, UploadsInv, Uploading, WorkersInv, Live, InUse, BytesInv, LiveBytesKept
<1>9. ASSUME NEW r \in Request, CleanupRowFails(r) PROVE BytesInv'
  BY <1>0, <1>9 DEF CleanupRowFails, Goto, rows, workers, BaseInv, TypeOK, DataTypes, RequestTypes, UploadsInv, Uploading, WorkersInv, Live, InUse, BytesInv, LiveBytesKept
<1>10. ASSUME NEW r \in Request, CleanupBytes(r) PROVE BytesInv'
  BY <1>0, <1>10 DEF CleanupBytes, Goto, rows, workers, BaseInv, TypeOK, RequestTypes, UploadsInv, Uploading, WorkersInv, Live, InUse, BytesInv, LiveBytesKept
<1>11. ASSUME NEW r \in Request, CommitLost(r) PROVE BytesInv'
  BY <1>0, <1>11 DEF CommitLost, workers, BaseInv, TypeOK, UploadsInv, Uploading, WorkersInv, InUse, BytesInv, LiveBytesKept
<1>12. ASSUME NEW r \in Request, NEW S \in SUBSET Object, BeginDelete(r, S) PROVE BytesInv'
  BY <1>0, <1>12 DEF BeginDelete, Goto, rows, workers, BaseInv, TypeOK, UploadsInv, Uploading, WorkersInv, Live, InUse, BytesInv, LiveBytesKept
<1>13. ASSUME NEW r \in Request, NEW o \in Object, LockRow(r, o) PROVE BytesInv'
  BY <1>0, <1>13 DEF LockRow, rows, workers, BaseInv, TypeOK, UploadsInv, Uploading, WorkersInv, Live, InUse, BytesInv, LiveBytesKept
<1>14. ASSUME NEW r \in Request, CommitDelete(r) PROVE BytesInv'
  BY <1>0, <1>14 DEF CommitDelete, SoftDelete, Goto, workers, BaseInv, TypeOK, DataTypes, RequestTypes, LocksInv, UploadsInv, Uploading, WorkersInv, Live, InUse, BytesInv, LiveBytesKept
<1>15. ASSUME NEW r \in Request, NEW o \in Object, CheckRemoved(r, o) PROVE BytesInv'
  BY <1>0, <1>15 DEF CheckRemoved, Goto, rows, workers, BaseInv, TypeOK, RequestTypes, UploadsInv, Uploading, WorkersInv, Live, InUse, BytesInv, LiveBytesKept
<1>16. ASSUME NEW r \in Request, RemoveBytes(r) PROVE BytesInv'
  BY <1>0, <1>16 DEF RemoveBytes, Goto, rows, workers, BaseInv, TypeOK, RequestTypes, UploadsInv, Uploading, WorkersInv, Live, InUse, BytesInv, LiveBytesKept
<1>17. ASSUME NEW r \in Request, NEW S \in SUBSET Object, BeginCopy(r, S) PROVE BytesInv'
  BY <1>0, <1>17 DEF BeginCopy, Goto, rows, workers, BaseInv, TypeOK, UploadsInv, Uploading, WorkersInv, Live, InUse, BytesInv, LiveBytesKept
<1>18. ASSUME NEW r \in Request, NEW copies \in [shared[r] -> Object], CommitCopy(r, copies) PROVE BytesInv'
  BY <1>0, <1>18, CopyBytes
<1>19. ASSUME NEW r \in Request, Stop(r) PROVE BytesInv'
  BY <1>0, <1>19 DEF Stop, Goto, rows, workers, BaseInv, TypeOK, RequestTypes, UploadsInv, Uploading, WorkersInv, Live, InUse, BytesInv, LiveBytesKept
<1>20. ASSUME NEW w \in Worker, NEW S \in SUBSET Object, ClaimJobs(w, S) PROVE BytesInv'
  BY <1>0, <1>20 DEF ClaimJobs, rows, requests, BaseInv, TypeOK, UploadsInv, Uploading, WorkersInv, Live, InUse, Claimable, BytesInv, LiveBytesKept
<1>21. ASSUME NEW w \in Worker, NEW c \in batch[w], TakeJob(w, c) PROVE BytesInv'
  BY <1>0, <1>21 DEF TakeJob, rows, requests, BaseInv, TypeOK, WorkerTypes, UploadsInv, Uploading, WorkersInv, Live, InUse, BytesInv, LiveBytesKept
<1>22. ASSUME NEW w \in Worker, DeleteBytes(w) PROVE BytesInv'
  BY <1>0, <1>22, WorkerDeletesBytes
<1>23. ASSUME NEW w \in Worker, CompleteJob(w) PROVE BytesInv'
  BY <1>0, <1>23 DEF CompleteJob, Settle, HoldsLease, rows, requests, NoJob, BaseInv, TypeOK, UploadsInv, Uploading, WorkersInv, Live, InUse, BytesInv, LiveBytesKept
<1>24. ASSUME NEW w \in Worker, RetryJob(w) PROVE BytesInv'
  BY <1>0, <1>24 DEF RetryJob, Settle, HoldsLease, rows, requests, BaseInv, TypeOK, UploadsInv, Uploading, WorkersInv, Live, InUse, BytesInv, LiveBytesKept
<1>25. ASSUME NEW w \in Worker, GiveUpJob(w) PROVE BytesInv'
  BY <1>0, <1>25 DEF GiveUpJob, Settle, HoldsLease, rows, requests, BaseInv, TypeOK, UploadsInv, Uploading, WorkersInv, Live, InUse, BytesInv, LiveBytesKept
<1>26. ASSUME NEW w \in Worker, AbandonBatch(w) PROVE BytesInv'
  BY <1>0, <1>26 DEF AbandonBatch, rows, requests, NoJob, BaseInv, TypeOK, WorkerTypes, UploadsInv, Uploading, WorkersInv, Live, InUse, BytesInv, LiveBytesKept
<1>27. ASSUME NEW o \in Object, RequeueJob(o) PROVE BytesInv'
  BY <1>0, <1>27 DEF RequeueJob, rows, requests, workers, BaseInv, TypeOK, UploadsInv, Uploading, WorkersInv, Live, InUse, BytesInv, LiveBytesKept
<1> QED
  BY <1>1, <1>2, <1>3, <1>4, <1>5, <1>6, <1>7, <1>8, <1>9, <1>10, <1>11, <1>12, <1>13,
     <1>14, <1>15, <1>16, <1>17, <1>18, <1>19, <1>20, <1>21, <1>22, <1>23, <1>24, <1>25, <1>26, <1>27, Actions

LEMMA BytesInit == Init => BytesInv
BY DEF Init, BytesInv, LiveBytesKept, Live, InUse

\* As long as the database answers a handler's clean-up and tells it which of
\* its commits were made, no deletion by a worker or a handler, no copy and no
\* lapsed lease ever takes the bytes of a live object.
THEOREM BytesAreKept == ASSUME Faults = {} PROVE Spec => []LiveBytesKept
<1>1. BaseInv /\ BytesInv /\ [Next]_vars => BytesInv'
  BY BytesStep
<1>2. BytesInv => LiveBytesKept
  BY DEF BytesInv
<1> QED
  BY BytesInit, <1>1, <1>2, BaseAlways, PTL DEF Spec

-------------------------------------------------------------------------------
(* Deleted rows' bytes are not forgotten.                                     *)

\* A row that answers for another keeps doing so when rows are soft-deleted:
\* those deleted now come after every row deleted before, and have their jobs.
LEMMA SoftDeleteCovers ==
  ASSUME BaseInv, CoverInv, NEW S \in SUBSET Object, \A o \in S : Live(o), SoftDelete(S),
         bytes' = bytes, UNCHANGED workers
  PROVE CoverInv'
<1>1. \A o \in Object : /\ o \in S => row[o] = "live" /\ row'[o] = "deleted" /\ job'[o].status = "pending"
                                     /\ deletedAt'[o] = clock + 1
                        /\ o \notin S => row'[o] = row[o] /\ job'[o] = job[o] /\ deletedAt'[o] = deletedAt[o]
  BY DEF SoftDelete, Live
<1>2. key' = key
  BY DEF SoftDelete
<1>3. \A o \in Object : deletedAt[o] \in Nat /\ deletedAt[o] <= clock /\ clock \in Nat
  BY DEF BaseInv, TypeOK, DataTypes, RowsInv
<1>4. ASSUME NEW x \in Object, row[x] = "deleted", Covered(x) PROVE Covered(x)'
  <2>1. x \notin S
    BY <1>4, <1>1
  <2>2. CASE key[x] \notin bytes
    BY <2>2, <1>2 DEF Covered
  <2>3. CASE key[x] \in bytes
    <3>1. PICK o \in Object : /\ key[o] = key[x]
                              /\ Live(o) \/ (row[o] = "deleted" /\ deletedAt[o] > deletedAt[x] /\ job[o].status # "none")
      BY <1>4, <2>3 DEF Covered
    <3>2. CASE o \in S
      <4>1. row'[o] = "deleted" /\ deletedAt'[o] > deletedAt'[x] /\ job'[o].status # "none"
        BY <2>1, <3>2, <1>1, <1>3
      <4> QED
        BY <4>1, <3>1, <1>2 DEF Covered
    <3>3. CASE o \notin S
      BY <2>1, <3>1, <3>3, <1>1, <1>2 DEF Covered, Live
    <3> QED
      BY <3>2, <3>3
  <2> QED
    BY <2>2, <2>3
<1>5. \A x \in Object : row'[x] = "deleted" /\ job'[x].status = "none" => Covered(x)'
  BY <1>1, <1>4 DEF CoverInv
<1>6. \A w \in Worker : wpc[w] = "keep" => cur[w].object \in Object /\ row[cur[w].object] = "deleted" /\ Covered(cur[w].object)
  BY DEF CoverInv, BaseInv, TypeOK, WorkerTypes, WorkersInv, Claim
<1>7. \A w \in Worker : wpc[w] = "keep" => Covered(cur[w].object)'
  <2>1. TAKE w \in Worker
  <2>2. HAVE wpc[w] = "keep"
  <2>3. cur' = cur
    BY DEF workers
  <2>4. PICK x \in Object : x = cur[w].object
    BY <2>2, <1>6
  <2>5. Covered(x)'
    BY <2>2, <2>4, <1>4, <1>6
  <2> QED
    BY <2>3, <2>4, <2>5 DEF Covered
<1> QED
  BY <1>2, <1>5, <1>7 DEF CoverInv, workers

\* Rows that appear take nothing away from the rows that answer for others.
LEMMA NewRowsCover ==
  ASSUME BaseInv, CoverInv, UNCHANGED <<job, bytes, deletedAt, workers>>,
         \A o \in Object : row[o] # "none" => row'[o] = row[o] /\ key'[o] = key[o],
         \A o \in Object : row'[o] = "deleted" => row[o] = "deleted"
  PROVE CoverInv'
<1>1. ASSUME NEW x \in Object, row[x] = "deleted", Covered(x) PROVE Covered(x)'
  BY <1>1 DEF Covered, Live
<1>2. \A x \in Object : row'[x] = "deleted" /\ job'[x].status = "none" => Covered(x)'
  BY <1>1 DEF CoverInv
<1>3. \A w \in Worker : wpc[w] \in {"keep", "complete"} =>
        cur[w].object \in Object /\ row[cur[w].object] = "deleted"
  BY DEF BaseInv, TypeOK, WorkerTypes, WorkersInv, Claim
<1>4. \A w \in Worker : wpc[w] = "keep" => Covered(cur[w].object)'
  <2>1. TAKE w \in Worker
  <2>2. HAVE wpc[w] = "keep"
  <2>3. PICK x \in Object : x = cur[w].object
    BY <2>2, <1>3
  <2>4. Covered(x)'
    BY <2>2, <2>3, <1>1, <1>3 DEF CoverInv
  <2> QED
    BY <2>3, <2>4 DEF Covered, workers
<1> QED
  BY <1>2, <1>3, <1>4 DEF CoverInv, workers

\* A job is kept on account of a row that is live.
LEMMA TakeCovers ==
  ASSUME BaseInv, CoverInv, NEW w \in Worker, NEW c \in batch[w], TakeJob(w, c)
  PROVE CoverInv'
<1>1. c \in Claim /\ row[c.object] = "deleted"
  BY DEF BaseInv, TypeOK, WorkerTypes, WorkersInv
<1>2. UNCHANGED <<row, key, deletedAt, job, bytes>>
  BY DEF TakeJob, rows
<1>3. \A v \in Worker : v # w => wpc'[v] = wpc[v] /\ cur'[v] = cur[v]
  BY DEF TakeJob, BaseInv, TypeOK, WorkerTypes
<1>4. cur'[w] = c /\ wpc'[w] # "complete" /\ (wpc'[w] = "keep" => InUse(key[c.object]))
  BY DEF TakeJob, BaseInv, TypeOK, WorkerTypes
<1>5. wpc'[w] = "keep" => Covered(c.object)
  BY <1>4 DEF InUse, Covered
<1> QED
  BY <1>2, <1>3, <1>4, <1>5 DEF CoverInv, Covered, Live

\* Completing a job leaves the rows it answered for to a row deleted later still.
LEMMA CompleteCovers ==
  ASSUME BaseInv, CoverInv, NEW w \in Worker, CompleteJob(w)
  PROVE CoverInv'
<1>1. PICK x \in Object : x = cur[w].object /\ row[x] = "deleted" /\ Covered(x)
  BY DEF CompleteJob, BaseInv, TypeOK, WorkerTypes, WorkersInv, Claim, CoverInv, Covered
<1>2. /\ UNCHANGED <<row, key, deletedAt, bytes>>
      /\ \A o \in Object : o # x => job'[o] = job[o]
      /\ job'[x] = job[x] \/ job'[x].status = "none"
  BY <1>1 DEF CompleteJob, Settle, rows, NoJob, BaseInv, TypeOK
<1>3. \A o \in Object : deletedAt[o] \in Nat
  BY DEF BaseInv, TypeOK, DataTypes
<1>4. ASSUME NEW y \in Object, Covered(y) PROVE Covered(y)'
  <2>1. CASE key[y] \notin bytes
    BY <2>1, <1>2 DEF Covered
  <2>2. CASE key[y] \in bytes
    <3>1. PICK o \in Object : /\ key[o] = key[y]
                              /\ Live(o) \/ (row[o] = "deleted" /\ deletedAt[o] > deletedAt[y] /\ job[o].status # "none")
      BY <1>4, <2>2 DEF Covered
    <3>2. CASE o # x
      BY <3>1, <3>2, <1>2 DEF Covered, Live
    <3>3. CASE o = x
      <4>1. PICK z \in Object : /\ key[z] = key[x]
                                /\ Live(z) \/ (row[z] = "deleted" /\ deletedAt[z] > deletedAt[x] /\ job[z].status # "none")
        BY <1>1, <2>2, <3>1, <3>3 DEF Covered
      <4>2. Live(z) \/ (z # x /\ row[z] = "deleted" /\ deletedAt[z] > deletedAt[y] /\ job[z].status # "none")
        BY <1>1, <1>3, <3>1, <3>3, <4>1 DEF Live
      <4> QED
        BY <1>2, <3>1, <3>3, <4>1, <4>2 DEF Covered, Live
    <3> QED
      BY <3>2, <3>3
  <2> QED
    BY <2>1, <2>2
<1>5. \A y \in Object : row'[y] = "deleted" /\ job'[y].status = "none" => Covered(y)'
  BY <1>1, <1>2, <1>4 DEF CoverInv
<1>6. \A v \in Worker : wpc'[v] \in {"keep", "complete"} => wpc'[v] = wpc[v] /\ cur'[v] = cur[v]
  BY DEF CompleteJob, Settle, BaseInv, TypeOK, WorkerTypes
<1>7. \A v \in Worker : wpc[v] = "keep" => cur[v].object \in Object /\ Covered(cur[v].object)
  BY DEF CoverInv, BaseInv, TypeOK, WorkerTypes, Claim
<1>8. \A v \in Worker : wpc'[v] = "keep" => Covered(cur[v].object)'
  <2>1. TAKE v \in Worker
  <2>2. HAVE wpc'[v] = "keep"
  <2>3. PICK y \in Object : y = cur[v].object
    BY <2>2, <1>6, <1>7
  <2>4. Covered(y)'
    BY <2>2, <2>3, <1>4, <1>6, <1>7
  <2> QED
    BY <2>2, <2>3, <2>4, <1>6 DEF Covered
<1> QED
  BY <1>2, <1>5, <1>6, <1>8 DEF CoverInv

\* A new upload's bytes are under a key no row has.
LEMMA PutCovers ==
  ASSUME BaseInv, CoverInv, NEW r \in Request, NEW o \in Object, PutBytes(r, o)
  PROVE CoverInv'
<1>1. UNCHANGED <<row, key, deletedAt, job, wpc, cur>> /\ bytes' = bytes \cup {o} /\ row[o] = "none"
  BY DEF PutBytes, Fresh, rows, workers
<1>2. \A x \in Object : row[x] = "deleted" => key[x] # o
  BY <1>1 DEF BaseInv, RowsInv
<1>3. \A x \in Object : row[x] = "deleted" /\ Covered(x) => Covered(x)'
  BY <1>1, <1>2 DEF Covered, Live
<1>4. \A w \in Worker : wpc[w] \in {"keep", "complete"} =>
        cur[w].object \in Object /\ row[cur[w].object] = "deleted"
  BY DEF BaseInv, TypeOK, WorkerTypes, WorkersInv, Claim
<1> QED
  BY <1>1, <1>2, <1>3, <1>4 DEF CoverInv, Covered

LEMMA CoverStep == ASSUME BaseInv, CoverInv, [Next]_vars PROVE CoverInv'
<1>0. BaseInv /\ CoverInv
  OBVIOUS
<1>1. CASE UNCHANGED vars
  BY <1>0, <1>1 DEF vars, rows, requests, workers, CoverInv, Covered, Live, InUse
<1>2. ASSUME NEW r \in Request, NEW o \in Object, PutBytes(r, o) PROVE CoverInv'
  BY <1>0, <1>2, PutCovers
<1>3. ASSUME NEW r \in Request, NEW next \in {"idle", "link"}, InsertRow(r, next) PROVE CoverInv'
  BY <1>0, <1>3 DEF InsertRow, workers, BaseInv, TypeOK, UploadsInv, Uploading, WorkersInv, Live, InUse, CoverInv, Covered
<1>4. ASSUME NEW r \in Request, InsertFails(r) PROVE CoverInv'
  BY <1>0, <1>4 DEF InsertFails, rows, workers, BaseInv, TypeOK, UploadsInv, Uploading, WorkersInv, Live, InUse, CoverInv, Covered
<1>5. ASSUME NEW r \in Request, DropBytes(r) PROVE CoverInv'
  BY <1>0, <1>5 DEF DropBytes, rows, workers, BaseInv, TypeOK, UploadsInv, Uploading, WorkersInv, Live, InUse, CoverInv, Covered
<1>6. ASSUME NEW r \in Request, LinkUpload(r) PROVE CoverInv'
  BY <1>0, <1>6 DEF LinkUpload, workers, BaseInv, TypeOK, UploadsInv, Uploading, WorkersInv, Live, InUse, CoverInv, Covered
<1>7. ASSUME NEW r \in Request, LinkFails(r) PROVE CoverInv'
  BY <1>0, <1>7 DEF LinkFails, rows, workers, BaseInv, TypeOK, UploadsInv, Uploading, WorkersInv, Live, InUse, CoverInv, Covered
<1>8. ASSUME NEW r \in Request, CleanupRow(r) PROVE CoverInv'
  BY <1>0, <1>8, SoftDeleteCovers DEF CleanupRow, BaseInv, TypeOK, RequestTypes
<1>9. ASSUME NEW r \in Request, CleanupRowFails(r) PROVE CoverInv'
  BY <1>0, <1>9 DEF CleanupRowFails, rows, workers, BaseInv, TypeOK, UploadsInv, Uploading, WorkersInv, Live, InUse, CoverInv, Covered
<1>10. ASSUME NEW r \in Request, CleanupBytes(r) PROVE CoverInv'
  BY <1>0, <1>10 DEF CleanupBytes, rows, workers, BaseInv, TypeOK, UploadsInv, Uploading, WorkersInv, Live, InUse, CoverInv, Covered
<1>11. ASSUME NEW r \in Request, CommitLost(r) PROVE CoverInv'
  BY <1>0, <1>11, NewRowsCover DEF CommitLost, BaseInv, TypeOK, DataTypes, UploadsInv
<1>12. ASSUME NEW r \in Request, NEW S \in SUBSET Object, BeginDelete(r, S) PROVE CoverInv'
  BY <1>0, <1>12 DEF BeginDelete, rows, workers, BaseInv, TypeOK, UploadsInv, Uploading, WorkersInv, Live, InUse, CoverInv, Covered
<1>13. ASSUME NEW r \in Request, NEW o \in Object, LockRow(r, o) PROVE CoverInv'
  BY <1>0, <1>13 DEF LockRow, rows, workers, BaseInv, TypeOK, UploadsInv, Uploading, WorkersInv, Live, InUse, CoverInv, Covered
<1>14. ASSUME NEW r \in Request, CommitDelete(r) PROVE CoverInv'
  BY <1>0, <1>14, SoftDeleteCovers DEF CommitDelete, BaseInv, TypeOK, RequestTypes, LocksInv
<1>15. ASSUME NEW r \in Request, NEW o \in Object, CheckRemoved(r, o) PROVE CoverInv'
  BY <1>0, <1>15 DEF CheckRemoved, rows, workers, BaseInv, TypeOK, UploadsInv, Uploading, WorkersInv, Live, InUse, CoverInv, Covered
<1>16. ASSUME NEW r \in Request, RemoveBytes(r) PROVE CoverInv'
  BY <1>0, <1>16 DEF RemoveBytes, rows, workers, BaseInv, TypeOK, UploadsInv, Uploading, WorkersInv, Live, InUse, CoverInv, Covered
<1>17. ASSUME NEW r \in Request, NEW S \in SUBSET Object, BeginCopy(r, S) PROVE CoverInv'
  BY <1>0, <1>17 DEF BeginCopy, rows, workers, BaseInv, TypeOK, UploadsInv, Uploading, WorkersInv, Live, InUse, CoverInv, Covered
<1>18. ASSUME NEW r \in Request, NEW copies \in [shared[r] -> Object], CommitCopy(r, copies) PROVE CoverInv'
  BY <1>0, <1>18, CopiedRows, NewRowsCover DEF CommitCopy
<1>19. ASSUME NEW r \in Request, Stop(r) PROVE CoverInv'
  BY <1>0, <1>19 DEF Stop, rows, workers, BaseInv, TypeOK, UploadsInv, Uploading, WorkersInv, Live, InUse, CoverInv, Covered
<1>20. ASSUME NEW w \in Worker, NEW S \in SUBSET Object, ClaimJobs(w, S) PROVE CoverInv'
  BY <1>0, <1>20 DEF ClaimJobs, rows, requests, BaseInv, TypeOK, UploadsInv, Uploading, WorkersInv, Live, InUse, Claimable, CoverInv, Covered
<1>21. ASSUME NEW w \in Worker, NEW c \in batch[w], TakeJob(w, c) PROVE CoverInv'
  BY <1>0, <1>21, TakeCovers
<1>22. ASSUME NEW w \in Worker, DeleteBytes(w) PROVE CoverInv'
  BY <1>0, <1>22 DEF DeleteBytes, rows, requests, BaseInv, TypeOK, WorkerTypes, UploadsInv, Uploading, WorkersInv, Live, InUse, CoverInv, Covered
<1>23. ASSUME NEW w \in Worker, CompleteJob(w) PROVE CoverInv'
  BY <1>0, <1>23, CompleteCovers
<1>24. ASSUME NEW w \in Worker, RetryJob(w) PROVE CoverInv'
  BY <1>0, <1>24 DEF RetryJob, Settle, HoldsLease, rows, requests, BaseInv, TypeOK, UploadsInv, Uploading, WorkersInv, Live, InUse, CoverInv, Covered
<1>25. ASSUME NEW w \in Worker, GiveUpJob(w) PROVE CoverInv'
  BY <1>0, <1>25 DEF GiveUpJob, Settle, HoldsLease, rows, requests, BaseInv, TypeOK, UploadsInv, Uploading, WorkersInv, Live, InUse, CoverInv, Covered
<1>26. ASSUME NEW w \in Worker, AbandonBatch(w) PROVE CoverInv'
  BY <1>0, <1>26 DEF AbandonBatch, rows, requests, NoJob, BaseInv, TypeOK, WorkerTypes, UploadsInv, Uploading, WorkersInv, Live, InUse, CoverInv, Covered
<1>27. ASSUME NEW o \in Object, RequeueJob(o) PROVE CoverInv'
  BY <1>0, <1>27 DEF RequeueJob, rows, requests, workers, BaseInv, TypeOK, RequestTypes, UploadsInv, Uploading, WorkersInv, Live, InUse, CoverInv, Covered
<1> QED
  BY <1>1, <1>2, <1>3, <1>4, <1>5, <1>6, <1>7, <1>8, <1>9, <1>10, <1>11, <1>12, <1>13,
     <1>14, <1>15, <1>16, <1>17, <1>18, <1>19, <1>20, <1>21, <1>22, <1>23, <1>24, <1>25, <1>26, <1>27, Actions

LEMMA CoverInit == Init => CoverInv
BY DEF Init, CoverInv

\* Whatever fails, bytes all of whose rows are soft-deleted have a deletion job:
\* completing a job as "kept" never loses the last one.
THEOREM BytesAreNotForgotten == Spec => []NoBytesForgotten
<1>1. BaseInv /\ CoverInv /\ [Next]_vars => CoverInv'
  BY CoverStep
<1>2. CoverInv => NoBytesForgotten
  BY DEF CoverInv, Covered, NoBytesForgotten, Forgotten, InUse, NoJob
<1> QED
  BY CoverInit, <1>1, <1>2, BaseAlways, PTL DEF Spec

-------------------------------------------------------------------------------
(* Leases.  A claim carries an attempt number no later claim of its job gets   *)
(* again, so it fences off the workers whose lease ran out.                    *)

Claims(w) == batch[w] \cup ({cur[w]} \ {NoClaim})

NotAhead(c) == job[c.object].status # "none" => c.attempt <= job[c.object].attempt

LeaseInv ==
    /\ \A w \in Worker : wpc[w] \in {"idle", "next"} => cur[w] = NoClaim
    /\ \A w \in Worker : \A c \in Claims(w) : NotAhead(c)
    /\ \A v, w \in Worker : \A c \in Claims(v) \cap Claims(w) : v = w

LEMMA ClaimsTyped ==
    ASSUME BaseInv, LeaseInv, NEW w \in Worker, NEW c \in Claims(w)
    PROVE  /\ c \in Claim /\ c.object \in Object /\ c.attempt \in Nat
           /\ row[c.object] = "deleted"
<1>1. c \in Claim
  BY DEF Claims, BaseInv, TypeOK, WorkerTypes
<1>2. c.object \in Object /\ c.attempt \in Nat
  BY <1>1 DEF Claim
<1>3. CASE c \in batch[w]
  BY <1>1, <1>2, <1>3 DEF BaseInv, WorkersInv
<1>4. CASE c = cur[w] /\ c # NoClaim
  <2>1. wpc[w] \notin {"idle", "next"}
    BY <1>4 DEF LeaseInv
  <2> QED
    BY <1>1, <1>2, <1>4, <2>1 DEF BaseInv, WorkersInv
<1> QED
  BY <1>3, <1>4 DEF Claims

\* A step that drops claims, and queues jobs only for rows that were live.
LEMMA FewerClaims ==
    ASSUME BaseInv, LeaseInv,
           \A w \in Worker : Claims(w)' \subseteq Claims(w),
           \A w \in Worker : wpc'[w] \in {"idle", "next"} => cur'[w] = NoClaim,
           \A w \in Worker : \A c \in Claims(w)' : NotAhead(c)'
    PROVE  LeaseInv'
BY DEF LeaseInv

LEMMA SameClaims ==
    ASSUME BaseInv, LeaseInv, UNCHANGED workers,
           \A o \in Object : row[o] = "deleted" => job'[o] = job[o]
    PROVE  LeaseInv'
<1>1. \A w \in Worker : Claims(w)' = Claims(w)
  BY DEF Claims, workers
<1>2. \A w \in Worker : \A c \in Claims(w) : NotAhead(c)'
  BY ClaimsTyped DEF LeaseInv, NotAhead
<1> QED
  BY <1>1, <1>2 DEF LeaseInv, workers

LEMMA LeaseClaim ==
    ASSUME BaseInv, LeaseInv, NEW w \in Worker, NEW S \in SUBSET Object, ClaimJobs(w, S)
    PROVE  LeaseInv'
<1> DEFINE new == {[object |-> o, attempt |-> job[o].attempt + 1] : o \in S}
<1>1. \A o \in Object : job[o].attempt \in Nat
  BY DEF BaseInv, TypeOK, DataTypes, Job
<1>2. /\ cur' = cur /\ cur[w] = NoClaim
      /\ wpc' = [wpc EXCEPT ![w] = "next"]
      /\ batch' = [batch EXCEPT ![w] = new]
      /\ \A o \in S : job[o].status \in {"pending", "processing"}
      /\ job' = [o \in Object |-> IF o \in S
                   THEN [status |-> "processing", attempt |-> job[o].attempt + 1] ELSE job[o]]
  BY DEF ClaimJobs, Claimable, LeaseInv
<1>3. Claims(w)' = new /\ \A v \in Worker \ {w} : Claims(v)' = Claims(v)
  BY <1>2 DEF Claims, BaseInv, TypeOK, WorkerTypes
<1>4. \A v \in Worker : wpc'[v] \in {"idle", "next"} => cur'[v] = NoClaim
  BY <1>2 DEF LeaseInv, BaseInv, TypeOK, WorkerTypes
<1>5. \A c \in new : c.object \in S /\ c.attempt = job[c.object].attempt + 1 /\ NotAhead(c)'
  BY <1>1, <1>2 DEF NotAhead
<1>6. ASSUME NEW v \in Worker, NEW c \in Claims(v) PROVE NotAhead(c)' /\ c \notin new
  <2>1. c.object \in Object /\ c.attempt \in Nat /\ NotAhead(c)
    BY <1>6, ClaimsTyped DEF LeaseInv
  <2>2. CASE c.object \in S
    <3>1. c.attempt <= job[c.object].attempt
      BY <1>2, <2>1, <2>2 DEF NotAhead
    <3>2. c.attempt < job[c.object].attempt + 1
      BY <1>1, <2>1, <3>1
    <3>3. job'[c.object].attempt = job[c.object].attempt + 1
      BY <1>2, <2>2
    <3> QED
      BY <1>1, <1>5, <2>1, <3>2, <3>3 DEF NotAhead
  <2>3. CASE c.object \notin S
    BY <1>2, <1>5, <2>1, <2>3 DEF NotAhead
  <2> QED
    BY <2>2, <2>3
<1>7. \A v \in Worker : \A c \in Claims(v)' : NotAhead(c)'
  BY <1>3, <1>5, <1>6
<1>8. \A u, v \in Worker : \A c \in Claims(u)' \cap Claims(v)' : u = v
  BY <1>3, <1>6 DEF LeaseInv
<1> QED
  BY <1>4, <1>7, <1>8 DEF LeaseInv

LEMMA LeaseTake ==
    ASSUME BaseInv, LeaseInv, NEW w \in Worker, NEW c \in batch[w], TakeJob(w, c)
    PROVE  LeaseInv'
<1>1. /\ cur' = [cur EXCEPT ![w] = c] /\ batch' = [batch EXCEPT ![w] = @ \ {c}]
      /\ job' = job /\ wpc[w] = "next"
      /\ wpc'[w] \notin {"idle", "next"} /\ \A v \in Worker \ {w} : wpc'[v] = wpc[v]
  BY DEF TakeJob, BaseInv, TypeOK, WorkerTypes
<1>2. \A v \in Worker : Claims(v)' \subseteq Claims(v)
  BY <1>1 DEF Claims, BaseInv, TypeOK, WorkerTypes
<1>3. \A v \in Worker : wpc'[v] \in {"idle", "next"} => cur'[v] = NoClaim
  BY <1>1 DEF LeaseInv, BaseInv, TypeOK, WorkerTypes
<1>4. \A v \in Worker : \A d \in Claims(v)' : NotAhead(d)'
  BY <1>1, <1>2 DEF LeaseInv, NotAhead
<1> QED
  BY <1>2, <1>3, <1>4, FewerClaims

\* Settling a job keeps its attempt number or removes it.
LEMMA LeaseSettle ==
    ASSUME BaseInv, LeaseInv, NEW w \in Worker, wpc[w] \notin {"idle", "next"},
           NEW outcome, Settle(w, outcome),
           outcome = NoJob \/ outcome.attempt = cur[w].attempt
    PROVE  LeaseInv'
<1>1. /\ cur' = [cur EXCEPT ![w] = NoClaim] /\ batch' = batch
      /\ \A v \in Worker \ {w} : wpc'[v] = wpc[v]
  BY DEF Settle, BaseInv, TypeOK, WorkerTypes
<1>2. \A v \in Worker : Claims(v)' \subseteq Claims(v)
  BY <1>1 DEF Claims, BaseInv, TypeOK, WorkerTypes
<1>3. \A v \in Worker : wpc'[v] \in {"idle", "next"} => cur'[v] = NoClaim
  BY <1>1 DEF LeaseInv, BaseInv, TypeOK, WorkerTypes
<1>4. cur[w].object \in Object
  BY DEF BaseInv, TypeOK, WorkerTypes, Claim
<1>5. ASSUME NEW o \in Object
      PROVE  \/ job'[o] = job[o] \/ job'[o].status = "none"
             \/ job'[o].attempt = job[o].attempt /\ job[o].status # "none"
  BY <1>4 DEF Settle, HoldsLease, BaseInv, TypeOK, DataTypes, NoJob
<1>6. \A v \in Worker : \A d \in Claims(v)' : NotAhead(d)'
  BY <1>2, <1>5, ClaimsTyped DEF LeaseInv, NotAhead
<1> QED
  BY <1>2, <1>3, <1>6, FewerClaims

LEMMA LeaseStep == ASSUME BaseInv, LeaseInv, [Next]_vars PROVE LeaseInv'
<1>1. CASE UNCHANGED vars
  BY <1>1, SameClaims DEF vars
<1>2. ASSUME NEW r \in Request, NEW o \in Object,
             PutBytes(r, o) \/ LockRow(r, o) \/ CheckRemoved(r, o)
      PROVE  LeaseInv'
  BY <1>2, SameClaims DEF PutBytes, LockRow, CheckRemoved
<1>3. ASSUME NEW r \in Request, NEW next \in {"idle", "link"}, InsertRow(r, next) PROVE LeaseInv'
  BY <1>3, SameClaims DEF InsertRow
<1>4. ASSUME NEW r \in Request,
             \/ InsertFails(r) \/ DropBytes(r) \/ LinkUpload(r) \/ LinkFails(r)
             \/ CleanupRowFails(r) \/ CleanupBytes(r) \/ CommitLost(r) \/ RemoveBytes(r) \/ Stop(r)
      PROVE  LeaseInv'
  <2>1. UNCHANGED <<job, workers>>
    BY <1>4 DEF InsertFails, DropBytes, LinkUpload, LinkFails, CleanupRowFails, CleanupBytes,
                CommitLost, RemoveBytes, Stop
  <2> QED
    BY <2>1, SameClaims
<1>5. ASSUME NEW r \in Request, NEW S \in SUBSET Object, BeginDelete(r, S) \/ BeginCopy(r, S)
      PROVE  LeaseInv'
  BY <1>5, SameClaims DEF BeginDelete, BeginCopy
<1>6. ASSUME NEW r \in Request, NEW copies \in [shared[r] -> Object], CommitCopy(r, copies)
      PROVE  LeaseInv'
  BY <1>6, SameClaims DEF CommitCopy
<1>7. ASSUME NEW r \in Request, CleanupRow(r) PROVE LeaseInv'
  <2>1. UNCHANGED workers /\ \A o \in Object : row[o] = "deleted" => job'[o] = job[o]
    BY <1>7 DEF CleanupRow, SoftDelete, Live
  <2> QED
    BY <2>1, SameClaims
<1>8. ASSUME NEW r \in Request, CommitDelete(r) PROVE LeaseInv'
  <2>1. UNCHANGED workers /\ \A o \in Object : row[o] = "deleted" => job'[o] = job[o]
    BY <1>8 DEF CommitDelete, SoftDelete, Live, BaseInv, LocksInv
  <2> QED
    BY <2>1, SameClaims
<1>9. ASSUME NEW w \in Worker, NEW S \in SUBSET Object, ClaimJobs(w, S) PROVE LeaseInv'
  BY <1>9, LeaseClaim
<1>10. ASSUME NEW w \in Worker, NEW c \in batch[w], TakeJob(w, c) PROVE LeaseInv'
  BY <1>10, LeaseTake
<1>11. ASSUME NEW w \in Worker, DeleteBytes(w) PROVE LeaseInv'
  <2>1. /\ UNCHANGED <<job, cur, batch>> /\ wpc[w] = "delete"
        /\ \A v \in Worker : wpc'[v] \in {"idle", "next"} => wpc[v] \in {"idle", "next"}
    BY <1>11 DEF DeleteBytes, BaseInv, TypeOK, WorkerTypes
  <2>2. \A v \in Worker : Claims(v)' = Claims(v)
    BY <2>1 DEF Claims
  <2> QED
    BY <2>1, <2>2, FewerClaims DEF LeaseInv, NotAhead
<1>12. ASSUME NEW w \in Worker, CompleteJob(w) PROVE LeaseInv'
  BY <1>12, LeaseSettle DEF CompleteJob
<1>13. ASSUME NEW w \in Worker, RetryJob(w) PROVE LeaseInv'
  BY <1>13, LeaseSettle DEF RetryJob
<1>14. ASSUME NEW w \in Worker, GiveUpJob(w) PROVE LeaseInv'
  BY <1>14, LeaseSettle DEF GiveUpJob
<1>15. ASSUME NEW w \in Worker, AbandonBatch(w) PROVE LeaseInv'
  <2>1. \A v \in Worker : Claims(v)' \subseteq Claims(v)
    BY <1>15 DEF AbandonBatch, Claims, BaseInv, TypeOK, WorkerTypes
  <2>2. \A v \in Worker : wpc'[v] \in {"idle", "next"} => cur'[v] = NoClaim
    BY <1>15 DEF AbandonBatch, LeaseInv, BaseInv, TypeOK, WorkerTypes
  <2>3. job' = job
    BY <1>15 DEF AbandonBatch
  <2> QED
    BY <2>1, <2>2, <2>3, FewerClaims DEF LeaseInv, NotAhead
<1>16. ASSUME NEW o \in Object, RequeueJob(o) PROVE LeaseInv'
  <2>1. \A v \in Worker : Claims(v)' = Claims(v)
    BY <1>16 DEF RequeueJob, workers, Claims
  <2>2. /\ UNCHANGED workers /\ job[o].status = "failed"
        /\ job' = [job EXCEPT ![o].status = "pending"]
    BY <1>16 DEF RequeueJob
  <2>3. \A p \in Object : job'[p].attempt = job[p].attempt
                          /\ (job'[p].status = "none" => job[p].status = "none")
                          /\ (job[p].status = "none" => job'[p].status = "none")
    BY <2>2 DEF BaseInv, TypeOK, DataTypes, Job
  <2>4. \A v \in Worker : \A c \in Claims(v) : NotAhead(c)'
    BY <2>3, ClaimsTyped DEF LeaseInv, NotAhead
  <2> QED
    BY <2>1, <2>2, <2>4, FewerClaims DEF LeaseInv, workers
<1> QED
  BY <1>1, <1>2, <1>3, <1>4, <1>5, <1>6, <1>7, <1>8, <1>9, <1>10, <1>11, <1>12, <1>13,
     <1>14, <1>15, <1>16, Actions

\* Whatever leases run out and whoever crashes, no two workers hold a claim that
\* can still settle the same job.
THEOREM LeasesExclude == Spec => []LeaseExclusive
<1>1. Init => LeaseInv
  BY DEF Init, LeaseInv, Claims
<1>2. BaseInv /\ LeaseInv /\ [Next]_vars => LeaseInv'
  BY LeaseStep
<1>3. LeaseInv => LeaseExclusive
  BY DEF LeaseInv, LeaseExclusive, Claims
<1> QED
  BY <1>1, <1>2, <1>3, BaseAlways, PTL DEF Spec

===============================================================================
