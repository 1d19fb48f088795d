---------------------------- MODULE VectorDbProofs ----------------------------
(***************************************************************************)
(* Theorems about VectorDbService, for every number of knowledge bases,    *)
(* files, nodes, slots, requests and messages, and every fault budget.     *)
(***************************************************************************)
EXTENDS VectorDbInvariants, TLAPS

-----------------------------------------------------------------------------
(* Type correctness.  A busy slot or request is always about some file.    *)

USE DEF VectorDbStatus, IngestionJobStatus, ActiveStatus

LEMMA InitTypes == Init => Types
  BY VectorDbOfAssumption, MaxFaultsAssumption, NoneAssumption
     DEF Init, RepositoryInit, IngestionInit, Types, Busy, TypeOK,
         RepositoryTypeOK, IngestionTypeOK, Steps, InTry, OutsideTry,
         RequestSteps

\* The steps of a handler.
LEMMA IngestTypes ==
  ASSUME Types, NEW h \in Slots, Ingest(h), UNCHANGED requestVars
  PROVE  Types'
  <1> USE VectorDbOfAssumption, NoneAssumption
      DEF Types, Busy, TypeOK, RepositoryTypeOK, IngestionTypeOK, Steps, InTry,
          OutsideTry, Goto, At, Running, nodeVars, queueVars, slotVars,
          storeVars, historyVars, repositoryVars, kbVars, jobVars, requestVars
  <1>1. CASE FindIngestionJob(h)
    BY <1>1 DEF FindIngestionJob
  <1>2. CASE FindVectorDb(h)
    BY <1>2 DEF FindVectorDb
  <1>3. CASE FailOrphan(h)
    BY <1>3 DEF FailOrphan, WriteJob, SetJobStatus
  <1>4. CASE MarkProcessing(h)
    BY <1>4 DEF MarkProcessing, WriteJob, SetJobStatus
  <1>5. CASE MarkVectorDbProcessing(h)
    BY <1>5 DEF MarkVectorDbProcessing, UpdateStatus
  <1>6. CASE Index(h)
    BY <1>6 DEF Index
  <1>7. CASE IndexFails(h)
    BY <1>7 DEF IndexFails
  <1>8. CASE RejectDocument(h)
    BY <1>8 DEF RejectDocument
  <1>9. CASE IngestImages(h)
    BY <1>9 DEF IngestImages
  <1>10. CASE MarkDone(h)
    BY <1>10 DEF MarkDone, WriteJob, SetJobStatus
  <1>11. CASE ReadyIfIdle(h)
    BY <1>11 DEF ReadyIfIdle, SetVectorDbReadyIfIdle
  <1>12. CASE CountAttempt(h)
    BY <1>12 DEF CountAttempt, IncrementJobAttempts
  <1>13. CASE MarkFailed(h)
    BY <1>13 DEF MarkFailed, WriteJob, SetJobStatus
  <1>14. CASE MarkVectorDbError(h)
    BY <1>14 DEF MarkVectorDbError, UpdateStatus, Waste
  <1>15. CASE MarkPending(h)
    BY <1>15 DEF MarkPending, WriteJob, SetJobStatus
  <1>16. CASE DatabaseFault(h)
    BY <1>16 DEF DatabaseFault, Fault, Faults, Waste
  <1>17. CASE Settle(h)
    <2>1. CASE UNCHANGED queueVars
      BY <1>17, <2>1 DEF Settle
    <2>2. CASE msg[h] \in Messages /\ Free(msg[h])
      BY <1>17, <2>2 DEF Settle, Free
    <2>3. CASE msg[h] \in Messages /\ Requeue(msg[h])
      BY <1>17, <2>3 DEF Settle, Requeue
    <2> QED
      BY <1>17, <2>1, <2>2, <2>3 DEF Settle, Retry
  <1> QED
    BY <1>1, <1>2, <1>3, <1>4, <1>5, <1>6, <1>7, <1>8, <1>9, <1>10, <1>11,
       <1>12, <1>13, <1>14, <1>15, <1>16, <1>17 DEF Ingest

\* The steps of the queue, of a boot, and of time.
LEMMA QueueTypes ==
  ASSUME Types, IngestionNext, ~(\E h \in Slots : Ingest(h)),
         UNCHANGED requestVars
  PROVE  Types'
  <1> USE VectorDbOfAssumption, NoneAssumption
      DEF Types, Busy, TypeOK, RepositoryTypeOK, IngestionTypeOK, nodeVars,
          queueVars, slotVars, storeVars, historyVars, repositoryVars, kbVars,
          jobVars, requestVars
  <1>1. ASSUME NEW n \in Nodes, Boot(n)
        PROVE  Types'
    BY <1>1 DEF Boot
  <1>2. ASSUME NEW n \in Nodes, ReadReclaimable(n)
        PROVE  Types'
    BY <1>2 DEF ReadReclaimable, FindReclaimableJobs
  <1>3. ASSUME NEW n \in Nodes, NEW j \in Jobs, Reconcile(n, j)
        PROVE  Types'
    BY <1>3 DEF Reconcile, Enqueue
  <1>4. ASSUME NEW m \in Messages, Expire(m)
        PROVE  Types'
    <2>1. CASE Free(m)
      BY <1>4, <2>1 DEF Expire, Orphaned, Free
    <2>2. CASE Requeue(m)
      BY <1>4, <2>2 DEF Expire, Orphaned, Requeue
    <2> QED
      BY <1>4, <2>1, <2>2 DEF Expire, Retry
  <1>5. ASSUME NEW h \in Slots, NEW m \in Messages, Fetch(h, m)
        PROVE  Types'
    BY <1>5 DEF Fetch, At, Goto, Steps, InTry, OutsideTry
  <1>6. ASSUME NEW h \in Slots, TimeOut(h)
        PROVE  Types'
    <2>1. CASE Free(msg[h])
      BY <1>6, <2>1 DEF TimeOut, Fault, Faults, Free
    <2>2. CASE Requeue(msg[h])
      BY <1>6, <2>2 DEF TimeOut, Fault, Faults, Requeue
    <2> QED
      BY <1>6, <2>1, <2>2 DEF TimeOut, Retry
  <1>7. ASSUME NEW j \in Jobs, TimePasses(j)
        PROVE  Types'
    BY <1>7 DEF TimePasses, Age
  <1> QED
    BY <1>1, <1>2, <1>3, <1>4, <1>5, <1>6, <1>7 DEF IngestionNext

\* The steps of requests, and crashes.
LEMMA RequestTypes ==
  ASSUME Types, RequestNext
  PROVE  Types'
  <1> USE VectorDbOfAssumption, NoneAssumption
      DEF Types, Busy, TypeOK, RepositoryTypeOK, IngestionTypeOK, nodeVars,
          queueVars, slotVars, storeVars, historyVars, repositoryVars, kbVars,
          jobVars, requestVars, RequestSteps, Begin, Advance, End
  <1>1. ASSUME NEW v \in VectorDbs, CreateVectorDb(v) \/ DeleteVectorDb(v)
        PROVE  Types'
    BY <1>1 DEF CreateVectorDb, DeleteVectorDb, Create, Delete
  <1>2. ASSUME NEW r \in Requests, NEW j \in Jobs, PutBlob(r, j)
        PROVE  Types'
    BY <1>2 DEF PutBlob
  <1>3. ASSUME NEW r \in Requests, NEW j \in Jobs, BeginDeleteFile(r, j)
        PROVE  Types'
    BY <1>3 DEF BeginDeleteFile
  <1>4. ASSUME NEW r \in Requests, InsertJob(r)
        PROVE  Types'
    BY <1>4 DEF InsertJob, CreateIngestionJob
  <1>5. ASSUME NEW r \in Requests, CountUp(r)
        PROVE  Types'
    BY <1>5 DEF CountUp, IncrementDocumentCount
  <1>6. ASSUME NEW r \in Requests, EnqueueUpload(r)
        PROVE  Types'
    BY <1>6 DEF EnqueueUpload, Enqueue
  <1>7. ASSUME NEW r \in Requests, RequestFails(r)
        PROVE  Types'
    BY <1>7 DEF RequestFails, Fault, Faults
  <1>8. ASSUME NEW r \in Requests, DeleteJobRow(r)
        PROVE  Types'
    BY <1>8 DEF DeleteJobRow, DeleteIngestionJob
  <1>9. ASSUME NEW r \in Requests, CountDown(r)
        PROVE  Types'
    BY <1>9 DEF CountDown, DecrementDocumentCount
  <1>10. ASSUME NEW r \in Requests, DeleteBlob(r)
         PROVE  Types'
    BY <1>10 DEF DeleteBlob
  <1>11. ASSUME NEW n \in Nodes, Crash(n)
         PROVE  Types'
    BY <1>11 DEF Crash, CrashNode, Fault, Faults, Steps, InTry, OutsideTry
  <1> QED
    BY <1>1, <1>2, <1>3, <1>4, <1>5, <1>6, <1>7, <1>8, <1>9, <1>10, <1>11
       DEF RequestNext, Serve

LEMMA StutterTypes == Types /\ UNCHANGED vars => Types'
  BY DEF Types, Busy, TypeOK, RepositoryTypeOK, IngestionTypeOK, vars,
         nodeVars, queueVars, slotVars, storeVars, historyVars, repositoryVars,
         requestVars

\* Every reachable state has the shape TypeOK describes, and a handler that
\* the queue listens to is the only one holding its message.
THEOREM TypesInvariant == Spec => []Types
  <1>1. Types /\ [Next]_vars => Types'
    BY IngestTypes, QueueTypes, RequestTypes, StutterTypes DEF Next
  <1> QED
    BY <1>1, InitTypes, PTL DEF Spec

\* Type correctness of the whole service, for every size of it.
THEOREM TypeCorrectness == Spec => []TypeOK
  BY TypesInvariant, PTL DEF Types

-----------------------------------------------------------------------------
(* Files: what is listed has its blob, what is done has its points.        *)

LEMMA InitFiles == Init => Files
  BY DEF Init, RepositoryInit, IngestionInit, Files, BlobOfEveryFile,
         DoneIsIndexed, RowExists

\* The steps of a handler: they resurrect no row, and mark done what they
\* indexed.
LEMMA IngestFiles ==
  ASSUME Types, Files, NEW h \in Slots, Ingest(h), UNCHANGED requestVars
  PROVE  Files'
  <1> USE DEF Types, Busy, TypeOK, RepositoryTypeOK, IngestionTypeOK, Files,
              BlobOfEveryFile, DoneIsIndexed, RowExists, Goto, At, Running,
              nodeVars, queueVars, slotVars, storeVars, historyVars,
              repositoryVars, kbVars, jobVars, requestVars
  <1>1. CASE FindIngestionJob(h)
    BY <1>1 DEF FindIngestionJob
  <1>2. CASE FindVectorDb(h)
    BY <1>2 DEF FindVectorDb
  <1>3. CASE FailOrphan(h)
    BY <1>3 DEF FailOrphan, WriteJob, SetJobStatus
  <1>4. CASE MarkProcessing(h)
    BY <1>4 DEF MarkProcessing, WriteJob, SetJobStatus
  <1>5. CASE MarkVectorDbProcessing(h)
    BY <1>5 DEF MarkVectorDbProcessing, UpdateStatus
  <1>6. CASE Index(h)
    BY <1>6 DEF Index
  <1>7. CASE IndexFails(h)
    BY <1>7 DEF IndexFails
  <1>8. CASE RejectDocument(h)
    BY <1>8 DEF RejectDocument
  <1>9. CASE IngestImages(h)
    BY <1>9 DEF IngestImages
  <1>10. CASE MarkDone(h)
    BY <1>10 DEF MarkDone, WriteJob, SetJobStatus
  <1>11. CASE ReadyIfIdle(h)
    BY <1>11 DEF ReadyIfIdle, SetVectorDbReadyIfIdle
  <1>12. CASE CountAttempt(h)
    BY <1>12 DEF CountAttempt, IncrementJobAttempts
  <1>13. CASE MarkFailed(h)
    BY <1>13 DEF MarkFailed, WriteJob, SetJobStatus
  <1>14. CASE MarkVectorDbError(h)
    BY <1>14 DEF MarkVectorDbError, UpdateStatus
  <1>15. CASE MarkPending(h)
    BY <1>15 DEF MarkPending, WriteJob, SetJobStatus
  <1>16. CASE DatabaseFault(h)
    BY <1>16 DEF DatabaseFault, InTry, OutsideTry
  <1>17. CASE Settle(h)
    BY <1>17 DEF Settle
  <1> QED
    BY <1>1, <1>2, <1>3, <1>4, <1>5, <1>6, <1>7, <1>8, <1>9, <1>10,
       <1>11, <1>12, <1>13, <1>14, <1>15, <1>16, <1>17 DEF Ingest

\* The queue, a boot and time touch neither rows, blobs nor points.
LEMMA QueueFiles ==
  ASSUME Types, Files, IngestionNext, ~(\E h \in Slots : Ingest(h)),
         UNCHANGED requestVars
  PROVE  Files'
  <1> USE DEF Types, TypeOK, IngestionTypeOK, Files, BlobOfEveryFile,
              DoneIsIndexed, RowExists, nodeVars, queueVars, slotVars,
              storeVars, historyVars, repositoryVars, kbVars, jobVars,
              requestVars
  <1>1. ASSUME NEW n \in Nodes, Boot(n) \/ ReadReclaimable(n)
        PROVE  Files'
    BY <1>1 DEF Boot, ReadReclaimable
  <1>2. ASSUME NEW n \in Nodes, NEW j \in Jobs, Reconcile(n, j)
        PROVE  Files'
    BY <1>2 DEF Reconcile
  <1>3. ASSUME NEW m \in Messages, Expire(m)
        PROVE  Files'
    BY <1>3 DEF Expire
  <1>4. ASSUME NEW h \in Slots, NEW m \in Messages, Fetch(h, m)
        PROVE  Files'
    BY <1>4 DEF Fetch, Goto
  <1>5. ASSUME NEW h \in Slots, TimeOut(h)
        PROVE  Files'
    BY <1>5 DEF TimeOut
  <1>6. ASSUME NEW j \in Jobs, TimePasses(j)
        PROVE  Files'
    BY <1>6 DEF TimePasses, Age
  <1> QED
    BY <1>1, <1>2, <1>3, <1>4, <1>5, <1>6 DEF IngestionNext

\* The steps of requests, and crashes.
LEMMA RequestFiles ==
  ASSUME Types, Files, RequestNext
  PROVE  Files'
  <1> USE NoneAssumption
      DEF Types, Busy, TypeOK, RepositoryTypeOK, IngestionTypeOK, Files,
          BlobOfEveryFile, DoneIsIndexed, RowExists, nodeVars, queueVars,
          slotVars, storeVars, historyVars, repositoryVars, kbVars, jobVars,
          requestVars, Begin, Advance, End
  <1>1. ASSUME NEW v \in VectorDbs, CreateVectorDb(v) \/ DeleteVectorDb(v)
        PROVE  Files'
    BY <1>1 DEF CreateVectorDb, DeleteVectorDb, Create, Delete
  <1>2. ASSUME NEW r \in Requests, NEW j \in Jobs, PutBlob(r, j)
        PROVE  Files'
    BY <1>2 DEF PutBlob
  <1>3. ASSUME NEW r \in Requests, NEW j \in Jobs, BeginDeleteFile(r, j)
        PROVE  Files'
    BY <1>3 DEF BeginDeleteFile
  <1>4. ASSUME NEW r \in Requests, InsertJob(r)
        PROVE  Files'
    BY <1>4 DEF InsertJob, CreateIngestionJob
  <1>5. ASSUME NEW r \in Requests, CountUp(r)
        PROVE  Files'
    BY <1>5 DEF CountUp, IncrementDocumentCount
  <1>6. ASSUME NEW r \in Requests, EnqueueUpload(r) \/ RequestFails(r)
        PROVE  Files'
    BY <1>6 DEF EnqueueUpload, RequestFails
  <1>7. ASSUME NEW r \in Requests, DeleteJobRow(r)
        PROVE  Files'
    BY <1>7 DEF DeleteJobRow, DeleteIngestionJob
  <1>8. ASSUME NEW r \in Requests, CountDown(r)
        PROVE  Files'
    BY <1>8 DEF CountDown, DecrementDocumentCount
  <1>9. ASSUME NEW r \in Requests, DeleteBlob(r)
        PROVE  Files'
    BY <1>9 DEF DeleteBlob
  <1>10. ASSUME NEW n \in Nodes, Crash(n)
        PROVE  Files'
    BY <1>10 DEF Crash, CrashNode
  <1> QED
    BY <1>1, <1>2, <1>3, <1>4, <1>5, <1>6, <1>7, <1>8, <1>9, <1>10
       DEF RequestNext, Serve

LEMMA StutterFiles == Files /\ UNCHANGED vars => Files'
  BY DEF Files, BlobOfEveryFile, DoneIsIndexed, RowExists, vars, slotVars,
         storeVars, repositoryVars, requestVars

LEMMA FilesInvariant == Spec => []Files
  <1>1. Types /\ Files /\ [Next]_vars => Files'
    BY IngestFiles, QueueFiles, RequestFiles, StutterFiles DEF Next
  <1> QED
    BY <1>1, InitFiles, TypesInvariant, PTL DEF Spec

\* A file whose job is done is indexed, whatever retries, duplicate deliveries
\* and crashes its ingestion went through.
THEOREM DoneFilesAreIndexed == Spec => []DoneIsIndexed
  BY FilesInvariant, PTL DEF Files

\* A listed file has its blob, whatever requests run and die.
THEOREM ListedFilesHaveBlobs == Spec => []BlobOfEveryFile
  BY FilesInvariant, PTL DEF Files

-----------------------------------------------------------------------------
(* Refinement: every step is a lifecycle step or a stutter.                *)

OpenJobs == {j \in Jobs : Active(j)}

LEMMA InitRefines == Init => Lifecycle!Init
  BY DEF Init, RepositoryInit, Lifecycle!Init, Active

\* A step that writes one job row opens or closes one file.
LEMMA JobWriteRefines ==
  ASSUME NEW j \in Jobs, UNCHANGED kbStatus,
         \A k \in Jobs : k # j => jobStatus'[k] = jobStatus[k]
  PROVE  [Lifecycle!Next]_(Lifecycle!vars)
  <1>1. CASE Active(j)'
    <2>1. OpenJobs' = OpenJobs \cup {j}
      BY <1>1 DEF OpenJobs, Active
    <2> QED
      BY <2>1 DEF OpenJobs, Lifecycle!Next, Lifecycle!Open
  <1>2. CASE ~Active(j)'
    <2>1. OpenJobs' = OpenJobs \ {j}
      BY <1>2 DEF OpenJobs, Active
    <2> QED
      BY <2>1 DEF OpenJobs, Lifecycle!Next, Lifecycle!Close
  <1> QED
    BY <1>1, <1>2

\* A step that writes neither a job row nor a status is a stutter.
LEMMA SilentRefines ==
  ASSUME UNCHANGED <<kbStatus, jobStatus>>
  PROVE  [Lifecycle!Next]_(Lifecycle!vars)
  BY DEF Lifecycle!vars, Active

\* A guarded status update is a move of the status table.
LEMMA UpdateStatusRefines ==
  ASSUME Types, NEW v \in VectorDbs, NEW to \in {"processing", "error"},
         UpdateStatus(v, to)
  PROVE  [Lifecycle!Next]_(Lifecycle!vars)
  <1>1. OpenJobs' = OpenJobs
    BY DEF UpdateStatus, jobVars, OpenJobs, Active
  <1>2. CASE kbStatus[v] = to
    <2>1. kbStatus' = kbStatus
      BY <1>2 DEF UpdateStatus, Types, TypeOK, RepositoryTypeOK
    <2> QED
      BY <1>1, <2>1 DEF OpenJobs, Lifecycle!vars
  <1>3. CASE kbStatus[v] # "processing" /\ to = "processing"
    <2>1. kbStatus[v] \in {"empty", "ready", "error"}
      BY <1>3 DEF UpdateStatus, CanUpdateStatus, StatusReachableFrom
    <2> QED
      BY <1>1, <1>3, <2>1 DEF UpdateStatus, OpenJobs, Lifecycle!Next,
                              Lifecycle!StartProcessing, Lifecycle!Move
  <1>4. CASE kbStatus[v] # "error" /\ to = "error"
    <2>1. kbStatus[v] = "processing"
      BY <1>4 DEF UpdateStatus, CanUpdateStatus, StatusReachableFrom
    <2> QED
      BY <1>1, <1>4, <2>1 DEF UpdateStatus, OpenJobs, Lifecycle!Next,
                              Lifecycle!BecomeError, Lifecycle!Move
  <1> QED
    BY <1>2, <1>3, <1>4

\* The write of ready happens with no file of the knowledge base open.
LEMMA ReadyRefines ==
  ASSUME NEW v \in VectorDbs, SetVectorDbReadyIfIdle(v)
  PROVE  [Lifecycle!Next]_(Lifecycle!vars)
  <1>1. OpenJobs' = OpenJobs
    BY DEF SetVectorDbReadyIfIdle, jobVars, OpenJobs, Active
  <1>2. CASE kbStatus[v] = "processing" /\ Idle(v)
    <2>1. \A j \in OpenJobs : VectorDbOf[j] # v
      BY <1>2 DEF OpenJobs, Idle, JobsOf
    <2> QED
      BY <1>1, <1>2, <2>1 DEF SetVectorDbReadyIfIdle, OpenJobs, Lifecycle!Next,
                              Lifecycle!BecomeReady, Lifecycle!Move
  <1>3. CASE ~(kbStatus[v] = "processing" /\ Idle(v))
    BY <1>1, <1>3 DEF SetVectorDbReadyIfIdle, OpenJobs, Lifecycle!vars
  <1> QED
    BY <1>2, <1>3

LEMMA IngestRefines ==
  ASSUME Types, NEW h \in Slots, Ingest(h)
  PROVE  [Lifecycle!Next]_(Lifecycle!vars)
  <1> USE DEF At
  <1>1. CASE pc[h] = "idle"
    BY <1>1 DEF Ingest, FindIngestionJob, FindVectorDb, FailOrphan,
                MarkProcessing, MarkVectorDbProcessing, Index, IndexFails,
                RejectDocument, IngestImages, MarkDone, ReadyIfIdle,
                CountAttempt, MarkFailed, MarkVectorDbError, MarkPending,
                WriteJob, DatabaseFault, InTry, OutsideTry, Settle, Types, Busy
  <1>2. CASE pc[h] # "idle"
    <2> DEFINE v == VectorDbOf[job[h]]
    <2>1. job[h] \in Jobs /\ v \in VectorDbs
      BY <1>2, VectorDbOfAssumption DEF Types, Busy
    <2>2. CASE FailOrphan(h) \/ MarkProcessing(h) \/ MarkDone(h)
                 \/ MarkFailed(h) \/ MarkPending(h)
      BY <2>1, <2>2, JobWriteRefines
         DEF FailOrphan, MarkProcessing, MarkDone, MarkFailed, MarkPending,
             WriteJob, SetJobStatus, kbVars, Types, TypeOK, RepositoryTypeOK
    <2>3. CASE MarkVectorDbProcessing(h) \/ MarkVectorDbError(h)
      BY <2>1, <2>3, UpdateStatusRefines, SilentRefines
         DEF MarkVectorDbProcessing, MarkVectorDbError, repositoryVars
    <2>4. CASE ReadyIfIdle(h)
      BY <2>1, <2>4, ReadyRefines DEF ReadyIfIdle
    <2>5. CASE \/ FindIngestionJob(h) \/ FindVectorDb(h) \/ Index(h)
               \/ IndexFails(h) \/ RejectDocument(h) \/ IngestImages(h)
               \/ CountAttempt(h) \/ DatabaseFault(h) \/ Settle(h)
      BY <2>5, SilentRefines DEF FindIngestionJob, FindVectorDb, Index,
                                 IndexFails, RejectDocument, IngestImages,
                                 CountAttempt, IncrementJobAttempts,
                                 DatabaseFault, Settle, repositoryVars, kbVars
    <2> QED
      BY <2>2, <2>3, <2>4, <2>5 DEF Ingest
  <1> QED
    BY <1>1, <1>2

LEMMA RequestRefines ==
  ASSUME Types, RequestNext
  PROVE  [Lifecycle!Next]_(Lifecycle!vars)
  <1>1. ASSUME NEW v \in VectorDbs, CreateVectorDb(v) \/ DeleteVectorDb(v)
        PROVE  [Lifecycle!Next]_(Lifecycle!vars)
    BY <1>1 DEF CreateVectorDb, DeleteVectorDb, Create, Delete, Live, jobVars,
                Active, Lifecycle!Next, Lifecycle!Add, Lifecycle!Remove,
                Lifecycle!Move
  <1>2. ASSUME NEW r \in Requests, InsertJob(r) \/ DeleteJobRow(r)
        PROVE  [Lifecycle!Next]_(Lifecycle!vars)
    <2>1. rjob[r] \in Jobs
      BY <1>2 DEF InsertJob, DeleteJobRow, Types, Busy
    <2> QED
      BY <1>2, <2>1, JobWriteRefines
         DEF InsertJob, DeleteJobRow, CreateIngestionJob, DeleteIngestionJob,
             kbVars, Types, TypeOK, RepositoryTypeOK
  <1>3. CASE \/ \E r \in Requests : \/ CountUp(r) \/ EnqueueUpload(r)
                                    \/ RequestFails(r) \/ CountDown(r)
                                    \/ DeleteBlob(r)
             \/ \E r \in Requests, j \in Jobs : PutBlob(r, j) \/ BeginDeleteFile(r, j)
             \/ \E n \in Nodes : Crash(n)
    BY <1>3, SilentRefines DEF CountUp, IncrementDocumentCount, EnqueueUpload,
                               RequestFails, CountDown, DecrementDocumentCount,
                               DeleteBlob, PutBlob, BeginDeleteFile, Crash,
                               CrashNode, repositoryVars, jobVars
  <1> QED
    BY <1>1, <1>2, <1>3 DEF RequestNext, Serve

LEMMA QueueRefines ==
  ASSUME IngestionNext, ~(\E h \in Slots : Ingest(h))
  PROVE  [Lifecycle!Next]_(Lifecycle!vars)
  BY SilentRefines DEF IngestionNext, Boot, ReadReclaimable, Reconcile, Expire,
                       Fetch, TimeOut, TimePasses, Age, repositoryVars, kbVars

\* The service implements the lifecycle: it follows the status table, and no
\* knowledge base is declared ready while one of its files is still open.
THEOREM ServiceRefinesLifecycle == Spec => RefinesLifecycle
  <1>1. Types /\ [Next]_vars => [Lifecycle!Next]_(Lifecycle!vars)
    BY IngestRefines, QueueRefines, RequestRefines, SilentRefines
       DEF Next, vars, repositoryVars
  <1> QED
    BY <1>1, InitRefines, TypesInvariant, PTL
       DEF Spec, RefinesLifecycle, Lifecycle!Spec

(***************************************************************************)
(* No accepted file is forgotten.  The argument counts deliveries: every   *)
(* delivery of a message either counts an attempt below the limit or is    *)
(* wasted, so with at most one wasted delivery the queue still has a retry *)
(* left whenever a handler puts a job back to pending.                     *)
(***************************************************************************)

-----------------------------------------------------------------------------
(* Whoever acts on a job acts on one that was inserted.                    *)

\* The steps of a handler.
LEMMA IngestKnown ==
  ASSUME Types, Known, NEW h \in Slots, Ingest(h), UNCHANGED requestVars
  PROVE  Known'
  <1> USE NoneAssumption DEF Types, Busy, TypeOK, RepositoryTypeOK,
                             IngestionTypeOK, RowExists, Known, Goto, At,
                             Running, nodeVars, queueVars, slotVars, storeVars,
                             historyVars, repositoryVars, kbVars, jobVars,
                             requestVars
  <1>1. CASE FindIngestionJob(h)
    BY <1>1 DEF FindIngestionJob
  <1>2. CASE FindVectorDb(h)
    BY <1>2 DEF FindVectorDb
  <1>3. CASE FailOrphan(h)
    BY <1>3 DEF FailOrphan, WriteJob, SetJobStatus
  <1>4. CASE MarkProcessing(h)
    BY <1>4 DEF MarkProcessing, WriteJob, SetJobStatus
  <1>5. CASE MarkVectorDbProcessing(h)
    BY <1>5 DEF MarkVectorDbProcessing, UpdateStatus
  <1>6. CASE Index(h)
    BY <1>6 DEF Index
  <1>7. CASE IndexFails(h)
    BY <1>7 DEF IndexFails
  <1>8. CASE RejectDocument(h)
    BY <1>8 DEF RejectDocument
  <1>9. CASE IngestImages(h)
    BY <1>9 DEF IngestImages
  <1>10. CASE MarkDone(h)
    BY <1>10 DEF MarkDone, WriteJob, SetJobStatus
  <1>11. CASE ReadyIfIdle(h)
    BY <1>11 DEF ReadyIfIdle, SetVectorDbReadyIfIdle
  <1>12. CASE CountAttempt(h)
    BY <1>12 DEF CountAttempt, IncrementJobAttempts
  <1>13. CASE MarkFailed(h)
    BY <1>13 DEF MarkFailed, WriteJob, SetJobStatus
  <1>14. CASE MarkVectorDbError(h)
    BY <1>14 DEF MarkVectorDbError, UpdateStatus, Waste
  <1>15. CASE MarkPending(h)
    BY <1>15 DEF MarkPending, WriteJob, SetJobStatus
  <1>16. CASE DatabaseFault(h)
    BY <1>16 DEF DatabaseFault, InTry, OutsideTry, Waste
  <1>17. CASE Settle(h)
    <2>1. CASE UNCHANGED queueVars
      BY <1>17, <2>1 DEF Settle
    <2>2. CASE msg[h] \in Messages /\ Free(msg[h])
      BY <1>17, <2>2 DEF Settle, Free
    <2>3. CASE msg[h] \in Messages /\ Requeue(msg[h])
      BY <1>17, <2>3 DEF Settle, Requeue
    <2> QED
      BY <1>17, <2>1, <2>2, <2>3 DEF Settle, Retry
  <1> QED
    BY <1>1, <1>2, <1>3, <1>4, <1>5, <1>6, <1>7, <1>8, <1>9, <1>10,
       <1>11, <1>12, <1>13, <1>14, <1>15, <1>16, <1>17 DEF Ingest

\* The steps of the queue, of a boot, and of time.
LEMMA QueueKnown ==
  ASSUME Types, Known, IngestionNext,
         ~(\E h \in Slots : Ingest(h)), UNCHANGED requestVars
  PROVE  Known'
  <1> USE NoneAssumption DEF Types, Busy, TypeOK, RepositoryTypeOK,
                             IngestionTypeOK, RowExists, Known, Goto, At,
                             nodeVars, queueVars, slotVars, storeVars,
                             historyVars, repositoryVars, kbVars, jobVars,
                             requestVars
  <1>1. ASSUME NEW n \in Nodes, Boot(n)
        PROVE  Known'
    BY <1>1 DEF Boot
  <1>2. ASSUME NEW n \in Nodes, ReadReclaimable(n)
        PROVE  Known'
    BY <1>2 DEF ReadReclaimable, FindReclaimableJobs
  <1>3. ASSUME NEW n \in Nodes, NEW j \in Jobs, Reconcile(n, j)
        PROVE  Known'
    BY <1>3 DEF Reconcile, Enqueue
  <1>4. ASSUME NEW m \in Messages, Expire(m)
        PROVE  Known'
    <2>1. CASE Free(m)
      BY <1>4, <2>1 DEF Expire, Orphaned, Free
    <2>2. CASE Requeue(m)
      BY <1>4, <2>2 DEF Expire, Orphaned, Requeue
    <2> QED
      BY <1>4, <2>1, <2>2 DEF Expire, Orphaned, Retry
  <1>5. ASSUME NEW h \in Slots, NEW m \in Messages, Fetch(h, m)
        PROVE  Known'
    BY <1>5 DEF Fetch
  <1>6. ASSUME NEW h \in Slots, TimeOut(h)
        PROVE  Known'
    <2>1. CASE Free(msg[h])
      BY <1>6, <2>1 DEF TimeOut, Free
    <2>2. CASE Requeue(msg[h])
      BY <1>6, <2>2 DEF TimeOut, Requeue
    <2> QED
      BY <1>6, <2>1, <2>2 DEF TimeOut, Retry
  <1>7. ASSUME NEW j \in Jobs, TimePasses(j)
        PROVE  Known'
    BY <1>7 DEF TimePasses, Age
  <1> QED
    BY <1>1, <1>2, <1>3, <1>4, <1>5, <1>6, <1>7 DEF IngestionNext

\* The steps of requests, and crashes.
LEMMA RequestKnown ==
  ASSUME Types, Files, Known, RequestNext
  PROVE  Known'
  <1> USE NoneAssumption DEF Types, Busy, TypeOK, RepositoryTypeOK,
                             IngestionTypeOK, RowExists, Files, Known, Begin,
                             Advance, End, nodeVars, queueVars, slotVars,
                             storeVars, historyVars, repositoryVars, kbVars,
                             jobVars, requestVars
  <1>1. ASSUME NEW v \in VectorDbs, CreateVectorDb(v) \/ DeleteVectorDb(v)
        PROVE  Known'
    BY <1>1 DEF CreateVectorDb, DeleteVectorDb, Create, Delete
  <1>2. ASSUME NEW r \in Requests, NEW j \in Jobs, PutBlob(r, j)
        PROVE  Known'
    BY <1>2 DEF PutBlob
  <1>3. ASSUME NEW r \in Requests, NEW j \in Jobs, BeginDeleteFile(r, j)
        PROVE  Known'
    BY <1>3 DEF BeginDeleteFile
  <1>4. ASSUME NEW r \in Requests, InsertJob(r)
        PROVE  Known'
    BY <1>4 DEF InsertJob, CreateIngestionJob
  <1>5. ASSUME NEW r \in Requests, CountUp(r)
        PROVE  Known'
    BY <1>5 DEF CountUp, IncrementDocumentCount
  <1>6. ASSUME NEW r \in Requests, EnqueueUpload(r)
        PROVE  Known'
    BY <1>6 DEF EnqueueUpload, Enqueue
  <1>7. ASSUME NEW r \in Requests, RequestFails(r)
        PROVE  Known'
    BY <1>7 DEF RequestFails
  <1>8. ASSUME NEW r \in Requests, DeleteJobRow(r)
        PROVE  Known'
    BY <1>8 DEF DeleteJobRow, DeleteIngestionJob
  <1>9. ASSUME NEW r \in Requests, CountDown(r)
        PROVE  Known'
    BY <1>9 DEF CountDown, DecrementDocumentCount
  <1>10. ASSUME NEW r \in Requests, DeleteBlob(r)
        PROVE  Known'
    BY <1>10 DEF DeleteBlob
  <1>11. ASSUME NEW n \in Nodes, Crash(n)
        PROVE  Known'
    BY <1>11 DEF Crash, CrashNode
  <1> QED
    BY <1>1, <1>2, <1>3, <1>4, <1>5, <1>6, <1>7, <1>8, <1>9, <1>10, <1>11
       DEF RequestNext, Serve

-----------------------------------------------------------------------------
(* The accounting of deliveries.                                           *)

Accounting == Delivered /\ Verdicts

\* A wasted delivery makes room for the retry it causes.
LEMMA WasteAccounted ==
  ASSUME Types, Known, Accounting, NEW h \in Slots, pc[h] # "idle",
         Goto(h, "fail"), Waste(h), Running(h),
         UNCHANGED <<jobStatus, attempts, timedOut, queueVars>>
  PROVE  Accounting'
  <1> USE NoneAssumption, MaxAttemptsAssumption
      DEF Types, Busy, TypeOK, RepositoryTypeOK, IngestionTypeOK, RowExists,
          Known, Tracked, Orphaned, Goto, Waste, Running, queueVars
  <1>1. \A j \in Jobs : /\ wasted'[j] \in Nat /\ wasted'[j] >= wasted[j]
                        /\ j = job[h] => wasted'[j] = wasted[j] + 1
    OBVIOUS
  <1>2. \A j \in Jobs, i \in Nat :
           /\ Accounted(j, i) => Accounted(j, i)'
           /\ j = job[h] /\ Accounted(j, i) => Accounted(j, i + 1)'
    BY <1>1 DEF Accounted
  <1>3. Delivered'
    BY <1>2 DEF Accounting, Delivered
  <1>4. Verdicts'
    <2> SUFFICES ASSUME NEW g \in Slots, pc'[g] # "idle", Tracked(job[g])'
                 PROVE  Verdicts!(g)'
      BY DEF Verdicts
    <2>1. CASE g = h
      BY <1>2, <2>1 DEF Accounting, Verdicts, Delivered, BeforeVerdict
    <2>2. CASE g # h
      BY <1>1, <1>2, <2>2 DEF Accounting, Verdicts, BeforeVerdict
    <2> QED
      BY <2>1, <2>2
  <1> QED
    BY <1>3, <1>4 DEF Accounting

\* The steps of a handler.
LEMMA IngestAccounting ==
  ASSUME Types, Known, Accounting, NEW h \in Slots, Ingest(h),
         UNCHANGED requestVars
  PROVE  Accounting'
  <1> USE NoneAssumption, MaxAttemptsAssumption
      DEF Types, Busy, TypeOK, RepositoryTypeOK, IngestionTypeOK, RowExists,
          Known, Accounting, Delivered, Verdicts, Accounted, Tracked, Orphaned,
          BeforeVerdict, Goto, At, Running, nodeVars, queueVars, slotVars,
          storeVars, historyVars, repositoryVars, kbVars, jobVars, requestVars
  <1>1. CASE FindIngestionJob(h)
    BY <1>1 DEF FindIngestionJob
  <1>2. CASE FindVectorDb(h)
    BY <1>2 DEF FindVectorDb
  <1>3. CASE FailOrphan(h)
    BY <1>3 DEF FailOrphan, WriteJob, SetJobStatus
  <1>4. CASE MarkProcessing(h)
    BY <1>4 DEF MarkProcessing, WriteJob, SetJobStatus
  <1>5. CASE MarkVectorDbProcessing(h)
    BY <1>5 DEF MarkVectorDbProcessing, UpdateStatus
  <1>6. CASE Index(h)
    BY <1>6 DEF Index
  <1>7. CASE IndexFails(h)
    BY <1>7 DEF IndexFails
  <1>8. CASE RejectDocument(h)
    BY <1>8 DEF RejectDocument
  <1>9. CASE IngestImages(h)
    BY <1>9 DEF IngestImages
  <1>10. CASE MarkDone(h)
    BY <1>10 DEF MarkDone, WriteJob, SetJobStatus
  <1>11. CASE ReadyIfIdle(h)
    BY <1>11 DEF ReadyIfIdle, SetVectorDbReadyIfIdle
  <1>12. CASE CountAttempt(h)
    BY <1>12 DEF CountAttempt, IncrementJobAttempts
  <1>13. CASE MarkFailed(h)
    BY <1>13 DEF MarkFailed, WriteJob, SetJobStatus
  <1>14. CASE MarkVectorDbError(h)
    <2>1. CASE UNCHANGED <<wasted, jobVars>> /\ Goto(h, "complete")
      BY <1>14, <2>1 DEF MarkVectorDbError
    <2>2. CASE Goto(h, "fail") /\ Waste(h) /\ UNCHANGED repositoryVars
      BY <1>14, <2>2, WasteAccounted DEF MarkVectorDbError
    <2> QED
      BY <1>14, <2>1, <2>2 DEF MarkVectorDbError, UpdateStatus
  <1>15. CASE MarkPending(h)
    BY <1>15 DEF MarkPending, WriteJob, SetJobStatus
  <1>16. CASE DatabaseFault(h)
    <2>1. CASE UNCHANGED wasted /\ pc[h] \in InTry /\ Goto(h, "countAttempt")
      BY <1>16, <2>1 DEF DatabaseFault, InTry
    <2>2. CASE Goto(h, "fail") /\ Waste(h) /\ pc[h] # "idle"
      BY <1>16, <2>2, WasteAccounted DEF DatabaseFault
    <2> QED
      BY <1>16, <2>1, <2>2 DEF DatabaseFault, OutsideTry
  <1>17. CASE Settle(h)
    <2>1. CASE msg[h] = NoMessage
      BY <1>17, <2>1 DEF Settle
    <2>2. CASE msg[h] \in Messages /\ Free(msg[h])
      BY <1>17, <2>2 DEF Settle, Free
    <2>3. CASE msg[h] \in Messages /\ At(h, "fail") /\ Requeue(msg[h])
      BY <1>17, <2>3 DEF Settle, Requeue
    <2> QED
      BY <1>17, <2>1, <2>2, <2>3 DEF Settle, Retry
  <1> QED
    BY <1>1, <1>2, <1>3, <1>4, <1>5, <1>6, <1>7, <1>8, <1>9, <1>10,
       <1>11, <1>12, <1>13, <1>14, <1>15, <1>16, <1>17 DEF Ingest

\* The steps of the queue, of a boot, and of time.
LEMMA QueueAccounting ==
  ASSUME Types, Known, Accounting, IngestionNext,
         ~(\E h \in Slots : Ingest(h)), UNCHANGED requestVars
  PROVE  Accounting'
  <1> USE NoneAssumption, MaxAttemptsAssumption
      DEF Types, Busy, TypeOK, RepositoryTypeOK, IngestionTypeOK, RowExists,
          Known, Accounting, Delivered, Verdicts, Accounted, Tracked, Orphaned,
          BeforeVerdict, Goto, At, nodeVars, queueVars, slotVars, storeVars,
          historyVars, repositoryVars, kbVars, jobVars, requestVars
  <1>1. ASSUME NEW n \in Nodes, Boot(n)
        PROVE  Accounting'
    BY <1>1 DEF Boot
  <1>2. ASSUME NEW n \in Nodes, ReadReclaimable(n)
        PROVE  Accounting'
    BY <1>2 DEF ReadReclaimable, FindReclaimableJobs
  <1>3. ASSUME NEW n \in Nodes, NEW j \in Jobs, Reconcile(n, j)
        PROVE  Accounting'
    BY <1>3 DEF Reconcile, Enqueue
  <1>4. ASSUME NEW m \in Messages, Expire(m)
        PROVE  Accounting'
    <2>1. CASE Free(m)
      BY <1>4, <2>1 DEF Expire, Orphaned, Free
    <2>2. CASE Requeue(m)
      BY <1>4, <2>2 DEF Expire, Orphaned, Requeue
    <2> QED
      BY <1>4, <2>1, <2>2 DEF Expire, Orphaned, Retry
  <1>5. ASSUME NEW h \in Slots, NEW m \in Messages, Fetch(h, m)
        PROVE  Accounting'
    BY <1>5 DEF Fetch
  <1>6. ASSUME NEW h \in Slots, TimeOut(h)
        PROVE  Accounting'
    <2>1. CASE Free(msg[h])
      BY <1>6, <2>1 DEF TimeOut, Free
    <2>2. CASE Requeue(msg[h])
      BY <1>6, <2>2 DEF TimeOut, Requeue
    <2> QED
      BY <1>6, <2>1, <2>2 DEF TimeOut, Retry
  <1>7. ASSUME NEW j \in Jobs, TimePasses(j)
        PROVE  Accounting'
    BY <1>7 DEF TimePasses, Age
  <1> QED
    BY <1>1, <1>2, <1>3, <1>4, <1>5, <1>6, <1>7 DEF IngestionNext

\* The steps of requests, and crashes.
LEMMA RequestAccounting ==
  ASSUME Types, Files, Known, Accounting, RequestNext
  PROVE  Accounting'
  <1> USE NoneAssumption, MaxAttemptsAssumption
      DEF Types, Busy, TypeOK, RepositoryTypeOK, IngestionTypeOK, RowExists,
          Known, Accounting, Delivered, Verdicts, Accounted, Tracked, Orphaned,
          BeforeVerdict, Begin, Advance, End, nodeVars, queueVars, slotVars,
          storeVars, historyVars, repositoryVars, kbVars, jobVars, requestVars
  <1>1. ASSUME NEW v \in VectorDbs, CreateVectorDb(v) \/ DeleteVectorDb(v)
        PROVE  Accounting'
    BY <1>1 DEF CreateVectorDb, DeleteVectorDb, Create, Delete
  <1>2. ASSUME NEW r \in Requests, NEW j \in Jobs, PutBlob(r, j)
        PROVE  Accounting'
    BY <1>2 DEF PutBlob
  <1>3. ASSUME NEW r \in Requests, NEW j \in Jobs, BeginDeleteFile(r, j)
        PROVE  Accounting'
    BY <1>3 DEF BeginDeleteFile
  <1>4. ASSUME NEW r \in Requests, InsertJob(r)
        PROVE  Accounting'
    BY <1>4 DEF Files, InsertJob, CreateIngestionJob
  <1>5. ASSUME NEW r \in Requests, CountUp(r)
        PROVE  Accounting'
    BY <1>5 DEF CountUp, IncrementDocumentCount
  <1>6. ASSUME NEW r \in Requests, EnqueueUpload(r)
        PROVE  Accounting'
    BY <1>6 DEF EnqueueUpload, Enqueue
  <1>7. ASSUME NEW r \in Requests, RequestFails(r)
        PROVE  Accounting'
    BY <1>7 DEF RequestFails
  <1>8. ASSUME NEW r \in Requests, DeleteJobRow(r)
        PROVE  Accounting'
    BY <1>8 DEF DeleteJobRow, DeleteIngestionJob
  <1>9. ASSUME NEW r \in Requests, CountDown(r)
        PROVE  Accounting'
    BY <1>9 DEF CountDown, DecrementDocumentCount
  <1>10. ASSUME NEW r \in Requests, DeleteBlob(r)
        PROVE  Accounting'
    BY <1>10 DEF DeleteBlob
  <1>11. ASSUME NEW n \in Nodes, Crash(n)
        PROVE  Accounting'
    BY <1>11 DEF Crash, CrashNode
  <1> QED
    BY <1>1, <1>2, <1>3, <1>4, <1>5, <1>6, <1>7, <1>8, <1>9, <1>10, <1>11
       DEF RequestNext, Serve

-----------------------------------------------------------------------------
(* Somebody still has to act on every active job.                          *)

Concluding == {"readyIfIdle", "kbError", "complete"}
Uploading(j) == /\ jobStatus[j] = "pending"
                /\ \E r \in Requests : /\ rjob[r] = j
                                       /\ rpc[r] \in {"countUp", "enqueue"}
Swept(j) == /\ j \in FindReclaimableJobs
            /\ \E n \in Nodes : node[n] # "up" \/ j \in sweep[n]
Needy(j) == Active(j) /\ wasted[j] <= 1 /\ j \notin timedOut \cup unsent
Served(j) == (\E m \in Messages : Witness(j, m)) \/ Uploading(j) \/ Swept(j)

LEMMA WatchedIsServed == Watched <=> \A j \in Jobs : Needy(j) => Served(j)
  BY DEF Watched, Needy, Served, Uploading, Swept

\* A handler step keeps its job watched if it leaves it settled, or if the
\* handler is still going to conclude, or had already concluded.
HandlerStep(h) ==
    /\ pc[h] # "idle"
    /\ UNCHANGED <<msg, job, queueVars, nodeVars, requestVars>>
    /\ UNCHANGED <<timedOut, unsent>>
    /\ \A g \in Slots : g # h => pc'[g] = pc[g]
    /\ wasted' \in [Jobs -> Nat]
    /\ \A j \in Jobs : wasted[j] <= wasted'[j]
    /\ \A j \in Jobs : j # job[h] => /\ jobStatus'[j] = jobStatus[j]
                                     /\ j \in stale' <=> j \in stale
    /\ Active(job[h])' => RowExists(job[h])
    /\ \/ pc'[h] \notin Concluding
       \/ ~Active(job[h])'
       \/ /\ pc[h] \in Concluding
          /\ UNCHANGED <<jobStatus, stale>>

LEMMA HandlerWatches ==
  ASSUME Types, Accounting, Watched, NEW h \in Slots, HandlerStep(h)
  PROVE  Watched'
  <1> SUFFICES ASSUME NEW j \in Jobs, Needy(j)'
               PROVE  Served(j)'
    BY WatchedIsServed DEF Watched, Needy, Served, Uploading, Swept
  <1> USE DEF HandlerStep, queueVars, nodeVars, requestVars
  <1>1. CASE j = job[h] /\ pc'[h] \notin Concluding
    <2>1. RowExists(j) /\ j \notin timedOut
      BY <1>1 DEF Needy
    <2>2. msg[h] \in Messages
      BY <1>1, <2>1 DEF Accounting, Verdicts, Tracked, Types, TypeOK,
                        IngestionTypeOK
    <2>3. mjob[msg[h]] = j
      BY <1>1, <2>2, NoneAssumption DEF Types, Busy
    <2>4. Witness(j, msg[h])'
      BY <1>1, <2>2, <2>3 DEF Witness, Concluding
    <2> QED
      BY <2>2, <2>4 DEF Served
  <1>2. CASE \/ j # job[h]
             \/ pc[h] \in Concluding /\ UNCHANGED <<jobStatus, stale>>
    <2>1. /\ jobStatus'[j] = jobStatus[j]
          /\ j \in stale' <=> j \in stale
      BY <1>2
    <2>2. Needy(j)
      <3>1. wasted[j] <= 1
        BY DEF Needy, Types, TypeOK, IngestionTypeOK
      <3> QED
        BY <2>1, <3>1 DEF Needy, Active
    <2>3. Served(j)
      BY <2>2, WatchedIsServed
    <2>4. ASSUME NEW m \in Messages, Witness(j, m)
          PROVE  Witness(j, m)'
      <3>1. CASE mstate[m] = "queued" \/ Orphaned(m)
        BY <2>4, <3>1 DEF Witness, Orphaned
      <3>2. ASSUME NEW g \in Slots, msg[g] = m, pc[g] \notin Concluding
            PROVE  Witness(j, m)'
        <4>1. g # h
          BY <1>2, <2>4, <3>2, NoneAssumption DEF Witness, Types, Busy
        <4> QED
          BY <2>4, <3>2, <4>1 DEF Witness, Concluding
      <3> QED
        BY <2>4, <3>1, <3>2 DEF Witness, Concluding
    <2>5. (Uploading(j) => Uploading(j)') /\ (Swept(j) => Swept(j)')
      BY <2>1 DEF Uploading, Swept, FindReclaimableJobs
    <2> QED
      BY <2>3, <2>4, <2>5 DEF Served
  <1>3. CASE j = job[h] /\ ~Active(job[h])'
    BY <1>3 DEF Needy
  <1> QED
    BY <1>1, <1>2, <1>3
\* What a step has to show for one job: whoever served it still does.
LEMMA StillServed ==
  ASSUME Types, Watched, NEW j \in Jobs, Needy(j)',
         wasted' \in [Jobs -> Nat], wasted[j] <= wasted'[j],
         jobStatus'[j] = jobStatus[j],
         j \in timedOut => j \in timedOut',
         j \in unsent => j \in unsent',
         \A m \in Messages : Witness(j, m) => Served(j)',
         Uploading(j) => Served(j)',
         Swept(j) => Served(j)'
  PROVE  Served(j)'
  <1>1. wasted[j] <= 1
    BY DEF Needy, Types, TypeOK, IngestionTypeOK
  <1>2. Needy(j)
    BY <1>1 DEF Needy, Active
  <1> QED
    BY <1>2, WatchedIsServed DEF Served

\* While its deliveries are accounted for, a watched message has a retry left.
LEMMA RetryLeft ==
  ASSUME Types, NEW m \in Messages, mjob[m] \in Jobs,
         Accounted(mjob[m], mretry[m] + 1), wasted[mjob[m]] <= 1,
         Retry(m)
  PROVE  Requeue(m)
  BY MaxAttemptsAssumption DEF Accounted, Retry, RetryLimit, Types, TypeOK,
                               IngestionTypeOK

\* The queue's answer to a handler that settled.
LEMMA SettleWatches ==
  ASSUME Types, Accounting, Watched, NEW h \in Slots, Settle(h),
         UNCHANGED requestVars
  PROVE  Watched'
  <1> SUFFICES ASSUME NEW j \in Jobs, Needy(j)'
               PROVE  Served(j)'
    BY WatchedIsServed DEF Watched, Needy, Served, Uploading, Swept
  <1> USE DEF nodeVars, queueVars, storeVars, historyVars, requestVars,
              repositoryVars, kbVars, jobVars
  <1>1. ASSUME NEW m \in Messages, Witness(j, m), m # msg[h],
               mstate'[m] = mstate[m], mjob'[m] = mjob[m]
        PROVE  Witness(j, m)'
    <2>1. CASE mstate[m] = "queued" \/ Orphaned(m)
      BY <1>1, <2>1, NoneAssumption
         DEF Witness, Orphaned, Settle, Types, TypeOK, IngestionTypeOK
    <2>2. ASSUME NEW g \in Slots, msg[g] = m, pc[g] \notin Concluding
          PROVE  Witness(j, m)'
      BY <1>1, <2>2 DEF Witness, Settle, Goto, Concluding, Types, TypeOK,
                        IngestionTypeOK
    <2> QED
      BY <1>1, <2>1, <2>2 DEF Witness, Concluding
  <1>2. ASSUME NEW m \in Messages, Witness(j, m)
        PROVE  Witness(j, m)'
    <2>1. CASE msg[h] = NoMessage
      BY <1>1, <1>2, <2>1, NoneAssumption DEF Settle
    <2>2. CASE m # msg[h] /\ msg[h] # NoMessage
      <3>1. mstate'[m] = mstate[m] /\ mjob'[m] = mjob[m]
        BY <2>2 DEF Settle, Free, Retry, Requeue, Types, TypeOK, IngestionTypeOK
      <3> QED
        BY <1>1, <1>2, <2>2, <3>1
    <2>3. CASE m = msg[h]
      <3>1. /\ mjob[m] = j
            /\ job[h] = j
            /\ mstate[m] = "active"
            /\ \A g \in Slots : msg[g] = m => g = h
        BY <1>2, <2>3, NoneAssumption DEF Witness, Types, Busy
      <3>2. pc[h] \notin Concluding
        BY <1>2, <2>3, <3>1 DEF Witness, Concluding, Orphaned
      <3>3. At(h, "fail") /\ Retry(m)
        BY <2>3, <3>2, NoneAssumption DEF Settle, Concluding, At
      <3>4. Tracked(j) /\ wasted[j] <= 1
        BY DEF Needy, Active, ActiveStatus, Tracked, RowExists,
               IngestionJobStatus, Settle
      <3>5. Accounted(j, mretry[m] + 1)
        BY <2>3, <3>1, <3>3, <3>4 DEF Accounting, Verdicts, At
      <3>6. Requeue(m)
        BY <3>1, <3>3, <3>4, <3>5, RetryLeft
      <3> QED
        BY <3>1, <3>6 DEF Requeue, Witness, Types, TypeOK, IngestionTypeOK
    <2> QED
      BY <2>1, <2>2, <2>3
  <1>3. (Uploading(j) => Uploading(j)') /\ (Swept(j) => Swept(j)')
    BY DEF Uploading, Swept, FindReclaimableJobs, Settle
  <1> QED
    BY <1>2, <1>3, StillServed
       DEF Served, Settle, Types, TypeOK, IngestionTypeOK

\* Every step of a handler is such a step, except the one that ends it.
LEMMA IngestIsHandlerStep ==
  ASSUME Types, NEW h \in Slots, Ingest(h), ~Settle(h), UNCHANGED requestVars
  PROVE  HandlerStep(h)
  <1> USE DEF HandlerStep, Goto, At, Running, Concluding, Types, TypeOK, Busy,
              RepositoryTypeOK, IngestionTypeOK, Active, ActiveStatus,
              RowExists, IngestionJobStatus, nodeVars, queueVars, storeVars,
              historyVars, repositoryVars, kbVars, jobVars, requestVars
  <1>1. CASE FindIngestionJob(h)
    <2>1. CASE Goto(h, "findVdb")
      BY <1>1, <2>1 DEF FindIngestionJob
    <2>2. CASE Goto(h, "complete") /\ UNCHANGED prior
      <3>1. ~Active(job[h])'
        BY <1>1, <2>2 DEF FindIngestionJob
      <3> QED
        BY <1>1, <2>2, <3>1 DEF FindIngestionJob
    <2> QED
      BY <1>1, <2>1, <2>2 DEF FindIngestionJob
  <1>2. CASE FindVectorDb(h)
    BY <1>2 DEF FindVectorDb
  <1>3. CASE FailOrphan(h)
    BY <1>3 DEF FailOrphan, WriteJob, SetJobStatus
  <1>4. CASE MarkProcessing(h)
    BY <1>4 DEF MarkProcessing, WriteJob, SetJobStatus
  <1>5. CASE MarkVectorDbProcessing(h)
    BY <1>5 DEF MarkVectorDbProcessing, UpdateStatus
  <1>6. CASE Index(h)
    BY <1>6 DEF Index
  <1>7. CASE IndexFails(h)
    BY <1>7 DEF IndexFails
  <1>8. CASE RejectDocument(h)
    BY <1>8 DEF RejectDocument
  <1>9. CASE IngestImages(h)
    BY <1>9 DEF IngestImages
  <1>10. CASE MarkDone(h)
    BY <1>10 DEF MarkDone, WriteJob, SetJobStatus
  <1>11. CASE ReadyIfIdle(h)
    BY <1>11 DEF ReadyIfIdle, SetVectorDbReadyIfIdle
  <1>12. CASE CountAttempt(h)
    BY <1>12 DEF CountAttempt, IncrementJobAttempts
  <1>13. CASE MarkFailed(h)
    BY <1>13 DEF MarkFailed, WriteJob, SetJobStatus
  <1>14. CASE MarkVectorDbError(h)
    BY <1>14 DEF MarkVectorDbError, UpdateStatus, Waste
  <1>15. CASE MarkPending(h)
    BY <1>15 DEF MarkPending, WriteJob, SetJobStatus
  <1>16. CASE DatabaseFault(h)
    BY <1>16 DEF DatabaseFault, InTry, OutsideTry, Waste
  <1> QED
    BY <1>1, <1>2, <1>3, <1>4, <1>5, <1>6, <1>7, <1>8, <1>9, <1>10,
       <1>11, <1>12, <1>13, <1>14, <1>15, <1>16 DEF Ingest

\* The steps of a handler.
LEMMA IngestWatched ==
  ASSUME Types, Accounting, Watched, NEW h \in Slots, Ingest(h),
         UNCHANGED requestVars
  PROVE  Watched'
  BY SettleWatches, IngestIsHandlerStep, HandlerWatches

\* The steps of the queue, of a boot, and of time.
LEMMA QueueWatched ==
  ASSUME Types, Known, Accounting, Watched, IngestionNext,
         ~(\E h \in Slots : Ingest(h)), UNCHANGED requestVars
  PROVE  Watched'
  <1> SUFFICES ASSUME NEW j \in Jobs, Needy(j)'
               PROVE  Served(j)'
    BY WatchedIsServed DEF Watched, Needy, Served, Uploading, Swept
  <1> USE NoneAssumption
      DEF nodeVars, queueVars, slotVars, storeVars, historyVars, requestVars,
          repositoryVars, kbVars, jobVars
  <1>1. ASSUME NEW n \in Nodes, Boot(n) \/ ReadReclaimable(n)
        PROVE  Served(j)'
    <2>1. \A m \in Messages : Witness(j, m) => Witness(j, m)'
      BY <1>1 DEF Witness, Orphaned, Boot, ReadReclaimable
    <2>2. Uploading(j) => Uploading(j)'
      BY <1>1 DEF Uploading, Boot, ReadReclaimable
    <2>3. Swept(j) => Swept(j)'
      BY <1>1 DEF Swept, Boot, ReadReclaimable, FindReclaimableJobs, Types,
                  TypeOK, IngestionTypeOK
    <2> QED
      BY <1>1, <2>1, <2>2, <2>3, StillServed
         DEF Served, Boot, ReadReclaimable, Types, TypeOK, IngestionTypeOK
  <1>2. ASSUME NEW n \in Nodes, NEW k \in Jobs, Reconcile(n, k)
        PROVE  Served(j)'
    <2>1. CASE j = k
      BY <1>2, <2>1 DEF Reconcile, Enqueue, Served, Witness, Types, TypeOK,
                        IngestionTypeOK
    <2>2. CASE j # k
      <3>1. \A m \in Messages : Witness(j, m) => Witness(j, m)'
        BY <1>2, <2>2 DEF Witness, Orphaned, Reconcile, Enqueue, Types, Busy
      <3>2. Uploading(j) => Uploading(j)'
        BY <1>2 DEF Uploading, Reconcile
      <3>3. Swept(j) => Swept(j)'
        BY <1>2, <2>2 DEF Swept, Reconcile, FindReclaimableJobs, Types, TypeOK,
                          IngestionTypeOK
      <3> QED
        BY <1>2, <2>2, <3>1, <3>2, <3>3, StillServed
           DEF Served, Reconcile, Enqueue, Types, TypeOK, IngestionTypeOK
    <2> QED
      BY <2>1, <2>2
  <1>3. ASSUME NEW k \in Messages, Expire(k)
        PROVE  Served(j)'
    <2>1. ASSUME NEW m \in Messages, Witness(j, m)
          PROVE  Witness(j, m)'
      <3>1. CASE m # k
        <4>1. mstate'[m] = mstate[m] /\ mjob'[m] = mjob[m]
          BY <1>3, <3>1 DEF Expire, Retry, Free, Requeue, Types, TypeOK,
                            IngestionTypeOK
        <4> QED
          BY <1>3, <2>1, <4>1 DEF Witness, Orphaned, Expire
      <3>2. CASE m = k
        <4>1. Tracked(j) /\ wasted[j] <= 1
          BY <1>3 DEF Needy, Active, ActiveStatus, Tracked, RowExists,
                      IngestionJobStatus, Expire
        <4>2. Accounted(j, mretry[m] + 1)
          BY <1>3, <2>1, <3>2, <4>1 DEF Accounting, Delivered, Expire, Witness
        <4>3. Requeue(m)
          BY <1>3, <2>1, <3>2, <4>1, <4>2, RetryLeft DEF Expire, Witness
        <4> QED
          BY <2>1, <4>3 DEF Requeue, Witness, Types, TypeOK, IngestionTypeOK
      <3> QED
        BY <3>1, <3>2
    <2>2. (Uploading(j) => Uploading(j)') /\ (Swept(j) => Swept(j)')
      BY <1>3 DEF Uploading, Swept, FindReclaimableJobs, Expire
    <2> QED
      BY <1>3, <2>1, <2>2, StillServed
         DEF Served, Expire, Types, TypeOK, IngestionTypeOK
  <1>4. ASSUME NEW h \in Slots, NEW k \in Messages, Fetch(h, k)
        PROVE  Served(j)'
    <2>1. ASSUME NEW m \in Messages, Witness(j, m)
          PROVE  Witness(j, m)'
      <3>1. CASE m = k
        BY <1>4, <2>1, <3>1 DEF Witness, Fetch, Goto, Types, TypeOK,
                                IngestionTypeOK
      <3>2. CASE m # k /\ (mstate[m] = "queued" \/ Orphaned(m))
        BY <1>4, <2>1, <3>2 DEF Witness, Orphaned, Fetch, Types, TypeOK,
                                IngestionTypeOK
      <3>3. ASSUME NEW g \in Slots, msg[g] = m, pc[g] \notin Concluding
            PROVE  Witness(j, m)'
        <4>1. g # h
          BY <1>4, <3>3 DEF Fetch, At, Types, Busy
        <4> QED
          BY <1>4, <2>1, <3>3, <4>1
             DEF Witness, Concluding, Fetch, Goto, Types, TypeOK,
                 IngestionTypeOK
      <3> QED
        BY <2>1, <3>1, <3>2, <3>3 DEF Witness, Concluding
    <2>2. (Uploading(j) => Uploading(j)') /\ (Swept(j) => Swept(j)')
      BY <1>4 DEF Uploading, Swept, FindReclaimableJobs, Fetch
    <2> QED
      BY <1>4, <2>1, <2>2, StillServed
         DEF Served, Fetch, Types, TypeOK, IngestionTypeOK
  <1>5. ASSUME NEW h \in Slots, TimeOut(h)
        PROVE  Served(j)'
    <2>1. ASSUME NEW m \in Messages, Witness(j, m)
          PROVE  Witness(j, m)'
      <3>1. msg[h] \in Messages /\ mjob[msg[h]] = job[h] /\ job[h] \in Jobs
        BY <1>5 DEF TimeOut, Types, Busy, TypeOK, IngestionTypeOK
      <3>2. m # msg[h]
        BY <1>5, <2>1, <3>1 DEF Needy, TimeOut, Witness
      <3>3. mstate'[m] = mstate[m] /\ mjob'[m] = mjob[m]
        BY <1>5, <3>2 DEF TimeOut, Retry, Free, Requeue, Types, TypeOK,
                          IngestionTypeOK
      <3> QED
        BY <1>5, <2>1, <3>2, <3>3
           DEF Witness, Orphaned, TimeOut, Types, TypeOK, IngestionTypeOK
    <2>2. (Uploading(j) => Uploading(j)') /\ (Swept(j) => Swept(j)')
      BY <1>5 DEF Uploading, Swept, FindReclaimableJobs, TimeOut
    <2> QED
      BY <1>5, <2>1, <2>2, StillServed
         DEF Served, TimeOut, Types, TypeOK, IngestionTypeOK
  <1>6. ASSUME NEW k \in Jobs, TimePasses(k)
        PROVE  Served(j)'
    <2>1. \A m \in Messages : Witness(j, m) => Witness(j, m)'
      BY <1>6 DEF Witness, Orphaned, TimePasses
    <2>2. (Uploading(j) => Uploading(j)') /\ (Swept(j) => Swept(j)')
      BY <1>6 DEF Uploading, Swept, FindReclaimableJobs, TimePasses, Age
    <2> QED
      BY <1>6, <2>1, <2>2, StillServed
         DEF Served, TimePasses, Age, Types, TypeOK, IngestionTypeOK
  <1> QED
    BY <1>1, <1>2, <1>3, <1>4, <1>5, <1>6 DEF IngestionNext

\* A killed node leaves its messages to expire and its uploads to the sweep.
LEMMA CrashWatched ==
  ASSUME Types, Watched, NEW n \in Nodes, Crash(n)
  PROVE  Watched'
  <1> SUFFICES ASSUME NEW j \in Jobs, Needy(j)'
               PROVE  Served(j)'
    BY WatchedIsServed DEF Watched, Needy, Served, Uploading, Swept
  <1> USE NoneAssumption
      DEF Crash, CrashNode, queueVars, repositoryVars
  <1>1. ASSUME NEW m \in Messages, Witness(j, m)
        PROVE  Witness(j, m)'
    <2>1. CASE mstate[m] = "queued" \/ Orphaned(m)
      BY <1>1, <2>1 DEF Witness, Orphaned
    <2>2. ASSUME NEW g \in Slots, msg[g] = m, pc[g] \notin Concluding,
                 NodeOf[g] # n
          PROVE  Witness(j, m)'
      BY <1>1, <2>2 DEF Witness, Concluding
    <2>3. ASSUME NEW g \in Slots, msg[g] = m, NodeOf[g] = n
          PROVE  Orphaned(m)'
      BY <2>3 DEF Orphaned, Types, Busy
    <2> QED
      BY <1>1, <2>1, <2>2, <2>3 DEF Witness, Concluding
  <1>2. Uploading(j) => Uploading(j)' \/ Swept(j)'
    <2>1. node'[n] = "down"
      BY DEF Types, TypeOK, IngestionTypeOK
    <2>2. ASSUME NEW r \in Requests, rjob[r] = j, rpc[r] \in {"countUp",
                 "enqueue"},
                 jobStatus[j] = "pending"
          PROVE  Uploading(j)' \/ Swept(j)'
      <3>1. CASE NodeOf[r] = n
        BY <2>1, <2>2, <3>1 DEF Swept, FindReclaimableJobs
      <3>2. CASE NodeOf[r] # n
        BY <2>2, <3>2 DEF Uploading
      <3> QED
        BY <3>1, <3>2
    <2> QED
      BY <2>2 DEF Uploading
  <1>3. Swept(j) => Swept(j)'
    BY DEF Swept, FindReclaimableJobs, Types, TypeOK, IngestionTypeOK
  <1>4. wasted' \in [Jobs -> Nat] /\ wasted[j] <= wasted'[j]
    BY DEF Types, TypeOK, IngestionTypeOK
  <1> QED
    BY <1>1, <1>2, <1>3, <1>4, StillServed DEF Served

\* The steps of requests, and crashes.
LEMMA RequestWatched ==
  ASSUME Types, Files, Watched, RequestNext
  PROVE  Watched'
  <1> SUFFICES ASSUME NEW j \in Jobs, Needy(j)'
               PROVE  Served(j)'
    BY WatchedIsServed DEF Watched, Needy, Served, Uploading, Swept
  <1> USE NoneAssumption
      DEF nodeVars, queueVars, slotVars, storeVars, historyVars, requestVars,
          repositoryVars, kbVars, jobVars
  <1>1. ASSUME NEW n \in Nodes, Crash(n)
        PROVE  Served(j)'
    BY <1>1, CrashWatched DEF Watched, Needy, Served, Uploading, Swept
  <1>2. ASSUME NEW v \in VectorDbs, CreateVectorDb(v) \/ DeleteVectorDb(v)
        PROVE  Served(j)'
    <2>1. UNCHANGED <<jobVars, nodeVars, queueVars, slotVars, historyVars,
                      requestVars>>
      BY <1>2 DEF CreateVectorDb, DeleteVectorDb, Create, Delete
    <2>2. \A m \in Messages : Witness(j, m) => Witness(j, m)'
      BY <2>1 DEF Witness, Orphaned
    <2>3. (Uploading(j) => Uploading(j)') /\ (Swept(j) => Swept(j)')
      BY <2>1 DEF Uploading, Swept, FindReclaimableJobs
    <2> QED
      BY <2>1, <2>2, <2>3, StillServed
         DEF Served, Types, TypeOK, IngestionTypeOK
  <1>3. ASSUME NEW r \in Requests, NEW k \in Jobs,
               PutBlob(r, k) \/ BeginDeleteFile(r, k)
        PROVE  Served(j)'
    <2>1. UNCHANGED <<jobVars, nodeVars, queueVars, slotVars, historyVars>>
      BY <1>3 DEF PutBlob, BeginDeleteFile
    <2>2. \A m \in Messages : Witness(j, m) => Witness(j, m)'
      BY <2>1 DEF Witness, Orphaned
    <2>3. Swept(j) => Swept(j)'
      BY <2>1 DEF Swept, FindReclaimableJobs
    <2>4. Uploading(j) => Uploading(j)'
      BY <1>3, <2>1 DEF Uploading, PutBlob, BeginDeleteFile, Begin, Types,
                        TypeOK
    <2> QED
      BY <2>1, <2>2, <2>3, <2>4, StillServed
         DEF Served, Types, TypeOK, IngestionTypeOK
  <1>4. ASSUME NEW r \in Requests, InsertJob(r)
        PROVE  Served(j)'
    <2>1. CASE j = rjob[r]
      BY <1>4, <2>1 DEF InsertJob, CreateIngestionJob, Advance, Served,
                        Uploading, Types, TypeOK, RepositoryTypeOK
    <2>2. CASE j # rjob[r]
      <3>1. jobStatus'[j] = jobStatus[j]
        BY <1>4, <2>2 DEF InsertJob, CreateIngestionJob, Types, TypeOK,
                          RepositoryTypeOK
      <3>2. \A m \in Messages : Witness(j, m) => Witness(j, m)'
        BY <1>4 DEF InsertJob, Witness, Orphaned
      <3>3. Swept(j) => Swept(j)'
        BY <1>4, <3>1 DEF Swept, FindReclaimableJobs, InsertJob,
                          CreateIngestionJob
      <3>4. Uploading(j) => Uploading(j)'
        BY <1>4, <2>2, <3>1 DEF Uploading, InsertJob, Advance, Types, TypeOK
      <3> QED
        BY <1>4, <3>1, <3>2, <3>3, <3>4, StillServed
           DEF Served, InsertJob, Types, TypeOK, IngestionTypeOK
    <2> QED
      BY <2>1, <2>2
  <1>5. ASSUME NEW r \in Requests, CountUp(r)
        PROVE  Served(j)'
    <2>1. UNCHANGED <<jobVars, nodeVars, queueVars, slotVars, historyVars>>
      BY <1>5 DEF CountUp, IncrementDocumentCount
    <2>2. \A m \in Messages : Witness(j, m) => Witness(j, m)'
      BY <2>1 DEF Witness, Orphaned
    <2>3. Swept(j) => Swept(j)'
      BY <2>1 DEF Swept, FindReclaimableJobs
    <2>4. Uploading(j) => Uploading(j)'
      BY <1>5, <2>1 DEF Uploading, CountUp, Advance, Types, TypeOK
    <2> QED
      BY <2>1, <2>2, <2>3, <2>4, StillServed
         DEF Served, Types, TypeOK, IngestionTypeOK
  <1>6. ASSUME NEW r \in Requests, EnqueueUpload(r)
        PROVE  Served(j)'
    <2>1. CASE j = rjob[r]
      BY <1>6, <2>1 DEF EnqueueUpload, Enqueue, Served, Witness, Types, TypeOK,
                        IngestionTypeOK
    <2>2. CASE j # rjob[r]
      <3>1. \A m \in Messages : Witness(j, m) => Witness(j, m)'
        BY <1>6 DEF EnqueueUpload, Enqueue, Witness, Orphaned, Types, Busy,
                    TypeOK, IngestionTypeOK
      <3>2. Swept(j) => Swept(j)'
        BY <1>6 DEF Swept, FindReclaimableJobs, EnqueueUpload
      <3>3. Uploading(j) => Uploading(j)'
        BY <1>6, <2>2 DEF Uploading, EnqueueUpload, End, Types, TypeOK
      <3> QED
        BY <1>6, <2>2, <3>1, <3>2, <3>3, StillServed
           DEF Served, EnqueueUpload, Enqueue, Types, TypeOK, IngestionTypeOK
    <2> QED
      BY <2>1, <2>2
  <1>7. ASSUME NEW r \in Requests, RequestFails(r)
        PROVE  Served(j)'
    <2>1. rpc[r] \in {"countUp", "enqueue"} => j # rjob[r]
      BY <1>7 DEF RequestFails, Needy
    <2>2. \A m \in Messages : Witness(j, m) => Witness(j, m)'
      BY <1>7 DEF RequestFails, Witness, Orphaned
    <2>3. Swept(j) => Swept(j)'
      BY <1>7 DEF Swept, FindReclaimableJobs, RequestFails
    <2>4. Uploading(j) => Uploading(j)'
      BY <1>7, <2>1 DEF Uploading, RequestFails, End, Types, TypeOK
    <2> QED
      BY <1>7, <2>1, <2>2, <2>3, <2>4, StillServed
         DEF Served, RequestFails, Types, TypeOK, IngestionTypeOK
  <1>8. ASSUME NEW r \in Requests, DeleteJobRow(r)
        PROVE  Served(j)'
    <2>1. j # rjob[r]
      BY <1>8 DEF DeleteJobRow, DeleteIngestionJob, Needy, Active,
                  ActiveStatus, Types, TypeOK, RepositoryTypeOK
    <2>2. /\ jobStatus'[j] = jobStatus[j]
          /\ j \in stale' <=> j \in stale
      BY <1>8, <2>1 DEF DeleteJobRow, DeleteIngestionJob, Types, TypeOK,
                        RepositoryTypeOK
    <2>3. \A m \in Messages : Witness(j, m) => Witness(j, m)'
      BY <1>8 DEF DeleteJobRow, Witness, Orphaned
    <2>4. Swept(j) => Swept(j)'
      BY <1>8, <2>2 DEF Swept, FindReclaimableJobs, DeleteJobRow
    <2>5. Uploading(j) => Uploading(j)'
      BY <1>8, <2>1, <2>2 DEF Uploading, DeleteJobRow, Advance, Types, TypeOK
    <2> QED
      BY <1>8, <2>2, <2>3, <2>4, <2>5, StillServed
         DEF Served, DeleteJobRow, Types, TypeOK, IngestionTypeOK
  <1>9. ASSUME NEW r \in Requests, CountDown(r) \/ DeleteBlob(r)
        PROVE  Served(j)'
    <2>1. UNCHANGED <<jobVars, nodeVars, queueVars, slotVars, historyVars>>
      BY <1>9 DEF CountDown, DecrementDocumentCount, DeleteBlob
    <2>2. \A m \in Messages : Witness(j, m) => Witness(j, m)'
      BY <2>1 DEF Witness, Orphaned
    <2>3. Swept(j) => Swept(j)'
      BY <2>1 DEF Swept, FindReclaimableJobs
    <2>4. Uploading(j) => Uploading(j)'
      BY <1>9, <2>1 DEF Uploading, CountDown, DeleteBlob, Advance, End, Types,
                        TypeOK
    <2> QED
      BY <2>1, <2>2, <2>3, <2>4, StillServed
         DEF Served, Types, TypeOK, IngestionTypeOK
  <1> QED
    BY <1>1, <1>2, <1>3, <1>4, <1>5, <1>6, <1>7, <1>8, <1>9
       DEF RequestNext, Serve

LEMMA InitDelivery ==
  ASSUME Init
  PROVE  Delivery
  BY NoneAssumption
     DEF Init, RepositoryInit, IngestionInit, Delivery, Known, Delivered,
         Verdicts, Watched, Active, ActiveStatus, Orphaned

LEMMA StutterDelivery ==
  ASSUME Delivery, UNCHANGED vars
  PROVE  Delivery'
  BY DEF Delivery, Known, Delivered, Verdicts, Watched, Active, Orphaned,
         Tracked, RowExists, Accounted, Witness, FindReclaimableJobs, vars,
         nodeVars, queueVars, slotVars, storeVars, historyVars, repositoryVars,
         kbVars, jobVars, requestVars

\* The accounting of deliveries and what rests on it hold for any number of
\* knowledge bases, files, nodes, handlers, requests, messages and faults,
\* and any limit on attempts.
THEOREM DeliveryInvariant == Spec => []Delivery
  <1>1. Init => Delivery
    BY InitDelivery
  <1>2. Types /\ Files /\ Delivery /\ [Next]_vars => Delivery'
    <2> SUFFICES ASSUME Types, Files, Delivery, [Next]_vars
                 PROVE  Delivery'
      OBVIOUS
    <2>1. ASSUME NEW h \in Slots, Ingest(h), UNCHANGED requestVars
          PROVE  Delivery'
      BY <2>1, IngestKnown, IngestAccounting, IngestWatched
         DEF Delivery, Accounting
    <2>2. CASE /\ IngestionNext /\ UNCHANGED requestVars
               /\ ~(\E h \in Slots : Ingest(h))
      BY <2>2, QueueKnown, QueueAccounting, QueueWatched
         DEF Delivery, Accounting
    <2>3. CASE RequestNext
      BY <2>3, RequestKnown, RequestAccounting, RequestWatched
         DEF Delivery, Accounting
    <2>4. CASE UNCHANGED vars
      BY <2>4, StutterDelivery
    <2> QED
      BY <2>1, <2>2, <2>3, <2>4 DEF Next
  <1> QED
    BY <1>1, <1>2, TypesInvariant, FilesInvariant, PTL DEF Spec

\* An accepted file is never forgotten: as long as at most one delivery of it
\* ended without a verdict, no handler outlived its lease and its upload got
\* as far as the send, something still has to act on a pending or processing job.
\* The retryLimit of the queue is as large as it has to be.
THEOREM NoJobIsStranded == Spec => []NoJobStranded
  <1>1. Types /\ Delivery => NoJobStranded
    BY DEF Types, Delivery, Watched, NoJobStranded, Covered, Witness
  <1> QED
    BY <1>1, TypesInvariant, DeliveryInvariant, PTL
=============================================================================
