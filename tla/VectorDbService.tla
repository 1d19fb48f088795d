--------------------------- MODULE VectorDbService ---------------------------
(***************************************************************************)
(* VectorDbService: the HTTP requests on knowledge bases and their files,  *)
(* running next to the ingestion workers on the same nodes.  A request     *)
(* runs in a request slot and every await that writes is one step.  The    *)
(* reads a request starts with are merged into its first write when no     *)
(* later step uses what they returned.                                     *)
(***************************************************************************)
EXTENDS VectorDbIngestion

CONSTANT Requests  \* requests that can be in flight at the same time

ASSUME RequestsAssumption == \A r \in Requests : NodeOf[r] \in Nodes

VARIABLES rpc, rjob  \* a request: next await and the file it is about

requestVars == <<rpc, rjob>>
vars == <<repositoryVars, nodeVars, queueVars, slotVars, storeVars,
          historyVars, requestVars>>

RequestSteps == {"idle", "insertJob", "countUp", "enqueue",
                 "deleteJob", "countDown", "deleteBlob"}

Init ==
    /\ RepositoryInit
    /\ IngestionInit
    /\ rpc = [r \in Requests |-> "idle"]
    /\ rjob = [r \in Requests |-> NoJob]

-----------------------------------------------------------------------------
\* app.listen() runs once onModuleInit, and with it the sweep, has finished.
Serving(n) == node[n] = "up" /\ sweep[n] = {}

Advance(r, step) == rpc' = [rpc EXCEPT ![r] = step] /\ UNCHANGED rjob
Begin(r, j, step) ==
    /\ Serving(NodeOf[r])
    /\ rpc[r] = "idle"
    /\ rpc' = [rpc EXCEPT ![r] = step]
    /\ rjob' = [rjob EXCEPT ![r] = j]
End(r) ==
    /\ rpc' = [rpc EXCEPT ![r] = "idle"]
    /\ rjob' = [rjob EXCEPT ![r] = NoJob]

CreateVectorDb(v) ==
    /\ \E n \in Nodes : Serving(n)
    /\ Create(v)
    /\ UNCHANGED <<nodeVars, queueVars, slotVars, storeVars, historyVars,
                   requestVars>>

DeleteVectorDb(v) ==
    /\ \E n \in Nodes : Serving(n)
    /\ Delete(v)
    /\ UNCHANGED <<nodeVars, queueVars, slotVars, storeVars, historyVars,
                   requestVars>>

\* uploadFile: the key of the blob is fresh, so a file is uploaded once.
PutBlob(r, j) ==
    /\ Live(VectorDbOf[j])
    /\ jobStatus[j] = "none" /\ j \notin blobs
    /\ Begin(r, j, "insertJob")
    /\ blobs' = blobs \cup {j}
    /\ UNCHANGED <<repositoryVars, nodeVars, queueVars, slotVars, points,
                   historyVars>>

InsertJob(r) ==
    /\ rpc[r] = "insertJob"
    /\ CreateIngestionJob(rjob[r])
    /\ Advance(r, "countUp")
    /\ UNCHANGED <<nodeVars, queueVars, slotVars, storeVars, historyVars>>

CountUp(r) ==
    /\ rpc[r] = "countUp"
    /\ IncrementDocumentCount(VectorDbOf[rjob[r]])
    /\ Advance(r, "enqueue")
    /\ UNCHANGED <<nodeVars, queueVars, slotVars, storeVars, historyVars>>

EnqueueUpload(r) ==
    /\ rpc[r] = "enqueue"
    /\ Enqueue(rjob[r])
    /\ End(r)
    /\ UNCHANGED <<repositoryVars, nodeVars, slotVars, storeVars,
                   faults, wasted, timedOut>>

\* A query or the send throws: the request answers 500 and the steps it had
\* left are never made.  An inserted row then stays pending without a message.
RequestFails(r) ==
    /\ rpc[r] \in {"insertJob", "countUp", "enqueue", "deleteJob", "countDown"}
    /\ Fault("request")
    /\ unsent' = IF rpc[r] \in {"countUp", "enqueue"}
                 THEN unsent \cup {rjob[r]}
                 ELSE unsent
    /\ End(r)
    /\ UNCHANGED <<repositoryVars, nodeVars, queueVars, slotVars, storeVars,
                   wasted, timedOut>>

\* Mutant: the blob is deleted before the row.
BeginDeleteBlobFirst(r, j) ==
    /\ Live(VectorDbOf[j]) /\ RowExists(j)
    /\ Begin(r, j, "deleteJob")
    /\ blobs' = blobs \ {j}
    /\ UNCHANGED <<repositoryVars, nodeVars, queueVars, slotVars, points,
                   historyVars>>

\* deleteFile: both lookups succeed, then three separate writes.
BeginDeleteFile(r, j) ==
    /\ Live(VectorDbOf[j]) /\ RowExists(j)
    /\ Begin(r, j, "deleteJob")
    /\ UNCHANGED <<repositoryVars, nodeVars, queueVars, slotVars, storeVars,
                   historyVars>>

DeleteJobRow(r) ==
    /\ rpc[r] = "deleteJob"
    /\ DeleteIngestionJob(rjob[r])
    /\ Advance(r, "countDown")
    /\ UNCHANGED <<nodeVars, queueVars, slotVars, storeVars, historyVars>>

CountDown(r) ==
    /\ rpc[r] = "countDown"
    /\ DecrementDocumentCount(VectorDbOf[rjob[r]])
    /\ Advance(r, "deleteBlob")
    /\ UNCHANGED <<nodeVars, queueVars, slotVars, storeVars, historyVars>>

\* Best effort: a failed S3 delete is logged and leaves the blob.
DeleteBlob(r) ==
    /\ rpc[r] = "deleteBlob"
    /\ blobs' \in {blobs, blobs \ {rjob[r]}}
    /\ End(r)
    /\ UNCHANGED <<repositoryVars, nodeVars, queueVars, slotVars, points,
                   historyVars>>

Serve(r) ==
    \/ InsertJob(r) \/ CountUp(r) \/ EnqueueUpload(r) \/ RequestFails(r)
    \/ DeleteJobRow(r) \/ CountDown(r) \/ DeleteBlob(r)

Crash(n) ==
    /\ CrashNode(n)
    /\ rpc' = [r \in Requests |-> IF NodeOf[r] = n THEN "idle" ELSE rpc[r]]
    /\ rjob' = [r \in Requests |-> IF NodeOf[r] = n THEN NoJob ELSE rjob[r]]

RequestNext ==
    \/ \E n \in Nodes : Crash(n)
    \/ \E v \in VectorDbs : CreateVectorDb(v) \/ DeleteVectorDb(v)
    \/ \E r \in Requests, j \in Jobs : PutBlob(r, j) \/ BeginDeleteFile(r, j)
    \/ \E r \in Requests : Serve(r)

Next ==
    \/ IngestionNext /\ UNCHANGED requestVars
    \/ RequestNext

Spec == Init /\ [][Next]_vars

-----------------------------------------------------------------------------
(* Fairness.  Handlers, requests, the queue's delivery and expiry, and the *)
(* boot sequence run on; no user, fault or slow clock is obliged to act.   *)
Fairness ==
    /\ \A n \in Nodes : WF_vars((Boot(n) \/ ReadReclaimable(n))
                                   /\ UNCHANGED requestVars)
    /\ \A n \in Nodes, j \in Jobs :
          WF_vars(Reconcile(n, j) /\ UNCHANGED requestVars)
    /\ \A m \in Messages :
          /\ WF_vars(Expire(m) /\ UNCHANGED requestVars)
          /\ WF_vars((\E h \in Slots : Fetch(h, m)) /\ UNCHANGED requestVars)
    /\ \A h \in Slots : WF_vars(Ingest(h) /\ UNCHANGED requestVars)
    /\ \A r \in Requests : WF_vars(Serve(r))

FairSpec == Spec /\ Fairness

-----------------------------------------------------------------------------
(* Properties.                                                             *)

\* The shape of every variable of the module and of those it extends.
TypeOK ==
    /\ RepositoryTypeOK
    /\ IngestionTypeOK
    /\ rpc \in [Requests -> RequestSteps]
    /\ rjob \in [Requests -> Jobs \cup {NoJob}]

\* A job row that says "done" has its text points in the vector store, however
\* many handlers, retries and crashes its ingestion went through.
DoneIsIndexed ==
    \A j \in Jobs : jobStatus[j] = "done" /\ j \notin BlankFiles
                       => j \in points

\* A file that is listed can be read: its blob is put before the row is
\* inserted and deleted after the row, by whichever of several requests.
BlobOfEveryFile == \A j \in Jobs : RowExists(j) => j \in blobs

\* Someone still has to act on j: a message, a sweep, or the upload itself.
Covered(j) ==
    \/ \E m \in Messages : mjob[m] = j
    \/ \E r \in Requests : rjob[r] = j /\ rpc[r] \in {"countUp", "enqueue"}
    \/ j \in FindReclaimableJobs
         /\ \E n \in Nodes : node[n] # "up" \/ j \in sweep[n]

\* An accepted file is never forgotten: while its job is pending or processing
\* somebody still has to act on it, as long as at most RetryLimit + 1 -
\* MaxAttempts = 1 of its deliveries ended without a verdict (a crash, a failed
\* query outside the try block, an illegal status transition), no handler
\* outlived its lease, and its upload did not fail before the send.  This is
\* what couples the queue's retryLimit to MAX_INGESTION_ATTEMPTS.
NoJobStranded ==
    \A j \in Jobs :
        Active(j) /\ wasted[j] <= 1 /\ j \notin timedOut \cup unsent
            => Covered(j)

\* The readers' view: the status table is respected, and a knowledge base is
\* declared ready only in a state where no file of it is pending or processing.
Lifecycle == INSTANCE VectorDbLifecycle
    WITH status <- kbStatus, open <- {j \in Jobs : Active(j)}
RefinesLifecycle == Lifecycle!Spec

\* Every accepted file is eventually settled: done, failed or deleted.
JobsSettle == \A j \in Jobs : Active(j) ~> ~Active(j)
=============================================================================
