-------------------------- MODULE VectorDbIngestion --------------------------
(***************************************************************************)
(* VectorDbIngestionService on several API nodes: the pg-boss queue, the   *)
(* boot sequence with its reconcile sweep, and the handler that ingests    *)
(* one file.  A handler runs in a slot; pc[h] names the await it is about  *)
(* to make, and every await is one step, so handlers of other slots, other *)
(* nodes, HTTP requests and crashes run between any two of them.           *)
(*                                                                         *)
(* pg-boss is external and modelled from how the adapter uses it: a sent   *)
(* message is queued; fetching makes it active; a handler that returns     *)
(* completes it and one that throws puts it back while it has retries;     *)
(* an active message whose worker is gone, or too slow, expires and is     *)
(* put back in the same way.  Finished messages are forgotten.             *)
(***************************************************************************)
EXTENDS VectorDbRepository

CONSTANTS
    Nodes,       \* API processes
    Slots,       \* handler invocations that can run at the same time
    NodeOf,      \* the node of a slot (and, in VectorDbService, of a request)
    Messages,    \* identities of the messages the queue can hold at once
    BlankFiles,  \* files whose text yields no chunk
    MaxAttempts, \* MAX_INGESTION_ATTEMPTS
    MaxFaults,   \* how many faults of each kind can happen
    NoMessage, NoJob

Faults == {"crash", "database", "timeout", "request"}

ASSUME SlotsAssumption == \A h \in Slots : NodeOf[h] \in Nodes
ASSUME MaxAttemptsAssumption == MaxAttempts \in Nat \ {0}
ASSUME MaxFaultsAssumption == MaxFaults \in [Faults -> Nat]
ASSUME NoneAssumption == NoMessage \notin Messages /\ NoJob \notin Jobs

VARIABLES
    node,      \* "down", "starting" (workers run, sweep not read yet) or "up"
    sweep,     \* jobs a booting node read and has still to enqueue
    mstate, mjob, mretry,  \* pg-boss: state, payload and retry count
    pc, msg, job, prior,   \* a slot: next await, message, jobId, jobRow.attempts
    blobs,     \* files whose blob is in S3
    points,    \* files whose text points are in Qdrant
    faults,    \* faults left to happen
    wasted,    \* history: deliveries of a job cut short without a verdict
    timedOut,  \* history: jobs with a handler the queue has given up on
    unsent     \* history: jobs whose upload failed before its send

nodeVars    == <<node, sweep>>
queueVars   == <<mstate, mjob, mretry>>
slotVars    == <<pc, msg, job, prior>>
storeVars   == <<blobs, points>>
historyVars == <<faults, wasted, timedOut, unsent>>

\* Mutant: fewer retries than the handler needs to reach its own verdict.
RetryLimitTooSmall == MaxAttempts - 2

\* The retryLimit every message is sent with.
RetryLimit == MaxAttempts

InTry == {"markProcessing", "kbProcessing", "markDone", "readyIfIdle"}
OutsideTry == {"findJob", "findVdb", "failOrphan", "countAttempt",
               "markFailed", "kbError", "markPending"}
Steps == InTry \cup OutsideTry
           \cup {"idle", "index", "images", "complete", "fail"}

IngestionInit ==
    /\ node = [n \in Nodes |-> "down"]
    /\ sweep = [n \in Nodes |-> {}]
    /\ mstate = [m \in Messages |-> "free"]
    /\ mjob = [m \in Messages |-> NoJob]
    /\ mretry = [m \in Messages |-> 0]
    /\ pc = [h \in Slots |-> "idle"]
    /\ msg = [h \in Slots |-> NoMessage]
    /\ job = [h \in Slots |-> NoJob]
    /\ prior = [h \in Slots |-> 0]
    /\ blobs = {}
    /\ points = {}
    /\ faults = MaxFaults
    /\ wasted = [j \in Jobs |-> 0]
    /\ timedOut = {}
    /\ unsent = {}

-----------------------------------------------------------------------------
(* The queue.                                                              *)

Free(m) ==
    /\ mstate' = [mstate EXCEPT ![m] = "free"]
    /\ mjob' = [mjob EXCEPT ![m] = NoJob]
    /\ mretry' = [mretry EXCEPT ![m] = 0]

Requeue(m) ==
    /\ mstate' = [mstate EXCEPT ![m] = "queued"]
    /\ mretry' = [mretry EXCEPT ![m] = @ + 1]
    /\ UNCHANGED mjob

Retry(m) ==
    \/ mretry[m] < RetryLimit /\ Requeue(m)
    \/ mretry[m] >= RetryLimit /\ Free(m)

\* A new message each time: nothing ties it to one already queued for j.
Enqueue(j) ==
    /\ \E m \in Messages :
          /\ mstate[m] = "free"
          /\ mstate' = [mstate EXCEPT ![m] = "queued"]
          /\ mjob' = [mjob EXCEPT ![m] = j]
          /\ mretry' = [mretry EXCEPT ![m] = 0]
    /\ unsent' = unsent \ {j}

Fault(kind) ==
    /\ faults[kind] > 0
    /\ faults' = [faults EXCEPT ![kind] = @ - 1]

Orphaned(m) == mstate[m] = "active" /\ \A h \in Slots : msg[h] # m

Expire(m) ==
    /\ Orphaned(m)
    /\ Retry(m)
    /\ UNCHANGED <<repositoryVars, nodeVars, slotVars, storeVars, historyVars>>

-----------------------------------------------------------------------------
(* Boot: start the queue, register the worker, then reconcile.             *)

Boot(n) ==
    /\ node[n] = "down"
    /\ node' = [node EXCEPT ![n] = "starting"]
    /\ UNCHANGED <<repositoryVars, sweep, queueVars, slotVars, storeVars,
                   historyVars>>

ReadReclaimable(n) ==
    /\ node[n] = "starting"
    /\ node' = [node EXCEPT ![n] = "up"]
    /\ sweep' = [sweep EXCEPT ![n] = FindReclaimableJobs]
    /\ UNCHANGED <<repositoryVars, queueVars, slotVars, storeVars, historyVars>>

Reconcile(n, j) ==
    /\ j \in sweep[n]
    /\ Enqueue(j)
    /\ sweep' = [sweep EXCEPT ![n] = @ \ {j}]
    /\ UNCHANGED <<repositoryVars, node, slotVars, storeVars,
                   faults, wasted, timedOut>>

\* What a killed process loses: its handlers and the rest of its sweep.
CrashNode(n) ==
    LET killed == {h \in Slots : NodeOf[h] = n}
        cut(j) == {h \in killed : msg[h] # NoMessage /\ job[h] = j}
    IN  /\ node[n] # "down"
        /\ Fault("crash")
        /\ node' = [node EXCEPT ![n] = "down"]
        /\ sweep' = [sweep EXCEPT ![n] = {}]
        /\ pc' = [h \in Slots |-> IF h \in killed THEN "idle" ELSE pc[h]]
        /\ msg' = [h \in Slots |-> IF h \in killed THEN NoMessage ELSE msg[h]]
        /\ job' = [h \in Slots |-> IF h \in killed THEN NoJob ELSE job[h]]
        /\ prior' = [h \in Slots |-> IF h \in killed THEN 0 ELSE prior[h]]
        /\ wasted' = [j \in Jobs |-> IF cut(j) # {} THEN wasted[j] + 1
                                                    ELSE wasted[j]]
        /\ UNCHANGED <<repositoryVars, queueVars, storeVars, timedOut, unsent>>

-----------------------------------------------------------------------------
(* The handler, from the fetch to the verdict the queue gets.              *)

Goto(h, step) == pc' = [pc EXCEPT ![h] = step]
At(h, step) == pc[h] = step
Running(h) == UNCHANGED <<msg, job, prior>>

Fetch(h, m) ==
    /\ node[NodeOf[h]] # "down"
    /\ At(h, "idle")
    /\ mstate[m] = "queued"
    /\ mstate' = [mstate EXCEPT ![m] = "active"]
    /\ Goto(h, "findJob")
    /\ msg' = [msg EXCEPT ![h] = m]
    /\ job' = [job EXCEPT ![h] = mjob[m]]
    /\ UNCHANGED <<repositoryVars, nodeVars, mjob, mretry, prior, storeVars,
                   historyVars>>

FindIngestionJob(h) ==
    /\ At(h, "findJob")
    /\ \/ /\ RowExists(job[h]) /\ jobStatus[job[h]] # "done"
          /\ prior' = [prior EXCEPT ![h] = attempts[job[h]]]
          /\ Goto(h, "findVdb")
       \/ /\ ~RowExists(job[h]) \/ jobStatus[job[h]] = "done"
          /\ Goto(h, "complete")
          /\ UNCHANGED prior
    /\ UNCHANGED <<repositoryVars, nodeVars, queueVars, msg, job, storeVars,
                   historyVars>>

FindVectorDb(h) ==
    /\ At(h, "findVdb")
    /\ \/ Live(VectorDbOf[job[h]]) /\ Goto(h, "markProcessing")
       \/ ~Live(VectorDbOf[job[h]]) /\ Goto(h, "failOrphan")
    /\ Running(h)
    /\ UNCHANGED <<repositoryVars, nodeVars, queueVars, storeVars, historyVars>>

\* A handler step that is one write of its job row.
WriteJob(h, step, status, next) ==
    /\ At(h, step)
    /\ SetJobStatus(job[h], status)
    /\ Goto(h, next)
    /\ Running(h)
    /\ UNCHANGED <<nodeVars, queueVars, storeVars, historyVars>>

\* Mutant: a failed attempt returns instead of rethrowing.
MarkPendingAndReturn(h) == WriteJob(h, "markPending", "pending", "complete")

FailOrphan(h)     == WriteJob(h, "failOrphan", "failed", "complete")
MarkProcessing(h) == WriteJob(h, "markProcessing", "processing", "kbProcessing")
MarkDone(h)       == WriteJob(h, "markDone", "done", "readyIfIdle")
MarkFailed(h)     == WriteJob(h, "markFailed", "failed", "kbError")
MarkPending(h)    == WriteJob(h, "markPending", "pending", "fail")

\* NotFound and Conflict are thrown inside the try block: a failed attempt.
MarkVectorDbProcessing(h) ==
    /\ At(h, "kbProcessing")
    /\ \/ UpdateStatus(VectorDbOf[job[h]], "processing") /\ Goto(h, "index")
       \/ /\ ~CanUpdateStatus(VectorDbOf[job[h]], "processing")
          /\ Goto(h, "countAttempt")
          /\ UNCHANGED repositoryVars
    /\ Running(h)
    /\ UNCHANGED <<nodeVars, queueVars, storeVars, historyVars>>

\* Read the blob, extract, chunk, embed, and upsert the text points.
Index(h) ==
    /\ At(h, "index")
    /\ job[h] \in blobs
    /\ points' = IF job[h] \in BlankFiles THEN points
                                          ELSE points \cup {job[h]}
    /\ Goto(h, "images")
    /\ Running(h)
    /\ UNCHANGED <<repositoryVars, nodeVars, queueVars, blobs, historyVars>>

\* Mutant: the failure is logged and the ingestion goes on.
IndexFailsUnnoticed(h) ==
    /\ pc[h] \in {"index", "images"}
    /\ Goto(h, "markDone")
    /\ Running(h)
    /\ UNCHANGED <<repositoryVars, nodeVars, queueVars, storeVars, historyVars>>

\* S3, the embedder or Qdrant fails, or the blob is gone.
IndexFails(h) ==
    /\ pc[h] \in {"index", "images"}
    /\ Goto(h, "countAttempt")
    /\ Running(h)
    /\ UNCHANGED <<repositoryVars, nodeVars, queueVars, storeVars, historyVars>>

\* NonRetryableIngestionError from the extractor: no attempt is counted.
RejectDocument(h) ==
    /\ At(h, "index")
    /\ job[h] \in blobs
    /\ Goto(h, "markFailed")
    /\ Running(h)
    /\ UNCHANGED <<repositoryVars, nodeVars, queueVars, storeVars, historyVars>>

\* The images that could be described and embedded, possibly none, are
\* upserted.  Their points are additive and no other step looks at them.
IngestImages(h) ==
    /\ At(h, "images")
    /\ Goto(h, "markDone")
    /\ Running(h)
    /\ UNCHANGED <<repositoryVars, nodeVars, queueVars, storeVars, historyVars>>

ReadyIfIdle(h) ==
    /\ At(h, "readyIfIdle")
    /\ SetVectorDbReadyIfIdle(VectorDbOf[job[h]])
    /\ Goto(h, "complete")
    /\ Running(h)
    /\ UNCHANGED <<nodeVars, queueVars, storeVars, historyVars>>

\* The verdict is computed from the attempts read by findIngestionJobById.
CountAttempt(h) ==
    /\ At(h, "countAttempt")
    /\ IncrementJobAttempts(job[h])
    /\ \/ prior[h] + 1 >= MaxAttempts /\ Goto(h, "markFailed")
       \/ prior[h] + 1 < MaxAttempts /\ Goto(h, "markPending")
    /\ Running(h)
    /\ UNCHANGED <<nodeVars, queueVars, storeVars, historyVars>>

Waste(h) == wasted' = [wasted EXCEPT ![job[h]] = @ + 1]

\* An illegal transition escapes ingest(), so the queue retries the message.
MarkVectorDbError(h) ==
    /\ At(h, "kbError")
    /\ \/ /\ UpdateStatus(VectorDbOf[job[h]], "error")
          /\ Goto(h, "complete")
          /\ UNCHANGED wasted
       \/ /\ ~CanUpdateStatus(VectorDbOf[job[h]], "error")
          /\ Goto(h, "fail")
          /\ Waste(h)
          /\ UNCHANGED repositoryVars
    /\ Running(h)
    /\ UNCHANGED <<nodeVars, queueVars, storeVars, faults, timedOut, unsent>>

\* A query throws: inside the try block a failed attempt, outside it escapes.
DatabaseFault(h) ==
    /\ Fault("database")
    /\ \/ pc[h] \in InTry /\ Goto(h, "countAttempt") /\ UNCHANGED wasted
       \/ pc[h] \in OutsideTry /\ Goto(h, "fail") /\ Waste(h)
    /\ Running(h)
    /\ UNCHANGED <<repositoryVars, nodeVars, queueVars, storeVars, timedOut,
                   unsent>>

\* The handler settled: its promise resolved ("complete") or rejected ("fail").
\* The queue no longer listens to a handler that it timed out.
Settle(h) ==
    /\ \/ /\ msg[h] = NoMessage /\ pc[h] \in {"complete", "fail"}
          /\ UNCHANGED queueVars
       \/ msg[h] # NoMessage /\ At(h, "complete") /\ Free(msg[h])
       \/ msg[h] # NoMessage /\ At(h, "fail") /\ Retry(msg[h])
    /\ Goto(h, "idle")
    /\ msg' = [msg EXCEPT ![h] = NoMessage]
    /\ job' = [job EXCEPT ![h] = NoJob]
    /\ prior' = [prior EXCEPT ![h] = 0]
    /\ UNCHANGED <<repositoryVars, nodeVars, storeVars, historyVars>>

\* The message expires under a handler, which keeps running unobserved.
TimeOut(h) ==
    /\ msg[h] # NoMessage
    /\ Fault("timeout")
    /\ Retry(msg[h])
    /\ msg' = [msg EXCEPT ![h] = NoMessage]
    /\ timedOut' = timedOut \cup {job[h]}
    /\ UNCHANGED <<repositoryVars, nodeVars, pc, job, prior, storeVars, wasted,
                   unsent>>

Ingest(h) ==
    \/ FindIngestionJob(h) \/ FindVectorDb(h) \/ FailOrphan(h)
    \/ MarkProcessing(h) \/ MarkVectorDbProcessing(h)
    \/ Index(h) \/ IndexFails(h) \/ RejectDocument(h) \/ IngestImages(h)
    \/ MarkDone(h) \/ ReadyIfIdle(h)
    \/ CountAttempt(h) \/ MarkFailed(h) \/ MarkVectorDbError(h)
    \/ MarkPending(h)
    \/ DatabaseFault(h)
    \/ Settle(h)

TimePasses(j) ==
    /\ Age(j)
    /\ UNCHANGED <<nodeVars, queueVars, slotVars, storeVars, historyVars>>

IngestionNext ==
    \/ \E n \in Nodes : Boot(n) \/ ReadReclaimable(n)
    \/ \E n \in Nodes, j \in Jobs : Reconcile(n, j)
    \/ \E m \in Messages : Expire(m)
    \/ \E h \in Slots, m \in Messages : Fetch(h, m)
    \/ \E h \in Slots : Ingest(h) \/ TimeOut(h)
    \/ \E j \in Jobs : TimePasses(j)

IngestionTypeOK ==
    /\ node \in [Nodes -> {"down", "starting", "up"}]
    /\ sweep \in [Nodes -> SUBSET Jobs]
    /\ mstate \in [Messages -> {"free", "queued", "active"}]
    /\ mjob \in [Messages -> Jobs \cup {NoJob}]
    /\ mretry \in [Messages -> Nat]
    /\ pc \in [Slots -> Steps]
    /\ msg \in [Slots -> Messages \cup {NoMessage}]
    /\ job \in [Slots -> Jobs \cup {NoJob}]
    /\ prior \in [Slots -> Nat]
    /\ blobs \subseteq Jobs
    /\ points \subseteq Jobs
    /\ faults \in [Faults -> Nat]
    /\ wasted \in [Jobs -> Nat]
    /\ timedOut \subseteq Jobs
    /\ unsent \subseteq Jobs
=============================================================================
