-------------------------- MODULE VectorDbInvariants --------------------------
(***************************************************************************)
(* The inductive invariants behind the theorems of VectorDbProofs.  Each   *)
(* relates what a handler, a request or a message has in hand to the rows  *)
(* it is going to write.                                                   *)
(***************************************************************************)
EXTENDS VectorDbService

\* Slots, requests and messages in use are about some file, and a handler the
\* queue listens to is the only holder of its message.
Busy ==
    /\ \A h \in Slots : pc[h] # "idle" <=> job[h] \in Jobs
    /\ \A h \in Slots : msg[h] # NoMessage =>
          /\ pc[h] # "idle"
          /\ mstate[msg[h]] = "active"
          /\ mjob[msg[h]] = job[h]
          /\ \A g \in Slots : msg[g] = msg[h] => g = h
    /\ \A r \in Requests : rpc[r] # "idle" <=> rjob[r] \in Jobs
    /\ \A m \in Messages : mstate[m] # "free" <=> mjob[m] \in Jobs

Types == TypeOK /\ Busy

\* Files: rows, blobs, points and the requests between them.
Files ==
    /\ BlobOfEveryFile
    /\ DoneIsIndexed
    /\ \A h \in Slots : pc[h] \in {"images", "markDone"}
          => job[h] \in BlankFiles \cup points
    /\ \A r \in Requests : rpc[r] = "insertJob" =>
          /\ rjob[r] \in blobs
          /\ jobStatus[rjob[r]] = "none"
          /\ \A q \in Requests : rpc[q] = "insertJob" /\ rjob[q] = rjob[r]
                => q = r
    /\ \A r \in Requests : rpc[r] \in {"countUp", "enqueue", "deleteJob"}
          => jobStatus[rjob[r]] # "none"
    /\ \A r \in Requests : rpc[r] \in {"countDown", "deleteBlob"}
          => jobStatus[rjob[r]] = "deleted"

\* Whoever is about to act on a job acts on one that was inserted.
Known ==
    /\ \A m \in Messages : mstate[m] # "free" => jobStatus[mjob[m]] # "none"
    /\ \A h \in Slots : pc[h] # "idle" => jobStatus[job[h]] # "none"
    /\ \A n \in Nodes : \A j \in sweep[n] : jobStatus[j] # "none"

\* k deliveries of j were accounted for: each counted an attempt below the
\* limit, or was wasted.
Accounted(j, k) ==
    /\ k <= attempts[j] + wasted[j]
    /\ k <= MaxAttempts - 1 + wasted[j]

\* Files whose deliveries the accounting covers.
Tracked(j) == RowExists(j) /\ j \notin timedOut

Delivered ==
    /\ \A m \in Messages : mstate[m] # "free" /\ Tracked(mjob[m])
          => Accounted(mjob[m], mretry[m])
    /\ \A m \in Messages : Orphaned(m) /\ Tracked(mjob[m])
          => Accounted(mjob[m], mretry[m] + 1)

BeforeVerdict == {"findVdb", "failOrphan", "markProcessing", "kbProcessing",
                  "index", "images", "markDone", "readyIfIdle", "countAttempt"}

Verdicts ==
    \A h \in Slots : pc[h] # "idle" /\ Tracked(job[h]) =>
       /\ msg[h] # NoMessage
       /\ pc[h] \in BeforeVerdict =>
             /\ prior[h] <= attempts[job[h]]
             /\ mretry[msg[h]] <= prior[h] + wasted[job[h]]
       /\ pc[h] = "markPending" =>
             /\ prior[h] + 1 <= attempts[job[h]]
             /\ prior[h] + 2 <= MaxAttempts
             /\ mretry[msg[h]] <= prior[h] + wasted[job[h]]
       /\ pc[h] = "fail" => Accounted(job[h], mretry[msg[h]] + 1)

\* A message that will still lead to a verdict on j.
Witness(j, m) ==
    /\ mjob[m] = j
    /\ \/ mstate[m] = "queued"
       \/ Orphaned(m)
       \/ \E h \in Slots :
             msg[h] = m /\ pc[h] \notin {"readyIfIdle", "kbError", "complete"}

Watched ==
    \A j \in Jobs :
        Active(j) /\ wasted[j] <= 1 /\ j \notin timedOut \cup unsent =>
           \/ \E m \in Messages : Witness(j, m)
           \/ /\ jobStatus[j] = "pending"
              /\ \E r \in Requests : /\ rjob[r] = j
                                     /\ rpc[r] \in {"countUp", "enqueue"}
           \/ /\ j \in FindReclaimableJobs
              /\ \E n \in Nodes : node[n] # "up" \/ j \in sweep[n]

Delivery == Known /\ Delivered /\ Verdicts /\ Watched
=============================================================================
