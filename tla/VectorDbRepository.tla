-------------------------- MODULE VectorDbRepository --------------------------
(***************************************************************************)
(* The two Postgres tables of the vector-db module and the repository      *)
(* methods that write them.  Every method is one SQL statement, so every   *)
(* operator below is one atomic step of whoever calls it.                  *)
(*                                                                         *)
(* A knowledge base (org_vector_db row) is soft-deleted: every query       *)
(* filters deleted_at IS NULL, so a deleted row is represented by the      *)
(* status "deleted", whatever it said before.  A file and its ingestion    *)
(* job (vector_db_ingestion_job row) are one thing: the row is the file.   *)
(***************************************************************************)
EXTENDS Integers, FiniteSets

CONSTANTS
    VectorDbs,   \* knowledge bases
    Jobs,        \* files, each with its ingestion job row
    VectorDbOf   \* the knowledge base a file is uploaded to

ASSUME VectorDbOfAssumption == VectorDbOf \in [Jobs -> VectorDbs]

VARIABLES
    kbStatus,      \* org_vector_db.status, "absent" before the insert
    documentCount, \* org_vector_db.document_count
    jobStatus,     \* vector_db_ingestion_job.status, "none" before the insert
    attempts,      \* vector_db_ingestion_job.attempts
    stale          \* the jobs whose updated_at is past the stuck threshold

kbVars  == <<kbStatus, documentCount>>
jobVars == <<jobStatus, attempts, stale>>
repositoryVars == <<kbStatus, documentCount, jobStatus, attempts, stale>>

VectorDbStatus == {"empty", "processing", "ready", "error"}
IngestionJobStatus == {"pending", "processing", "done", "failed"}
ActiveStatus == {"pending", "processing"}

\* The source states of each target: the guard of the status UPDATE.
StatusReachableFrom ==
    [empty      |-> {"empty", "ready"},
     processing |-> {"processing", "empty", "ready", "error"},
     ready      |-> {"ready", "processing"},
     error      |-> {"error", "processing"}]

RepositoryInit ==
    /\ kbStatus = [v \in VectorDbs |-> "absent"]
    /\ documentCount = [v \in VectorDbs |-> 0]
    /\ jobStatus = [j \in Jobs |-> "none"]
    /\ attempts = [j \in Jobs |-> 0]
    /\ stale = {}

-----------------------------------------------------------------------------
Live(v) == kbStatus[v] \in VectorDbStatus
RowExists(j) == jobStatus[j] \in IngestionJobStatus
Active(j) == jobStatus[j] \in ActiveStatus
JobsOf(v) == {j \in Jobs : VectorDbOf[j] = v}

Create(v) ==
    /\ kbStatus[v] = "absent"
    /\ kbStatus' = [kbStatus EXCEPT ![v] = "empty"]
    /\ UNCHANGED <<documentCount, jobVars>>

Delete(v) ==
    /\ Live(v)
    /\ kbStatus' = [kbStatus EXCEPT ![v] = "deleted"]
    /\ UNCHANGED <<documentCount, jobVars>>

\* The guarded UPDATE matches the row; otherwise the method throws.
CanUpdateStatus(v, status) == kbStatus[v] \in StatusReachableFrom[status]

UpdateStatus(v, status) ==
    /\ CanUpdateStatus(v, status)
    /\ kbStatus' = [kbStatus EXCEPT ![v] = status]
    /\ UNCHANGED <<documentCount, jobVars>>

Idle(v) == \A j \in JobsOf(v) : ~Active(j)

\* Mutant: the UPDATE without NOT EXISTS.
SetVectorDbReady(v) ==
    /\ kbStatus' = IF kbStatus[v] = "processing"
                   THEN [kbStatus EXCEPT ![v] = "ready"]
                   ELSE kbStatus
    /\ UNCHANGED <<documentCount, jobVars>>

SetVectorDbReadyIfIdle(v) ==
    /\ kbStatus' = IF kbStatus[v] = "processing" /\ Idle(v)
                   THEN [kbStatus EXCEPT ![v] = "ready"]
                   ELSE kbStatus
    /\ UNCHANGED <<documentCount, jobVars>>

IncrementDocumentCount(v) ==
    /\ documentCount' = IF Live(v)
                        THEN [documentCount EXCEPT ![v] = @ + 1]
                        ELSE documentCount
    /\ UNCHANGED <<kbStatus, jobVars>>

\* GREATEST(document_count - 1, 0)
DecrementDocumentCount(v) ==
    /\ documentCount' = IF Live(v) /\ documentCount[v] > 0
                        THEN [documentCount EXCEPT ![v] = @ - 1]
                        ELSE documentCount
    /\ UNCHANGED <<kbStatus, jobVars>>

CreateIngestionJob(j) ==
    /\ jobStatus' = [jobStatus EXCEPT ![j] = "pending"]
    /\ UNCHANGED <<kbVars, attempts, stale>>

\* A DELETE of a row that is already gone deletes nothing, and succeeds.
DeleteIngestionJob(j) ==
    /\ jobStatus' = [jobStatus EXCEPT ![j] = "deleted"]
    /\ stale' = stale \ {j}
    /\ UNCHANGED <<kbVars, attempts>>

\* UPDATE ... WHERE id = $3: unconditional on the status it overwrites.
SetJobStatus(j, status) ==
    /\ jobStatus' = IF RowExists(j) THEN [jobStatus EXCEPT ![j] = status]
                                    ELSE jobStatus
    /\ stale' = stale \ {j}
    /\ UNCHANGED <<kbVars, attempts>>

IncrementJobAttempts(j) ==
    /\ attempts' = IF RowExists(j) THEN [attempts EXCEPT ![j] = @ + 1]
                                   ELSE attempts
    /\ stale' = stale \ {j}
    /\ UNCHANGED <<kbVars, jobStatus>>

FindReclaimableJobs ==
    {j \in Jobs : \/ jobStatus[j] = "pending"
                  \/ jobStatus[j] = "processing" /\ j \in stale}

\* Ten minutes pass without a write to a job that is being processed.
Age(j) ==
    /\ jobStatus[j] = "processing"
    /\ stale' = stale \cup {j}
    /\ UNCHANGED <<kbVars, jobStatus, attempts>>

RepositoryTypeOK ==
    /\ kbStatus \in [VectorDbs -> VectorDbStatus \cup {"absent", "deleted"}]
    /\ documentCount \in [VectorDbs -> Nat]
    /\ jobStatus \in [Jobs -> IngestionJobStatus \cup {"none", "deleted"}]
    /\ attempts \in [Jobs -> Nat]
    /\ stale \subseteq Jobs
=============================================================================
