-------------------------- MODULE VectorDbLifecycle --------------------------
(***************************************************************************)
(* What a knowledge base promises its readers, without queue, handlers or  *)
(* nodes: it moves along the status table, and it is declared ready only   *)
(* when none of its files is open (accepted and not yet settled).          *)
(***************************************************************************)
CONSTANTS VectorDbs, Jobs, VectorDbOf
VARIABLES status, open

vars == <<status, open>>

Move(v, from, to) ==
    /\ status[v] \in from
    /\ status' = [status EXCEPT ![v] = to]
    /\ UNCHANGED open

StartProcessing(v) == Move(v, {"empty", "ready", "error"}, "processing")
BecomeReady(v) ==
    /\ \A j \in open : VectorDbOf[j] # v
    /\ Move(v, {"processing"}, "ready")
BecomeError(v) == Move(v, {"processing"}, "error")
Add(v) == Move(v, {"absent"}, "empty")
Remove(v) == Move(v, {"empty", "processing", "ready", "error"}, "deleted")

\* A file is accepted, reopened by a late delivery, settled or withdrawn.
Open(j) == open' = open \cup {j} /\ UNCHANGED status
Close(j) == open' = open \ {j} /\ UNCHANGED status

Init == status = [v \in VectorDbs |-> "absent"] /\ open = {}

Next ==
    \/ \E v \in VectorDbs :
          \/ Add(v) \/ StartProcessing(v) \/ BecomeReady(v)
          \/ BecomeError(v) \/ Remove(v)
    \/ \E j \in Jobs : Open(j) \/ Close(j)

Spec == Init /\ [][Next]_vars
=============================================================================
