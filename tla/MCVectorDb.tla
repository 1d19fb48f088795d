------------------------------ MODULE MCVectorDb ------------------------------
(***************************************************************************)
(* Small instances of VectorDbService for TLC: one knowledge base, two     *)
(* files, up to two nodes, and a budget for each kind of fault.            *)
(***************************************************************************)
EXTENDS VectorDbInvariants, TLC

CONSTANTS v1, j1, j2, n1, n2, h1, h2, r1, r2, m1, m2, m3

OneVectorDb == [j \in Jobs |-> v1]
OneNode == [x \in Slots \cup Requests |-> n1]
TwoNodes == [x \in Slots \cup Requests |-> IF x \in {h2, r2} THEN n2 ELSE n1]

Budget(crashes, queries, timeouts, requests) ==
    [crash |-> crashes, database |-> queries,
     timeout |-> timeouts, request |-> requests]
NoFaults == Budget(0, 0, 0, 0)
OneCrash == Budget(1, 0, 0, 0)
OneQueryFault == Budget(0, 1, 0, 0)
Faulty == Budget(0, 1, 1, 1)

MessageSymmetry == Permutations(Messages)
=============================================================================
