----------------------------- MODULE MCChatTurns -----------------------------
(***************************************************************************)
(* Small instances of ChatTurns for TLC.                                   *)
(***************************************************************************)
EXTENDS ChatTurns, TLC

CONSTANTS t1, t2, n1, n2, p1, p2, p3, k1, k2, c1

PoolSymmetry == Permutations(Pools) \cup Permutations(Calls)
=============================================================================
