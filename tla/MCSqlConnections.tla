--------------------------- MODULE MCSqlConnections ---------------------------
(***************************************************************************)
(* Small instances of SqlConnections for TLC.                              *)
(***************************************************************************)
EXTENDS SqlConnections, TLC

CONSTANTS c1, c2, w1, w2, k1, k2, k3, u1, u2, t1, t2, p1, s1, r1, r2

KeySymmetry == Permutations(Keys) \cup Permutations(Passwords)
                  \cup Permutations(Upgrades) \cup Permutations(Requests)
=============================================================================
