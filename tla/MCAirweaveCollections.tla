----------------------- MODULE MCAirweaveCollections -----------------------
(***************************************************************************)
(* Two organizations.  The first has a project and creates collections;    *)
(* the second was given the legacy collection by the migration.            *)
(***************************************************************************)
EXTENDS AirweaveCollections, TLC

CONSTANTS o1, o2, p1, c1, old, k1, k2, s1, r1, r2

MCProjectOrg == (p1 :> o1)
MCSeed == (o1 :> {}) @@ (o2 :> {old})
RequestSymmetry == Permutations(Requests)
=============================================================================
