---------------------------- MODULE MCEmbedWidget ----------------------------
(***************************************************************************)
(* Instances of EmbedWidget for TLC.                                       *)
(***************************************************************************)
EXTENDS EmbedWidget, TLC
CONSTANTS o1, p1, p2, k1, k2, n1, n2, a1, a2, a3, i1

OneOrganization == [p \in Projects |-> o1]
AskSymmetry == Permutations(Asks)

\* Bounds on interleavings.  Pages carry k1, and k2 only ever replaces it.
\* From the look-up of an ask to the end of its response the sites, the windows
\* and requests for the configuration rest (the ask reads none of them), and the
\* calendar and deletions of projects and organizations from its first chunk.
PagesCarryK1 == \A n \in Nodes : <<"key", k2>> \notin DOMAIN buckets[n]
OnItsWay(a) == wire[a] # <<>> \/ buffer[a] # <<>> \/ (stage[a] = "stream" /\ chunks[a] > 0)
PastLookUp(a) == stage[a] \in {"project", "count", "stream"}
Resting ==
    /\ (\E a \in Asks : OnItsWay(a)) => UNCHANGED <<siteVars, month>>
    /\ (\E a \in Asks : OnItsWay(a) \/ PastLookUp(a)) =>
          /\ UNCHANGED buckets \/ askVars' # askVars
          /\ UNCHANGED <<sites, issued, creating>> \/ projects' # projects
=============================================================================
