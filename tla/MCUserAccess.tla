---------------------------- MODULE MCUserAccess ----------------------------
(***************************************************************************)
(* A small instance of UserAccess for TLC: a superadmin s, a manager m of  *)
(* the organization o1, a user u that was invited to o1 as a manager and   *)
(* waits for its approval, and a user w that is not there yet.             *)
(***************************************************************************)
EXTENDS UserAccess, TLC

CONSTANTS s, m, u, w, o1, o2, t1, t2, t3, t4, r1, r2

MCApproval == s :> "approved" @@ m :> "approved" @@ u :> "pending" @@ w :> "absent"
MCPlatform == s :> "superadmin" @@ m :> "manager" @@ u :> "null" @@ w :> "null"
In1(role) == [o \in Orgs |-> IF o = o1 THEN role ELSE None]
MCMembers == s :> NoMembership @@ m :> In1("manager") @@ u :> In1("manager")
             @@ w :> NoMembership
MCOwner == t1 :> s @@ t2 :> m @@ t3 :> u @@ t4 :> None
MCActive == t1 :> None @@ t2 :> o1 @@ t3 :> o1 @@ t4 :> None

ManagerGrants == {"update", "setRole", "ban", "unban", "setPassword", "approve",
                  "reject", "create", "revokeSession", "revokeSessions"}
MCGrants == [x \in Roles |-> CASE x = "admin" -> Guarded
                               [] x = "manager" -> ManagerGrants
                               [] OTHER -> {}]

MCJoins == {<<u, o2, "member", TRUE>>, <<m, o1, "member", FALSE>>}

\* One operation of each kind: the others differ in the column they write.
DistinctOperations == AllOperations \ {"setPassword", "unban", "remove",
                                       "approve"}

\* Bounds: the requests overlap, have different callers, and what else
\* happens does so meanwhile.
InFlight == {r \in Requests : call[r].at # "idle"}
Overlapping ==
    /\ InFlight = {} => received = 0 /\ events' = events
    /\ \A q, r \in InFlight' : call'[q].actor = call'[r].actor => q = r

RequestSymmetry == Permutations(Requests)
=============================================================================
