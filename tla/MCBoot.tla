------------------------------- MODULE MCBoot -------------------------------
(***************************************************************************)
(* Databases for Boot: an empty one, one that Better Auth's own tools made *)
(* before the migrations were tracked, and those that earlier releases     *)
(* left, which are computed by applying the first migrations of the plan.  *)
(***************************************************************************)
EXTENDS BootInvariants, TLC
CONSTANTS n1, n2, o1, o2, dflt, root, plain

MCNodes == {n1}
MCReplicas == {n1, n2}
MCOrganizations == {o1, o2, dflt}
MCUsers == {root, plain}

Fresh ==
    [recorded |-> {}, schema |-> {}, catalog |-> {}, grants |-> <<>>, orgs |-> {},
     userRole |-> [u \in Users |-> "none"], roleDefault |-> "none",
     memberRole |-> [u \in Users |-> "none"], approved |-> Users,
     legacy |-> {}, allowed |-> [o \in Organizations |-> "unset"],
     general |-> {}, sources |-> {}, inProject |-> <<>>]

\* Better Auth tables with users and an organization, no tracking
Untracked ==
    [Fresh EXCEPT !.schema = {"user", "session", "account", "verification", "jwks",
                              "organization", "member", "invitation"},
                  !.orgs = {o1}, !.approved = {}, !.legacy = {o1},
                  !.userRole = (root :> "superadmin" @@ plain :> "user"),
                  !.memberRole = (root :> "owner" @@ plain :> "member")]

\* A crash-free run of some migrations
RECURSIVE Apply(_, _)
Apply(stmts, d) ==
    IF stmts = <<>> \/ DOMAIN d = {} THEN d
    ELSE Apply(Following(Head(stmts), d) \o Tail(stmts), Effect(Head(stmts), d))
RECURSIVE Install(_, _)
Install(list, d) ==
    IF list = <<>> \/ DOMAIN d = {} THEN d
    ELSE Install(Tail(list), [Apply(Head(list).up, d) EXCEPT !.recorded = @ \cup {Head(list).name}])

\* A client adds an organization (AdminOrgDatabaseRepository.seedDefaultRoles) ...
ClientManager ==
    On("organization", {"read", "update", "invite"}) \cup On("role", {"read"})
        \cup On("session", {"read", "revoke"}) \cup On("user", {"create", "read", "update"})
WithClientOrg(d) ==
    LET e == Assign(WithRoles(d, OrgRoles(o2)), {<<o2, "admin">>}, Every)
    IN [Assign(Assign(e, {<<o2, "manager">>}, ClientManager), {<<o2, "member">>}, {CanRead})
          EXCEPT !.orgs = @ \cup {o2}]
\* ... and a custom role
WithCustomRole(d, perms) == Assign(WithRoles(d, {<<o1, "custom">>}), {<<o1, "custom">>}, perms)
CustomGrants ==
    {{CanRead}, {CanUpdate}, {CanRead, CanUpdate, <<"project", "read">>}}

\* The database of a release with the first k RBAC migrations, k >= 16: the
\* custom role is older than rbac_021, projects and chat as chat tells.
Earlier(k, perms, chat) ==
    LET core == Install(CoreMigrationList \o SubSeq(RbacMigrationList, 1, 16), Untracked)
        rbac == Install(SubSeq(RbacMigrationList, 17, k), WithCustomRole(core, perms))
        rows == [rbac EXCEPT !.inProject = (o1 :> "none")]
    IN WithClientOrg(
         CASE chat = "none" -> rbac
           [] chat = "before projects" -> Install(SubSeq(ChatMigrationList, 1, 1), rows)
           [] chat = "stale projects" ->
                [Install(SubSeq(ProjectMigrationList, 1, 1) \o SubSeq(ChatMigrationList, 1, 2), rows)
                   EXCEPT !.schema = @ \cup {"project.discovery"}])

MCDeployments ==
    {Fresh, Untracked}
        \cup {Earlier(k, perms, "stale projects") : k \in {16, 20}, perms \in CustomGrants}
        \cup {Earlier(22, perms, "before projects") : perms \in CustomGrants}
        \cup {Earlier(24, {CanRead}, "none")}
MCFresh == {Fresh}
=============================================================================
