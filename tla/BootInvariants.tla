--------------------------- MODULE BootInvariants ---------------------------
(***************************************************************************)
(* What an interrupted boot leaves true.  A migration that is recorded has *)
(* been done and what it did lasts, because the migrations that could undo *)
(* it are recorded before it; of the one a node applies, each effect is    *)
(* there or its statement is still to be sent.                             *)
(***************************************************************************)
EXTENDS Boot

Has(d, name) == name \in d.recorded
Base ==
    On("user", Crud \cup {"ban", "impersonate", "set-role", "set-password"})
        \cup On("session", {"read", "revoke"}) \cup On("organization", Crud \cup {"invite"})
        \cup On("role", Crud \cup {"assign"})
\* the permissions a migration registers and grants to superadmin
Family(name) ==
    CASE name = "rbac_015" -> On("chat", {"read", "create", "stream", "delete"})
      [] name = "rbac_016" -> On("user", {"approve"})
      [] name = "rbac_018" -> On("dashboard", {"view"})
      [] name = "rbac_019" -> On("project", Crud \cup {"manage-sources"})
      [] name = "rbac_020" -> On("airweave", Crud \cup {"manage-sources"})
      [] name = "rbac_021" -> On("sql-connection", Crud)
      [] name = "rbac_022" -> On("vector-db", Crud)
      [] name = "rbac_024" -> On("vector-db", {"upload"})
      [] name = "rbac_025" -> On("embed-site", Crud)
      [] OTHER -> {}
\* the permissions a migration gives to the roles that hold another
Heirs(name, holding) ==
    CASE name = "rbac_021" /\ holding = CanUpdate -> On("sql-connection", {"create", "update", "delete"})
      [] name = "rbac_021" /\ holding = CanRead -> On("sql-connection", {"read"})
      [] name = "rbac_022" /\ holding = CanUpdate -> On("vector-db", {"create", "update", "delete"})
      [] name = "rbac_022" /\ holding = CanRead -> On("vector-db", {"read"})
      [] name = "rbac_024" /\ holding = CanUpdate -> On("vector-db", {"upload"})
      [] name = "rbac_025" /\ holding = CanUpdate -> On("embed-site", {"create", "update"})
      [] name = "rbac_025" /\ holding = CanRead -> On("embed-site", {"read"})
      [] OTHER -> {}

HoldsFamily(d, name) == \A p \in Family(name) : p \in d.grants[Superadmin]
Inherited(d, name, holding) ==
    \A r \in CustomRolesOf(d) : holding \in d.grants[r] => Heirs(name, holding) \subseteq d.grants[r]
HasSuperadmin(d) == Superadmin \in DOMAIN d.grants /\ Base \subseteq d.grants[Superadmin]
NoPlatformDefaults(d) == \A r \in DOMAIN d.grants : r[1] = Platform => r[2] \notin DefaultNames
DefaultRowsOf(d) == {r \in DOMAIN d.grants : r[2] \in DefaultNames}
NoOldNames(d) == \A r \in DOMAIN d.grants : r[2] \notin {"moderator", "user"}

LastingRoles(d) ==
    /\ Has(d, "rbac_002") \/ NoOldNames(d)
    /\ Has(d, "rbac_003") => Base \subseteq d.catalog
    /\ Has(d, "rbac_008") => HasSuperadmin(d) /\ NoPlatformDefaults(d)
    /\ \A name \in d.recorded : HoldsFamily(d, name)
    /\ Has(d, "rbac_017") => <<"organization", "manage-members">> \notin d.catalog
    /\ \A name \in d.recorded : Inherited(d, name, CanUpdate) /\ Inherited(d, name, CanRead)
    /\ \A r \in CustomRolesOf(d) : <<"embed-site", "delete">> \notin d.grants[r]
    /\ Has(d, "rbac_025") => \A r \in DefaultRowsOf(d) : d.grants[r] = DefaultsOf(r[2])

HasGeneral(d, o) == HasMembers(d, o) => o \in d.general /\ (o \in d.legacy => o \in d.sources)
HasAllowlist(d, o) == HasMembers(d, o) /\ o \in d.legacy => d.allowed[o] = "legacy"
InGeneral(d, o) == HasMembers(d, o) /\ o \in DOMAIN d.inProject => d.inProject[o] = "general"
Required(d) ==
    (\A o \in DOMAIN d.inProject : d.inProject[o] = "general")
        => "conversation.project_id required" \in d.schema

LastingProjects(d) ==
    /\ Has(d, "vector_db_002") => "org_vector_db.status_error" \in d.schema
    /\ Has(d, "projects_001b") => ("project" \in d.schema => "project name unique" \in d.schema)
    /\ Has(d, "projects_002") => \A o \in d.orgs : HasGeneral(d, o)
    /\ \A o \in d.legacy : d.allowed[o] # "empty"
    /\ Has(d, "projects_003") => \A o \in d.orgs : HasAllowlist(d, o)
    /\ Has(d, "projects_004") => "project_data_source" \in d.schema
    /\ Has(d, "chat_003") => {"project", "conversation.project_id"} \subseteq d.schema
    /\ Has(d, "chat_004") => \A o \in d.orgs : InGeneral(d, o)
    /\ Has(d, "chat_005") => Required(d)

\* Every service records its migrations in their order, and chat its third
\* one after all of the projects'.
InOneService(i, j) == \E S \in {RbacPlan, ProjectPlan, ChatPlan} : i \in S /\ j \in S
RecordedInOrder(d) ==
    /\ \A j \in DOMAIN BootPlan : \A i \in 1 .. j - 1 :
          InOneService(i, j) /\ Has(d, BootPlan[j].name) => Has(d, BootPlan[i].name)
    /\ Has(d, "chat_003") => Has(d, "projects_004")

\* A database that was left by earlier releases.
Sound(d) == IsDatabase(d) /\ RecordedInOrder(d) /\ LastingRoles(d) /\ LastingProjects(d)

\* Whatever a database of an earlier release has recorded, it has done.
ASSUME DeploymentsAreSound == \A d \in Deployments : Sound(d)

(***************************************************************************)
(* The i-th migration, t what it has still to send to the database d.      *)
(***************************************************************************)
Pending(t, s) == \E k \in DOMAIN t : t[k] = s
PendingPair(t, r, s) == \E k \in 1 .. Len(t) - 1 : t[k] = r /\ t[k + 1] = s
Starting(i, t) == t = BootPlan[i].up

\* The role r is still to be set to its defaults, and by what.
Syncs(s, r, how) ==
    \/ s.do = how /\ s.role = r
    \/ s.do = "organizations"
    \/ s.do = "for each" /\ r[1] \in s.orgs
WillSync(t, r, how) == \E k \in DOMAIN t : Syncs(t[k], r, how)

GivesSuperadmin(t, d) ==
    /\ Pending(t, Sql("drop platform roles")[1]) \/ NoPlatformDefaults(d)
    /\ \/ PendingPair(t, InsertRole(Superadmin)[1], GrantSuperadmin(Every)[1])
       \/ Superadmin \in DOMAIN d.grants /\ Pending(t, GrantSuperadmin(Every)[1])
       \/ HasSuperadmin(d)
GivesFamily(i, t, d) ==
    LET name == BootPlan[i].name
    IN /\ Starting(i, t) \/ Family(name) \subseteq d.catalog
       /\ Pending(t, GrantSuperadmin(Family(name))[1]) \/ HoldsFamily(d, name)
GivesHeirs(i, t, d) ==
    LET name == BootPlan[i].name
    IN \A holding \in {CanUpdate, CanRead} :
          Pending(t, Inherit(holding, Heirs(name, holding))[1]) \/ Inherited(d, name, holding)
SyncsDefaults(t, d) ==
    \A r \in DefaultRowsOf(d) :
        /\ WillSync(t, r, "restrict") \/ d.grants[r] \subseteq DefaultsOf(r[2])
        /\ WillSync(t, r, "grant") \/ DefaultsOf(r[2]) \subseteq d.grants[r]

RolesAdvance(i, t, d) ==
    /\ i = 13 => Starting(i, t) \/ Base \subseteq d.catalog
    /\ i = 18 => GivesSuperadmin(t, d)
    /\ i = 27 => \/ Pending(t, Unregister(On("organization", {"manage-members"}))[2])
                 \/ <<"organization", "manage-members">> \notin d.catalog
    /\ GivesFamily(i, t, d)
    /\ GivesHeirs(i, t, d)
    /\ i = 35 => SyncsDefaults(t, d)

\* The last two statements of vector_db_002; the column is dropped before them.
RestoresStatusError(t, d) ==
    LET Last == AddSchemaImprovements[8]
    IN \/ Len(t) > 1 /\ t[Len(t)] = Last /\ t[Len(t) - 1] = AddSchemaImprovements[7]
       \/ t \in {<<>>, <<Last>>} /\ "org_vector_db.status_error" \in d.schema

General(o) == [do |-> "general", org |-> o]
AttachLegacy(o) == [do |-> "attach legacy", org |-> o]
WillVisit(t, o, what) ==
    \E k \in DOMAIN t : t[k].do = what \/ (t[k].do = "for each" /\ o \in t[k].orgs)
BackfillsProject(t, d, o) ==
    \/ WillVisit(t, o, "backfill organizations")
    \/ Pending(t, General(o)) /\ (o \in d.legacy => PendingPair(t, General(o), AttachLegacy(o)))
    \/ o \in d.general /\ (o \in d.legacy => Pending(t, AttachLegacy(o)) \/ o \in d.sources)
AllowsOwn(s, d) == s.do = "allow" => s.value = IF s.org \in d.legacy THEN "legacy" ELSE "empty"
SeedsAllowlist(t, d, o) ==
    \/ WillVisit(t, o, "seed allowlists")
    \/ \E k \in DOMAIN t : t[k].do = "allow" /\ t[k].org = o
    \/ d.allowed[o] = "legacy"

ProjectsAdvance(i, t, d) ==
    /\ i = 39 => RestoresStatusError(t, d)
    /\ i = 43 => \/ Starting(i, t) \/ Pending(t, Alter({"project"}, {"project name unique"}, {})[1])
                 \/ ("project" \in d.schema => "project name unique" \in d.schema)
    /\ i = 45 => \A o \in d.orgs : HasMembers(d, o) => BackfillsProject(t, d, o)
    /\ i = 46 => \A o \in d.orgs \cap d.legacy : HasMembers(d, o) => SeedsAllowlist(t, d, o)
    /\ \A k \in DOMAIN t : AllowsOwn(t[k], d)
    /\ i = 47 => Starting(i, t) \/ "project_data_source" \in d.schema
    /\ i = 50 => Starting(i, t) \/ {"project", "conversation.project_id"} \subseteq d.schema
    /\ i = 51 => Starting(i, t) \/ \A o \in d.orgs : InGeneral(d, o)
    /\ i = 52 => Starting(i, t) \/ Required(d)

(***************************************************************************)
(* The invariants.                                                         *)
(***************************************************************************)
OneMigrates == \A m, n \in Nodes : IsBooting(m) /\ IsBooting(n) => m = n
Behind(i, d) == \A j \in DOMAIN BootPlan : j < i => Has(d, BootPlan[j].name)
Walked == \A n \in Nodes : IsBooting(n) => Behind(at[n], db)
NotYetRecorded == \A n \in Nodes : applying[n] => ~Has(db, BootPlan[at[n]].name)
Advance ==
    \A n \in Nodes :
        applying[n] => RolesAdvance(at[n], todo[n], db) /\ ProjectsAdvance(at[n], todo[n], db)

BootInv ==
    /\ TypeOK /\ Sound(db)
    /\ OneMigrates /\ Walked /\ NotYetRecorded /\ Advance
\* No boot renames a role that clients know by its name.
NoRename ==
    NoOldNames(db) \/ (Has(db, "rbac_002") /\ \A n \in Nodes : applying[n] => at[n] # 12)
=============================================================================
