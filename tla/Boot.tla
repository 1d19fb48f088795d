-------------------------------- MODULE Boot --------------------------------
(***************************************************************************)
(* Nodes that boot: each runs the tracked migrations of BootPlan against   *)
(* the one database.  A migration is looked up in _migrations, applied     *)
(* statement by statement and recorded, in steps of their own and without  *)
(* a lock or a transaction; a node may stop between any two steps, and     *)
(* what it did stays.                                                      *)
(***************************************************************************)
EXTENDS SchemaMigrations, Integers

CONSTANTS
    Nodes,        \* processes of the application
    Deployments,  \* databases a node of this release may find
    Users,        \* users of the deployments
    Organizations,  \* ids of organizations
    Default,      \* the organization rbac_013 inserts
    Serialized    \* docs/architecture.md: one node at a time runs migrations

ASSUME BootAssumption ==
    /\ Default \in Organizations
    /\ Serialized \in BOOLEAN
    /\ Platform \notin Organizations

VARIABLES
    db,    \* the database
    at,    \* where a node is: Down, an index of BootPlan, Ready or Failed
    applying,  \* is the node inside up() of that migration?
    todo   \* the statements up() has still to send

vars == <<db, at, applying, todo>>

(***************************************************************************)
(* What a statement does to a database d.                                  *)
(*   recorded    _migrations                                               *)
(*   schema      facts about tables, columns, constraints                  *)
(*   catalog     the permissions table                                     *)
(*   grants      role rows, each with its permissions                      *)
(*   orgs        organization                                              *)
(*   userRole    user.role                 roleDefault  its column default *)
(*   memberRole  member.role of the one legacy organization, or "none"     *)
(*   approved    users that are not pending                                *)
(*   legacy      organizations whose metadata names an Airweave collection *)
(*   allowed     metadata.allowedAirweaveCollectionIds: "unset", "legacy"  *)
(*               (that collection alone) or "empty"                        *)
(*   general     organizations with a project 'General'                    *)
(*   sources     of those, the ones with the legacy collection attached    *)
(*   inProject   conversations: "none" or "general", per organization      *)
(***************************************************************************)
HasMembers(d, o) == o # Default /\ \E u \in Users : d.memberRole[u] # "none"
Present(d, perms) == IF perms = Every THEN d.catalog ELSE perms \cap d.catalog

Assign(d, roles, perms) ==
    [d EXCEPT !.grants = [r \in DOMAIN @ |-> IF r \in roles THEN @[r] \cup Present(d, perms) ELSE @[r]]]
WithRoles(d, roles) ==
    [d EXCEPT !.grants = [r \in DOMAIN @ \cup roles |-> IF r \in DOMAIN @ THEN @[r] ELSE {}]]
Renamed(f, from, to) == [u \in DOMAIN f |-> IF f[u] \in from THEN to ELSE f[u]]
OrgRoles(o) == {<<o, name>> : name \in DefaultNames}

\* rbac_002: not when a role of the new name exists already
RenameRoleRow(d, from, to) ==
    IF \E r \in DOMAIN d.grants : r[2] = to
      THEN d
      ELSE [d EXCEPT !.grants =
              [r \in {IF q[2] = from THEN <<q[1], to>> ELSE q : q \in DOMAIN @} |->
                 IF r[2] = to THEN @[<<r[1], from>>] ELSE @[r]]]

\* rbac_013, the transaction after the insert of the organization
SeedRoles(d) ==
    LET seeded == Assign(WithRoles(d, OrgRoles(Default)), {<<Default, "admin">>}, Every)
    IN Assign(Assign(seeded, {<<Default, "manager">>}, ManagerDefaults),
              {<<Default, "member">>}, {CanRead, <<"project", "read">>})

RbacEffect(s, d) ==
    CASE s.do = "register" -> [d EXCEPT !.catalog = @ \cup s.perms]
      [] s.do = "unregister" ->  \* role_permissions refers to permissions ON DELETE CASCADE
           [d EXCEPT !.catalog = @ \ s.perms, !.grants = [r \in DOMAIN @ |-> @[r] \ s.perms]]
      [] s.do = "unassign" -> [d EXCEPT !.grants = [r \in DOMAIN @ |-> @[r] \ s.perms]]
      [] s.do = "role" -> WithRoles(d, {s.role})
      [] s.do = "grant" -> Assign(d, {s.role}, s.perms)
      [] s.do = "restrict" ->
           [d EXCEPT !.grants = [r \in DOMAIN @ |-> IF r = s.role THEN @[r] \cap s.perms ELSE @[r]]]
      [] s.do = "inherit" ->
           Assign(d, {r \in DOMAIN d.grants : s.holding \in d.grants[r]}, s.perms)
      [] s.do = "admins manage members" ->
           Assign(d, {r \in DOMAIN d.grants : r[1] # Platform /\ r[2] = "admin"},
                  On("organization", {"manage-members"}))
      [] s.do = "rename role" -> RenameRoleRow(d, s.old, s.new)
      [] s.do = "drop platform roles" ->
           [d EXCEPT !.grants = [r \in DOMAIN @ \ OrgRoles(Platform) |-> @[r]]]
      [] s.do = "seed organization" -> [d EXCEPT !.orgs = @ \cup {Default}]
      [] s.do = "seed roles" -> SeedRoles(d)
      [] OTHER -> d

UserEffect(s, d) ==
    CASE s.do = "platform role" -> [d EXCEPT !.userRole = Renamed(@, s.from, s.to)]
      [] s.do = "member role" -> [d EXCEPT !.memberRole = Renamed(@, s.from, s.to)]
      [] s.do = "role default" -> [d EXCEPT !.roleDefault = s.to]
      [] s.do = "remove superadmin members" ->
           [d EXCEPT !.memberRole =
              [u \in Users |-> IF d.userRole[u] = "superadmin" THEN "none" ELSE @[u]]]
      [] s.do = "approve pending users" -> [d EXCEPT !.approved = Users]
      [] OTHER -> d

FactsOfProject ==
    {"project", "project.created_by_user_id", "project name unique",
     "project.airweave_collection_id", "project.discovery", "project.data_collection"}

SchemaEffect(s, d) ==
    CASE s.do = "create rbac tables" ->
           [d EXCEPT !.schema = @ \cup {"roles", "permissions", "role_permissions"}]
      [] s.do = "scope roles" -> [d EXCEPT !.schema = @ \cup {"roles.organization_id"}]
      [] s.do = "create" ->
           IF s.table \in d.schema THEN d ELSE [d EXCEPT !.schema = @ \cup s.adds]
      [] s.do = "alter" -> [d EXCEPT !.schema = (@ \ s.drops) \cup s.adds]
      [] s.do = "drop project_data_source" ->
           [d EXCEPT !.schema = @ \ {"project_data_source"}, !.sources = {}]
      [] s.do = "drop project" ->
           [d EXCEPT !.schema = @ \ FactsOfProject, !.general = {}]
      [] OTHER -> d

\* chat_004 and chat_005: NOT NULL is enforced when no row contradicts it
ProjectEffect(s, d) ==
    CASE s.do = "general" ->
           IF HasMembers(d, s.org) THEN [d EXCEPT !.general = @ \cup {s.org}] ELSE d
      [] s.do = "attach legacy" ->
           IF s.org \in d.general THEN [d EXCEPT !.sources = @ \cup {s.org}] ELSE d
      [] s.do = "allow" -> [d EXCEPT !.allowed[s.org] = s.value]
      [] s.do = "drop conversation.project_id" ->
           [d EXCEPT !.schema = @ \ {"conversation.project_id", "conversation.project_id required"},
                     !.inProject = [o \in DOMAIN @ |-> "none"]]
      [] s.do = "backfill conversations" ->
           [d EXCEPT !.inProject = [o \in DOMAIN @ |-> IF o \in d.general THEN "general" ELSE @[o]]]
      [] s.do = "require conversation.project_id" ->
           IF \E o \in DOMAIN d.inProject : d.inProject[o] = "none"
             THEN d
             ELSE [d EXCEPT !.schema = @ \cup {"conversation.project_id required"}]
      [] OTHER -> d

Effect(s, d) == ProjectEffect(s, SchemaEffect(s, UserEffect(s, RbacEffect(s, d))))

\* PostgreSQL refuses a statement about a table or column that does not exist
Possible(s, d) ==
    CASE s.do \in {"create", "alter"} -> s.needs \subseteq d.schema
      [] s.do \in {"general", "backfill conversations"} -> "project" \in d.schema
      [] s.do = "attach legacy" -> "project_data_source" \in d.schema
      [] OTHER -> TRUE

(***************************************************************************)
(* What follows a statement: the loop over the rows a SELECT returned, a   *)
(* round of it and then the others, or the rest of a function that did not *)
(* return early.                                                           *)
(***************************************************************************)
\* Mutant: an organization that has its project is taken to be done.
BackfillUnlessThere(d, o) ==
    IF o \in d.general THEN <<>>
    ELSE <<[do |-> "general", org |-> o]>>
           \o (IF o \in d.legacy /\ HasMembers(d, o) THEN <<[do |-> "attach legacy", org |-> o]>> ELSE <<>>)

BackfillGeneral(d, o) ==
    <<[do |-> "general", org |-> o]>>
        \o (IF o \in d.legacy /\ HasMembers(d, o) THEN <<[do |-> "attach legacy", org |-> o]>> ELSE <<>>)
SeedAllowlist(d, o) ==
    <<[do |-> "allow", org |-> o, value |-> IF o \in d.legacy THEN "legacy" ELSE "empty"]>>

\* for (const organization of organizations): those that are still to come
Loop(body, orgs, names) == <<[do |-> "for each", body |-> body, orgs |-> orgs, names |-> names]>>
LoopBody(s, o, d) ==
    CASE s.body = "sync" -> SyncScope(o, s.names)
      [] s.body = "redesign" -> RedesignScope(o)
      [] s.body = "backfill" -> BackfillGeneral(d, o)
      [] s.body = "allow" -> SeedAllowlist(d, o)
Unroll(s, d) ==
    LET o == CHOOSE o \in s.orgs : TRUE
    IN LoopBody(s, o, d) \o Loop(s.body, s.orgs \ {o}, s.names)

Following(s, d) ==
    CASE s.do = "organizations" -> Loop("sync", d.orgs, s.names)
      [] s.do = "redesign organizations" -> Loop("redesign", d.orgs, {})
      [] s.do = "for each" -> IF s.orgs = {} THEN <<>> ELSE Unroll(s, d)
      [] s.do = "seed organization" -> IF Default \in d.orgs THEN <<>> ELSE Sql("seed roles")
      [] s.do = "unless" -> IF s.facts \subseteq d.schema THEN <<>> ELSE s.then
      [] s.do = "if one of" -> IF s.facts \cap d.schema = {} THEN <<>> ELSE s.then
      [] s.do = "backfill organizations" -> Loop("backfill", d.orgs, {})
      [] s.do = "seed allowlists" -> Loop("allow", {o \in d.orgs : d.allowed[o] = "unset"}, {})
      [] OTHER -> <<>>

(***************************************************************************)
(* The runner.                                                             *)
(***************************************************************************)
Down == 0
Ready == Len(BootPlan) + 1
Failed == Len(BootPlan) + 2
Idle == {Down, Failed}
IsBooting(n) == at[n] \notin Idle /\ at[n] # Ready
IsReady(n) == at[n] = Ready

Init ==
    /\ db \in Deployments
    /\ at = [n \in Nodes |-> Down]
    /\ applying = [n \in Nodes |-> FALSE]
    /\ todo = [n \in Nodes |-> <<>>]

Boot(n) ==
    /\ at[n] \in Idle
    /\ Serialized => \A m \in Nodes : ~IsBooting(m)
    /\ at' = [at EXCEPT ![n] = 1]
    /\ UNCHANGED <<db, applying, todo>>

\* hasMigrationRun, and up() when it has not
CheckMigration(n) ==
    /\ IsBooting(n) /\ ~applying[n]
    /\ IF BootPlan[at[n]].name \in db.recorded
         THEN at' = [at EXCEPT ![n] = @ + 1] /\ UNCHANGED <<applying, todo>>
         ELSE /\ applying' = [applying EXCEPT ![n] = TRUE]
              /\ todo' = [todo EXCEPT ![n] = BootPlan[at[n]].up]
              /\ UNCHANGED at
    /\ UNCHANGED db

ApplyStatement(n) ==
    /\ IsBooting(n) /\ applying[n] /\ todo[n] # <<>>
    /\ LET s == Head(todo[n])
       IN /\ Possible(s, db)
          /\ db' = Effect(s, db)
          /\ todo' = [todo EXCEPT ![n] = Following(s, db) \o Tail(@)]
    /\ UNCHANGED <<at, applying>>

\* Mutant: the next boot finds what was left to do.
LeaveUnfinished(n, how) ==
    /\ at' = [at EXCEPT ![n] = how]
    /\ applying' = [applying EXCEPT ![n] = FALSE]
    /\ UNCHANGED <<db, todo>>

Leave(n, how) ==
    /\ at' = [at EXCEPT ![n] = how]
    /\ applying' = [applying EXCEPT ![n] = FALSE]
    /\ todo' = [todo EXCEPT ![n] = <<>>]
    /\ UNCHANGED db

\* The exception leaves onModuleInit and the process ends.
FailStatement(n) ==
    /\ IsBooting(n) /\ applying[n] /\ todo[n] # <<>>
    /\ ~Possible(Head(todo[n]), db)
    /\ Leave(n, Failed)

RecordMigration(n) ==
    /\ IsBooting(n) /\ applying[n] /\ todo[n] = <<>>
    /\ db' = [db EXCEPT !.recorded = @ \cup {BootPlan[at[n]].name}]
    /\ at' = [at EXCEPT ![n] = @ + 1]
    /\ applying' = [applying EXCEPT ![n] = FALSE]
    /\ UNCHANGED todo

\* A crash during the boot, or the end of a process that serves
Stop(n) == at[n] \notin Idle /\ Leave(n, Down)

Next ==
    \E n \in Nodes :
        \/ Boot(n) \/ CheckMigration(n) \/ ApplyStatement(n) \/ FailStatement(n)
        \/ RecordMigration(n) \/ Stop(n)

Spec == Init /\ [][Next]_vars

(***************************************************************************)
(* What databases and statements there are.                                *)
(***************************************************************************)
Phantoms == On("project", Crud \cup {"manage-sources"}) \cup On("organization", {"manage-members"})
Catalogue == AdminDefaults \cup On("organization", {"create", "manage-members"})
Tables ==
    {"user", "session", "account", "verification", "jwks", "organization", "member", "invitation",
     "roles", "permissions", "role_permissions", "project", "project_data_source", "conversation",
     "message", "org_sql_connection", "org_vector_db", "vector_db_ingestion_job", "embed_site",
     "embed_usage_counter"}
Facts ==
    Tables \cup FactsOfProject
        \cup {"user.approvalStatus", "user.rejectionReason", "user role checked", "jwks.expiresAt",
              "member roles checked", "invitation roles checked", "roles.is_system",
              "roles.is_default", "roles.organization_id", "conversation.project_id",
              "conversation.project_id required", "org_sql_connection.allowed_tables",
              "org_vector_db.qdrant_collection", "org_vector_db.vector_store_ref",
              "org_vector_db.status_error", "org_vector_db.status_error_new", "org_vector_db.version"}
RoleNames == {"superadmin", "admin", "manager", "member", "moderator", "user", "owner", "none"}
Scopes == Organizations \cup {Platform}
DefaultRows == Scopes \X DefaultNames

IsDatabase(d) ==
    /\ d = [recorded |-> d.recorded, schema |-> d.schema, catalog |-> d.catalog, grants |-> d.grants,
            orgs |-> d.orgs, userRole |-> d.userRole, roleDefault |-> d.roleDefault,
            memberRole |-> d.memberRole, approved |-> d.approved, legacy |-> d.legacy,
            allowed |-> d.allowed, general |-> d.general, sources |-> d.sources,
            inProject |-> d.inProject]
    /\ d.recorded \subseteq {BootPlan[i].name : i \in DOMAIN BootPlan}
    /\ d.schema \subseteq Facts /\ d.catalog \subseteq Catalogue
    /\ d.orgs \cup d.legacy \cup d.general \cup d.sources \cup DOMAIN d.inProject \subseteq Organizations
    /\ d.grants = [r \in DOMAIN d.grants |-> d.grants[r]]
    /\ \A r \in DOMAIN d.grants :
          /\ r = <<r[1], r[2]>> /\ r[1] \in d.orgs \cup {Platform}
          /\ d.grants[r] \subseteq d.catalog
    /\ d.memberRole = [u \in Users |-> d.memberRole[u]]
    /\ d.userRole = [u \in Users |-> d.userRole[u]]
    /\ d.allowed \in [Organizations -> {"unset", "legacy", "empty"}]
    /\ d.inProject \in [DOMAIN d.inProject -> {"none", "general"}]

\* DDL, and statements about users, roles and permissions, organizations and projects
Ddl ==
    [do : {"create"}, table : Tables, needs : SUBSET Facts, adds : SUBSET Facts]
        \cup [do : {"alter"}, needs : SUBSET Facts, adds : SUBSET Facts, drops : SUBSET Facts]
        \cup [do : {"create rbac tables", "scope roles"}]
UserStatements ==
    [do : {"platform role", "member role"}, from : SUBSET RoleNames, to : RoleNames]
        \cup [do : {"role default"}, to : RoleNames]
        \cup [do : {"remove superadmin members", "approve pending users"}]
RoleStatements ==
    [do : {"register"}, perms : SUBSET Catalogue]
        \cup [do : {"unassign", "unregister"}, perms : SUBSET Phantoms]
        \cup [do : {"role"}, role : DefaultRows \cup {Superadmin}]
        \cup [do : {"grant"}, role : DefaultRows \cup {Superadmin}, perms : SUBSET (Catalogue \cup Every)]
        \cup [do : {"restrict"}, role : DefaultRows, perms : SUBSET Catalogue]
        \cup [do : {"inherit"}, holding : {CanUpdate, CanRead}, perms : SUBSET AdminDefaults]
        \cup [do : {"rename role"}, old : {"moderator", "user"}, new : {"manager", "member"}]
        \cup [do : {"admins manage members", "drop platform roles", "redesign organizations",
                    "seed organization", "seed roles"}]
        \cup [do : {"organizations"}, names : SUBSET DefaultNames]
TableDrops == [do : {"drop project_data_source", "drop project"}]
ProjectStatements ==
    TableDrops
        \cup [do : {"backfill organizations", "seed allowlists", "drop conversation.project_id",
                    "backfill conversations", "require conversation.project_id"}]
        \cup [do : {"general", "attach legacy"}, org : Organizations]
        \cup [do : {"allow"}, org : Organizations, value : {"legacy", "empty"}]
Loops ==
    [do : {"for each"}, body : {"sync", "redesign", "backfill", "allow"},
     orgs : SUBSET Organizations, names : SUBSET DefaultNames]
Simple == Ddl \cup UserStatements \cup RoleStatements \cup ProjectStatements \cup Loops
Conditional == [do : {"unless", "if one of"}, facts : SUBSET Facts, then : Seq(Ddl \cup TableDrops)]
Statements == Simple \cup Conditional

(***************************************************************************)
(* Which statements the i-th migration of BootPlan sends to a database     *)
(* that holds the organizations orgs.                                      *)
(***************************************************************************)
RbacPlan == 11 .. 35
ProjectPlan == 41 .. 47
ChatPlan == 48 .. 52
Kept ==
    {"project", "project_data_source", "project name unique", "conversation.project_id",
     "conversation.project_id required", "org_vector_db.status_error"}

SentBy(s, i, orgs) ==
    /\ s \in RoleStatements => i \in RbacPlan
    /\ s.do = "rename role" => i = 12
    /\ s.do = "role" => i = 13 \/ (i = 18 /\ s.role \in Organizations \X DefaultNames \cup {Superadmin})
    /\ s.do = "role" => s.role[1] \in orgs \cup {Platform}
    /\ s.do \in {"drop platform roles", "redesign organizations"} => i = 18
    /\ s.do = "register" /\ <<"organization", "manage-members">> \in s.perms => i = 21
    /\ s.do = "admins manage members" => i = 21
    /\ s.do \in {"seed organization", "seed roles"} => i = 23
    /\ s.do = "seed roles" => Default \in orgs
    /\ s.do \in {"unassign", "unregister"} => i = 27
    /\ s.do = "restrict" => s.perms = DefaultsOf(s.role[2])
    /\ s.do = "grant" /\ i > 18 /\ s.role # Superadmin => s.perms = DefaultsOf(s.role[2])
    /\ s.do = "inherit" => /\ s.perms \cap {CanUpdate, CanRead, <<"embed-site", "delete">>} = {}
                           /\ i = 35 => s \in {Inherit(CanUpdate, On("embed-site", {"create", "update"}))[1],
                                               Inherit(CanRead, On("embed-site", {"read"}))[1]}
    /\ s.do = "organizations" /\ i = 35 => s.names = DefaultNames
    /\ s.do = "for each" =>
          /\ s.body = "sync" => i \in RbacPlan /\ (i = 35 => s.names = DefaultNames)
          /\ s.body = "redesign" => i = 18
          /\ s.body = "backfill" => i = 45
          /\ s.body = "allow" => i = 46
          /\ s.orgs \subseteq orgs
    /\ s.do \in {"create", "alter"} /\ "project" \in s.adds =>
          i \in {41, 42, 44} /\ "project name unique" \in s.adds
    /\ s.do = "alter" /\ s.drops \cap Kept # {} => i = 39 /\ s.drops \cap Kept = {"org_vector_db.status_error"}
    /\ s.do = "member role" => s.to # "none" /\ "none" \notin s.from
    /\ s.do \in {"drop project_data_source", "drop project"} => i \in {42, 44}
    /\ s.do \in {"general", "attach legacy", "backfill organizations"} => i = 45
    /\ s.do \in {"allow", "seed allowlists"} => i = 46
    /\ s.do = "drop conversation.project_id" => i = 49
    /\ s.do = "backfill conversations" => i = 51
    /\ s.do = "require conversation.project_id" => i = 52

Sendable(stmts, i, orgs) ==
    /\ stmts \in Seq(Statements)
    /\ \A k \in DOMAIN stmts :
          IF stmts[k].do \in {"unless", "if one of"}
            THEN \A l \in DOMAIN stmts[k].then : SentBy(stmts[k].then[l], i, orgs)
            ELSE SentBy(stmts[k], i, orgs)

(***************************************************************************)
(* Properties.                                                             *)
(***************************************************************************)
Migrations == {BootPlan[i].name : i \in DOMAIN BootPlan}
Booted == Migrations \subseteq db.recorded
CustomRolesOf(d) == {r \in DOMAIN d.grants : r[2] \notin DefaultNames \cup {"superadmin"}}
CustomRoles == CustomRolesOf(db)

TypeOK ==
    /\ IsDatabase(db)
    /\ at \in [Nodes -> Down .. Failed]
    /\ applying \in [Nodes -> BOOLEAN]
    /\ todo = [n \in Nodes |-> todo[n]]
    /\ \A n \in Nodes :
          /\ todo[n] # <<>> => applying[n]
          /\ applying[n] => IsBooting(n) /\ Sendable(todo[n], at[n], db.orgs)

\* Whatever release the database comes from, and wherever earlier boots were
\* interrupted: once every migration is recorded, the default roles hold what
\* this release declares for them and nothing else, and superadmin holds all.
DefaultRolesConverge ==
    Booted =>
      /\ \A r \in DOMAIN db.grants :
            r[2] \in DefaultNames => r[1] # Platform /\ db.grants[r] = DefaultsOf(r[2])
      /\ db.grants[Superadmin] = db.catalog

\* ADR-012: a custom role gets the new permissions from the organization
\* permissions it holds, and the disposal of an embed site from nothing.
CustomRolesInherit ==
    Booted => \A r \in CustomRoles :
      /\ CanUpdate \in db.grants[r] =>
           On("sql-connection", {"create", "update", "delete"})
             \cup On("vector-db", {"create", "update", "delete", "upload"})
             \cup On("embed-site", {"create", "update"}) \subseteq db.grants[r]
      /\ CanRead \in db.grants[r] =>
           {<<f, "read">> : f \in {"sql-connection", "vector-db", "embed-site"}} \subseteq db.grants[r]
      /\ <<"embed-site", "delete">> \notin db.grants[r]

\* ADR-012, "every role keeps every capability it had": no step of a boot takes
\* from a custom role a permission that rbac_017 does not abolish.
CustomRolesOnlyGain ==
    [][\A r \in CustomRoles : db.grants[r] \ Phantoms \subseteq db'.grants[r]]_vars

\* However often the boot was interrupted, the conversations and collections
\* of an organization with members end up in its General project, the column
\* the chat reads exists, and it is required if no conversation is left out.
BackfillsConverge ==
    Booted =>
      /\ {"project", "project_data_source", "project name unique",
          "conversation.project_id", "org_vector_db.status_error"} \subseteq db.schema
      /\ \A o \in db.orgs :
            /\ HasMembers(db, o) /\ o \in db.legacy => o \in db.sources /\ db.allowed[o] = "legacy"
            /\ HasMembers(db, o) /\ o \in DOMAIN db.inProject => db.inProject[o] = "general"
      /\ (\A o \in DOMAIN db.inProject : db.inProject[o] = "general")
           => "conversation.project_id required" \in db.schema

\* docs/architecture.md calls the migration services idempotent: a migration
\* that was interrupted, or not recorded, can be applied again.
BootNeverFails == \A n \in Nodes : at[n] # Failed
=============================================================================
