--------------------------- MODULE RbacMigrations ---------------------------
(***************************************************************************)
(* The tracked migrations of RbacMigrationService as data: each is the     *)
(* sequence of statements it sends to the database, in order.  A role row  *)
(* is <<scope, name>>, the scope an organization or Platform (the rows     *)
(* whose organization_id is NULL).  A loop of INSERT ... ON CONFLICT DO    *)
(* NOTHING is one statement here: running a part of it twice is running it *)
(* once.  Boot says what a statement does and who runs them.               *)
(***************************************************************************)
EXTENDS Sequences

Platform == "platform"
On(resource, actions) == {<<resource, a>> : a \in actions}
Crud == {"create", "read", "update", "delete"}

AdminDefaults ==
    On("organization", {"read", "update", "delete", "invite"})
        \cup On("chat", {"read", "create", "stream", "delete"})
        \cup On("role", Crud \cup {"assign"})
        \cup On("session", {"read", "revoke"})
        \cup On("user", Crud \cup {"ban", "impersonate", "set-role", "set-password", "approve"})
        \cup On("project", Crud \cup {"manage-sources"})
        \cup On("dashboard", {"view"})
        \cup On("airweave", Crud \cup {"manage-sources"})
        \cup On("sql-connection", Crud)
        \cup On("vector-db", Crud \cup {"upload"})
        \cup On("embed-site", Crud)

ManagerDefaults ==
    On("organization", {"read", "update", "invite"})
        \cup On("chat", {"read", "create", "stream", "delete"})
        \cup On("role", {"read"})
        \cup On("session", {"read", "revoke"})
        \cup On("user", {"create", "read", "update"})
        \cup On("project", {"read", "update", "manage-sources"})
        \cup On("dashboard", {"view"})
        \cup On("airweave", {"create", "read", "update", "manage-sources"})
        \cup On("sql-connection", Crud)
        \cup On("vector-db", {"read", "create", "update", "upload"})
        \cup On("embed-site", {"read", "create", "update"})

MemberDefaults ==
    On("organization", {"read"}) \cup On("chat", {"read", "create", "stream"})
        \cup {<<r, "read">> : r \in {"project", "airweave", "sql-connection", "vector-db", "embed-site"}}

DefaultsOf(name) ==
    CASE name = "admin" -> AdminDefaults
      [] name = "manager" -> ManagerDefaults
      [] name = "member" -> MemberDefaults

\* The permissions of the three platform roles before rbac_008
OldManagerPermissions ==
    On("user", {"read", "update", "ban"}) \cup On("session", {"read", "revoke"})
        \cup On("organization", {"create", "read", "update", "invite"})
        \cup On("project", Crud) \cup On("role", {"read"})
OldMemberPermissions == {<<r, "read">> : r \in {"user", "organization", "project", "role"}}

(***************************************************************************)
(* Statements.  Every stands for all the permissions the catalogue holds.   *)
(***************************************************************************)
Every == {<<"*", "*">>}
Register(perms) == <<[do |-> "register", perms |-> perms]>>
Unregister(perms) == <<[do |-> "unassign", perms |-> perms], [do |-> "unregister", perms |-> perms]>>
Grant(role, perms) == <<[do |-> "grant", role |-> role, perms |-> perms]>>
InsertRole(role) == <<[do |-> "role", role |-> role]>>
Inherit(holding, perms) == <<[do |-> "inherit", holding |-> holding, perms |-> perms]>>
Sql(what) == <<[do |-> what]>>
\* UPDATE roles SET name; UPDATE "user" SET role; UPDATE member SET role
RenameRole(old, new) == <<[do |-> "rename role", old |-> old, new |-> new]>>
PlatformRole(from, to) == <<[do |-> "platform role", from |-> from, to |-> to]>>
MemberRole(from, to) == <<[do |-> "member role", from |-> from, to |-> to]>>
RoleDefault(to) == <<[do |-> "role default", to |-> to]>>

Superadmin == <<Platform, "superadmin">>
GrantSuperadmin(perms) == Grant(Superadmin, perms)

\* Mutant: without the DELETE.
OnlyInsertRolePermissions(role) == Grant(role, DefaultsOf(role[2]))

\* DELETE what the list does not name, then INSERT the list
SyncRolePermissions(role) ==
    <<[do |-> "restrict", role |-> role, perms |-> DefaultsOf(role[2])]>>
        \o Grant(role, DefaultsOf(role[2]))

SyncScope(scope, names) ==
    (IF "admin" \in names THEN SyncRolePermissions(<<scope, "admin">>) ELSE <<>>)
        \o (IF "manager" \in names THEN SyncRolePermissions(<<scope, "manager">>) ELSE <<>>)
        \o (IF "member" \in names THEN SyncRolePermissions(<<scope, "member">>) ELSE <<>>)

DefaultNames == {"admin", "manager", "member"}
SyncGlobalRoles == SyncScope(Platform, DefaultNames)
\* SELECT id FROM organization, and then the loop over what it returned
SyncOrganizations(names) == <<[do |-> "organizations", names |-> names]>>

RedesignScope(o) ==
    InsertRole(<<o, "admin">>) \o InsertRole(<<o, "manager">>) \o InsertRole(<<o, "member">>)
        \o Grant(<<o, "admin">>, Every) \o SyncScope(o, {"manager", "member"})

(***************************************************************************)
(* The migrations.                                                         *)
(***************************************************************************)
CreateRbacTables == Sql("create rbac tables")

MigrateOldRoleNames ==
    RenameRole("moderator", "manager") \o RenameRole("user", "member")
        \o PlatformRole({"moderator"}, "manager") \o PlatformRole({"user"}, "member")
        \o MemberRole({"moderator"}, "manager") \o MemberRole({"user"}, "member")
        \o RoleDefault("member")

OldGrants ==
    Grant(<<Platform, "admin">>, Every) \o Grant(<<Platform, "manager">>, OldManagerPermissions)
        \o Grant(<<Platform, "member">>, OldMemberPermissions)

SeedDefaultData ==
    Register(On("user", Crud \cup {"ban", "impersonate", "set-role", "set-password"})
                \cup On("session", {"read", "revoke"})
                \cup On("organization", Crud \cup {"invite"})
                \cup On("project", Crud) \cup On("role", Crud \cup {"assign"}))
        \o InsertRole(<<Platform, "admin">>) \o InsertRole(<<Platform, "manager">>)
        \o InsertRole(<<Platform, "member">>) \o OldGrants

AddManagerOrganizationCreatePermission ==
    Register(On("organization", {"create"}))
        \o Grant(<<Platform, "manager">>, On("organization", {"create"}))

BackfillRolePermissions == OldGrants
AssignAllPermissionsToAdmin == Grant(<<Platform, "admin">>, Every)
AddRoleOrganizationScope == Sql("scope roles")

RedesignSuperadminAndOrganizationRoles ==
    PlatformRole({"admin"}, "superadmin") \o Sql("drop platform roles") \o InsertRole(Superadmin)
        \o GrantSuperadmin(Every) \o Sql("redesign organizations")

NormalizeOrganizationDefaultRolePermissions == SyncOrganizations({"manager", "member"})
RemoveSuperadminOrganizationMemberships == Sql("remove superadmin members")

AddManageMembersPermission ==
    Register(On("organization", {"manage-members"}))
        \o GrantSuperadmin(On("organization", {"manage-members"})) \o Sql("admins manage members")

AssignAdminFullPermissions == SyncOrganizations({"admin"})
SeedDefaultOrganization == Sql("seed organization")

AddProjectPermissions ==
    Register(On("project", Crud)) \o SyncGlobalRoles \o SyncOrganizations(DefaultNames)

AddChatPermissions ==
    LET chat == On("chat", {"read", "create", "stream", "delete"})
    IN Register(chat) \o GrantSuperadmin(chat) \o SyncOrganizations(DefaultNames)

AddUserApprovePermission ==
    LET approve == On("user", {"approve"})
    IN Register(approve) \o GrantSuperadmin(approve) \o SyncOrganizations({"admin"})

\* organization-invitation and organization-member are never registered here
RemovePhantomPermissions ==
    Unregister(On("project", Crud \cup {"manage-sources"}))
        \o Unregister(On("organization", {"manage-members"}))

AddDashboardPermission ==
    LET view == On("dashboard", {"view"})
    IN Register(view) \o GrantSuperadmin(view) \o SyncOrganizations({"admin", "manager"})

\* What the migrations since 019 have in common
AddFamily(perms) ==
    Register(perms) \o GrantSuperadmin(perms) \o SyncGlobalRoles \o SyncOrganizations(DefaultNames)

RestoreProjectPermissions == AddFamily(On("project", Crud \cup {"manage-sources"}))
AddAirweavePermissions == AddFamily(On("airweave", Crud \cup {"manage-sources"}))

CanUpdate == <<"organization", "update">>
CanRead == <<"organization", "read">>

AddSqlConnectionPermissions ==
    AddFamily(On("sql-connection", Crud))
        \o Inherit(CanUpdate, On("sql-connection", {"create", "update", "delete"}))
        \o Inherit(CanRead, On("sql-connection", {"read"}))

AddVectorDbPermissions ==
    AddFamily(On("vector-db", Crud))
        \o Inherit(CanUpdate, On("vector-db", {"create", "update", "delete"}))
        \o Inherit(CanRead, On("vector-db", {"read"}))

RevokeManagerVectorDbDelete ==
    SyncScope(Platform, {"manager"}) \o SyncOrganizations({"manager"})

AddVectorDbUploadPermission ==
    AddFamily(On("vector-db", {"upload"})) \o Inherit(CanUpdate, On("vector-db", {"upload"}))

\* Mutant: custom roles that only read are forgotten.
AddEmbedSitesForEditors ==
    AddFamily(On("embed-site", Crud)) \o Inherit(CanUpdate, On("embed-site", {"create", "update"}))

\* Mutant: what rbac_023 takes from managers is taken from every role.
AddEmbedSitesAndRevoke ==
    AddFamily(On("embed-site", Crud))
        \o Inherit(CanUpdate, On("embed-site", {"create", "update"}))
        \o Inherit(CanRead, On("embed-site", {"read"}))
        \o <<[do |-> "unassign", perms |-> On("vector-db", {"delete"})]>>

AddEmbedSitePermissions ==
    AddFamily(On("embed-site", Crud))
        \o Inherit(CanUpdate, On("embed-site", {"create", "update"}))
        \o Inherit(CanRead, On("embed-site", {"read"}))

\* runTrackedMigrations: the names and the order
RbacMigrationList ==
    <<[name |-> "rbac_001", up |-> CreateRbacTables],
      [name |-> "rbac_002", up |-> MigrateOldRoleNames],
      [name |-> "rbac_003", up |-> SeedDefaultData],
      [name |-> "rbac_004", up |-> AddManagerOrganizationCreatePermission],
      [name |-> "rbac_005", up |-> BackfillRolePermissions],
      [name |-> "rbac_006", up |-> AssignAllPermissionsToAdmin],
      [name |-> "rbac_007", up |-> AddRoleOrganizationScope],
      [name |-> "rbac_008", up |-> RedesignSuperadminAndOrganizationRoles],
      [name |-> "rbac_009", up |-> NormalizeOrganizationDefaultRolePermissions],
      [name |-> "rbac_010", up |-> RemoveSuperadminOrganizationMemberships],
      [name |-> "rbac_011", up |-> AddManageMembersPermission],
      [name |-> "rbac_012", up |-> AssignAdminFullPermissions],
      [name |-> "rbac_013", up |-> SeedDefaultOrganization],
      [name |-> "rbac_014", up |-> AddProjectPermissions],
      [name |-> "rbac_015", up |-> AddChatPermissions],
      [name |-> "rbac_016", up |-> AddUserApprovePermission],
      [name |-> "rbac_017", up |-> RemovePhantomPermissions],
      [name |-> "rbac_018", up |-> AddDashboardPermission],
      [name |-> "rbac_019", up |-> RestoreProjectPermissions],
      [name |-> "rbac_020", up |-> AddAirweavePermissions],
      [name |-> "rbac_021", up |-> AddSqlConnectionPermissions],
      [name |-> "rbac_022", up |-> AddVectorDbPermissions],
      [name |-> "rbac_023", up |-> RevokeManagerVectorDbDelete],
      [name |-> "rbac_024", up |-> AddVectorDbUploadPermission],
      [name |-> "rbac_025", up |-> AddEmbedSitePermissions]>>
=============================================================================
