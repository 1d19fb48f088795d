-------------------------- MODULE SchemaMigrations --------------------------
(***************************************************************************)
(* The tracked migrations of the other services as data: DatabaseService   *)
(* (the core schema), projects, chat, SQL connections, vector databases    *)
(* and embed sites.  The schema is a set of facts, each naming a table, a  *)
(* column ("table.column") or a constraint.  Only facts some statement     *)
(* depends on are named; an index alone is a statement that needs its      *)
(* table and changes nothing.                                              *)
(***************************************************************************)
EXTENDS RbacMigrations

\* CREATE TABLE IF NOT EXISTS: the columns come with the table or not at all
Create(table, needs, columns) ==
    <<[do |-> "create", table |-> table, needs |-> needs, adds |-> columns \cup {table}]>>
\* any other DDL: what it needs to exist, what it adds and drops
Alter(needs, adds, drops) ==
    <<[do |-> "alter", needs |-> needs, adds |-> adds, drops |-> drops]>>
Index(table) == Alter({table}, {}, {})
\* the code returns when the schema holds none of these facts, or all of them
UnlessHas(facts, then) == <<[do |-> "unless", facts |-> facts, then |-> then]>>
IfHasOneOf(facts, then) == <<[do |-> "if one of", facts |-> facts, then |-> then]>>

BetterAuthCoreTables ==
    Create("user", {}, {}) \o Create("session", {"user"}, {}) \o Create("account", {"user"}, {})
        \o Create("verification", {}, {}) \o Create("jwks", {}, {"jwks.expiresAt"})
BetterAuthOrganizationTables ==
    Create("organization", {}, {}) \o Create("member", {"organization", "user"}, {})
        \o Create("invitation", {"organization", "user"}, {})
CoreIndexes ==
    Index("user") \o Index("session") \o Index("account") \o Index("member") \o Index("invitation")
JwksExpiresAtColumn == Alter({"jwks"}, {"jwks.expiresAt"}, {})
EnforceUnifiedOrgMemberRoles ==
    MemberRole({"owner"}, "admin")
        \o Alter({"member"}, {"member roles checked"}, {})
        \o Alter({"invitation"}, {"invitation roles checked"}, {})
DropRoleCheckConstraints ==
    Alter({"member"}, {}, {"member roles checked"})
        \o Alter({"invitation"}, {}, {"invitation roles checked"}) \o RoleDefault("none")
RestrictUserRoleToPlatform ==
    PlatformRole({"admin", "manager", "member", "moderator", "user"}, "none")
        \o Alter({"user"}, {"user role checked"}, {})
\* the constraint is dropped, and comes back with more roles
DropUserRoleCheckConstraint ==
    Alter({"user"}, {}, {"user role checked"}) \o Alter({"user"}, {"user role checked"}, {})
AddUserApprovalStatus ==
    Alter({"user"}, {"user.approvalStatus"}, {}) \o Alter({"user"}, {"user.rejectionReason"}, {})
        \o Sql("approve pending users") \o Index("user.approvalStatus")
RenameIsSystemToIsDefault ==
    IfHasOneOf({"roles.is_system"},
               Alter({"roles.is_system"}, {"roles.is_default"}, {"roles.is_system"}))

\* runMigrations: 010 stands before 008
CoreMigrationList ==
    <<[name |-> "001", up |-> BetterAuthCoreTables],
      [name |-> "002", up |-> BetterAuthOrganizationTables],
      [name |-> "003", up |-> CoreIndexes],
      [name |-> "004", up |-> JwksExpiresAtColumn],
      [name |-> "005", up |-> EnforceUnifiedOrgMemberRoles],
      [name |-> "006", up |-> DropRoleCheckConstraints],
      [name |-> "007", up |-> RestrictUserRoleToPlatform],
      [name |-> "009", up |-> DropUserRoleCheckConstraint],
      [name |-> "010", up |-> AddUserApprovalStatus],
      [name |-> "008", up |-> RenameIsSystemToIsDefault]>>

CreateProjectTables ==
    Create("project", {"organization", "user"},
           {"project.created_by_user_id", "project name unique"}) \o Index("project")
        \o Create("project_data_source", {"project"}, {}) \o Index("project_data_source")
RebuildProjectTables ==
    Sql("drop project_data_source") \o Sql("drop project") \o CreateProjectTables
EnsureProjectColumns == UnlessHas({"project.created_by_user_id"}, RebuildProjectTables)
EnsureProjectConstraints ==
    UnlessHas({"project name unique"}, Alter({"project"}, {"project name unique"}, {}))
ResetLegacyProjectSchema ==
    IfHasOneOf({"project.airweave_collection_id", "project.discovery", "project.data_collection"},
               RebuildProjectTables)
BackfillGeneralProjects == Sql("backfill organizations")
SeedAirweaveAllowlist == Sql("seed allowlists")
ExtendKindConstraintForVectorDb == Index("project_data_source") \o Index("project_data_source")

ProjectMigrationList ==
    <<[name |-> "projects_001", up |-> CreateProjectTables],
      [name |-> "projects_001a", up |-> EnsureProjectColumns],
      [name |-> "projects_001b", up |-> EnsureProjectConstraints],
      [name |-> "projects_001c", up |-> ResetLegacyProjectSchema],
      [name |-> "projects_002", up |-> BackfillGeneralProjects],
      [name |-> "projects_003", up |-> SeedAirweaveAllowlist],
      [name |-> "projects_004", up |-> ExtendKindConstraintForVectorDb]>>

CreateConversationAndMessageTables ==
    Create("conversation", {"organization", "user"}, {}) \o Index("conversation")
        \o Create("message", {"conversation"}, {}) \o Index("message")
RemoveLegacyProjectScope == Sql("drop conversation.project_id")
AddProjectIdToConversation ==
    Alter({"conversation", "project"}, {"conversation.project_id"}, {}) \o Index("conversation.project_id")
BackfillConversationProjectId == Sql("backfill conversations")
EnforceConversationProjectIdNotNull == Sql("require conversation.project_id")

ChatMigrationList ==
    <<[name |-> "chat_001", up |-> CreateConversationAndMessageTables],
      [name |-> "chat_002", up |-> RemoveLegacyProjectScope],
      [name |-> "chat_003", up |-> AddProjectIdToConversation],
      [name |-> "chat_004", up |-> BackfillConversationProjectId],
      [name |-> "chat_005", up |-> EnforceConversationProjectIdNotNull]>>

CreateSqlConnectionTable ==
    Create("org_sql_connection", {"organization"}, {}) \o Index("org_sql_connection")
AddAllowedTablesColumn == Alter({"org_sql_connection"}, {"org_sql_connection.allowed_tables"}, {})
SqlConnectionMigrationList ==
    <<[name |-> "sql_connections_001", up |-> CreateSqlConnectionTable],
      [name |-> "sql_connections_002", up |-> AddAllowedTablesColumn]>>

CreateVectorDbTable ==
    Create("org_vector_db", {"organization"},
           {"org_vector_db.qdrant_collection", "org_vector_db.status_error"}) \o Index("org_vector_db")
\* Statements outside a transaction; the second reads a column that the third
\* drops, so that the migration fails when it is run a second time.
AddSchemaImprovements ==
    Alter({"org_vector_db"}, {"org_vector_db.vector_store_ref"}, {})
        \o Alter({"org_vector_db.qdrant_collection"}, {}, {})
        \o Alter({"org_vector_db"}, {}, {"org_vector_db.qdrant_collection"})
        \o Alter({"org_vector_db"}, {"org_vector_db.status_error_new"}, {})
        \o Alter({"org_vector_db.status_error"}, {}, {})
        \o Alter({"org_vector_db"}, {}, {"org_vector_db.status_error"})
        \o Alter({"org_vector_db.status_error_new"}, {"org_vector_db.status_error"},
                 {"org_vector_db.status_error_new"})
        \o Alter({"org_vector_db"}, {"org_vector_db.version"}, {})
CreateIngestionJobTable ==
    Create("vector_db_ingestion_job", {"org_vector_db"}, {}) \o Index("vector_db_ingestion_job")
VectorDbMigrationList ==
    <<[name |-> "vector_db_001", up |-> CreateVectorDbTable],
      [name |-> "vector_db_002", up |-> AddSchemaImprovements],
      [name |-> "vector_db_003", up |-> CreateIngestionJobTable]>>

CreateEmbedSiteTable ==
    Create("embed_site", {"organization", "project"}, {}) \o Index("embed_site")
CreateEmbedUsageCounterTable == Create("embed_usage_counter", {"organization"}, {})
EmbedSiteMigrationList ==
    <<[name |-> "embed_site_001", up |-> CreateEmbedSiteTable],
      [name |-> "embed_site_002", up |-> CreateEmbedUsageCounterTable]>>

\* The boot of a node: every service's onModuleInit.  The core schema is the
\* global module and comes first; chat and embed sites call the projects'
\* migrations before their own, and those find theirs recorded already.
BootPlan ==
    CoreMigrationList \o RbacMigrationList \o SqlConnectionMigrationList
        \o VectorDbMigrationList \o ProjectMigrationList \o ChatMigrationList
        \o EmbedSiteMigrationList
=============================================================================
