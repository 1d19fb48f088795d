----------------------------- MODULE BootProofs -----------------------------
(***************************************************************************)
(* Every database of an earlier release, any number of nodes, users and    *)
(* organizations.  First the migrations: what each of them sends, what a   *)
(* statement does, and what it leaves alone.  From these come the types    *)
(* and what custom roles keep.  Then the invariant of BootInvariants: what *)
(* a recorded migration has done lasts (Sound), and what the one that is   *)
(* applied does is there or still to be sent (RolesAdvance and             *)
(* ProjectsAdvance), from its first statement to the last.                 *)
(***************************************************************************)
EXTENDS BootInvariants, SequenceTheorems, TLAPS

-----------------------------------------------------------------------------
(* The plan: which migration is the i-th.                                  *)

At(u, s, m, n) == \A i \in 1 .. n : u[m + i] = s[i]
IsList(s, T, n) == s \in Seq(T) /\ Len(s) = n

LEMMA ConcatAt ==
    ASSUME NEW T, NEW s, NEW t, NEW m \in Nat, NEW n \in Nat, NEW k \in Nat, k = m + n,
           IsList(s, T, m), IsList(t, T, n)
    PROVE  IsList(s \o t, T, k) /\ At(s \o t, s, 0, m) /\ At(s \o t, t, m, n)
BY DEF At, IsList

LEMMA AtAt ==
    ASSUME NEW u, NEW v, NEW s, NEW m \in Nat, NEW n \in Nat, NEW k \in Nat,
           At(u, v, 0, k), At(v, s, m, n), m + n <= k
    PROVE  At(u, s, m, n)
<1> SUFFICES ASSUME NEW i \in 1 .. n
             PROVE  u[m + i] = s[i]
  BY DEF At
<1>1. v[m + i] = s[i]
  BY DEF At
<1>2. m + i \in 1 .. k
  OBVIOUS
<1>3. u[0 + (m + i)] = v[m + i]
  BY <1>2 DEF At
<1> QED
  BY <1>1, <1>3

LEMMA ListsOfMigrations ==
    \E T :
        /\ IsList(CoreMigrationList, T, 10)
        /\ IsList(RbacMigrationList, T, 25)
        /\ IsList(SqlConnectionMigrationList, T, 2)
        /\ IsList(VectorDbMigrationList, T, 3)
        /\ IsList(ProjectMigrationList, T, 7)
        /\ IsList(ChatMigrationList, T, 5)
        /\ IsList(EmbedSiteMigrationList, T, 2)
<1> DEFINE T == Range(CoreMigrationList)
                 \cup Range(RbacMigrationList)
                 \cup Range(SqlConnectionMigrationList)
                 \cup Range(VectorDbMigrationList)
                 \cup Range(ProjectMigrationList)
                 \cup Range(ChatMigrationList)
                 \cup Range(EmbedSiteMigrationList)
<1>1. IsList(CoreMigrationList, Range(CoreMigrationList), 10)
  BY DEF CoreMigrationList, Range, IsList
<1>2. IsList(RbacMigrationList, Range(RbacMigrationList), 25)
  BY DEF RbacMigrationList, Range, IsList
<1>3. IsList(SqlConnectionMigrationList, Range(SqlConnectionMigrationList), 2)
  BY DEF SqlConnectionMigrationList, Range, IsList
<1>4. IsList(VectorDbMigrationList, Range(VectorDbMigrationList), 3)
  BY DEF VectorDbMigrationList, Range, IsList
<1>5. IsList(ProjectMigrationList, Range(ProjectMigrationList), 7)
  BY DEF ProjectMigrationList, Range, IsList
<1>6. IsList(ChatMigrationList, Range(ChatMigrationList), 5)
  BY DEF ChatMigrationList, Range, IsList
<1>7. IsList(EmbedSiteMigrationList, Range(EmbedSiteMigrationList), 2)
  BY DEF EmbedSiteMigrationList, Range, IsList
<1> QED
  <2>1. \A X \in SUBSET T : Seq(X) \subseteq Seq(T)
    OBVIOUS
  <2>2. IsList(CoreMigrationList, T, 10)
    BY <1>1, <2>1 DEF IsList
  <2>3. IsList(RbacMigrationList, T, 25)
    BY <1>2, <2>1 DEF IsList
  <2>4. IsList(SqlConnectionMigrationList, T, 2)
    BY <1>3, <2>1 DEF IsList
  <2>5. IsList(VectorDbMigrationList, T, 3)
    BY <1>4, <2>1 DEF IsList
  <2>6. IsList(ProjectMigrationList, T, 7)
    BY <1>5, <2>1 DEF IsList
  <2>7. IsList(ChatMigrationList, T, 5)
    BY <1>6, <2>1 DEF IsList
  <2>8. IsList(EmbedSiteMigrationList, T, 2)
    BY <1>7, <2>1 DEF IsList
  <2> HIDE DEF T
  <2> QED
    BY <2>2, <2>3, <2>4, <2>5, <2>6, <2>7, <2>8

LEMMA Plan ==
    /\ Len(BootPlan) = 54 /\ DOMAIN BootPlan = 1 .. 54
    /\ BootPlan[1] = [name |-> "001", up |-> BetterAuthCoreTables]
    /\ BootPlan[2] = [name |-> "002", up |-> BetterAuthOrganizationTables]
    /\ BootPlan[3] = [name |-> "003", up |-> CoreIndexes]
    /\ BootPlan[4] = [name |-> "004", up |-> JwksExpiresAtColumn]
    /\ BootPlan[5] = [name |-> "005", up |-> EnforceUnifiedOrgMemberRoles]
    /\ BootPlan[6] = [name |-> "006", up |-> DropRoleCheckConstraints]
    /\ BootPlan[7] = [name |-> "007", up |-> RestrictUserRoleToPlatform]
    /\ BootPlan[8] = [name |-> "009", up |-> DropUserRoleCheckConstraint]
    /\ BootPlan[9] = [name |-> "010", up |-> AddUserApprovalStatus]
    /\ BootPlan[10] = [name |-> "008", up |-> RenameIsSystemToIsDefault]
    /\ BootPlan[11] = [name |-> "rbac_001", up |-> CreateRbacTables]
    /\ BootPlan[12] = [name |-> "rbac_002", up |-> MigrateOldRoleNames]
    /\ BootPlan[13] = [name |-> "rbac_003", up |-> SeedDefaultData]
    /\ BootPlan[14] = [name |-> "rbac_004", up |-> AddManagerOrganizationCreatePermission]
    /\ BootPlan[15] = [name |-> "rbac_005", up |-> BackfillRolePermissions]
    /\ BootPlan[16] = [name |-> "rbac_006", up |-> AssignAllPermissionsToAdmin]
    /\ BootPlan[17] = [name |-> "rbac_007", up |-> AddRoleOrganizationScope]
    /\ BootPlan[18] = [name |-> "rbac_008", up |-> RedesignSuperadminAndOrganizationRoles]
    /\ BootPlan[19] = [name |-> "rbac_009", up |-> NormalizeOrganizationDefaultRolePermissions]
    /\ BootPlan[20] = [name |-> "rbac_010", up |-> RemoveSuperadminOrganizationMemberships]
    /\ BootPlan[21] = [name |-> "rbac_011", up |-> AddManageMembersPermission]
    /\ BootPlan[22] = [name |-> "rbac_012", up |-> AssignAdminFullPermissions]
    /\ BootPlan[23] = [name |-> "rbac_013", up |-> SeedDefaultOrganization]
    /\ BootPlan[24] = [name |-> "rbac_014", up |-> AddProjectPermissions]
    /\ BootPlan[25] = [name |-> "rbac_015", up |-> AddChatPermissions]
    /\ BootPlan[26] = [name |-> "rbac_016", up |-> AddUserApprovePermission]
    /\ BootPlan[27] = [name |-> "rbac_017", up |-> RemovePhantomPermissions]
    /\ BootPlan[28] = [name |-> "rbac_018", up |-> AddDashboardPermission]
    /\ BootPlan[29] = [name |-> "rbac_019", up |-> RestoreProjectPermissions]
    /\ BootPlan[30] = [name |-> "rbac_020", up |-> AddAirweavePermissions]
    /\ BootPlan[31] = [name |-> "rbac_021", up |-> AddSqlConnectionPermissions]
    /\ BootPlan[32] = [name |-> "rbac_022", up |-> AddVectorDbPermissions]
    /\ BootPlan[33] = [name |-> "rbac_023", up |-> RevokeManagerVectorDbDelete]
    /\ BootPlan[34] = [name |-> "rbac_024", up |-> AddVectorDbUploadPermission]
    /\ BootPlan[35] = [name |-> "rbac_025", up |-> AddEmbedSitePermissions]
    /\ BootPlan[36] = [name |-> "sql_connections_001", up |-> CreateSqlConnectionTable]
    /\ BootPlan[37] = [name |-> "sql_connections_002", up |-> AddAllowedTablesColumn]
    /\ BootPlan[38] = [name |-> "vector_db_001", up |-> CreateVectorDbTable]
    /\ BootPlan[39] = [name |-> "vector_db_002", up |-> AddSchemaImprovements]
    /\ BootPlan[40] = [name |-> "vector_db_003", up |-> CreateIngestionJobTable]
    /\ BootPlan[41] = [name |-> "projects_001", up |-> CreateProjectTables]
    /\ BootPlan[42] = [name |-> "projects_001a", up |-> EnsureProjectColumns]
    /\ BootPlan[43] = [name |-> "projects_001b", up |-> EnsureProjectConstraints]
    /\ BootPlan[44] = [name |-> "projects_001c", up |-> ResetLegacyProjectSchema]
    /\ BootPlan[45] = [name |-> "projects_002", up |-> BackfillGeneralProjects]
    /\ BootPlan[46] = [name |-> "projects_003", up |-> SeedAirweaveAllowlist]
    /\ BootPlan[47] = [name |-> "projects_004", up |-> ExtendKindConstraintForVectorDb]
    /\ BootPlan[48] = [name |-> "chat_001", up |-> CreateConversationAndMessageTables]
    /\ BootPlan[49] = [name |-> "chat_002", up |-> RemoveLegacyProjectScope]
    /\ BootPlan[50] = [name |-> "chat_003", up |-> AddProjectIdToConversation]
    /\ BootPlan[51] = [name |-> "chat_004", up |-> BackfillConversationProjectId]
    /\ BootPlan[52] = [name |-> "chat_005", up |-> EnforceConversationProjectIdNotNull]
    /\ BootPlan[53] = [name |-> "embed_site_001", up |-> CreateEmbedSiteTable]
    /\ BootPlan[54] = [name |-> "embed_site_002", up |-> CreateEmbedUsageCounterTable]
<1>0. PICK T :
        /\ IsList(CoreMigrationList, T, 10)
        /\ IsList(RbacMigrationList, T, 25)
        /\ IsList(SqlConnectionMigrationList, T, 2)
        /\ IsList(VectorDbMigrationList, T, 3)
        /\ IsList(ProjectMigrationList, T, 7)
        /\ IsList(ChatMigrationList, T, 5)
        /\ IsList(EmbedSiteMigrationList, T, 2)
  BY ListsOfMigrations
<1> DEFINE A == CoreMigrationList
           B == A \o RbacMigrationList
           C == B \o SqlConnectionMigrationList
           D == C \o VectorDbMigrationList
           E == D \o ProjectMigrationList
           F == E \o ChatMigrationList
           G == F \o EmbedSiteMigrationList
<1>z. IsList(A, T, 10)
  BY <1>0
<1>1. IsList(B, T, 35) /\ At(B, A, 0, 10) /\ At(B, RbacMigrationList, 10, 25)
  <2>1. 10 \in Nat /\ 25 \in Nat /\ 35 \in Nat /\ 35 = 10 + 25
    OBVIOUS
  <2>2. IsList(A, T, 10) /\ IsList(RbacMigrationList, T, 25)
    BY <1>0, <1>z
  <2> HIDE DEF A
  <2> QED
    BY ONLY <2>1, <2>2, ConcatAt DEF B
<1>2. IsList(C, T, 37) /\ At(C, B, 0, 35) /\ At(C, SqlConnectionMigrationList, 35, 2)
  <2>1. 35 \in Nat /\ 2 \in Nat /\ 37 \in Nat /\ 37 = 35 + 2
    OBVIOUS
  <2>2. IsList(B, T, 35) /\ IsList(SqlConnectionMigrationList, T, 2)
    BY <1>0, <1>1
  <2> HIDE DEF B
  <2> QED
    BY ONLY <2>1, <2>2, ConcatAt DEF C
<1>3. IsList(D, T, 40) /\ At(D, C, 0, 37) /\ At(D, VectorDbMigrationList, 37, 3)
  <2>1. 37 \in Nat /\ 3 \in Nat /\ 40 \in Nat /\ 40 = 37 + 3
    OBVIOUS
  <2>2. IsList(C, T, 37) /\ IsList(VectorDbMigrationList, T, 3)
    BY <1>0, <1>2
  <2> HIDE DEF C
  <2> QED
    BY ONLY <2>1, <2>2, ConcatAt DEF D
<1>4. IsList(E, T, 47) /\ At(E, D, 0, 40) /\ At(E, ProjectMigrationList, 40, 7)
  <2>1. 40 \in Nat /\ 7 \in Nat /\ 47 \in Nat /\ 47 = 40 + 7
    OBVIOUS
  <2>2. IsList(D, T, 40) /\ IsList(ProjectMigrationList, T, 7)
    BY <1>0, <1>3
  <2> HIDE DEF D
  <2> QED
    BY ONLY <2>1, <2>2, ConcatAt DEF E
<1>5. IsList(F, T, 52) /\ At(F, E, 0, 47) /\ At(F, ChatMigrationList, 47, 5)
  <2>1. 47 \in Nat /\ 5 \in Nat /\ 52 \in Nat /\ 52 = 47 + 5
    OBVIOUS
  <2>2. IsList(E, T, 47) /\ IsList(ChatMigrationList, T, 5)
    BY <1>0, <1>4
  <2> HIDE DEF E
  <2> QED
    BY ONLY <2>1, <2>2, ConcatAt DEF F
<1>6. IsList(G, T, 54) /\ At(G, F, 0, 52) /\ At(G, EmbedSiteMigrationList, 52, 2)
  <2>1. 52 \in Nat /\ 2 \in Nat /\ 54 \in Nat /\ 54 = 52 + 2
    OBVIOUS
  <2>2. IsList(F, T, 52) /\ IsList(EmbedSiteMigrationList, T, 2)
    BY <1>0, <1>5
  <2> HIDE DEF F
  <2> QED
    BY ONLY <2>1, <2>2, ConcatAt DEF G
<1>7. BootPlan = G
  BY DEF BootPlan
<1> HIDE DEF A, B, C, D, E, F, G
<1>8. /\ At(G, F, 0, 52)
      /\ At(G, E, 0, 47)
      /\ At(G, D, 0, 40)
      /\ At(G, C, 0, 37)
      /\ At(G, B, 0, 35)
      /\ At(G, A, 0, 10)
  <2>0. 0 \in Nat /\ 10 \in Nat /\ 35 \in Nat /\ 37 \in Nat /\ 40 \in Nat /\ 47 \in Nat /\ 52 \in Nat /\ 54 \in Nat
        /\ 0 + 10 <= 35 /\ 0 + 35 <= 37 /\ 0 + 37 <= 40 /\ 0 + 40 <= 47 /\ 0 + 47 <= 52
    OBVIOUS
  <2>1. At(G, F, 0, 52)
    BY <1>6
  <2>2. At(G, E, 0, 47)
    BY ONLY <2>0, <2>1, <1>5, AtAt
  <2>3. At(G, D, 0, 40)
    BY ONLY <2>0, <2>2, <1>4, AtAt
  <2>4. At(G, C, 0, 37)
    BY ONLY <2>0, <2>3, <1>3, AtAt
  <2>5. At(G, B, 0, 35)
    BY ONLY <2>0, <2>4, <1>2, AtAt
  <2>6. At(G, A, 0, 10)
    BY ONLY <2>0, <2>5, <1>1, AtAt
  <2> QED
    BY <2>1, <2>2, <2>3, <2>4, <2>5, <2>6
<1>9. Len(G) = 54 /\ DOMAIN G = 1 .. 54
  BY <1>6 DEF IsList
<1>a. /\ G[1] = [name |-> "001", up |-> BetterAuthCoreTables]
      /\ G[2] = [name |-> "002", up |-> BetterAuthOrganizationTables]
      /\ G[3] = [name |-> "003", up |-> CoreIndexes]
      /\ G[4] = [name |-> "004", up |-> JwksExpiresAtColumn]
      /\ G[5] = [name |-> "005", up |-> EnforceUnifiedOrgMemberRoles]
      /\ G[6] = [name |-> "006", up |-> DropRoleCheckConstraints]
      /\ G[7] = [name |-> "007", up |-> RestrictUserRoleToPlatform]
      /\ G[8] = [name |-> "009", up |-> DropUserRoleCheckConstraint]
      /\ G[9] = [name |-> "010", up |-> AddUserApprovalStatus]
      /\ G[10] = [name |-> "008", up |-> RenameIsSystemToIsDefault]
  <2>1. At(G, CoreMigrationList, 0, 10)
    BY <1>8 DEF A
  <2>2. /\ G[1] = CoreMigrationList[1]
        /\ G[2] = CoreMigrationList[2]
        /\ G[3] = CoreMigrationList[3]
        /\ G[4] = CoreMigrationList[4]
        /\ G[5] = CoreMigrationList[5]
        /\ G[6] = CoreMigrationList[6]
        /\ G[7] = CoreMigrationList[7]
        /\ G[8] = CoreMigrationList[8]
        /\ G[9] = CoreMigrationList[9]
        /\ G[10] = CoreMigrationList[10]
    BY <2>1 DEF At
  <2> QED
    BY <2>2 DEF CoreMigrationList
<1>b. /\ G[11] = [name |-> "rbac_001", up |-> CreateRbacTables]
      /\ G[12] = [name |-> "rbac_002", up |-> MigrateOldRoleNames]
      /\ G[13] = [name |-> "rbac_003", up |-> SeedDefaultData]
      /\ G[14] = [name |-> "rbac_004", up |-> AddManagerOrganizationCreatePermission]
      /\ G[15] = [name |-> "rbac_005", up |-> BackfillRolePermissions]
      /\ G[16] = [name |-> "rbac_006", up |-> AssignAllPermissionsToAdmin]
      /\ G[17] = [name |-> "rbac_007", up |-> AddRoleOrganizationScope]
      /\ G[18] = [name |-> "rbac_008", up |-> RedesignSuperadminAndOrganizationRoles]
      /\ G[19] = [name |-> "rbac_009", up |-> NormalizeOrganizationDefaultRolePermissions]
      /\ G[20] = [name |-> "rbac_010", up |-> RemoveSuperadminOrganizationMemberships]
      /\ G[21] = [name |-> "rbac_011", up |-> AddManageMembersPermission]
      /\ G[22] = [name |-> "rbac_012", up |-> AssignAdminFullPermissions]
      /\ G[23] = [name |-> "rbac_013", up |-> SeedDefaultOrganization]
      /\ G[24] = [name |-> "rbac_014", up |-> AddProjectPermissions]
      /\ G[25] = [name |-> "rbac_015", up |-> AddChatPermissions]
      /\ G[26] = [name |-> "rbac_016", up |-> AddUserApprovePermission]
      /\ G[27] = [name |-> "rbac_017", up |-> RemovePhantomPermissions]
      /\ G[28] = [name |-> "rbac_018", up |-> AddDashboardPermission]
      /\ G[29] = [name |-> "rbac_019", up |-> RestoreProjectPermissions]
      /\ G[30] = [name |-> "rbac_020", up |-> AddAirweavePermissions]
      /\ G[31] = [name |-> "rbac_021", up |-> AddSqlConnectionPermissions]
      /\ G[32] = [name |-> "rbac_022", up |-> AddVectorDbPermissions]
      /\ G[33] = [name |-> "rbac_023", up |-> RevokeManagerVectorDbDelete]
      /\ G[34] = [name |-> "rbac_024", up |-> AddVectorDbUploadPermission]
      /\ G[35] = [name |-> "rbac_025", up |-> AddEmbedSitePermissions]
  <2>0. 10 \in Nat /\ 25 \in Nat /\ 35 \in Nat /\ 10 + 25 <= 35
    OBVIOUS
  <2>1. At(G, RbacMigrationList, 10, 25)
    BY ONLY <2>0, <1>8, <1>1, AtAt
  <2>2. /\ G[11] = RbacMigrationList[1]
        /\ G[12] = RbacMigrationList[2]
        /\ G[13] = RbacMigrationList[3]
        /\ G[14] = RbacMigrationList[4]
        /\ G[15] = RbacMigrationList[5]
        /\ G[16] = RbacMigrationList[6]
        /\ G[17] = RbacMigrationList[7]
        /\ G[18] = RbacMigrationList[8]
        /\ G[19] = RbacMigrationList[9]
        /\ G[20] = RbacMigrationList[10]
        /\ G[21] = RbacMigrationList[11]
        /\ G[22] = RbacMigrationList[12]
        /\ G[23] = RbacMigrationList[13]
        /\ G[24] = RbacMigrationList[14]
        /\ G[25] = RbacMigrationList[15]
        /\ G[26] = RbacMigrationList[16]
        /\ G[27] = RbacMigrationList[17]
        /\ G[28] = RbacMigrationList[18]
        /\ G[29] = RbacMigrationList[19]
        /\ G[30] = RbacMigrationList[20]
        /\ G[31] = RbacMigrationList[21]
        /\ G[32] = RbacMigrationList[22]
        /\ G[33] = RbacMigrationList[23]
        /\ G[34] = RbacMigrationList[24]
        /\ G[35] = RbacMigrationList[25]
    BY <2>1 DEF At
  <2> QED
    BY <2>2 DEF RbacMigrationList
<1>c. /\ G[36] = [name |-> "sql_connections_001", up |-> CreateSqlConnectionTable]
      /\ G[37] = [name |-> "sql_connections_002", up |-> AddAllowedTablesColumn]
  <2>0. 35 \in Nat /\ 2 \in Nat /\ 37 \in Nat /\ 35 + 2 <= 37
    OBVIOUS
  <2>1. At(G, SqlConnectionMigrationList, 35, 2)
    BY ONLY <2>0, <1>8, <1>2, AtAt
  <2>2. /\ G[36] = SqlConnectionMigrationList[1]
        /\ G[37] = SqlConnectionMigrationList[2]
    BY <2>1 DEF At
  <2> QED
    BY <2>2 DEF SqlConnectionMigrationList
<1>d. /\ G[38] = [name |-> "vector_db_001", up |-> CreateVectorDbTable]
      /\ G[39] = [name |-> "vector_db_002", up |-> AddSchemaImprovements]
      /\ G[40] = [name |-> "vector_db_003", up |-> CreateIngestionJobTable]
  <2>0. 37 \in Nat /\ 3 \in Nat /\ 40 \in Nat /\ 37 + 3 <= 40
    OBVIOUS
  <2>1. At(G, VectorDbMigrationList, 37, 3)
    BY ONLY <2>0, <1>8, <1>3, AtAt
  <2>2. /\ G[38] = VectorDbMigrationList[1]
        /\ G[39] = VectorDbMigrationList[2]
        /\ G[40] = VectorDbMigrationList[3]
    BY <2>1 DEF At
  <2> QED
    BY <2>2 DEF VectorDbMigrationList
<1>e. /\ G[41] = [name |-> "projects_001", up |-> CreateProjectTables]
      /\ G[42] = [name |-> "projects_001a", up |-> EnsureProjectColumns]
      /\ G[43] = [name |-> "projects_001b", up |-> EnsureProjectConstraints]
      /\ G[44] = [name |-> "projects_001c", up |-> ResetLegacyProjectSchema]
      /\ G[45] = [name |-> "projects_002", up |-> BackfillGeneralProjects]
      /\ G[46] = [name |-> "projects_003", up |-> SeedAirweaveAllowlist]
      /\ G[47] = [name |-> "projects_004", up |-> ExtendKindConstraintForVectorDb]
  <2>0. 40 \in Nat /\ 7 \in Nat /\ 47 \in Nat /\ 40 + 7 <= 47
    OBVIOUS
  <2>1. At(G, ProjectMigrationList, 40, 7)
    BY ONLY <2>0, <1>8, <1>4, AtAt
  <2>2. /\ G[41] = ProjectMigrationList[1]
        /\ G[42] = ProjectMigrationList[2]
        /\ G[43] = ProjectMigrationList[3]
        /\ G[44] = ProjectMigrationList[4]
        /\ G[45] = ProjectMigrationList[5]
        /\ G[46] = ProjectMigrationList[6]
        /\ G[47] = ProjectMigrationList[7]
    BY <2>1 DEF At
  <2> QED
    BY <2>2 DEF ProjectMigrationList
<1>f. /\ G[48] = [name |-> "chat_001", up |-> CreateConversationAndMessageTables]
      /\ G[49] = [name |-> "chat_002", up |-> RemoveLegacyProjectScope]
      /\ G[50] = [name |-> "chat_003", up |-> AddProjectIdToConversation]
      /\ G[51] = [name |-> "chat_004", up |-> BackfillConversationProjectId]
      /\ G[52] = [name |-> "chat_005", up |-> EnforceConversationProjectIdNotNull]
  <2>0. 47 \in Nat /\ 5 \in Nat /\ 52 \in Nat /\ 47 + 5 <= 52
    OBVIOUS
  <2>1. At(G, ChatMigrationList, 47, 5)
    BY ONLY <2>0, <1>8, <1>5, AtAt
  <2>2. /\ G[48] = ChatMigrationList[1]
        /\ G[49] = ChatMigrationList[2]
        /\ G[50] = ChatMigrationList[3]
        /\ G[51] = ChatMigrationList[4]
        /\ G[52] = ChatMigrationList[5]
    BY <2>1 DEF At
  <2> QED
    BY <2>2 DEF ChatMigrationList
<1>g. /\ G[53] = [name |-> "embed_site_001", up |-> CreateEmbedSiteTable]
      /\ G[54] = [name |-> "embed_site_002", up |-> CreateEmbedUsageCounterTable]
  <2>1. At(G, EmbedSiteMigrationList, 52, 2)
    BY <1>6
  <2>2. /\ G[53] = EmbedSiteMigrationList[1]
        /\ G[54] = EmbedSiteMigrationList[2]
    BY <2>1 DEF At
  <2> QED
    BY <2>2 DEF EmbedSiteMigrationList
<1> QED
  BY <1>7, <1>9, <1>a, <1>b, <1>c, <1>d, <1>e, <1>f, <1>g

-----------------------------------------------------------------------------
(* What the statements are that migrations send.                           *)

Fits(s, i, O) ==
    /\ s \in Statements
    /\ IF s.do \in {"unless", "if one of"}
         THEN \A l \in DOMAIN s.then : SentBy(s.then[l], i, O)
         ELSE SentBy(s, i, O)

LEMMA SendableNone == \A i, O : Sendable(<<>>, i, O)
BY DEF Sendable

LEMMA SendableOne ==
    ASSUME NEW O, NEW s, NEW i, Fits(s, i, O)
    PROVE  Sendable(<<s>>, i, O)
<1>0. s \in Statements
  BY DEF Fits
<1>1. <<s>> \in Seq(Statements) /\ DOMAIN <<s>> = {1} /\ <<s>>[1] = s
  BY ONLY <1>0
<1> QED
  BY <1>1 DEF Sendable, Fits

LEMMA SendableJoin ==
    ASSUME NEW O, NEW a, NEW b, NEW i, Sendable(a, i, O), Sendable(b, i, O)
    PROVE  Sendable(a \o b, i, O)
<1>1. a \in Seq(Statements) /\ b \in Seq(Statements)
  BY DEF Sendable
<1>2. a \o b \in Seq(Statements)
  BY <1>1
<1>3. \A k \in DOMAIN (a \o b) :
          \/ k \in DOMAIN a /\ (a \o b)[k] = a[k]
          \/ k - Len(a) \in DOMAIN b /\ (a \o b)[k] = b[k - Len(a)]
  BY <1>1
<1> QED
  BY <1>2, <1>3 DEF Sendable

LEMMA SendableHeadTail ==
    ASSUME NEW O, NEW t, NEW i, Sendable(t, i, O), t # <<>>
    PROVE  Fits(Head(t), i, O) /\ Sendable(Tail(t), i, O)
<1>1. t \in Seq(Statements)
  BY DEF Sendable
<1>2. /\ Head(t) = t[1] /\ 1 \in DOMAIN t /\ t[1] \in Statements /\ Tail(t) \in Seq(Statements)
      /\ \A k \in DOMAIN Tail(t) : k + 1 \in DOMAIN t /\ Tail(t)[k] = t[k + 1]
  BY <1>1
<1> QED
  BY <1>2 DEF Sendable, Fits

(* Data definition.                                                        *)
LEMMA CreateSendable ==
    ASSUME NEW O, NEW i, NEW table \in Tables, NEW needs \in SUBSET Facts, NEW columns \in SUBSET Facts,
           "project" \in columns \cup {table} =>
              i \in {41, 42, 44} /\ "project name unique" \in columns
    PROVE  Sendable(Create(table, needs, columns), i, O)
<1> DEFINE s == [do |-> "create", table |-> table, needs |-> needs, adds |-> columns \cup {table}]
<1>1. s \in Ddl
  BY DEF Ddl, Facts
<1>2. s \in Statements
  BY <1>1 DEF Statements, Simple
<1>3. SentBy(s, i, O)
  <2>1. s \notin RoleStatements
    BY DEF RoleStatements
  <2> QED
    BY <2>1 DEF SentBy
<1>4. Fits(s, i, O)
  BY <1>2, <1>3 DEF Fits
<1> QED
  BY <1>4, SendableOne DEF Create

LEMMA AlterSendable ==
    ASSUME NEW O, NEW i, NEW needs \in SUBSET Facts, NEW adds \in SUBSET Facts,
           NEW drops \in SUBSET Facts, "project" \notin adds,
           drops \cap Kept = {} \/ (i = 39 /\ drops = {"org_vector_db.status_error"})
    PROVE  Sendable(Alter(needs, adds, drops), i, O)
<1> DEFINE s == [do |-> "alter", needs |-> needs, adds |-> adds, drops |-> drops]
<1>1. s \in Ddl
  BY DEF Ddl
<1>2. s \in Statements
  BY <1>1 DEF Statements, Simple
<1>3. SentBy(s, i, O)
  <2>1. s \notin RoleStatements
    BY DEF RoleStatements
  <2>2. drops \cap Kept # {} => i = 39 /\ drops \cap Kept = {"org_vector_db.status_error"}
    BY DEF Kept
  <2> QED
    BY <2>1, <2>2 DEF SentBy
<1>4. Fits(s, i, O)
  BY <1>2, <1>3 DEF Fits
<1> QED
  BY <1>4, SendableOne DEF Alter

LEMMA IndexSendable ==
    ASSUME NEW O, NEW i, NEW table \in Facts
    PROVE  Sendable(Index(table), i, O)
<1>1. {table} \in SUBSET Facts /\ {} \in SUBSET Facts /\ "project" \notin {} /\ {} \cap Kept = {}
  OBVIOUS
<1> QED
  BY <1>1, AlterSendable DEF Index

LEMMA RbacTablesSendable ==
    ASSUME NEW O, NEW i, NEW what \in {"create rbac tables", "scope roles"}
    PROVE  Sendable(Sql(what), i, O)
<1> DEFINE s == [do |-> what]
<1>1. s \in Statements
  BY DEF Ddl, Statements, Simple
<1>2. s \notin RoleStatements
  BY DEF RoleStatements
<1>3. SentBy(s, i, O)
  BY <1>2 DEF SentBy
<1> QED
  BY <1>1, <1>3, SendableOne DEF Fits, Sql

LEMMA CreateInDdl ==
    ASSUME NEW table \in Tables, NEW needs \in SUBSET Facts, NEW columns \in SUBSET Facts
    PROVE  Create(table, needs, columns) \in Seq(Ddl \cup TableDrops)
<1> DEFINE S == Ddl \cup TableDrops
<1>1. columns \cup {table} \in SUBSET Facts
  BY DEF Facts
<1>2. [do |-> "create", table |-> table, needs |-> needs, adds |-> columns \cup {table}] \in S
  BY <1>1 DEF Ddl
<1> HIDE DEF S
<1>3. Create(table, needs, columns) \in Seq(S)
  BY <1>2 DEF Create
<1> QED
  BY <1>3 DEF S

LEMMA AlterInDdl ==
    ASSUME NEW needs \in SUBSET Facts, NEW adds \in SUBSET Facts, NEW drops \in SUBSET Facts
    PROVE  Alter(needs, adds, drops) \in Seq(Ddl \cup TableDrops)
<1> DEFINE S == Ddl \cup TableDrops
<1>1. [do |-> "alter", needs |-> needs, adds |-> adds, drops |-> drops] \in S
  BY DEF Ddl
<1> HIDE DEF S
<1>2. Alter(needs, adds, drops) \in Seq(S)
  BY <1>1 DEF Alter
<1> QED
  BY <1>2 DEF S

(* Users.                                                                  *)
LEMMA UserSendable ==
    ASSUME NEW O, NEW i, NEW s \in UserStatements,
           s.do = "member role" => s.to # "none" /\ "none" \notin s.from
    PROVE  Sendable(<<s>>, i, O)
<1>1. s \in Statements
  BY DEF Statements, Simple
<1>2. s \notin RoleStatements
  BY DEF UserStatements, RoleStatements
<1>3. s.do \in {"platform role", "member role", "role default", "remove superadmin members",
                "approve pending users"}
  BY DEF UserStatements
<1>4. SentBy(s, i, O)
  BY <1>2, <1>3 DEF SentBy
<1> QED
  BY <1>1, <1>3, <1>4, SendableOne DEF Fits

LEMMA RolesOfUsersSendable ==
    ASSUME NEW O, NEW i, NEW from \in SUBSET RoleNames, NEW to \in RoleNames
    PROVE  /\ Sendable(PlatformRole(from, to), i, O)
           /\ to # "none" /\ "none" \notin from => Sendable(MemberRole(from, to), i, O)
           /\ Sendable(RoleDefault(to), i, O)
           /\ Sendable(Sql("remove superadmin members"), i, O)
           /\ Sendable(Sql("approve pending users"), i, O)
BY UserSendable DEF PlatformRole, MemberRole, RoleDefault, Sql, UserStatements

(* Roles and permissions.                                                  *)
LEMMA DefaultsInCatalogue ==
    ASSUME NEW name \in DefaultNames
    PROVE  DefaultsOf(name) \subseteq AdminDefaults /\ AdminDefaults \subseteq Catalogue
BY DEF DefaultNames, DefaultsOf, AdminDefaults, ManagerDefaults, MemberDefaults, Catalogue, On, Crud

LEMMA RoleSendable ==
    ASSUME NEW O, NEW i \in RbacPlan, NEW s \in RoleStatements, SentBy(s, i, O)
    PROVE  Sendable(<<s>>, i, O)
<1>1. s \in Statements
  BY DEF Statements, Simple
<1>2. s.do \notin {"unless", "if one of"}
  BY DEF RoleStatements
<1> QED
  BY <1>1, <1>2, SendableOne DEF Fits

LEMMA RegisterSendable ==
    ASSUME NEW O, NEW i \in RbacPlan, NEW perms \in SUBSET Catalogue,
           <<"organization", "manage-members">> \in perms => i = 21
    PROVE  Sendable(Register(perms), i, O)
<1> DEFINE s == [do |-> "register", perms |-> perms]
<1>1. s \in RoleStatements
  BY DEF RoleStatements
<1>2. SentBy(s, i, O)
  BY DEF SentBy
<1> QED
  BY <1>1, <1>2, RoleSendable DEF Register

LEMMA UnregisterSendable ==
    ASSUME NEW O, NEW perms \in SUBSET Phantoms
    PROVE  Sendable(Unregister(perms), 27, O)
<1> DEFINE s == [do |-> "unassign", perms |-> perms]
           t == [do |-> "unregister", perms |-> perms]
<1>1. s \in RoleStatements /\ t \in RoleStatements
  BY DEF RoleStatements
<1>2. SentBy(s, 27, O) /\ SentBy(t, 27, O) /\ 27 \in RbacPlan
  BY DEF SentBy, RbacPlan
<1>3. Sendable(<<s>>, 27, O) /\ Sendable(<<t>>, 27, O)
  BY <1>1, <1>2, RoleSendable
<1>4. Unregister(perms) = <<s>> \o <<t>>
  BY DEF Unregister
<1> QED
  BY <1>3, <1>4, SendableJoin

LEMMA GrantSendable ==
    ASSUME NEW O, NEW i \in RbacPlan, NEW role \in DefaultRows \cup {Superadmin},
           NEW perms \in SUBSET (Catalogue \cup Every),
           i <= 18 \/ role = Superadmin \/ perms = DefaultsOf(role[2])
    PROVE  Sendable(Grant(role, perms), i, O)
<1> DEFINE s == [do |-> "grant", role |-> role, perms |-> perms]
<1>1. s \in RoleStatements
  BY DEF RoleStatements
<1>2. SentBy(s, i, O)
  BY DEF SentBy, RbacPlan
<1> QED
  BY <1>1, <1>2, RoleSendable DEF Grant

LEMMA InsertRoleSendable ==
    ASSUME NEW O, NEW i \in RbacPlan, NEW role \in DefaultRows \cup {Superadmin},
           i = 13 \/ (i = 18 /\ role \in (Organizations \X DefaultNames) \cup {Superadmin}),
           role[1] \in O \cup {Platform}
    PROVE  Sendable(InsertRole(role), i, O)
<1> DEFINE s == [do |-> "role", role |-> role]
<1>1. s \in RoleStatements
  BY DEF RoleStatements
<1>2. SentBy(s, i, O)
  BY DEF SentBy
<1> QED
  BY <1>1, <1>2, RoleSendable DEF InsertRole

LEMMA InheritSendable ==
    ASSUME NEW O, NEW i \in RbacPlan, NEW holding \in {CanUpdate, CanRead},
           NEW perms \in SUBSET AdminDefaults,
           perms \cap {CanUpdate, CanRead, <<"embed-site", "delete">>} = {},
           i = 35 => \/ holding = CanUpdate /\ perms = On("embed-site", {"create", "update"})
                     \/ holding = CanRead /\ perms = On("embed-site", {"read"})
    PROVE  Sendable(Inherit(holding, perms), i, O)
<1> DEFINE s == [do |-> "inherit", holding |-> holding, perms |-> perms]
<1>1. s \in RoleStatements
  BY DEF RoleStatements
<1>2. i = 35 => s \in {Inherit(CanUpdate, On("embed-site", {"create", "update"}))[1],
                       Inherit(CanRead, On("embed-site", {"read"}))[1]}
  BY DEF Inherit
<1>3. SentBy(s, i, O)
  BY <1>2 DEF SentBy
<1> QED
  BY <1>1, <1>3, RoleSendable DEF Inherit

LEMMA RenameSendable ==
    ASSUME NEW O, NEW old \in {"moderator", "user"}, NEW new \in {"manager", "member"}
    PROVE  Sendable(RenameRole(old, new), 12, O)
<1> DEFINE s == [do |-> "rename role", old |-> old, new |-> new]
<1>1. s \in RoleStatements
  BY DEF RoleStatements
<1>2. SentBy(s, 12, O) /\ 12 \in RbacPlan
  BY DEF SentBy, RbacPlan
<1> QED
  BY <1>1, <1>2, RoleSendable DEF RenameRole

LEMMA SqlOfRolesSendable ==
    ASSUME NEW O, NEW i \in RbacPlan, NEW what \in
             {"admins manage members", "drop platform roles", "redesign organizations",
              "seed organization", "seed roles"},
           what \in {"drop platform roles", "redesign organizations"} => i = 18,
           what = "admins manage members" => i = 21,
           what \in {"seed organization", "seed roles"} => i = 23,
           what = "seed roles" => Default \in O
    PROVE  Sendable(Sql(what), i, O)
<1> DEFINE s == [do |-> what]
<1>1. s \in RoleStatements
  BY DEF RoleStatements
<1>2. SentBy(s, i, O)
  BY DEF SentBy
<1> QED
  BY <1>1, <1>2, RoleSendable DEF Sql

LEMMA SyncSendable ==
    ASSUME NEW O, NEW i \in RbacPlan, NEW scope \in Scopes, NEW names \in SUBSET DefaultNames
    PROVE  Sendable(SyncScope(scope, names), i, O)
<1>1. ASSUME NEW name \in DefaultNames
      PROVE  Sendable(SyncRolePermissions(<<scope, name>>), i, O)
  <2> DEFINE role == <<scope, name>>
             s == [do |-> "restrict", role |-> role, perms |-> DefaultsOf(role[2])]
  <2>1. role \in DefaultRows /\ role[2] = name
    BY DEF DefaultRows
  <2>2. DefaultsOf(role[2]) \in SUBSET Catalogue
    BY <2>1, DefaultsInCatalogue
  <2>3. s \in RoleStatements
    BY <2>1, <2>2 DEF RoleStatements
  <2>4. SentBy(s, i, O)
    BY DEF SentBy
  <2>5. Sendable(<<s>>, i, O)
    BY <2>3, <2>4, RoleSendable
  <2>6. Sendable(Grant(role, DefaultsOf(role[2])), i, O)
    BY <2>1, <2>2, GrantSendable
  <2> QED
    BY <2>5, <2>6, SendableJoin DEF SyncRolePermissions
<1> DEFINE Part(name) == IF name \in names THEN SyncRolePermissions(<<scope, name>>) ELSE <<>>
<1>2. \A name \in DefaultNames : Sendable(Part(name), i, O)
  BY <1>1, SendableNone
<1>3. Sendable(Part("admin"), i, O) /\ Sendable(Part("manager"), i, O) /\ Sendable(Part("member"), i, O)
  BY <1>2 DEF DefaultNames
<1>4. SyncScope(scope, names) = (Part("admin") \o Part("manager")) \o Part("member")
  BY DEF SyncScope
<1> HIDE DEF Part
<1> QED
  BY <1>3, <1>4, SendableJoin

LEMMA SyncOrganizationsSendable ==
    ASSUME NEW O, NEW i \in RbacPlan, NEW names \in SUBSET DefaultNames, i = 35 => names = DefaultNames
    PROVE  Sendable(SyncOrganizations(names), i, O)
<1> DEFINE s == [do |-> "organizations", names |-> names]
<1>1. s \in RoleStatements
  BY DEF RoleStatements
<1>2. SentBy(s, i, O)
  BY DEF SentBy
<1> QED
  BY <1>1, <1>2, RoleSendable DEF SyncOrganizations

LEMMA AddFamilySendable ==
    ASSUME NEW O, NEW i \in RbacPlan, NEW perms \in SUBSET AdminDefaults
    PROVE  /\ Sendable(Register(perms), i, O) /\ Sendable(GrantSuperadmin(perms), i, O)
           /\ Sendable(AddFamily(perms), i, O)
<1>1. /\ perms \subseteq Catalogue /\ <<"organization", "manage-members">> \notin perms
      /\ Platform \in Scopes
  BY DEF Catalogue, AdminDefaults, On, Crud, Scopes
<1>2. Sendable(Register(perms), i, O)
  BY <1>1, RegisterSendable
<1>3. Sendable(GrantSuperadmin(perms), i, O)
  BY <1>1, GrantSendable DEF GrantSuperadmin
<1>4. Sendable(SyncGlobalRoles, i, O)
  BY <1>1, SyncSendable DEF SyncGlobalRoles
<1>5. Sendable(SyncOrganizations(DefaultNames), i, O)
  BY SyncOrganizationsSendable
<1> QED
  BY <1>2, <1>3, <1>4, <1>5, SendableJoin DEF AddFamily

(* Projects and conversations.                                             *)
LEMMA ProjectSendable ==
    ASSUME NEW O, NEW i, NEW s \in ProjectStatements, SentBy(s, i, O)
    PROVE  Sendable(<<s>>, i, O)
<1>1. s \in Statements
  BY DEF Statements, Simple
<1>2. s.do \notin {"unless", "if one of"}
  BY DEF ProjectStatements, TableDrops
<1> QED
  BY <1>1, <1>2, SendableOne DEF Fits

LEMMA SqlOfProjectsSendable ==
    ASSUME NEW O, NEW i, NEW what \in
             {"drop project_data_source", "drop project", "backfill organizations", "seed allowlists",
              "drop conversation.project_id", "backfill conversations",
              "require conversation.project_id"},
           what \in {"drop project_data_source", "drop project"} => i \in {42, 44},
           what = "backfill organizations" => i = 45, what = "seed allowlists" => i = 46,
           what = "drop conversation.project_id" => i = 49, what = "backfill conversations" => i = 51,
           what = "require conversation.project_id" => i = 52
    PROVE  Sendable(Sql(what), i, O)
<1> DEFINE s == [do |-> what]
<1>1. s \in ProjectStatements
  BY DEF ProjectStatements, TableDrops
<1>2. s \notin RoleStatements
  BY DEF RoleStatements
<1>3. SentBy(s, i, O)
  BY <1>2 DEF SentBy
<1> QED
  BY <1>1, <1>3, ProjectSendable DEF Sql

LEMMA RoundSendable ==
    ASSUME NEW O, NEW o \in Organizations, NEW value \in {"legacy", "empty"}
    PROVE  /\ Sendable(<<[do |-> "general", org |-> o]>>, 45, O)
           /\ Sendable(<<[do |-> "attach legacy", org |-> o]>>, 45, O)
           /\ Sendable(<<[do |-> "allow", org |-> o, value |-> value]>>, 46, O)
<1> DEFINE s == [do |-> "general", org |-> o]
           t == [do |-> "attach legacy", org |-> o]
           u == [do |-> "allow", org |-> o, value |-> value]
<1>1. s \in ProjectStatements /\ t \in ProjectStatements /\ u \in ProjectStatements
  BY DEF ProjectStatements, TableDrops
<1>2. s \notin RoleStatements /\ t \notin RoleStatements /\ u \notin RoleStatements
  BY DEF RoleStatements
<1>3. SentBy(s, 45, O) /\ SentBy(t, 45, O) /\ SentBy(u, 46, O)
  BY <1>2 DEF SentBy
<1> QED
  BY <1>1, <1>3, ProjectSendable

(* Loops and conditions.                                                   *)
LoopFits(i, body, names) ==
    \/ body = "sync" /\ i \in RbacPlan /\ names \in SUBSET DefaultNames /\ (i = 35 => names = DefaultNames)
    \/ body = "redesign" /\ i = 18 /\ names \in SUBSET DefaultNames
    \/ body = "backfill" /\ i = 45 /\ names \in SUBSET DefaultNames
    \/ body = "allow" /\ i = 46 /\ names \in SUBSET DefaultNames

LEMMA LoopSendable ==
    ASSUME NEW O, NEW i, NEW orgs \in SUBSET Organizations, orgs \subseteq O,
           NEW body, NEW names, LoopFits(i, body, names)
    PROVE  Sendable(Loop(body, orgs, names), i, O)
<1> DEFINE s == [do |-> "for each", body |-> body, orgs |-> orgs, names |-> names]
<1>1. s \in Loops
  BY DEF Loops, LoopFits
<1>2. s \in Statements
  BY <1>1 DEF Statements, Simple
<1>3. SentBy(s, i, O)
  <2>1. s \notin RoleStatements
    BY DEF RoleStatements
  <2> QED
    BY <2>1 DEF SentBy, LoopFits
<1> QED
  BY <1>2, <1>3, SendableOne DEF Fits, Loop

LEMMA ConditionalSendable ==
    ASSUME NEW O, NEW i, NEW facts \in SUBSET Facts, NEW then \in Seq(Ddl \cup TableDrops),
           Sendable(then, i, O)
    PROVE  Sendable(UnlessHas(facts, then), i, O) /\ Sendable(IfHasOneOf(facts, then), i, O)
<1> DEFINE s == [do |-> "unless", facts |-> facts, then |-> then]
           t == [do |-> "if one of", facts |-> facts, then |-> then]
<1>1. s \in Statements /\ t \in Statements
  BY DEF Statements, Conditional
<1>2. \A l \in DOMAIN then : SentBy(then[l], i, O)
  <2>1. \A r \in Ddl \cup TableDrops : r.do \notin {"unless", "if one of"}
    BY DEF Ddl, TableDrops
  <2>2. \A l \in DOMAIN then : then[l] \in Ddl \cup TableDrops
    OBVIOUS
  <2> QED
    BY <2>1, <2>2 DEF Sendable
<1>3. Fits(s, i, O) /\ Fits(t, i, O)
  BY <1>1, <1>2 DEF Fits
<1> QED
  BY <1>3, SendableOne DEF UnlessHas, IfHasOneOf

-----------------------------------------------------------------------------
(* The migrations.                                                         *)
LEMMA KnownFacts ==
    /\ {} \in SUBSET Facts
    /\ {"user"} \in SUBSET Facts
    /\ {"jwks.expiresAt"} \in SUBSET Facts
    /\ {"organization", "user"} \in SUBSET Facts
    /\ {"jwks"} \in SUBSET Facts
    /\ {"member"} \in SUBSET Facts
    /\ {"member roles checked"} \in SUBSET Facts
    /\ {"invitation"} \in SUBSET Facts
    /\ {"invitation roles checked"} \in SUBSET Facts
    /\ {"user role checked"} \in SUBSET Facts
    /\ {"user.approvalStatus"} \in SUBSET Facts
    /\ {"user.rejectionReason"} \in SUBSET Facts
    /\ {"roles.is_system"} \in SUBSET Facts
    /\ {"roles.is_default"} \in SUBSET Facts
    /\ {"project.created_by_user_id", "project name unique"} \in SUBSET Facts
    /\ {"project"} \in SUBSET Facts
    /\ {"project.created_by_user_id"} \in SUBSET Facts
    /\ {"project name unique"} \in SUBSET Facts
    /\ {"project.airweave_collection_id", "project.discovery", "project.data_collection"} \in SUBSET Facts
    /\ {"conversation"} \in SUBSET Facts
    /\ {"conversation", "project"} \in SUBSET Facts
    /\ {"conversation.project_id"} \in SUBSET Facts
    /\ {"organization"} \in SUBSET Facts
    /\ {"org_sql_connection"} \in SUBSET Facts
    /\ {"org_sql_connection.allowed_tables"} \in SUBSET Facts
    /\ {"org_vector_db.qdrant_collection", "org_vector_db.status_error"} \in SUBSET Facts
    /\ {"org_vector_db"} \in SUBSET Facts
    /\ {"org_vector_db.vector_store_ref"} \in SUBSET Facts
    /\ {"org_vector_db.qdrant_collection"} \in SUBSET Facts
    /\ {"org_vector_db.status_error_new"} \in SUBSET Facts
    /\ {"org_vector_db.status_error"} \in SUBSET Facts
    /\ {"org_vector_db.version"} \in SUBSET Facts
    /\ {"organization", "project"} \in SUBSET Facts
    /\ "user" \in Tables /\ "session" \in Tables /\ "account" \in Tables /\ "verification" \in Tables
    /\ "jwks" \in Tables /\ "organization" \in Tables /\ "member" \in Tables /\ "invitation" \in Tables
    /\ "project" \in Tables /\ "project_data_source" \in Tables /\ "conversation" \in Tables
    /\ "message" \in Tables /\ "org_sql_connection" \in Tables /\ "org_vector_db" \in Tables
    /\ "vector_db_ingestion_job" \in Tables /\ "embed_site" \in Tables
    /\ "embed_usage_counter" \in Tables
    /\ "user" \in Facts /\ "session" \in Facts /\ "account" \in Facts /\ "member" \in Facts
    /\ "invitation" \in Facts /\ "user.approvalStatus" \in Facts /\ "project" \in Facts
    /\ "project_data_source" \in Facts /\ "conversation" \in Facts /\ "message" \in Facts
    /\ "conversation.project_id" \in Facts /\ "org_sql_connection" \in Facts
    /\ "org_vector_db" \in Facts /\ "vector_db_ingestion_job" \in Facts /\ "embed_site" \in Facts
BY DEF Facts, Tables, FactsOfProject

LEMMA KnownRoles ==
    /\ {"owner"} \in SUBSET RoleNames /\ {"moderator"} \in SUBSET RoleNames
    /\ {"user"} \in SUBSET RoleNames /\ {"admin"} \in SUBSET RoleNames
    /\ {"admin", "manager", "member", "moderator", "user"} \in SUBSET RoleNames
    /\ "admin" \in RoleNames /\ "manager" \in RoleNames /\ "member" \in RoleNames
    /\ "none" \in RoleNames /\ "superadmin" \in RoleNames
BY DEF RoleNames

LEMMA KnownDrops ==
    /\ {} \cap Kept = {}
    /\ {"member roles checked"} \cap Kept = {}
    /\ {"invitation roles checked"} \cap Kept = {}
    /\ {"user role checked"} \cap Kept = {}
    /\ {"roles.is_system"} \cap Kept = {}
    /\ {"org_vector_db.qdrant_collection"} \cap Kept = {}
    /\ {"org_vector_db.status_error_new"} \cap Kept = {}
BY DEF Kept

LEMMA CoreSendable ==
    ASSUME NEW O, NEW i
    PROVE  /\ Sendable(BetterAuthCoreTables, i, O) /\ Sendable(BetterAuthOrganizationTables, i, O)
           /\ Sendable(CoreIndexes, i, O) /\ Sendable(JwksExpiresAtColumn, i, O)
           /\ Sendable(EnforceUnifiedOrgMemberRoles, i, O) /\ Sendable(DropRoleCheckConstraints, i, O)
           /\ Sendable(RestrictUserRoleToPlatform, i, O) /\ Sendable(DropUserRoleCheckConstraint, i, O)
           /\ Sendable(AddUserApprovalStatus, i, O) /\ Sendable(RenameIsSystemToIsDefault, i, O)
<1>1. Sendable(BetterAuthCoreTables, i, O)
  <2>1. Sendable(Create("user", {}, {}), i, O)
    BY KnownFacts, CreateSendable
  <2>2. Sendable(Create("session", {"user"}, {}), i, O)
    BY KnownFacts, CreateSendable
  <2>3. Sendable(Create("account", {"user"}, {}), i, O)
    BY KnownFacts, CreateSendable
  <2>4. Sendable(Create("verification", {}, {}), i, O)
    BY KnownFacts, CreateSendable
  <2>5. Sendable(Create("jwks", {}, {"jwks.expiresAt"}), i, O)
    BY KnownFacts, CreateSendable
  <2> QED
    BY <2>1, <2>2, <2>3, <2>4, <2>5, SendableJoin DEF BetterAuthCoreTables
<1>2. Sendable(BetterAuthOrganizationTables, i, O)
  <2>1. Sendable(Create("organization", {}, {}), i, O)
    BY KnownFacts, CreateSendable
  <2>2. Sendable(Create("member", {"organization", "user"}, {}), i, O)
    BY KnownFacts, CreateSendable
  <2>3. Sendable(Create("invitation", {"organization", "user"}, {}), i, O)
    BY KnownFacts, CreateSendable
  <2> QED
    BY <2>1, <2>2, <2>3, SendableJoin DEF BetterAuthOrganizationTables
<1>3. Sendable(CoreIndexes, i, O)
  <2>1. Sendable(Index("user"), i, O)
    BY KnownFacts, IndexSendable
  <2>2. Sendable(Index("session"), i, O)
    BY KnownFacts, IndexSendable
  <2>3. Sendable(Index("account"), i, O)
    BY KnownFacts, IndexSendable
  <2>4. Sendable(Index("member"), i, O)
    BY KnownFacts, IndexSendable
  <2>5. Sendable(Index("invitation"), i, O)
    BY KnownFacts, IndexSendable
  <2> QED
    BY <2>1, <2>2, <2>3, <2>4, <2>5, SendableJoin DEF CoreIndexes
<1>4. Sendable(JwksExpiresAtColumn, i, O)
  <2>1. Sendable(Alter({"jwks"}, {"jwks.expiresAt"}, {}), i, O)
    BY KnownFacts, KnownDrops, AlterSendable
  <2> QED
    BY <2>1, SendableJoin DEF JwksExpiresAtColumn
<1>5. Sendable(EnforceUnifiedOrgMemberRoles, i, O)
  <2>1. Sendable(MemberRole({"owner"}, "admin"), i, O)
    BY KnownRoles, RolesOfUsersSendable
  <2>2. Sendable(Alter({"member"}, {"member roles checked"}, {}), i, O)
    BY KnownFacts, KnownDrops, AlterSendable
  <2>3. Sendable(Alter({"invitation"}, {"invitation roles checked"}, {}), i, O)
    BY KnownFacts, KnownDrops, AlterSendable
  <2> QED
    BY <2>1, <2>2, <2>3, SendableJoin DEF EnforceUnifiedOrgMemberRoles
<1>6. Sendable(DropRoleCheckConstraints, i, O)
  <2>1. Sendable(Alter({"member"}, {}, {"member roles checked"}), i, O)
    BY KnownFacts, KnownDrops, AlterSendable
  <2>2. Sendable(Alter({"invitation"}, {}, {"invitation roles checked"}), i, O)
    BY KnownFacts, KnownDrops, AlterSendable
  <2>3. Sendable(RoleDefault("none"), i, O)
    BY KnownRoles, RolesOfUsersSendable
  <2> QED
    BY <2>1, <2>2, <2>3, SendableJoin DEF DropRoleCheckConstraints
<1>7. Sendable(RestrictUserRoleToPlatform, i, O)
  <2>1. Sendable(PlatformRole({"admin", "manager", "member", "moderator", "user"}, "none"), i, O)
    BY KnownRoles, RolesOfUsersSendable
  <2>2. Sendable(Alter({"user"}, {"user role checked"}, {}), i, O)
    BY KnownFacts, KnownDrops, AlterSendable
  <2> QED
    BY <2>1, <2>2, SendableJoin DEF RestrictUserRoleToPlatform
<1>8. Sendable(DropUserRoleCheckConstraint, i, O)
  <2>1. Sendable(Alter({"user"}, {}, {"user role checked"}), i, O)
    BY KnownFacts, KnownDrops, AlterSendable
  <2>2. Sendable(Alter({"user"}, {"user role checked"}, {}), i, O)
    BY KnownFacts, KnownDrops, AlterSendable
  <2> QED
    BY <2>1, <2>2, SendableJoin DEF DropUserRoleCheckConstraint
<1>9. Sendable(AddUserApprovalStatus, i, O)
  <2>1. Sendable(Alter({"user"}, {"user.approvalStatus"}, {}), i, O)
    BY KnownFacts, KnownDrops, AlterSendable
  <2>2. Sendable(Alter({"user"}, {"user.rejectionReason"}, {}), i, O)
    BY KnownFacts, KnownDrops, AlterSendable
  <2>3. Sendable(Sql("approve pending users"), i, O)
    BY KnownRoles, RolesOfUsersSendable
  <2>4. Sendable(Index("user.approvalStatus"), i, O)
    BY KnownFacts, IndexSendable
  <2> QED
    BY <2>1, <2>2, <2>3, <2>4, SendableJoin DEF AddUserApprovalStatus
<1>10. Sendable(RenameIsSystemToIsDefault, i, O)
  <2> DEFINE then == Alter({"roles.is_system"}, {"roles.is_default"}, {"roles.is_system"})
  <2>1. Sendable(then, i, O)
    BY KnownFacts, KnownDrops, AlterSendable
  <2>2. then \in Seq(Ddl \cup TableDrops)
    BY KnownFacts, CreateInDdl, AlterInDdl
  <2> HIDE DEF then
  <2> QED
    BY KnownFacts, <2>1, <2>2, ConditionalSendable DEF RenameIsSystemToIsDefault, then
<1> QED
  BY <1>1, <1>2, <1>3, <1>4, <1>5, <1>6, <1>7, <1>8, <1>9, <1>10

LEMMA ServicesSendable ==
    ASSUME NEW O, NEW i
    PROVE  /\ Sendable(CreateSqlConnectionTable, i, O) /\ Sendable(AddAllowedTablesColumn, i, O)
           /\ Sendable(CreateVectorDbTable, i, O) /\ Sendable(AddSchemaImprovements, 39, O)
           /\ Sendable(CreateIngestionJobTable, i, O) /\ Sendable(CreateEmbedSiteTable, i, O)
           /\ Sendable(CreateEmbedUsageCounterTable, i, O)
<1>1. Sendable(CreateSqlConnectionTable, i, O)
  <2>1. Sendable(Create("org_sql_connection", {"organization"}, {}), i, O)
    BY KnownFacts, CreateSendable
  <2>2. Sendable(Index("org_sql_connection"), i, O)
    BY KnownFacts, IndexSendable
  <2> QED
    BY <2>1, <2>2, SendableJoin DEF CreateSqlConnectionTable
<1>2. Sendable(AddAllowedTablesColumn, i, O)
  <2>1. Sendable(Alter({"org_sql_connection"}, {"org_sql_connection.allowed_tables"}, {}), i, O)
    BY KnownFacts, KnownDrops, AlterSendable
  <2> QED
    BY <2>1, SendableJoin DEF AddAllowedTablesColumn
<1>3. Sendable(CreateVectorDbTable, i, O)
  <2>1. Sendable(Create("org_vector_db", {"organization"}, {"org_vector_db.qdrant_collection", "org_vector_db.status_error"}),
                 i, O)
    BY KnownFacts, CreateSendable
  <2>2. Sendable(Index("org_vector_db"), i, O)
    BY KnownFacts, IndexSendable
  <2> QED
    BY <2>1, <2>2, SendableJoin DEF CreateVectorDbTable
<1>4. Sendable(AddSchemaImprovements, 39, O)
  <2>1. Sendable(Alter({"org_vector_db"}, {"org_vector_db.vector_store_ref"}, {}), 39, O)
    BY KnownFacts, KnownDrops, AlterSendable
  <2>2. Sendable(Alter({"org_vector_db.qdrant_collection"}, {}, {}), 39, O)
    BY KnownFacts, KnownDrops, AlterSendable
  <2>3. Sendable(Alter({"org_vector_db"}, {}, {"org_vector_db.qdrant_collection"}), 39, O)
    BY KnownFacts, KnownDrops, AlterSendable
  <2>4. Sendable(Alter({"org_vector_db"}, {"org_vector_db.status_error_new"}, {}), 39, O)
    BY KnownFacts, KnownDrops, AlterSendable
  <2>5. Sendable(Alter({"org_vector_db.status_error"}, {}, {}), 39, O)
    BY KnownFacts, KnownDrops, AlterSendable
  <2>6. Sendable(Alter({"org_vector_db"}, {}, {"org_vector_db.status_error"}), 39, O)
    BY KnownFacts, KnownDrops, AlterSendable
  <2>7. Sendable(Alter({"org_vector_db.status_error_new"}, {"org_vector_db.status_error"}, {"org_vector_db.status_error_new"}),
                 39, O)
    BY KnownFacts, KnownDrops, AlterSendable
  <2>8. Sendable(Alter({"org_vector_db"}, {"org_vector_db.version"}, {}), 39, O)
    BY KnownFacts, KnownDrops, AlterSendable
  <2> QED
    BY <2>1, <2>2, <2>3, <2>4, <2>5, <2>6, <2>7, <2>8, SendableJoin DEF AddSchemaImprovements
<1>5. Sendable(CreateIngestionJobTable, i, O)
  <2>1. Sendable(Create("vector_db_ingestion_job", {"org_vector_db"}, {}), i, O)
    BY KnownFacts, CreateSendable
  <2>2. Sendable(Index("vector_db_ingestion_job"), i, O)
    BY KnownFacts, IndexSendable
  <2> QED
    BY <2>1, <2>2, SendableJoin DEF CreateIngestionJobTable
<1>6. Sendable(CreateEmbedSiteTable, i, O)
  <2>1. Sendable(Create("embed_site", {"organization", "project"}, {}), i, O)
    BY KnownFacts, CreateSendable
  <2>2. Sendable(Index("embed_site"), i, O)
    BY KnownFacts, IndexSendable
  <2> QED
    BY <2>1, <2>2, SendableJoin DEF CreateEmbedSiteTable
<1>7. Sendable(CreateEmbedUsageCounterTable, i, O)
  <2>1. Sendable(Create("embed_usage_counter", {"organization"}, {}), i, O)
    BY KnownFacts, CreateSendable
  <2> QED
    BY <2>1, SendableJoin DEF CreateEmbedUsageCounterTable
<1> QED
  BY <1>1, <1>2, <1>3, <1>4, <1>5, <1>6, <1>7

LEMMA ProjectsSendable ==
    ASSUME NEW O
    PROVE  /\ Sendable(CreateProjectTables, 41, O) /\ Sendable(EnsureProjectColumns, 42, O)
           /\ Sendable(EnsureProjectConstraints, 43, O) /\ Sendable(ResetLegacyProjectSchema, 44, O)
           /\ Sendable(BackfillGeneralProjects, 45, O) /\ Sendable(SeedAirweaveAllowlist, 46, O)
           /\ Sendable(ExtendKindConstraintForVectorDb, 47, O)
<1>1. ASSUME NEW i \in {41, 42, 44}
      PROVE  Sendable(CreateProjectTables, i, O)
  <2>1. Sendable(Create("project", {"organization", "user"}, {"project.created_by_user_id", "project name unique"}),
                 i, O)
    BY KnownFacts, CreateSendable
  <2>2. Sendable(Index("project"), i, O)
    BY KnownFacts, IndexSendable
  <2>3. Sendable(Create("project_data_source", {"project"}, {}), i, O)
    BY KnownFacts, CreateSendable
  <2>4. Sendable(Index("project_data_source"), i, O)
    BY KnownFacts, IndexSendable
  <2> QED
    BY <2>1, <2>2, <2>3, <2>4, SendableJoin DEF CreateProjectTables
<1>2. ASSUME NEW i \in {42, 44}
      PROVE  Sendable(RebuildProjectTables, i, O)
  <2>1. Sendable(Sql("drop project_data_source"), i, O) /\ Sendable(Sql("drop project"), i, O)
    <3>1. [do |-> "drop project_data_source"] \in ProjectStatements
          /\ [do |-> "drop project"] \in ProjectStatements
      BY DEF ProjectStatements, TableDrops
    <3> QED
      BY SqlOfProjectsSendable
  <2>2. Sendable(CreateProjectTables, i, O)
    BY <1>1
  <2> QED
    BY <2>1, <2>2, SendableJoin DEF RebuildProjectTables
<1>3. RebuildProjectTables \in Seq(Ddl \cup TableDrops)
  <2> DEFINE S == Ddl \cup TableDrops
  <2>1. Create("project", {"organization", "user"}, {"project.created_by_user_id", "project name unique"})
          \in Seq(S)
    BY KnownFacts, CreateInDdl, AlterInDdl
  <2>2. Index("project") \in Seq(S)
    BY KnownFacts, CreateInDdl, AlterInDdl DEF Index
  <2>3. Create("project_data_source", {"project"}, {}) \in Seq(S)
    BY KnownFacts, CreateInDdl, AlterInDdl
  <2>4. Index("project_data_source") \in Seq(S)
    BY KnownFacts, CreateInDdl, AlterInDdl DEF Index
  <2>5. [do |-> "drop project_data_source"] \in S /\ [do |-> "drop project"] \in S
    BY DEF ProjectStatements, TableDrops
  <2> HIDE DEF S
  <2>6. Sql("drop project_data_source") \in Seq(S) /\ Sql("drop project") \in Seq(S)
    <3>1. \A s \in S : <<s>> \in Seq(S)
      OBVIOUS
    <3> QED
      BY <2>5, <3>1 DEF Sql
  <2>7. \A a, b \in Seq(S) : a \o b \in Seq(S)
    OBVIOUS
  <2>8. CreateProjectTables \in Seq(S)
    BY <2>1, <2>2, <2>3, <2>4, <2>7 DEF CreateProjectTables
  <2>9. RebuildProjectTables \in Seq(S)
    BY <2>6, <2>7, <2>8 DEF RebuildProjectTables
  <2> QED
    BY <2>9 DEF S
<1>4. Sendable(EnsureProjectColumns, 42, O)
  BY <1>2, <1>3, KnownFacts, ConditionalSendable DEF EnsureProjectColumns
<1>5. Sendable(EnsureProjectConstraints, 43, O)
  <2> DEFINE then == Alter({"project"}, {"project name unique"}, {})
  <2>1. Sendable(then, 43, O)
    BY KnownFacts, KnownDrops, AlterSendable
  <2>2. then \in Seq(Ddl \cup TableDrops)
    BY KnownFacts, CreateInDdl, AlterInDdl
  <2> HIDE DEF then
  <2> QED
    BY <2>1, <2>2, KnownFacts, ConditionalSendable DEF EnsureProjectConstraints, then
<1>6. Sendable(ResetLegacyProjectSchema, 44, O)
  BY <1>2, <1>3, KnownFacts, ConditionalSendable DEF ResetLegacyProjectSchema
<1>7. Sendable(BackfillGeneralProjects, 45, O) /\ Sendable(SeedAirweaveAllowlist, 46, O)
  BY SqlOfProjectsSendable DEF BackfillGeneralProjects, SeedAirweaveAllowlist
<1>8. Sendable(ExtendKindConstraintForVectorDb, 47, O)
  <2>1. Sendable(Index("project_data_source"), 47, O)
    BY KnownFacts, IndexSendable
  <2> QED
    BY <2>1, SendableJoin DEF ExtendKindConstraintForVectorDb
<1> QED
  BY <1>1, <1>4, <1>5, <1>6, <1>7, <1>8

LEMMA ChatSendable ==
    ASSUME NEW O
    PROVE  /\ Sendable(CreateConversationAndMessageTables, 48, O) /\ Sendable(RemoveLegacyProjectScope, 49, O)
           /\ Sendable(AddProjectIdToConversation, 50, O) /\ Sendable(BackfillConversationProjectId, 51, O)
           /\ Sendable(EnforceConversationProjectIdNotNull, 52, O)
<1>1. Sendable(CreateConversationAndMessageTables, 48, O)
  <2>1. Sendable(Create("conversation", {"organization", "user"}, {}), 48, O)
    BY KnownFacts, CreateSendable
  <2>2. Sendable(Index("conversation"), 48, O)
    BY KnownFacts, IndexSendable
  <2>3. Sendable(Create("message", {"conversation"}, {}), 48, O)
    BY KnownFacts, CreateSendable
  <2>4. Sendable(Index("message"), 48, O)
    BY KnownFacts, IndexSendable
  <2> QED
    BY <2>1, <2>2, <2>3, <2>4, SendableJoin DEF CreateConversationAndMessageTables
<1>2. /\ Sendable(RemoveLegacyProjectScope, 49, O) /\ Sendable(BackfillConversationProjectId, 51, O)
      /\ Sendable(EnforceConversationProjectIdNotNull, 52, O)
  BY SqlOfProjectsSendable
     DEF RemoveLegacyProjectScope, BackfillConversationProjectId, EnforceConversationProjectIdNotNull
<1>3. Sendable(AddProjectIdToConversation, 50, O)
  <2>1. Sendable(Alter({"conversation", "project"}, {"conversation.project_id"}, {}), 50, O)
    BY KnownFacts, KnownDrops, AlterSendable
  <2>2. Sendable(Index("conversation.project_id"), 50, O)
    BY KnownFacts, IndexSendable
  <2> QED
    BY <2>1, <2>2, SendableJoin DEF AddProjectIdToConversation
<1> QED
  BY <1>1, <1>2, <1>3

LEMMA FirstRbacSendable ==
    ASSUME NEW O
    PROVE  /\ Sendable(CreateRbacTables, 11, O) /\ Sendable(MigrateOldRoleNames, 12, O)
           /\ Sendable(SeedDefaultData, 13, O) /\ Sendable(AddManagerOrganizationCreatePermission, 14, O)
           /\ Sendable(BackfillRolePermissions, 15, O) /\ Sendable(AssignAllPermissionsToAdmin, 16, O)
           /\ Sendable(AddRoleOrganizationScope, 17, O)
           /\ Sendable(RedesignSuperadminAndOrganizationRoles, 18, O)
           /\ Sendable(NormalizeOrganizationDefaultRolePermissions, 19, O)
           /\ Sendable(RemoveSuperadminOrganizationMemberships, 20, O)
           /\ Sendable(AddManageMembersPermission, 21, O) /\ Sendable(AssignAdminFullPermissions, 22, O)
           /\ Sendable(SeedDefaultOrganization, 23, O)
<1>0. /\ \A i \in 11 .. 35 : i \in RbacPlan
      /\ 11 \in RbacPlan /\ 12 \in RbacPlan /\ 13 \in RbacPlan /\ 14 \in RbacPlan
      /\ 16 \in RbacPlan /\ 17 \in RbacPlan /\ 18 \in RbacPlan /\ 19 \in RbacPlan
      /\ 21 \in RbacPlan /\ 22 \in RbacPlan /\ 23 \in RbacPlan
  BY DEF RbacPlan
<1>1. \A o \in Scopes, name \in DefaultNames : <<o, name>> \in DefaultRows
  BY DEF DefaultRows
<1>2. Platform \in Scopes /\ "admin" \in DefaultNames /\ "manager" \in DefaultNames
      /\ "member" \in DefaultNames
  BY DEF Scopes, DefaultNames
<1>3. \A i \in 13 .. 16 : Sendable(OldGrants, i, O)
  <2>1. /\ OldManagerPermissions \in SUBSET (Catalogue \cup Every)
        /\ OldMemberPermissions \in SUBSET (Catalogue \cup Every)
        /\ Every \in SUBSET (Catalogue \cup Every)
    BY DEF OldManagerPermissions, OldMemberPermissions, Catalogue, AdminDefaults, On, Crud
  <2>2. ASSUME NEW i \in 13 .. 16
        PROVE  /\ Sendable(Grant(<<Platform, "admin">>, Every), i, O)
               /\ Sendable(Grant(<<Platform, "manager">>, OldManagerPermissions), i, O)
               /\ Sendable(Grant(<<Platform, "member">>, OldMemberPermissions), i, O)
    BY <1>0, <1>1, <1>2, <2>1, GrantSendable
  <2> QED
    BY <2>2, SendableJoin DEF OldGrants
<1>4. Sendable(CreateRbacTables, 11, O) /\ Sendable(AddRoleOrganizationScope, 17, O)
      /\ Sendable(SeedDefaultOrganization, 23, O)
  <2>1. Sendable(Sql("create rbac tables"), 11, O)
    BY RbacTablesSendable
  <2>2. Sendable(Sql("scope roles"), 17, O)
    BY RbacTablesSendable
  <2>3. Sendable(Sql("seed organization"), 23, O)
    BY <1>0, SqlOfRolesSendable
  <2> QED
    BY <2>1, <2>2, <2>3 DEF CreateRbacTables, AddRoleOrganizationScope, SeedDefaultOrganization
<1>5. Sendable(MigrateOldRoleNames, 12, O)
  <2>1. Sendable(RenameRole("moderator", "manager"), 12, O)
    BY RenameSendable
  <2>2. Sendable(RenameRole("user", "member"), 12, O)
    BY RenameSendable
  <2>3. Sendable(PlatformRole({"moderator"}, "manager"), 12, O)
    BY KnownRoles, RolesOfUsersSendable
  <2>4. Sendable(PlatformRole({"user"}, "member"), 12, O)
    BY KnownRoles, RolesOfUsersSendable
  <2>5. Sendable(MemberRole({"moderator"}, "manager"), 12, O)
    BY KnownRoles, RolesOfUsersSendable
  <2>6. Sendable(MemberRole({"user"}, "member"), 12, O)
    BY KnownRoles, RolesOfUsersSendable
  <2>7. Sendable(RoleDefault("member"), 12, O)
    BY KnownRoles, RolesOfUsersSendable
  <2> QED
    BY <2>1, <2>2, <2>3, <2>4, <2>5, <2>6, <2>7, SendableJoin DEF MigrateOldRoleNames
<1>6. Sendable(SeedDefaultData, 13, O)
  <2> DEFINE perms == On("user", Crud \cup {"ban", "impersonate", "set-role", "set-password"})
                       \cup On("session", {"read", "revoke"})
                       \cup On("organization", Crud \cup {"invite"})
                       \cup On("project", Crud) \cup On("role", Crud \cup {"assign"})
  <2>1. perms \subseteq Catalogue /\ <<"organization", "manage-members">> \notin perms
    BY DEF Catalogue, AdminDefaults, On, Crud
  <2> HIDE DEF perms
  <2>2. Sendable(Register(perms), 13, O)
    BY <1>0, <2>1, RegisterSendable
  <2>3. /\ Sendable(InsertRole(<<Platform, "admin">>), 13, O)
        /\ Sendable(InsertRole(<<Platform, "manager">>), 13, O)
        /\ Sendable(InsertRole(<<Platform, "member">>), 13, O)
    BY <1>0, <1>1, <1>2, InsertRoleSendable
  <2> QED
    BY <1>3, <2>2, <2>3, SendableJoin DEF SeedDefaultData, perms
<1>7. Sendable(AddManagerOrganizationCreatePermission, 14, O)
  <2> DEFINE perms == On("organization", {"create"})
  <2>1. perms \subseteq Catalogue /\ <<"organization", "manage-members">> \notin perms
    BY DEF Catalogue, On
  <2> HIDE DEF perms
  <2>2. Sendable(Register(perms), 14, O)
    BY <1>0, <2>1, RegisterSendable
  <2>3. Sendable(Grant(<<Platform, "manager">>, perms), 14, O)
    BY <1>0, <1>1, <1>2, <2>1, GrantSendable
  <2> QED
    BY <2>2, <2>3, SendableJoin DEF AddManagerOrganizationCreatePermission, perms
<1>8. Sendable(BackfillRolePermissions, 15, O)
  BY <1>3 DEF BackfillRolePermissions
<1>9. Sendable(AssignAllPermissionsToAdmin, 16, O)
  BY <1>0, <1>1, <1>2, GrantSendable DEF AssignAllPermissionsToAdmin
<1>10. Sendable(RedesignSuperadminAndOrganizationRoles, 18, O)
  <2>1. Sendable(PlatformRole({"admin"}, "superadmin"), 18, O)
    BY KnownRoles, RolesOfUsersSendable
  <2>2. Sendable(Sql("drop platform roles"), 18, O)
    BY <1>0, SqlOfRolesSendable
  <2>5. Sendable(Sql("redesign organizations"), 18, O)
    BY <1>0, SqlOfRolesSendable
  <2>3. Sendable(InsertRole(Superadmin), 18, O)
    <3>1. Superadmin[1] \in O \cup {Platform} /\ 18 \in RbacPlan
      BY <1>0 DEF Superadmin
    <3> QED
      BY <3>1, InsertRoleSendable
  <2>4. Sendable(GrantSuperadmin(Every), 18, O)
    BY <1>0, GrantSendable DEF GrantSuperadmin
  <2> QED
    BY <2>1, <2>2, <2>3, <2>4, <2>5, SendableJoin DEF RedesignSuperadminAndOrganizationRoles
<1>11. /\ Sendable(NormalizeOrganizationDefaultRolePermissions, 19, O)
       /\ Sendable(AssignAdminFullPermissions, 22, O)
  BY <1>0, <1>2, SyncOrganizationsSendable
     DEF NormalizeOrganizationDefaultRolePermissions, AssignAdminFullPermissions
<1>12. Sendable(RemoveSuperadminOrganizationMemberships, 20, O)
  BY KnownRoles, RolesOfUsersSendable DEF RemoveSuperadminOrganizationMemberships
<1>13. Sendable(AddManageMembersPermission, 21, O)
  <2> DEFINE perms == On("organization", {"manage-members"})
  <2>1. perms \subseteq Catalogue
    BY DEF Catalogue, On
  <2> HIDE DEF perms
  <2>2. Sendable(Register(perms), 21, O)
    BY <1>0, <2>1, RegisterSendable
  <2>3. Sendable(GrantSuperadmin(perms), 21, O)
    BY <1>0, <2>1, GrantSendable DEF GrantSuperadmin
  <2>4. Sendable(Sql("admins manage members"), 21, O)
    BY <1>0, SqlOfRolesSendable
  <2> QED
    BY <2>2, <2>3, <2>4, SendableJoin DEF AddManageMembersPermission, perms
<1> QED
  BY <1>4, <1>5, <1>6, <1>7, <1>8, <1>9, <1>10, <1>11, <1>12, <1>13

LEMMA LaterRbacSendable ==
    ASSUME NEW O
    PROVE  /\ Sendable(AddProjectPermissions, 24, O) /\ Sendable(AddChatPermissions, 25, O)
           /\ Sendable(AddUserApprovePermission, 26, O) /\ Sendable(RemovePhantomPermissions, 27, O)
           /\ Sendable(AddDashboardPermission, 28, O) /\ Sendable(RestoreProjectPermissions, 29, O)
           /\ Sendable(AddAirweavePermissions, 30, O) /\ Sendable(AddSqlConnectionPermissions, 31, O)
           /\ Sendable(AddVectorDbPermissions, 32, O) /\ Sendable(RevokeManagerVectorDbDelete, 33, O)
           /\ Sendable(AddVectorDbUploadPermission, 34, O) /\ Sendable(AddEmbedSitePermissions, 35, O)
<1>0. \A i \in 11 .. 35 : i \in RbacPlan
  BY DEF RbacPlan
<1>1. /\ On("project", Crud) \in SUBSET AdminDefaults
      /\ On("chat", {"read", "create", "stream", "delete"}) \in SUBSET AdminDefaults
      /\ On("user", {"approve"}) \in SUBSET AdminDefaults
      /\ On("dashboard", {"view"}) \in SUBSET AdminDefaults
      /\ On("project", Crud \cup {"manage-sources"}) \in SUBSET AdminDefaults
      /\ On("airweave", Crud \cup {"manage-sources"}) \in SUBSET AdminDefaults
      /\ On("sql-connection", Crud) \in SUBSET AdminDefaults
      /\ On("vector-db", Crud) \in SUBSET AdminDefaults
      /\ On("vector-db", {"upload"}) \in SUBSET AdminDefaults
      /\ On("embed-site", Crud) \in SUBSET AdminDefaults
  BY DEF AdminDefaults, On, Crud
<1>2. \A names \in SUBSET DefaultNames, i \in 11 .. 34 : Sendable(SyncOrganizations(names), i, O)
  BY <1>0, SyncOrganizationsSendable
<1>3. {"admin"} \in SUBSET DefaultNames /\ {"manager"} \in SUBSET DefaultNames
      /\ {"admin", "manager"} \in SUBSET DefaultNames /\ Platform \in Scopes
  BY DEF DefaultNames, Scopes
<1>4. Sendable(AddProjectPermissions, 24, O)
  <2>1. Sendable(Register(On("project", Crud)), 24, O)
    BY <1>0, <1>1, AddFamilySendable
  <2>2. Sendable(SyncGlobalRoles, 24, O)
    BY <1>0, <1>3, SyncSendable DEF SyncGlobalRoles
  <2>3. Sendable(SyncOrganizations(DefaultNames), 24, O)
    BY <1>2
  <2> QED
    BY <2>1, <2>2, <2>3, SendableJoin DEF AddProjectPermissions
<1>5. Sendable(AddChatPermissions, 25, O)
  BY <1>0, <1>1, <1>2, AddFamilySendable, SendableJoin DEF AddChatPermissions
<1>6. Sendable(AddUserApprovePermission, 26, O)
  BY <1>0, <1>1, <1>2, <1>3, AddFamilySendable, SendableJoin DEF AddUserApprovePermission
<1>7. Sendable(RemovePhantomPermissions, 27, O)
  <2>1. /\ On("project", Crud \cup {"manage-sources"}) \subseteq Phantoms
        /\ On("organization", {"manage-members"}) \subseteq Phantoms
    BY DEF Phantoms
  <2> QED
    BY <2>1, UnregisterSendable, SendableJoin DEF RemovePhantomPermissions
<1>8. Sendable(AddDashboardPermission, 28, O)
  BY <1>0, <1>1, <1>2, <1>3, AddFamilySendable, SendableJoin DEF AddDashboardPermission
<1>9. Sendable(RestoreProjectPermissions, 29, O) /\ Sendable(AddAirweavePermissions, 30, O)
  <2>1. Sendable(AddFamily(On("project", Crud \cup {"manage-sources"})), 29, O)
    <3> DEFINE perms == On("project", Crud \cup {"manage-sources"})
    <3>1. perms \in SUBSET AdminDefaults
      BY <1>1
    <3> HIDE DEF perms
    <3>2. Sendable(AddFamily(perms), 29, O)
      BY <1>0, <3>1, AddFamilySendable
    <3> QED
      BY <3>2 DEF perms
  <2>2. Sendable(AddFamily(On("airweave", Crud \cup {"manage-sources"})), 30, O)
    <3> DEFINE perms == On("airweave", Crud \cup {"manage-sources"})
    <3>1. perms \in SUBSET AdminDefaults
      BY <1>1
    <3> HIDE DEF perms
    <3>2. Sendable(AddFamily(perms), 30, O)
      BY <1>0, <3>1, AddFamilySendable
    <3> QED
      BY <3>2 DEF perms
  <2> QED
    BY <2>1, <2>2 DEF RestoreProjectPermissions, AddAirweavePermissions
<1>10. /\ On("sql-connection", {"create", "update", "delete"}) \in SUBSET AdminDefaults
       /\ On("sql-connection", {"read"}) \in SUBSET AdminDefaults
       /\ On("vector-db", {"create", "update", "delete"}) \in SUBSET AdminDefaults
       /\ On("vector-db", {"read"}) \in SUBSET AdminDefaults
       /\ On("embed-site", {"create", "update"}) \in SUBSET AdminDefaults
       /\ On("embed-site", {"read"}) \in SUBSET AdminDefaults
  BY DEF AdminDefaults, On, Crud
<1>11. \A f \in {"sql-connection", "vector-db"} :
          /\ On(f, {"create", "update", "delete"}) \cap {CanUpdate, CanRead, <<"embed-site", "delete">>} = {}
          /\ On(f, {"read"}) \cap {CanUpdate, CanRead, <<"embed-site", "delete">>} = {}
          /\ On(f, {"upload"}) \cap {CanUpdate, CanRead, <<"embed-site", "delete">>} = {}
  BY DEF On, CanUpdate, CanRead
<1>12. Sendable(AddSqlConnectionPermissions, 31, O)
  <2>1. Sendable(AddFamily(On("sql-connection", Crud)), 31, O)
    BY <1>0, <1>1, AddFamilySendable
  <2>2. /\ Sendable(Inherit(CanUpdate, On("sql-connection", {"create", "update", "delete"})), 31, O)
        /\ Sendable(Inherit(CanRead, On("sql-connection", {"read"})), 31, O)
    BY <1>0, <1>10, <1>11, InheritSendable
  <2> QED
    BY <2>1, <2>2, SendableJoin DEF AddSqlConnectionPermissions
<1>13. Sendable(AddVectorDbPermissions, 32, O)
  <2>1. Sendable(AddFamily(On("vector-db", Crud)), 32, O)
    BY <1>0, <1>1, AddFamilySendable
  <2>2. /\ Sendable(Inherit(CanUpdate, On("vector-db", {"create", "update", "delete"})), 32, O)
        /\ Sendable(Inherit(CanRead, On("vector-db", {"read"})), 32, O)
    BY <1>0, <1>10, <1>11, InheritSendable
  <2> QED
    BY <2>1, <2>2, SendableJoin DEF AddVectorDbPermissions
<1>14. Sendable(RevokeManagerVectorDbDelete, 33, O)
  BY <1>0, <1>2, <1>3, SyncSendable, SendableJoin DEF RevokeManagerVectorDbDelete
<1>15. Sendable(AddVectorDbUploadPermission, 34, O)
  <2>1. Sendable(AddFamily(On("vector-db", {"upload"})), 34, O)
    BY <1>0, <1>1, AddFamilySendable
  <2>2. Sendable(Inherit(CanUpdate, On("vector-db", {"upload"})), 34, O)
    <3> DEFINE perms == On("vector-db", {"upload"})
    <3>1. /\ perms \in SUBSET AdminDefaults /\ 34 \in RbacPlan /\ CanUpdate \in {CanUpdate, CanRead}
          /\ perms \cap {CanUpdate, CanRead, <<"embed-site", "delete">>} = {}
      BY <1>0, <1>1, <1>11
    <3> HIDE DEF perms
    <3>2. Sendable(Inherit(CanUpdate, perms), 34, O)
      BY ONLY <3>1, InheritSendable
    <3> QED
      BY <3>2 DEF perms
  <2> QED
    BY <2>1, <2>2, SendableJoin DEF AddVectorDbUploadPermission
<1>16. Sendable(AddEmbedSitePermissions, 35, O)
  <2>1. Sendable(AddFamily(On("embed-site", Crud)), 35, O)
    BY <1>0, <1>1, AddFamilySendable
  <2>2. /\ On("embed-site", {"create", "update"}) \cap {CanUpdate, CanRead, <<"embed-site", "delete">>} = {}
        /\ On("embed-site", {"read"}) \cap {CanUpdate, CanRead, <<"embed-site", "delete">>} = {}
    BY DEF On, CanUpdate, CanRead
  <2>3. /\ Sendable(Inherit(CanUpdate, On("embed-site", {"create", "update"})), 35, O)
        /\ Sendable(Inherit(CanRead, On("embed-site", {"read"})), 35, O)
    BY <1>0, <1>10, <2>2, InheritSendable
  <2> QED
    BY <2>1, <2>3, SendableJoin DEF AddEmbedSitePermissions
<1> QED
  BY <1>4, <1>5, <1>6, <1>7, <1>8, <1>9, <1>12, <1>13, <1>14, <1>15, <1>16

\* Whatever migration a node looks up, it is one that sends such statements.
LEMMA PlanSendable ==
    ASSUME NEW O, NEW i \in DOMAIN BootPlan
    PROVE  Sendable(BootPlan[i].up, i, O)
<1>1. i \in 1 .. 54
  BY Plan
<1>2. CASE i \in 1 .. 10
  BY <1>2, Plan, CoreSendable
<1>3. CASE i \in 11 .. 23
  BY <1>3, Plan, FirstRbacSendable
<1>4. CASE i \in 24 .. 35
  <2>1. CASE i \in 24 .. 29
    BY <2>1, Plan, LaterRbacSendable
  <2>2. CASE i \in 30 .. 35
    BY <2>2, Plan, LaterRbacSendable
  <2> QED
    BY <1>4, <2>1, <2>2
<1>5. CASE i \in {36, 37, 38, 39, 40, 53, 54}
  <2>1. CASE i = 36
    BY <2>1, Plan, ServicesSendable
  <2>2. CASE i = 37
    BY <2>2, Plan, ServicesSendable
  <2>3. CASE i = 38
    BY <2>3, Plan, ServicesSendable
  <2>4. CASE i = 39
    <3>1. BootPlan[39].up = AddSchemaImprovements
      BY Plan
    <3>2. Sendable(AddSchemaImprovements, 39, O)
      BY ServicesSendable
    <3> QED
      BY <2>4, <3>1, <3>2
  <2>5. CASE i = 40
    BY <2>5, Plan, ServicesSendable
  <2>6. CASE i = 53
    BY <2>6, Plan, ServicesSendable
  <2>7. CASE i = 54
    BY <2>7, Plan, ServicesSendable
  <2> QED
    BY <1>5, <2>1, <2>2, <2>3, <2>4, <2>5, <2>6, <2>7
<1>6. CASE i \in 41 .. 47
  BY <1>6, Plan, ProjectsSendable
<1>7. CASE i \in 48 .. 52
  BY <1>7, Plan, ChatSendable
<1> QED
  BY <1>1, <1>2, <1>3, <1>4, <1>5, <1>6, <1>7

-----------------------------------------------------------------------------
(* What a statement does.                                                  *)

Shape(d) ==
    d = [recorded |-> d.recorded, schema |-> d.schema, catalog |-> d.catalog, grants |-> d.grants,
         orgs |-> d.orgs, userRole |-> d.userRole, roleDefault |-> d.roleDefault,
         memberRole |-> d.memberRole, approved |-> d.approved, legacy |-> d.legacy,
         allowed |-> d.allowed, general |-> d.general, sources |-> d.sources,
         inProject |-> d.inProject]
SameUsers(d, e) ==
    /\ e.userRole = d.userRole /\ e.roleDefault = d.roleDefault
    /\ e.memberRole = d.memberRole /\ e.approved = d.approved
SameProjects(d, e) ==
    /\ e.schema = d.schema /\ e.allowed = d.allowed /\ e.general = d.general
    /\ e.sources = d.sources /\ e.inProject = d.inProject
SameRoles(d, e) == e.catalog = d.catalog /\ e.grants = d.grants /\ e.orgs = d.orgs
SameRest(d, e) == Shape(e) /\ e.recorded = d.recorded /\ e.legacy = d.legacy

LEMMA RoleStatementsAct ==
    ASSUME NEW d, NEW s \in RoleStatements
    PROVE  Effect(s, d) = RbacEffect(s, d)
<1>1. s.do \in {"register", "unassign", "unregister", "role", "grant", "restrict", "inherit",
                "rename role", "admins manage members", "drop platform roles",
                "redesign organizations", "seed organization", "seed roles", "organizations"}
  BY DEF RoleStatements
<1>2. \A e : UserEffect(s, e) = e
  BY <1>1 DEF UserEffect
<1>3. \A e : SchemaEffect(s, e) = e
  BY <1>1 DEF SchemaEffect
<1>4. \A e : ProjectEffect(s, e) = e
  BY <1>1 DEF ProjectEffect
<1> QED
  BY <1>2, <1>3, <1>4 DEF Effect

(* What becomes of the roles: the type of the rows, what lasts and what does not.  *)
RolesTyped(d) ==
    /\ d.catalog \subseteq Catalogue /\ d.orgs \subseteq Organizations
    /\ d.grants = [r \in DOMAIN d.grants |-> d.grants[r]]
    /\ \A r \in DOMAIN d.grants :
          /\ r = <<r[1], r[2]>> /\ r[1] \in d.orgs \cup {Platform}
          /\ d.grants[r] \subseteq d.catalog
CatalogStep(i, d, e) ==
    /\ d.catalog \ Phantoms \subseteq e.catalog /\ (i # 27 => d.catalog \subseteq e.catalog)
    /\ <<"organization", "manage-members">> \in e.catalog \ d.catalog => i = 21
    /\ d.orgs \subseteq e.orgs /\ e.orgs \subseteq d.orgs \cup {Default}
CustomStep(i, s, d, e) ==
    /\ i # 12 \/ NoOldNames(d) => CustomRolesOf(d) \subseteq CustomRolesOf(e)
    /\ \A r \in CustomRolesOf(e) :
          /\ r \in CustomRolesOf(d) /\ d.grants[r] \ Phantoms \subseteq e.grants[r]
          /\ i # 27 => d.grants[r] \subseteq e.grants[r]
          /\ \A p \in e.grants[r] \ d.grants[r] :
                s.do = "inherit" /\ s.holding \in d.grants[r] /\ p \in s.perms
SuperadminStep(i, d, e) ==
    Superadmin \in DOMAIN d.grants =>
        /\ Superadmin \in DOMAIN e.grants /\ d.grants[Superadmin] \ Phantoms \subseteq e.grants[Superadmin]
        /\ i # 27 => d.grants[Superadmin] \subseteq e.grants[Superadmin]
NamesStep(i, d, e) ==
    /\ NoOldNames(d) => NoOldNames(e)
    /\ i \notin {12, 13} /\ NoPlatformDefaults(d) => NoPlatformDefaults(e)
    /\ i = 35 => DefaultRowsOf(e) = DefaultRowsOf(d)
DefaultsStep(s, d, e) ==
    \A r \in DefaultRowsOf(d) :
        /\ \/ d.grants[r] \subseteq DefaultsOf(r[2])
           \/ s.do = "restrict" /\ s.role = r
           => e.grants[r] \subseteq DefaultsOf(r[2])
        /\ \/ DefaultsOf(r[2]) \subseteq d.grants[r]
           \/ s.do = "grant" /\ s.role = r /\ DefaultsOf(r[2]) \subseteq d.catalog
           => DefaultsOf(r[2]) \subseteq e.grants[r]
RolesStep(i, s, d, e) ==
    /\ SameRest(d, e) /\ SameUsers(d, e) /\ SameProjects(d, e) /\ RolesTyped(e)
    /\ CatalogStep(i, d, e) /\ CustomStep(i, s, d, e) /\ SuperadminStep(i, d, e)
    /\ NamesStep(i, d, e) /\ (i = 35 => DefaultsStep(s, d, e))

\* An update of the rows alone, of the permissions alone.
LEMMA GrantsFrame ==
    ASSUME NEW d, NEW e, NEW g, Shape(d), e = [d EXCEPT !.grants = g]
    PROVE  /\ SameRest(d, e) /\ SameUsers(d, e) /\ SameProjects(d, e)
           /\ e.grants = g /\ e.catalog = d.catalog /\ e.orgs = d.orgs
BY DEF Shape, SameRest, SameUsers, SameProjects

LEMMA CatalogFrame ==
    ASSUME NEW d, NEW e, NEW g, NEW c, Shape(d), e = [d EXCEPT !.catalog = c, !.grants = g]
    PROVE  /\ SameRest(d, e) /\ SameUsers(d, e) /\ SameProjects(d, e)
           /\ e.grants = g /\ e.catalog = c /\ e.orgs = d.orgs
BY DEF Shape, SameRest, SameUsers, SameProjects

\* One that leaves the roles as they are.
LEMMA RolesStay ==
    ASSUME NEW i, NEW s, NEW d, RolesTyped(d), NEW e, SameRest(d, e), SameUsers(d, e),
           SameProjects(d, e), SameRoles(d, e), s.do \notin {"restrict", "grant"}
    PROVE  RolesStep(i, s, d, e)
<1>1. e.catalog = d.catalog /\ e.grants = d.grants /\ e.orgs = d.orgs
  BY DEF SameRoles
<1>2. RolesTyped(e)
  BY <1>1 DEF RolesTyped
<1>3. CatalogStep(i, d, e) /\ SuperadminStep(i, d, e)
  BY <1>1 DEF CatalogStep, SuperadminStep
<1>4. CustomStep(i, s, d, e)
  BY <1>1 DEF CustomStep, CustomRolesOf
<1>5. NamesStep(i, d, e)
  BY <1>1 DEF NamesStep, DefaultRowsOf, NoOldNames, NoPlatformDefaults
<1>6. DefaultsStep(s, d, e) \/ i # 35 \/ s.do \in {"restrict", "grant"}
  BY <1>1 DEF DefaultsStep
<1> QED
  BY <1>2, <1>3, <1>4, <1>5, <1>6 DEF RolesStep

LEMMA AssignRows ==
    ASSUME NEW d, Shape(d), RolesTyped(d), NEW R, NEW P, NEW e, e = Assign(d, R, P)
    PROVE  /\ SameRest(d, e) /\ SameUsers(d, e) /\ SameProjects(d, e) /\ RolesTyped(e)
           /\ e.catalog = d.catalog /\ e.orgs = d.orgs /\ DOMAIN e.grants = DOMAIN d.grants
           /\ \A r \in DOMAIN d.grants :
                 e.grants[r] = IF r \in R THEN d.grants[r] \cup Present(d, P) ELSE d.grants[r]
<1> DEFINE g == [r \in DOMAIN d.grants |->
                   IF r \in R THEN d.grants[r] \cup Present(d, P) ELSE d.grants[r]]
<1>1. e = [d EXCEPT !.grants = g]
  BY DEF Assign, Shape
<1>2. /\ SameRest(d, e) /\ SameUsers(d, e) /\ SameProjects(d, e)
      /\ e.grants = g /\ e.catalog = d.catalog /\ e.orgs = d.orgs
  <2> HIDE DEF g
  <2> QED
    BY <1>1, GrantsFrame
<1>3. /\ DOMAIN e.grants = DOMAIN d.grants
      /\ \A r \in DOMAIN d.grants :
            e.grants[r] = IF r \in R THEN d.grants[r] \cup Present(d, P) ELSE d.grants[r]
  BY <1>2
<1>4. Present(d, P) \subseteq d.catalog
  BY DEF Present
<1>5. e.grants = [r \in DOMAIN e.grants |-> e.grants[r]]
  BY <1>2
<1> HIDE DEF g
<1>6. RolesTyped(e)
  BY <1>2, <1>3, <1>4, <1>5 DEF RolesTyped
<1> QED
  BY <1>2, <1>3, <1>6

LEMMA NewRows ==
    ASSUME NEW d, Shape(d), RolesTyped(d), NEW R, NEW e, e = WithRoles(d, R),
           \A r \in R : r = <<r[1], r[2]>> /\ r[1] \in d.orgs \cup {Platform}
    PROVE  /\ SameRest(d, e) /\ SameUsers(d, e) /\ SameProjects(d, e) /\ RolesTyped(e)
           /\ e.catalog = d.catalog /\ e.orgs = d.orgs /\ DOMAIN e.grants = DOMAIN d.grants \cup R
           /\ \A r \in DOMAIN d.grants : e.grants[r] = d.grants[r]
<1> DEFINE g == [r \in DOMAIN d.grants \cup R |-> IF r \in DOMAIN d.grants THEN d.grants[r] ELSE {}]
<1>1. e = [d EXCEPT !.grants = g]
  BY DEF WithRoles, Shape
<1>2. /\ SameRest(d, e) /\ SameUsers(d, e) /\ SameProjects(d, e)
      /\ e.grants = g /\ e.catalog = d.catalog /\ e.orgs = d.orgs
  <2> HIDE DEF g
  <2> QED
    BY <1>1, GrantsFrame
<1>3. /\ DOMAIN e.grants = DOMAIN d.grants \cup R
      /\ \A r \in DOMAIN e.grants :
            e.grants[r] = IF r \in DOMAIN d.grants THEN d.grants[r] ELSE {}
  BY <1>2
<1>5. e.grants = [r \in DOMAIN e.grants |-> e.grants[r]]
  BY <1>2
<1> HIDE DEF g
<1>6. RolesTyped(e)
  BY <1>2, <1>3, <1>5 DEF RolesTyped
<1> QED
  BY <1>2, <1>3, <1>6

-----------------------------------------------------------------------------
(* Statements about roles and permissions.                                 *)

\* Permissions that rows are given.
LEMMA AssignStep ==
    ASSUME NEW i \in Nat, NEW s, NEW d, Shape(d), RolesTyped(d), NEW R, NEW P, NEW e, e = Assign(d, R, P),
           s.do # "restrict",
           \A r \in R \cap CustomRolesOf(d) :
              s.do = "inherit" /\ s.holding \in d.grants[r] /\ Present(d, P) \subseteq s.perms,
           i = 35 => \A r \in R \cap DefaultRowsOf(d) :
              d.grants[r] \subseteq DefaultsOf(r[2]) => Present(d, P) \subseteq DefaultsOf(r[2]),
           s.do = "grant" => /\ s.role \in DefaultRowsOf(d) => s.role \in R
                             /\ i = 35 => \A r \in R \cap DefaultRowsOf(d) :
                                  DefaultsOf(r[2]) \cap d.catalog \subseteq Present(d, P)
    PROVE  RolesStep(i, s, d, e)
<1>1. /\ SameRest(d, e) /\ SameUsers(d, e) /\ SameProjects(d, e) /\ RolesTyped(e)
      /\ e.catalog = d.catalog /\ e.orgs = d.orgs /\ DOMAIN e.grants = DOMAIN d.grants
      /\ \A r \in DOMAIN d.grants :
            e.grants[r] = IF r \in R THEN d.grants[r] \cup Present(d, P) ELSE d.grants[r]
  BY AssignRows
<1>2. CatalogStep(i, d, e) /\ SuperadminStep(i, d, e)
  BY <1>1 DEF CatalogStep, SuperadminStep
<1>3. CustomStep(i, s, d, e)
  BY <1>1 DEF CustomStep, CustomRolesOf
<1>4. NamesStep(i, d, e)
  BY <1>1 DEF NamesStep, DefaultRowsOf, NoOldNames, NoPlatformDefaults
<1>5. i = 35 => DefaultsStep(s, d, e)
  BY <1>1 DEF DefaultsStep, DefaultRowsOf
<1> QED
  BY <1>1, <1>2, <1>3, <1>4, <1>5 DEF RolesStep

\* Rows for default roles, or for superadmin.
LEMMA NewRowsStep ==
    ASSUME NEW i \in Nat, NEW s, NEW d, Shape(d), RolesTyped(d), NEW R, NEW e, e = WithRoles(d, R),
           \A r \in R : /\ r = <<r[1], r[2]>> /\ r[1] \in d.orgs \cup {Platform}
                        /\ r[2] \in DefaultNames \cup {"superadmin"},
           i # 13 => \A r \in R : r[1] = Platform => r[2] = "superadmin",
           i # 35
    PROVE  RolesStep(i, s, d, e)
<1>1. /\ SameRest(d, e) /\ SameUsers(d, e) /\ SameProjects(d, e) /\ RolesTyped(e)
      /\ e.catalog = d.catalog /\ e.orgs = d.orgs /\ DOMAIN e.grants = DOMAIN d.grants \cup R
      /\ \A r \in DOMAIN d.grants : e.grants[r] = d.grants[r]
  BY NewRows
<1>2. CatalogStep(i, d, e) /\ SuperadminStep(i, d, e)
  BY <1>1 DEF CatalogStep, SuperadminStep
<1>3. CustomStep(i, s, d, e)
  BY <1>1 DEF CustomStep, CustomRolesOf
<1>4. NamesStep(i, d, e)
  BY <1>1 DEF NamesStep, DefaultRowsOf, NoOldNames, NoPlatformDefaults, DefaultNames
<1> QED
  BY <1>1, <1>2, <1>3, <1>4 DEF RolesStep

LEMMA RegisterStep ==
    ASSUME NEW i \in Nat, NEW s \in [do : {"register"}, perms : SUBSET Catalogue], NEW O, SentBy(s, i, O),
           NEW d, Shape(d), RolesTyped(d), NEW e, e = RbacEffect(s, d)
    PROVE  RolesStep(i, s, d, e) /\ s.perms \subseteq e.catalog
<1>1. e = [d EXCEPT !.catalog = d.catalog \cup s.perms, !.grants = d.grants]
  BY DEF RbacEffect, Shape
<1>2. /\ SameRest(d, e) /\ SameUsers(d, e) /\ SameProjects(d, e)
      /\ e.grants = d.grants /\ e.catalog = d.catalog \cup s.perms /\ e.orgs = d.orgs
  BY <1>1, CatalogFrame
<1>3. RolesTyped(e)
  BY <1>2 DEF RolesTyped
<1>4. CatalogStep(i, d, e) /\ SuperadminStep(i, d, e)
  BY <1>2 DEF CatalogStep, SuperadminStep, SentBy
<1>5. CustomStep(i, s, d, e)
  BY <1>2 DEF CustomStep, CustomRolesOf
<1>6. NamesStep(i, d, e) /\ DefaultsStep(s, d, e)
  BY <1>2 DEF NamesStep, DefaultsStep, DefaultRowsOf, NoOldNames, NoPlatformDefaults
<1> QED
  BY <1>2, <1>3, <1>4, <1>5, <1>6 DEF RolesStep

LEMMA UnregisterStep ==
    ASSUME NEW i \in Nat, NEW s \in [do : {"unassign", "unregister"}, perms : SUBSET Phantoms], NEW O, SentBy(s, i, O),
           NEW d, Shape(d), RolesTyped(d), NEW e, e = RbacEffect(s, d)
    PROVE  /\ RolesStep(i, s, d, e)
           /\ s.do = "unregister" => \A p \in s.perms : p \notin e.catalog
<1> DEFINE g == [r \in DOMAIN d.grants |-> d.grants[r] \ s.perms]
           c == IF s.do = "unregister" THEN d.catalog \ s.perms ELSE d.catalog
<1>1. e = [d EXCEPT !.catalog = c, !.grants = g]
  BY DEF RbacEffect, Shape
<1>2. /\ SameRest(d, e) /\ SameUsers(d, e) /\ SameProjects(d, e)
      /\ e.grants = g /\ e.catalog = c /\ e.orgs = d.orgs
  <2> HIDE DEF g, c
  <2> QED
    BY <1>1, CatalogFrame
<1>3. /\ DOMAIN e.grants = DOMAIN d.grants /\ e.grants = [r \in DOMAIN e.grants |-> e.grants[r]]
      /\ \A r \in DOMAIN d.grants : e.grants[r] = d.grants[r] \ s.perms
      /\ d.catalog \ s.perms \subseteq e.catalog /\ e.catalog \subseteq d.catalog
  BY <1>2
<1>4. i = 27
  BY DEF SentBy
<1>5. s.perms \subseteq Phantoms
  OBVIOUS
<1>6. RolesTyped(e)
  <2>1. \A r \in DOMAIN d.grants : e.grants[r] \subseteq e.catalog
    BY <1>2, <1>3 DEF RolesTyped
  <2> HIDE DEF g, c
  <2> QED
    BY <1>2, <1>3, <2>1 DEF RolesTyped
<1>7. s.do = "unregister" => e.catalog = d.catalog \ s.perms
  BY <1>2
<1> HIDE DEF g, c
<1>8. CatalogStep(i, d, e) /\ SuperadminStep(i, d, e)
  BY <1>2, <1>3, <1>4, <1>5 DEF CatalogStep, SuperadminStep
<1>9. CustomStep(i, s, d, e)
  BY <1>3, <1>4, <1>5 DEF CustomStep, CustomRolesOf
<1>10. NamesStep(i, d, e)
  BY <1>3, <1>4 DEF NamesStep, DefaultRowsOf, NoOldNames, NoPlatformDefaults
<1> QED
  BY <1>2, <1>4, <1>6, <1>7, <1>8, <1>9, <1>10 DEF RolesStep

LEMMA RestrictStep ==
    ASSUME NEW i \in Nat, NEW s \in [do : {"restrict"}, role : DefaultRows, perms : SUBSET Catalogue],
           NEW O, SentBy(s, i, O), NEW d, Shape(d), RolesTyped(d), NEW e, e = RbacEffect(s, d)
    PROVE  RolesStep(i, s, d, e)
<1> DEFINE g == [r \in DOMAIN d.grants |-> IF r = s.role THEN d.grants[r] \cap s.perms ELSE d.grants[r]]
<1>1. e = [d EXCEPT !.grants = g]
  BY DEF RbacEffect, Shape
<1>2. /\ SameRest(d, e) /\ SameUsers(d, e) /\ SameProjects(d, e)
      /\ e.grants = g /\ e.catalog = d.catalog /\ e.orgs = d.orgs
  <2> HIDE DEF g
  <2> QED
    BY <1>1, GrantsFrame
<1>3. /\ DOMAIN e.grants = DOMAIN d.grants /\ e.grants = [r \in DOMAIN e.grants |-> e.grants[r]]
      /\ \A r \in DOMAIN d.grants :
            e.grants[r] = IF r = s.role THEN d.grants[r] \cap s.perms ELSE d.grants[r]
  BY <1>2
<1>4. s.perms = DefaultsOf(s.role[2]) /\ s.role[2] \in DefaultNames
  BY DEF SentBy, DefaultRows
<1>5. "superadmin" \notin DefaultNames /\ Superadmin[2] = "superadmin"
  BY DEF DefaultNames, Superadmin
<1> HIDE DEF g
<1>6. RolesTyped(e)
  BY <1>2, <1>3 DEF RolesTyped
<1>7. CatalogStep(i, d, e) /\ SuperadminStep(i, d, e)
  BY <1>2, <1>3, <1>4, <1>5 DEF CatalogStep, SuperadminStep
<1>8. CustomStep(i, s, d, e)
  BY <1>3, <1>4 DEF CustomStep, CustomRolesOf
<1>9. NamesStep(i, d, e)
  BY <1>3, <1>4 DEF NamesStep, DefaultRowsOf, NoOldNames, NoPlatformDefaults
<1>10. DefaultsStep(s, d, e)
  <2>1. s.do # "grant"
    OBVIOUS
  <2>2. ASSUME NEW r \in DefaultRowsOf(d)
        PROVE  /\ d.grants[r] \subseteq DefaultsOf(r[2]) \/ s.role = r => e.grants[r] \subseteq DefaultsOf(r[2])
               /\ DefaultsOf(r[2]) \subseteq d.grants[r] => DefaultsOf(r[2]) \subseteq e.grants[r]
    <3>1. r \in DOMAIN d.grants
      BY DEF DefaultRowsOf
    <3>2. CASE r = s.role
      <4>1. e.grants[r] = d.grants[r] \cap DefaultsOf(r[2])
        BY <1>3, <1>4, <3>1, <3>2
      <4> QED
        BY ONLY <4>1
    <3>3. CASE r # s.role
      <4>1. e.grants[r] = d.grants[r]
        BY <1>3, <3>1, <3>3
      <4> QED
        BY ONLY <3>3, <4>1
    <3> QED
      BY <3>2, <3>3
  <2> QED
    BY ONLY <2>1, <2>2 DEF DefaultsStep
<1> QED
  BY <1>2, <1>6, <1>7, <1>8, <1>9, <1>10 DEF RolesStep

LEMMA OnlyThatOne ==
    ASSUME NEW i \in Nat
    PROVE  /\ i = 12 => i # 13 /\ i # 21 /\ i # 27 /\ i # 35
           /\ i = 18 => i # 12 /\ i # 13 /\ i # 21 /\ i # 27 /\ i # 35
OBVIOUS

RowRenamed(q, old, new) == IF q[2] = old THEN <<q[1], new>> ELSE q
RowsRenamed(f, rows, old, new) ==
    /\ \A q \in DOMAIN rows : q = <<q[1], q[2]>> /\ q[2] # new
    /\ f = [r \in {RowRenamed(q, old, new) : q \in DOMAIN rows} |->
              IF r[2] = new THEN rows[<<r[1], old>>] ELSE rows[r]]
LEMMA RenamedRow ==
    ASSUME NEW rows, NEW old, NEW new, NEW f, RowsRenamed(f, rows, old, new),
           NEW q \in DOMAIN rows, NEW r, r = RowRenamed(q, old, new)
    PROVE  /\ r \in DOMAIN f /\ f[r] = rows[q]
           /\ r[1] = q[1] /\ r = <<r[1], r[2]>>
           /\ q[2] # old => r = q
           /\ q[2] = old => r[2] = new
<1>1. r \in DOMAIN f /\ f[r] = IF r[2] = new THEN rows[<<r[1], old>>] ELSE rows[r]
  BY DEF RowsRenamed
<1>2. q = <<q[1], q[2]>> /\ q[2] # new
  BY DEF RowsRenamed
<1> QED
  BY <1>1, <1>2 DEF RowRenamed

LEMMA RenameRowStep ==
    ASSUME NEW i \in Nat, i = 12, NEW s, s.do = "rename role", NEW d, Shape(d), RolesTyped(d),
           NEW old \in {"moderator", "user"}, NEW new \in {"manager", "member"},
           NEW e, e = RenameRoleRow(d, old, new)
    PROVE  RolesStep(i, s, d, e)
<1>0. i = 12
  OBVIOUS
<1>01. i # 13 /\ i # 21 /\ i # 27 /\ i # 35
  BY <1>0, OnlyThatOne
<1>1. CASE \E r \in DOMAIN d.grants : r[2] = new
  <2>1. e = d
    BY <1>1 DEF RenameRoleRow
  <2> QED
    BY <2>1, RolesStay DEF SameRest, SameUsers, SameProjects, SameRoles
<1>2. CASE \A r \in DOMAIN d.grants : r[2] # new
  <2> DEFINE New(q) == RowRenamed(q, old, new)
             g == [r \in {New(q) : q \in DOMAIN d.grants} |->
                     IF r[2] = new THEN d.grants[<<r[1], old>>] ELSE d.grants[r]]
  <2>1. e = [d EXCEPT !.grants = g]
    BY <1>2 DEF RenameRoleRow, RowRenamed, Shape
  <2>2. /\ SameRest(d, e) /\ SameUsers(d, e) /\ SameProjects(d, e)
        /\ e.grants = g /\ e.catalog = d.catalog /\ e.orgs = d.orgs
    <3> HIDE DEF g
    <3> QED
      BY <2>1, GrantsFrame
  <2>3. \A q \in DOMAIN d.grants : q = <<q[1], q[2]>>
    BY DEF RolesTyped
  <2>4. ASSUME NEW q \in DOMAIN d.grants
        PROVE  /\ New(q) \in DOMAIN e.grants /\ e.grants[New(q)] = d.grants[q]
               /\ New(q)[1] = q[1] /\ New(q) = <<New(q)[1], New(q)[2]>>
               /\ q[2] # old => New(q) = q
               /\ q[2] = old => New(q)[2] = new
    <3>1. RowsRenamed(e.grants, d.grants, old, new)
      BY <1>2, <2>2, <2>3 DEF RowsRenamed
    <3>2. New(q) = RowRenamed(q, old, new) /\ q \in DOMAIN d.grants
      OBVIOUS
    <3> HIDE DEF New, g
    <3> QED
      BY ONLY <3>1, <3>2, RenamedRow
  <2>5. \A r \in DOMAIN e.grants : \E q \in DOMAIN d.grants : r = New(q)
    BY <2>2
  <2>6. e.grants = [r \in DOMAIN e.grants |-> e.grants[r]]
    BY <2>2
  <2> HIDE DEF g, New
  <2>7. RolesTyped(e)
    <3>1. ASSUME NEW r \in DOMAIN e.grants
          PROVE  /\ r = <<r[1], r[2]>> /\ r[1] \in d.orgs \cup {Platform}
                 /\ e.grants[r] \subseteq d.catalog
      <4>1. PICK q \in DOMAIN d.grants : r = New(q)
        BY <2>5
      <4>2. q[1] \in d.orgs \cup {Platform} /\ d.grants[q] \subseteq d.catalog
        BY DEF RolesTyped
      <4> QED
        BY <2>4, <4>1, <4>2
    <3> QED
      BY <2>2, <2>6, <3>1 DEF RolesTyped
  <2>8. /\ new \in DefaultNames /\ old \notin DefaultNames
        /\ old \in {"moderator", "user"} /\ old # "superadmin"
        /\ new \notin {"moderator", "user", "superadmin"}
    BY DEF DefaultNames
  <2>9. SuperadminStep(i, d, e)
    <3>1. Superadmin \in DOMAIN d.grants => New(Superadmin) = Superadmin
      BY <2>4, <2>8 DEF Superadmin
    <3> QED
      BY <2>4, <3>1 DEF SuperadminStep
  <2>10. CustomStep(i, s, d, e)
    <3>1. NoOldNames(d) => CustomRolesOf(d) \subseteq CustomRolesOf(e)
      BY <2>4, <2>8 DEF CustomRolesOf, NoOldNames
    <3>2. ASSUME NEW r \in CustomRolesOf(e)
          PROVE  r \in CustomRolesOf(d) /\ e.grants[r] = d.grants[r]
      <4>1. PICK q \in DOMAIN d.grants : r = New(q)
        BY <2>5 DEF CustomRolesOf
      <4>2. q[2] # old
        BY <2>4, <2>8, <4>1 DEF CustomRolesOf
      <4> QED
        BY <2>4, <4>1, <4>2 DEF CustomRolesOf
    <3> QED
      BY <1>0, <1>01, <3>1, <3>2 DEF CustomStep
  <2>11. NamesStep(i, d, e)
    <3>1. ASSUME NoOldNames(d), NEW r \in DOMAIN e.grants
          PROVE  r[2] \notin {"moderator", "user"}
      <4>1. PICK q \in DOMAIN d.grants : r = New(q)
        BY <2>5
      <4>2. q[2] \notin {"moderator", "user"}
        BY <3>1 DEF NoOldNames
      <4> QED
        BY <2>4, <2>8, <4>1, <4>2
    <3>2. NoOldNames(d) => NoOldNames(e)
      BY <3>1 DEF NoOldNames
    <3> QED
      BY ONLY <1>0, <1>01, <3>2 DEF NamesStep
  <2>12. CatalogStep(i, d, e)
    BY <2>2 DEF CatalogStep
  <2> QED
    BY <1>0, <1>01, <2>2, <2>7, <2>9, <2>10, <2>11, <2>12 DEF RolesStep
<1> QED
  BY <1>1, <1>2

LEMMA RenameStep ==
    ASSUME NEW i \in Nat,
           NEW s \in [do : {"rename role"}, old : {"moderator", "user"}, new : {"manager", "member"}],
           NEW O, SentBy(s, i, O), NEW d, Shape(d), RolesTyped(d), NEW e, e = RbacEffect(s, d)
    PROVE  RolesStep(i, s, d, e)
<1>1. e = RenameRoleRow(d, s.old, s.new)
  BY DEF RbacEffect
<1>2. i = 12 /\ s.old \in {"moderator", "user"} /\ s.new \in {"manager", "member"}
  BY DEF SentBy
<1> QED
  BY <1>1, <1>2, RenameRowStep

LEMMA DropStep ==
    ASSUME NEW i \in Nat, NEW s, s.do = "drop platform roles", NEW O, SentBy(s, i, O),
           NEW d, Shape(d), RolesTyped(d), NEW e, e = RbacEffect(s, d)
    PROVE  RolesStep(i, s, d, e) /\ NoPlatformDefaults(e)
<1> DEFINE g == [r \in DOMAIN d.grants \ OrgRoles(Platform) |-> d.grants[r]]
<1>0. i = 18
  BY DEF SentBy
<1>01. i # 12 /\ i # 13 /\ i # 21 /\ i # 27 /\ i # 35
  BY <1>0, OnlyThatOne
<1>1. e = [d EXCEPT !.grants = g]
  BY DEF RbacEffect, Shape
<1>2. /\ SameRest(d, e) /\ SameUsers(d, e) /\ SameProjects(d, e)
      /\ e.grants = g /\ e.catalog = d.catalog /\ e.orgs = d.orgs
  <2> HIDE DEF g
  <2> QED
    BY <1>1, GrantsFrame
<1>3. /\ DOMAIN e.grants = DOMAIN d.grants \ OrgRoles(Platform)
      /\ e.grants = [r \in DOMAIN e.grants |-> e.grants[r]]
      /\ \A r \in DOMAIN e.grants : e.grants[r] = d.grants[r]
  BY <1>2
<1> HIDE DEF g
<1>4. ASSUME NEW r \in OrgRoles(Platform)
      PROVE  r[1] = Platform /\ r[2] \in DefaultNames
  <2>1. PICK name \in DefaultNames : r = <<Platform, name>>
    BY DEF OrgRoles
  <2> QED
    BY ONLY <2>1, name \in DefaultNames
<1>5. "superadmin" \notin DefaultNames /\ Superadmin[2] = "superadmin"
  BY DEF DefaultNames, Superadmin
<1>6. RolesTyped(e)
  BY <1>2, <1>3 DEF RolesTyped
<1>7. CatalogStep(i, d, e) /\ SuperadminStep(i, d, e)
  <2>1. Superadmin \notin OrgRoles(Platform)
    BY <1>4, <1>5
  <2>2. SuperadminStep(i, d, e)
    BY <1>3, <2>1 DEF SuperadminStep
  <2> QED
    BY <1>2, <2>2 DEF CatalogStep
<1>8. CustomStep(i, s, d, e)
  <2>1. CustomRolesOf(d) \cap OrgRoles(Platform) = {}
    BY <1>4 DEF CustomRolesOf
  <2> QED
    BY <1>3, <2>1 DEF CustomStep, CustomRolesOf
<1>9. NoPlatformDefaults(e)
  <2>1. ASSUME NEW r \in DOMAIN d.grants, r[1] = Platform, r[2] \in DefaultNames
        PROVE  r \in OrgRoles(Platform)
    <3>1. r = <<Platform, r[2]>>
      BY <2>1 DEF RolesTyped
    <3> QED
      BY <2>1, <3>1 DEF OrgRoles
  <2> QED
    BY <1>3, <2>1 DEF NoPlatformDefaults
<1>10. NamesStep(i, d, e)
  <2>1. NoOldNames(d) => NoOldNames(e)
    BY <1>3 DEF NoOldNames
  <2> QED
    BY ONLY <1>0, <1>01, <1>9, <2>1 DEF NamesStep
<1> QED
  BY <1>0, <1>01, <1>2, <1>6, <1>7, <1>8, <1>9, <1>10 DEF RolesStep

LEMMA StepsCompose ==
    ASSUME NEW i \in Nat, i # 35, NEW s, s.do # "inherit", NEW d, NEW e, NEW f,
           RolesStep(i, s, d, e), RolesStep(i, s, e, f)
    PROVE  RolesStep(i, s, d, f)
<1>1. SameRest(d, f) /\ SameUsers(d, f) /\ SameProjects(d, f) /\ RolesTyped(f)
  BY DEF RolesStep, SameRest, SameUsers, SameProjects
<1>2. CatalogStep(i, d, f)
  BY DEF RolesStep, CatalogStep
<1>3. SuperadminStep(i, d, f)
  BY DEF RolesStep, SuperadminStep
<1>4. NamesStep(i, d, f)
  BY DEF RolesStep, NamesStep
<1>5. CustomStep(i, s, d, f)
  BY DEF RolesStep, CustomStep, NamesStep
<1> QED
  BY <1>1, <1>2, <1>3, <1>4, <1>5 DEF RolesStep

LEMMA RolesSent ==
    ASSUME NEW s, NEW i \in Nat, NEW O, SentBy(s, i, O)
    PROVE  /\ s.do = "role" =>
                 /\ i # 35 /\ (i = 13 \/ s.role \in (Organizations \X DefaultNames) \cup {Superadmin})
                 /\ s.role[1] \in O \cup {Platform}
           /\ s.do = "grant" /\ i = 35 /\ s.role # Superadmin => s.perms = DefaultsOf(s.role[2])
           /\ s.do = "inherit" /\ i = 35 =>
                 s \in {Inherit(CanUpdate, On("embed-site", {"create", "update"}))[1],
                       Inherit(CanRead, On("embed-site", {"read"}))[1]}
           /\ s.do = "admins manage members" => i # 35
           /\ s.do \in {"seed organization", "seed roles"} => i = 23 /\ i # 13 /\ i # 35
           /\ s.do = "seed roles" => Default \in O
<1>1. /\ s.do = "role" => i = 13 \/ (i = 18 /\ s.role \in (Organizations \X DefaultNames) \cup {Superadmin})
      /\ s.do = "role" => s.role[1] \in O \cup {Platform}
  BY DEF SentBy
<1>2. /\ s.do = "grant" /\ i > 18 /\ s.role # Superadmin => s.perms = DefaultsOf(s.role[2])
      /\ s.do = "inherit" /\ i = 35 =>
            s \in {Inherit(CanUpdate, On("embed-site", {"create", "update"}))[1],
                  Inherit(CanRead, On("embed-site", {"read"}))[1]}
  BY DEF SentBy
<1>3. /\ s.do = "admins manage members" => i = 21
      /\ s.do \in {"seed organization", "seed roles"} => i = 23
      /\ s.do = "seed roles" => Default \in O
  BY DEF SentBy
<1>4. i = 35 => i > 18
  OBVIOUS
<1>5. /\ i = 13 => i # 35
      /\ i = 18 => i # 35
      /\ i = 21 => i # 35
      /\ i = 23 => i # 35 /\ i # 13
  OBVIOUS
<1> QED
  BY <1>1, <1>2, <1>3, <1>4, <1>5

LEMMA RoleStep ==
    ASSUME NEW i \in Nat, NEW s \in [do : {"role"}, role : DefaultRows \cup {Superadmin}],
           NEW d, Shape(d), RolesTyped(d), SentBy(s, i, d.orgs), NEW e, e = RbacEffect(s, d)
    PROVE  RolesStep(i, s, d, e) /\ DOMAIN e.grants = DOMAIN d.grants \cup {s.role}
<1> DEFINE R == {s.role}
<1>1. e = WithRoles(d, R)
  BY DEF RbacEffect
<1>2. \A r \in R : /\ r = <<r[1], r[2]>> /\ r[1] \in d.orgs \cup {Platform}
                   /\ r[2] \in DefaultNames \cup {"superadmin"}
  <2>1. s.role = <<s.role[1], s.role[2]>> /\ s.role[2] \in DefaultNames \cup {"superadmin"}
    BY DEF DefaultRows, Superadmin
  <2>2. s.do = "role"
    OBVIOUS
  <2>3. s.role[1] \in d.orgs \cup {Platform}
    BY <2>2, RolesSent
  <2> QED
    BY <2>1, <2>3
<1>3. i # 13 => \A r \in R : r[1] = Platform => r[2] = "superadmin"
  <2>1. i = 13 \/ s.role \in (Organizations \X DefaultNames) \cup {Superadmin}
    BY RolesSent
  <2>2. s.role \in Organizations \X DefaultNames => s.role[1] # Platform
    BY BootAssumption
  <2> QED
    BY <2>1, <2>2 DEF Superadmin
<1>4. i # 35
  BY RolesSent
<1> HIDE DEF R
<1>5. RolesStep(i, s, d, e)
  BY <1>1, <1>2, <1>3, <1>4, NewRowsStep
<1>6. DOMAIN e.grants = DOMAIN d.grants \cup R
  BY <1>1, <1>2, NewRows
<1> QED
  BY <1>5, <1>6 DEF R

LEMMA DefaultsAreNotEvery ==
    ASSUME NEW name \in DefaultNames
    PROVE  DefaultsOf(name) # Every
<1>1. <<"organization", "read">> \in DefaultsOf(name)
  BY DEF DefaultNames, DefaultsOf, AdminDefaults, ManagerDefaults, MemberDefaults, On
<1> QED
  BY <1>1 DEF Every

LEMMA GrantStep ==
    ASSUME NEW i \in Nat,
           NEW s \in [do : {"grant"}, role : DefaultRows \cup {Superadmin}, perms : SUBSET (Catalogue \cup Every)],
           NEW d, Shape(d), RolesTyped(d), NEW O, SentBy(s, i, O), NEW e, e = RbacEffect(s, d)
    PROVE  /\ RolesStep(i, s, d, e)
           /\ s.role \in DOMAIN d.grants => Present(d, s.perms) \subseteq e.grants[s.role]
<1> DEFINE R == {s.role}
           P == s.perms
<1>1. e = Assign(d, R, P)
  BY DEF RbacEffect
<1>2. R \cap CustomRolesOf(d) = {} /\ s.do # "restrict" /\ s.do = "grant"
  BY DEF CustomRolesOf, DefaultRows, Superadmin
<1>3. ASSUME i = 35, NEW r \in R \cap DefaultRowsOf(d)
      PROVE  /\ Present(d, P) \subseteq DefaultsOf(r[2])
             /\ DefaultsOf(r[2]) \cap d.catalog \subseteq Present(d, P)
  <2>1. r = s.role /\ r[2] \in DefaultNames /\ r # Superadmin
    BY DEF DefaultRowsOf, DefaultNames, Superadmin
  <2>2. P = DefaultsOf(r[2])
    BY <1>3, <2>1, RolesSent
  <2> QED
    BY <2>1, <2>2, DefaultsAreNotEvery DEF Present
<1>4. s.role \in R
  OBVIOUS
<1>5. P = s.perms
  OBVIOUS
<1> HIDE DEF R, P
<1>6. RolesStep(i, s, d, e)
  BY <1>1, <1>2, <1>3, <1>4, AssignStep
<1>7. s.role \in DOMAIN d.grants => e.grants[s.role] = d.grants[s.role] \cup Present(d, P)
  <2> DEFINE r == s.role
  <2> HIDE DEF r
  <2>1. r \in R
    BY <1>4 DEF r
  <2>2. \A q \in DOMAIN d.grants :
          e.grants[q] = IF q \in R THEN d.grants[q] \cup Present(d, P) ELSE d.grants[q]
    BY ONLY <1>1, Shape(d), RolesTyped(d), AssignRows
  <2> QED
    BY <2>1, <2>2 DEF r
<1> QED
  BY <1>5, <1>6, <1>7

LEMMA InheritStep ==
    ASSUME NEW i \in Nat,
           NEW s \in [do : {"inherit"}, holding : {CanUpdate, CanRead}, perms : SUBSET AdminDefaults],
           NEW d, Shape(d), RolesTyped(d), NEW O, SentBy(s, i, O), NEW e, e = RbacEffect(s, d)
    PROVE  /\ RolesStep(i, s, d, e)
           /\ \A r \in DOMAIN d.grants :
                 s.holding \in d.grants[r] => s.perms \cap d.catalog \subseteq e.grants[r]
<1> DEFINE R == {r \in DOMAIN d.grants : s.holding \in d.grants[r]}
           P == s.perms
<1>1. e = Assign(d, R, P)
  BY DEF RbacEffect
<1>2. P # Every
  <2>1. <<"*", "*">> \notin AdminDefaults
    BY DEF AdminDefaults, On, Crud
  <2> QED
    BY <2>1 DEF Every
<1>3. Present(d, P) = s.perms \cap d.catalog
  BY <1>2 DEF Present
<1>4. \A r \in R \cap CustomRolesOf(d) :
        s.do = "inherit" /\ s.holding \in d.grants[r] /\ Present(d, P) \subseteq s.perms
  BY <1>3
<1>5. ASSUME i = 35, NEW r \in R \cap DefaultRowsOf(d), d.grants[r] \subseteq DefaultsOf(r[2])
      PROVE  Present(d, P) \subseteq DefaultsOf(r[2])
  <2>1. /\ CanUpdate \in DefaultsOf("admin") /\ CanUpdate \in DefaultsOf("manager")
        /\ CanUpdate \notin DefaultsOf("member")
    BY DEF CanUpdate, DefaultsOf, AdminDefaults, ManagerDefaults, MemberDefaults, On
  <2>2. /\ On("embed-site", {"create", "update"}) \subseteq DefaultsOf("admin")
        /\ On("embed-site", {"create", "update"}) \subseteq DefaultsOf("manager")
        /\ \A name \in DefaultNames : On("embed-site", {"read"}) \subseteq DefaultsOf(name)
    BY DEF DefaultNames, DefaultsOf, AdminDefaults, ManagerDefaults, MemberDefaults, On, Crud
  <2>3. \/ s.holding = CanUpdate /\ P = On("embed-site", {"create", "update"})
        \/ P = On("embed-site", {"read"})
    <3>1. s \in {Inherit(CanUpdate, On("embed-site", {"create", "update"}))[1],
                Inherit(CanRead, On("embed-site", {"read"}))[1]}
      BY <1>5, RolesSent
    <3>2. CASE s = Inherit(CanUpdate, On("embed-site", {"create", "update"}))[1]
      BY <3>2 DEF Inherit
    <3>3. CASE s = Inherit(CanRead, On("embed-site", {"read"}))[1]
      BY <3>3 DEF Inherit
    <3> QED
      BY <3>1, <3>2, <3>3
  <2>4. r[2] \in {"admin", "manager", "member"} /\ s.holding \in DefaultsOf(r[2])
    BY <1>5 DEF DefaultRowsOf, DefaultNames
  <2>5. P \subseteq DefaultsOf(r[2])
    BY <2>1, <2>2, <2>3, <2>4 DEF DefaultNames
  <2> QED
    BY <1>3, <2>5
<1>6. s.do # "restrict" /\ s.do # "grant"
  OBVIOUS
<1>7. \A r \in DOMAIN d.grants : r \in R <=> s.holding \in d.grants[r]
  OBVIOUS
<1> HIDE DEF R, P
<1>8. RolesStep(i, s, d, e)
  BY <1>1, <1>4, <1>5, <1>6, AssignStep
<1>9. \A r \in DOMAIN d.grants :
        e.grants[r] = IF r \in R THEN d.grants[r] \cup Present(d, P) ELSE d.grants[r]
  BY ONLY <1>1, Shape(d), RolesTyped(d), AssignRows
<1> QED
  BY <1>3, <1>7, <1>8, <1>9

LEMMA AdminsManageStep ==
    ASSUME NEW i \in Nat, NEW s, s.do = "admins manage members",
           NEW d, Shape(d), RolesTyped(d), NEW O, SentBy(s, i, O), NEW e, e = RbacEffect(s, d)
    PROVE  RolesStep(i, s, d, e)
<1> DEFINE R == {r \in DOMAIN d.grants : r[1] # Platform /\ r[2] = "admin"}
           P == On("organization", {"manage-members"})
<1>1. e = Assign(d, R, P)
  BY DEF RbacEffect
<1>2. R \cap CustomRolesOf(d) = {}
  BY DEF CustomRolesOf, DefaultNames
<1>3. i # 35 /\ s.do # "restrict" /\ s.do # "grant"
  BY RolesSent
<1> HIDE DEF R, P
<1> QED
  BY <1>1, <1>2, <1>3, AssignStep

\* The insert of the organization, and the transaction that follows it.
LEMMA SeedStep ==
    ASSUME NEW i \in Nat, NEW s, s.do = "seed organization",
           NEW d, Shape(d), RolesTyped(d), NEW O, SentBy(s, i, O), NEW e, e = RbacEffect(s, d)
    PROVE  RolesStep(i, s, d, e) /\ Default \in e.orgs
<1>1. e = [d EXCEPT !.orgs = d.orgs \cup {Default}]
  BY DEF RbacEffect, Shape
<1>2. /\ SameRest(d, e) /\ SameUsers(d, e) /\ SameProjects(d, e)
      /\ e.grants = d.grants /\ e.catalog = d.catalog /\ e.orgs = d.orgs \cup {Default}
  BY <1>1 DEF Shape, SameRest, SameUsers, SameProjects
<1>3. i # 35
  BY RolesSent
<1>4. RolesTyped(e)
  BY <1>2, BootAssumption DEF RolesTyped
<1>5. CatalogStep(i, d, e) /\ SuperadminStep(i, d, e)
  BY <1>2 DEF CatalogStep, SuperadminStep
<1>6. CustomStep(i, s, d, e)
  BY <1>2 DEF CustomStep, CustomRolesOf
<1>7. NamesStep(i, d, e)
  BY <1>2 DEF NamesStep, DefaultRowsOf, NoOldNames, NoPlatformDefaults
<1> QED
  BY <1>2, <1>3, <1>4, <1>5, <1>6, <1>7 DEF RolesStep

LEMMA DefaultsAreNotCustom ==
    ASSUME NEW d, NEW o, NEW name \in DefaultNames
    PROVE  {<<o, name>>} \cap CustomRolesOf(d) = {}
<1>1. ASSUME NEW r \in {<<o, name>>}
      PROVE  r[2] \in DefaultNames
  OBVIOUS
<1> QED
  BY <1>1 DEF CustomRolesOf

LEMMA SeedRolesStep ==
    ASSUME NEW i \in Nat, NEW s, s.do = "seed roles",
           NEW d, Shape(d), RolesTyped(d), SentBy(s, i, d.orgs), NEW e, e = RbacEffect(s, d)
    PROVE  RolesStep(i, s, d, e)
<1>1. i # 13 /\ i # 35 /\ Default \in d.orgs
  BY RolesSent
<1>2. s.do # "restrict" /\ s.do # "grant" /\ s.do # "inherit"
  OBVIOUS
<1> DEFINE R == OrgRoles(Default)
           A == {<<Default, "admin">>}
           B == {<<Default, "manager">>}
           C == {<<Default, "member">>}
           Q == {CanRead, <<"project", "read">>}
           d1 == WithRoles(d, R)
           d2 == Assign(d1, A, Every)
           d3 == Assign(d2, B, ManagerDefaults)
           d4 == Assign(d3, C, Q)
<1>3. e = d4
  BY DEF RbacEffect, SeedRoles
<1>4. /\ A \cap CustomRolesOf(d1) = {}
      /\ B \cap CustomRolesOf(d2) = {}
      /\ C \cap CustomRolesOf(d3) = {}
  <2> HIDE DEF d1, d2, d3
  <2>1. "admin" \in DefaultNames /\ "manager" \in DefaultNames /\ "member" \in DefaultNames
    BY DEF DefaultNames
  <2> QED
    BY <2>1, DefaultsAreNotCustom
<1>5. ASSUME NEW r \in R
      PROVE  /\ r = <<r[1], r[2]>> /\ r[1] = Default /\ r[1] # Platform
             /\ r[2] \in DefaultNames \cup {"superadmin"}
  <2>1. PICK name \in DefaultNames : r = <<Default, name>>
    BY DEF OrgRoles
  <2> QED
    BY <2>1, BootAssumption
<1> HIDE DEF R, A, B, C, Q
<1>6. RolesStep(i, s, d, d1)
  BY <1>1, <1>5, NewRowsStep
<1> HIDE DEF d1
<1>7. Shape(d1) /\ RolesTyped(d1)
  BY <1>6 DEF RolesStep, SameRest
<1>8. RolesStep(i, s, d1, d2)
  BY <1>1, <1>2, <1>4, <1>7, AssignStep
<1> HIDE DEF d2
<1>9. Shape(d2) /\ RolesTyped(d2)
  BY <1>8 DEF RolesStep, SameRest
<1>10. RolesStep(i, s, d2, d3)
  BY <1>1, <1>2, <1>4, <1>9, AssignStep
<1> HIDE DEF d3
<1>11. Shape(d3) /\ RolesTyped(d3)
  BY <1>10 DEF RolesStep, SameRest
<1>12. RolesStep(i, s, d3, d4)
  BY <1>1, <1>2, <1>4, <1>11, AssignStep
<1> HIDE DEF d4
<1>13. RolesStep(i, s, d, d2)
  BY <1>1, <1>2, <1>6, <1>8, StepsCompose
<1>14. RolesStep(i, s, d, d3)
  BY <1>1, <1>2, <1>13, <1>10, StepsCompose
<1> QED
  BY <1>1, <1>2, <1>3, <1>14, <1>12, StepsCompose

\* Every statement about roles.
LEMMA RoleStatementStep ==
    ASSUME NEW i \in Nat, NEW s \in RoleStatements, NEW d, Shape(d), RolesTyped(d),
           SentBy(s, i, d.orgs), NEW e, e = Effect(s, d)
    PROVE  RolesStep(i, s, d, e)
<1>1. e = RbacEffect(s, d)
  BY RoleStatementsAct
<1>2. CASE s \in [do : {"register"}, perms : SUBSET Catalogue]
  BY <1>1, <1>2, RegisterStep
<1>3. CASE s \in [do : {"unassign", "unregister"}, perms : SUBSET Phantoms]
  BY <1>1, <1>3, UnregisterStep
<1>4. CASE s \in [do : {"role"}, role : DefaultRows \cup {Superadmin}]
  BY <1>1, <1>4, RoleStep
<1>5. CASE s \in [do : {"grant"}, role : DefaultRows \cup {Superadmin}, perms : SUBSET (Catalogue \cup Every)]
  BY <1>1, <1>5, GrantStep
<1>6. CASE s \in [do : {"restrict"}, role : DefaultRows, perms : SUBSET Catalogue]
  BY <1>1, <1>6, RestrictStep
<1>7. CASE s \in [do : {"inherit"}, holding : {CanUpdate, CanRead}, perms : SUBSET AdminDefaults]
  BY <1>1, <1>7, InheritStep
<1>8. CASE s \in [do : {"rename role"}, old : {"moderator", "user"}, new : {"manager", "member"}]
  BY <1>1, <1>8, RenameStep
<1>9. CASE s \in [do : {"admins manage members", "drop platform roles", "redesign organizations",
                        "seed organization", "seed roles"}]
  <2>1. CASE s.do = "admins manage members"
    BY <1>1, <2>1, AdminsManageStep
  <2>2. CASE s.do = "drop platform roles"
    BY <1>1, <2>2, DropStep
  <2>3. CASE s.do = "seed organization"
    BY <1>1, <2>3, SeedStep
  <2>4. CASE s.do = "seed roles"
    BY <1>1, <2>4, SeedRolesStep
  <2>5. CASE s.do = "redesign organizations"
    <3>1. e = d
      BY <1>1, <2>5 DEF RbacEffect
    <3>2. SameRest(d, e) /\ SameUsers(d, e) /\ SameProjects(d, e) /\ SameRoles(d, e)
      BY <3>1 DEF SameRest, SameUsers, SameProjects, SameRoles
    <3> QED
      BY <2>5, <3>2, RolesStay
  <2> QED
    BY <1>9, <2>1, <2>2, <2>3, <2>4, <2>5
<1>10. CASE s \in [do : {"organizations"}, names : SUBSET DefaultNames]
  <2>1. e = d /\ s.do = "organizations"
    BY <1>1, <1>10 DEF RbacEffect
  <2>2. SameRest(d, e) /\ SameUsers(d, e) /\ SameProjects(d, e) /\ SameRoles(d, e)
    BY <2>1 DEF SameRest, SameUsers, SameProjects, SameRoles
  <2> QED
    BY <2>1, <2>2, RolesStay
<1> QED
  BY <1>2, <1>3, <1>4, <1>5, <1>6, <1>7, <1>8, <1>9, <1>10 DEF RoleStatements

-----------------------------------------------------------------------------
(* Statements about users.                                                 *)

UsersTyped(d) ==
    /\ d.memberRole = [u \in Users |-> d.memberRole[u]]
    /\ d.userRole = [u \in Users |-> d.userRole[u]]
ProjectsTyped(d) ==
    /\ d.schema \subseteq Facts
    /\ d.legacy \cup d.general \cup d.sources \cup DOMAIN d.inProject \subseteq Organizations
    /\ d.allowed \in [Organizations -> {"unset", "legacy", "empty"}]
    /\ d.inProject \in [DOMAIN d.inProject -> {"none", "general"}]
MembersStep(d, e) == \A o : HasMembers(e, o) => HasMembers(d, o)

LEMMA DatabaseParts ==
    ASSUME NEW d
    PROVE  IsDatabase(d) <=> /\ Shape(d) /\ d.recorded \subseteq {BootPlan[i].name : i \in DOMAIN BootPlan}
                             /\ RolesTyped(d) /\ UsersTyped(d) /\ ProjectsTyped(d)
<1>1. IsDatabase(d) => Shape(d) /\ d.recorded \subseteq {BootPlan[i].name : i \in DOMAIN BootPlan}
  BY DEF IsDatabase, Shape
<1>2. IsDatabase(d) => RolesTyped(d)
  BY DEF IsDatabase, RolesTyped
<1>3. IsDatabase(d) => UsersTyped(d) /\ ProjectsTyped(d)
  BY DEF IsDatabase, UsersTyped, ProjectsTyped
<1>4. Shape(d) /\ d.recorded \subseteq {BootPlan[i].name : i \in DOMAIN BootPlan}
      /\ RolesTyped(d) /\ UsersTyped(d) /\ ProjectsTyped(d) => IsDatabase(d)
  <2> SUFFICES ASSUME Shape(d), d.recorded \subseteq {BootPlan[i].name : i \in DOMAIN BootPlan},
                      RolesTyped(d), UsersTyped(d), ProjectsTyped(d)
               PROVE  IsDatabase(d)
    OBVIOUS
  <2>1. d.catalog \subseteq Catalogue
        /\ d.orgs \cup d.legacy \cup d.general \cup d.sources \cup DOMAIN d.inProject \subseteq Organizations
    BY DEF RolesTyped, ProjectsTyped
  <2> QED
    BY <2>1 DEF IsDatabase, Shape, RolesTyped, UsersTyped, ProjectsTyped
<1> QED
  BY <1>1, <1>2, <1>3, <1>4

LEMMA UserStatementStep ==
    ASSUME NEW i, NEW s \in UserStatements, NEW O, SentBy(s, i, O),
           NEW d, Shape(d), UsersTyped(d), NEW e, e = Effect(s, d)
    PROVE  /\ SameRest(d, e) /\ SameRoles(d, e) /\ SameProjects(d, e)
           /\ UsersTyped(e) /\ MembersStep(d, e)
<1>1. s.do \in {"platform role", "member role", "role default", "remove superadmin members",
                "approve pending users"}
  BY DEF UserStatements
<1>2. e = UserEffect(s, d)
  <2>1. RbacEffect(s, d) = d
    BY <1>1 DEF RbacEffect
  <2>2. \A f : SchemaEffect(s, f) = f
    BY <1>1 DEF SchemaEffect
  <2>3. \A f : ProjectEffect(s, f) = f
    BY <1>1 DEF ProjectEffect
  <2> QED
    BY <2>1, <2>2, <2>3 DEF Effect
<1>3. CASE s.do = "platform role"
  <2>1. e = [d EXCEPT !.userRole = Renamed(d.userRole, s.from, s.to)]
    BY <1>2, <1>3 DEF UserEffect, Shape
  <2>2. /\ SameRest(d, e) /\ SameRoles(d, e) /\ SameProjects(d, e)
        /\ e.memberRole = d.memberRole /\ e.userRole = Renamed(d.userRole, s.from, s.to)
    BY <2>1 DEF Shape, SameRest, SameRoles, SameProjects
  <2>3. UsersTyped(e)
    BY <2>2 DEF UsersTyped, Renamed
  <2> QED
    BY <2>2, <2>3 DEF MembersStep, HasMembers
<1>4. CASE s.do = "member role"
  <2>1. e = [d EXCEPT !.memberRole = Renamed(d.memberRole, s.from, s.to)]
    BY <1>2, <1>4 DEF UserEffect, Shape
  <2>2. /\ SameRest(d, e) /\ SameRoles(d, e) /\ SameProjects(d, e)
        /\ e.userRole = d.userRole /\ e.memberRole = Renamed(d.memberRole, s.from, s.to)
    BY <2>1 DEF Shape, SameRest, SameRoles, SameProjects
  <2>3. "none" \notin s.from
    BY <1>4 DEF SentBy
  <2>4. DOMAIN d.memberRole = Users
    BY DEF UsersTyped
  <2>5. UsersTyped(e)
    BY <2>2, <2>4 DEF UsersTyped, Renamed
  <2>6. \A u \in Users : d.memberRole[u] = "none" => e.memberRole[u] = "none"
    BY <2>2, <2>3, <2>4 DEF Renamed
  <2> QED
    BY <2>2, <2>5, <2>6 DEF MembersStep, HasMembers
<1>5. CASE s.do = "role default"
  <2>1. e = [d EXCEPT !.roleDefault = s.to]
    BY <1>2, <1>5 DEF UserEffect, Shape
  <2>2. /\ SameRest(d, e) /\ SameRoles(d, e) /\ SameProjects(d, e)
        /\ e.memberRole = d.memberRole /\ e.userRole = d.userRole
    BY <2>1 DEF Shape, SameRest, SameRoles, SameProjects
  <2> QED
    BY <2>2 DEF UsersTyped, MembersStep, HasMembers
<1>6. CASE s.do = "remove superadmin members"
  <2> DEFINE m == [u \in Users |-> IF d.userRole[u] = "superadmin" THEN "none" ELSE d.memberRole[u]]
  <2>1. e = [d EXCEPT !.memberRole = m]
    BY <1>2, <1>6 DEF UserEffect, Shape
  <2>2. /\ SameRest(d, e) /\ SameRoles(d, e) /\ SameProjects(d, e)
        /\ e.userRole = d.userRole /\ e.memberRole = m
    <3> HIDE DEF m
    <3> QED
      BY <2>1 DEF Shape, SameRest, SameRoles, SameProjects
  <2>3. UsersTyped(e)
    BY <2>2 DEF UsersTyped
  <2>4. \A u \in Users : d.memberRole[u] = "none" => e.memberRole[u] = "none"
    BY <2>2
  <2> QED
    BY <2>2, <2>3, <2>4 DEF MembersStep, HasMembers
<1>7. CASE s.do = "approve pending users"
  <2>1. e = [d EXCEPT !.approved = Users]
    BY <1>2, <1>7 DEF UserEffect, Shape
  <2>2. /\ SameRest(d, e) /\ SameRoles(d, e) /\ SameProjects(d, e)
        /\ e.memberRole = d.memberRole /\ e.userRole = d.userRole
    BY <2>1 DEF Shape, SameRest, SameRoles, SameProjects
  <2> QED
    BY <2>2 DEF UsersTyped, MembersStep, HasMembers
<1> QED
  BY <1>1, <1>3, <1>4, <1>5, <1>6, <1>7

\* Statements about tables, organizations and projects.
ProjectKinds ==
    {"drop project_data_source", "drop project", "backfill organizations", "seed allowlists",
     "drop conversation.project_id", "backfill conversations", "require conversation.project_id",
     "general", "attach legacy", "allow"}
DdlKinds == {"create", "alter", "create rbac tables", "scope roles"}

LEMMA TableStatementsAct ==
    ASSUME NEW s, s.do \in DdlKinds \cup ProjectKinds, NEW d
    PROVE  Effect(s, d) = ProjectEffect(s, SchemaEffect(s, d))
<1>1. RbacEffect(s, d) = d
  BY DEF RbacEffect, DdlKinds, ProjectKinds
<1>2. UserEffect(s, d) = d
  BY DEF UserEffect, DdlKinds, ProjectKinds
<1> QED
  BY <1>1, <1>2 DEF Effect

LEMMA LoopsAct ==
    ASSUME NEW s \in Loops \cup Conditional, NEW d
    PROVE  Effect(s, d) = d
<1>1. s.do \in {"for each", "unless", "if one of"}
  BY DEF Loops, Conditional
<1>2. RbacEffect(s, d) = d
  BY <1>1 DEF RbacEffect
<1>3. UserEffect(s, d) = d
  BY <1>1 DEF UserEffect
<1>4. SchemaEffect(s, d) = d
  BY <1>1 DEF SchemaEffect
<1>5. ProjectEffect(s, d) = d
  BY <1>1 DEF ProjectEffect
<1> QED
  BY <1>2, <1>3, <1>4, <1>5 DEF Effect

-----------------------------------------------------------------------------
(* Statements about projects and conversations.                            *)

NamesUnique(d) == "project" \in d.schema => "project name unique" \in d.schema
SchemaStep(i, d, e) ==
    /\ \A f \in Kept \cap d.schema :
          \/ f \in e.schema
          \/ i = 39 /\ f = "org_vector_db.status_error"
          \/ i \in {42, 44} /\ f \in {"project", "project_data_source", "project name unique"}
          \/ i = 49 /\ f \in {"conversation.project_id", "conversation.project_id required"}
    /\ NamesUnique(d) => NamesUnique(e)
RowsStep(i, s, d, e) ==
    /\ i \in {42, 44} \/ (d.general \subseteq e.general /\ d.sources \subseteq e.sources)
    /\ \A o \in Organizations :
          e.allowed[o] = IF s.do = "allow" /\ s.org = o THEN s.value ELSE d.allowed[o]
    /\ DOMAIN e.inProject = DOMAIN d.inProject
    /\ i \in {49, 51} \/ e.inProject = d.inProject
    /\ i # 49 => \A o \in DOMAIN d.inProject : d.inProject[o] = "general" => e.inProject[o] = "general"
ProjectsStep(i, s, d, e) ==
    /\ SameRest(d, e) /\ SameUsers(d, e) /\ SameRoles(d, e) /\ ProjectsTyped(e)
    /\ SchemaStep(i, d, e) /\ RowsStep(i, s, d, e)

\* An update of the schema alone.
LEMMA SchemaFrame ==
    ASSUME NEW d, NEW e, NEW g, Shape(d), e = [d EXCEPT !.schema = g]
    PROVE  /\ SameRest(d, e) /\ SameUsers(d, e) /\ SameRoles(d, e)
           /\ e.schema = g /\ e.general = d.general /\ e.sources = d.sources
           /\ e.allowed = d.allowed /\ e.inProject = d.inProject
BY DEF Shape, SameRest, SameUsers, SameRoles

LEMMA SchemaAloneStep ==
    ASSUME NEW i, NEW s, s.do # "allow", NEW d, Shape(d), ProjectsTyped(d),
           NEW g \in SUBSET Facts, NEW e, e = [d EXCEPT !.schema = g], SchemaStep(i, d, e)
    PROVE  ProjectsStep(i, s, d, e) /\ e.schema = g
<1>1. /\ SameRest(d, e) /\ SameUsers(d, e) /\ SameRoles(d, e)
      /\ e.schema = g /\ e.general = d.general /\ e.sources = d.sources
      /\ e.allowed = d.allowed /\ e.inProject = d.inProject
  BY SchemaFrame
<1>2. e.legacy = d.legacy
  BY <1>1 DEF SameRest
<1>3. ProjectsTyped(e)
  BY <1>1, <1>2 DEF ProjectsTyped
<1>4. RowsStep(i, s, d, e)
  BY <1>1 DEF RowsStep
<1> QED
  BY <1>1, <1>3, <1>4 DEF ProjectsStep

LEMMA NothingStep ==
    ASSUME NEW i, NEW s, s.do # "allow", NEW d, Shape(d), ProjectsTyped(d), NEW e, e = d
    PROVE  ProjectsStep(i, s, d, e)
BY DEF ProjectsStep, SameRest, SameUsers, SameRoles, SchemaStep, NamesUnique, RowsStep, ProjectsTyped

LEMMA DdlAct ==
    ASSUME NEW s, s.do \in DdlKinds, NEW d
    PROVE  Effect(s, d) = SchemaEffect(s, d)
<1>1. \A e : ProjectEffect(s, e) = e
  BY DEF ProjectEffect, DdlKinds
<1> QED
  BY <1>1, TableStatementsAct

LEMMA DdlStep ==
    ASSUME NEW i, NEW s \in Ddl, NEW O, SentBy(s, i, O),
           NEW d, Shape(d), ProjectsTyped(d), NEW e, e = Effect(s, d)
    PROVE  /\ ProjectsStep(i, s, d, e)
           /\ s.do = "alter" => e.schema = (d.schema \ s.drops) \cup s.adds
<1>1. s.do \in DdlKinds
  BY DEF Ddl, DdlKinds
<1>2. e = SchemaEffect(s, d)
  BY <1>1, DdlAct
<1>3. d.schema \in SUBSET Facts /\ s.do # "allow"
  BY <1>1 DEF ProjectsTyped, DdlKinds
<1>4. CASE s \in [do : {"create"}, table : Tables, needs : SUBSET Facts, adds : SUBSET Facts]
  <2>1. s.adds \in SUBSET Facts /\ s.do = "create"
    BY <1>4
  <2>2. "project" \in s.adds => "project name unique" \in s.adds
    BY <2>1 DEF SentBy
  <2>3. CASE s.table \in d.schema
    <3>1. e = d
      BY <1>2, <2>1, <2>3 DEF SchemaEffect
    <3> QED
      BY <1>3, <2>1, <3>1, NothingStep
  <2>4. CASE s.table \notin d.schema
    <3> DEFINE g == d.schema \cup s.adds
    <3>1. e = [d EXCEPT !.schema = g]
      BY <1>2, <2>1, <2>4 DEF SchemaEffect, Shape
    <3>2. e.schema = g
      BY <3>1 DEF Shape
    <3>3. SchemaStep(i, d, e)
      BY <2>2, <3>2 DEF SchemaStep, NamesUnique
    <3>4. g \in SUBSET Facts
      BY <1>3, <2>1
    <3> HIDE DEF g
    <3>5. ProjectsStep(i, s, d, e)
      BY <1>3, <3>1, <3>3, <3>4, SchemaAloneStep
    <3> QED
      BY <2>1, <3>5
  <2> QED
    BY <2>3, <2>4
<1>5. CASE s \in [do : {"alter"}, needs : SUBSET Facts, adds : SUBSET Facts, drops : SUBSET Facts]
  <2>1. s.adds \in SUBSET Facts /\ s.drops \in SUBSET Facts /\ s.do = "alter"
    BY <1>5
  <2>2. /\ "project" \in s.adds => "project name unique" \in s.adds
        /\ s.drops \cap Kept # {} => i = 39 /\ s.drops \cap Kept = {"org_vector_db.status_error"}
    BY <2>1 DEF SentBy
  <2> DEFINE g == (d.schema \ s.drops) \cup s.adds
  <2>3. e = [d EXCEPT !.schema = g]
    BY <1>2, <2>1 DEF SchemaEffect, Shape
  <2>4. e.schema = g
    BY <2>3 DEF Shape
  <2>5. SchemaStep(i, d, e)
    <3>1. \A f \in Kept \cap d.schema : f \in e.schema \/ (i = 39 /\ f = "org_vector_db.status_error")
      BY <2>2, <2>4
    <3>2. "project name unique" \in Kept /\ "project name unique" # "org_vector_db.status_error"
      BY DEF Kept
    <3>3. NamesUnique(d) => NamesUnique(e)
      BY <2>2, <2>4, <3>1, <3>2 DEF NamesUnique
    <3> QED
      BY <3>1, <3>3 DEF SchemaStep
  <2>6. g \in SUBSET Facts
    BY <1>3, <2>1
  <2> HIDE DEF g
  <2>7. ProjectsStep(i, s, d, e)
    BY <1>3, <2>3, <2>5, <2>6, SchemaAloneStep
  <2> QED
    BY <2>4, <2>7 DEF g
<1>6. CASE s \in [do : {"create rbac tables", "scope roles"}]
  <2>1. PICK new \in SUBSET Facts : e = [d EXCEPT !.schema = d.schema \cup new] /\ "project" \notin new
    <3>1. CASE s.do = "create rbac tables"
      <4>1. {"roles", "permissions", "role_permissions"} \in SUBSET Facts
        BY DEF Facts, Tables
      <4>2. e = [d EXCEPT !.schema = d.schema \cup {"roles", "permissions", "role_permissions"}]
        BY <1>2, <3>1 DEF SchemaEffect, Shape
      <4> QED
        BY <4>1, <4>2
    <3>2. CASE s.do = "scope roles"
      <4>1. {"roles.organization_id"} \in SUBSET Facts
        BY DEF Facts
      <4>2. e = [d EXCEPT !.schema = d.schema \cup {"roles.organization_id"}]
        BY <1>2, <3>2 DEF SchemaEffect, Shape
      <4> QED
        BY <4>1, <4>2
    <3> QED
      BY <1>6, <3>1, <3>2
  <2> DEFINE g == d.schema \cup new
  <2>2. e.schema = g
    BY <2>1 DEF Shape
  <2>3. SchemaStep(i, d, e)
    BY <2>1, <2>2 DEF SchemaStep, NamesUnique
  <2>4. g \in SUBSET Facts
    BY <1>3
  <2>5. e = [d EXCEPT !.schema = g]
    BY <2>1
  <2> HIDE DEF g
  <2>6. ProjectsStep(i, s, d, e)
    BY <1>3, <2>3, <2>4, <2>5, SchemaAloneStep
  <2> QED
    BY <1>6, <2>6
<1> QED
  BY <1>4, <1>5, <1>6 DEF Ddl

-----------------------------------------------------------------------------
(* Every statement does what statements of its kind do.                    *)

DropsTable(s) == s.do \in {"drop project_data_source", "drop project"}
Selects(s) == s.do \in {"backfill organizations", "seed allowlists"}
TouchesConversations(s) == s.do \in {"drop conversation.project_id", "backfill conversations"}

LEMMA ProjectAct ==
    ASSUME NEW s, s.do \in ProjectKinds \ {"drop project_data_source", "drop project"}, NEW d
    PROVE  Effect(s, d) = ProjectEffect(s, d)
<1>1. SchemaEffect(s, d) = d
  BY DEF SchemaEffect, ProjectKinds
<1> QED
  BY <1>1, TableStatementsAct

LEMMA DropAct ==
    ASSUME NEW s, DropsTable(s), NEW d
    PROVE  Effect(s, d) = SchemaEffect(s, d)
<1>1. \A e : ProjectEffect(s, e) = e
  BY DEF ProjectEffect, DropsTable
<1>2. s.do \in DdlKinds \cup ProjectKinds
  BY DEF ProjectKinds, DropsTable
<1> QED
  BY <1>1, <1>2, TableStatementsAct

LEMMA DropTableStep ==
    ASSUME NEW i, NEW s, DropsTable(s), NEW O, SentBy(s, i, O),
           NEW d, Shape(d), ProjectsTyped(d), NEW e, e = Effect(s, d)
    PROVE  ProjectsStep(i, s, d, e)
<1>0. i \in {42, 44}
  BY DEF SentBy, DropsTable
<1>1. e = SchemaEffect(s, d) /\ s.do # "allow"
  <2>1. s.do # "allow"
    BY DEF DropsTable
  <2>2. e = SchemaEffect(s, d)
    BY DropAct
  <2> QED
    BY <2>1, <2>2
<1>2. CASE s.do = "drop project_data_source"
  <2>1. e = [d EXCEPT !.schema = d.schema \ {"project_data_source"}, !.sources = {}]
    BY <1>1, <1>2 DEF SchemaEffect, Shape
  <2>2. /\ SameRest(d, e) /\ SameUsers(d, e) /\ SameRoles(d, e)
        /\ e.schema = d.schema \ {"project_data_source"} /\ e.sources = {} /\ e.general = d.general
        /\ e.allowed = d.allowed /\ e.inProject = d.inProject /\ e.legacy = d.legacy
    BY <2>1 DEF Shape, SameRest, SameUsers, SameRoles
  <2>3. ProjectsTyped(e)
    BY <2>2 DEF ProjectsTyped
  <2>4. SchemaStep(i, d, e)
    BY <1>0, <1>1, <2>2 DEF SchemaStep, NamesUnique
  <2>5. RowsStep(i, s, d, e)
    BY <1>0, <1>1, <2>2 DEF RowsStep
  <2> QED
    BY <2>2, <2>3, <2>4, <2>5 DEF ProjectsStep
<1>3. CASE s.do = "drop project"
  <2>1. e = [d EXCEPT !.schema = d.schema \ FactsOfProject, !.general = {}]
    BY <1>1, <1>3 DEF SchemaEffect, Shape
  <2>2. /\ SameRest(d, e) /\ SameUsers(d, e) /\ SameRoles(d, e)
        /\ e.schema = d.schema \ FactsOfProject /\ e.sources = d.sources /\ e.general = {}
        /\ e.allowed = d.allowed /\ e.inProject = d.inProject /\ e.legacy = d.legacy
    BY <2>1 DEF Shape, SameRest, SameUsers, SameRoles
  <2>3. ProjectsTyped(e)
    BY <2>2 DEF ProjectsTyped
  <2>4. SchemaStep(i, d, e)
    <3>1. Kept \cap FactsOfProject \subseteq {"project", "project name unique"}
          /\ "project" \in FactsOfProject
      BY DEF Kept, FactsOfProject
    <3> QED
      BY <1>0, <1>1, <2>2, <3>1 DEF SchemaStep, NamesUnique
  <2>5. RowsStep(i, s, d, e)
    BY <1>0, <1>1, <2>2 DEF RowsStep
  <2> QED
    BY <2>2, <2>3, <2>4, <2>5 DEF ProjectsStep
<1> QED
  BY <1>2, <1>3 DEF DropsTable

LEMMA GeneralStep ==
    ASSUME NEW i, NEW s, s.do = "general", s.org \in Organizations,
           NEW d, Shape(d), ProjectsTyped(d), NEW e, e = Effect(s, d)
    PROVE  ProjectsStep(i, s, d, e) /\ (HasMembers(d, s.org) => s.org \in e.general)
<1>1. e = ProjectEffect(s, d) /\ s.do # "allow"
  BY ProjectAct DEF ProjectKinds
<1>2. CASE ~HasMembers(d, s.org)
  <2>1. e = d
    BY <1>1, <1>2 DEF ProjectEffect
  <2> QED
    BY <1>1, <1>2, <2>1, NothingStep
<1>3. CASE HasMembers(d, s.org)
  <2>1. e = [d EXCEPT !.general = d.general \cup {s.org}]
    BY <1>1, <1>3 DEF ProjectEffect, Shape
  <2>2. /\ SameRest(d, e) /\ SameUsers(d, e) /\ SameRoles(d, e)
        /\ e.schema = d.schema /\ e.sources = d.sources /\ e.general = d.general \cup {s.org}
        /\ e.allowed = d.allowed /\ e.inProject = d.inProject /\ e.legacy = d.legacy
    BY <2>1 DEF Shape, SameRest, SameUsers, SameRoles
  <2>3. ProjectsTyped(e)
    BY <2>2 DEF ProjectsTyped
  <2>4. SchemaStep(i, d, e) /\ RowsStep(i, s, d, e)
    BY <1>1, <2>2 DEF SchemaStep, NamesUnique, RowsStep
  <2> QED
    BY <2>2, <2>3, <2>4 DEF ProjectsStep
<1> QED
  BY <1>2, <1>3

LEMMA AttachStep ==
    ASSUME NEW i, NEW s, s.do = "attach legacy", s.org \in Organizations,
           NEW d, Shape(d), ProjectsTyped(d), NEW e, e = Effect(s, d)
    PROVE  ProjectsStep(i, s, d, e) /\ (s.org \in d.general => s.org \in e.sources)
<1>1. e = ProjectEffect(s, d) /\ s.do # "allow"
  BY ProjectAct DEF ProjectKinds
<1>2. CASE s.org \notin d.general
  <2>1. e = d
    BY <1>1, <1>2 DEF ProjectEffect
  <2> QED
    BY <1>1, <1>2, <2>1, NothingStep
<1>3. CASE s.org \in d.general
  <2>1. e = [d EXCEPT !.sources = d.sources \cup {s.org}]
    BY <1>1, <1>3 DEF ProjectEffect, Shape
  <2>2. /\ SameRest(d, e) /\ SameUsers(d, e) /\ SameRoles(d, e)
        /\ e.schema = d.schema /\ e.sources = d.sources \cup {s.org} /\ e.general = d.general
        /\ e.allowed = d.allowed /\ e.inProject = d.inProject /\ e.legacy = d.legacy
    BY <2>1 DEF Shape, SameRest, SameUsers, SameRoles
  <2>3. ProjectsTyped(e)
    BY <2>2 DEF ProjectsTyped
  <2>4. SchemaStep(i, d, e) /\ RowsStep(i, s, d, e)
    BY <1>1, <2>2 DEF SchemaStep, NamesUnique, RowsStep
  <2> QED
    BY <2>2, <2>3, <2>4 DEF ProjectsStep
<1> QED
  BY <1>2, <1>3

LEMMA AllowStep ==
    ASSUME NEW i, NEW s, s.do = "allow", s.org \in Organizations, s.value \in {"legacy", "empty"},
           NEW d, Shape(d), ProjectsTyped(d), NEW e, e = Effect(s, d)
    PROVE  ProjectsStep(i, s, d, e)
<1>1. e = ProjectEffect(s, d)
  BY ProjectAct DEF ProjectKinds
<1> DEFINE g == [d.allowed EXCEPT ![s.org] = s.value]
<1>2. e = [d EXCEPT !.allowed = g]
  BY <1>1 DEF ProjectEffect, Shape
<1>3. /\ SameRest(d, e) /\ SameUsers(d, e) /\ SameRoles(d, e)
      /\ e.schema = d.schema /\ e.sources = d.sources /\ e.general = d.general
      /\ e.allowed = g /\ e.inProject = d.inProject /\ e.legacy = d.legacy
  <2> HIDE DEF g
  <2> QED
    BY <1>2 DEF Shape, SameRest, SameUsers, SameRoles
<1>4. d.allowed \in [Organizations -> {"unset", "legacy", "empty"}]
  BY DEF ProjectsTyped
<1>5. /\ g \in [Organizations -> {"unset", "legacy", "empty"}]
      /\ \A o \in Organizations : g[o] = IF s.org = o THEN s.value ELSE d.allowed[o]
  BY <1>4
<1> HIDE DEF g
<1>6. ProjectsTyped(e)
  BY <1>3, <1>5 DEF ProjectsTyped
<1>7. SchemaStep(i, d, e) /\ RowsStep(i, s, d, e)
  BY <1>3, <1>5 DEF SchemaStep, NamesUnique, RowsStep
<1> QED
  BY <1>3, <1>6, <1>7 DEF ProjectsStep

Backfilled(d, e) == \A o \in DOMAIN d.inProject : o \in d.general => e.inProject[o] = "general"

LEMMA ConversationsStep ==
    ASSUME NEW i, NEW s, TouchesConversations(s),
           NEW O, SentBy(s, i, O), NEW d, Shape(d), ProjectsTyped(d), NEW e, e = Effect(s, d)
    PROVE  /\ ProjectsStep(i, s, d, e)
           /\ s.do = "backfill conversations" => Backfilled(d, e)
<1>1. e = ProjectEffect(s, d) /\ s.do # "allow"
  BY ProjectAct DEF ProjectKinds, TouchesConversations
<1>2. d.inProject \in [DOMAIN d.inProject -> {"none", "general"}]
  BY DEF ProjectsTyped
<1>3. CASE s.do = "drop conversation.project_id"
  <2> DEFINE f == [o \in DOMAIN d.inProject |-> "none"]
             g == d.schema \ {"conversation.project_id", "conversation.project_id required"}
  <2>0. i = 49
    BY <1>3 DEF SentBy
  <2>1. e = [d EXCEPT !.schema = g, !.inProject = f]
    BY <1>1, <1>3 DEF ProjectEffect, Shape
  <2>2. /\ SameRest(d, e) /\ SameUsers(d, e) /\ SameRoles(d, e)
        /\ e.schema = g /\ e.sources = d.sources /\ e.general = d.general
        /\ e.allowed = d.allowed /\ e.inProject = f /\ e.legacy = d.legacy
    <3> HIDE DEF f, g
    <3> QED
      BY <2>1 DEF Shape, SameRest, SameUsers, SameRoles
  <2>3. e.inProject \in [DOMAIN d.inProject -> {"none", "general"}] /\ DOMAIN e.inProject = DOMAIN d.inProject
    BY <2>2
  <2>4. ProjectsTyped(e)
    BY <2>2, <2>3 DEF ProjectsTyped
  <2>5. SchemaStep(i, d, e)
    BY <2>0, <2>2 DEF SchemaStep, NamesUnique
  <2>6. RowsStep(i, s, d, e)
    BY <1>1, <2>0, <2>2, <2>3 DEF RowsStep
  <2> QED
    BY <1>3, <2>2, <2>4, <2>5, <2>6 DEF ProjectsStep
<1>4. CASE s.do = "backfill conversations"
  <2> DEFINE f == [o \in DOMAIN d.inProject |-> IF o \in d.general THEN "general" ELSE d.inProject[o]]
  <2>0. i = 51
    BY <1>4 DEF SentBy
  <2>1. e = [d EXCEPT !.inProject = f]
    BY <1>1, <1>4 DEF ProjectEffect, Shape
  <2>2. /\ SameRest(d, e) /\ SameUsers(d, e) /\ SameRoles(d, e)
        /\ e.schema = d.schema /\ e.sources = d.sources /\ e.general = d.general
        /\ e.allowed = d.allowed /\ e.inProject = f /\ e.legacy = d.legacy
    <3> HIDE DEF f
    <3> QED
      BY <2>1 DEF Shape, SameRest, SameUsers, SameRoles
  <2>3. e.inProject \in [DOMAIN d.inProject -> {"none", "general"}] /\ DOMAIN e.inProject = DOMAIN d.inProject
    <3> HIDE DEF f
    <3>1. /\ DOMAIN f = DOMAIN d.inProject
          /\ f = [o \in DOMAIN d.inProject |-> f[o]]
          /\ \A o \in DOMAIN d.inProject : f[o] \in {"none", "general"}
      BY <1>2 DEF f
    <3> QED
      BY <2>2, <3>1
  <2>4. ProjectsTyped(e)
    BY <2>2, <2>3 DEF ProjectsTyped
  <2>5. SchemaStep(i, d, e)
    BY <2>2 DEF SchemaStep, NamesUnique
  <2>6. RowsStep(i, s, d, e)
    BY <1>1, <2>0, <2>2, <2>3 DEF RowsStep
  <2>7. Backfilled(d, e)
    BY <2>2 DEF Backfilled
  <2> QED
    BY <2>2, <2>4, <2>5, <2>6, <2>7 DEF ProjectsStep
<1> QED
  BY <1>3, <1>4 DEF TouchesConversations

LEMMA RequireStep ==
    ASSUME NEW i, NEW s, s.do = "require conversation.project_id",
           NEW d, Shape(d), ProjectsTyped(d), NEW e, e = Effect(s, d)
    PROVE  ProjectsStep(i, s, d, e) /\ Required(e)
<1>1. e = ProjectEffect(s, d) /\ s.do # "allow"
  BY ProjectAct DEF ProjectKinds
<1>2. CASE \E o \in DOMAIN d.inProject : d.inProject[o] = "none"
  <2>1. e = d
    BY <1>1, <1>2 DEF ProjectEffect
  <2>2. Required(e)
    BY <1>2, <2>1 DEF Required
  <2> QED
    BY <1>1, <2>1, <2>2, NothingStep
<1>3. CASE ~\E o \in DOMAIN d.inProject : d.inProject[o] = "none"
  <2> DEFINE g == d.schema \cup {"conversation.project_id required"}
  <2>1. e = [d EXCEPT !.schema = g]
    BY <1>1, <1>3 DEF ProjectEffect, Shape
  <2>2. e.schema = g
    BY <2>1 DEF Shape
  <2>3. SchemaStep(i, d, e) /\ Required(e)
    BY <2>2 DEF SchemaStep, NamesUnique, Required
  <2>4. g \in SUBSET Facts
    BY DEF ProjectsTyped, Facts
  <2> HIDE DEF g
  <2> QED
    BY <1>1, <2>1, <2>3, <2>4, SchemaAloneStep
<1> QED
  BY <1>2, <1>3

LEMMA SelectStep ==
    ASSUME NEW i, NEW s, Selects(s),
           NEW d, Shape(d), ProjectsTyped(d), NEW e, e = Effect(s, d)
    PROVE  e = d /\ ProjectsStep(i, s, d, e)
<1>1. e = ProjectEffect(s, d) /\ s.do # "allow"
  BY ProjectAct DEF ProjectKinds, Selects
<1>2. e = d
  BY <1>1 DEF ProjectEffect, Selects
<1> QED
  BY <1>1, <1>2, NothingStep

LEMMA ProjectStatementStep ==
    ASSUME NEW i, NEW s \in ProjectStatements, NEW O, SentBy(s, i, O),
           NEW d, Shape(d), ProjectsTyped(d), NEW e, e = Effect(s, d)
    PROVE  ProjectsStep(i, s, d, e)
<1>1. CASE s \in [do : {"drop project_data_source", "drop project", "backfill organizations", "seed allowlists",
                        "drop conversation.project_id", "backfill conversations",
                        "require conversation.project_id"}]
  <2>1. CASE DropsTable(s)
    BY <2>1, DropTableStep
  <2>2. CASE Selects(s)
    BY ONLY <2>2, SelectStep, SentBy(s, i, O), Shape(d), ProjectsTyped(d), e = Effect(s, d)
  <2>3. CASE TouchesConversations(s)
    BY ONLY <2>3, ConversationsStep, SentBy(s, i, O), Shape(d), ProjectsTyped(d), e = Effect(s, d)
  <2>4. CASE s.do = "require conversation.project_id"
    BY ONLY <2>4, RequireStep, SentBy(s, i, O), Shape(d), ProjectsTyped(d), e = Effect(s, d)
  <2> QED
    BY <1>1, <2>1, <2>2, <2>3, <2>4 DEF DropsTable, Selects, TouchesConversations
<1>2. CASE s \in [do : {"general", "attach legacy"}, org : Organizations]
  BY <1>2, GeneralStep, AttachStep
<1>3. CASE s \in [do : {"allow"}, org : Organizations, value : {"legacy", "empty"}]
  BY <1>3, AllowStep
<1> QED
  BY <1>1, <1>2, <1>3 DEF ProjectStatements, TableDrops

\* A statement of any kind.
StatementStep(i, s, d, e) ==
    \/ s \in RoleStatements /\ RolesStep(i, s, d, e)
    \/ /\ s \in UserStatements
       /\ SameRest(d, e) /\ SameRoles(d, e) /\ SameProjects(d, e) /\ UsersTyped(e) /\ MembersStep(d, e)
    \/ s \in Ddl \cup ProjectStatements /\ ProjectsStep(i, s, d, e)
    \/ s \in Loops \cup Conditional /\ e = d

LEMMA StatementActs ==
    ASSUME NEW i \in Nat, NEW s, NEW d, IsDatabase(d), Fits(s, i, d.orgs), NEW e, e = Effect(s, d)
    PROVE  StatementStep(i, s, d, e)
<1>1. Shape(d) /\ RolesTyped(d) /\ UsersTyped(d) /\ ProjectsTyped(d)
  BY DatabaseParts
<1>2. s \in Loops \cup Conditional \/ (s \in Simple \ Loops /\ SentBy(s, i, d.orgs))
  <2>1. \A x \in Simple : x.do \notin {"unless", "if one of"}
    BY DEF Simple, Ddl, UserStatements, RoleStatements, ProjectStatements, TableDrops, Loops
  <2> QED
    BY <2>1 DEF Fits, Statements
<1>3. CASE s \in Loops \cup Conditional
  BY <1>3, LoopsAct DEF StatementStep
<1>4. CASE s \in RoleStatements /\ SentBy(s, i, d.orgs)
  BY <1>1, <1>4, RoleStatementStep DEF StatementStep
<1>5. CASE s \in UserStatements /\ SentBy(s, i, d.orgs)
  BY <1>1, <1>5, UserStatementStep DEF StatementStep
<1>6. CASE s \in Ddl /\ SentBy(s, i, d.orgs)
  BY <1>1, <1>6, DdlStep DEF StatementStep
<1>7. CASE s \in ProjectStatements /\ SentBy(s, i, d.orgs)
  BY <1>1, <1>7, ProjectStatementStep DEF StatementStep
<1> QED
  BY <1>2, <1>3, <1>4, <1>5, <1>6, <1>7 DEF Simple

LEMMA DatabaseStays ==
    ASSUME NEW i \in Nat, NEW s, NEW d, IsDatabase(d), NEW e, StatementStep(i, s, d, e)
    PROVE  /\ IsDatabase(e) /\ e.recorded = d.recorded /\ e.legacy = d.legacy /\ d.orgs \subseteq e.orgs
           /\ MembersStep(d, e) /\ e.orgs \subseteq d.orgs \cup {Default}
<1>1. /\ Shape(d) /\ RolesTyped(d) /\ UsersTyped(d) /\ ProjectsTyped(d)
      /\ d.recorded \subseteq {BootPlan[k].name : k \in DOMAIN BootPlan}
  BY DatabaseParts
<1>2. CASE RolesStep(i, s, d, e)
  <2>1. /\ Shape(e) /\ RolesTyped(e) /\ e.recorded = d.recorded /\ e.legacy = d.legacy
        /\ d.orgs \subseteq e.orgs /\ e.orgs \subseteq d.orgs \cup {Default}
        /\ SameUsers(d, e) /\ SameProjects(d, e)
    BY <1>2 DEF RolesStep, SameRest, CatalogStep
  <2>2. UsersTyped(e) /\ MembersStep(d, e)
    BY <1>1, <2>1 DEF UsersTyped, SameUsers, MembersStep, HasMembers
  <2>3. ProjectsTyped(e)
    BY <1>1, <2>1 DEF ProjectsTyped, SameProjects
  <2> QED
    BY <1>1, <2>1, <2>2, <2>3, DatabaseParts
<1>3. CASE SameRest(d, e) /\ SameRoles(d, e) /\ SameProjects(d, e) /\ UsersTyped(e) /\ MembersStep(d, e)
  <2>1. /\ Shape(e) /\ e.recorded = d.recorded /\ e.legacy = d.legacy /\ e.orgs = d.orgs
    BY <1>3 DEF SameRest, SameRoles
  <2>2. RolesTyped(e)
    BY <1>1, <1>3 DEF RolesTyped, SameRoles
  <2>3. ProjectsTyped(e)
    BY <1>1, <1>3, <2>1 DEF ProjectsTyped, SameProjects
  <2> QED
    BY <1>1, <1>3, <2>1, <2>2, <2>3, DatabaseParts
<1>4. CASE ProjectsStep(i, s, d, e)
  <2>1. /\ Shape(e) /\ e.recorded = d.recorded /\ e.legacy = d.legacy /\ e.orgs = d.orgs
        /\ SameUsers(d, e) /\ SameRoles(d, e) /\ ProjectsTyped(e)
    BY <1>4 DEF ProjectsStep, SameRest, SameRoles
  <2>2. RolesTyped(e)
    BY <1>1, <2>1 DEF RolesTyped, SameRoles
  <2>3. UsersTyped(e) /\ MembersStep(d, e)
    BY <1>1, <2>1 DEF UsersTyped, SameUsers, MembersStep, HasMembers
  <2> QED
    BY <1>1, <2>1, <2>2, <2>3, DatabaseParts
<1>5. CASE e = d
  BY <1>5 DEF MembersStep
<1> QED
  BY <1>2, <1>3, <1>4, <1>5 DEF StatementStep

-----------------------------------------------------------------------------
(* What follows a statement is sent by the same migration.                 *)

LEMMA SendableLater ==
    ASSUME NEW t, NEW i, NEW O, NEW Q, O \subseteq Q, Sendable(t, i, O)
    PROVE  Sendable(t, i, Q)
<1>1. ASSUME NEW s, SentBy(s, i, O)
      PROVE  SentBy(s, i, Q)
  BY <1>1, ZenonT(30) DEF SentBy
<1> QED
  BY <1>1 DEF Sendable

\* One round of a loop.
LEMMA RedesignSendable ==
    ASSUME NEW O, NEW o \in O, O \subseteq Organizations
    PROVE  Sendable(RedesignScope(o), 18, O)
<1>0. 18 \in RbacPlan /\ o \in Scopes /\ "admin" \in DefaultNames /\ {"manager", "member"} \in SUBSET DefaultNames
      /\ Every \in SUBSET (Catalogue \cup Every)
  BY DEF RbacPlan, Scopes, DefaultNames
<1>1. ASSUME NEW name \in DefaultNames
      PROVE  Sendable(InsertRole(<<o, name>>), 18, O)
  <2> DEFINE r == <<o, name>>
  <2>1. r \in DefaultRows \cup {Superadmin} /\ r \in (Organizations \X DefaultNames) \cup {Superadmin}
        /\ r[1] \in O \cup {Platform}
    BY <1>0 DEF DefaultRows
  <2> HIDE DEF r
  <2>2. Sendable(InsertRole(r), 18, O)
    BY <1>0, <2>1, InsertRoleSendable
  <2> QED
    BY <2>2 DEF r
<1>2. Sendable(Grant(<<o, "admin">>, Every), 18, O)
  <2> DEFINE r == <<o, "admin">>
  <2>1. r \in DefaultRows \cup {Superadmin} /\ 18 <= 18
    BY <1>0 DEF DefaultRows
  <2> HIDE DEF r
  <2>2. Sendable(Grant(r, Every), 18, O)
    BY <1>0, <2>1, GrantSendable
  <2> QED
    BY <2>2 DEF r
<1>3. Sendable(SyncScope(o, {"manager", "member"}), 18, O)
  BY <1>0, SyncSendable
<1>4. Sendable(InsertRole(<<o, "admin">>), 18, O) /\ Sendable(InsertRole(<<o, "manager">>), 18, O)
      /\ Sendable(InsertRole(<<o, "member">>), 18, O)
  BY <1>1 DEF DefaultNames
<1> QED
  BY <1>2, <1>3, <1>4, SendableJoin DEF RedesignScope

LEMMA BackfillSendable ==
    ASSUME NEW o \in Organizations, NEW d, NEW O
    PROVE  Sendable(BackfillGeneral(d, o), 45, O) /\ Sendable(SeedAllowlist(d, o), 46, O)
<1>1. Sendable(<<[do |-> "general", org |-> o]>>, 45, O)
      /\ Sendable(<<[do |-> "attach legacy", org |-> o]>>, 45, O)
  BY RoundSendable
<1>2. Sendable(BackfillGeneral(d, o), 45, O)
  BY <1>1, SendableNone, SendableJoin DEF BackfillGeneral
<1>3. Sendable(SeedAllowlist(d, o), 46, O)
  <2> DEFINE v == IF o \in d.legacy THEN "legacy" ELSE "empty"
  <2>1. v \in {"legacy", "empty"}
    OBVIOUS
  <2> HIDE DEF v
  <2>2. Sendable(<<[do |-> "allow", org |-> o, value |-> v]>>, 46, O)
    BY <2>1, RoundSendable
  <2> QED
    BY <2>2 DEF v, SeedAllowlist
<1> QED
  BY <1>2, <1>3

LEMMA UnrollSendable ==
    ASSUME NEW i \in Nat, NEW s \in Loops, NEW O, O \subseteq Organizations, SentBy(s, i, O),
           NEW d, s.orgs # {}
    PROVE  Sendable(Unroll(s, d), i, O)
<1>1. /\ s.do = "for each" /\ s.orgs \in SUBSET Organizations /\ s.names \in SUBSET DefaultNames
      /\ s.body \in {"sync", "redesign", "backfill", "allow"}
  BY DEF Loops
<1>2. /\ s.body = "sync" => i \in RbacPlan /\ (i = 35 => s.names = DefaultNames)
      /\ s.body = "redesign" => i = 18
      /\ s.body = "backfill" => i = 45
      /\ s.body = "allow" => i = 46
      /\ s.orgs \subseteq O
  BY <1>1 DEF SentBy
<1> DEFINE o == CHOOSE o \in s.orgs : TRUE
<1>3. o \in s.orgs
  OBVIOUS
<1>4. Unroll(s, d) = LoopBody(s, o, d) \o Loop(s.body, s.orgs \ {o}, s.names)
  BY DEF Unroll
<1> HIDE DEF o
<1>5. LoopFits(i, s.body, s.names)
  BY <1>1, <1>2 DEF LoopFits
<1> DEFINE rest == s.orgs \ {o}  body == s.body  names == s.names
<1>6. rest \in SUBSET Organizations /\ rest \subseteq O
  BY <1>1, <1>2
<1>7. Sendable(Loop(body, rest, names), i, O)
  <2>1. LoopFits(i, body, names)
    BY <1>5
  <2> HIDE DEF rest, body, names
  <2> QED
    BY <1>6, <2>1, LoopSendable
<1>8. Sendable(LoopBody(s, o, d), i, O)
  <2>1. o \in O /\ o \in Organizations /\ o \in Scopes
    BY <1>1, <1>2, <1>3 DEF Scopes
  <2>2. CASE s.body = "sync"
    <3>1. LoopBody(s, o, d) = SyncScope(o, s.names)
      BY <2>2 DEF LoopBody
    <3>2. i \in RbacPlan
      BY <1>2, <2>2
    <3>3. Sendable(SyncScope(o, names), i, O)
      <4>1. names \in SUBSET DefaultNames
        BY <1>1
      <4> HIDE DEF names
      <4> QED
        BY <2>1, <3>2, <4>1, SyncSendable
    <3> QED
      BY <3>1, <3>3
  <2>3. CASE s.body = "redesign"
    BY <1>2, <2>1, <2>3, RedesignSendable DEF LoopBody
  <2>4. CASE s.body = "backfill"
    BY <1>2, <2>1, <2>4, BackfillSendable DEF LoopBody
  <2>5. CASE s.body = "allow"
    BY <1>2, <2>1, <2>5, BackfillSendable DEF LoopBody
  <2> QED
    BY <1>1, <2>2, <2>3, <2>4, <2>5
<1> QED
  BY <1>4, <1>7, <1>8, SendableJoin

FollowKinds ==
    {"organizations", "redesign organizations", "for each", "seed organization", "unless",
     "if one of", "backfill organizations", "seed allowlists"}

LEMMA FollowingSendable ==
    ASSUME NEW i \in Nat, NEW s, NEW d, IsDatabase(d), Fits(s, i, d.orgs), NEW e, e = Effect(s, d)
    PROVE  Sendable(Following(s, d), i, e.orgs)
<1>1. StatementStep(i, s, d, e)
  BY StatementActs
<1>2. d.orgs \subseteq e.orgs
  BY <1>1, DatabaseStays
<1>3. d.orgs \in SUBSET Organizations /\ d.orgs \subseteq d.orgs /\ {} \in SUBSET DefaultNames
  BY DEF IsDatabase
<1>4. SUFFICES s.do # "seed organization" => Sendable(Following(s, d), i, d.orgs)
  <2>1. CASE s.do # "seed organization"
    BY <1>2, <1>4, <2>1, SendableLater
  <2>2. CASE s.do = "seed organization"
    <3>1. s.do \notin {"unless", "if one of"}
      BY <2>2
    <3>2. SentBy(s, i, d.orgs)
      BY <3>1 DEF Fits
    <3>3. s \in RoleStatements
      BY <2>2 DEF Fits, Statements, Simple, Ddl, UserStatements, ProjectStatements, TableDrops, Loops, Conditional
    <3>4. i \in RbacPlan /\ i = 23
      BY <2>2, <3>2, <3>3 DEF SentBy
    <3>5. Shape(d) /\ RolesTyped(d)
      BY DatabaseParts
    <3>6. e = RbacEffect(s, d)
      BY <3>3, RoleStatementsAct
    <3>7. Default \in e.orgs
      BY <2>2, <3>2, <3>5, <3>6, SeedStep
    <3>8. Sendable(Sql("seed roles"), i, e.orgs)
      BY <3>4, <3>7, SqlOfRolesSendable
    <3> QED
      BY <2>2, <3>8, SendableNone DEF Following
  <2> QED
    BY <2>1, <2>2
<1>5. CASE s.do \notin FollowKinds
  <2>1. Following(s, d) = <<>>
    BY <1>5 DEF Following, FollowKinds
  <2> QED
    BY <2>1, SendableNone
<1>6. CASE s.do = "organizations"
  <2>1. s \in RoleStatements /\ s \in [do : {"organizations"}, names : SUBSET DefaultNames]
    BY <1>6 DEF Fits, Statements, Simple, Ddl, UserStatements, RoleStatements, ProjectStatements, TableDrops, Loops, Conditional
  <2>2. SentBy(s, i, d.orgs)
    BY <1>6 DEF Fits
  <2>3. i \in RbacPlan /\ (i = 35 => s.names = DefaultNames)
    BY <1>6, <2>1, <2>2 DEF SentBy
  <2>4. LoopFits(i, "sync", s.names)
    BY <2>1, <2>3 DEF LoopFits
  <2>5. Sendable(Loop("sync", d.orgs, s.names), i, d.orgs)
    BY <1>3, <2>4, LoopSendable
  <2> QED
    BY <1>6, <2>5 DEF Following
<1>7. CASE s.do = "redesign organizations"
  <2>1. SentBy(s, i, d.orgs)
    BY <1>7 DEF Fits
  <2>2. i = 18
    BY <1>7, <2>1 DEF SentBy
  <2>3. LoopFits(i, "redesign", {})
    BY <1>3, <2>2 DEF LoopFits
  <2>4. Sendable(Loop("redesign", d.orgs, {}), i, d.orgs)
    BY <1>3, <2>3, LoopSendable
  <2> QED
    BY <1>7, <2>4 DEF Following
<1>8. CASE s.do = "for each"
  <2>1. s \in Loops
    BY <1>8 DEF Fits, Statements, Simple, Ddl, UserStatements, RoleStatements, ProjectStatements, TableDrops, Conditional
  <2>2. SentBy(s, i, d.orgs)
    BY <1>8 DEF Fits
  <2>3. s.orgs # {} => Sendable(Unroll(s, d), i, d.orgs)
    BY <1>3, <2>1, <2>2, UnrollSendable
  <2> QED
    BY <1>8, <2>3, SendableNone DEF Following
<1>9. CASE s.do \in {"unless", "if one of"}
  <2>1. s \in Conditional
    BY <1>9 DEF Fits, Statements, Simple, Ddl, UserStatements, RoleStatements, ProjectStatements, TableDrops, Loops
  <2>2. s.then \in Seq(Ddl \cup TableDrops) /\ \A l \in DOMAIN s.then : SentBy(s.then[l], i, d.orgs)
    BY <1>9, <2>1 DEF Fits, Conditional
  <2>3. \A r \in Ddl \cup TableDrops : r \in Statements /\ r.do \notin {"unless", "if one of"}
    BY DEF Ddl, ProjectStatements, TableDrops, Statements, Simple
  <2>4. Sendable(s.then, i, d.orgs)
    <3> DEFINE t == s.then
    <3>1. \A l \in DOMAIN t : t[l] \in Ddl \cup TableDrops
      BY <2>2
    <3>2. t \in Seq(Statements)
      <4>1. Ddl \cup TableDrops \subseteq Statements
        BY <2>3
      <4> QED
        BY <2>2, <4>1
    <3> HIDE DEF t
    <3>3. \A l \in DOMAIN t : SentBy(t[l], i, d.orgs) /\ t[l].do \notin {"unless", "if one of"}
      BY <2>2, <2>3, <3>1 DEF t
    <3>4. Sendable(t, i, d.orgs)
      BY <3>2, <3>3 DEF Sendable
    <3> QED
      BY <3>4 DEF t
  <2> QED
    BY <1>9, <2>4, SendableNone DEF Following
<1>10. CASE s.do = "backfill organizations"
  <2>1. SentBy(s, i, d.orgs)
    BY <1>10 DEF Fits
  <2>2. i = 45
    BY <1>10, <2>1 DEF SentBy
  <2>3. LoopFits(i, "backfill", {})
    BY <1>3, <2>2 DEF LoopFits
  <2>4. Sendable(Loop("backfill", d.orgs, {}), i, d.orgs)
    BY <1>3, <2>3, LoopSendable
  <2> QED
    BY <1>10, <2>4 DEF Following
<1>11. CASE s.do = "seed allowlists"
  <2>1. SentBy(s, i, d.orgs)
    BY <1>11 DEF Fits
  <2>2. i = 46
    BY <1>11, <2>1 DEF SentBy
  <2>3. LoopFits(i, "allow", {})
    BY <1>3, <2>2 DEF LoopFits
  <2> DEFINE S == {o \in d.orgs : d.allowed[o] = "unset"}
  <2>4. S \in SUBSET Organizations /\ S \subseteq d.orgs
    BY <1>3
  <2>5. Following(s, d) = Loop("allow", S, {})
    BY <1>11 DEF Following
  <2> HIDE DEF S
  <2>6. Sendable(Loop("allow", S, {}), i, d.orgs)
    BY <2>3, <2>4, LoopSendable
  <2> QED
    BY <2>5, <2>6
<1> QED
  BY <1>5, <1>6, <1>7, <1>8, <1>9, <1>10, <1>11 DEF FollowKinds

-----------------------------------------------------------------------------
(* The type of the state.                                                  *)

LEMMA Places ==
    /\ Down = 0 /\ Ready = 55 /\ Failed = 56 /\ DOMAIN BootPlan = 1 .. 54
    /\ Down .. Failed = 0 .. 56
    /\ TypeOK => \A n \in Nodes : /\ at[n] \in 0 .. 56
                                  /\ IsBooting(n) <=> at[n] \in DOMAIN BootPlan
<1>1. /\ Down = 0 /\ Ready = 55 /\ Failed = 56 /\ DOMAIN BootPlan = 1 .. 54
  BY Plan DEF Down, Ready, Failed
<1>2. ASSUME TypeOK, NEW n \in Nodes
      PROVE  at[n] \in 0 .. 56 /\ (IsBooting(n) <=> at[n] \in DOMAIN BootPlan)
  <2>1. at \in [Nodes -> 0 .. 56]
    BY <1>1, <1>2 DEF TypeOK
  <2>2. IsBooting(n) <=> at[n] \notin {0, 56} /\ at[n] # 55
    BY <1>1 DEF IsBooting, Idle
  <2> QED
    BY <1>1, <2>1, <2>2
<1> QED
  BY <1>1, <1>2

LEMMA TypesAtStart == Init => TypeOK
<1> SUFFICES ASSUME Init PROVE TypeOK
  OBVIOUS
<1>1. IsDatabase(db)
  BY DeploymentsAreSound DEF Init, Sound
<1>2. at \in [Nodes -> Down .. Failed] /\ applying \in [Nodes -> BOOLEAN]
  BY Places DEF Init
<1>3. (\A n \in Nodes : todo[n] = <<>> /\ ~applying[n]) /\ todo = [n \in Nodes |-> todo[n]]
  BY DEF Init
<1> QED
  BY <1>1, <1>2, <1>3 DEF TypeOK

\* What a node has of its own.
Owns(n, a, app, t, d) ==
    /\ a \in 0 .. 56 /\ app \in BOOLEAN
    /\ t # <<>> => app
    /\ app => a \in DOMAIN BootPlan /\ Sendable(t, a, d.orgs)

LEMMA TypesByNode ==
    /\ TypeOK => /\ IsDatabase(db) /\ at = [n \in Nodes |-> at[n]]
                 /\ applying = [n \in Nodes |-> applying[n]] /\ todo = [n \in Nodes |-> todo[n]]
                 /\ \A n \in Nodes : Owns(n, at[n], applying[n], todo[n], db)
    /\ /\ IsDatabase(db) /\ at = [n \in Nodes |-> at[n]] /\ applying = [n \in Nodes |-> applying[n]] /\ todo = [n \in Nodes |-> todo[n]]
       /\ \A n \in Nodes : Owns(n, at[n], applying[n], todo[n], db)
       => TypeOK
<1>1. TypeOK => /\ IsDatabase(db) /\ at = [n \in Nodes |-> at[n]]
                /\ applying = [n \in Nodes |-> applying[n]] /\ todo = [n \in Nodes |-> todo[n]]
                /\ \A n \in Nodes : Owns(n, at[n], applying[n], todo[n], db)
  <2> SUFFICES ASSUME TypeOK
               PROVE  /\ IsDatabase(db) /\ at = [n \in Nodes |-> at[n]]
                      /\ applying = [n \in Nodes |-> applying[n]] /\ todo = [n \in Nodes |-> todo[n]]
                      /\ \A n \in Nodes : Owns(n, at[n], applying[n], todo[n], db)
    OBVIOUS
  <2>1. /\ IsDatabase(db) /\ at \in [Nodes -> Down .. Failed] /\ applying \in [Nodes -> BOOLEAN]
        /\ todo = [n \in Nodes |-> todo[n]]
    BY DEF TypeOK
  <2>2. ASSUME NEW n \in Nodes
        PROVE  Owns(n, at[n], applying[n], todo[n], db)
    BY <2>1, Places DEF Owns, TypeOK
  <2> QED
    BY <2>1, <2>2
<1>2. ASSUME IsDatabase(db), at = [n \in Nodes |-> at[n]], applying = [n \in Nodes |-> applying[n]],
             todo = [n \in Nodes |-> todo[n]],
             \A n \in Nodes : Owns(n, at[n], applying[n], todo[n], db)
      PROVE  TypeOK
  <2>1. at \in [Nodes -> Down .. Failed] /\ applying \in [Nodes -> BOOLEAN]
    BY <1>2, Places DEF Owns
  <2>2. \A n \in Nodes : at[n] \in DOMAIN BootPlan => IsBooting(n)
    BY Places DEF IsBooting, Idle
  <2> QED
    BY <1>2, <2>1, <2>2 DEF TypeOK, Owns
<1> QED
  BY <1>1, <1>2

-----------------------------------------------------------------------------
(* A step of a node keeps the types.                                       *)

\* A statement of the node n, and what it does to the database.
Applies(n, s, d, e) ==
    /\ IsDatabase(d) /\ Fits(s, at[n], d.orgs) /\ at[n] \in Nat /\ e = Effect(s, d)
    /\ IsDatabase(e) /\ d.orgs \subseteq e.orgs
    /\ StatementStep(at[n], s, d, e)

LEMMA ApplyStatementActs ==
    ASSUME TypeOK, NEW n \in Nodes, ApplyStatement(n)
    PROVE  /\ Applies(n, Head(todo[n]), db, db')
           /\ Sendable(todo'[n], at[n], db'.orgs)
           /\ \A m \in Nodes \ {n} : todo'[m] = todo[m]
           /\ at' = at /\ applying' = applying /\ applying[n] /\ at[n] \in DOMAIN BootPlan
<1>1. /\ IsDatabase(db) /\ at[n] \in 0 .. 56 /\ applying[n] /\ todo[n] # <<>>
      /\ at[n] \in DOMAIN BootPlan /\ Sendable(todo[n], at[n], db.orgs)
  BY TypesByNode DEF Owns, ApplyStatement
<1> DEFINE s == Head(todo[n])
           i == at[n]
<1>2. db' = Effect(s, db) /\ at' = at /\ applying' = applying
      /\ todo' = [todo EXCEPT ![n] = Following(s, db) \o Tail(@)]
  BY DEF ApplyStatement
<1>3. Fits(s, i, db.orgs) /\ Sendable(Tail(todo[n]), i, db.orgs)
  BY <1>1, SendableHeadTail
<1>4. i \in Nat
  <2> HIDE DEF i
  <2>1. i \in 0 .. 56
    BY <1>1 DEF i
  <2> QED
    BY <2>1
<1>d. \A m \in Nodes \ {n} : todo'[m] = todo[m]
  BY <1>2
<1>t. todo'[n] = Following(s, db) \o Tail(todo[n])
  BY <1>2, TypesByNode
<1> HIDE DEF s, i
<1>5. StatementStep(i, s, db, db')
  BY <1>1, <1>2, <1>3, <1>4, StatementActs
<1>6. IsDatabase(db') /\ db.orgs \subseteq db'.orgs
  BY <1>1, <1>4, <1>5, DatabaseStays
<1>7. Sendable(Following(s, db), i, db'.orgs)
  BY <1>1, <1>2, <1>3, <1>4, FollowingSendable
<1>8. Sendable(Tail(todo[n]), i, db'.orgs)
  BY <1>3, <1>6, SendableLater
<1>9. Sendable(Following(s, db) \o Tail(todo[n]), i, db'.orgs)
  BY <1>7, <1>8, SendableJoin
<1> QED
  BY <1>1, <1>2, <1>3, <1>4, <1>5, <1>6, <1>9, <1>d, <1>t DEF Applies, s, i

LEMMA RecordMigrationTyped ==
    ASSUME TypeOK, NEW n \in Nodes, RecordMigration(n)
    PROVE  /\ IsDatabase(db') /\ db'.orgs = db.orgs
           /\ at[n] \in DOMAIN BootPlan /\ applying[n] /\ todo[n] = <<>>
<1>1. IsDatabase(db) /\ at[n] \in DOMAIN BootPlan
  BY Places, TypesByNode DEF RecordMigration
<1>2. PICK name \in Migrations : db' = [db EXCEPT !.recorded = @ \cup {name}]
  BY <1>1 DEF RecordMigration, Migrations
<1>3. /\ Shape(db) /\ RolesTyped(db) /\ UsersTyped(db) /\ ProjectsTyped(db)
      /\ db.recorded \subseteq {BootPlan[k].name : k \in DOMAIN BootPlan}
  BY <1>1, DatabaseParts
<1>4. /\ Shape(db') /\ db'.recorded \subseteq {BootPlan[k].name : k \in DOMAIN BootPlan}
      /\ db'.grants = db.grants /\ db'.catalog = db.catalog /\ db'.orgs = db.orgs
      /\ SameUsers(db, db') /\ SameProjects(db, db') /\ db'.legacy = db.legacy
  BY <1>2, <1>3 DEF Shape, SameUsers, SameProjects, Migrations
<1>5. RolesTyped(db')
  BY <1>3, <1>4 DEF RolesTyped
<1>6. UsersTyped(db') /\ ProjectsTyped(db')
  BY <1>3, <1>4 DEF UsersTyped, ProjectsTyped, SameUsers, SameProjects
<1>7. IsDatabase(db')
  BY <1>4, <1>5, <1>6, DatabaseParts
<1> QED
  BY <1>1, <1>4, <1>7 DEF RecordMigration

LEMMA TypesStay ==
    ASSUME TypeOK, [Next]_vars
    PROVE  TypeOK'
<1>1. /\ IsDatabase(db) /\ at = [n \in Nodes |-> at[n]] /\ applying = [n \in Nodes |-> applying[n]]
      /\ todo = [n \in Nodes |-> todo[n]]
      /\ \A n \in Nodes : Owns(n, at[n], applying[n], todo[n], db)
  BY TypesByNode
<1> DEFINE After ==
        /\ IsDatabase(db') /\ at' = [n \in Nodes |-> at'[n]] /\ applying' = [n \in Nodes |-> applying'[n]]
        /\ todo' = [n \in Nodes |-> todo'[n]]
        /\ \A n \in Nodes : Owns(n, at'[n], applying'[n], todo'[n], db')
<1>2. After => TypeOK'
  <2>1. /\ After => /\ IsDatabase(db)' /\ (at = [n \in Nodes |-> at[n]])'
                    /\ (applying = [n \in Nodes |-> applying[n]])'
                    /\ (todo = [n \in Nodes |-> todo[n]])'
                    /\ (\A n \in Nodes : Owns(n, at[n], applying[n], todo[n], db))'
    BY DEF Owns
  <2> QED
    BY <2>1, TypesByNode, PTL
<1> SUFFICES After
  BY <1>2
<1>o. ASSUME NEW n \in Nodes, NEW a, NEW app, NEW t, Owns(n, a, app, t, db),
             at' = [at EXCEPT ![n] = a], applying' = [applying EXCEPT ![n] = app],
             todo' = [todo EXCEPT ![n] = t], IsDatabase(db'), db'.orgs = db.orgs
      PROVE  After
  <2>1. \A m \in Nodes : Owns(m, at'[m], applying'[m], todo'[m], db)
    BY <1>1, <1>o
  <2>2. \A m \in Nodes : Owns(m, at'[m], applying'[m], todo'[m], db')
    BY <2>1, <1>o DEF Owns
  <2> QED
    BY <1>1, <1>o, <2>2
<1>q. \A a : a \in DOMAIN BootPlan => a \in 0 .. 56 /\ a + 1 \in 0 .. 56
  BY Places
<1>r. ASSUME NEW n \in Nodes
      PROVE  /\ at[n] \in 0 .. 56 /\ applying[n] \in BOOLEAN
             /\ [at EXCEPT ![n] = at[n]] = at /\ [applying EXCEPT ![n] = applying[n]] = applying
             /\ [todo EXCEPT ![n] = todo[n]] = todo
  BY <1>1 DEF Owns
<1>3. ASSUME NEW n \in Nodes, Boot(n)
      PROVE  After
  <2>1. at[n] \notin DOMAIN BootPlan
    BY <1>3, Places DEF Boot, Idle
  <2>2. Owns(n, 1, applying[n], todo[n], db)
    BY <1>1, <2>1, Places DEF Owns
  <2>3. /\ at' = [at EXCEPT ![n] = 1] /\ applying' = [applying EXCEPT ![n] = applying[n]]
        /\ todo' = [todo EXCEPT ![n] = todo[n]] /\ db' = db
    BY <1>3, <1>r DEF Boot
  <2> QED
    BY <1>1, <1>o, <2>2, <2>3
<1>4. ASSUME NEW n \in Nodes, CheckMigration(n)
      PROVE  After
  <2>1. at[n] \in DOMAIN BootPlan /\ ~applying[n] /\ db' = db
    BY <1>4, Places DEF CheckMigration
  <2>2. CASE BootPlan[at[n]].name \in db.recorded
    <3>1. /\ at' = [at EXCEPT ![n] = at[n] + 1] /\ applying' = [applying EXCEPT ![n] = applying[n]]
          /\ todo' = [todo EXCEPT ![n] = todo[n]]
      BY <1>4, <1>r, <2>2 DEF CheckMigration
    <3>2. Owns(n, at[n] + 1, applying[n], todo[n], db)
      BY <1>1, <1>q, <2>1 DEF Owns
    <3> QED
      BY <1>1, <1>o, <2>1, <3>1, <3>2
  <2>3. CASE BootPlan[at[n]].name \notin db.recorded
    <3>1. Sendable(BootPlan[at[n]].up, at[n], db.orgs)
      BY <2>1, PlanSendable
    <3>2. /\ applying' = [applying EXCEPT ![n] = TRUE] /\ todo' = [todo EXCEPT ![n] = BootPlan[at[n]].up]
          /\ at' = [at EXCEPT ![n] = at[n]]
      BY <1>4, <1>r, <2>3 DEF CheckMigration
    <3>3. Owns(n, at[n], TRUE, BootPlan[at[n]].up, db)
      BY <1>q, <2>1, <3>1 DEF Owns
    <3> QED
      BY <1>1, <1>o, <2>1, <3>2, <3>3
  <2> QED
    BY <2>2, <2>3
<1>5. ASSUME NEW n \in Nodes, ApplyStatement(n)
      PROVE  After
  <2>1. /\ Applies(n, Head(todo[n]), db, db')
        /\ Sendable(todo'[n], at[n], db'.orgs)
        /\ \A m \in Nodes \ {n} : todo'[m] = todo[m]
        /\ at' = at /\ applying' = applying /\ applying[n] /\ at[n] \in DOMAIN BootPlan
    BY <1>5, ApplyStatementActs
  <2>2. IsDatabase(db') /\ db.orgs \subseteq db'.orgs
    BY <2>1 DEF Applies
  <2>3. todo' = [m \in Nodes |-> todo'[m]]
    BY <1>1, <1>5 DEF ApplyStatement
  <2>4. Owns(n, at'[n], applying'[n], todo'[n], db')
    BY <1>1, <2>1 DEF Owns
  <2>5. ASSUME NEW m \in Nodes \ {n}
        PROVE  Owns(m, at'[m], applying'[m], todo'[m], db')
    <3>1. Owns(m, at[m], applying[m], todo[m], db)
      BY <1>1
    <3>2. applying[m] => Sendable(todo[m], at[m], db'.orgs)
      BY <2>2, <3>1, SendableLater DEF Owns
    <3> QED
      BY <2>1, <3>1, <3>2 DEF Owns
  <2>6. \A m \in Nodes : Owns(m, at'[m], applying'[m], todo'[m], db')
    BY <2>4, <2>5
  <2> QED
    BY <1>1, <2>1, <2>2, <2>3, <2>6
<1>6. ASSUME NEW n \in Nodes, NEW how \in {Down, Failed}, Leave(n, how)
      PROVE  After
  <2>1. Owns(n, how, FALSE, <<>>, db)
    BY <1>6, Places DEF Owns
  <2>2. /\ at' = [at EXCEPT ![n] = how] /\ applying' = [applying EXCEPT ![n] = FALSE]
        /\ todo' = [todo EXCEPT ![n] = <<>>] /\ db' = db
    BY <1>6 DEF Leave
  <2> QED
    BY <1>1, <1>o, <2>1, <2>2
<1>7. ASSUME NEW n \in Nodes, FailStatement(n) \/ Stop(n)
      PROVE  After
  BY <1>6, <1>7 DEF FailStatement, Stop
<1>8. ASSUME NEW n \in Nodes, RecordMigration(n)
      PROVE  After
  <2>1. /\ IsDatabase(db') /\ db'.orgs = db.orgs
        /\ at[n] \in DOMAIN BootPlan /\ applying[n] /\ todo[n] = <<>>
    BY <1>8, RecordMigrationTyped
  <2>2. /\ at' = [at EXCEPT ![n] = at[n] + 1] /\ applying' = [applying EXCEPT ![n] = FALSE]
        /\ todo' = [todo EXCEPT ![n] = <<>>]
    BY <1>8, <1>r, <2>1 DEF RecordMigration
  <2>3. Owns(n, at[n] + 1, FALSE, <<>>, db)
    BY <1>q, <2>1 DEF Owns
  <2> QED
    BY <1>o, <2>1, <2>2, <2>3
<1>9. CASE UNCHANGED vars
  BY <1>1, <1>9 DEF vars
<1> QED
  BY <1>3, <1>4, <1>5, <1>7, <1>8, <1>9 DEF Next

\* The types of the database, of the places of the nodes and of what they have
\* still to send: each statement of a migration is one of those its index sends.
THEOREM TypeCorrect == Spec => []TypeOK
<1> QED
  BY TypesAtStart, TypesStay, PTL DEF Spec

-----------------------------------------------------------------------------
(* Custom roles only gain.                                                 *)

LEMMA RenamesOldRoles == BootPlan[12].name = "rbac_002"
BY Plan

LEMMA NamesStayNew ==
    ASSUME NEW i \in Nat, NEW s, NEW d, NEW e, StatementStep(i, s, d, e)
    PROVE  NoOldNames(d) => NoOldNames(e)
<1>1. CASE RolesStep(i, s, d, e)
  BY <1>1 DEF RolesStep, NamesStep
<1>2. CASE SameRoles(d, e)
  BY <1>2 DEF SameRoles, NoOldNames
<1> QED
  BY <1>1, <1>2 DEF StatementStep, ProjectsStep, SameRoles

LEMMA CustomRolesGain ==
    ASSUME NEW i \in Nat, NEW s, NEW d, NEW e, StatementStep(i, s, d, e), i # 12 \/ NoOldNames(d)
    PROVE  \A r \in CustomRolesOf(d) : d.grants[r] \ Phantoms \subseteq e.grants[r]
<1>1. CASE RolesStep(i, s, d, e)
  <2>1. CustomStep(i, s, d, e)
    BY <1>1 DEF RolesStep
  <2> QED
    BY <2>1 DEF CustomStep
<1>2. CASE e.grants = d.grants
  BY <1>2
<1> QED
  BY <1>1, <1>2 DEF StatementStep, ProjectsStep, SameRoles

LEMMA NoRenameAtStart == Init => NoRename
BY DeploymentsAreSound DEF Init, Sound, LastingRoles, NoRename, Has

LEMMA NoRenameStays ==
    ASSUME TypeOK, NoRename, [Next]_vars
    PROVE  NoRename'
<1>1. /\ todo = [n \in Nodes |-> todo[n]] /\ at = [n \in Nodes |-> at[n]]
      /\ applying = [n \in Nodes |-> applying[n]]
      /\ \A n \in Nodes : Owns(n, at[n], applying[n], todo[n], db)
  BY TypesByNode
<1>2. CASE UNCHANGED vars
  BY <1>2 DEF vars, NoRename, NoOldNames, Has
<1>3. ASSUME NEW n \in Nodes, Boot(n)
      PROVE  NoRename'
  <2>1. db' = db /\ applying' = applying /\ at' = [at EXCEPT ![n] = 1]
    BY <1>3 DEF Boot
  <2> QED
    BY <1>1, <2>1 DEF NoRename, NoOldNames, Has
<1>4. ASSUME NEW n \in Nodes, CheckMigration(n)
      PROVE  NoRename'
  <2>1. db' = db /\ ~applying[n]
    BY <1>4 DEF CheckMigration
  <2>2. CASE BootPlan[at[n]].name \in db.recorded
    <3>1. at' = [at EXCEPT ![n] = at[n] + 1] /\ applying' = applying
      BY <1>4, <2>2 DEF CheckMigration
    <3> QED
      BY <1>1, <2>1, <3>1 DEF NoRename, NoOldNames, Has
  <2>3. CASE BootPlan[at[n]].name \notin db.recorded
    <3>1. at' = at /\ applying' = [applying EXCEPT ![n] = TRUE]
      BY <1>4, <2>3 DEF CheckMigration
    <3>2. Has(db, "rbac_002") => at[n] # 12
      BY <2>3, RenamesOldRoles DEF Has
    <3> QED
      BY <1>1, <2>1, <3>1, <3>2 DEF NoRename, NoOldNames, Has
  <2> QED
    BY <2>2, <2>3
<1>5. ASSUME NEW n \in Nodes, ApplyStatement(n)
      PROVE  NoRename'
  <2>1. Applies(n, Head(todo[n]), db, db') /\ at' = at /\ applying' = applying
    BY <1>5, ApplyStatementActs
  <2>2. NoOldNames(db) => NoOldNames(db')
    BY <2>1, NamesStayNew DEF Applies
  <2>3. db'.recorded = db.recorded
    BY <2>1, DatabaseStays DEF Applies
  <2> QED
    BY <2>1, <2>2, <2>3 DEF NoRename, NoOldNames, Has
<1>6. ASSUME NEW n \in Nodes, FailStatement(n) \/ Stop(n)
      PROVE  NoRename'
  <2>1. PICK how : at' = [at EXCEPT ![n] = how]
    BY <1>6 DEF FailStatement, Stop, Leave
  <2>2. applying' = [applying EXCEPT ![n] = FALSE] /\ db' = db
    BY <1>6 DEF FailStatement, Stop, Leave
  <2> QED
    BY <1>1, <2>1, <2>2 DEF NoRename, NoOldNames, Has
<1>7. ASSUME NEW n \in Nodes, RecordMigration(n)
      PROVE  NoRename'
  <2>1. IsDatabase(db)
    BY DEF TypeOK
  <2>2. db' = [db EXCEPT !.recorded = @ \cup {BootPlan[at[n]].name}]
    BY <1>7 DEF RecordMigration
  <2>3. db'.grants = db.grants /\ db.recorded \subseteq db'.recorded
    BY <2>1, <2>2 DEF IsDatabase
  <2>4. at' = [at EXCEPT ![n] = at[n] + 1] /\ applying' = [applying EXCEPT ![n] = FALSE]
    BY <1>7 DEF RecordMigration
  <2> QED
    BY <1>1, <2>3, <2>4 DEF NoRename, NoOldNames, Has
<1> QED
  BY <1>2, <1>3, <1>4, <1>5, <1>6, <1>7 DEF Next

\* rbac_002, the one migration that renames roles, meets no role that has one of
\* the old names after it is recorded, and no migration brings an old name back.
THEOREM NoRoleIsRenamed == Spec => []NoRename
<1> QED
  BY TypeCorrect, NoRenameAtStart, NoRenameStays, TypesAtStart, TypesStay, PTL DEF Spec

LEMMA CustomRolesGainStep ==
    ASSUME TypeOK, NoRename, [Next]_vars
    PROVE  [\A r \in CustomRoles : db.grants[r] \ Phantoms \subseteq db'.grants[r]]_vars
<1>1. ASSUME NEW n \in Nodes, ApplyStatement(n)
      PROVE  \A r \in CustomRoles : db.grants[r] \ Phantoms \subseteq db'.grants[r]
  <2>1. Applies(n, Head(todo[n]), db, db') /\ applying[n]
    BY <1>1, ApplyStatementActs
  <2>2. at[n] # 12 \/ NoOldNames(db)
    BY <2>1 DEF NoRename
  <2> QED
    BY <2>1, <2>2, CustomRolesGain DEF Applies, CustomRoles
<1>2. ASSUME NEW n \in Nodes, RecordMigration(n)
      PROVE  db'.grants = db.grants
  <2>1. IsDatabase(db)
    BY DEF TypeOK
  <2> QED
    BY <1>2, <2>1 DEF RecordMigration, IsDatabase
<1>3. ASSUME NEW n \in Nodes, Boot(n) \/ CheckMigration(n) \/ FailStatement(n) \/ Stop(n)
      PROVE  db' = db
  BY <1>3 DEF Boot, CheckMigration, FailStatement, Stop, Leave
<1> QED
  BY <1>1, <1>2, <1>3 DEF Next, vars

\* No statement of a boot takes from a custom role a permission rbac_017 does
\* not abolish, on however many nodes at once and wherever boots were interrupted.
THEOREM CustomRolesKeepTheirs == Spec => CustomRolesOnlyGain
<1> QED
  BY TypeCorrect, NoRoleIsRenamed, CustomRolesGainStep, PTL DEF Spec, CustomRolesOnlyGain

-----------------------------------------------------------------------------
(* What earlier migrations did lasts.                                      *)

LEMMA NamesOfPlan ==
    /\ DOMAIN BootPlan = 1 .. 54
    /\ BootPlan[12].name = "rbac_002" /\ BootPlan[13].name = "rbac_003" /\ BootPlan[18].name = "rbac_008"
    /\ BootPlan[21].name = "rbac_011" /\ BootPlan[25].name = "rbac_015" /\ BootPlan[26].name = "rbac_016"
    /\ BootPlan[27].name = "rbac_017" /\ BootPlan[28].name = "rbac_018" /\ BootPlan[29].name = "rbac_019"
    /\ BootPlan[30].name = "rbac_020" /\ BootPlan[31].name = "rbac_021" /\ BootPlan[32].name = "rbac_022"
    /\ BootPlan[34].name = "rbac_024" /\ BootPlan[35].name = "rbac_025"
    /\ BootPlan[39].name = "vector_db_002" /\ BootPlan[42].name = "projects_001a"
    /\ BootPlan[43].name = "projects_001b" /\ BootPlan[44].name = "projects_001c"
    /\ BootPlan[45].name = "projects_002" /\ BootPlan[46].name = "projects_003"
    /\ BootPlan[47].name = "projects_004" /\ BootPlan[49].name = "chat_002"
    /\ BootPlan[50].name = "chat_003" /\ BootPlan[51].name = "chat_004" /\ BootPlan[52].name = "chat_005"
BY Plan

\* A migration that is not recorded comes after the recorded ones of its service.
LEMMA OneAfterAnother ==
    ASSUME NEW d, RecordedInOrder(d), NEW i \in DOMAIN BootPlan, ~Has(d, BootPlan[i].name),
           NEW j \in DOMAIN BootPlan, Has(d, BootPlan[j].name), InOneService(i, j)
    PROVE  j < i
<1>1. i \in 1 .. 54 /\ j \in 1 .. 54
  BY NamesOfPlan
<1>2. i # j
  OBVIOUS
<1>3. ~(i \in 1 .. j - 1)
  BY DEF RecordedInOrder
<1> HIDE DEF BootPlan
<1> QED
  BY <1>1, <1>2, <1>3

After(d, i) ==
    /\ Has(d, "rbac_008") => i \notin {12, 13}
    /\ Has(d, "rbac_017") => i # 21
    /\ Has(d, "rbac_019") => i # 27
    /\ Has(d, "rbac_025") => i \notin RbacPlan
    /\ Has(d, "vector_db_002") => i # 39
    /\ Has(d, "projects_002") \/ Has(d, "projects_004") \/ Has(d, "chat_003") => i \notin {42, 44}
    /\ Has(d, "chat_003") \/ Has(d, "chat_004") \/ Has(d, "chat_005") => i # 49
    /\ Has(d, "chat_004") \/ Has(d, "chat_005") => i # 51

LEMMA OrderOfPlan ==
    ASSUME NEW d, RecordedInOrder(d), NEW i \in DOMAIN BootPlan, ~Has(d, BootPlan[i].name)
    PROVE  After(d, i)
<1>0. i \in 1 .. 54
  BY NamesOfPlan
<1> DEFINE Later(j) == Has(d, BootPlan[j].name) /\ InOneService(i, j) => j < i
<1>1. \A j \in DOMAIN BootPlan : Later(j)
  BY OneAfterAnother
<1>2. \A j \in 1 .. 54 : Later(j)
  BY <1>1, NamesOfPlan
<1>3. /\ \A j \in RbacPlan : i \in RbacPlan => InOneService(i, j)
      /\ \A j \in ProjectPlan : i \in ProjectPlan => InOneService(i, j)
      /\ \A j \in ChatPlan : i \in ChatPlan => InOneService(i, j)
  BY DEF InOneService
<1> HIDE DEF Later
<1>4. Later(18) /\ Later(27) /\ Later(29) /\ Later(35) /\ Later(45) /\ Later(47) /\ Later(50)
      /\ Later(51) /\ Later(52)
  BY <1>2
<1>5. Has(d, "rbac_008") => i \notin {12, 13}
  BY <1>3, <1>4, NamesOfPlan DEF Later, RbacPlan
<1>6. Has(d, "rbac_017") => i # 21
  BY <1>3, <1>4, NamesOfPlan DEF Later, RbacPlan
<1>7. Has(d, "rbac_019") => i # 27
  BY <1>3, <1>4, NamesOfPlan DEF Later, RbacPlan
<1>8. Has(d, "rbac_025") => i \notin RbacPlan
  BY <1>0, <1>3, <1>4, NamesOfPlan DEF Later, RbacPlan
<1>9. Has(d, "vector_db_002") => i # 39
  BY NamesOfPlan
<1>10. Has(d, "projects_002") \/ Has(d, "projects_004") => i \notin {42, 44}
  BY <1>3, <1>4, NamesOfPlan DEF Later, ProjectPlan
<1>11. Has(d, "chat_003") => Has(d, "projects_004")
  BY DEF RecordedInOrder
<1>12. Has(d, "chat_003") \/ Has(d, "chat_004") \/ Has(d, "chat_005") => i # 49
  BY <1>3, <1>4, NamesOfPlan DEF Later, ChatPlan
<1>13. Has(d, "chat_004") \/ Has(d, "chat_005") => i # 51
  BY <1>3, <1>4, NamesOfPlan DEF Later, ChatPlan
<1> QED
  BY <1>5, <1>6, <1>7, <1>8, <1>9, <1>10, <1>11, <1>12, <1>13 DEF After

LEMMA BaseIsNoPhantom == \A p \in Base : p \notin Phantoms
<1> SUFFICES ASSUME NEW p \in Base PROVE p \notin Phantoms
  OBVIOUS
<1>1. /\ p[1] = "project" \/ p[1] = "organization" => p[1] = "organization" /\ p[2] # "manage-members"
  BY DEF Base, On, Crud
<1>2. \A q \in Phantoms : q[1] = "project" \/ (q[1] = "organization" /\ q[2] = "manage-members")
  BY DEF Phantoms, On
<1> QED
  BY <1>1, <1>2

LEMMA FamilyIsNoPhantom ==
    \A name : name # "rbac_019" => \A p \in Family(name) : p \notin Phantoms
<1> SUFFICES ASSUME NEW name, name # "rbac_019", NEW p \in Family(name) PROVE p \notin Phantoms
  OBVIOUS
<1>1. p[1] \notin {"project", "organization"}
  BY DEF Family, On
<1>2. \A q \in Phantoms : q[1] \in {"project", "organization"}
  BY DEF Phantoms, On
<1> QED
  BY <1>1, <1>2

LEMMA HeirIsNoPhantom ==
    /\ \A name, holding : \A p \in Heirs(name, holding) : p \notin Phantoms
    /\ CanUpdate \notin Phantoms /\ CanRead \notin Phantoms
<1>1. ASSUME NEW name, NEW holding, NEW p \in Heirs(name, holding)
      PROVE  p \notin Phantoms
  <2>1. p[1] \notin {"project", "organization"}
    BY DEF Heirs, On
  <2>2. \A q \in Phantoms : q[1] \in {"project", "organization"}
    BY DEF Phantoms, On
  <2> QED
    BY <2>1, <2>2
<1>2. CanUpdate[2] # "manage-members" /\ CanUpdate[1] # "project" /\ CanRead[2] # "manage-members" /\ CanRead[1] # "project"
  BY DEF CanUpdate, CanRead
<1>3. \A q \in Phantoms : q[1] = "project" \/ q[2] = "manage-members"
  BY DEF Phantoms, On
<1> QED
  BY <1>1, <1>2, <1>3

\* Only the families of rbac_015 and later have members.
LEMMA FamiliesAreLate ==
    \A name : Family(name) # {} =>
        \E j \in 25 .. 35 : name = BootPlan[j].name
<1>1. \A name : Family(name) # {} =>
        name \in {"rbac_015", "rbac_016", "rbac_018", "rbac_019", "rbac_020", "rbac_021", "rbac_022",
                  "rbac_024", "rbac_025"}
  BY DEF Family
<1>2. 25 \in 25 .. 35 /\ 26 \in 25 .. 35 /\ 28 \in 25 .. 35 /\ 29 \in 25 .. 35 /\ 30 \in 25 .. 35
      /\ 31 \in 25 .. 35 /\ 32 \in 25 .. 35 /\ 34 \in 25 .. 35 /\ 35 \in 25 .. 35
  OBVIOUS
<1> HIDE DEF BootPlan
<1> QED
  BY <1>1, <1>2, NamesOfPlan

LEMMA FamilyNeedsSuperadmin ==
    ASSUME NEW d, RecordedInOrder(d), NEW name, Has(d, name), Family(name) # {}
    PROVE  Has(d, "rbac_008")
<1>1. PICK j \in 25 .. 35 : name = BootPlan[j].name
  BY FamiliesAreLate
<1>2. j \in DOMAIN BootPlan /\ 18 \in 1 .. j - 1 /\ InOneService(18, j)
  BY NamesOfPlan DEF InOneService, RbacPlan
<1>3. Has(d, BootPlan[18].name)
  BY <1>1, <1>2 DEF RecordedInOrder
<1> QED
  BY <1>3, NamesOfPlan

Lasting(d, i) == IsDatabase(d) /\ RecordedInOrder(d) /\ After(d, i)

LEMMA RolesLast ==
    ASSUME NEW i \in Nat, NEW s, NEW d, NEW e, Lasting(d, i), LastingRoles(d),
           RolesStep(i, s, d, e), s \in RoleStatements, NEW O, SentBy(s, i, O)
    PROVE  LastingRoles(e)
<1>0. /\ e.recorded = d.recorded /\ (\A name : Has(e, name) <=> Has(d, name))
      /\ CatalogStep(i, d, e) /\ CustomStep(i, s, d, e) /\ SuperadminStep(i, d, e) /\ NamesStep(i, d, e)
      /\ After(d, i) /\ RecordedInOrder(d)
  BY DEF RolesStep, SameRest, Has, Lasting
<1>1. Has(e, "rbac_002") \/ NoOldNames(e)
  BY <1>0 DEF LastingRoles, NamesStep
<1>2. Has(e, "rbac_003") => Base \subseteq e.catalog
  BY <1>0, BaseIsNoPhantom DEF LastingRoles, CatalogStep
<1>3. Has(e, "rbac_008") => HasSuperadmin(e) /\ NoPlatformDefaults(e)
  <2> SUFFICES ASSUME Has(e, "rbac_008") PROVE HasSuperadmin(e) /\ NoPlatformDefaults(e)
    OBVIOUS
  <2>1. HasSuperadmin(d) /\ NoPlatformDefaults(d) /\ i \notin {12, 13}
    BY <1>0 DEF LastingRoles, After
  <2>2. NoPlatformDefaults(e)
    BY <1>0, <2>1 DEF NamesStep
  <2>3. HasSuperadmin(e)
    BY <1>0, <2>1, BaseIsNoPhantom DEF HasSuperadmin, SuperadminStep
  <2> QED
    BY <2>2, <2>3
<1>4. ASSUME NEW name \in e.recorded, NEW p \in Family(name)
      PROVE  p \in e.grants[Superadmin]
  <2>1. Has(d, name) /\ HoldsFamily(d, name)
    BY <1>0, <1>4 DEF LastingRoles, Has
  <2>2. Superadmin \in DOMAIN d.grants
    BY <1>0, <2>1, FamilyNeedsSuperadmin DEF LastingRoles, HasSuperadmin
  <2>3. p \in d.grants[Superadmin]
    BY <2>1 DEF HoldsFamily
  <2>4. CASE name = "rbac_019"
    BY <1>0, <2>1, <2>2, <2>3, <2>4 DEF SuperadminStep, After
  <2>5. CASE name # "rbac_019"
    BY <1>0, <2>2, <2>3, <2>5, FamilyIsNoPhantom DEF SuperadminStep
  <2> QED
    BY <2>4, <2>5
<1>5. Has(e, "rbac_017") => <<"organization", "manage-members">> \notin e.catalog
  BY <1>0 DEF LastingRoles, CatalogStep, After
<1>6. ASSUME NEW r \in CustomRolesOf(e)
      PROVE  /\ r \in CustomRolesOf(d) /\ d.grants[r] \ Phantoms \subseteq e.grants[r]
             /\ \A p \in {CanUpdate, CanRead, <<"embed-site", "delete">>} : p \in e.grants[r] => p \in d.grants[r]
  <2>1. /\ r \in CustomRolesOf(d) /\ d.grants[r] \ Phantoms \subseteq e.grants[r]
        /\ \A p \in e.grants[r] \ d.grants[r] : s.do = "inherit" /\ p \in s.perms
    BY <1>0 DEF CustomStep
  <2>2. s.do = "inherit" => s.perms \cap {CanUpdate, CanRead, <<"embed-site", "delete">>} = {}
    BY DEF SentBy
  <2> QED
    BY <2>1, <2>2
<1>7. ASSUME NEW name \in e.recorded, NEW holding \in {CanUpdate, CanRead}
      PROVE  Inherited(e, name, holding)
  <2>1. Inherited(d, name, holding)
    BY <1>0, <1>7 DEF LastingRoles
  <2> QED
    BY <1>6, <2>1, HeirIsNoPhantom DEF Inherited
<1>8. \A r \in CustomRolesOf(e) : <<"embed-site", "delete">> \notin e.grants[r]
  BY <1>6 DEF LastingRoles
<1>9. ~Has(e, "rbac_025")
  BY <1>0 DEF After, SentBy
<1> QED
  BY <1>1, <1>2, <1>3, <1>4, <1>5, <1>7, <1>8, <1>9 DEF LastingRoles, HoldsFamily

LEMMA RolesLastUntouched ==
    ASSUME NEW d, NEW e, SameRoles(d, e), SameRest(d, e), LastingRoles(d)
    PROVE  LastingRoles(e)
BY DEF LastingRoles, SameRoles, SameRest, Has, NoOldNames, HasSuperadmin, NoPlatformDefaults,
       HoldsFamily, Inherited, CustomRolesOf, DefaultRowsOf

LEMMA SchemaKeeps ==
    ASSUME NEW i, NEW d, NEW e, SchemaStep(i, d, e), NEW f \in Kept, f \in d.schema
    PROVE  \/ f \in e.schema
           \/ i = 39 /\ f = "org_vector_db.status_error"
           \/ i \in {42, 44} /\ f \in {"project", "project_data_source", "project name unique"}
           \/ i = 49 /\ f \in {"conversation.project_id", "conversation.project_id required"}
<1>1. f \in Kept \cap d.schema
  OBVIOUS
<1> QED
  BY <1>1 DEF SchemaStep

LEMMA SourcesTableStays ==
    ASSUME NEW i \in Nat, NEW d, NEW e, SchemaStep(i, d, e), "project_data_source" \in d.schema, i \notin {42, 44}
    PROVE  "project_data_source" \in e.schema
<1>1. "project_data_source" \in Kept
  BY DEF Kept
<1>2. i = 39 => "project_data_source" # "org_vector_db.status_error"
  OBVIOUS
<1>3. "project_data_source" \notin {"conversation.project_id", "conversation.project_id required"}
  OBVIOUS
<1>4. \/ "project_data_source" \in e.schema
      \/ i = 39 /\ "project_data_source" = "org_vector_db.status_error"
      \/ i \in {42, 44} /\ "project_data_source" \in {"project", "project_data_source", "project name unique"}
      \/ i = 49 /\ "project_data_source" \in {"conversation.project_id", "conversation.project_id required"}
  BY <1>1, SchemaKeeps
<1> QED
  BY <1>2, <1>3, <1>4

LEMMA StatusErrorStays ==
    ASSUME NEW i \in Nat, NEW d, NEW e, SchemaStep(i, d, e), "org_vector_db.status_error" \in d.schema, i # 39
    PROVE  "org_vector_db.status_error" \in e.schema
<1>1. "org_vector_db.status_error" \in Kept
  BY DEF Kept
<1>2. "org_vector_db.status_error" \notin {"project", "project_data_source", "project name unique"}
  OBVIOUS
<1>3. "org_vector_db.status_error" \notin {"conversation.project_id", "conversation.project_id required"}
  OBVIOUS
<1>4. \/ "org_vector_db.status_error" \in e.schema
      \/ i = 39 /\ "org_vector_db.status_error" = "org_vector_db.status_error"
      \/ i \in {42, 44} /\ "org_vector_db.status_error" \in {"project", "project_data_source", "project name unique"}
      \/ i = 49 /\ "org_vector_db.status_error" \in {"conversation.project_id", "conversation.project_id required"}
  BY <1>1, SchemaKeeps
<1> QED
  BY <1>2, <1>3, <1>4

LEMMA ProjectsLast ==
    ASSUME NEW i \in Nat, NEW s, NEW d, NEW e, Lasting(d, i), LastingProjects(d),
           ProjectsStep(i, s, d, e), AllowsOwn(s, d)
    PROVE  LastingProjects(e)
<1>0. /\ e.recorded = d.recorded /\ e.legacy = d.legacy /\ e.orgs = d.orgs /\ (\A name : Has(e, name) <=> Has(d, name))
      /\ SchemaStep(i, d, e) /\ RowsStep(i, s, d, e) /\ After(d, i)
      /\ d.orgs \subseteq Organizations /\ d.legacy \subseteq Organizations
  BY DatabaseParts DEF ProjectsStep, SameRest, SameRoles, Has, Lasting, RolesTyped, ProjectsTyped
<1>m. \A o : HasMembers(e, o) <=> HasMembers(d, o)
  BY DEF ProjectsStep, SameUsers, HasMembers
<1>k. /\ "project" \in Kept /\ "project_data_source" \in Kept /\ "conversation.project_id" \in Kept
      /\ "conversation.project_id required" \in Kept /\ "org_vector_db.status_error" \in Kept
  BY DEF Kept
<1>1. Has(e, "vector_db_002") => "org_vector_db.status_error" \in e.schema
  <2>1. "org_vector_db.status_error" \in d.schema /\ i # 39 => "org_vector_db.status_error" \in e.schema
    BY <1>0, StatusErrorStays
  <2> QED
    BY <1>0, <2>1 DEF LastingProjects, After
<1>2. Has(e, "projects_001b") => ("project" \in e.schema => "project name unique" \in e.schema)
  BY <1>0 DEF LastingProjects, SchemaStep, NamesUnique
<1>3. Has(e, "projects_002") => \A o \in e.orgs : HasGeneral(e, o)
  BY <1>0, <1>m DEF LastingProjects, RowsStep, HasGeneral, After
<1>4. \A o \in e.legacy : e.allowed[o] # "empty"
  BY <1>0 DEF LastingProjects, RowsStep, AllowsOwn
<1>5. Has(e, "projects_003") => \A o \in e.orgs : HasAllowlist(e, o)
  BY <1>0, <1>m DEF LastingProjects, RowsStep, AllowsOwn, HasAllowlist
<1>6. Has(e, "projects_004") => "project_data_source" \in e.schema
  <2>1. "project_data_source" \in d.schema /\ i \notin {42, 44} => "project_data_source" \in e.schema
    BY <1>0, SourcesTableStays
  <2> QED
    BY <1>0, <2>1 DEF LastingProjects, After
<1>7. Has(e, "chat_003") => {"project", "conversation.project_id"} \subseteq e.schema
  BY <1>0, <1>k DEF LastingProjects, SchemaStep, After
<1>8. Has(e, "chat_004") => \A o \in e.orgs : InGeneral(e, o)
  BY <1>0, <1>m DEF LastingProjects, RowsStep, InGeneral, After
<1>9. Has(e, "chat_005") => Required(e)
  BY <1>0, <1>k DEF LastingProjects, SchemaStep, RowsStep, Required, After
<1> QED
  BY <1>1, <1>2, <1>3, <1>4, <1>5, <1>6, <1>7, <1>8, <1>9 DEF LastingProjects

\* A step that leaves the projects alone, whether it adds Default or takes members out.
LEMMA ProjectsLastUntouched ==
    ASSUME NEW d, NEW e, SameProjects(d, e), SameRest(d, e), MembersStep(d, e),
           e.orgs \subseteq d.orgs \cup {Default}, LastingProjects(d)
    PROVE  LastingProjects(e)
<1>0. /\ (\A name : Has(e, name) <=> Has(d, name))
      /\ e.legacy = d.legacy /\ e.schema = d.schema /\ e.allowed = d.allowed /\ e.general = d.general
      /\ e.sources = d.sources /\ e.inProject = d.inProject
  BY DEF SameProjects, SameRest, Has
<1>1. \A o \in e.orgs : HasMembers(e, o) => HasMembers(d, o) /\ o \in d.orgs
  BY DEF MembersStep, HasMembers
<1>2. Has(e, "projects_002") => \A o \in e.orgs : HasGeneral(e, o)
  BY <1>0, <1>1 DEF LastingProjects, HasGeneral
<1>3. Has(e, "projects_003") => \A o \in e.orgs : HasAllowlist(e, o)
  BY <1>0, <1>1 DEF LastingProjects, HasAllowlist
<1>4. Has(e, "chat_004") => \A o \in e.orgs : InGeneral(e, o)
  BY <1>0, <1>1 DEF LastingProjects, InGeneral
<1>5. Has(e, "chat_005") => Required(e)
  BY <1>0 DEF LastingProjects, Required
<1> QED
  BY <1>0, <1>2, <1>3, <1>4, <1>5 DEF LastingProjects

LEMMA SoundStays ==
    ASSUME NEW i \in Nat, NEW s, NEW d, NEW e, Sound(d), After(d, i), StatementStep(i, s, d, e),
           Fits(s, i, d.orgs), AllowsOwn(s, d)
    PROVE  Sound(e)
<1>1. /\ IsDatabase(e) /\ e.recorded = d.recorded /\ MembersStep(d, e) /\ e.orgs \subseteq d.orgs \cup {Default}
  BY DatabaseStays DEF Sound
<1>2. RecordedInOrder(e) /\ Lasting(d, i)
  BY <1>1 DEF RecordedInOrder, Has, Sound, Lasting
<1>3. LastingRoles(d) /\ LastingProjects(d)
  BY DEF Sound
<1>4. CASE s \in RoleStatements /\ RolesStep(i, s, d, e)
  <2>1. SentBy(s, i, d.orgs)
    <3>1. s.do \notin {"unless", "if one of"}
      BY <1>4 DEF RoleStatements
    <3> QED
      BY <3>1 DEF Fits
  <2>2. LastingRoles(e)
    BY <1>2, <1>3, <1>4, <2>1, RolesLast
  <2>3. LastingProjects(e)
    BY <1>1, <1>3, <1>4, ProjectsLastUntouched DEF RolesStep
  <2> QED
    BY <1>1, <1>2, <2>2, <2>3 DEF Sound
<1>5. CASE SameRest(d, e) /\ SameRoles(d, e) /\ SameProjects(d, e)
  BY <1>1, <1>2, <1>3, <1>5, RolesLastUntouched, ProjectsLastUntouched DEF Sound
<1>6. CASE ProjectsStep(i, s, d, e)
  <2>1. LastingRoles(e)
    BY <1>3, <1>6, RolesLastUntouched DEF ProjectsStep
  <2>2. LastingProjects(e)
    BY <1>2, <1>3, <1>6, ProjectsLast
  <2> QED
    BY <1>1, <1>2, <2>1, <2>2 DEF Sound
<1> QED
  BY <1>4, <1>5, <1>6 DEF StatementStep

-----------------------------------------------------------------------------
(* What is still to be sent, after the first statement has been.           *)

Carries(t, u) ==
    /\ \A x : Pending(t, x) => x = Head(t) \/ Pending(u, x)
    /\ \A r, x : PendingPair(t, r, x) => (r = Head(t) /\ Pending(u, x)) \/ PendingPair(u, r, x)
Contains(u, f) ==
    /\ \A x : Pending(f, x) => Pending(u, x)
    /\ \A r, x : PendingPair(f, r, x) => PendingPair(u, r, x)

LEMMA PairIsPending ==
    ASSUME NEW S, NEW t \in Seq(S), NEW r, NEW x, PendingPair(t, r, x)
    PROVE  Pending(t, r) /\ Pending(t, x)
BY DEF Pending, PendingPair

LEMMA TailKeeps ==
    ASSUME NEW S, NEW t \in Seq(S), t # <<>>
    PROVE  Carries(t, Tail(t))
<1>1. /\ Tail(t) \in Seq(S) /\ Len(t) \in Nat /\ Len(t) > 0 /\ Len(Tail(t)) = Len(t) - 1
      /\ \A k \in 1 .. Len(t) - 1 : Tail(t)[k] = t[k + 1]
  OBVIOUS
<1>2. ASSUME NEW x, Pending(t, x)
      PROVE  x = Head(t) \/ Pending(Tail(t), x)
  <2>1. PICK k \in 1 .. Len(t) : t[k] = x
    BY <1>2 DEF Pending
  <2>2. CASE k = 1
    BY <2>1, <2>2
  <2>3. CASE k # 1
    <3>1. k - 1 \in 1 .. Len(t) - 1 /\ Tail(t)[k - 1] = t[(k - 1) + 1]
      BY <1>1, <2>3
    <3>2. Tail(t)[k - 1] = x /\ k - 1 \in DOMAIN Tail(t)
      BY <1>1, <2>1, <3>1
    <3> QED
      BY <3>2 DEF Pending
  <2> QED
    BY <2>2, <2>3
<1>3. ASSUME NEW r, NEW x, PendingPair(t, r, x)
      PROVE  (r = Head(t) /\ Pending(Tail(t), x)) \/ PendingPair(Tail(t), r, x)
  <2>1. PICK k \in 1 .. Len(t) - 1 : t[k] = r /\ t[k + 1] = x
    BY <1>3 DEF PendingPair
  <2>2. CASE k = 1
    <3>1. Tail(t)[1] = x /\ 1 \in DOMAIN Tail(t) /\ r = Head(t)
      BY <1>1, <2>1, <2>2
    <3> QED
      BY <3>1 DEF Pending
  <2>3. CASE k # 1
    <3>1. k - 1 \in 1 .. Len(Tail(t)) - 1 /\ Tail(t)[k - 1] = t[(k - 1) + 1] /\ Tail(t)[k] = t[k + 1]
      BY <1>1, <2>3
    <3>2. Tail(t)[k - 1] = r /\ Tail(t)[(k - 1) + 1] = x
      BY <2>1, <3>1
    <3> QED
      BY <3>1, <3>2 DEF PendingPair
  <2> QED
    BY <2>2, <2>3
<1> QED
  BY <1>2, <1>3 DEF Carries

LEMMA JoinContains ==
    ASSUME NEW S, NEW f \in Seq(S), NEW g \in Seq(S)
    PROVE  Contains(f \o g, f) /\ Contains(f \o g, g)
<1> DEFINE u == f \o g
<1>1. /\ u \in Seq(S) /\ Len(u) = Len(f) + Len(g) /\ Len(f) \in Nat /\ Len(g) \in Nat
      /\ \A k \in 1 .. Len(f) : u[k] = f[k]
      /\ \A k \in 1 .. Len(g) : u[Len(f) + k] = g[k]
  OBVIOUS
<1> HIDE DEF u
<1>2. ASSUME NEW x, Pending(f, x)
      PROVE  Pending(u, x)
  <2>1. PICK k \in 1 .. Len(f) : f[k] = x
    BY <1>2 DEF Pending
  <2>2. k \in DOMAIN u /\ u[k] = x
    BY <1>1, <2>1
  <2> QED
    BY <2>2 DEF Pending
<1>3. ASSUME NEW x, Pending(g, x)
      PROVE  Pending(u, x)
  <2>1. PICK k \in 1 .. Len(g) : g[k] = x
    BY <1>3 DEF Pending
  <2>2. Len(f) + k \in DOMAIN u /\ u[Len(f) + k] = x
    BY <1>1, <2>1
  <2> QED
    BY <2>2 DEF Pending
<1>4. ASSUME NEW r, NEW x, PendingPair(f, r, x)
      PROVE  PendingPair(u, r, x)
  <2>1. PICK k \in 1 .. Len(f) - 1 : f[k] = r /\ f[k + 1] = x
    BY <1>4 DEF PendingPair
  <2>2. k \in 1 .. Len(f) /\ k + 1 \in 1 .. Len(f) /\ k \in 1 .. Len(u) - 1
    BY <1>1
  <2>3. u[k] = r /\ u[k + 1] = x
    BY <1>1, <2>1, <2>2
  <2> QED
    BY <2>2, <2>3 DEF PendingPair
<1>5. ASSUME NEW r, NEW x, PendingPair(g, r, x)
      PROVE  PendingPair(u, r, x)
  <2>1. PICK k \in 1 .. Len(g) - 1 : g[k] = r /\ g[k + 1] = x
    BY <1>5 DEF PendingPair
  <2>2. k \in 1 .. Len(g) /\ k + 1 \in 1 .. Len(g) /\ Len(f) + k \in 1 .. Len(u) - 1
        /\ Len(f) + (k + 1) = (Len(f) + k) + 1
    BY <1>1
  <2>3. u[Len(f) + k] = r /\ u[(Len(f) + k) + 1] = x
    BY <1>1, <2>1, <2>2
  <2> QED
    BY <2>2, <2>3 DEF PendingPair
<1> QED
  BY <1>2, <1>3, <1>4, <1>5 DEF Contains, u

LEMMA Carried ==
    ASSUME NEW S, NEW t \in Seq(S), t # <<>>, NEW f \in Seq(S), NEW u, u = f \o Tail(t)
    PROVE  Carries(t, u) /\ Contains(u, f)
<1>1. Tail(t) \in Seq(S)
  OBVIOUS
<1>2. Carries(t, Tail(t))
  BY TailKeeps
<1>3. Contains(u, f) /\ Contains(u, Tail(t))
  BY <1>1, JoinContains
<1> QED
  BY <1>2, <1>3 DEF Carries, Contains

LEMMA PendingInOne ==
    ASSUME NEW x
    PROVE  Pending(<<x>>, x)
<1>1. 1 \in DOMAIN <<x>> /\ <<x>>[1] = x
  OBVIOUS
<1> QED
  BY <1>1 DEF Pending

LEMMA NothingPending == \A x, r : ~Pending(<<>>, x) /\ ~PendingPair(<<>>, r, x)
<1>1. DOMAIN <<>> = {} /\ 1 .. Len(<<>>) - 1 = {}
  OBVIOUS
<1> QED
  BY <1>1 DEF Pending, PendingPair

LEMMA WillBySet ==
    ASSUME NEW t
    PROVE  /\ \A r, how : WillSync(t, r, how) <=> \E x : Pending(t, x) /\ Syncs(x, r, how)
           /\ \A o, what : WillVisit(t, o, what) <=>
                 \E x : Pending(t, x) /\ (x.do = what \/ (x.do = "for each" /\ o \in x.orgs))
BY DEF WillSync, WillVisit, Pending

-----------------------------------------------------------------------------
(* What a statement brings about.                                          *)

RoleProgress(s, d, e) ==
    /\ s.do = "register" => s.perms \subseteq e.catalog
    /\ s.do = "unregister" => \A p \in s.perms : p \notin e.catalog
    /\ s.do = "drop platform roles" => NoPlatformDefaults(e)
    /\ s.do = "role" => s.role \in DOMAIN e.grants
    /\ s.do = "grant" /\ s.role \in DOMAIN d.grants => Present(d, s.perms) \subseteq e.grants[s.role]
    /\ s.do = "inherit" => \A r \in DOMAIN d.grants :
          s.holding \in d.grants[r] => s.perms \cap d.catalog \subseteq e.grants[r]
ProjectProgress(s, d, e) ==
    /\ s.do = "alter" => e.schema = (d.schema \ s.drops) \cup s.adds
    /\ s.do = "general" /\ HasMembers(d, s.org) => s.org \in e.general
    /\ s.do = "attach legacy" /\ s.org \in d.general => s.org \in e.sources
    /\ s.do = "backfill conversations" => Backfilled(d, e)
    /\ s.do = "require conversation.project_id" => Required(e)

\* A statement of a kind is one of the set that describes the kind.
LEMMA StatementOfKind ==
    ASSUME NEW s \in Statements
    PROVE  /\ s.do = "register" => s \in [do : {"register"}, perms : SUBSET Catalogue]
           /\ s.do \in {"unassign", "unregister"} =>
                 s \in [do : {"unassign", "unregister"}, perms : SUBSET Phantoms]
           /\ s.do = "role" => s \in [do : {"role"}, role : DefaultRows \cup {Superadmin}]
           /\ s.do = "grant" => s \in [do : {"grant"}, role : DefaultRows \cup {Superadmin},
                                       perms : SUBSET (Catalogue \cup Every)]
           /\ s.do = "inherit" =>
                 s \in [do : {"inherit"}, holding : {CanUpdate, CanRead}, perms : SUBSET AdminDefaults]
           /\ s.do = "alter" => s \in Ddl
           /\ s.do \in {"general", "attach legacy"} => s.org \in Organizations
BY DEF Statements, Simple, Ddl, UserStatements, RoleStatements, ProjectStatements, TableDrops, Loops, Conditional

LEMMA KindOfRoles ==
    ASSUME NEW s \in Statements,
           s.do \in {"register", "unassign", "unregister", "role", "grant", "inherit", "drop platform roles"}
    PROVE  s \in RoleStatements
BY DEF Statements, Simple, Ddl, UserStatements, RoleStatements, ProjectStatements, TableDrops, Loops, Conditional

LEMMA StatementProgress ==
    ASSUME NEW i \in Nat, NEW s, NEW d, IsDatabase(d), Fits(s, i, d.orgs), NEW e, e = Effect(s, d)
    PROVE  RoleProgress(s, d, e) /\ ProjectProgress(s, d, e)
<1>1. Shape(d) /\ RolesTyped(d) /\ ProjectsTyped(d) /\ s \in Statements
  BY DatabaseParts DEF Fits
<1>2. s.do \notin {"unless", "if one of"} => SentBy(s, i, d.orgs)
  BY DEF Fits
<1>3. s \in RoleStatements => e = RbacEffect(s, d)
  BY RoleStatementsAct
<1>4. s.do = "register" => s.perms \subseteq e.catalog
  BY <1>1, <1>2, <1>3, KindOfRoles, StatementOfKind, RegisterStep
<1>5. s.do = "unregister" => \A p \in s.perms : p \notin e.catalog
  BY <1>1, <1>2, <1>3, KindOfRoles, StatementOfKind, UnregisterStep
<1>6. s.do = "drop platform roles" => NoPlatformDefaults(e)
  BY <1>1, <1>2, <1>3, KindOfRoles, DropStep
<1>7. s.do = "role" => s.role \in DOMAIN e.grants
  <2> SUFFICES ASSUME s.do = "role" PROVE s.role \in DOMAIN e.grants
    OBVIOUS
  <2>1. s \in [do : {"role"}, role : DefaultRows \cup {Superadmin}] /\ e = RbacEffect(s, d) /\ SentBy(s, i, d.orgs)
    BY <1>1, <1>2, <1>3, KindOfRoles, StatementOfKind
  <2>2. DOMAIN e.grants = DOMAIN d.grants \cup {s.role}
    BY <1>1, <2>1, RoleStep
  <2> QED
    BY <2>2
<1>8. s.do = "grant" /\ s.role \in DOMAIN d.grants => Present(d, s.perms) \subseteq e.grants[s.role]
  <2> SUFFICES ASSUME s.do = "grant", s.role \in DOMAIN d.grants
               PROVE  Present(d, s.perms) \subseteq e.grants[s.role]
    OBVIOUS
  <2>1. /\ s \in [do : {"grant"}, role : DefaultRows \cup {Superadmin}, perms : SUBSET (Catalogue \cup Every)]
        /\ e = RbacEffect(s, d) /\ SentBy(s, i, d.orgs)
    BY <1>1, <1>2, <1>3, KindOfRoles, StatementOfKind
  <2> QED
    BY <1>1, <2>1, GrantStep
<1>9. s.do = "inherit" => \A r \in DOMAIN d.grants :
          s.holding \in d.grants[r] => s.perms \cap d.catalog \subseteq e.grants[r]
  <2> SUFFICES ASSUME s.do = "inherit"
               PROVE  \A r \in DOMAIN d.grants :
                          s.holding \in d.grants[r] => s.perms \cap d.catalog \subseteq e.grants[r]
    OBVIOUS
  <2>1. /\ s \in [do : {"inherit"}, holding : {CanUpdate, CanRead}, perms : SUBSET AdminDefaults]
        /\ e = RbacEffect(s, d) /\ SentBy(s, i, d.orgs)
    BY <1>1, <1>2, <1>3, KindOfRoles, StatementOfKind
  <2> QED
    BY <1>1, <2>1, InheritStep
<1>10. s.do = "alter" => e.schema = (d.schema \ s.drops) \cup s.adds
  <2> SUFFICES ASSUME s.do = "alter" PROVE e.schema = (d.schema \ s.drops) \cup s.adds
    OBVIOUS
  <2>1. s \in Ddl /\ SentBy(s, i, d.orgs)
    BY <1>1, <1>2, StatementOfKind
  <2> QED
    BY <1>1, <2>1, DdlStep
<1>11. s.do = "general" /\ HasMembers(d, s.org) => s.org \in e.general
  BY <1>1, StatementOfKind, GeneralStep
<1>12. s.do = "attach legacy" /\ s.org \in d.general => s.org \in e.sources
  BY <1>1, StatementOfKind, AttachStep
<1>13. s.do = "backfill conversations" => Backfilled(d, e)
  <2> SUFFICES ASSUME s.do = "backfill conversations" PROVE Backfilled(d, e)
    OBVIOUS
  <2>1. TouchesConversations(s) /\ SentBy(s, i, d.orgs)
    BY <1>2 DEF TouchesConversations
  <2> QED
    BY <1>1, <2>1, ConversationsStep
<1>14. s.do = "require conversation.project_id" => Required(e)
  BY <1>1, RequireStep
<1> QED
  BY <1>4, <1>5, <1>6, <1>7, <1>8, <1>9, <1>10, <1>11, <1>12, <1>13, <1>14 DEF RoleProgress, ProjectProgress

-----------------------------------------------------------------------------
(* What a migration has to send in the beginning.                          *)

Starts(u, x) == u \in Seq(Statements) /\ u # <<>> /\ Head(u) = x

LEMMA StartsJoined ==
    ASSUME NEW x, NEW a, Starts(a, x), NEW b \in Seq(Statements)
    PROVE  Starts(a \o b, x) /\ Contains(a \o b, a) /\ Contains(a \o b, b)
<1>1. a \in Seq(Statements) /\ a # <<>> /\ Head(a) = x
  BY DEF Starts
<1>2. a \o b \in Seq(Statements) /\ a \o b # <<>> /\ Head(a \o b) = Head(a)
  <2>1. Len(a) \in Nat /\ Len(a) > 0 /\ Len(a \o b) = Len(a) + Len(b) /\ Len(b) \in Nat /\ (a \o b)[1] = a[1]
        /\ a \o b \in Seq(Statements)
    BY <1>1
  <2>2. a \o b # <<>>
    BY <2>1
  <2> QED
    BY <1>1, <2>1, <2>2
<1> QED
  BY <1>1, <1>2, JoinContains DEF Starts

LEMMA StartsAlone ==
    ASSUME NEW x \in Statements
    PROVE  Starts(<<x>>, x)
BY DEF Starts

Begun(u, perms) ==
    /\ Starts(u, Register(perms)[1])
    /\ Pending(u, GrantSuperadmin(perms)[1])

LEMMA BegunJoined ==
    ASSUME NEW u, NEW perms, Begun(u, perms), NEW b \in Seq(Statements)
    PROVE  Begun(u \o b, perms) /\ Contains(u \o b, u) /\ Contains(u \o b, b)
BY StartsJoined DEF Begun, Contains

LEMMA RegisterAndGrant ==
    ASSUME NEW perms \in SUBSET AdminDefaults
    PROVE  Begun(Register(perms) \o GrantSuperadmin(perms), perms)
<1> DEFINE r == [do |-> "register", perms |-> perms]
           g == [do |-> "grant", role |-> Superadmin, perms |-> perms]
<1>1. 25 \in RbacPlan
  BY DEF RbacPlan
<1>2. Register(perms) \in Seq(Statements) /\ GrantSuperadmin(perms) \in Seq(Statements)
  BY <1>1, AddFamilySendable DEF Sendable
<1>3. Register(perms) = <<r>> /\ GrantSuperadmin(perms) = <<g>>
  BY DEF Register, GrantSuperadmin, Grant
<1>4. r \in Statements /\ Register(perms)[1] = r /\ GrantSuperadmin(perms)[1] = g
  BY <1>2, <1>3
<1> HIDE DEF r, g
<1>5. Starts(<<r>>, r)
  BY <1>4, StartsAlone
<1>6. Starts(<<r>> \o <<g>>, r) /\ Contains(<<r>> \o <<g>>, <<g>>)
  BY <1>2, <1>3, <1>5, StartsJoined
<1>7. Pending(<<r>> \o <<g>>, g)
  BY <1>6, PendingInOne DEF Contains
<1> QED
  BY <1>3, <1>4, <1>6, <1>7 DEF Begun

LEMMA SyncsAreLists ==
    /\ SyncGlobalRoles \in Seq(Statements)
    /\ \A names \in SUBSET DefaultNames : SyncOrganizations(names) \in Seq(Statements)
<1>1. 25 \in RbacPlan /\ Platform \in Scopes
  BY DEF RbacPlan, Scopes
<1>2. SyncGlobalRoles \in Seq(Statements)
  BY <1>1, SyncSendable DEF SyncGlobalRoles, Sendable
<1>3. ASSUME NEW names \in SUBSET DefaultNames
      PROVE  SyncOrganizations(names) \in Seq(Statements)
  <2>1. \A O : Sendable(SyncOrganizations(names), 25, O)
    BY <1>1, SyncOrganizationsSendable
  <2> QED
    BY <2>1 DEF Sendable
<1> QED
  BY <1>2, <1>3

LEMMA FamilyBegun ==
    ASSUME NEW perms \in SUBSET AdminDefaults
    PROVE  Begun(AddFamily(perms), perms) /\ Contains(AddFamily(perms), SyncOrganizations(DefaultNames))
<1>1. SyncGlobalRoles \in Seq(Statements) /\ SyncOrganizations(DefaultNames) \in Seq(Statements)
  BY SyncsAreLists
<1>2. Begun(Register(perms) \o GrantSuperadmin(perms), perms)
  BY RegisterAndGrant
<1>3. Begun((Register(perms) \o GrantSuperadmin(perms)) \o SyncGlobalRoles, perms)
  BY <1>1, <1>2, BegunJoined
<1> QED
  BY <1>1, <1>3, BegunJoined DEF AddFamily

FamilyBegins(i, name) ==
    /\ Begun(BootPlan[i].up, Family(name))
    /\ \A holding \in {CanUpdate, CanRead} :
          Heirs(name, holding) = {} \/ Pending(BootPlan[i].up, Inherit(holding, Heirs(name, holding))[1])

LEMMA InheritedLast ==
    ASSUME NEW u, NEW perms, Begun(u, perms), NEW holding \in {CanUpdate, CanRead},
           NEW heirs \in SUBSET AdminDefaults
    PROVE  /\ Begun(u \o Inherit(holding, heirs), perms)
           /\ Pending(u \o Inherit(holding, heirs), Inherit(holding, heirs)[1])
           /\ \A x : Pending(u, x) => Pending(u \o Inherit(holding, heirs), x)
<1> DEFINE s == [do |-> "inherit", holding |-> holding, perms |-> heirs]
<1>1. s \in Statements
  BY DEF Statements, Simple, RoleStatements
<1>2. Inherit(holding, heirs) = <<s>> /\ Inherit(holding, heirs)[1] = s
  BY DEF Inherit
<1> HIDE DEF s
<1>3. <<s>> \in Seq(Statements) /\ Pending(<<s>>, s)
  BY <1>1, PendingInOne
<1>4. Begun(u \o <<s>>, perms) /\ Contains(u \o <<s>>, u) /\ Contains(u \o <<s>>, <<s>>)
  BY <1>3, BegunJoined
<1> QED
  BY <1>2, <1>3, <1>4 DEF Contains

LEMMA HeirsOf ==
    /\ \A name, holding : Heirs(name, holding) \in SUBSET AdminDefaults
    /\ \A name, holding : Heirs(name, holding) \subseteq Family(name)
    /\ \A name : Family(name) \in SUBSET AdminDefaults
<1>1. \A name : Family(name) \in SUBSET AdminDefaults
  BY DEF Family, AdminDefaults, On, Crud
<1>2. ASSUME NEW name, NEW holding
      PROVE  Heirs(name, holding) \subseteq Family(name)
  <2>1. CASE name = "rbac_021"
    BY <2>1 DEF Heirs, Family, On, Crud
  <2>2. CASE name = "rbac_022"
    BY <2>2 DEF Heirs, Family, On, Crud
  <2>3. CASE name = "rbac_024"
    BY <2>3 DEF Heirs, Family, On, Crud
  <2>4. CASE name = "rbac_025"
    BY <2>4 DEF Heirs, Family, On, Crud
  <2>5. CASE name \notin {"rbac_021", "rbac_022", "rbac_024", "rbac_025"}
    BY <2>5 DEF Heirs
  <2> QED
    BY <2>1, <2>2, <2>3, <2>4, <2>5
<1> QED
  BY <1>1, <1>2

-----------------------------------------------------------------------------
(* What each family of permissions sends first.                            *)

\* No two migrations have the same name.
LEMMA NamesDiffer ==
    \A i, j \in DOMAIN BootPlan : BootPlan[i].name = BootPlan[j].name => i = j
BY Plan

LEMMA FamiliesBegin ==
    \A i \in DOMAIN BootPlan :
        Family(BootPlan[i].name) # {} => FamilyBegins(i, BootPlan[i].name)
<1>0. /\ DefaultNames \in SUBSET DefaultNames /\ {"admin"} \in SUBSET DefaultNames
      /\ {"admin", "manager"} \in SUBSET DefaultNames
      /\ CanUpdate \in {CanUpdate, CanRead} /\ CanRead \in {CanUpdate, CanRead}
  BY DEF DefaultNames
<1>d. CanUpdate # CanRead
  BY DEF CanUpdate, CanRead
<1>1. FamilyBegins(25, "rbac_015")
  <2> DEFINE perms == On("chat", {"read", "create", "stream", "delete"})
  <2>1. Family("rbac_015") = perms /\ perms \in SUBSET AdminDefaults
    BY HeirsOf DEF Family
  <2>2. AddChatPermissions = (Register(perms) \o GrantSuperadmin(perms)) \o SyncOrganizations(DefaultNames)
    BY DEF AddChatPermissions
  <2> HIDE DEF perms
  <2>3. Begun(AddChatPermissions, perms)
    BY <1>0, <2>1, <2>2, RegisterAndGrant, SyncsAreLists, BegunJoined
  <2>4. \A holding : Heirs("rbac_015", holding) = {}
    BY DEF Heirs
  <2> QED
    BY <2>1, <2>3, <2>4, Plan DEF FamilyBegins
<1>2. FamilyBegins(26, "rbac_016")
  <2> DEFINE perms == On("user", {"approve"})
  <2>1. Family("rbac_016") = perms /\ perms \in SUBSET AdminDefaults
    BY HeirsOf DEF Family
  <2>2. AddUserApprovePermission = (Register(perms) \o GrantSuperadmin(perms)) \o SyncOrganizations({"admin"})
    BY DEF AddUserApprovePermission
  <2> HIDE DEF perms
  <2>3. Begun(AddUserApprovePermission, perms)
    BY <1>0, <2>1, <2>2, RegisterAndGrant, SyncsAreLists, BegunJoined
  <2>4. \A holding : Heirs("rbac_016", holding) = {}
    BY DEF Heirs
  <2> QED
    BY <2>1, <2>3, <2>4, Plan DEF FamilyBegins
<1>3. FamilyBegins(28, "rbac_018")
  <2> DEFINE perms == On("dashboard", {"view"})
  <2>1. Family("rbac_018") = perms /\ perms \in SUBSET AdminDefaults
    BY HeirsOf DEF Family
  <2>2. AddDashboardPermission = (Register(perms) \o GrantSuperadmin(perms)) \o SyncOrganizations({"admin", "manager"})
    BY DEF AddDashboardPermission
  <2> HIDE DEF perms
  <2>3. Begun(AddDashboardPermission, perms)
    BY <1>0, <2>1, <2>2, RegisterAndGrant, SyncsAreLists, BegunJoined
  <2>4. \A holding : Heirs("rbac_018", holding) = {}
    BY DEF Heirs
  <2> QED
    BY <2>1, <2>3, <2>4, Plan DEF FamilyBegins
<1>4. FamilyBegins(29, "rbac_019")
  <2> DEFINE perms == On("project", Crud \cup {"manage-sources"})
  <2>1. Family("rbac_019") = perms /\ perms \in SUBSET AdminDefaults
    BY HeirsOf DEF Family
  <2>2. RestoreProjectPermissions = AddFamily(perms)
    BY DEF RestoreProjectPermissions
  <2> HIDE DEF perms
  <2>3. Begun(RestoreProjectPermissions, perms)
    BY <2>1, <2>2, FamilyBegun
  <2>4. \A holding : Heirs("rbac_019", holding) = {}
    BY DEF Heirs
  <2> QED
    BY <2>1, <2>3, <2>4, Plan DEF FamilyBegins
<1>5. FamilyBegins(30, "rbac_020")
  <2> DEFINE perms == On("airweave", Crud \cup {"manage-sources"})
  <2>1. Family("rbac_020") = perms /\ perms \in SUBSET AdminDefaults
    BY HeirsOf DEF Family
  <2>2. AddAirweavePermissions = AddFamily(perms)
    BY DEF AddAirweavePermissions
  <2> HIDE DEF perms
  <2>3. Begun(AddAirweavePermissions, perms)
    BY <2>1, <2>2, FamilyBegun
  <2>4. \A holding : Heirs("rbac_020", holding) = {}
    BY DEF Heirs
  <2> QED
    BY <2>1, <2>3, <2>4, Plan DEF FamilyBegins
<1>6. FamilyBegins(31, "rbac_021")
  <2> DEFINE perms == On("sql-connection", Crud)
  <2>1. Family("rbac_021") = perms /\ perms \in SUBSET AdminDefaults
    BY HeirsOf DEF Family
  <2>2. AddSqlConnectionPermissions = (AddFamily(perms) \o Inherit(CanUpdate, Heirs("rbac_021", CanUpdate))) \o Inherit(CanRead, Heirs("rbac_021", CanRead))
    BY <1>d DEF AddSqlConnectionPermissions, Heirs
  <2> HIDE DEF perms
  <2>3. Begun(AddFamily(perms), perms)
    BY <2>1, FamilyBegun
  <2> DEFINE u == AddFamily(perms) \o Inherit(CanUpdate, Heirs("rbac_021", CanUpdate))
  <2>4. Begun(u, perms) /\ Pending(u, Inherit(CanUpdate, Heirs("rbac_021", CanUpdate))[1])
    BY <1>0, <2>3, HeirsOf, InheritedLast
  <2>5. AddSqlConnectionPermissions = u \o Inherit(CanRead, Heirs("rbac_021", CanRead))
    BY <2>2
  <2> HIDE DEF u
  <2>6. /\ Begun(AddSqlConnectionPermissions, perms) /\ Pending(AddSqlConnectionPermissions, Inherit(CanRead, Heirs("rbac_021", CanRead))[1])
        /\ Pending(AddSqlConnectionPermissions, Inherit(CanUpdate, Heirs("rbac_021", CanUpdate))[1])
    BY <1>0, <2>4, <2>5, HeirsOf, InheritedLast
  <2> QED
    BY <2>1, <2>6, Plan DEF FamilyBegins
<1>7. FamilyBegins(32, "rbac_022")
  <2> DEFINE perms == On("vector-db", Crud)
  <2>1. Family("rbac_022") = perms /\ perms \in SUBSET AdminDefaults
    BY HeirsOf DEF Family
  <2>2. AddVectorDbPermissions = (AddFamily(perms) \o Inherit(CanUpdate, Heirs("rbac_022", CanUpdate))) \o Inherit(CanRead, Heirs("rbac_022", CanRead))
    BY <1>d DEF AddVectorDbPermissions, Heirs
  <2> HIDE DEF perms
  <2>3. Begun(AddFamily(perms), perms)
    BY <2>1, FamilyBegun
  <2> DEFINE u == AddFamily(perms) \o Inherit(CanUpdate, Heirs("rbac_022", CanUpdate))
  <2>4. Begun(u, perms) /\ Pending(u, Inherit(CanUpdate, Heirs("rbac_022", CanUpdate))[1])
    BY <1>0, <2>3, HeirsOf, InheritedLast
  <2>5. AddVectorDbPermissions = u \o Inherit(CanRead, Heirs("rbac_022", CanRead))
    BY <2>2
  <2> HIDE DEF u
  <2>6. /\ Begun(AddVectorDbPermissions, perms) /\ Pending(AddVectorDbPermissions, Inherit(CanRead, Heirs("rbac_022", CanRead))[1])
        /\ Pending(AddVectorDbPermissions, Inherit(CanUpdate, Heirs("rbac_022", CanUpdate))[1])
    BY <1>0, <2>4, <2>5, HeirsOf, InheritedLast
  <2> QED
    BY <2>1, <2>6, Plan DEF FamilyBegins
<1>8. FamilyBegins(34, "rbac_024")
  <2> DEFINE perms == On("vector-db", {"upload"})
  <2>1. Family("rbac_024") = perms /\ perms \in SUBSET AdminDefaults
    BY HeirsOf DEF Family
  <2>2. AddVectorDbUploadPermission = AddFamily(perms) \o Inherit(CanUpdate, Heirs("rbac_024", CanUpdate))
    BY <1>d DEF AddVectorDbUploadPermission, Heirs
  <2> HIDE DEF perms
  <2>3. Begun(AddFamily(perms), perms)
    BY <2>1, FamilyBegun
  <2>4. Begun(AddVectorDbUploadPermission, perms) /\ Pending(AddVectorDbUploadPermission, Inherit(CanUpdate, Heirs("rbac_024", CanUpdate))[1])
    BY <1>0, <2>2, <2>3, HeirsOf, InheritedLast
  <2>5. Heirs("rbac_024", CanRead) = {}
    BY <1>d DEF Heirs
  <2> QED
    BY <2>1, <2>4, <2>5, Plan DEF FamilyBegins
<1>9. FamilyBegins(35, "rbac_025")
  <2> DEFINE perms == On("embed-site", Crud)
  <2>1. Family("rbac_025") = perms /\ perms \in SUBSET AdminDefaults
    BY HeirsOf DEF Family
  <2>2. AddEmbedSitePermissions = (AddFamily(perms) \o Inherit(CanUpdate, Heirs("rbac_025", CanUpdate))) \o Inherit(CanRead, Heirs("rbac_025", CanRead))
    BY <1>d DEF AddEmbedSitePermissions, Heirs
  <2> HIDE DEF perms
  <2>3. Begun(AddFamily(perms), perms)
    BY <2>1, FamilyBegun
  <2> DEFINE u == AddFamily(perms) \o Inherit(CanUpdate, Heirs("rbac_025", CanUpdate))
  <2>4. Begun(u, perms) /\ Pending(u, Inherit(CanUpdate, Heirs("rbac_025", CanUpdate))[1])
    BY <1>0, <2>3, HeirsOf, InheritedLast
  <2>5. AddEmbedSitePermissions = u \o Inherit(CanRead, Heirs("rbac_025", CanRead))
    BY <2>2
  <2> HIDE DEF u
  <2>6. /\ Begun(AddEmbedSitePermissions, perms) /\ Pending(AddEmbedSitePermissions, Inherit(CanRead, Heirs("rbac_025", CanRead))[1])
        /\ Pending(AddEmbedSitePermissions, Inherit(CanUpdate, Heirs("rbac_025", CanUpdate))[1])
    BY <1>0, <2>4, <2>5, HeirsOf, InheritedLast
  <2> QED
    BY <2>1, <2>6, Plan DEF FamilyBegins
<1>10. ASSUME NEW i \in DOMAIN BootPlan, Family(BootPlan[i].name) # {}
       PROVE  i \in {25, 26, 28, 29, 30, 31, 32, 34, 35}
  <2>1. \A name : Family(name) # {} =>
          name \in {"rbac_015", "rbac_016", "rbac_018", "rbac_019", "rbac_020", "rbac_021", "rbac_022",
                    "rbac_024", "rbac_025"}
    BY DEF Family
  <2>2. BootPlan[i].name \in {"rbac_015", "rbac_016", "rbac_018", "rbac_019", "rbac_020", "rbac_021",
                              "rbac_022", "rbac_024", "rbac_025"}
    BY <1>10, <2>1
  <2> QED
    BY <2>2, NamesOfPlan, NamesDiffer
<1>11. ASSUME NEW i \in DOMAIN BootPlan, Family(BootPlan[i].name) # {}
       PROVE  FamilyBegins(i, BootPlan[i].name)
  <2>1. i \in {25, 26, 28, 29, 30, 31, 32, 34, 35}
    BY <1>10, <1>11
  <2> QED
    BY <1>1, <1>2, <1>3, <1>4, <1>5, <1>6, <1>7, <1>8, <1>9, <2>1, NamesOfPlan
<1> QED
  BY <1>11

-----------------------------------------------------------------------------
(* What the other migrations send first.                                   *)

LEMMA BaseBegins ==
    /\ BootPlan[13].up # <<>> /\ Head(BootPlan[13].up).do = "register"
    /\ Base \subseteq Head(BootPlan[13].up).perms
<1> DEFINE perms == On("user", Crud \cup {"ban", "impersonate", "set-role", "set-password"})
                      \cup On("session", {"read", "revoke"})
                      \cup On("organization", Crud \cup {"invite"})
                      \cup On("project", Crud) \cup On("role", Crud \cup {"assign"})
           s == [do |-> "register", perms |-> perms]
           a == InsertRole(<<Platform, "admin">>)
           b == InsertRole(<<Platform, "manager">>)
           c == InsertRole(<<Platform, "member">>)
<1>1. BootPlan[13].up = (((Register(perms) \o a) \o b) \o c) \o OldGrants
  <2>1. BootPlan[13].up = SeedDefaultData
    BY Plan
  <2>2. SeedDefaultData = (((Register(perms) \o a) \o b) \o c) \o OldGrants
    BY DEF SeedDefaultData
  <2> QED
    BY <2>1, <2>2
<1>2. Base \subseteq perms /\ perms \in SUBSET Catalogue
  BY DEF Base, Catalogue, AdminDefaults, On, Crud
<1>3. Register(perms) = <<s>>
  BY DEF Register
<1>4. s \in Statements
  BY <1>2 DEF Statements, Simple, RoleStatements
<1>5. a \in Seq(Statements) /\ b \in Seq(Statements) /\ c \in Seq(Statements)
  <2>1. 13 \in RbacPlan /\ Platform \in Scopes
    BY DEF RbacPlan, Scopes
  <2>2. ASSUME NEW name \in DefaultNames
        PROVE  InsertRole(<<Platform, name>>) \in Seq(Statements)
    <3>1. <<Platform, name>> \in DefaultRows /\ <<Platform, name>>[1] \in {} \cup {Platform}
      BY <2>1 DEF DefaultRows
    <3>2. Sendable(InsertRole(<<Platform, name>>), 13, {})
      BY <2>1, <3>1, InsertRoleSendable
    <3> QED
      BY <3>2 DEF Sendable
  <2> QED
    BY <2>2 DEF DefaultNames
<1>6. OldGrants \in Seq(Statements)
  <2>1. Sendable(BackfillRolePermissions, 15, {})
    BY FirstRbacSendable
  <2> QED
    BY <2>1 DEF Sendable, BackfillRolePermissions
<1>7. s.do = "register" /\ s.perms = perms
  OBVIOUS
<1> HIDE DEF s, perms, a, b, c
<1>8. Starts(<<s>>, s)
  BY <1>4, StartsAlone
<1>9. Starts((<<s>> \o a) \o b, s)
  BY <1>5, <1>8, StartsJoined
<1>10. Starts((((<<s>> \o a) \o b) \o c) \o OldGrants, s)
  BY <1>5, <1>6, <1>9, StartsJoined
<1> QED
  BY <1>1, <1>2, <1>3, <1>7, <1>10 DEF Starts

LEMMA OneMore ==
    ASSUME NEW S, NEW f \in Seq(S), NEW x \in S
    PROVE  /\ f \o <<x>> \in Seq(S) /\ Len(f \o <<x>>) = Len(f) + 1
           /\ (f \o <<x>>)[Len(f) + 1] = x
           /\ \A k \in 1 .. Len(f) : (f \o <<x>>)[k] = f[k]
OBVIOUS

LEMMA PairAtEnd ==
    ASSUME NEW S, NEW f \in Seq(S), NEW r \in S, NEW x \in S
    PROVE  PendingPair((f \o <<r>>) \o <<x>>, r, x) /\ (f \o <<r>>) \o <<x>> \in Seq(S)
<1> DEFINE g == f \o <<r>>
           u == g \o <<x>>
           k == Len(f) + 1
<1>1. g \in Seq(S) /\ Len(g) = k /\ g[k] = r
  BY OneMore
<1> HIDE DEF g
<1>2. u \in Seq(S) /\ Len(u) = Len(g) + 1 /\ u[Len(g) + 1] = x /\ (\A l \in 1 .. Len(g) : u[l] = g[l])
  BY <1>1, OneMore
<1> HIDE DEF u
<1>3. k \in 1 .. Len(g) /\ k \in 1 .. Len(u) - 1 /\ Len(f) \in Nat
  BY <1>1, <1>2
<1>4. u[k] = r /\ u[k + 1] = x
  BY <1>1, <1>2, <1>3
<1> QED
  BY <1>2, <1>3, <1>4 DEF PendingPair, u, g

SuperadminBegins(u) ==
    /\ Pending(u, Sql("drop platform roles")[1])
    /\ PendingPair(u, InsertRole(Superadmin)[1], GrantSuperadmin(Every)[1])

LEMMA RedesignBegins == SuperadminBegins(BootPlan[18].up)
<1> DEFINE a == [do |-> "platform role", from |-> {"admin"}, to |-> "superadmin"]
           b == [do |-> "drop platform roles"]
           c == [do |-> "role", role |-> Superadmin]
           g == [do |-> "grant", role |-> Superadmin, perms |-> Every]
           h == [do |-> "redesign organizations"]
<1>1. BootPlan[18].up = (((<<a>> \o <<b>>) \o <<c>>) \o <<g>>) \o <<h>>
  <2>1. BootPlan[18].up = RedesignSuperadminAndOrganizationRoles
    BY Plan
  <2>2. PlatformRole({"admin"}, "superadmin") = <<a>> /\ Sql("drop platform roles") = <<b>>
        /\ InsertRole(Superadmin) = <<c>> /\ GrantSuperadmin(Every) = <<g>>
        /\ Sql("redesign organizations") = <<h>>
    BY DEF PlatformRole, Sql, InsertRole, GrantSuperadmin, Grant
  <2> HIDE DEF a, b, c, g, h
  <2> QED
    BY <2>1, <2>2 DEF RedesignSuperadminAndOrganizationRoles
<1>2. /\ Sql("drop platform roles")[1] = b /\ InsertRole(Superadmin)[1] = c
      /\ GrantSuperadmin(Every)[1] = g
  BY DEF Sql, InsertRole, GrantSuperadmin, Grant
<1> DEFINE S == {a, b, c, g, h}
           v == (<<a>> \o <<b>>) \o <<c>>
<1> HIDE DEF a, b, c, g, h
<1>3. a \in S /\ b \in S /\ c \in S /\ g \in S /\ h \in S
  OBVIOUS
<1> HIDE DEF S
<1>4. <<a>> \in Seq(S) /\ <<b>> \in Seq(S) /\ <<c>> \in Seq(S) /\ <<h>> \in Seq(S)
      /\ <<a>> \o <<b>> \in Seq(S)
  BY <1>3
<1>5. Pending(<<b>>, b)
  BY PendingInOne
<1>6. Pending(<<a>> \o <<b>>, b)
  BY <1>4, <1>5, JoinContains DEF Contains
<1>7. Pending(v, b) /\ v \in Seq(S)
  <2> DEFINE w == <<a>> \o <<b>>
  <2> HIDE DEF w
  <2>1. w \in Seq(S) /\ Pending(w, b)
    BY <1>4, <1>6 DEF w
  <2>2. w \o <<c>> \in Seq(S)
    BY <1>3, <2>1, OneMore
  <2>3. Contains(w \o <<c>>, w)
    BY <1>4, <2>1, JoinContains
  <2>4. Pending(w \o <<c>>, b)
    BY <2>1, <2>3 DEF Contains
  <2> QED
    BY <2>2, <2>4 DEF w
<1>8. PendingPair(v \o <<g>>, c, g) /\ v \o <<g>> \in Seq(S)
  BY <1>3, <1>4, PairAtEnd
<1> HIDE DEF v
<1>9. <<g>> \in Seq(S)
  BY <1>3
<1>10. Pending(v \o <<g>>, b)
  BY <1>7, <1>9, JoinContains DEF Contains
<1>11. Pending((v \o <<g>>) \o <<h>>, b) /\ PendingPair((v \o <<g>>) \o <<h>>, c, g)
  BY <1>4, <1>8, <1>10, JoinContains DEF Contains
<1> QED
  BY <1>1, <1>2, <1>11 DEF SuperadminBegins, v

LEMMA PhantomsBegin ==
    Pending(BootPlan[27].up, Unregister(On("organization", {"manage-members"}))[2])
<1> DEFINE a == [do |-> "unassign", perms |-> On("project", Crud \cup {"manage-sources"})]
           b == [do |-> "unregister", perms |-> On("project", Crud \cup {"manage-sources"})]
           c == [do |-> "unassign", perms |-> On("organization", {"manage-members"})]
           g == [do |-> "unregister", perms |-> On("organization", {"manage-members"})]
<1>1. BootPlan[27].up = <<a, b>> \o <<c, g>> /\ Unregister(On("organization", {"manage-members"}))[2] = g
  <2>1. BootPlan[27].up = RemovePhantomPermissions
    BY Plan
  <2>2. RemovePhantomPermissions = <<a, b>> \o <<c, g>>
        /\ Unregister(On("organization", {"manage-members"}))[2] = g
    BY DEF RemovePhantomPermissions, Unregister
  <2> QED
    BY <2>1, <2>2
<1> DEFINE S == {a, b, c, g}
<1> HIDE DEF a, b, c, g
<1>2. a \in S /\ b \in S /\ c \in S /\ g \in S
  OBVIOUS
<1> HIDE DEF S
<1>3. <<a, b>> \in Seq(S) /\ <<c, g>> \in Seq(S)
  BY <1>2
<1>4. 2 \in DOMAIN <<c, g>> /\ <<c, g>>[2] = g
  OBVIOUS
<1>5. Pending(<<c, g>>, g)
  BY <1>4 DEF Pending
<1>6. Pending(<<a, b>> \o <<c, g>>, g)
  BY <1>3, <1>5, JoinContains DEF Contains
<1> QED
  BY <1>1, <1>6

LEMMA SyncBegins == Pending(BootPlan[35].up, SyncOrganizations(DefaultNames)[1])
<1> DEFINE perms == On("embed-site", Crud)
           x == SyncOrganizations(DefaultNames)[1]
           u == AddFamily(perms) \o Inherit(CanUpdate, On("embed-site", {"create", "update"}))
           P == On("embed-site", {"create", "update"})
           Q == On("embed-site", {"read"})
<1>1. perms \in SUBSET AdminDefaults /\ P \in SUBSET AdminDefaults /\ Q \in SUBSET AdminDefaults
  BY DEF AdminDefaults, On, Crud
<1>2. SyncOrganizations(DefaultNames) = <<x>>
  BY DEF SyncOrganizations
<1>3. BootPlan[35].up = (AddFamily(perms) \o Inherit(CanUpdate, P)) \o Inherit(CanRead, Q)
  <2>1. BootPlan[35].up = AddEmbedSitePermissions
    BY Plan
  <2>2. AddEmbedSitePermissions = (AddFamily(perms) \o Inherit(CanUpdate, P)) \o Inherit(CanRead, Q)
    BY DEF AddEmbedSitePermissions
  <2> QED
    BY <2>1, <2>2
<1> HIDE DEF perms, x, P, Q
<1>4. Begun(AddFamily(perms), perms) /\ Pending(AddFamily(perms), x)
  BY <1>1, <1>2, FamilyBegun, PendingInOne DEF Contains
<1> DEFINE w == AddFamily(perms) \o Inherit(CanUpdate, P)
<1>5. Begun(w, perms) /\ Pending(w, x)
  BY <1>1, <1>4, InheritedLast
<1> HIDE DEF w
<1>6. Pending(w \o Inherit(CanRead, Q), x)
  BY <1>1, <1>5, InheritedLast
<1> QED
  BY <1>3, <1>6 DEF w, x

LEMMA ProjectsBegin ==
    /\ RestoresStatusError(BootPlan[39].up, db)
    /\ BootPlan[43].up = UnlessHas({"project name unique"}, Alter({"project"}, {"project name unique"}, {}))
    /\ BootPlan[45].up = <<[do |-> "backfill organizations"]>>
    /\ BootPlan[46].up = <<[do |-> "seed allowlists"]>>
    /\ BootPlan[51].up = <<[do |-> "backfill conversations"]>>
    /\ BootPlan[52].up = <<[do |-> "require conversation.project_id"]>>
<1>1. RestoresStatusError(BootPlan[39].up, db)
  <2> DEFINE u == AddSchemaImprovements
  <2>1. Len(u) = 8
    BY DEF AddSchemaImprovements, Alter
  <2> HIDE DEF u
  <2>2. Len(u) > 1 /\ u[Len(u)] = u[8] /\ u[Len(u) - 1] = u[7]
    BY <2>1
  <2> QED
    BY <2>2, Plan DEF RestoresStatusError, u
<1>2. /\ BootPlan[43].up = EnsureProjectConstraints /\ BootPlan[45].up = BackfillGeneralProjects
      /\ BootPlan[46].up = SeedAirweaveAllowlist /\ BootPlan[51].up = BackfillConversationProjectId
      /\ BootPlan[52].up = EnforceConversationProjectIdNotNull
  BY Plan
<1>3. BootPlan[43].up = UnlessHas({"project name unique"}, Alter({"project"}, {"project name unique"}, {}))
  BY <1>2 DEF EnsureProjectConstraints
<1>4. /\ BootPlan[45].up = <<[do |-> "backfill organizations"]>>
      /\ BootPlan[46].up = <<[do |-> "seed allowlists"]>>
      /\ BootPlan[51].up = <<[do |-> "backfill conversations"]>>
      /\ BootPlan[52].up = <<[do |-> "require conversation.project_id"]>>
  BY <1>2 DEF BackfillGeneralProjects, SeedAirweaveAllowlist, Sql,
              BackfillConversationProjectId, EnforceConversationProjectIdNotNull
<1> QED
  BY <1>1, <1>3, <1>4

LEMMA TwoIndexes ==
    /\ BootPlan[47].up # <<>> /\ Head(BootPlan[47].up) = Alter({"project_data_source"}, {}, {})[1]
    /\ BootPlan[50].up # <<>>
    /\ Head(BootPlan[50].up) = Alter({"conversation", "project"}, {"conversation.project_id"}, {})[1]
<1> DEFINE a == Alter({"project_data_source"}, {}, {})[1]
           b == Alter({"conversation", "project"}, {"conversation.project_id"}, {})[1]
           c == Alter({"conversation.project_id"}, {}, {})[1]
<1>1. BootPlan[47].up = <<a>> \o <<a>> /\ BootPlan[50].up = <<b>> \o <<c>>
  BY Plan DEF ExtendKindConstraintForVectorDb, AddProjectIdToConversation, Index, Alter
<1> HIDE DEF a, b, c
<1> DEFINE S == {a, b, c}
<1>2. a \in S /\ b \in S /\ c \in S
  OBVIOUS
<1> HIDE DEF S
<1>3. <<a>> \in Seq(S) /\ <<b>> \in Seq(S) /\ Len(<<a>>) = 1 /\ Len(<<b>>) = 1
      /\ <<a>>[1] = a /\ <<b>>[1] = b
  BY <1>2
<1> DEFINE u == <<a>> \o <<a>>
           v == <<b>> \o <<c>>
<1>4. u \in Seq(S) /\ v \in Seq(S) /\ Len(u) = Len(<<a>>) + 1 /\ Len(v) = Len(<<b>>) + 1
      /\ (\A k \in 1 .. Len(<<a>>) : u[k] = <<a>>[k]) /\ (\A k \in 1 .. Len(<<b>>) : v[k] = <<b>>[k])
  BY <1>2, <1>3, OneMore
<1> HIDE DEF u, v
<1>5. Len(u) = 2 /\ Len(v) = 2 /\ u[1] = a /\ v[1] = b
  <2>1. 1 \in 1 .. Len(<<a>>) /\ 1 \in 1 .. Len(<<b>>) /\ Len(<<a>>) + 1 = 2 /\ Len(<<b>>) + 1 = 2
    BY <1>3
  <2>2. u[1] = <<a>>[1] /\ v[1] = <<b>>[1] /\ Len(u) = 2 /\ Len(v) = 2
    BY <1>4, <2>1
  <2> QED
    BY <1>3, <2>2
<1>6. u # <<>> /\ v # <<>> /\ Head(u) = a /\ Head(v) = b
  BY <1>4, <1>5
<1> QED
  BY <1>1, <1>6 DEF a, b, u, v

-----------------------------------------------------------------------------
(* A migration of the roles advances.                                      *)

RolesKeep(i, s, d, e) ==
    /\ CatalogStep(i, d, e) /\ CustomStep(i, s, d, e) /\ SuperadminStep(i, d, e)
    /\ NamesStep(i, d, e) /\ (i = 35 => DefaultsStep(s, d, e))

LEMMA RolesKept ==
    ASSUME NEW i \in Nat, NEW s \in Statements, NEW d, RolesTyped(d), NEW e, StatementStep(i, s, d, e)
    PROVE  RolesKeep(i, s, d, e)
<1>1. CASE RolesStep(i, s, d, e)
  BY <1>1 DEF RolesStep, RolesKeep
<1>2. CASE e.catalog = d.catalog /\ e.grants = d.grants /\ e.orgs = d.orgs /\ s.do \notin {"restrict", "grant"}
  <2>1. CatalogStep(i, d, e) /\ SuperadminStep(i, d, e)
    BY <1>2 DEF CatalogStep, SuperadminStep
  <2>2. CustomStep(i, s, d, e)
    BY <1>2 DEF CustomStep, CustomRolesOf
  <2>3. NamesStep(i, d, e)
    BY <1>2 DEF NamesStep, DefaultRowsOf, NoOldNames, NoPlatformDefaults
  <2>4. DefaultsStep(s, d, e)
    BY <1>2 DEF DefaultsStep
  <2> QED
    BY <2>1, <2>2, <2>3, <2>4 DEF RolesKeep
<1>3. s \in UserStatements \cup Ddl \cup ProjectStatements \cup Loops \cup Conditional
        => s.do \notin {"restrict", "grant"}
  BY DEF UserStatements, Ddl, ProjectStatements, TableDrops, Loops, Conditional
<1>4. ~RolesStep(i, s, d, e) =>
        /\ s \in UserStatements \cup Ddl \cup ProjectStatements \cup Loops \cup Conditional
        /\ e.catalog = d.catalog /\ e.grants = d.grants /\ e.orgs = d.orgs
  BY DEF StatementStep, SameRoles, ProjectsStep
<1> QED
  BY <1>1, <1>2, <1>3, <1>4

\* The node sends the first statement of t, and then u is what it has to send.
Sends(i, t, d, e, u) ==
    /\ i \in DOMAIN BootPlan /\ i \in Nat
    /\ Sound(d) /\ Behind(i, d) /\ After(d, i)
    /\ t \in Seq(Statements) /\ t # <<>>
    /\ Fits(Head(t), i, d.orgs) /\ Possible(Head(t), d)
    /\ StatementStep(i, Head(t), d, e)
    /\ RoleProgress(Head(t), d, e) /\ ProjectProgress(Head(t), d, e)
    /\ Carries(t, u) /\ Contains(u, Following(Head(t), d))

LEMMA RolesOfStep ==
    ASSUME NEW i, NEW t, NEW d, NEW e, NEW u, Sends(i, t, d, e, u)
    PROVE  /\ RolesKeep(i, Head(t), d, e) /\ Head(t) \in Statements /\ RolesTyped(d)
           /\ i # 27 => d.catalog \subseteq e.catalog
           /\ Head(t).do \notin {"unless", "if one of"} => SentBy(Head(t), i, d.orgs)
<1>1. Head(t) \in Statements /\ RolesTyped(d) /\ i \in Nat
  BY DatabaseParts DEF Sends, Sound, Fits
<1>2. RolesKeep(i, Head(t), d, e)
  BY <1>1, RolesKept DEF Sends
<1>3. Head(t).do \notin {"unless", "if one of"} => SentBy(Head(t), i, d.orgs)
  BY DEF Sends, Fits
<1> QED
  BY <1>1, <1>2, <1>3 DEF RolesKeep, CatalogStep

LEMMA BaseAdvances ==
    ASSUME NEW t, NEW d, NEW e, NEW u, Sends(13, t, d, e, u), Starting(13, t) \/ Base \subseteq d.catalog
    PROVE  Base \subseteq e.catalog
<1>1. CASE Starting(13, t)
  <2>1. Head(t).do = "register" /\ Base \subseteq Head(t).perms
    BY <1>1, BaseBegins DEF Starting
  <2> QED
    BY <2>1 DEF Sends, RoleProgress
<1>2. CASE Base \subseteq d.catalog
  <2>1. 13 # 27 => d.catalog \subseteq e.catalog
    BY RolesOfStep
  <2> QED
    BY <1>2, <2>1
<1> QED
  BY <1>1, <1>2

LEMMA RolesBefore ==
    ASSUME NEW i, i > 13, i \in 1 .. 54, NEW d, Sound(d), Behind(i, d)
    PROVE  /\ Base \subseteq d.catalog
           /\ i > 18 => HasSuperadmin(d) /\ NoPlatformDefaults(d) /\ Superadmin \in DOMAIN d.grants
           /\ \A j \in 1 .. 54 : j < i => HoldsFamily(d, BootPlan[j].name)
<1>1. \A j \in 1 .. 54 : j < i => Has(d, BootPlan[j].name)
  BY NamesOfPlan DEF Behind
<1>2. LastingRoles(d)
  BY DEF Sound
<1>3. Has(d, "rbac_003")
  BY <1>1, NamesOfPlan
<1>4. i > 18 => Has(d, "rbac_008")
  BY <1>1, NamesOfPlan
<1> QED
  BY <1>1, <1>2, <1>3, <1>4 DEF LastingRoles, HasSuperadmin, Has

LEMMA SuperadminAdvances ==
    ASSUME NEW t, NEW d, NEW e, NEW u, Sends(18, t, d, e, u), GivesSuperadmin(t, d)
    PROVE  GivesSuperadmin(u, e)
<1> DEFINE s == Head(t)
           drop == Sql("drop platform roles")[1]
           row == InsertRole(Superadmin)[1]
           all == GrantSuperadmin(Every)[1]
<1>0. /\ Base \subseteq d.catalog /\ SuperadminStep(18, d, e) /\ NamesStep(18, d, e)
      /\ RoleProgress(s, d, e) /\ Carries(t, u)
  <2>1. 18 > 13 /\ 18 \in 1 .. 54
    OBVIOUS
  <2> QED
    BY <2>1, RolesBefore, RolesOfStep DEF Sends, RolesKeep
<1>1. /\ drop.do = "drop platform roles" /\ row.do = "role" /\ row.role = Superadmin
      /\ all.do = "grant" /\ all.role = Superadmin /\ all.perms = Every
  BY DEF Sql, InsertRole, GrantSuperadmin, Grant
<1>2. /\ Pending(t, drop) \/ NoPlatformDefaults(d)
      /\ \/ PendingPair(t, row, all)
         \/ Superadmin \in DOMAIN d.grants /\ Pending(t, all)
         \/ HasSuperadmin(d)
  BY DEF GivesSuperadmin
<1> SUFFICES /\ Pending(u, drop) \/ NoPlatformDefaults(e)
             /\ \/ PendingPair(u, row, all)
                \/ Superadmin \in DOMAIN e.grants /\ Pending(u, all)
                \/ HasSuperadmin(e)
  BY DEF GivesSuperadmin
<1> HIDE DEF s, drop, row, all
<1>3. Pending(u, drop) \/ NoPlatformDefaults(e)
  <2>1. NoPlatformDefaults(d) => NoPlatformDefaults(e)
    BY <1>0 DEF NamesStep
  <2>2. s = drop => NoPlatformDefaults(e)
    BY <1>0, <1>1 DEF RoleProgress
  <2>3. Pending(t, drop) => s = drop \/ Pending(u, drop)
    BY <1>0 DEF Carries, s
  <2> QED
    BY <1>2, <2>1, <2>2, <2>3
<1>4. Superadmin \in DOMAIN d.grants => Superadmin \in DOMAIN e.grants
  BY <1>0 DEF SuperadminStep
<1>5. HasSuperadmin(d) => HasSuperadmin(e)
  BY <1>0 DEF SuperadminStep, HasSuperadmin
<1>6. CASE PendingPair(t, row, all)
  <2>1. (row = s /\ Pending(u, all)) \/ PendingPair(u, row, all)
    BY <1>0, <1>6 DEF Carries, s
  <2>2. row = s => Superadmin \in DOMAIN e.grants
    BY <1>0, <1>1 DEF RoleProgress
  <2> QED
    BY <1>3, <2>1, <2>2
<1>7. CASE Superadmin \in DOMAIN d.grants /\ Pending(t, all)
  <2>1. s = all \/ Pending(u, all)
    BY <1>0, <1>7 DEF Carries, s
  <2>2. s = all => HasSuperadmin(e)
    <3> SUFFICES ASSUME s = all PROVE HasSuperadmin(e)
      OBVIOUS
    <3>1. Present(d, Every) \subseteq e.grants[Superadmin]
      BY <1>0, <1>1, <1>7 DEF RoleProgress
    <3> QED
      BY <1>0, <1>4, <1>7, <3>1 DEF HasSuperadmin, Present
  <2> QED
    BY <1>3, <1>4, <1>7, <2>1, <2>2
<1> QED
  BY <1>2, <1>3, <1>5, <1>6, <1>7

LEMMA PhantomsAdvance ==
    ASSUME NEW t, NEW d, NEW e, NEW u, Sends(27, t, d, e, u),
           \/ Pending(t, Unregister(On("organization", {"manage-members"}))[2])
           \/ <<"organization", "manage-members">> \notin d.catalog
    PROVE  \/ Pending(u, Unregister(On("organization", {"manage-members"}))[2])
           \/ <<"organization", "manage-members">> \notin e.catalog
<1> DEFINE x == Unregister(On("organization", {"manage-members"}))[2]
           p == <<"organization", "manage-members">>
<1>1. x.do = "unregister" /\ p \in x.perms
  BY DEF Unregister, On
<1> HIDE DEF x, p
<1>2. Pending(t, x) => x = Head(t) \/ Pending(u, x)
  BY DEF Sends, Carries
<1>3. x = Head(t) => p \notin e.catalog
  BY <1>1 DEF Sends, RoleProgress
<1>4. p \notin d.catalog => p \notin e.catalog
  <2>1. RolesKeep(27, Head(t), d, e)
    BY RolesOfStep
  <2>2. CatalogStep(27, d, e)
    BY <2>1 DEF RolesKeep
  <2> QED
    BY <2>2 DEF CatalogStep, p
<1> QED
  BY <1>2, <1>3, <1>4 DEF x, p

LEMMA FamilyIsNotEvery == \A name : Family(name) # Every
<1>1. \A name : Family(name) \in SUBSET AdminDefaults
  BY HeirsOf
<1>2. <<"*", "*">> \notin AdminDefaults /\ <<"*", "*">> \in Every
  BY DEF AdminDefaults, On, Every
<1> QED
  BY <1>1, <1>2

LEMMA MigrationOfFamily ==
    ASSUME NEW i \in DOMAIN BootPlan, Family(BootPlan[i].name) # {}
    PROVE  i \in 25 .. 35 /\ i # 27
<1>1. PICK j \in 25 .. 35 : BootPlan[i].name = BootPlan[j].name
  BY FamiliesAreLate
<1>2. j \in DOMAIN BootPlan
  BY NamesOfPlan
<1>3. i = j
  BY <1>1, <1>2, NamesDiffer
<1>4. Family("rbac_017") = {}
  BY DEF Family
<1>5. i # 27
  BY <1>4, NamesOfPlan
<1> QED
  BY <1>3, <1>5

LEMMA FamilyAdvances ==
    ASSUME NEW i, NEW t, NEW d, NEW e, NEW u, Sends(i, t, d, e, u), GivesFamily(i, t, d)
    PROVE  GivesFamily(i, u, e)
<1> DEFINE name == BootPlan[i].name
           F == Family(name)
           g == GrantSuperadmin(F)[1]
<1>1. CASE F = {}
  BY <1>1 DEF GivesFamily, HoldsFamily
<1>2. CASE F # {}
  <2>1. i \in 25 .. 35 /\ i # 27 /\ i \in DOMAIN BootPlan
    BY <1>2, MigrationOfFamily DEF Sends
  <2>2. FamilyBegins(i, name)
    BY <1>2, <2>1, FamiliesBegin
  <2>3. d.catalog \subseteq e.catalog /\ SuperadminStep(i, d, e)
    BY <2>1, RolesOfStep DEF RolesKeep
  <2>4. Superadmin \in DOMAIN d.grants
    <3>1. i > 13 /\ i > 18 /\ i \in 1 .. 54
      BY <2>1
    <3> QED
      BY <3>1, RolesBefore DEF Sends
  <2>5. g.do = "grant" /\ g.role = Superadmin /\ g.perms = F
    BY DEF GrantSuperadmin, Grant
  <2>6. Starting(i, t) => Head(t).do = "register" /\ Head(t).perms = F
    <3>1. Register(F)[1].do = "register" /\ Register(F)[1].perms = F
      BY DEF Register
    <3> QED
      BY <2>2, <3>1 DEF FamilyBegins, Begun, Starts, Starting
  <2>7. F \subseteq e.catalog
    BY <2>3, <2>6 DEF GivesFamily, Sends, RoleProgress
  <2>8. HoldsFamily(d, name) => HoldsFamily(e, name)
    BY <2>1, <2>3, <2>4 DEF HoldsFamily, SuperadminStep
  <2>9. ASSUME Pending(t, g)
        PROVE  Pending(u, g) \/ HoldsFamily(e, name)
    <3>1. Pending(u, g) \/ g = Head(t)
      BY <2>9 DEF Sends, Carries
    <3>2. CASE g = Head(t)
      <4>1. F \subseteq d.catalog
        BY <2>5, <2>6, <3>2 DEF GivesFamily
      <4>2. Present(d, F) = F
        BY <4>1, FamilyIsNotEvery DEF Present
      <4>3. Present(d, F) \subseteq e.grants[Superadmin]
        BY <2>4, <2>5, <3>2 DEF Sends, RoleProgress
      <4> QED
        BY <4>2, <4>3 DEF HoldsFamily
    <3> QED
      BY <3>1, <3>2
  <2> QED
    BY <2>7, <2>8, <2>9 DEF GivesFamily
<1> QED
  BY <1>1, <1>2

LEMMA CustomRolesOfStep ==
    ASSUME NEW i, NEW t, NEW d, NEW e, NEW u, Sends(i, t, d, e, u), NEW r \in CustomRolesOf(e)
    PROVE  /\ r \in CustomRolesOf(d) /\ d.grants[r] \ Phantoms \subseteq e.grants[r]
           /\ CanUpdate \in e.grants[r] => CanUpdate \in d.grants[r]
           /\ CanRead \in e.grants[r] => CanRead \in d.grants[r]
<1>1. CustomStep(i, Head(t), d, e)
  BY RolesOfStep DEF RolesKeep
<1>2. /\ r \in CustomRolesOf(d) /\ d.grants[r] \ Phantoms \subseteq e.grants[r]
      /\ \A p \in e.grants[r] \ d.grants[r] : Head(t).do = "inherit" /\ p \in Head(t).perms
  BY <1>1 DEF CustomStep
<1>3. Head(t).do = "inherit" => SentBy(Head(t), i, d.orgs)
  BY RolesOfStep
<1>4. Head(t).do = "inherit" => Head(t).perms \cap {CanUpdate, CanRead, <<"embed-site", "delete">>} = {}
  BY <1>3 DEF SentBy
<1> QED
  BY <1>2, <1>4

LEMMA HeirsAdvance ==
    ASSUME NEW i, NEW t, NEW d, NEW e, NEW u, Sends(i, t, d, e, u), GivesFamily(i, t, d), GivesHeirs(i, t, d)
    PROVE  GivesHeirs(i, u, e)
<1> DEFINE name == BootPlan[i].name
<1> SUFFICES ASSUME NEW holding \in {CanUpdate, CanRead}
             PROVE  \/ Pending(u, Inherit(holding, Heirs(name, holding))[1])
                    \/ Inherited(e, name, holding)
  BY DEF GivesHeirs
<1> DEFINE H == Heirs(name, holding)
           h == Inherit(holding, H)[1]
<1>1. Pending(t, h) \/ Inherited(d, name, holding)
  BY DEF GivesHeirs
<1>2. \A r \in CustomRolesOf(e) :
          /\ r \in CustomRolesOf(d) /\ d.grants[r] \ Phantoms \subseteq e.grants[r]
          /\ holding \in e.grants[r] => holding \in d.grants[r]
  BY CustomRolesOfStep
<1>3. Inherited(d, name, holding) => Inherited(e, name, holding)
  BY <1>2, HeirIsNoPhantom DEF Inherited
<1>4. H = {} => Inherited(e, name, holding)
  BY DEF Inherited
<1>5. ASSUME H # {}, Pending(t, h)
      PROVE  Pending(u, h) \/ Inherited(e, name, holding)
  <2>1. Pending(u, h) \/ h = Head(t)
    BY <1>5 DEF Sends, Carries
  <2>2. CASE h = Head(t)
    <3>1. h.do = "inherit" /\ h.holding = holding /\ h.perms = H
      BY DEF Inherit
    <3>2. Family(name) # {} /\ H \subseteq Family(name)
      BY <1>5, HeirsOf
    <3>3. ~Starting(i, t)
      <4>1. FamilyBegins(i, name)
        BY <3>2, FamiliesBegin DEF Sends
      <4>2. Register(Family(name))[1].do = "register"
        BY DEF Register
      <4> QED
        BY <2>2, <3>1, <4>1, <4>2 DEF FamilyBegins, Begun, Starts, Starting
    <3>4. H \subseteq d.catalog
      BY <3>2, <3>3 DEF GivesFamily
    <3>5. \A r \in DOMAIN d.grants : holding \in d.grants[r] => H \cap d.catalog \subseteq e.grants[r]
      BY <2>2, <3>1 DEF Sends, RoleProgress
    <3>6. \A r \in CustomRolesOf(e) : holding \in e.grants[r] => H \subseteq e.grants[r]
      BY <1>2, <3>4, <3>5 DEF CustomRolesOf
    <3> QED
      BY <3>6 DEF Inherited
  <2> QED
    BY <2>1, <2>2
<1> QED
  BY <1>1, <1>3, <1>4, <1>5

-----------------------------------------------------------------------------
(* A migration of the roles advances: rbac_025.                            *)

LEMMA DefaultsAreFamilies ==
    \A p \in AdminDefaults :
        \/ p \in Base
        \/ \E name \in {"rbac_015", "rbac_016", "rbac_018", "rbac_019", "rbac_020", "rbac_021",
                        "rbac_022", "rbac_024", "rbac_025"} : p \in Family(name)
<1> DEFINE In(p) == \/ p \in Base
                    \/ \E name \in {"rbac_015", "rbac_016", "rbac_018", "rbac_019", "rbac_020", "rbac_021",
                                    "rbac_022", "rbac_024", "rbac_025"} : p \in Family(name)
<1>1. \A p \in On("organization", {"read", "update", "delete", "invite"}) : In(p)
  <2>1. On("organization", {"read", "update", "delete", "invite"}) \subseteq Base
    BY DEF Base, On, Crud
  <2> QED
    BY <2>1
<1>2. \A p \in On("role", Crud \cup {"assign"}) \cup On("session", {"read", "revoke"}) : In(p)
  BY DEF Base
<1>3. \A p \in On("user", Crud \cup {"ban", "impersonate", "set-role", "set-password", "approve"}) : In(p)
  <2>1. \A p \in On("user", Crud \cup {"ban", "impersonate", "set-role", "set-password", "approve"}) :
            p \in On("user", Crud \cup {"ban", "impersonate", "set-role", "set-password"}) \/ p \in On("user", {"approve"})
    BY DEF On
  <2>2. On("user", {"approve"}) = Family("rbac_016")
    BY DEF Family
  <2>3. On("user", Crud \cup {"ban", "impersonate", "set-role", "set-password"}) \subseteq Base
    BY DEF Base
  <2> QED
    BY <2>1, <2>2, <2>3
<1>4. \A p \in On("vector-db", Crud \cup {"upload"}) : In(p)
  <2>1. \A p \in On("vector-db", Crud \cup {"upload"}) :
            p \in On("vector-db", Crud) \/ p \in On("vector-db", {"upload"})
    BY DEF On
  <2>2. On("vector-db", Crud) = Family("rbac_022") /\ On("vector-db", {"upload"}) = Family("rbac_024")
    BY DEF Family
  <2> QED
    BY <2>1, <2>2
<1>5. /\ On("chat", {"read", "create", "stream", "delete"}) = Family("rbac_015")
      /\ On("project", Crud \cup {"manage-sources"}) = Family("rbac_019")
      /\ On("dashboard", {"view"}) = Family("rbac_018")
      /\ On("airweave", Crud \cup {"manage-sources"}) = Family("rbac_020")
      /\ On("sql-connection", Crud) = Family("rbac_021")
      /\ On("embed-site", Crud) = Family("rbac_025")
  BY DEF Family
<1>6. \A name \in {"rbac_015", "rbac_016", "rbac_018", "rbac_019", "rbac_020", "rbac_021",
                   "rbac_022", "rbac_024", "rbac_025"} : \A p \in Family(name) : In(p)
  OBVIOUS
<1> HIDE DEF In
<1>7. /\ \A p \in On("chat", {"read", "create", "stream", "delete"}) : In(p)
      /\ \A p \in On("project", Crud \cup {"manage-sources"}) : In(p)
      /\ \A p \in On("dashboard", {"view"}) : In(p)
      /\ \A p \in On("airweave", Crud \cup {"manage-sources"}) : In(p)
      /\ \A p \in On("sql-connection", Crud) : In(p)
      /\ \A p \in On("embed-site", Crud) : In(p)
  BY <1>5, <1>6
<1>8. \A p \in AdminDefaults : In(p)
  BY <1>1, <1>2, <1>3, <1>4, <1>7 DEF AdminDefaults
<1> QED
  BY <1>8 DEF In

LEMMA DefaultsOfAdmin == \A name \in DefaultNames : DefaultsOf(name) \subseteq AdminDefaults
<1>1. ManagerDefaults \subseteq AdminDefaults
  BY DEF ManagerDefaults, AdminDefaults, On, Crud
<1>2. MemberDefaults \subseteq AdminDefaults
  BY DEF MemberDefaults, AdminDefaults, On, Crud
<1> QED
  BY <1>1, <1>2 DEF DefaultsOf, DefaultNames

LEMMA DefaultsRegistered ==
    ASSUME NEW d, Sound(d), Behind(35, d), Family("rbac_025") \subseteq d.catalog
    PROVE  \A name \in DefaultNames : DefaultsOf(name) \subseteq d.catalog
<1>1. /\ Base \subseteq d.catalog /\ Superadmin \in DOMAIN d.grants
      /\ \A j \in 1 .. 54 : j < 35 => HoldsFamily(d, BootPlan[j].name)
  <2>1. 35 > 13 /\ 35 > 18 /\ 35 \in 1 .. 54
    OBVIOUS
  <2> QED
    BY <2>1, RolesBefore
<1>2. d.grants[Superadmin] \subseteq d.catalog
  BY <1>1 DEF Sound, IsDatabase
<1>3. \A j \in 1 .. 54 : j < 35 => Family(BootPlan[j].name) \subseteq d.catalog
  BY <1>1, <1>2 DEF HoldsFamily
<1>4. \A name \in {"rbac_015", "rbac_016", "rbac_018", "rbac_019", "rbac_020", "rbac_021",
                   "rbac_022", "rbac_024", "rbac_025"} : Family(name) \subseteq d.catalog
  <2>1. /\ Family(BootPlan[25].name) \subseteq d.catalog /\ Family(BootPlan[26].name) \subseteq d.catalog
        /\ Family(BootPlan[28].name) \subseteq d.catalog /\ Family(BootPlan[29].name) \subseteq d.catalog
        /\ Family(BootPlan[30].name) \subseteq d.catalog /\ Family(BootPlan[31].name) \subseteq d.catalog
        /\ Family(BootPlan[32].name) \subseteq d.catalog /\ Family(BootPlan[34].name) \subseteq d.catalog
    BY <1>3
  <2> QED
    BY <2>1, NamesOfPlan
<1>5. AdminDefaults \subseteq d.catalog
  BY <1>1, <1>4, DefaultsAreFamilies
<1> QED
  BY <1>5, DefaultsOfAdmin

RestrictOf(r) == [do |-> "restrict", role |-> r, perms |-> DefaultsOf(r[2])]
GrantOf(r) == [do |-> "grant", role |-> r, perms |-> DefaultsOf(r[2])]

LEMMA RoleSyncHas ==
    ASSUME NEW scope \in Scopes, NEW name \in DefaultNames
    PROVE  /\ SyncRolePermissions(<<scope, name>>) \in Seq(Statements)
           /\ Pending(SyncRolePermissions(<<scope, name>>), RestrictOf(<<scope, name>>))
           /\ Pending(SyncRolePermissions(<<scope, name>>), GrantOf(<<scope, name>>))
<1> DEFINE r == <<scope, name>>
           a == RestrictOf(r)
           b == GrantOf(r)
<1>1. r \in DefaultRows /\ DefaultsOf(r[2]) \in SUBSET Catalogue
  BY DefaultsInCatalogue DEF DefaultRows
<1>2. a \in Statements /\ b \in Statements
  BY <1>1 DEF Statements, Simple, RoleStatements, RestrictOf, GrantOf
<1>3. SyncRolePermissions(r) = <<a>> \o <<b>>
  BY DEF SyncRolePermissions, Grant, RestrictOf, GrantOf
<1> HIDE DEF a, b, r
<1>4. <<a>> \in Seq(Statements) /\ <<b>> \in Seq(Statements) /\ Pending(<<a>>, a) /\ Pending(<<b>>, b)
  BY <1>2, PendingInOne
<1>5. <<a>> \o <<b>> \in Seq(Statements)
  BY <1>4
<1>6. Contains(<<a>> \o <<b>>, <<a>>) /\ Contains(<<a>> \o <<b>>, <<b>>)
  BY <1>4, JoinContains
<1>7. Pending(<<a>> \o <<b>>, a) /\ Pending(<<a>> \o <<b>>, b)
  BY <1>4, <1>6 DEF Contains
<1> QED
  BY <1>3, <1>5, <1>7 DEF a, b, r

LEMMA ScopeSyncHas ==
    ASSUME NEW scope \in Scopes, NEW name \in DefaultNames
    PROVE  /\ SyncScope(scope, DefaultNames) \in Seq(Statements)
           /\ Pending(SyncScope(scope, DefaultNames), RestrictOf(<<scope, name>>))
           /\ Pending(SyncScope(scope, DefaultNames), GrantOf(<<scope, name>>))
<1> DEFINE a == SyncRolePermissions(<<scope, "admin">>)
           b == SyncRolePermissions(<<scope, "manager">>)
           c == SyncRolePermissions(<<scope, "member">>)
<1>1. "admin" \in DefaultNames /\ "manager" \in DefaultNames /\ "member" \in DefaultNames
  BY DEF DefaultNames
<1>2. a \in Seq(Statements) /\ b \in Seq(Statements) /\ c \in Seq(Statements)
  BY <1>1, RoleSyncHas
<1>3. SyncScope(scope, DefaultNames) = (a \o b) \o c
  BY <1>1 DEF SyncScope
<1>4. \/ name = "admin" /\ Pending(a, RestrictOf(<<scope, name>>)) /\ Pending(a, GrantOf(<<scope, name>>))
      \/ name = "manager" /\ Pending(b, RestrictOf(<<scope, name>>)) /\ Pending(b, GrantOf(<<scope, name>>))
      \/ name = "member" /\ Pending(c, RestrictOf(<<scope, name>>)) /\ Pending(c, GrantOf(<<scope, name>>))
  <2>1. name = "admin" \/ name = "manager" \/ name = "member"
    BY DEF DefaultNames
  <2> QED
    BY <1>1, <2>1, RoleSyncHas
<1> HIDE DEF a, b, c
<1>5. a \o b \in Seq(Statements) /\ Contains(a \o b, a) /\ Contains(a \o b, b)
  BY <1>2, JoinContains
<1> DEFINE w == a \o b
<1> HIDE DEF w
<1>6. w \in Seq(Statements) /\ Contains(w, a) /\ Contains(w, b)
  BY <1>5 DEF w
<1>7. w \o c \in Seq(Statements) /\ Contains(w \o c, w) /\ Contains(w \o c, c)
  <2>1. w \o c \in Seq(Statements)
    BY <1>2, <1>6
  <2> QED
    BY <1>2, <1>6, <2>1, JoinContains
<1> QED
  BY <1>3, <1>4, <1>6, <1>7 DEF Contains, w

LEMMA LoopKind ==
    ASSUME NEW s \in Statements, s.do = "for each"
    PROVE  s \in Loops
BY DEF Statements, Simple, Ddl, UserStatements, RoleStatements, ProjectStatements, TableDrops, Loops, Conditional

\* A loop that is still to come is a statement of its own.
LoopsOver(f, body, orgs) ==
    /\ f \in Seq(Statements) /\ Pending(f, f[1])
    /\ f[1].do = "for each" /\ f[1].orgs = orgs /\ f[1].body = body

LEMMA LoopIsOne ==
    ASSUME NEW body \in {"sync", "redesign", "backfill", "allow"},
           NEW orgs, orgs \subseteq Organizations, NEW names, names \subseteq DefaultNames
    PROVE  LoopsOver(Loop(body, orgs, names), body, orgs)
<1> DEFINE x == [do |-> "for each", body |-> body, orgs |-> orgs, names |-> names]
<1>1. x \in Statements
  BY DEF Statements, Simple, Loops
<1>2. x.do = "for each" /\ x.orgs = orgs /\ x.body = body
  OBVIOUS
<1>3. Loop(body, orgs, names) = <<x>>
  BY DEF Loop
<1> HIDE DEF x
<1>4. <<x>> \in Seq(Statements) /\ <<x>>[1] = x
  BY <1>1
<1> QED
  BY <1>2, <1>3, <1>4, PendingInOne DEF LoopsOver

LEMMA LoopSentBy ==
    ASSUME NEW s \in Statements, s.do = "for each", NEW i, NEW O, SentBy(s, i, O)
    PROVE  /\ s.body = "sync" /\ i = 35 => s.names = DefaultNames
           /\ s.body = "redesign" => i = 18
           /\ s.body = "backfill" => i = 45
           /\ s.body = "allow" => i = 46
           /\ s.orgs \subseteq O /\ s.orgs \subseteq Organizations /\ s.names \subseteq DefaultNames
           /\ s.body \in {"sync", "redesign", "backfill", "allow"}
<1>1. s \in Loops
  BY LoopKind
<1>2. /\ s.body = "sync" => i \in RbacPlan /\ (i = 35 => s.names = DefaultNames)
      /\ s.body = "redesign" => i = 18
      /\ s.body = "backfill" => i = 45
      /\ s.body = "allow" => i = 46
      /\ s.orgs \subseteq O
  BY DEF SentBy
<1>3. s.orgs \subseteq Organizations /\ s.names \subseteq DefaultNames
      /\ s.body \in {"sync", "redesign", "backfill", "allow"}
  BY <1>1 DEF Loops
<1> QED
  BY <1>2, <1>3

LEMMA SyncStays ==
    ASSUME NEW t, NEW d, NEW e, NEW u, Sends(35, t, d, e, u), NEW r \in DefaultRowsOf(d),
           NEW how \in {"restrict", "grant"}, WillSync(t, r, how)
    PROVE  WillSync(u, r, how) \/ (Head(t).do = how /\ Head(t).role = r)
<1> DEFINE s == Head(t)
           f == Following(s, d)
<1>1. PICK x : Pending(t, x) /\ Syncs(x, r, how)
  BY WillBySet
<1>2. x = s \/ Pending(u, x)
  BY <1>1 DEF Sends, Carries
<1>3. CASE Pending(u, x)
  BY <1>1, <1>3, WillBySet
<1>4. CASE x = s
  <2>1. s \in Statements /\ (s.do \notin {"unless", "if one of"} => SentBy(s, 35, d.orgs)) /\ RolesTyped(d)
    BY RolesOfStep
  <2>2. r = <<r[1], r[2]>> /\ r[1] \in d.orgs /\ r[2] \in DefaultNames /\ d.orgs \subseteq Organizations
    <3>1. 35 > 13 /\ 35 > 18 /\ 35 \in 1 .. 54
      OBVIOUS
    <3>2. NoPlatformDefaults(d)
      BY <3>1, RolesBefore DEF Sends
    <3> QED
      BY <2>1, <3>2 DEF DefaultRowsOf, NoPlatformDefaults, RolesTyped
  <2>3. ASSUME NEW y, Pending(f, y), Syncs(y, r, how)
        PROVE  WillSync(u, r, how)
    <3>1. Pending(u, y)
      BY <2>3 DEF Sends, Contains
    <3> QED
      BY <2>3, <3>1, WillBySet
  <2>4. CASE s.do = how
    <3>1. s.role = r
      BY <1>1, <1>4, <2>4 DEF Syncs
    <3> QED
      BY <2>4, <3>1
  <2>5. CASE s.do = "organizations"
    <3>1. SentBy(s, 35, d.orgs)
      BY <2>1, <2>5
    <3>2. s.names = DefaultNames
      BY <2>5, <3>1 DEF SentBy
    <3>3. f = Loop("sync", d.orgs, DefaultNames)
      BY <2>5, <3>2 DEF Following
    <3> DEFINE y == Loop("sync", d.orgs, DefaultNames)[1]
    <3>4. LoopsOver(Loop("sync", d.orgs, DefaultNames), "sync", d.orgs)
      BY <2>2, LoopIsOne
    <3>5. Syncs(y, r, how)
      BY <2>2, <3>4 DEF Syncs, LoopsOver
    <3> QED
      BY <2>3, <3>3, <3>4, <3>5 DEF LoopsOver
  <2>6. CASE s.do = "for each" /\ r[1] \in s.orgs
    <3> DEFINE o == CHOOSE o \in s.orgs : TRUE
               rest == s.orgs \ {o}
               a == SyncScope(o, DefaultNames)
               b == Loop("sync", rest, DefaultNames)
    <3>1. SentBy(s, 35, d.orgs)
      BY <2>1, <2>6
    <3>2. /\ s.body = "sync" => s.names = DefaultNames
          /\ s.body = "redesign" => 35 = 18
          /\ s.body = "backfill" => 35 = 45
          /\ s.body = "allow" => 35 = 46
          /\ s.orgs \subseteq Organizations
          /\ s.body \in {"sync", "redesign", "backfill", "allow"}
      BY <2>1, <2>6, <3>1, LoopSentBy
    <3>4. s.body = "sync" /\ s.names = DefaultNames
      BY <3>2
    <3>5. o \in s.orgs
      BY <2>6
    <3>6. f = a \o b
      BY <2>6, <3>4 DEF Following, Unroll, LoopBody
    <3>7. o \in Scopes /\ rest \subseteq Organizations
      BY <3>2, <3>5 DEF Scopes
    <3> HIDE DEF o
    <3>8. a \in Seq(Statements) /\ LoopsOver(b, "sync", rest)
      <4>1. a \in Seq(Statements)
        BY <2>2, <3>7, ScopeSyncHas
      <4> HIDE DEF rest
      <4>2. LoopsOver(Loop("sync", rest, DefaultNames), "sync", rest)
        BY <3>7, LoopIsOne
      <4> QED
        BY <4>1, <4>2
    <3>9. Contains(f, a) /\ Contains(f, b)
      <4> HIDE DEF a, b, f
      <4> QED
        BY <3>6, <3>8, JoinContains DEF LoopsOver
    <3>10. CASE r[1] = o
      <4>1. r = <<o, r[2]>>
        BY <2>2, <3>10
      <4>2. Pending(a, RestrictOf(<<o, r[2]>>)) /\ Pending(a, GrantOf(<<o, r[2]>>))
        BY <2>2, <3>7, ScopeSyncHas
      <4>3. Pending(f, RestrictOf(r)) /\ Pending(f, GrantOf(r))
        BY <3>9, <4>1, <4>2 DEF Contains
      <4>4. /\ RestrictOf(r).do = "restrict" /\ RestrictOf(r).role = r
            /\ GrantOf(r).do = "grant" /\ GrantOf(r).role = r
        BY DEF RestrictOf, GrantOf
      <4>5. Syncs(RestrictOf(r), r, "restrict") /\ Syncs(GrantOf(r), r, "grant")
        BY <4>4 DEF Syncs
      <4> QED
        BY <2>3, <4>3, <4>5
    <3>11. CASE r[1] # o
      <4> DEFINE y == b[1]
      <4>1. Pending(b, y) /\ y.do = "for each" /\ y.orgs = rest
        BY <3>8 DEF LoopsOver
      <4>2. r[1] \in rest
        BY <2>6, <3>11
      <4>3. Syncs(y, r, how)
        BY <4>1, <4>2 DEF Syncs
      <4>4. Pending(f, y)
        BY <3>9, <4>1 DEF Contains
      <4> QED
        BY <2>3, <4>3, <4>4
    <3> QED
      BY <3>10, <3>11
  <2> QED
    BY <1>1, <1>4, <2>4, <2>5, <2>6 DEF Syncs
<1> QED
  BY <1>2, <1>3, <1>4

LEMMA DefaultsAdvance ==
    ASSUME NEW t, NEW d, NEW e, NEW u, Sends(35, t, d, e, u), GivesFamily(35, t, d), SyncsDefaults(t, d)
    PROVE  SyncsDefaults(u, e)
<1>1. RolesKeep(35, Head(t), d, e)
  BY RolesOfStep
<1>2. NamesStep(35, d, e) /\ DefaultsStep(Head(t), d, e)
  BY <1>1 DEF RolesKeep
<1>3. DefaultRowsOf(e) = DefaultRowsOf(d)
  BY <1>2 DEF NamesStep
<1>4. Head(t).do = "grant" => \A name \in DefaultNames : DefaultsOf(name) \subseteq d.catalog
  <2> SUFFICES ASSUME Head(t).do = "grant" PROVE \A name \in DefaultNames : DefaultsOf(name) \subseteq d.catalog
    OBVIOUS
  <2>0. BootPlan[35].name = "rbac_025" /\ 35 \in DOMAIN BootPlan
    BY NamesOfPlan
  <2>1. Family("rbac_025") # {}
    BY DEF Family, On, Crud
  <2>2. FamilyBegins(35, "rbac_025")
    BY <2>0, <2>1, FamiliesBegin
  <2>3. Register(Family("rbac_025"))[1].do = "register"
    BY DEF Register
  <2>4. ~Starting(35, t)
    BY <2>2, <2>3 DEF FamilyBegins, Begun, Starts, Starting
  <2>5. Family("rbac_025") \subseteq d.catalog
    BY <2>0, <2>4 DEF GivesFamily
  <2> QED
    BY <2>5, DefaultsRegistered DEF Sends
<1> SUFFICES ASSUME NEW r \in DefaultRowsOf(d)
             PROVE  /\ WillSync(u, r, "restrict") \/ e.grants[r] \subseteq DefaultsOf(r[2])
                    /\ WillSync(u, r, "grant") \/ DefaultsOf(r[2]) \subseteq e.grants[r]
  BY <1>3 DEF SyncsDefaults
<1>5. /\ WillSync(t, r, "restrict") \/ d.grants[r] \subseteq DefaultsOf(r[2])
      /\ WillSync(t, r, "grant") \/ DefaultsOf(r[2]) \subseteq d.grants[r]
  BY DEF SyncsDefaults
<1>6. WillSync(t, r, "restrict") => WillSync(u, r, "restrict") \/ (Head(t).do = "restrict" /\ Head(t).role = r)
  BY SyncStays
<1>7. WillSync(t, r, "grant") => WillSync(u, r, "grant") \/ (Head(t).do = "grant" /\ Head(t).role = r)
  BY SyncStays
<1>8. r[2] \in DefaultNames
  BY DEF DefaultRowsOf
<1> QED
  BY <1>2, <1>4, <1>5, <1>6, <1>7, <1>8 DEF DefaultsStep

LEMMA RolesAdvances ==
    ASSUME NEW i, NEW t, NEW d, NEW e, NEW u, Sends(i, t, d, e, u), RolesAdvance(i, t, d)
    PROVE  RolesAdvance(i, u, e)
<1>1. i = 13 => Starting(i, u) \/ Base \subseteq e.catalog
  BY BaseAdvances DEF RolesAdvance
<1>2. i = 18 => GivesSuperadmin(u, e)
  BY SuperadminAdvances DEF RolesAdvance
<1>3. i = 27 => \/ Pending(u, Unregister(On("organization", {"manage-members"}))[2])
                \/ <<"organization", "manage-members">> \notin e.catalog
  BY PhantomsAdvance DEF RolesAdvance
<1>4. GivesFamily(i, u, e) /\ GivesHeirs(i, u, e)
  BY FamilyAdvances, HeirsAdvance DEF RolesAdvance
<1>5. i = 35 => SyncsDefaults(u, e)
  BY DefaultsAdvance DEF RolesAdvance
<1> QED
  BY <1>1, <1>2, <1>3, <1>4, <1>5 DEF RolesAdvance

-----------------------------------------------------------------------------
(* A migration of the projects advances.                                   *)

ProjectsKeep(i, s, d, e) ==
    /\ SchemaStep(i, d, e) /\ RowsStep(i, s, d, e)
    /\ e.legacy = d.legacy /\ e.recorded = d.recorded
    /\ \A o \in e.orgs : HasMembers(e, o) => HasMembers(d, o) /\ o \in d.orgs

LEMMA ProjectsKept ==
    ASSUME NEW i \in Nat, NEW s \in Statements, NEW d, IsDatabase(d), NEW e, StatementStep(i, s, d, e)
    PROVE  ProjectsKeep(i, s, d, e)
<1>1. /\ e.recorded = d.recorded /\ e.legacy = d.legacy
      /\ \A o \in e.orgs : HasMembers(e, o) => HasMembers(d, o) /\ o \in d.orgs
  <2>1. /\ e.recorded = d.recorded /\ e.legacy = d.legacy
        /\ MembersStep(d, e) /\ e.orgs \subseteq d.orgs \cup {Default}
    BY DatabaseStays
  <2> QED
    BY <2>1 DEF MembersStep, HasMembers
<1>2. CASE ProjectsStep(i, s, d, e)
  BY <1>1, <1>2 DEF ProjectsStep, ProjectsKeep
<1>3. CASE SameProjects(d, e) /\ s.do # "allow"
  <2>1. SchemaStep(i, d, e)
    BY <1>3 DEF SameProjects, SchemaStep, NamesUnique
  <2>2. RowsStep(i, s, d, e)
    BY <1>3 DEF SameProjects, RowsStep
  <2> QED
    BY <1>1, <2>1, <2>2 DEF ProjectsKeep
<1>4. s \in RoleStatements \cup UserStatements \cup Loops \cup Conditional => s.do # "allow"
  BY DEF RoleStatements, UserStatements, Loops, Conditional
<1>5. ProjectsStep(i, s, d, e) \/ (SameProjects(d, e) /\ s \in RoleStatements \cup UserStatements \cup Loops \cup Conditional)
  BY DEF StatementStep, RolesStep, SameProjects
<1> QED
  BY <1>2, <1>3, <1>4, <1>5

LEMMA ProjectsOfStep ==
    ASSUME NEW i, NEW t, NEW d, NEW e, NEW u, Sends(i, t, d, e, u)
    PROVE  /\ ProjectsKeep(i, Head(t), d, e) /\ Head(t) \in Statements /\ LastingProjects(d)
           /\ Head(t).do \notin {"unless", "if one of"} => SentBy(Head(t), i, d.orgs)
<1>1. Head(t) \in Statements /\ IsDatabase(d) /\ i \in Nat /\ LastingProjects(d)
  BY DEF Sends, Sound, Fits
<1>2. ProjectsKeep(i, Head(t), d, e)
  BY <1>1, ProjectsKept DEF Sends
<1> QED
  BY <1>1, <1>2, RolesOfStep

NameConstraint == Alter({"project"}, {"project name unique"}, {})

LEMMA ConstraintAdvances ==
    ASSUME NEW t, NEW d, NEW e, NEW u, Sends(43, t, d, e, u),
           Starting(43, t) \/ Pending(t, NameConstraint[1]) \/ NamesUnique(d)
    PROVE  Pending(u, NameConstraint[1]) \/ NamesUnique(e)
<1>1. NamesUnique(d) => NamesUnique(e)
  <2>1. ProjectsKeep(43, Head(t), d, e)
    BY ProjectsOfStep
  <2> QED
    BY <2>1 DEF ProjectsKeep, SchemaStep
<1>2. CASE Starting(43, t)
  <2>1. BootPlan[43].up = <<[do |-> "unless", facts |-> {"project name unique"}, then |-> NameConstraint]>>
    BY ProjectsBegin DEF UnlessHas, NameConstraint
  <2>2. /\ Head(t).do = "unless" /\ Head(t).facts = {"project name unique"}
        /\ Head(t).then = NameConstraint
    <3> DEFINE x == [do |-> "unless", facts |-> {"project name unique"}, then |-> NameConstraint]
    <3>1. t = <<x>>
      BY <1>2, <2>1 DEF Starting
    <3>2. x.do = "unless" /\ x.facts = {"project name unique"} /\ x.then = NameConstraint
      OBVIOUS
    <3> HIDE DEF x
    <3>3. Head(t) = x
      BY <3>1
    <3> QED
      BY <3>2, <3>3
  <2>3. CASE "project name unique" \in d.schema
    BY <1>1, <2>3 DEF NamesUnique
  <2>4. CASE "project name unique" \notin d.schema
    <3>1. Following(Head(t), d) = NameConstraint
      BY <2>2, <2>4 DEF Following
    <3>2. Pending(NameConstraint, NameConstraint[1])
      <4>1. NameConstraint = <<NameConstraint[1]>>
        BY DEF NameConstraint, Alter
      <4> QED
        BY <4>1, PendingInOne
    <3> QED
      BY <3>1, <3>2 DEF Sends, Contains
  <2> QED
    BY <2>3, <2>4
<1>3. CASE Pending(t, NameConstraint[1])
  <2>1. NameConstraint[1] = Head(t) \/ Pending(u, NameConstraint[1])
    BY <1>3 DEF Sends, Carries
  <2>2. NameConstraint[1].do = "alter" /\ NameConstraint[1].adds = {"project name unique"}
    BY DEF NameConstraint, Alter
  <2>3. NameConstraint[1] = Head(t) => "project name unique" \in e.schema
    BY <2>2 DEF Sends, ProjectProgress
  <2> QED
    BY <2>1, <2>3 DEF NamesUnique
<1> QED
  BY <1>1, <1>2, <1>3

LEMMA SourcesAdvance ==
    ASSUME NEW t, NEW d, NEW e, NEW u, Sends(47, t, d, e, u),
           Starting(47, t) \/ "project_data_source" \in d.schema
    PROVE  "project_data_source" \in e.schema
<1>1. Starting(47, t) => "project_data_source" \in d.schema
  <2> SUFFICES ASSUME Starting(47, t) PROVE "project_data_source" \in d.schema
    OBVIOUS
  <2>1. Head(t).do = "alter" /\ Head(t).needs = {"project_data_source"}
    BY TwoIndexes DEF Starting, Alter
  <2> QED
    BY <2>1 DEF Sends, Possible
<1>2. SchemaStep(47, d, e)
  <2>1. ProjectsKeep(47, Head(t), d, e)
    BY ProjectsOfStep
  <2> QED
    BY <2>1 DEF ProjectsKeep
<1>3. 47 \in Nat /\ 47 \notin {42, 44}
  OBVIOUS
<1>4. "project_data_source" \in d.schema
  BY <1>1
<1> QED
  BY <1>2, <1>3, <1>4, SourcesTableStays

LEMMA KeptOtherwise ==
    ASSUME NEW i, i \notin {39, 42, 44, 49}, NEW d, NEW e, SchemaStep(i, d, e), NEW f \in Kept, f \in d.schema
    PROVE  f \in e.schema
BY SchemaKeeps

LEMMA ProjectIdAdvances ==
    ASSUME NEW t, NEW d, NEW e, NEW u, Sends(50, t, d, e, u),
           Starting(50, t) \/ {"project", "conversation.project_id"} \subseteq d.schema
    PROVE  {"project", "conversation.project_id"} \subseteq e.schema
<1>1. SchemaStep(50, d, e)
  <2>1. ProjectsKeep(50, Head(t), d, e)
    BY ProjectsOfStep
  <2> QED
    BY <2>1 DEF ProjectsKeep
<1>2. CASE Starting(50, t)
  <2>1. /\ Head(t).do = "alter" /\ Head(t).needs = {"conversation", "project"}
        /\ Head(t).adds = {"conversation.project_id"} /\ Head(t).drops = {}
    BY <1>2, TwoIndexes DEF Starting, Alter
  <2>2. Possible(Head(t), d) /\ ProjectProgress(Head(t), d, e)
    BY DEF Sends
  <2>3. "project" \in d.schema
    BY <2>1, <2>2 DEF Possible
  <2>4. e.schema = (d.schema \ {}) \cup {"conversation.project_id"}
    BY <2>1, <2>2 DEF ProjectProgress
  <2> QED
    BY <2>3, <2>4
<1>3. CASE {"project", "conversation.project_id"} \subseteq d.schema
  <2>1. "project" \in Kept /\ "conversation.project_id" \in Kept
    BY DEF Kept
  <2>2. 50 \notin {39, 42, 44, 49}
    OBVIOUS
  <2> QED
    BY <1>1, <1>3, <2>1, <2>2, KeptOtherwise
<1> QED
  BY <1>2, <1>3

LEMMA ConversationsAdvance ==
    ASSUME NEW t, NEW d, NEW e, NEW u, Sends(51, t, d, e, u),
           Starting(51, t) \/ \A o \in d.orgs : InGeneral(d, o)
    PROVE  \A o \in e.orgs : InGeneral(e, o)
<1>1. ProjectsKeep(51, Head(t), d, e) /\ LastingProjects(d)
  BY ProjectsOfStep
<1>2. DOMAIN e.inProject = DOMAIN d.inProject
  BY <1>1 DEF ProjectsKeep, RowsStep
<1>3. CASE Starting(51, t)
  <2>1. Head(t).do = "backfill conversations"
    <3>1. BootPlan[51].up = <<[do |-> "backfill conversations"]>>
      BY ProjectsBegin
    <3>2. t = BootPlan[51].up
      BY <1>3 DEF Starting
    <3> DEFINE x == [do |-> "backfill conversations"]
    <3>5. t = <<x>>
      BY <3>1, <3>2
    <3>7. x.do = "backfill conversations"
      OBVIOUS
    <3> HIDE DEF x
    <3>6. Head(t) = x
      BY <3>5
    <3> QED
      BY <3>6, <3>7
  <2>2. Backfilled(d, e)
    BY <2>1 DEF Sends, ProjectProgress
  <2>3. Has(d, "projects_002")
    <3>1. 45 \in DOMAIN BootPlan /\ 45 < 51
      BY NamesOfPlan
    <3> QED
      BY <3>1, NamesOfPlan DEF Sends, Behind
  <2>4. \A o \in d.orgs : HasGeneral(d, o)
    BY <1>1, <2>3 DEF LastingProjects
  <2> QED
    BY <1>1, <1>2, <2>2, <2>4 DEF ProjectsKeep, Backfilled, InGeneral, HasGeneral
<1>4. CASE \A o \in d.orgs : InGeneral(d, o)
  <2>1. \A o \in DOMAIN d.inProject : d.inProject[o] = "general" => e.inProject[o] = "general"
    <3>1. RowsStep(51, Head(t), d, e) /\ 51 # 49
      BY <1>1 DEF ProjectsKeep
    <3> QED
      BY <3>1 DEF RowsStep
  <2> QED
    BY <1>1, <1>2, <1>4, <2>1 DEF ProjectsKeep, InGeneral
<1> QED
  BY <1>3, <1>4

LEMMA RequirementAdvances ==
    ASSUME NEW t, NEW d, NEW e, NEW u, Sends(52, t, d, e, u), Starting(52, t) \/ Required(d)
    PROVE  Required(e)
<1>1. CASE Starting(52, t)
  <2>1. Head(t).do = "require conversation.project_id"
    <3>1. BootPlan[52].up = <<[do |-> "require conversation.project_id"]>>
      BY ProjectsBegin
    <3>2. t = BootPlan[52].up
      BY <1>1 DEF Starting
    <3> DEFINE x == [do |-> "require conversation.project_id"]
    <3>5. t = <<x>>
      BY <3>1, <3>2
    <3>7. x.do = "require conversation.project_id"
      OBVIOUS
    <3> HIDE DEF x
    <3>6. Head(t) = x
      BY <3>5
    <3> QED
      BY <3>6, <3>7
  <2> QED
    BY <2>1 DEF Sends, ProjectProgress
<1>2. CASE Required(d)
  <2>1. ProjectsKeep(52, Head(t), d, e)
    BY ProjectsOfStep
  <2>2. SchemaStep(52, d, e) /\ RowsStep(52, Head(t), d, e)
    BY <2>1 DEF ProjectsKeep
  <2>3. e.inProject = d.inProject
    BY <2>2 DEF RowsStep
  <2>4. "conversation.project_id required" \in Kept /\ 52 \notin {39, 42, 44, 49}
    BY DEF Kept
  <2>5. "conversation.project_id required" \in d.schema => "conversation.project_id required" \in e.schema
    BY <2>2, <2>4, KeptOtherwise
  <2> QED
    BY <1>2, <2>3, <2>5 DEF Required
<1> QED
  BY <1>1, <1>2

-----------------------------------------------------------------------------
(* The backfill of the projects.                                           *)

LEMMA ProjectsAreLater == 45 \notin RbacPlan /\ 46 \notin RbacPlan /\ 45 # 18 /\ 46 # 18 /\ 45 # 46
BY DEF RbacPlan

\* What the loop of a migration is about, and what it is not.
LEMMA LoopInPlan ==
    ASSUME NEW s \in Statements, s.do = "for each", NEW i \in Nat, NEW O, SentBy(s, i, O), i = 45 \/ i = 46
    PROVE  /\ i = 45 => s.body = "backfill"
           /\ i = 46 => s.body = "allow"
           /\ s.orgs \subseteq O /\ s.orgs \subseteq Organizations /\ s.names \subseteq DefaultNames
<1>0. 45 \notin RbacPlan /\ 46 \notin RbacPlan /\ 45 # 18 /\ 46 # 18 /\ 45 # 46
  BY ProjectsAreLater
<1>1. i \notin RbacPlan /\ i # 18 /\ (i = 45 => i # 46)
  BY <1>0
<1>2. s.body = "sync" => i \in RbacPlan
  BY DEF SentBy
<1>3. /\ s.body = "redesign" => i = 18
      /\ s.body = "backfill" => i = 45
      /\ s.body = "allow" => i = 46
      /\ s.orgs \subseteq O /\ s.orgs \subseteq Organizations /\ s.names \subseteq DefaultNames
  BY LoopSentBy
<1>4. s.body = "sync" \/ s.body = "redesign" \/ s.body = "backfill" \/ s.body = "allow"
  BY LoopSentBy
<1> QED
  BY <1>1, <1>2, <1>3, <1>4, Zenon

LEMMA RoundStatements ==
    ASSUME NEW o \in Organizations
    PROVE  /\ General(o) \in Statements /\ AttachLegacy(o) \in Statements
           /\ [do |-> "allow", org |-> o, value |-> "legacy"] \in Statements
           /\ [do |-> "allow", org |-> o, value |-> "empty"] \in Statements
BY DEF General, AttachLegacy, Statements, Simple, ProjectStatements

LEMMA BackfillHas ==
    ASSUME NEW o \in Organizations, NEW d
    PROVE  /\ BackfillGeneral(d, o) \in Seq(Statements)
           /\ Pending(BackfillGeneral(d, o), General(o))
           /\ o \in d.legacy /\ HasMembers(d, o) =>
                 PendingPair(BackfillGeneral(d, o), General(o), AttachLegacy(o))
<1> DEFINE a == General(o)
           b == AttachLegacy(o)
<1>1. a \in Statements /\ b \in Statements
  BY RoundStatements
<1>2. BackfillGeneral(d, o) = <<a>> \o (IF o \in d.legacy /\ HasMembers(d, o) THEN <<b>> ELSE <<>>)
  BY DEF BackfillGeneral, General, AttachLegacy
<1> HIDE DEF a, b
<1>3. <<a>> \in Seq(Statements) /\ <<b>> \in Seq(Statements) /\ <<>> \in Seq(Statements) /\ Pending(<<a>>, a)
  BY <1>1, PendingInOne
<1>4. CASE o \in d.legacy /\ HasMembers(d, o)
  <2>1. BackfillGeneral(d, o) = <<a>> \o <<b>>
    BY <1>2, <1>4
  <2>2. <<a>> \o <<b>> \in Seq(Statements)
    BY <1>3
  <2>3. Contains(<<a>> \o <<b>>, <<a>>)
    BY <1>3, JoinContains
  <2>4. Pending(<<a>> \o <<b>>, a)
    BY <1>3, <2>3 DEF Contains
  <2>5. PendingPair(<<a>> \o <<b>>, a, b)
    <3> DEFINE w == <<a>> \o <<b>>
    <3>1. /\ <<a>> \o <<b>> \in Seq(Statements) /\ Len(<<a>> \o <<b>>) = Len(<<a>>) + 1
          /\ (<<a>> \o <<b>>)[Len(<<a>>) + 1] = b
          /\ \A k \in 1 .. Len(<<a>>) : (<<a>> \o <<b>>)[k] = <<a>>[k]
      BY <1>1, <1>3, OneMore
    <3>2. Len(<<a>>) = 1 /\ <<a>>[1] = a /\ 1 \in 1 .. Len(<<a>>)
      OBVIOUS
    <3>3. Len(w) = 2 /\ w[1] = a /\ w[1 + 1] = b
      BY <3>1, <3>2
    <3>4. 1 \in 1 .. Len(w) - 1
      BY <3>3
    <3> HIDE DEF w
    <3>5. PendingPair(w, a, b)
      BY <3>3, <3>4 DEF PendingPair
    <3> QED
      BY <3>5 DEF w
  <2> QED
    BY <2>1, <2>2, <2>4, <2>5 DEF a, b
<1>5. CASE ~(o \in d.legacy /\ HasMembers(d, o))
  <2>1. BackfillGeneral(d, o) = <<a>> \o <<>>
    BY <1>2, <1>5
  <2>2. BackfillGeneral(d, o) = <<a>>
    BY <1>3, <2>1
  <2> QED
    BY <1>3, <1>5, <2>2 DEF a, b
<1> QED
  BY <1>4, <1>5

\* A round of a loop, and the loop over the others.
Rounds(f, a, rest, body) ==
    \E b : /\ f = a \o b /\ a \in Seq(Statements) /\ LoopsOver(b, body, rest)
           /\ Contains(f, a) /\ Contains(f, b)

LEMMA RoundsOf ==
    ASSUME NEW s \in Statements, s.do = "for each", NEW d, s.orgs # {}, NEW body, s.body = body,
           body \in {"sync", "redesign", "backfill", "allow"},
           s.orgs \subseteq Organizations, s.names \subseteq DefaultNames,
           NEW o, o = (CHOOSE x \in s.orgs : TRUE), LoopBody(s, o, d) \in Seq(Statements)
    PROVE  Rounds(Following(s, d), LoopBody(s, o, d), s.orgs \ {o}, body)
<1> DEFINE rest == s.orgs \ {o}
           names == s.names
           b == Loop(body, rest, names)
           a == LoopBody(s, o, d)
           f == Following(s, d)
<1>1. f = a \o b
  BY DEF Following, Unroll
<1>2. LoopsOver(b, body, rest)
  <2>1. rest \subseteq Organizations /\ names \subseteq DefaultNames
    OBVIOUS
  <2> HIDE DEF rest, names
  <2> QED
    BY <2>1, LoopIsOne
<1>3. a \in Seq(Statements)
  OBVIOUS
<1> HIDE DEF a, b, f, rest
<1>4. Contains(f, a) /\ Contains(f, b)
  BY <1>1, <1>2, <1>3, JoinContains DEF LoopsOver
<1>5. Rounds(f, a, rest, body)
  BY <1>1, <1>2, <1>3, <1>4 DEF Rounds
<1> QED
  BY <1>5 DEF a, f, rest

\* What a loop does not do in this round it does in a later one.
LEMMA LaterRound ==
    ASSUME NEW f, NEW a, NEW rest, NEW body, Rounds(f, a, rest, body), NEW u, Contains(u, f),
           NEW o \in rest, NEW what
    PROVE  WillVisit(u, o, what)
<1>1. PICK b : LoopsOver(b, body, rest) /\ Contains(f, b)
  BY DEF Rounds
<1>2. Pending(u, b[1])
  BY <1>1 DEF Contains, LoopsOver
<1>3. b[1].do = "for each" /\ o \in b[1].orgs
  BY <1>1 DEF LoopsOver
<1> QED
  BY <1>2, <1>3, WillBySet

LEMMA ProjectAdvances ==
    ASSUME NEW t, NEW d, NEW e, NEW u, Sends(45, t, d, e, u), u \in Seq(Statements),
           NEW o \in d.orgs, HasMembers(d, o), BackfillsProject(t, d, o)
    PROVE  BackfillsProject(u, e, o)
<1> DEFINE s == Head(t)
           f == Following(s, d)
<1>0. /\ ProjectsKeep(45, s, d, e) /\ s \in Statements /\ d.orgs \subseteq Organizations
      /\ s.do \notin {"unless", "if one of"} => SentBy(s, 45, d.orgs)
      /\ Contains(u, f) /\ Carries(t, u) /\ ProjectProgress(s, d, e) /\ t \in Seq(Statements)
  <2>1. d.orgs \subseteq Organizations
    BY RolesOfStep DEF RolesTyped
  <2> QED
    BY <2>1, ProjectsOfStep DEF Sends
<1>1. e.legacy = d.legacy /\ d.general \subseteq e.general /\ d.sources \subseteq e.sources
  <2>1. RowsStep(45, s, d, e)
    BY <1>0 DEF ProjectsKeep
  <2>2. 45 \notin {42, 44}
    OBVIOUS
  <2> QED
    BY <1>0, <2>1, <2>2 DEF ProjectsKeep, RowsStep
<1>2. CASE WillVisit(t, o, "backfill organizations")
  <2>1. PICK x : Pending(t, x) /\ (x.do = "backfill organizations" \/ (x.do = "for each" /\ o \in x.orgs))
    BY <1>2, WillBySet
  <2>2. CASE Pending(u, x)
    <3>1. WillVisit(u, o, "backfill organizations")
      BY <2>1, <2>2, WillBySet
    <3> QED
      BY <3>1 DEF BackfillsProject
  <2>3. CASE s.do = "backfill organizations"
    <3> DEFINE b == Loop("backfill", d.orgs, {})
    <3>1. f = b
      BY <2>3 DEF Following
    <3>2. LoopsOver(b, "backfill", d.orgs)
      BY <1>0, LoopIsOne
    <3> HIDE DEF b, f
    <3>3. Pending(u, b[1]) /\ b[1].do = "for each" /\ b[1].orgs = d.orgs
      BY <1>0, <3>1, <3>2 DEF LoopsOver, Contains
    <3>4. WillVisit(u, o, "backfill organizations")
      BY <3>3, WillBySet
    <3> QED
      BY <3>4 DEF BackfillsProject
  <2>4. CASE s.do = "for each" /\ o \in s.orgs
    <3> DEFINE z == CHOOSE z \in s.orgs : TRUE
    <3>1. z \in s.orgs
      BY <2>4
    <3>2. SentBy(s, 45, d.orgs) /\ 45 \in Nat /\ (45 = 45 \/ 45 = 46)
      BY <1>0, <2>4
    <3>3. s.body = "backfill" /\ s.orgs \subseteq Organizations /\ s.names \subseteq DefaultNames
      BY <1>0, <2>4, <3>2, LoopInPlan
    <3>4. LoopBody(s, z, d) = BackfillGeneral(d, z)
      BY <3>3 DEF LoopBody
    <3>5. BackfillGeneral(d, z) \in Seq(Statements)
      BY <3>1, <3>3, BackfillHas
    <3> DEFINE rest == s.orgs \ {z}
               a == BackfillGeneral(d, z)
    <3>6. Rounds(f, a, rest, "backfill")
      BY <1>0, <2>4, <3>3, <3>4, <3>5, RoundsOf
    <3> HIDE DEF z, f
    <3>7. CASE o = z
      <4>1. Pending(a, General(o)) /\ (o \in d.legacy => PendingPair(a, General(o), AttachLegacy(o)))
        BY <3>1, <3>3, <3>7, BackfillHas
      <4>2. Contains(f, a)
        BY <3>6 DEF Rounds
      <4>3. Pending(u, General(o)) /\ (o \in d.legacy => PendingPair(u, General(o), AttachLegacy(o)))
        BY <1>0, <4>1, <4>2 DEF Contains
      <4> QED
        BY <1>1, <4>3 DEF BackfillsProject
    <3>8. CASE o # z
      <4>1. o \in rest
        BY <2>4, <3>8
      <4>2. WillVisit(u, o, "backfill organizations")
        BY <1>0, <3>6, <4>1, LaterRound
      <4> QED
        BY <4>2 DEF BackfillsProject
    <3> QED
      BY <3>7, <3>8
  <2>5. x = s \/ Pending(u, x)
    BY <1>0, <2>1 DEF Carries
  <2> QED
    BY <2>1, <2>2, <2>3, <2>4, <2>5
<1>3. /\ General(o).do = "general" /\ General(o).org = o
      /\ AttachLegacy(o).do = "attach legacy" /\ AttachLegacy(o).org = o
  BY DEF General, AttachLegacy
<1>4. General(o) = s => o \in e.general
  BY <1>0, <1>3 DEF ProjectProgress
<1>5. CASE Pending(t, General(o)) /\ (o \in d.legacy => PendingPair(t, General(o), AttachLegacy(o)))
  <2>1. CASE o \notin d.legacy
    <3>1. General(o) = s \/ Pending(u, General(o))
      BY <1>0, <1>5 DEF Carries
    <3> QED
      BY <1>1, <1>4, <2>1, <3>1 DEF BackfillsProject
  <2>2. CASE o \in d.legacy
    <3>1. (General(o) = s /\ Pending(u, AttachLegacy(o))) \/ PendingPair(u, General(o), AttachLegacy(o))
      BY <1>0, <1>5, <2>2 DEF Carries
    <3>2. PendingPair(u, General(o), AttachLegacy(o)) => Pending(u, General(o))
      BY PairIsPending
    <3> QED
      BY <1>1, <1>4, <3>1, <3>2 DEF BackfillsProject
  <2> QED
    BY <2>1, <2>2
<1>6. CASE o \in d.general /\ (o \in d.legacy => Pending(t, AttachLegacy(o)) \/ o \in d.sources)
  <2>1. Pending(t, AttachLegacy(o)) => AttachLegacy(o) = s \/ Pending(u, AttachLegacy(o))
    BY <1>0 DEF Carries
  <2>2. AttachLegacy(o) = s => o \in e.sources
    BY <1>0, <1>3, <1>6 DEF ProjectProgress
  <2> QED
    BY <1>1, <1>6, <2>1, <2>2 DEF BackfillsProject
<1> QED
  BY <1>2, <1>5, <1>6 DEF BackfillsProject

-----------------------------------------------------------------------------
(* The allowlists.                                                         *)

AllowTo(o, value) == [do |-> "allow", org |-> o, value |-> value]
OwnList(d, o) == IF o \in d.legacy THEN "legacy" ELSE "empty"

LEMMA AllowlistHas ==
    ASSUME NEW o \in Organizations, NEW d
    PROVE  /\ SeedAllowlist(d, o) = <<AllowTo(o, OwnList(d, o))>>
           /\ SeedAllowlist(d, o) \in Seq(Statements)
           /\ Pending(SeedAllowlist(d, o), AllowTo(o, OwnList(d, o)))
           /\ AllowTo(o, OwnList(d, o)).do = "allow" /\ AllowTo(o, OwnList(d, o)).org = o
           /\ AllowTo(o, OwnList(d, o)).value = OwnList(d, o)
<1> DEFINE v == OwnList(d, o)
           x == AllowTo(o, v)
<1>1. SeedAllowlist(d, o) = <<x>>
  BY DEF SeedAllowlist, AllowTo, OwnList
<1>2. v = "legacy" \/ v = "empty"
  BY DEF OwnList
<1> HIDE DEF v
<1>3. x \in Statements
  BY <1>2, RoundStatements DEF AllowTo
<1>4. x.do = "allow" /\ x.org = o /\ x.value = v
  BY DEF AllowTo
<1> HIDE DEF x
<1>5. <<x>> \in Seq(Statements) /\ Pending(<<x>>, x)
  BY <1>3, PendingInOne
<1> QED
  BY <1>1, <1>4, <1>5 DEF x, v

Allowing(t, o) == \E x : Pending(t, x) /\ x.do = "allow" /\ x.org = o

LEMMA SeedsBySet ==
    ASSUME NEW t, NEW d, NEW o
    PROVE  SeedsAllowlist(t, d, o) <=>
              WillVisit(t, o, "seed allowlists") \/ Allowing(t, o) \/ d.allowed[o] = "legacy"
BY DEF SeedsAllowlist, Allowing, Pending

LEMMA AllowlistAdvances ==
    ASSUME NEW t, NEW d, NEW e, NEW u, Sends(46, t, d, e, u), AllowsOwn(Head(t), d),
           NEW o \in d.orgs, o \in d.legacy, SeedsAllowlist(t, d, o)
    PROVE  SeedsAllowlist(u, e, o)
<1> DEFINE s == Head(t)
           f == Following(s, d)
<1>0. /\ RowsStep(46, s, d, e) /\ s \in Statements /\ d.orgs \subseteq Organizations
      /\ s.do \notin {"unless", "if one of"} => SentBy(s, 46, d.orgs)
      /\ Contains(u, f) /\ Carries(t, u) /\ d.allowed[o] # "empty"
      /\ d.allowed \in [Organizations -> {"unset", "legacy", "empty"}]
  <2>1. d.orgs \subseteq Organizations
    BY RolesOfStep DEF RolesTyped
  <2>2. ProjectsKeep(46, s, d, e) /\ LastingProjects(d)
    BY ProjectsOfStep
  <2>3. d.allowed \in [Organizations -> {"unset", "legacy", "empty"}]
    BY DEF Sends, Sound, IsDatabase
  <2>4. d.allowed[o] # "empty"
    BY <2>2 DEF LastingProjects
  <2> QED
    BY <2>1, <2>2, <2>3, <2>4, ProjectsOfStep DEF Sends, ProjectsKeep
<1>1. e.allowed[o] = IF s.do = "allow" /\ s.org = o THEN s.value ELSE d.allowed[o]
  BY <1>0 DEF RowsStep
<1>2. s.do = "allow" /\ s.org = o => e.allowed[o] = "legacy"
  BY <1>1 DEF AllowsOwn
<1>3. d.allowed[o] = "legacy" => e.allowed[o] = "legacy"
  BY <1>1, <1>2
<1>4. CASE WillVisit(t, o, "seed allowlists")
  <2>1. PICK x : Pending(t, x) /\ (x.do = "seed allowlists" \/ (x.do = "for each" /\ o \in x.orgs))
    BY <1>4, WillBySet
  <2>2. CASE Pending(u, x)
    <3>1. WillVisit(u, o, "seed allowlists")
      BY <2>1, <2>2, WillBySet
    <3> QED
      BY <3>1, SeedsBySet
  <2>3. CASE s.do = "seed allowlists"
    <3> DEFINE S == {p \in d.orgs : d.allowed[p] = "unset"}
               b == Loop("allow", S, {})
    <3>1. f = b
      BY <2>3 DEF Following
    <3>2. S \subseteq Organizations
      BY <1>0
    <3>3. LoopsOver(b, "allow", S)
      <4> HIDE DEF S
      <4> QED
        BY <3>2, LoopIsOne
    <3>4. CASE d.allowed[o] = "unset"
      <4>1. o \in S
        BY <3>4
      <4> HIDE DEF S, b, f
      <4>2. Pending(u, b[1]) /\ b[1].do = "for each" /\ b[1].orgs = S
        BY <1>0, <3>1, <3>3 DEF LoopsOver, Contains
      <4>3. WillVisit(u, o, "seed allowlists")
        BY <4>1, <4>2, WillBySet
      <4> QED
        BY <4>3, SeedsBySet
    <3>5. CASE d.allowed[o] # "unset"
      <4>1. d.allowed[o] = "legacy"
        BY <1>0, <3>5
      <4> QED
        BY <1>3, <4>1, SeedsBySet
    <3> QED
      BY <3>4, <3>5
  <2>4. CASE s.do = "for each" /\ o \in s.orgs
    <3> DEFINE z == CHOOSE z \in s.orgs : TRUE
    <3>1. z \in s.orgs
      BY <2>4
    <3>2. SentBy(s, 46, d.orgs) /\ 46 \in Nat /\ (46 = 45 \/ 46 = 46)
      BY <1>0, <2>4
    <3>3. s.body = "allow" /\ s.orgs \subseteq Organizations /\ s.names \subseteq DefaultNames
      BY <1>0, <2>4, <3>2, LoopInPlan
    <3>4. LoopBody(s, z, d) = SeedAllowlist(d, z)
      BY <3>3 DEF LoopBody
    <3>5. SeedAllowlist(d, z) \in Seq(Statements)
      BY <3>1, <3>3, AllowlistHas
    <3> DEFINE rest == s.orgs \ {z}
               a == SeedAllowlist(d, z)
    <3>6. Rounds(f, a, rest, "allow")
      BY <1>0, <2>4, <3>3, <3>4, <3>5, RoundsOf
    <3> HIDE DEF z, f
    <3>7. CASE o = z
      <4> DEFINE x0 == AllowTo(o, OwnList(d, o))
      <4>1. Pending(a, x0) /\ x0.do = "allow" /\ x0.org = o
        BY <3>1, <3>3, <3>7, AllowlistHas
      <4>2. Contains(f, a)
        BY <3>6 DEF Rounds
      <4> HIDE DEF x0
      <4>3. Pending(u, x0)
        BY <1>0, <4>1, <4>2 DEF Contains
      <4> QED
        BY <4>1, <4>3, SeedsBySet DEF Allowing
    <3>8. CASE o # z
      <4>1. o \in rest
        BY <2>4, <3>8
      <4>2. WillVisit(u, o, "seed allowlists")
        BY <1>0, <3>6, <4>1, LaterRound
      <4> QED
        BY <4>2, SeedsBySet
    <3> QED
      BY <3>7, <3>8
  <2>5. x = s \/ Pending(u, x)
    BY <1>0, <2>1 DEF Carries
  <2> QED
    BY <2>1, <2>2, <2>3, <2>4, <2>5
<1>5. CASE Allowing(t, o)
  <2>1. PICK x : Pending(t, x) /\ x.do = "allow" /\ x.org = o
    BY <1>5 DEF Allowing
  <2>2. x = s \/ Pending(u, x)
    BY <1>0, <2>1 DEF Carries
  <2>3. x = s => e.allowed[o] = "legacy"
    BY <1>2, <2>1
  <2> QED
    BY <2>1, <2>2, <2>3, SeedsBySet DEF Allowing
<1> QED
  BY <1>3, <1>4, <1>5, SeedsBySet

-----------------------------------------------------------------------------
(* Every allowlist that is still to be written is the organization's own.  *)

AllAllowOwn(t, d) == \A x : Pending(t, x) => AllowsOwn(x, d)

LEMMA AllowBySet == \A t, d : AllAllowOwn(t, d) <=> \A k \in DOMAIN t : AllowsOwn(t[k], d)
BY DEF AllAllowOwn, Pending

LEMMA JoinHasNoMore ==
    ASSUME NEW S, NEW f \in Seq(S), NEW g \in Seq(S), NEW x, Pending(f \o g, x)
    PROVE  Pending(f, x) \/ Pending(g, x)
<1> DEFINE u == f \o g
<1>1. /\ u \in Seq(S) /\ Len(u) = Len(f) + Len(g) /\ Len(f) \in Nat /\ Len(g) \in Nat
      /\ \A k \in 1 .. Len(f) : u[k] = f[k]
      /\ \A k \in 1 .. Len(g) : u[Len(f) + k] = g[k]
  OBVIOUS
<1>2. Pending(u, x)
  OBVIOUS
<1> HIDE DEF u
<1>3. PICK k \in 1 .. Len(u) : u[k] = x
  BY <1>1, <1>2 DEF Pending
<1>4. CASE k <= Len(f)
  <2>1. k \in DOMAIN f /\ f[k] = x
    BY <1>1, <1>3, <1>4
  <2> QED
    BY <2>1 DEF Pending
<1>5. CASE ~(k <= Len(f))
  <2>1. k - Len(f) \in 1 .. Len(g) /\ Len(f) + (k - Len(f)) = k
    BY <1>1, <1>3, <1>5
  <2>2. k - Len(f) \in DOMAIN g /\ g[k - Len(f)] = x
    BY <1>1, <1>3, <2>1
  <2> QED
    BY <2>2 DEF Pending
<1> QED
  BY <1>4, <1>5

LEMMA TailHasNoMore ==
    ASSUME NEW S, NEW t \in Seq(S), t # <<>>, NEW x, Pending(Tail(t), x)
    PROVE  Pending(t, x)
<1>1. /\ Len(t) \in Nat /\ Len(t) > 0 /\ Len(Tail(t)) = Len(t) - 1 /\ Tail(t) \in Seq(S)
      /\ \A k \in 1 .. Len(t) - 1 : Tail(t)[k] = t[k + 1]
  OBVIOUS
<1>2. PICK k \in 1 .. Len(t) - 1 : Tail(t)[k] = x
  BY <1>1 DEF Pending
<1>3. k + 1 \in DOMAIN t /\ t[k + 1] = x
  BY <1>1, <1>2
<1> QED
  BY <1>3 DEF Pending

LEMMA OneIsPending ==
    ASSUME NEW x, NEW y, Pending(<<x>>, y)
    PROVE  y = x
<1>1. DOMAIN <<x>> = {1} /\ <<x>>[1] = x
  OBVIOUS
<1> QED
  BY <1>1 DEF Pending

LEMMA LoopAlone ==
    ASSUME NEW body, NEW orgs, NEW names, NEW x, Pending(Loop(body, orgs, names), x)
    PROVE  x.do # "allow"
<1> DEFINE y == [do |-> "for each", body |-> body, orgs |-> orgs, names |-> names]
<1>1. Loop(body, orgs, names) = <<y>> /\ y.do # "allow"
  BY DEF Loop
<1> HIDE DEF y
<1>2. x = y
  BY <1>1, OneIsPending
<1> QED
  BY <1>1, <1>2

LEMMA FollowingAllowsOwn ==
    ASSUME NEW i \in Nat, NEW s, NEW d, IsDatabase(d), Fits(s, i, d.orgs), NEW x, Pending(Following(s, d), x)
    PROVE  AllowsOwn(x, d)
<1> DEFINE f == Following(s, d)
<1>1. Sendable(f, i, Effect(s, d).orgs)
  BY FollowingSendable
<1>2. PICK k \in DOMAIN f : f[k] = x
  BY DEF Pending
<1> SUFFICES ASSUME x.do = "allow" PROVE AllowsOwn(x, d)
  BY DEF AllowsOwn
<1>3. i = 46
  <2>1. SentBy(x, i, Effect(s, d).orgs)
    BY <1>1, <1>2 DEF Sendable
  <2> QED
    BY <2>1 DEF SentBy
<1>4. CASE s.do \notin FollowKinds
  <2>1. f = <<>>
    BY <1>4 DEF Following, FollowKinds
  <2> QED
    BY <2>1, NothingPending
<1>5. CASE s.do = "organizations"
  <2>1. f = Loop("sync", d.orgs, s.names)
    BY <1>5 DEF Following
  <2> QED
    BY <2>1, LoopAlone
<1>6. CASE s.do = "redesign organizations"
  <2>1. f = Loop("redesign", d.orgs, {})
    BY <1>6 DEF Following
  <2> QED
    BY <2>1, LoopAlone
<1>7. CASE s.do = "backfill organizations"
  <2>1. f = Loop("backfill", d.orgs, {})
    BY <1>7 DEF Following
  <2> QED
    BY <2>1, LoopAlone
<1>8. CASE s.do = "seed allowlists"
  <2> DEFINE S == {o \in d.orgs : d.allowed[o] = "unset"}
  <2>1. f = Loop("allow", S, {})
    BY <1>8 DEF Following
  <2> QED
    BY <2>1, LoopAlone
<1>9. CASE s.do = "for each"
  <2>1. s.orgs = {} => f = <<>>
    BY <1>9 DEF Following
  <2>2. s.orgs # {}
    BY <2>1, NothingPending
  <2> DEFINE z == CHOOSE z \in s.orgs : TRUE
             rest == s.orgs \ {z}
             a == SeedAllowlist(d, z)
             b == Loop("allow", rest, s.names)
  <2>3. z \in s.orgs
    BY <2>2
  <2>4. SentBy(s, i, d.orgs) /\ s \in Statements
    BY <1>9 DEF Fits
  <2>5. s.body = "allow" /\ s.orgs \subseteq Organizations /\ s.names \subseteq DefaultNames
    BY <1>3, <1>9, <2>4, LoopInPlan
  <2>6. f = a \o b
    BY <1>9, <2>2, <2>5 DEF Following, Unroll, LoopBody
  <2>7. z \in Organizations /\ rest \subseteq Organizations
    BY <2>3, <2>5
  <2> HIDE DEF z
  <2>8. a \in Seq(Statements)
    BY <2>7, AllowlistHas
  <2>9. b \in Seq(Statements)
    <3>1. LoopsOver(b, "allow", rest)
      <4> HIDE DEF rest
      <4> QED
        BY <2>5, <2>7, LoopIsOne
    <3> QED
      BY <3>1 DEF LoopsOver
  <2>10. Pending(a, x) \/ Pending(b, x)
    <3> HIDE DEF a, b
    <3>1. Pending(a \o b, x)
      BY <2>6
    <3> QED
      BY <2>8, <2>9, <3>1, JoinHasNoMore
  <2>11. ~Pending(b, x)
    BY LoopAlone
  <2>12. x = AllowTo(z, OwnList(d, z))
    BY <2>7, <2>10, <2>11, AllowlistHas, OneIsPending
  <2>13. x.org = z /\ x.value = OwnList(d, z)
    BY <2>7, <2>12, AllowlistHas
  <2> QED
    BY <2>13 DEF AllowsOwn, OwnList
<1>10. CASE s.do = "seed organization"
  <2> DEFINE y == [do |-> "seed roles"]
  <2>1. f = IF Default \in d.orgs THEN <<>> ELSE <<y>>
    BY <1>10 DEF Following, Sql
  <2>2. y.do # "allow"
    OBVIOUS
  <2> HIDE DEF y
  <2>3. f = <<>> \/ f = <<y>>
    BY <2>1
  <2>4. x = y
    BY <2>3, NothingPending, OneIsPending
  <2> QED
    BY <2>2, <2>4
<1>11. CASE s.do \in {"unless", "if one of"}
  <2>1. s \in Conditional
    BY <1>11 DEF Fits, Statements, Simple, Ddl, UserStatements, RoleStatements, ProjectStatements, TableDrops, Loops
  <2>2. s.then \in Seq(Ddl \cup TableDrops)
    BY <2>1 DEF Conditional
  <2>3. f = <<>> \/ f = s.then
    BY <1>11 DEF Following
  <2>4. f = s.then
    BY <2>3, NothingPending
  <2>5. x \in Ddl \cup TableDrops
    BY <1>2, <2>2, <2>4
  <2> QED
    BY <2>5 DEF Ddl, TableDrops
<1> QED
  BY <1>4, <1>5, <1>6, <1>7, <1>8, <1>9, <1>10, <1>11 DEF FollowKinds

\* What a node has to send after the first statement of t.
Replaced(t, d, u) ==
    /\ t \in Seq(Statements) /\ t # <<>> /\ Tail(t) \in Seq(Statements)
    /\ Following(Head(t), d) \in Seq(Statements) /\ u \in Seq(Statements)
    /\ u = Following(Head(t), d) \o Tail(t)

LEMMA AllowancesAdvance ==
    ASSUME NEW i, NEW t, NEW d, NEW e, NEW u, Sends(i, t, d, e, u), Replaced(t, d, u), AllAllowOwn(t, d)
    PROVE  AllAllowOwn(u, e)
<1>1. e.legacy = d.legacy
  <2>1. ProjectsKeep(i, Head(t), d, e)
    BY ProjectsOfStep
  <2> QED
    BY <2>1 DEF ProjectsKeep
<1>2. IsDatabase(d) /\ i \in Nat /\ Fits(Head(t), i, d.orgs)
  BY DEF Sends, Sound
<1> SUFFICES ASSUME NEW x, Pending(u, x) PROVE AllowsOwn(x, e)
  BY DEF AllAllowOwn
<1> DEFINE f == Following(Head(t), d)
           g == Tail(t)
<1>3. Pending(f, x) => AllowsOwn(x, d)
  BY <1>2, FollowingAllowsOwn
<1>4. Pending(g, x) => AllowsOwn(x, d)
  BY TailHasNoMore DEF Replaced, AllAllowOwn
<1>5. f \in Seq(Statements) /\ g \in Seq(Statements) /\ u = f \o g
  BY DEF Replaced
<1> HIDE DEF f, g
<1>6. Pending(f, x) \/ Pending(g, x)
  <2>1. Pending(f \o g, x)
    BY <1>5
  <2> QED
    BY <1>5, <2>1, JoinHasNoMore
<1> QED
  BY <1>1, <1>3, <1>4, <1>6 DEF AllowsOwn

-----------------------------------------------------------------------------
(* vector_db_002: the column that is dropped comes back.                   *)

LastButOne == AddSchemaImprovements[7]
Last == AddSchemaImprovements[8]

LEMMA TwoLast ==
    /\ LastButOne = Alter({"org_vector_db.status_error_new"}, {"org_vector_db.status_error"},
                          {"org_vector_db.status_error_new"})[1]
    /\ Last = Alter({"org_vector_db"}, {"org_vector_db.version"}, {})[1]
BY DEF LastButOne, Last, AddSchemaImprovements, Alter

LEMMA TwoLastEffects ==
    ASSUME NEW s, NEW d, NEW e, ProjectProgress(s, d, e)
    PROVE  /\ s = LastButOne => "org_vector_db.status_error" \in e.schema /\ Following(s, d) = <<>>
           /\ s = Last => Following(s, d) = <<>>
           /\ s = Last /\ "org_vector_db.status_error" \in d.schema => "org_vector_db.status_error" \in e.schema
<1>1. LastButOne.do = "alter" /\ LastButOne.adds = {"org_vector_db.status_error"}
  BY TwoLast DEF Alter
<1>2. Last.do = "alter" /\ Last.drops = {}
  BY TwoLast DEF Alter
<1>3. s.do = "alter" => Following(s, d) = <<>>
  BY DEF Following
<1>4. s.do = "alter" => e.schema = (d.schema \ s.drops) \cup s.adds
  BY DEF ProjectProgress
<1> QED
  BY <1>1, <1>2, <1>3, <1>4

LEMMA EndOfJoin ==
    ASSUME NEW S, NEW f \in Seq(S), NEW t \in Seq(S), t # <<>>, NEW u, u = f \o Tail(t)
    PROVE  /\ Len(t) > 2 => Len(u) > 1 /\ u[Len(u)] = t[Len(t)] /\ u[Len(u) - 1] = t[Len(t) - 1]
           /\ f = <<>> => u = Tail(t)
<1>1. /\ Tail(t) \in Seq(S) /\ Len(t) \in Nat /\ Len(t) > 0 /\ Len(Tail(t)) = Len(t) - 1 /\ Len(f) \in Nat
      /\ \A k \in 1 .. Len(t) - 1 : Tail(t)[k] = t[k + 1]
  OBVIOUS
<1>2. /\ Len(u) = Len(f) + (Len(t) - 1)
      /\ \A k \in 1 .. Len(t) - 1 : u[Len(f) + k] = Tail(t)[k]
  BY <1>1
<1>3. f = <<>> => u = Tail(t)
  BY <1>1
<1>4. ASSUME Len(t) > 2
      PROVE  Len(u) > 1 /\ u[Len(u)] = t[Len(t)] /\ u[Len(u) - 1] = t[Len(t) - 1]
  <2>1. /\ Len(t) - 1 \in 1 .. Len(t) - 1 /\ Len(t) - 2 \in 1 .. Len(t) - 1
        /\ Len(f) + (Len(t) - 1) = Len(u) /\ Len(f) + (Len(t) - 2) = Len(u) - 1
        /\ (Len(t) - 1) + 1 = Len(t) /\ (Len(t) - 2) + 1 = Len(t) - 1 /\ Len(u) > 1
    BY <1>1, <1>2, <1>4
  <2>2. u[Len(f) + (Len(t) - 1)] = Tail(t)[Len(t) - 1] /\ u[Len(f) + (Len(t) - 2)] = Tail(t)[Len(t) - 2]
    BY <1>2, <2>1
  <2>3. Tail(t)[Len(t) - 1] = t[(Len(t) - 1) + 1] /\ Tail(t)[Len(t) - 2] = t[(Len(t) - 2) + 1]
    BY <1>1, <2>1
  <2> QED
    BY <2>1, <2>2, <2>3
<1> QED
  BY <1>3, <1>4

LEMMA TwoLong ==
    ASSUME NEW S, NEW t \in Seq(S), Len(t) = 2
    PROVE  Head(t) = t[1] /\ Tail(t) = <<t[2]>>
<1>0. t # <<>> /\ 2 \in 1 .. Len(t)
  OBVIOUS
<1>a. t[2] \in S
  BY <1>0, ElementOfSeq
<1>b. Len(Tail(t)) = Len(t) - 1 /\ Tail(t) \in Seq(S) /\ \A k \in 1 .. Len(Tail(t)) : Tail(t)[k] = t[k + 1]
  BY <1>0, HeadTailProperties
<1>c. Len(Tail(t)) = 1
  <2>1. Len(Tail(t)) = 2 - 1
    BY <1>b, Zenon
  <2> QED
    BY ONLY <2>1
<1>1. t # <<>> /\ Tail(t) \in Seq(S) /\ Len(Tail(t)) = 1 /\ t[2] \in S
      /\ \A k \in 1 .. 1 : Tail(t)[k] = t[k + 1]
  BY <1>0, <1>a, <1>b, <1>c, Zenon
<1>2. 1 \in 1 .. 1 /\ 1 + 1 = 2
  OBVIOUS
<1>3. Tail(t)[1] = t[2]
  BY <1>1, <1>2
<1> DEFINE x == t[2]
<1>4. <<x>> \in Seq(S) /\ Len(<<x>>) = 1 /\ <<x>>[1] = x
  BY <1>1
<1>5. \A k \in 1 .. 1 : Tail(t)[k] = <<x>>[k]
  BY <1>3, <1>4
<1>6. Tail(t) = <<x>>
  BY <1>1, <1>4, <1>5, SeqEqual
<1> QED
  BY <1>1, <1>6

LEMMA StatusErrorAdvances ==
    ASSUME NEW t, NEW d, NEW e, NEW u, Sends(39, t, d, e, u), Replaced(t, d, u), RestoresStatusError(t, d)
    PROVE  RestoresStatusError(u, e)
<1> DEFINE f == Following(Head(t), d)
<1>0. /\ t \in Seq(Statements) /\ t # <<>> /\ Len(t) \in Nat /\ Len(t) > 0
      /\ f \in Seq(Statements) /\ u = f \o Tail(t) /\ ProjectProgress(Head(t), d, e)
  BY DEF Replaced, Sends
<1> HIDE DEF f
<1>1. /\ Len(t) > 2 => Len(u) > 1 /\ u[Len(u)] = t[Len(t)] /\ u[Len(u) - 1] = t[Len(t) - 1]
      /\ f = <<>> => u = Tail(t)
  BY <1>0, EndOfJoin
<1>2. /\ Head(t) = LastButOne => "org_vector_db.status_error" \in e.schema /\ f = <<>>
      /\ Head(t) = Last => f = <<>>
      /\ Head(t) = Last /\ "org_vector_db.status_error" \in d.schema => "org_vector_db.status_error" \in e.schema
  BY <1>0, TwoLastEffects DEF f
<1>3. CASE Len(t) > 1 /\ t[Len(t)] = Last /\ t[Len(t) - 1] = LastButOne
  <2>1. CASE Len(t) > 2
    BY <1>1, <1>3, <2>1 DEF RestoresStatusError, Last, LastButOne
  <2>2. CASE ~(Len(t) > 2)
    <3>1. Len(t) = 2
      <4>1. Len(t) \in Nat
        BY <1>0
      <4>2. Len(t) > 1
        BY <1>3
      <4>3. \A n \in Nat : n > 1 /\ ~(n > 2) => n = 2
        OBVIOUS
      <4> QED
        BY <2>2, <4>1, <4>2, <4>3, Zenon
    <3>4. t[2] = Last
      BY <1>3, <3>1
    <3>5. t[1] = LastButOne
      BY <1>3, <3>1
    <3>2. Head(t) = LastButOne /\ Tail(t) = <<Last>>
      BY <1>0, <3>1, <3>4, <3>5, TwoLong
    <3>3. u = <<Last>> /\ "org_vector_db.status_error" \in e.schema
      BY <1>1, <1>2, <3>2
    <3> QED
      BY <3>3 DEF RestoresStatusError, Last
  <2> QED
    BY <2>1, <2>2
<1>4. CASE t \in {<<>>, <<Last>>} /\ "org_vector_db.status_error" \in d.schema
  <2>1. t = <<Last>>
    BY <1>0, <1>4
  <2>2. Head(t) = Last /\ Tail(t) = <<>>
    BY <2>1
  <2>3. u = <<>> /\ "org_vector_db.status_error" \in e.schema
    BY <1>1, <1>2, <1>4, <2>2
  <2> QED
    BY <2>3 DEF RestoresStatusError
<1> QED
  BY <1>3, <1>4 DEF RestoresStatusError, Last, LastButOne

LEMMA ProjectsAdvances ==
    ASSUME NEW i, NEW t, NEW d, NEW e, NEW u, Sends(i, t, d, e, u), Replaced(t, d, u), ProjectsAdvance(i, t, d)
    PROVE  ProjectsAdvance(i, u, e)
<1>0. u \in Seq(Statements) /\ AllAllowOwn(t, d)
  BY AllowBySet DEF Replaced, ProjectsAdvance
<1>1. i = 39 => RestoresStatusError(u, e)
  BY StatusErrorAdvances DEF ProjectsAdvance
<1>2. i = 43 => \/ Starting(i, u) \/ Pending(u, Alter({"project"}, {"project name unique"}, {})[1])
                \/ ("project" \in e.schema => "project name unique" \in e.schema)
  <2>1. i = 43 => Starting(43, t) \/ Pending(t, NameConstraint[1]) \/ NamesUnique(d)
    BY DEF ProjectsAdvance, NameConstraint, NamesUnique
  <2>2. i = 43 => Pending(u, NameConstraint[1]) \/ NamesUnique(e)
    BY <2>1, ConstraintAdvances
  <2> QED
    BY <2>2 DEF NameConstraint, NamesUnique
<1>m. \A o \in e.orgs : HasMembers(e, o) => HasMembers(d, o) /\ o \in d.orgs
  <2>1. ProjectsKeep(i, Head(t), d, e)
    BY ProjectsOfStep
  <2> QED
    BY <2>1 DEF ProjectsKeep
<1>l. e.legacy = d.legacy
  <2>1. ProjectsKeep(i, Head(t), d, e)
    BY ProjectsOfStep
  <2> QED
    BY <2>1 DEF ProjectsKeep
<1>3. i = 45 => \A o \in e.orgs : HasMembers(e, o) => BackfillsProject(u, e, o)
  <2> SUFFICES ASSUME i = 45, NEW o \in e.orgs, HasMembers(e, o) PROVE BackfillsProject(u, e, o)
    OBVIOUS
  <2>1. o \in d.orgs /\ HasMembers(d, o)
    BY <1>m
  <2>2. BackfillsProject(t, d, o) /\ Sends(45, t, d, e, u)
    BY <2>1 DEF ProjectsAdvance
  <2> QED
    BY <1>0, <2>1, <2>2, ProjectAdvances
<1>4. i = 46 => \A o \in e.orgs \cap e.legacy : HasMembers(e, o) => SeedsAllowlist(u, e, o)
  <2> SUFFICES ASSUME i = 46, NEW o \in e.orgs, o \in e.legacy, HasMembers(e, o) PROVE SeedsAllowlist(u, e, o)
    OBVIOUS
  <2>1. o \in d.orgs /\ o \in d.legacy /\ HasMembers(d, o)
    BY <1>l, <1>m
  <2>2. SeedsAllowlist(t, d, o) /\ Sends(46, t, d, e, u)
    BY <2>1 DEF ProjectsAdvance
  <2>3. AllowsOwn(Head(t), d)
    <3>1. t \in Seq(Statements) /\ t # <<>>
      BY DEF Replaced
    <3>2. 1 \in DOMAIN t /\ Head(t) = t[1]
      BY <3>1
    <3> QED
      BY <3>2 DEF ProjectsAdvance
  <2> QED
    BY <2>1, <2>2, <2>3, AllowlistAdvances
<1>5. \A k \in DOMAIN u : AllowsOwn(u[k], e)
  BY <1>0, AllowancesAdvance, AllowBySet
<1>6. i = 47 => Starting(i, u) \/ "project_data_source" \in e.schema
  BY SourcesAdvance DEF ProjectsAdvance
<1>7. i = 50 => Starting(i, u) \/ {"project", "conversation.project_id"} \subseteq e.schema
  BY ProjectIdAdvances DEF ProjectsAdvance
<1>8. i = 51 => Starting(i, u) \/ \A o \in e.orgs : InGeneral(e, o)
  BY ConversationsAdvance DEF ProjectsAdvance
<1>9. i = 52 => Starting(i, u) \/ Required(e)
  BY RequirementAdvances DEF ProjectsAdvance
<1> QED
  BY <1>1, <1>2, <1>3, <1>4, <1>5, <1>6, <1>7, <1>8, <1>9 DEF ProjectsAdvance

-----------------------------------------------------------------------------
(* A migration begins.                                                     *)

LEMMA RolesBegin ==
    ASSUME NEW i \in DOMAIN BootPlan, NEW d
    PROVE  RolesAdvance(i, BootPlan[i].up, d)
<1> DEFINE t == BootPlan[i].up
           name == BootPlan[i].name
<1>1. Starting(i, t)
  BY DEF Starting
<1>2. Family(name) # {} => FamilyBegins(i, name)
  BY FamiliesBegin
<1>3. GivesFamily(i, t, d)
  <2>1. Pending(t, GrantSuperadmin(Family(name))[1]) \/ HoldsFamily(d, name)
    BY <1>2 DEF FamilyBegins, Begun, HoldsFamily
  <2> QED
    BY <1>1, <2>1 DEF GivesFamily
<1>4. GivesHeirs(i, t, d)
  <2> SUFFICES ASSUME NEW holding \in {CanUpdate, CanRead}
               PROVE  \/ Pending(t, Inherit(holding, Heirs(name, holding))[1])
                      \/ Inherited(d, name, holding)
    BY DEF GivesHeirs
  <2>1. CASE Heirs(name, holding) = {}
    BY <2>1 DEF Inherited
  <2>2. CASE Heirs(name, holding) # {}
    <3>1. Family(name) # {}
      BY <2>2, HeirsOf
    <3> QED
      BY <1>2, <2>2, <3>1 DEF FamilyBegins
  <2> QED
    BY <2>1, <2>2
<1>5. i = 18 => GivesSuperadmin(t, d)
  BY RedesignBegins DEF SuperadminBegins, GivesSuperadmin
<1>6. i = 27 => Pending(t, Unregister(On("organization", {"manage-members"}))[2])
  BY PhantomsBegin
<1>7. i = 35 => SyncsDefaults(t, d)
  <2> SUFFICES ASSUME i = 35, NEW r, NEW how PROVE WillSync(t, r, how)
    BY DEF SyncsDefaults
  <2> DEFINE x == SyncOrganizations(DefaultNames)[1]
  <2>1. x.do = "organizations"
    BY DEF SyncOrganizations
  <2>2. Pending(t, x)
    BY SyncBegins
  <2> HIDE DEF x, t
  <2>3. Syncs(x, r, how)
    BY <2>1 DEF Syncs
  <2> QED
    BY <2>2, <2>3, WillBySet
<1> HIDE DEF t
<1>8. RolesAdvance(i, t, d)
  BY <1>1, <1>3, <1>4, <1>5, <1>6, <1>7 DEF RolesAdvance
<1> QED
  BY <1>8 DEF t

LEMMA ProjectsBeginAll ==
    ASSUME NEW i \in DOMAIN BootPlan
    PROVE  ProjectsAdvance(i, BootPlan[i].up, db)
<1> DEFINE t == BootPlan[i].up
<1>1. Starting(i, t)
  BY DEF Starting
<1>2. i = 39 => RestoresStatusError(t, db)
  BY ProjectsBegin
<1>v. ASSUME NEW what, t = <<[do |-> what]>>, NEW o
      PROVE  WillVisit(t, o, what)
  <2> DEFINE x == [do |-> what]
  <2>1. x.do = what
    OBVIOUS
  <2>2. t = <<x>>
    BY <1>v
  <2> HIDE DEF x, t
  <2>3. Pending(t, x)
    BY <2>2, PendingInOne
  <2> QED
    BY <2>1, <2>3, WillBySet
<1>3. i = 45 => \A o \in db.orgs : HasMembers(db, o) => BackfillsProject(t, db, o)
  <2>1. i = 45 => t = <<[do |-> "backfill organizations"]>>
    BY ProjectsBegin
  <2> HIDE DEF t
  <2> QED
    BY <1>v, <2>1 DEF BackfillsProject
<1>4. i = 46 => \A o \in db.orgs \cap db.legacy : HasMembers(db, o) => SeedsAllowlist(t, db, o)
  <2>1. i = 46 => t = <<[do |-> "seed allowlists"]>>
    BY ProjectsBegin
  <2> HIDE DEF t
  <2> QED
    BY <1>v, <2>1 DEF SeedsAllowlist
<1>5. \A k \in DOMAIN t : AllowsOwn(t[k], db)
  <2> SUFFICES ASSUME NEW k \in DOMAIN t, t[k].do = "allow" PROVE FALSE
    BY DEF AllowsOwn
  <2>1. Sendable(t, i, {})
    BY PlanSendable
  <2>2. SentBy(t[k], i, {})
    BY <2>1 DEF Sendable
  <2>3. i = 46
    BY <2>2 DEF SentBy
  <2>4. t = <<[do |-> "seed allowlists"]>>
    BY <2>3, ProjectsBegin
  <2> DEFINE x == [do |-> "seed allowlists"]
  <2>5. x.do # "allow"
    OBVIOUS
  <2>6. t = <<x>>
    BY <2>4
  <2>7. Pending(t, t[k])
    BY DEF Pending
  <2> HIDE DEF x, t
  <2>8. t[k] = x
    BY <2>6, <2>7, OneIsPending
  <2> QED
    BY <2>5, <2>8
<1> HIDE DEF t
<1>6. ProjectsAdvance(i, t, db)
  BY <1>1, <1>2, <1>3, <1>4, <1>5 DEF ProjectsAdvance
<1> QED
  BY <1>6 DEF t

-----------------------------------------------------------------------------
(* A migration with nothing left to send has done what it is recorded for. *)

RolesDone(i, d) ==
    /\ i = 13 => Base \subseteq d.catalog
    /\ i = 18 => NoPlatformDefaults(d) /\ HasSuperadmin(d)
    /\ i = 27 => <<"organization", "manage-members">> \notin d.catalog
    /\ HoldsFamily(d, BootPlan[i].name)
    /\ Inherited(d, BootPlan[i].name, CanUpdate) /\ Inherited(d, BootPlan[i].name, CanRead)
    /\ i = 35 => \A r \in DefaultRowsOf(d) : d.grants[r] = DefaultsOf(r[2])

LEMMA NothingToSync == \A r, how : ~WillSync(<<>>, r, how)
BY NothingPending, WillBySet

LEMMA RolesFinish ==
    ASSUME NEW i \in Nat, NEW d, RolesAdvance(i, <<>>, d)
    PROVE  RolesDone(i, d)
<1>1. i = 13 => Base \subseteq d.catalog
  BY BaseBegins DEF RolesAdvance, Starting
<1>2. i = 18 => GivesSuperadmin(<<>>, d)
  BY DEF RolesAdvance
<1>3. i = 18 => NoPlatformDefaults(d) /\ HasSuperadmin(d)
  BY <1>2, NothingPending DEF GivesSuperadmin
<1>4. i = 27 => <<"organization", "manage-members">> \notin d.catalog
  BY NothingPending DEF RolesAdvance
<1>5. GivesFamily(i, <<>>, d) /\ GivesHeirs(i, <<>>, d)
  BY DEF RolesAdvance
<1>6. HoldsFamily(d, BootPlan[i].name)
  BY <1>5, NothingPending DEF GivesFamily
<1>7. Inherited(d, BootPlan[i].name, CanUpdate) /\ Inherited(d, BootPlan[i].name, CanRead)
  BY <1>5, NothingPending DEF GivesHeirs
<1>8. i = 35 => \A r \in DefaultRowsOf(d) : d.grants[r] = DefaultsOf(r[2])
  <2>1. i = 35 => SyncsDefaults(<<>>, d)
    BY DEF RolesAdvance
  <2> QED
    BY <2>1, NothingToSync DEF SyncsDefaults
<1> QED
  BY <1>1, <1>3, <1>4, <1>6, <1>7, <1>8 DEF RolesDone

ProjectsDone(i, d) ==
    /\ i = 39 => "org_vector_db.status_error" \in d.schema
    /\ i = 43 => ("project" \in d.schema => "project name unique" \in d.schema)
    /\ i = 45 => \A o \in d.orgs : HasGeneral(d, o)
    /\ i = 46 => \A o \in d.orgs : HasAllowlist(d, o)
    /\ i = 47 => "project_data_source" \in d.schema
    /\ i = 50 => {"project", "conversation.project_id"} \subseteq d.schema
    /\ i = 51 => \A o \in d.orgs : InGeneral(d, o)
    /\ i = 52 => Required(d)

LEMMA NothingStarts ==
    \A x, y : <<x>> # <<>> /\ UnlessHas(x, y) # <<>>
BY DEF UnlessHas

LEMMA ProjectsStart ==
    /\ ~Starting(43, <<>>) /\ ~Starting(47, <<>>) /\ ~Starting(50, <<>>)
    /\ ~Starting(51, <<>>) /\ ~Starting(52, <<>>)
BY ProjectsBegin, TwoIndexes, NothingStarts DEF Starting

LEMMA NothingToVisit ==
    /\ \A o, what : ~WillVisit(<<>>, o, what)
    /\ ~(\E k \in DOMAIN <<>> : TRUE)
    /\ ~(Len(<<>>) > 1)
<1>1. \A o, what : ~WillVisit(<<>>, o, what)
  BY NothingPending, WillBySet
<1>2. ~(\E k \in DOMAIN <<>> : TRUE)
  OBVIOUS
<1>3. ~(Len(<<>>) > 1)
  OBVIOUS
<1> QED
  BY <1>1, <1>2, <1>3

LEMMA ProjectsFinish ==
    ASSUME NEW i \in Nat, NEW d, ProjectsAdvance(i, <<>>, d)
    PROVE  ProjectsDone(i, d)
<1>1. i = 39 => "org_vector_db.status_error" \in d.schema
  <2>1. i = 39 => RestoresStatusError(<<>>, d)
    BY DEF ProjectsAdvance
  <2> QED
    BY <2>1, NothingToVisit DEF RestoresStatusError
<1>2. i = 43 => ("project" \in d.schema => "project name unique" \in d.schema)
  BY ProjectsStart, NothingPending DEF ProjectsAdvance
<1>3. i = 45 => \A o \in d.orgs : HasGeneral(d, o)
  <2>1. i = 45 => \A o \in d.orgs : HasMembers(d, o) => BackfillsProject(<<>>, d, o)
    BY DEF ProjectsAdvance
  <2> QED
    BY <2>1, NothingPending, NothingToVisit DEF BackfillsProject, HasGeneral
<1>4. i = 46 => \A o \in d.orgs : HasAllowlist(d, o)
  <2>1. i = 46 => \A o \in d.orgs \cap d.legacy : HasMembers(d, o) => SeedsAllowlist(<<>>, d, o)
    BY DEF ProjectsAdvance
  <2> QED
    BY <2>1, NothingToVisit DEF SeedsAllowlist, HasAllowlist
<1>5. i = 47 => "project_data_source" \in d.schema
  BY ProjectsStart DEF ProjectsAdvance
<1>6. i = 50 => {"project", "conversation.project_id"} \subseteq d.schema
  BY ProjectsStart DEF ProjectsAdvance
<1>7. i = 51 => \A o \in d.orgs : InGeneral(d, o)
  BY ProjectsStart DEF ProjectsAdvance
<1>8. i = 52 => Required(d)
  BY ProjectsStart DEF ProjectsAdvance
<1> QED
  BY <1>1, <1>2, <1>3, <1>4, <1>5, <1>6, <1>7, <1>8 DEF ProjectsDone

-----------------------------------------------------------------------------
(* Recording a migration.                                                  *)

Records(i, d, e) ==
    /\ i \in 1 .. 54 /\ IsDatabase(d) /\ IsDatabase(e)
    /\ e = [d EXCEPT !.recorded = @ \cup {BootPlan[i].name}]

\* what recording leaves as it is
OnlyRecords(i, d, e) ==
    /\ \A x : Has(e, x) <=> Has(d, x) \/ x = BootPlan[i].name
    /\ e.schema = d.schema /\ e.catalog = d.catalog /\ e.grants = d.grants /\ e.orgs = d.orgs
    /\ e.memberRole = d.memberRole /\ e.legacy = d.legacy /\ e.allowed = d.allowed
    /\ e.general = d.general /\ e.sources = d.sources /\ e.inProject = d.inProject

LEMMA RecordsOnly ==
    ASSUME NEW i, NEW d, NEW e, Records(i, d, e)
    PROVE  OnlyRecords(i, d, e)
<1> DEFINE name == BootPlan[i].name
<1> HIDE DEF name
<1>1. d = [recorded |-> d.recorded, schema |-> d.schema, catalog |-> d.catalog, grants |-> d.grants,
            orgs |-> d.orgs, userRole |-> d.userRole, roleDefault |-> d.roleDefault,
            memberRole |-> d.memberRole, approved |-> d.approved, legacy |-> d.legacy,
            allowed |-> d.allowed, general |-> d.general, sources |-> d.sources,
            inProject |-> d.inProject]
  BY DEF Records, IsDatabase
<1>2. e = [d EXCEPT !.recorded = @ \cup {name}]
  BY DEF Records, name
<1>3. /\ e.recorded = d.recorded \cup {name}
      /\ e.schema = d.schema /\ e.catalog = d.catalog /\ e.grants = d.grants /\ e.orgs = d.orgs
      /\ e.memberRole = d.memberRole /\ e.legacy = d.legacy /\ e.allowed = d.allowed
      /\ e.general = d.general /\ e.sources = d.sources /\ e.inProject = d.inProject
  BY <1>1, <1>2
<1>4. \A x : Has(e, x) <=> Has(d, x) \/ x = BootPlan[i].name
  BY <1>3 DEF Has, name
<1> QED
  BY <1>3, <1>4 DEF OnlyRecords

LEMMA OrderStays ==
    ASSUME NEW i, i \in 1 .. 54, NEW d, NEW e, OnlyRecords(i, d, e), RecordedInOrder(d), Behind(i, d)
    PROVE  RecordedInOrder(e)
<1>1. \A x : Has(e, x) <=> Has(d, x) \/ x = BootPlan[i].name
  BY DEF OnlyRecords
<1>2. ASSUME NEW j \in DOMAIN BootPlan, NEW k \in 1 .. j - 1, InOneService(k, j), Has(e, BootPlan[j].name)
      PROVE  Has(e, BootPlan[k].name)
  <2>1. CASE Has(d, BootPlan[j].name)
    BY <2>1, <1>1, <1>2 DEF RecordedInOrder
  <2>2. CASE BootPlan[j].name = BootPlan[i].name
    <3>1. j = i
      BY <2>2, NamesDiffer, NamesOfPlan
    <3>2. k \in 1 .. 54 /\ k < i
      <4>1. j \in 1 .. 54
        BY NamesOfPlan
      <4> QED
        BY <3>1, <4>1
    <3>3. Has(d, BootPlan[k].name)
      BY <3>2, NamesOfPlan DEF Behind
    <3> QED
      BY <3>3, <1>1
  <2> QED
    BY <2>1, <2>2, <1>1, <1>2
<1>3. Has(e, "chat_003") => Has(e, "projects_004")
  <2>1. CASE Has(d, "chat_003")
    BY <2>1, <1>1 DEF RecordedInOrder
  <2>2. CASE BootPlan[i].name = "chat_003"
    <3>0. 50 \in 1 .. 54 /\ 47 \in 1 .. 54 /\ 47 < 50
      OBVIOUS
    <3>1. i = 50
      BY <2>2, NamesDiffer, NamesOfPlan, <3>0
    <3>2. Has(d, BootPlan[47].name)
      BY <3>1, <3>0, NamesOfPlan DEF Behind
    <3> QED
      BY <3>2, <1>1, NamesOfPlan
  <2> QED
    BY <2>1, <2>2, <1>1
<1> QED
  BY <1>2, <1>3 DEF RecordedInOrder

\* of two migrations, the same name, the same index
LEMMA IndexOf ==
    ASSUME NEW i, i \in 1 .. 54
    PROVE  /\ BootPlan[i].name = "rbac_002" => i = 12
           /\ BootPlan[i].name = "rbac_003" => i = 13
           /\ BootPlan[i].name = "rbac_008" => i = 18
           /\ BootPlan[i].name = "rbac_017" => i = 27
           /\ BootPlan[i].name = "rbac_025" => i = 35
           /\ BootPlan[i].name = "vector_db_002" => i = 39
           /\ BootPlan[i].name = "projects_001b" => i = 43
           /\ BootPlan[i].name = "projects_002" => i = 45
           /\ BootPlan[i].name = "projects_003" => i = 46
           /\ BootPlan[i].name = "projects_004" => i = 47
           /\ BootPlan[i].name = "chat_003" => i = 50
           /\ BootPlan[i].name = "chat_004" => i = 51
           /\ BootPlan[i].name = "chat_005" => i = 52
<1>0. /\ 12 \in 1 .. 54 /\ 13 \in 1 .. 54 /\ 18 \in 1 .. 54 /\ 27 \in 1 .. 54 /\ 35 \in 1 .. 54
      /\ 39 \in 1 .. 54 /\ 43 \in 1 .. 54 /\ 45 \in 1 .. 54 /\ 46 \in 1 .. 54 /\ 47 \in 1 .. 54
      /\ 50 \in 1 .. 54 /\ 51 \in 1 .. 54 /\ 52 \in 1 .. 54
  OBVIOUS
<1>1. \A j \in 1 .. 54 : BootPlan[i].name = BootPlan[j].name => i = j
  BY NamesDiffer, NamesOfPlan
<1> QED
  BY <1>0, <1>1, NamesOfPlan

LEMMA RolesLastRecorded ==
    ASSUME NEW i, i \in 1 .. 54, NEW d, NEW e, OnlyRecords(i, d, e), LastingRoles(d), RolesDone(i, d)
    PROVE  LastingRoles(e)
<1>0. /\ \A x : Has(e, x) <=> Has(d, x) \/ x = BootPlan[i].name
      /\ e.catalog = d.catalog /\ e.grants = d.grants
  BY DEF OnlyRecords
<1>1. Has(e, "rbac_002") \/ NoOldNames(e)
  BY <1>0 DEF LastingRoles, NoOldNames
<1>2. Has(e, "rbac_003") => Base \subseteq e.catalog
  BY <1>0, IndexOf DEF LastingRoles, RolesDone
<1>3. Has(e, "rbac_008") => HasSuperadmin(e) /\ NoPlatformDefaults(e)
  BY <1>0, IndexOf DEF LastingRoles, RolesDone, HasSuperadmin, NoPlatformDefaults
<1>4. \A name \in e.recorded : HoldsFamily(e, name)
  <2>1. ASSUME NEW name, Has(e, name) PROVE HoldsFamily(d, name)
    BY <2>1, <1>0 DEF LastingRoles, RolesDone, Has
  <2> QED
    BY <2>1, <1>0 DEF HoldsFamily, Has
<1>5. Has(e, "rbac_017") => <<"organization", "manage-members">> \notin e.catalog
  BY <1>0, IndexOf DEF LastingRoles, RolesDone
<1>6. \A name \in e.recorded : Inherited(e, name, CanUpdate) /\ Inherited(e, name, CanRead)
  <2>1. ASSUME NEW name, Has(e, name) PROVE Inherited(d, name, CanUpdate) /\ Inherited(d, name, CanRead)
    BY <2>1, <1>0 DEF LastingRoles, RolesDone, Has
  <2> QED
    BY <2>1, <1>0 DEF Inherited, CustomRolesOf, Has
<1>7. \A r \in CustomRolesOf(e) : <<"embed-site", "delete">> \notin e.grants[r]
  BY <1>0 DEF LastingRoles, CustomRolesOf
<1>8. Has(e, "rbac_025") => \A r \in DefaultRowsOf(e) : e.grants[r] = DefaultsOf(r[2])
  BY <1>0, IndexOf DEF LastingRoles, RolesDone, DefaultRowsOf
<1> QED
  BY <1>1, <1>2, <1>3, <1>4, <1>5, <1>6, <1>7, <1>8 DEF LastingRoles

LEMMA ProjectsLastRecorded ==
    ASSUME NEW i, i \in 1 .. 54, NEW d, NEW e, OnlyRecords(i, d, e), LastingProjects(d), ProjectsDone(i, d)
    PROVE  LastingProjects(e)
<1>0. /\ \A x : Has(e, x) <=> Has(d, x) \/ x = BootPlan[i].name
      /\ e.schema = d.schema /\ e.orgs = d.orgs
      /\ e.memberRole = d.memberRole /\ e.legacy = d.legacy /\ e.allowed = d.allowed
      /\ e.general = d.general /\ e.sources = d.sources /\ e.inProject = d.inProject
  BY DEF OnlyRecords
<1>1. /\ \A o : HasGeneral(e, o) <=> HasGeneral(d, o)
      /\ \A o : HasAllowlist(e, o) <=> HasAllowlist(d, o)
      /\ \A o : InGeneral(e, o) <=> InGeneral(d, o)
      /\ Required(e) <=> Required(d)
  BY <1>0 DEF HasGeneral, HasAllowlist, InGeneral, Required, HasMembers
<1>2. Has(e, "vector_db_002") => "org_vector_db.status_error" \in e.schema
  BY <1>0, IndexOf DEF LastingProjects, ProjectsDone
<1>3. Has(e, "projects_001b") => ("project" \in e.schema => "project name unique" \in e.schema)
  BY <1>0, IndexOf DEF LastingProjects, ProjectsDone
<1>4. Has(e, "projects_002") => \A o \in e.orgs : HasGeneral(e, o)
  BY <1>0, <1>1, IndexOf DEF LastingProjects, ProjectsDone
<1>5. \A o \in e.legacy : e.allowed[o] # "empty"
  BY <1>0 DEF LastingProjects
<1>6. Has(e, "projects_003") => \A o \in e.orgs : HasAllowlist(e, o)
  BY <1>0, <1>1, IndexOf DEF LastingProjects, ProjectsDone
<1>7. Has(e, "projects_004") => "project_data_source" \in e.schema
  BY <1>0, IndexOf DEF LastingProjects, ProjectsDone
<1>8. Has(e, "chat_003") => {"project", "conversation.project_id"} \subseteq e.schema
  BY <1>0, IndexOf DEF LastingProjects, ProjectsDone
<1>9. Has(e, "chat_004") => \A o \in e.orgs : InGeneral(e, o)
  BY <1>0, <1>1, IndexOf DEF LastingProjects, ProjectsDone
<1>10. Has(e, "chat_005") => Required(e)
  BY <1>0, <1>1, IndexOf DEF LastingProjects, ProjectsDone
<1> QED
  BY <1>2, <1>3, <1>4, <1>5, <1>6, <1>7, <1>8, <1>9, <1>10 DEF LastingProjects

LEMMA RecordedIsSound ==
    ASSUME NEW i, NEW d, NEW e, Records(i, d, e), Sound(d), Behind(i, d),
           RolesAdvance(i, <<>>, d), ProjectsAdvance(i, <<>>, d)
    PROVE  Sound(e)
<1>0. i \in 1 .. 54 /\ IsDatabase(e)
  BY DEF Records
<1>1. i \in 1 .. 54 /\ i \in Nat /\ IsDatabase(e)
  BY <1>0
<1>2. OnlyRecords(i, d, e) /\ RolesDone(i, d) /\ ProjectsDone(i, d)
  BY <1>1, RecordsOnly, RolesFinish, ProjectsFinish
<1> QED
  BY <1>1, <1>2, OrderStays, RolesLastRecorded, ProjectsLastRecorded DEF Sound

-----------------------------------------------------------------------------
(* One node boots at a time: what it has still to do, as one predicate.    *)

Progress(a, app, t, d) ==
    /\ a \in DOMAIN BootPlan => Behind(a, d)
    /\ app => /\ a \in DOMAIN BootPlan /\ ~Has(d, BootPlan[a].name)
              /\ RolesAdvance(a, t, d) /\ ProjectsAdvance(a, t, d)
OneAt == \A m, n \in Nodes : at[m] \in DOMAIN BootPlan /\ at[n] \in DOMAIN BootPlan => m = n
Proceeds == Sound(db) /\ OneAt /\ \A n \in Nodes : Progress(at[n], applying[n], todo[n], db)

LEMMA BootInvByNode == TypeOK => (BootInv <=> Proceeds)
<1> SUFFICES ASSUME TypeOK PROVE BootInv <=> Proceeds
  OBVIOUS
<1>1. \A n \in Nodes : /\ IsBooting(n) <=> at[n] \in DOMAIN BootPlan
                       /\ applying[n] => at[n] \in DOMAIN BootPlan
  BY Places, TypesByNode DEF Owns
<1>2. OneMigrates <=> OneAt
  BY <1>1 DEF OneMigrates, OneAt
<1>3. Walked /\ NotYetRecorded /\ Advance
        <=> \A n \in Nodes : Progress(at[n], applying[n], todo[n], db)
  BY <1>1 DEF Walked, NotYetRecorded, Advance, Progress
<1> QED
  BY <1>2, <1>3 DEF BootInv, Proceeds

LEMMA BehindNext ==
    ASSUME NEW i \in 1 .. 54, NEW d, Behind(i, d), Has(d, BootPlan[i].name)
    PROVE  Behind(i + 1, d)
<1>1. ASSUME NEW j \in DOMAIN BootPlan, j < i + 1 PROVE Has(d, BootPlan[j].name)
  <2>1. j \in 1 .. 54
    BY NamesOfPlan
  <2>2. j < i \/ j = i
    BY <1>1, <2>1
  <2> QED
    BY <2>2 DEF Behind
<1> QED
  BY <1>1 DEF Behind

LEMMA BehindFirst == \A d : Behind(1, d)
BY NamesOfPlan DEF Behind

LEMMA NoProgress == \A a, t, d : a \notin DOMAIN BootPlan => Progress(a, FALSE, t, d)
BY DEF Progress

LEMMA StatementProceeds ==
    ASSUME TypeOK, NEW n \in Nodes, ApplyStatement(n), Sound(db),
           Progress(at[n], applying[n], todo[n], db)
    PROVE  Sound(db') /\ Progress(at[n], TRUE, todo'[n], db')
<1> DEFINE i == at[n]
           t == todo[n]
           u == todo'[n]
           s == Head(todo[n])
           f == Following(Head(todo[n]), db)
<1>1. /\ Applies(n, s, db, db') /\ Sendable(u, i, db'.orgs)
      /\ applying[n] /\ i \in DOMAIN BootPlan
  BY ApplyStatementActs
<1>2. /\ IsDatabase(db) /\ Fits(s, i, db.orgs) /\ i \in Nat /\ db' = Effect(s, db)
      /\ StatementStep(i, s, db, db')
  BY <1>1 DEF Applies
<1>3. Possible(s, db) /\ t # <<>> /\ u = f \o Tail(t) /\ Sendable(t, i, db.orgs)
  <2>1. todo' = [todo EXCEPT ![n] = f \o Tail(@)] /\ Possible(s, db) /\ t # <<>>
    BY DEF ApplyStatement
  <2> QED
    BY <2>1, <1>1, TypesByNode DEF Owns
<1> HIDE DEF i, t, u, f
<1>4. /\ Behind(i, db) /\ ~Has(db, BootPlan[i].name)
      /\ RolesAdvance(i, t, db) /\ ProjectsAdvance(i, t, db)
  BY <1>1 DEF Progress, i, t
<1>5. t \in Seq(Statements) /\ u \in Seq(Statements)
  BY <1>1, <1>3 DEF Sendable
<1>6. f \in Seq(Statements)
  <2>1. Sendable(f, i, db'.orgs)
    BY <1>2, FollowingSendable DEF f
  <2> QED
    BY <2>1 DEF Sendable
<1>7. Tail(t) \in Seq(Statements)
  BY <1>3, <1>5, HeadTailProperties
<1>8. Carries(t, u) /\ Contains(u, f)
  BY <1>3, <1>5, <1>6, Carried
<1>9. RoleProgress(s, db, db') /\ ProjectProgress(s, db, db')
  BY <1>2, StatementProgress
<1>10. After(db, i) /\ RecordedInOrder(db)
  BY <1>1, <1>4, OrderOfPlan DEF Sound
<1>11. s = Head(t)
  BY DEF s, t
<1>12. AllowsOwn(s, db)
  <2>1. AllAllowOwn(t, db)
    BY <1>4, <1>5, AllowBySet DEF ProjectsAdvance
  <2>2. Pending(t, s)
    BY <1>3, <1>5, <1>11, HeadTailProperties DEF Pending
  <2> QED
    BY <2>1, <2>2 DEF AllAllowOwn
<1>13. f = Following(s, db)
  BY DEF s, f
<1> HIDE DEF s
<1>14. Sends(i, t, db, db', u)
  BY <1>1, <1>2, <1>3, <1>4, <1>5, <1>8, <1>9, <1>10, <1>11, <1>13 DEF Sends
<1>15. Replaced(t, db, u)
  BY <1>3, <1>5, <1>6, <1>7, <1>11, <1>13 DEF Replaced
<1>16. RolesAdvance(i, u, db') /\ ProjectsAdvance(i, u, db')
  BY <1>4, <1>14, <1>15, RolesAdvances, ProjectsAdvances
<1>17. Sound(db')
  BY <1>2, <1>10, <1>12, SoundStays
<1>18. Behind(i, db') /\ ~Has(db', BootPlan[i].name)
  <2>1. db'.recorded = db.recorded
    BY <1>2 DEF StatementStep, RolesStep, ProjectsStep, SameRest
  <2> QED
    BY <2>1, <1>4 DEF Behind, Has
<1> QED
  BY <1>1, <1>16, <1>17, <1>18 DEF Progress, i, u

LEMMA RecordProceeds ==
    ASSUME TypeOK, NEW n \in Nodes, RecordMigration(n), Sound(db),
           Progress(at[n], applying[n], todo[n], db)
    PROVE  Sound(db') /\ Progress(at[n] + 1, FALSE, todo[n], db')
<1> DEFINE i == at[n]
<1>1. /\ IsDatabase(db') /\ i \in DOMAIN BootPlan /\ applying[n] /\ todo[n] = <<>>
  BY RecordMigrationTyped
<1>2. db' = [db EXCEPT !.recorded = @ \cup {BootPlan[i].name}]
  BY DEF RecordMigration
<1> HIDE DEF i
<1>3. i \in 1 .. 54
  BY <1>1, NamesOfPlan
<1>4. Records(i, db, db')
  BY <1>1, <1>2, <1>3 DEF Records, Sound
<1>5. Behind(i, db) /\ RolesAdvance(i, <<>>, db) /\ ProjectsAdvance(i, <<>>, db)
  BY <1>1 DEF Progress, i
<1>6. Sound(db')
  BY <1>4, <1>5, RecordedIsSound
<1>7. \A x : Has(db', x) <=> Has(db, x) \/ x = BootPlan[i].name
  BY <1>4, RecordsOnly DEF OnlyRecords
<1>8. Behind(i, db')
  BY <1>5, <1>7 DEF Behind
<1>9. Behind(i + 1, db')
  BY <1>3, <1>7, <1>8, BehindNext
<1> QED
  BY <1>6, <1>9 DEF Progress, i

-----------------------------------------------------------------------------
(* However often a boot was interrupted.                                   *)

LEMMA BootInvAtStart == Init => BootInv
<1> SUFFICES ASSUME Init PROVE BootInv
  OBVIOUS
<1>1. TypeOK
  BY TypesAtStart
<1>2. Sound(db)
  BY DeploymentsAreSound DEF Init
<1>3. \A n \in Nodes : at[n] \notin DOMAIN BootPlan /\ applying[n] = FALSE
  BY Places DEF Init
<1>4. OneAt
  BY <1>3 DEF OneAt
<1>5. \A n \in Nodes : Progress(at[n], applying[n], todo[n], db)
  BY <1>3, NoProgress
<1> QED
  BY <1>1, <1>2, <1>4, <1>5, BootInvByNode DEF Proceeds

LEMMA ProceedsStays ==
    ASSUME Serialized, TypeOK, Proceeds, [Next]_vars
    PROVE  Proceeds'
<1>1. /\ at = [n \in Nodes |-> at[n]] /\ applying = [n \in Nodes |-> applying[n]]
      /\ todo = [n \in Nodes |-> todo[n]]
      /\ \A n \in Nodes : applying[n] => at[n] \in DOMAIN BootPlan
      /\ \A n \in Nodes : applying[n] \in BOOLEAN
  BY TypesByNode DEF Owns
<1>2. /\ Sound(db) /\ \A n \in Nodes : Progress(at[n], applying[n], todo[n], db)
      /\ \A m, n \in Nodes : at[m] \in DOMAIN BootPlan /\ at[n] \in DOMAIN BootPlan => m = n
  BY DEF Proceeds, OneAt
<1> DEFINE NextProceeds ==
        /\ Sound(db')
        /\ \A m, n \in Nodes : at'[m] \in DOMAIN BootPlan /\ at'[n] \in DOMAIN BootPlan => m = n
        /\ \A n \in Nodes : Progress(at'[n], applying'[n], todo'[n], db')
<1>3. NextProceeds => Proceeds'
  BY DEF Proceeds, OneAt, Sound, Progress
<1> SUFFICES NextProceeds
  BY <1>3
<1>o. ASSUME NEW n \in Nodes, NEW a, NEW app, NEW t,
             at' = [at EXCEPT ![n] = a], applying' = [applying EXCEPT ![n] = app],
             todo' = [todo EXCEPT ![n] = t], Sound(db'), Progress(a, app, t, db'),
             \/ \A m \in Nodes \ {n} : at[m] \notin DOMAIN BootPlan
             \/ db' = db /\ a \notin DOMAIN BootPlan
      PROVE  NextProceeds
  <2>1. /\ at'[n] = a /\ applying'[n] = app /\ todo'[n] = t
        /\ \A m \in Nodes \ {n} : at'[m] = at[m] /\ applying'[m] = applying[m] /\ todo'[m] = todo[m]
    BY <1>1, <1>o
  <2>2. \A k, m \in Nodes : at'[k] \in DOMAIN BootPlan /\ at'[m] \in DOMAIN BootPlan => k = m
    BY <1>2, <1>o, <2>1
  <2>3. ASSUME NEW m \in Nodes \ {n}
        PROVE  Progress(at[m], applying[m], todo[m], db')
    <3>1. CASE db' = db
      BY <3>1, <1>2
    <3>2. CASE at[m] \notin DOMAIN BootPlan
      <4>1. applying[m] = FALSE
        BY <1>1, <3>2
      <4> QED
        BY <3>2, <4>1, NoProgress
    <3> QED
      BY <3>1, <3>2, <1>o
  <2>4. \A m \in Nodes : Progress(at'[m], applying'[m], todo'[m], db')
    BY <2>1, <2>3, <1>o
  <2> QED
    BY <1>o, <2>2, <2>4
<1>r. ASSUME NEW n \in Nodes
      PROVE  /\ [at EXCEPT ![n] = at[n]] = at /\ [applying EXCEPT ![n] = applying[n]] = applying
             /\ [todo EXCEPT ![n] = todo[n]] = todo
  BY <1>1
<1>a. ASSUME NEW n \in Nodes, at[n] \in DOMAIN BootPlan
      PROVE  \A m \in Nodes \ {n} : at[m] \notin DOMAIN BootPlan
  BY <1>a, <1>2
<1>4. ASSUME NEW n \in Nodes, Boot(n)
      PROVE  NextProceeds
  <2>1. /\ at' = [at EXCEPT ![n] = 1] /\ applying' = [applying EXCEPT ![n] = applying[n]]
        /\ todo' = [todo EXCEPT ![n] = todo[n]] /\ db' = db
    BY <1>4, <1>r DEF Boot
  <2>2. \A m \in Nodes : at[m] \notin DOMAIN BootPlan
    BY <1>4, Places DEF Boot
  <2>3. applying[n] = FALSE
    BY <1>1, <2>2
  <2>4. Progress(1, applying[n], todo[n], db')
    BY <2>3, BehindFirst DEF Progress
  <2> QED
    BY <1>2, <1>o, <2>1, <2>2, <2>4
<1>5. ASSUME NEW n \in Nodes, CheckMigration(n)
      PROVE  NextProceeds
  <2>1. at[n] \in DOMAIN BootPlan /\ applying[n] = FALSE /\ db' = db
    BY <1>1, <1>5, Places DEF CheckMigration
  <2>2. at[n] \in 1 .. 54 /\ Behind(at[n], db)
    BY <1>2, <2>1, NamesOfPlan DEF Progress
  <2>3. CASE BootPlan[at[n]].name \in db.recorded
    <3>1. /\ at' = [at EXCEPT ![n] = at[n] + 1] /\ applying' = [applying EXCEPT ![n] = applying[n]]
          /\ todo' = [todo EXCEPT ![n] = todo[n]]
      BY <1>5, <1>r, <2>3 DEF CheckMigration
    <3>2. Behind(at[n] + 1, db)
      BY <2>2, <2>3, BehindNext DEF Has
    <3>3. Progress(at[n] + 1, applying[n], todo[n], db')
      BY <2>1, <3>2 DEF Progress
    <3> QED
      BY <1>2, <1>a, <1>o, <2>1, <3>1, <3>3
  <2>4. CASE BootPlan[at[n]].name \notin db.recorded
    <3>1. /\ applying' = [applying EXCEPT ![n] = TRUE] /\ todo' = [todo EXCEPT ![n] = BootPlan[at[n]].up]
          /\ at' = [at EXCEPT ![n] = at[n]]
      BY <1>5, <1>r, <2>4 DEF CheckMigration
    <3>2. RolesAdvance(at[n], BootPlan[at[n]].up, db) /\ ProjectsAdvance(at[n], BootPlan[at[n]].up, db)
      BY <2>1, RolesBegin, ProjectsBeginAll
    <3>3. Progress(at[n], TRUE, BootPlan[at[n]].up, db')
      BY <2>1, <2>2, <2>4, <3>2 DEF Progress, Has
    <3> QED
      BY <1>2, <1>a, <1>o, <2>1, <3>1, <3>3
  <2> QED
    BY <2>3, <2>4
<1>6. ASSUME NEW n \in Nodes, ApplyStatement(n)
      PROVE  NextProceeds
  <2>1. /\ at' = [at EXCEPT ![n] = at[n]] /\ applying' = [applying EXCEPT ![n] = TRUE]
        /\ todo' = [todo EXCEPT ![n] = todo'[n]] /\ at[n] \in DOMAIN BootPlan
    <3>1. at' = at /\ applying' = applying /\ applying[n] /\ at[n] \in DOMAIN BootPlan
      BY <1>6, ApplyStatementActs
    <3>2. applying[n] = TRUE
      BY <1>1, <3>1
    <3>3. todo' = [todo EXCEPT ![n] = todo'[n]]
      BY <1>1, <1>6 DEF ApplyStatement
    <3> QED
      BY <1>r, <3>1, <3>2, <3>3
  <2>2. Sound(db') /\ Progress(at[n], TRUE, todo'[n], db')
    BY <1>2, <1>6, StatementProceeds
  <2> QED
    BY <1>a, <1>o, <2>1, <2>2
<1>7. ASSUME NEW n \in Nodes, NEW how \in {Down, Failed}, Leave(n, how)
      PROVE  NextProceeds
  <2>1. how \notin DOMAIN BootPlan
    BY Places
  <2>2. Progress(how, FALSE, <<>>, db)
    BY <2>1, NoProgress
  <2>3. /\ at' = [at EXCEPT ![n] = how] /\ applying' = [applying EXCEPT ![n] = FALSE]
        /\ todo' = [todo EXCEPT ![n] = <<>>] /\ db' = db
    BY <1>7 DEF Leave
  <2> QED
    BY <1>2, <1>o, <2>1, <2>2, <2>3
<1>8. ASSUME NEW n \in Nodes, FailStatement(n) \/ Stop(n)
      PROVE  NextProceeds
  BY <1>7, <1>8 DEF FailStatement, Stop
<1>9. ASSUME NEW n \in Nodes, RecordMigration(n)
      PROVE  NextProceeds
  <2>1. at[n] \in DOMAIN BootPlan
    BY <1>9, RecordMigrationTyped
  <2>2. Sound(db') /\ Progress(at[n] + 1, FALSE, todo[n], db')
    BY <1>2, <1>9, RecordProceeds
  <2>3. /\ at' = [at EXCEPT ![n] = at[n] + 1] /\ applying' = [applying EXCEPT ![n] = FALSE]
        /\ todo' = [todo EXCEPT ![n] = todo[n]]
    BY <1>9, <1>r DEF RecordMigration
  <2> QED
    BY <1>a, <1>o, <2>1, <2>2, <2>3
<1>10. CASE UNCHANGED vars
  BY <1>2, <1>10 DEF vars
<1> QED
  BY <1>4, <1>5, <1>6, <1>8, <1>9, <1>10 DEF Next

LEMMA BootInvStays ==
    ASSUME Serialized, BootInv, [Next]_vars
    PROVE  BootInv'
<1>1. TypeOK /\ Proceeds
  BY BootInvByNode DEF BootInv
<1>2. TypeOK' /\ Proceeds'
  BY <1>1, TypesStay, ProceedsStays
<1>3. TypeOK' => (BootInv' <=> Proceeds')
  BY BootInvByNode, PTL
<1> QED
  BY <1>2, <1>3

\* docs/architecture.md has one node at a time run the migrations.  Then what is
\* recorded has been done and lasts, and what the migration that is being
\* applied does is there or its statement is still to be sent.
THEOREM InterruptedBootsAreSafe == ASSUME Serialized PROVE Spec => []BootInv
<1> QED
  BY BootInvAtStart, BootInvStays, PTL DEF Spec

-----------------------------------------------------------------------------
(* What a completed boot leaves.                                           *)

LEMMA BootedHas ==
    ASSUME Booted, NEW i \in DOMAIN BootPlan
    PROVE  Has(db, BootPlan[i].name)
<1>1. BootPlan[i].name \in Migrations
  BY DEF Migrations
<1> QED
  BY <1>1 DEF Booted, Has

LEMMA BootedHasAll ==
    ASSUME Booted
    PROVE  /\ Has(db, "rbac_008") /\ Has(db, "rbac_015") /\ Has(db, "rbac_016") /\ Has(db, "rbac_017")
           /\ Has(db, "rbac_018") /\ Has(db, "rbac_019") /\ Has(db, "rbac_020") /\ Has(db, "rbac_021")
           /\ Has(db, "rbac_022") /\ Has(db, "rbac_024") /\ Has(db, "rbac_025")
           /\ Has(db, "vector_db_002") /\ Has(db, "projects_001b") /\ Has(db, "projects_002")
           /\ Has(db, "projects_003") /\ Has(db, "projects_004") /\ Has(db, "chat_003")
           /\ Has(db, "chat_004") /\ Has(db, "chat_005")
<1>1. /\ 18 \in DOMAIN BootPlan /\ 25 \in DOMAIN BootPlan /\ 26 \in DOMAIN BootPlan /\ 27 \in DOMAIN BootPlan
      /\ 28 \in DOMAIN BootPlan /\ 29 \in DOMAIN BootPlan /\ 30 \in DOMAIN BootPlan /\ 31 \in DOMAIN BootPlan
      /\ 32 \in DOMAIN BootPlan /\ 34 \in DOMAIN BootPlan /\ 35 \in DOMAIN BootPlan /\ 39 \in DOMAIN BootPlan
      /\ 43 \in DOMAIN BootPlan /\ 45 \in DOMAIN BootPlan /\ 46 \in DOMAIN BootPlan /\ 47 \in DOMAIN BootPlan
      /\ 50 \in DOMAIN BootPlan /\ 51 \in DOMAIN BootPlan /\ 52 \in DOMAIN BootPlan
  BY NamesOfPlan
<1>2. \A i \in DOMAIN BootPlan : Has(db, BootPlan[i].name)
  BY BootedHas
<1> QED
  BY <1>1, <1>2, NamesOfPlan

\* What this release declares is what its migrations register.
LEMMA CatalogueByFamilies ==
    \A p \in Catalogue :
        \/ p \in Base \/ p = <<"organization", "manage-members">>
        \/ \E name \in {"rbac_015", "rbac_016", "rbac_018", "rbac_019", "rbac_020", "rbac_021",
                        "rbac_022", "rbac_024", "rbac_025"} : p \in Family(name)
<1>1. \A p \in On("organization", {"create", "manage-members"}) :
          p \in Base \/ p = <<"organization", "manage-members">>
  BY DEF Base, On, Crud
<1> QED
  BY <1>1, DefaultsAreFamilies DEF Catalogue

LEMMA BootedConverges ==
    ASSUME BootInv
    PROVE  DefaultRolesConverge
<1> SUFFICES ASSUME Booted
             PROVE  /\ \A r \in DOMAIN db.grants :
                          r[2] \in DefaultNames => r[1] # Platform /\ db.grants[r] = DefaultsOf(r[2])
                    /\ db.grants[Superadmin] = db.catalog
  BY DEF DefaultRolesConverge
<1>1. IsDatabase(db) /\ LastingRoles(db)
  BY DEF BootInv, Sound
<1>2. HasSuperadmin(db) /\ NoPlatformDefaults(db)
  BY <1>1, BootedHasAll DEF LastingRoles
<1>3. \A r \in DOMAIN db.grants :
          r[2] \in DefaultNames => r[1] # Platform /\ db.grants[r] = DefaultsOf(r[2])
  BY <1>1, <1>2, BootedHasAll DEF LastingRoles, NoPlatformDefaults, DefaultRowsOf
<1>4. RolesTyped(db)
  BY <1>1, DatabaseParts
<1>5. db.grants[Superadmin] \subseteq db.catalog /\ db.catalog \subseteq Catalogue
  BY <1>2, <1>4 DEF RolesTyped, HasSuperadmin
<1>6. \A name : Has(db, name) => \A p \in Family(name) : p \in db.grants[Superadmin]
  BY <1>1 DEF LastingRoles, HoldsFamily, Has
<1>7. <<"organization", "manage-members">> \notin db.catalog
  BY <1>1, BootedHasAll DEF LastingRoles
<1>8. \A p \in db.catalog : p \in db.grants[Superadmin]
  <2>1. \A p \in Base : p \in db.grants[Superadmin]
    BY <1>2 DEF HasSuperadmin
  <2> QED
    BY <1>5, <1>6, <1>7, <2>1, BootedHasAll, CatalogueByFamilies
<1> QED
  BY <1>3, <1>5, <1>8

LEMMA HeirsAre ==
    /\ Heirs("rbac_021", CanUpdate) = On("sql-connection", {"create", "update", "delete"})
    /\ Heirs("rbac_021", CanRead) = On("sql-connection", {"read"})
    /\ Heirs("rbac_022", CanUpdate) = On("vector-db", {"create", "update", "delete"})
    /\ Heirs("rbac_022", CanRead) = On("vector-db", {"read"})
    /\ Heirs("rbac_024", CanUpdate) = On("vector-db", {"upload"})
    /\ Heirs("rbac_025", CanUpdate) = On("embed-site", {"create", "update"})
    /\ Heirs("rbac_025", CanRead) = On("embed-site", {"read"})
<1>1. CanRead # CanUpdate
  BY DEF CanRead, CanUpdate
<1> QED
  BY <1>1 DEF Heirs

LEMMA BootedInherits ==
    ASSUME BootInv
    PROVE  CustomRolesInherit
<1> SUFFICES ASSUME Booted, NEW r \in CustomRoles
             PROVE  /\ CanUpdate \in db.grants[r] =>
                         On("sql-connection", {"create", "update", "delete"})
                           \cup On("vector-db", {"create", "update", "delete", "upload"})
                           \cup On("embed-site", {"create", "update"}) \subseteq db.grants[r]
                    /\ CanRead \in db.grants[r] =>
                         {<<f, "read">> : f \in {"sql-connection", "vector-db", "embed-site"}} \subseteq db.grants[r]
                    /\ <<"embed-site", "delete">> \notin db.grants[r]
  BY DEF CustomRolesInherit
<1>1. LastingRoles(db) /\ r \in CustomRolesOf(db)
  BY DEF BootInv, Sound, CustomRoles
<1>2. \A name : Has(db, name) =>
          /\ CanUpdate \in db.grants[r] => Heirs(name, CanUpdate) \subseteq db.grants[r]
          /\ CanRead \in db.grants[r] => Heirs(name, CanRead) \subseteq db.grants[r]
  BY <1>1 DEF LastingRoles, Inherited, Has
<1>3. ASSUME CanUpdate \in db.grants[r]
      PROVE  On("sql-connection", {"create", "update", "delete"})
               \cup On("vector-db", {"create", "update", "delete", "upload"})
               \cup On("embed-site", {"create", "update"}) \subseteq db.grants[r]
  <2>1. /\ On("sql-connection", {"create", "update", "delete"}) \subseteq db.grants[r]
        /\ On("vector-db", {"create", "update", "delete"}) \subseteq db.grants[r]
        /\ On("vector-db", {"upload"}) \subseteq db.grants[r]
        /\ On("embed-site", {"create", "update"}) \subseteq db.grants[r]
    BY <1>2, <1>3, BootedHasAll, HeirsAre
  <2> QED
    BY <2>1 DEF On
<1>4. ASSUME CanRead \in db.grants[r]
      PROVE  {<<f, "read">> : f \in {"sql-connection", "vector-db", "embed-site"}} \subseteq db.grants[r]
  <2>1. /\ On("sql-connection", {"read"}) \subseteq db.grants[r]
        /\ On("vector-db", {"read"}) \subseteq db.grants[r]
        /\ On("embed-site", {"read"}) \subseteq db.grants[r]
    BY <1>2, <1>4, BootedHasAll, HeirsAre
  <2> QED
    BY <2>1 DEF On
<1>5. <<"embed-site", "delete">> \notin db.grants[r]
  BY <1>1 DEF LastingRoles
<1> QED
  BY <1>3, <1>4, <1>5

LEMMA BootedBackfills ==
    ASSUME BootInv
    PROVE  BackfillsConverge
<1> SUFFICES ASSUME Booted
             PROVE  /\ {"project", "project_data_source", "project name unique",
                        "conversation.project_id", "org_vector_db.status_error"} \subseteq db.schema
                    /\ \A o \in db.orgs :
                          /\ HasMembers(db, o) /\ o \in db.legacy => o \in db.sources /\ db.allowed[o] = "legacy"
                          /\ HasMembers(db, o) /\ o \in DOMAIN db.inProject => db.inProject[o] = "general"
                    /\ (\A o \in DOMAIN db.inProject : db.inProject[o] = "general")
                         => "conversation.project_id required" \in db.schema
  BY DEF BackfillsConverge
<1>1. LastingProjects(db)
  BY DEF BootInv, Sound
<1>2. {"project", "project_data_source", "project name unique",
       "conversation.project_id", "org_vector_db.status_error"} \subseteq db.schema
  BY <1>1, BootedHasAll DEF LastingProjects
<1>3. \A o \in db.orgs : HasGeneral(db, o) /\ HasAllowlist(db, o) /\ InGeneral(db, o)
  BY <1>1, BootedHasAll DEF LastingProjects
<1>4. \A o \in db.orgs :
          /\ HasMembers(db, o) /\ o \in db.legacy => o \in db.sources /\ db.allowed[o] = "legacy"
          /\ HasMembers(db, o) /\ o \in DOMAIN db.inProject => db.inProject[o] = "general"
  BY <1>3 DEF HasGeneral, HasAllowlist, InGeneral
<1>5. Required(db)
  BY <1>1, BootedHasAll DEF LastingProjects
<1> QED
  BY <1>2, <1>4, <1>5 DEF Required

\* syncRolePermissions in rbac_025 and the families of permissions before it:
\* after a complete boot the default roles hold what this release declares and
\* superadmin holds all, whatever was interrupted before.
THEOREM DefaultRolesAreThoseOfTheRelease == ASSUME Serialized PROVE Spec => []DefaultRolesConverge
<1> QED
  BY InterruptedBootsAreSafe, BootedConverges, PTL

\* rbac_021 to rbac_025 give a custom role the new permissions from those it
\* holds on its organization; after a complete boot none is missing.
THEOREM CustomRolesGetTheNewPermissions == ASSUME Serialized PROVE Spec => []CustomRolesInherit
<1> QED
  BY InterruptedBootsAreSafe, BootedInherits, PTL

\* projects_002, projects_003 and chat_003 to chat_005: after a complete boot no
\* collection and no conversation of an organization with members is left out.
THEOREM BackfillsAreComplete == ASSUME Serialized PROVE Spec => []BackfillsConverge
<1> QED
  BY InterruptedBootsAreSafe, BootedBackfills, PTL
=============================================================================
