---------------------------- MODULE AccessTables ----------------------------
(***************************************************************************)
(* The tables that say who may use the application: user, member, session  *)
(* and the accepted rows of invitation, with the statements that           *)
(* AdminUserDatabaseRepository, SessionDatabaseRepository and              *)
(* OrgImpersonationService issue on them.  Each operator is one statement  *)
(* or one transaction.  A user's e-mail address is the user, and names,    *)
(* passwords and reasons, which no check reads, are left out.              *)
(***************************************************************************)
EXTENDS Naturals

CONSTANTS
    Users,     \* ids of user rows; a removed id is not used again
    Orgs,      \* organizations, none of which is created or deleted
    Tokens,    \* session tokens; each is drawn once
    Roles,     \* names of the roles of organizations
    None       \* no user, no organization, no membership

Managed == {"admin", "manager", "member"}  \* the type OrganizationRoleName

ASSUME TablesAssumption ==
    /\ Managed \subseteq Roles
    /\ None \notin Users \cup Orgs \cup Roles

VARIABLES
    approval,    \* user."approvalStatus", "absent" and "removed" without a row
    platform,    \* user.role, "null" for the users of phase 0
    banned,      \* users with user.banned
    memberRole,  \* member.role of a user in an organization
    accepted,    \* users with an accepted invitation
    owner,       \* session."userId", None before and after the row
    by,          \* session."impersonatedBy"
    active,      \* session."activeOrganizationId"
    drawn        \* tokens that were ever issued

userVars == <<approval, platform, banned>>
sessionVars == <<owner, by, active, drawn>>
tableVars == <<userVars, memberRole, accepted, sessionVars>>

Statuses == {"pending", "approved", "rejected"}
PlatformRoles == {"superadmin", "null"} \cup Managed

UserRows == {u \in Users : approval[u] \in Statuses}
Sessions == {t \in Tokens : owner[t] # None}
Inside(o) == {u \in Users : memberRole[u][o] # None}
OrgsOf(u) == {o \in Orgs : memberRole[u][o] # None}
NoMembership == [o \in Orgs |-> None]

\* getPlatformRole: what a session makes of the column
PlatformRole(u) == IF platform[u] = "null" THEN "member" ELSE platform[u]

\* getTargetRole: a role that is none of the three counts as "member".
TargetRole(u) == IF platform[u] \in Managed THEN platform[u] ELSE "member"

-----------------------------------------------------------------------------
InsertUser(u, role, status) ==
    /\ approval' = [approval EXCEPT ![u] = status]
    /\ platform' = [platform EXCEPT ![u] = role]
    /\ UNCHANGED banned

SetMember(u, o, role) ==
    memberRole' = [memberRole EXCEPT ![u][o] = role]

EndSessions(ts) ==
    /\ owner' = [t \in Tokens |-> IF t \in ts THEN None ELSE owner[t]]
    /\ by' = [t \in Tokens |-> IF t \in ts THEN None ELSE by[t]]
    /\ active' = [t \in Tokens |-> IF t \in ts THEN None ELSE active[t]]
    /\ UNCHANGED drawn

\* The row of a user takes its memberships and sessions along (CASCADE).
RemoveUsers(us) ==
    /\ approval' = [u \in Users |-> IF u \in us \cap UserRows THEN "removed"
                                                              ELSE approval[u]]
    /\ memberRole' = [u \in Users |-> IF u \in us THEN NoMembership
                                                  ELSE memberRole[u]]
    /\ EndSessions({t \in Sessions : owner[t] \in us})
    /\ UNCHANGED <<platform, banned, accepted>>

\* A transaction: the platform role, and the membership that goes with it.
\* Without the row of the user the INSERT fails and nothing is written.
SetUserRole(u, o, role) ==
    /\ IF u \notin UserRows THEN UNCHANGED <<platform, memberRole>>
       ELSE /\ platform' = [platform EXCEPT ![u] = role]
            /\ IF role = "admin"
               THEN memberRole' = [memberRole EXCEPT ![u] = NoMembership]
               ELSE SetMember(u, o, role)
    /\ UNCHANGED <<approval, banned, accepted, sessionVars>>

SetBanned(u, ban) ==
    /\ banned' = IF u \notin UserRows THEN banned
                 ELSE IF ban THEN banned \cup {u} ELSE banned \ {u}
    /\ UNCHANGED <<approval, platform, memberRole, accepted, sessionVars>>

SetApproval(u, status) ==
    /\ approval' = IF u \in UserRows THEN [approval EXCEPT ![u] = status]
                                     ELSE approval
    /\ UNCHANGED <<platform, banned, memberRole, accepted, sessionVars>>

\* A transaction: user, account and member; an address that is taken, by a
\* row that is there or was, ends it.
CreateUser(u, o, role) ==
    /\ IF approval[u] # "absent" THEN UNCHANGED <<userVars, memberRole>>
       ELSE InsertUser(u, role, "approved") /\ SetMember(u, o, role)
    /\ UNCHANGED <<accepted, sessionVars>>

InsertSession(t, u, impersonator, o) ==
    /\ t \notin drawn
    /\ drawn' = drawn \cup {t}
    /\ owner' = [owner EXCEPT ![t] = u]
    /\ by' = [by EXCEPT ![t] = impersonator]
    /\ active' = [active EXCEPT ![t] = o]
    /\ UNCHANGED <<userVars, memberRole, accepted>>

\* The foreign key makes the INSERT fail for a user that is gone.
CreateImpersonationSession(t, u, impersonator, o) ==
    IF u \in UserRows THEN InsertSession(t, u, impersonator, o)
                      ELSE UNCHANGED tableVars

DeleteSessions(ts) ==
    EndSessions(ts) /\ UNCHANGED <<userVars, memberRole, accepted>>

TablesTypeOK ==
    /\ approval \in [Users -> Statuses \cup {"absent", "removed"}]
    /\ platform \in [Users -> PlatformRoles]
    /\ banned \subseteq Users
    /\ memberRole \in [Users -> [Orgs -> Roles \cup {None}]]
    /\ accepted \subseteq Users
    /\ owner \in [Tokens -> UserRows \cup {None}]
    /\ by \in [Tokens -> Users \cup {None}]
    /\ active \in [Tokens -> Orgs \cup {None}]
    /\ drawn \subseteq Tokens
    /\ \A u \in Users \ UserRows : memberRole[u] = NoMembership
=============================================================================
