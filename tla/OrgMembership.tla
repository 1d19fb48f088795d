---------------------------- MODULE OrgMembership ----------------------------
(***************************************************************************)
(* The members, roles and invitations of one organization: the services    *)
(* AdminOrganizationsService and RoleService over the repositories they    *)
(* call.  A member row and an invitation row name their role by a string;  *)
(* no foreign key ties that string to a row of the roles table.  Only the  *)
(* permission organization:invite is modelled, the one that "last member"  *)
(* checks are about: inviting is the set of role rows that hold it.        *)
(*                                                                         *)
(* A request is a sequence of awaits; step[r] names the one request r is   *)
(* about to make, call[r] what it holds in its variables.  A statement, or *)
(* a transaction of the repository, is one step.                           *)
(***************************************************************************)
EXTENDS Integers, FiniteSets

CONSTANTS
    Names,      \* role names
    Roles,      \* ids of role rows
    Users,      \* users without the platform role superadmin
    Members,    \* ids of member rows
    Invitations,  \* ids of invitation rows
    Requests,     \* requests that can be in flight at the same time
    Operations,   \* the operations that clients request
    Superadmins,  \* the requests whose caller is a superadmin
    Admin, Manager, Member,     \* the names of the seeded roles
    AdminRole, ManagerRole, MemberRole,  \* and their rows
    IsDefaultOrg,  \* is this the organization new users are added to?
    None           \* no value, and the name of a row not inserted yet

DefaultNames == {Admin, Manager, Member}
DefaultRoles == {AdminRole, ManagerRole, MemberRole}

ASSUME OrgAssumption ==
    /\ DefaultNames \subseteq Names
    /\ Admin # Manager /\ Admin # Member /\ Manager # Member
    /\ DefaultRoles \subseteq Roles
    /\ AdminRole # ManagerRole /\ AdminRole # MemberRole
    /\ ManagerRole # MemberRole
    /\ None \notin Names \cup Users \cup Roles \cup Members
    /\ "deleted" \notin Names /\ None # "deleted"
    /\ IsFiniteSet(Members)
    /\ IsDefaultOrg \in BOOLEAN

VARIABLES
    org,         \* the organization row: "absent", "present" or "deleted"
    roleName,    \* roles.name, None before the insert, "deleted" after
    inviting,    \* role rows with the permission organization:invite
    memberUser,  \* member.userId
    memberRole,  \* member.role
    inviteUser,  \* the user with invitation.email
    inviteRole,  \* invitation.role
    pending,     \* invitations with status pending
    step,        \* the await a request makes next
    call         \* what a request holds in its variables

roleVars == <<roleName, inviting>>
memberVars == <<memberUser, memberRole>>
inviteVars == <<inviteUser, inviteRole, pending>>
tableVars == <<org, roleVars, memberVars, inviteVars>>
requestVars == <<step, call>>
vars == <<tableVars, requestVars>>

NoCall == [member |-> None, role |-> None, name |-> None, user |-> None,
           seen |-> None]

Steps == {"idle",
          "findMember", "insertMember",                       \* addMember
          "findForUpdate", "holderForUpdate", "countForUpdate",
          "newRole", "writeRole",                     \* updateMemberRole
          "holderForRemove", "countForRemove", "deleteMember",
                                                          \* removeMember
          "insertRole", "renameRole",         \* create and rename a role
          "countUsage", "deleteRole",                    \* delete a role
          "holderForGrant", "grant", "revoke",       \* assignPermissions
          "findInvitee", "findPending", "insertInvitation"}

-----------------------------------------------------------------------------
RoleRows == {x \in Roles : roleName[x] \in Names}
RoleNames == {roleName[x] : x \in RoleRows}
MemberRows == {m \in Members : memberRole[m] \in Names}
InvitationRows == {i \in Invitations : inviteRole[i] \in Names}

\* roleGrantsManagePermission
Grants(n) == \E x \in RoleRows \cap inviting : roleName[x] = n

\* countMembersWithManageCapability counts these.
Managers == {m \in MemberRows : Grants(memberRole[m])}

Init ==
    /\ org = "absent"
    /\ roleName = [x \in Roles |-> None]
    /\ inviting = {}
    /\ memberUser = [m \in Members |-> None]
    /\ memberRole = [m \in Members |-> None]
    /\ inviteUser = [i \in Invitations |-> None]
    /\ inviteRole = [i \in Invitations |-> None]
    /\ pending = {}
    /\ step = [r \in Requests |-> "idle"]
    /\ call = [r \in Requests |-> NoCall]

Goto(r, s) == step' = [step EXCEPT ![r] = s] /\ UNCHANGED call
Keep(r, s, c) ==
    /\ step' = [step EXCEPT ![r] = s]
    /\ call' = [call EXCEPT ![r] = c]
End(r) == Keep(r, "idle", NoCall)
Begin(r, s, c) == step[r] = "idle" /\ Keep(r, s, c)

\* A row whose id is fresh, as randomUUID and gen_random_uuid are.
InsertMemberRow(m, u, n) ==
    /\ memberRole[m] = None
    /\ memberUser' = [memberUser EXCEPT ![m] = u]
    /\ memberRole' = [memberRole EXCEPT ![m] = n]
DeleteMemberRows(ms) ==
    /\ memberUser' = [m \in Members |->
                         IF m \in ms THEN None ELSE memberUser[m]]
    /\ memberRole' = [m \in Members |->
                         IF m \in ms THEN "deleted" ELSE memberRole[m]]
DeleteInvitationRows(is) ==
    /\ inviteUser' = [i \in Invitations |->
                         IF i \in is THEN None ELSE inviteUser[i]]
    /\ inviteRole' = [i \in Invitations |->
                         IF i \in is THEN "deleted" ELSE inviteRole[i]]
    /\ pending' = pending \ is

-----------------------------------------------------------------------------
\* create: one transaction inserts the organization, its creator as admin
\* and the three default roles.
CreateOrg(u, m) ==
    /\ org = "absent"
    /\ org' = "present"
    /\ roleName' = [roleName EXCEPT ![AdminRole] = Admin,
                                    ![ManagerRole] = Manager,
                                    ![MemberRole] = Member]
    /\ inviting' = {AdminRole, ManagerRole}
    /\ InsertMemberRow(m, u, Admin)
    /\ UNCHANGED <<inviteVars, requestVars>>

\* delete: one transaction; the roles go with the organization (CASCADE).
DeleteOrg ==
    /\ org = "present"
    /\ org' = "deleted"
    /\ roleName' = [x \in Roles |->
                       IF x \in RoleRows THEN "deleted" ELSE roleName[x]]
    /\ inviting' = {}
    /\ DeleteMemberRows(MemberRows)
    /\ DeleteInvitationRows(InvitationRows)
    /\ UNCHANGED requestVars

\* The hook of a signup: INSERT ... WHERE NOT EXISTS, always as "member".
AddUserToDefaultOrg(u, m) ==
    /\ IsDefaultOrg /\ org = "present"
    /\ \A k \in MemberRows : memberUser[k] # u
    /\ InsertMemberRow(m, u, Member)
    /\ UNCHANGED <<org, roleVars, inviteVars, requestVars>>

-----------------------------------------------------------------------------
\* addMember.  The organization and its roles are read first; they are
\* deleted together, so one read of the roles stands for both.
BeginAddMember(r, u, n) ==
    /\ n \in RoleNames
    /\ Begin(r, "findMember", [NoCall EXCEPT !.user = u, !.name = n])
    /\ UNCHANGED tableVars

FindMember(r) ==
    /\ step[r] = "findMember"
    /\ IF \E m \in MemberRows : memberUser[m] = call[r].user
       THEN End(r)
       ELSE Goto(r, "insertMember")
    /\ UNCHANGED tableVars

\* Mutant: no foreign key, the INSERT succeeds in any case.
InsertMemberAnyway(r, m) ==
    /\ step[r] = "insertMember"
    /\ InsertMemberRow(m, call[r].user, call[r].name)
    /\ End(r)
    /\ UNCHANGED <<org, roleVars, inviteVars>>

\* The foreign key to organization makes the INSERT fail once it is gone.
InsertMember(r, m) ==
    /\ step[r] = "insertMember"
    /\ IF org = "present"
       THEN InsertMemberRow(m, call[r].user, call[r].name)
       ELSE UNCHANGED memberVars
    /\ End(r)
    /\ UNCHANGED <<org, roleVars, inviteVars>>

-----------------------------------------------------------------------------
\* updateMemberRole
BeginUpdateMemberRole(r, m, n) ==
    /\ n \in RoleNames
    /\ Begin(r, "findForUpdate", [NoCall EXCEPT !.member = m, !.name = n])
    /\ UNCHANGED tableVars

FindForUpdate(r) ==
    /\ step[r] = "findForUpdate"
    /\ LET m == call[r].member
       IN IF m \notin MemberRows
          THEN End(r)
          ELSE Keep(r, IF r \in Superadmins THEN "writeRole"
                                            ELSE "holderForUpdate",
                    [call[r] EXCEPT !.seen = memberRole[m]])
    /\ UNCHANGED tableVars

HolderForUpdate(r) ==
    /\ step[r] = "holderForUpdate"
    /\ Goto(r, IF Grants(call[r].seen) THEN "countForUpdate"
                                       ELSE "writeRole")
    /\ UNCHANGED tableVars

CountForUpdate(r) ==
    /\ step[r] = "countForUpdate"
    /\ Goto(r, IF Cardinality(Managers) <= 1 THEN "newRole"
                                             ELSE "writeRole")
    /\ UNCHANGED tableVars

NewRole(r) ==
    /\ step[r] = "newRole"
    /\ IF Grants(call[r].name) THEN Goto(r, "writeRole") ELSE End(r)
    /\ UNCHANGED tableVars

WriteRole(r) ==
    /\ step[r] = "writeRole"
    /\ memberRole' = IF call[r].member \in MemberRows
                     THEN [memberRole EXCEPT ![call[r].member] = call[r].name]
                     ELSE memberRole
    /\ End(r)
    /\ UNCHANGED <<org, roleVars, memberUser, inviteVars>>

UpdateMemberRole(r) ==
    \/ FindForUpdate(r)
    \/ HolderForUpdate(r)
    \/ CountForUpdate(r)
    \/ NewRole(r)
    \/ WriteRole(r)

-----------------------------------------------------------------------------
\* removeMember: no exception for superadmins
BeginRemoveMember(r, m) ==
    /\ m \in MemberRows
    /\ Begin(r, "holderForRemove",
             [NoCall EXCEPT !.member = m, !.seen = memberRole[m]])
    /\ UNCHANGED tableVars

HolderForRemove(r) ==
    /\ step[r] = "holderForRemove"
    /\ Goto(r, IF Grants(call[r].seen) THEN "countForRemove"
                                       ELSE "deleteMember")
    /\ UNCHANGED tableVars

\* Mutant: an off-by-one in the last-member check.
CountForRemoveTooLow(r) ==
    /\ step[r] = "countForRemove"
    /\ IF Managers = {} THEN End(r) ELSE Goto(r, "deleteMember")
    /\ UNCHANGED tableVars

CountForRemove(r) ==
    /\ step[r] = "countForRemove"
    /\ IF Cardinality(Managers) <= 1 THEN End(r) ELSE Goto(r, "deleteMember")
    /\ UNCHANGED tableVars

DeleteMember(r) ==
    /\ step[r] = "deleteMember"
    /\ DeleteMemberRows({call[r].member} \cap MemberRows)
    /\ End(r)
    /\ UNCHANGED <<org, roleVars, inviteVars>>

RemoveMember(r) ==
    \/ HolderForRemove(r)
    \/ CountForRemove(r)
    \/ DeleteMember(r)

-----------------------------------------------------------------------------
\* createRole: the controller looks the name up first.
BeginCreateRole(r, n) ==
    /\ n \notin RoleNames
    /\ Begin(r, "insertRole", [NoCall EXCEPT !.name = n])
    /\ UNCHANGED tableVars

\* Mutant: no unique index.
InsertRoleAnyName(r, x) ==
    /\ step[r] = "insertRole"
    /\ roleName[x] = None /\ x \notin DefaultRoles
    /\ roleName' = IF org = "present"
                   THEN [roleName EXCEPT ![x] = call[r].name]
                   ELSE roleName
    /\ End(r)
    /\ UNCHANGED <<org, inviting, memberVars, inviteVars>>

\* The unique index on (organization_id, name) and the foreign key guard
\* the INSERT.
InsertRole(r, x) ==
    /\ step[r] = "insertRole"
    /\ roleName[x] = None /\ x \notin DefaultRoles
    /\ roleName' = IF org = "present" /\ call[r].name \notin RoleNames
                   THEN [roleName EXCEPT ![x] = call[r].name]
                   ELSE roleName
    /\ End(r)
    /\ UNCHANGED <<org, inviting, memberVars, inviteVars>>

\* update: the service looks for a duplicate, the transaction re-reads the
\* row and cascades the rename to the members and invitations.
BeginRenameRole(r, x, n) ==
    /\ x \in RoleRows /\ n \notin RoleNames
    /\ Begin(r, "renameRole", [NoCall EXCEPT !.role = x, !.name = n])
    /\ UNCHANGED tableVars

Renamed(roleOf, old, new) ==
    [k \in DOMAIN roleOf |-> IF roleOf[k] = old THEN new ELSE roleOf[k]]

\* Mutant: the rename is not cascaded to the members.
RenameRowOnly(x, n) ==
    /\ roleName' = [roleName EXCEPT ![x] = n]
    /\ inviteRole' = Renamed(inviteRole, roleName[x], n)
    /\ UNCHANGED memberRole

RenameAndCascade(x, n) ==
    /\ roleName' = [roleName EXCEPT ![x] = n]
    /\ memberRole' = Renamed(memberRole, roleName[x], n)
    /\ inviteRole' = Renamed(inviteRole, roleName[x], n)

RenameRole(r) ==
    /\ step[r] = "renameRole"
    /\ IF call[r].role \in RoleRows /\ call[r].name \notin RoleNames
       THEN RenameAndCascade(call[r].role, call[r].name)
       ELSE UNCHANGED <<roleName, memberRole, inviteRole>>
    /\ End(r)
    /\ UNCHANGED <<org, inviting, memberUser, inviteUser, pending>>

\* delete: getUsageSummary reads the name of the row, then counts the rows
\* with that name; remove() locks and deletes in a transaction of its own.
BeginDeleteRole(r, x) ==
    /\ x \in RoleRows
    /\ Begin(r, "countUsage",
             [NoCall EXCEPT !.role = x, !.seen = roleName[x]])
    /\ UNCHANGED tableVars

\* Mutant: the invitations are not counted.
InUseByMember(n) == \E m \in MemberRows : memberRole[m] = n

InUse(n) ==
    \/ \E m \in MemberRows : memberRole[m] = n
    \/ \E i \in InvitationRows : inviteRole[i] = n

CountUsage(r) ==
    /\ step[r] = "countUsage"
    /\ IF InUse(call[r].seen) THEN End(r) ELSE Goto(r, "deleteRole")
    /\ UNCHANGED tableVars

DeleteRole(r) ==
    /\ step[r] = "deleteRole"
    /\ roleName' = IF call[r].role \in RoleRows
                   THEN [roleName EXCEPT ![call[r].role] = "deleted"]
                   ELSE roleName
    /\ inviting' = inviting \ {call[r].role}
    /\ End(r)
    /\ UNCHANGED <<org, memberVars, inviteVars>>

\* assignPermissions: the caller, unless a superadmin, must hold what is
\* granted.  Only the presence of organization:invite in the list matters.
BeginAssignPermissions(r, m, x, s) ==
    /\ x \in RoleRows /\ m \in MemberRows
    /\ s \in {"grant", "revoke"}
    /\ Begin(r, IF s = "grant" /\ r \notin Superadmins
                THEN "holderForGrant" ELSE s,
             [NoCall EXCEPT !.role = x, !.seen = memberRole[m]])
    /\ UNCHANGED tableVars

HolderForGrant(r) ==
    /\ step[r] = "holderForGrant"
    /\ IF Grants(call[r].seen) THEN Goto(r, "grant") ELSE End(r)
    /\ UNCHANGED tableVars

SetPermissions(r) ==
    /\ step[r] \in {"grant", "revoke"}
    /\ inviting' = IF call[r].role \notin RoleRows THEN inviting
                   ELSE IF step[r] = "grant" THEN inviting \cup {call[r].role}
                   ELSE inviting \ {call[r].role}
    /\ End(r)
    /\ UNCHANGED <<org, roleName, memberVars, inviteVars>>

ManageRoles(r) ==
    \/ \E x \in Roles : InsertRole(r, x)
    \/ RenameRole(r)
    \/ CountUsage(r)
    \/ DeleteRole(r)
    \/ HolderForGrant(r)
    \/ SetPermissions(r)

-----------------------------------------------------------------------------
\* createInvitation; a failed email is logged and changes nothing.
BeginCreateInvitation(r, u, n) ==
    /\ n \in RoleNames
    /\ Begin(r, "findInvitee", [NoCall EXCEPT !.user = u, !.name = n])
    /\ UNCHANGED tableVars

FindInvitee(r) ==
    /\ step[r] = "findInvitee"
    /\ IF \E m \in MemberRows : memberUser[m] = call[r].user
       THEN End(r)
       ELSE Goto(r, "findPending")
    /\ UNCHANGED tableVars

FindPending(r) ==
    /\ step[r] = "findPending"
    /\ IF \E i \in pending : inviteUser[i] = call[r].user
       THEN End(r)
       ELSE Goto(r, "insertInvitation")
    /\ UNCHANGED tableVars

InsertInvitation(r, i) ==
    /\ step[r] = "insertInvitation"
    /\ inviteRole[i] = None
    /\ IF org = "present"
       THEN /\ inviteUser' = [inviteUser EXCEPT ![i] = call[r].user]
            /\ inviteRole' = [inviteRole EXCEPT ![i] = call[r].name]
            /\ pending' = pending \cup {i}
       ELSE UNCHANGED inviteVars
    /\ End(r)
    /\ UNCHANGED <<org, roleVars, memberVars>>

DeleteInvitation(i) ==
    /\ i \in InvitationRows
    /\ DeleteInvitationRows({i})
    /\ UNCHANGED <<org, roleVars, memberVars, requestVars>>

\* The organization plugin of Better Auth turns an invitation into a member
\* with the role it names.
AcceptInvitation(i, m) ==
    /\ i \in pending
    /\ pending' = pending \ {i}
    /\ InsertMemberRow(m, inviteUser[i], inviteRole[i])
    /\ UNCHANGED <<org, roleVars, inviteUser, inviteRole, requestVars>>

-----------------------------------------------------------------------------
Receive(r) ==
    \/ /\ "addMember" \in Operations
       /\ \E u \in Users, n \in Names : BeginAddMember(r, u, n)
    \/ /\ "updateMemberRole" \in Operations
       /\ \E m \in Members, n \in Names : BeginUpdateMemberRole(r, m, n)
    \/ /\ "removeMember" \in Operations
       /\ \E m \in Members : BeginRemoveMember(r, m)
    \/ /\ "createInvitation" \in Operations
       /\ \E u \in Users, n \in Names : BeginCreateInvitation(r, u, n)
    \/ /\ "createRole" \in Operations
       /\ \E n \in Names : BeginCreateRole(r, n)
    \/ /\ "updateRole" \in Operations
       /\ \E x \in Roles, n \in Names : BeginRenameRole(r, x, n)
    \/ /\ "deleteRole" \in Operations
       /\ \E x \in Roles : BeginDeleteRole(r, x)
    \/ /\ "assignPermissions" \in Operations
       /\ \E m \in Members, x \in Roles, s \in {"grant", "revoke"} :
             BeginAssignPermissions(r, m, x, s)

Serve(r) ==
    \/ FindMember(r)
    \/ \E m \in Members : InsertMember(r, m)
    \/ UpdateMemberRole(r)
    \/ RemoveMember(r)
    \/ ManageRoles(r)
    \/ FindInvitee(r)
    \/ FindPending(r)
    \/ \E i \in Invitations : InsertInvitation(r, i)

Next ==
    \/ \E u \in Users, m \in Members : \/ CreateOrg(u, m)
                                       \/ AddUserToDefaultOrg(u, m)
    \/ DeleteOrg
    \/ \E i \in Invitations : \/ DeleteInvitation(i)
                              \/ \E m \in Members : AcceptInvitation(i, m)
    \/ \E r \in Requests : Receive(r) \/ Serve(r)

Spec == Init /\ [][Next]_vars

-----------------------------------------------------------------------------
\* Every variable has its type, and only role rows hold the permission.
TypeOK ==
    /\ org \in {"absent", "present", "deleted"}
    /\ roleName \in [Roles -> Names \cup {None, "deleted"}]
    /\ inviting \subseteq RoleRows
    /\ memberUser \in [Members -> Users \cup {None}]
    /\ memberRole \in [Members -> Names \cup {None, "deleted"}]
    /\ inviteUser \in [Invitations -> Users \cup {None}]
    /\ inviteRole \in [Invitations -> Names \cup {None, "deleted"}]
    /\ pending \subseteq InvitationRows
    /\ step \in [Requests -> Steps]
    /\ call \in [Requests -> [member : Members \cup {None},
                              role : Roles \cup {None},
                              name : Names \cup {None},
                              user : Users \cup {None},
                              seen : Names \cup {None}]]

\* The rows of a deleted organization are gone, and no request that was in
\* flight when it was deleted brings one back (addMember, createRole and
\* createInvitation write after their checks).
NothingOutlivesOrg ==
    org # "present" => RoleRows = {} /\ MemberRows = {} /\ InvitationRows = {}

\* A role name means one row: two requests that create or rename a role to
\* the same name cannot both succeed.
RoleNamesAreUnique ==
    \A x, y \in RoleRows : roleName[x] = roleName[y] => x = y

\* Every member and every pending invitation names a role that exists.
RolesOfMembersExist ==
    /\ \A m \in MemberRows : memberRole[m] \in RoleNames
    /\ \A i \in pending : inviteRole[i] \in RoleNames

\* A role is deleted only while no member and no invitation names it.
DeletedRolesAreUnused ==
    [][\A r \in Requests :
          DeleteRole(r) /\ call[r].role \in RoleRows
          => ~ InUse(roleName[call[r].role])]_vars

\* The member is held by the role row it named: renaming or deleting any
\* role never moves a member from one existing role to another.
MembersFollowTheirRole ==
    [][\A m \in Members, x \in Roles :
          (/\ m \in MemberRows /\ m \in MemberRows'
           /\ x \in RoleRows /\ x \in RoleRows'
           /\ memberRole[m] = roleName[x]
           /\ ~ \E r \in Requests : step[r] = "writeRole" /\ WriteRole(r))
          => memberRole'[m] = roleName'[x]]_vars

\* updateMemberRole (unless by a superadmin) and removeMember never leave
\* an organization without a member who may invite.
LastManagerStays ==
    [][\A r \in Requests \ Superadmins :
          (WriteRole(r) \/ DeleteMember(r)) /\ Managers # {}
          => Managers' # {}]_vars
=============================================================================
