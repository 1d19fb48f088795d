------------------------- MODULE OrgMembershipProofs -------------------------
(***************************************************************************)
(* Proofs about OrgMembership.  The first part holds for any number of     *)
(* concurrent requests: types, no row outlives the organization, a role    *)
(* name means one role, a member keeps its role when roles are renamed.    *)
(* The second part is what the checks of the services achieve when only    *)
(* one request is served at a time.                                        *)
(***************************************************************************)
EXTENDS OrgMembership, FiniteSetTheorems, TLAPS

\* The steps of a request that was given a role name.
Naming == {"findMember", "insertMember", "findForUpdate", "holderForUpdate",
           "countForUpdate", "newRole", "writeRole", "insertRole",
           "renameRole", "findInvitee", "findPending", "insertInvitation"}

Named == \A r \in Requests : step[r] \in Naming => call[r].name \in Names

Rows == TypeOK /\ Named /\ NothingOutlivesOrg /\ RoleNamesAreUnique

CallType == [member : Members \cup {None}, role : Roles \cup {None},
             name : Names \cup {None}, user : Users \cup {None},
             seen : Names \cup {None}]

\* What a step that only reads the tables does.
Reading(r) ==
    /\ UNCHANGED tableVars
    /\ \E s \in Steps, c \in CallType :
          (s \in Naming => c.name \in Names) /\ Keep(r, s, c)

LEMMA ReadingKeepsRows ==
    ASSUME Rows, NEW r \in Requests, Reading(r)
    PROVE  Rows'
  BY DEF Rows, Named, TypeOK, NothingOutlivesOrg, RoleNamesAreUnique, Reading,
         Keep, CallType, tableVars, roleVars, memberVars, inviteVars, RoleRows,
         MemberRows, InvitationRows

LEMMA ReceiveReads ==
    ASSUME Rows, NEW r \in Requests, Receive(r)
    PROVE  Reading(r)
  <1> USE OrgAssumption DEF Rows, TypeOK, Reading, CallType, Steps, NoCall,
                            Naming, Begin, RoleRows, MemberRows, RoleNames
  <1>1. ASSUME NEW u \in Users, NEW n \in Names, BeginAddMember(r, u, n)
        PROVE  Reading(r)
    BY <1>1 DEF BeginAddMember
  <1>2. ASSUME NEW m \in Members, NEW n \in Names,
               BeginUpdateMemberRole(r, m, n)
        PROVE  Reading(r)
    BY <1>2 DEF BeginUpdateMemberRole
  <1>3. ASSUME NEW m \in Members, BeginRemoveMember(r, m)
        PROVE  Reading(r)
    BY <1>3 DEF BeginRemoveMember
  <1>4. ASSUME NEW u \in Users, NEW n \in Names,
               BeginCreateInvitation(r, u, n)
        PROVE  Reading(r)
    BY <1>4 DEF BeginCreateInvitation
  <1>5. ASSUME NEW n \in Names, BeginCreateRole(r, n)
        PROVE  Reading(r)
    BY <1>5 DEF BeginCreateRole
  <1>6. ASSUME NEW x \in Roles, NEW n \in Names, BeginRenameRole(r, x, n)
        PROVE  Reading(r)
    BY <1>6 DEF BeginRenameRole
  <1>7. ASSUME NEW x \in Roles, BeginDeleteRole(r, x)
        PROVE  Reading(r)
    BY <1>7 DEF BeginDeleteRole
  <1>8. ASSUME NEW m \in Members, NEW x \in Roles,
               NEW s \in {"grant", "revoke"},
               BeginAssignPermissions(r, m, x, s)
        PROVE  Reading(r)
    <2>1. memberRole[m] \in Names /\ None \notin Names
      BY <1>8 DEF BeginAssignPermissions
    <2>2. [NoCall EXCEPT !.role = x, !.seen = memberRole[m]] \in CallType
      BY <2>1
    <2>3. (IF s = "grant" /\ r \notin Superadmins
           THEN "holderForGrant" ELSE s) \in Steps \ Naming
      OBVIOUS
    <2> QED
      BY <1>8, <2>2, <2>3, Zenon DEF BeginAssignPermissions
  <1> HIDE DEF Reading, Rows
  <1> QED
    BY <1>1, <1>2, <1>3, <1>4, <1>5, <1>6, <1>7, <1>8, Zenon DEF Receive

\* The steps that only read.
Lookup(r) ==
    \/ FindMember(r)
    \/ FindForUpdate(r)
    \/ HolderForUpdate(r)
    \/ CountForUpdate(r)
    \/ NewRole(r)
    \/ HolderForRemove(r)
    \/ CountForRemove(r)
    \/ CountUsage(r)
    \/ HolderForGrant(r)
    \/ FindInvitee(r)
    \/ FindPending(r)

LEMMA LookupReads ==
    ASSUME Rows, NEW r \in Requests, Lookup(r)
    PROVE  Reading(r)
  <1> USE OrgAssumption DEF Rows, Named, Naming, TypeOK, Reading, CallType,
                            Steps, NoCall, Goto, End, Keep, MemberRows
  <1>1. /\ call[r] \in CallType /\ NoCall \in CallType
        /\ call = [call EXCEPT ![r] = call[r]]
    OBVIOUS
  <1>2. CASE FindMember(r)
    BY <1>1, <1>2 DEF FindMember
  <1>3. CASE FindForUpdate(r)
    BY <1>1, <1>3 DEF FindForUpdate
  <1>4. CASE HolderForUpdate(r)
    BY <1>1, <1>4 DEF HolderForUpdate
  <1>5. CASE CountForUpdate(r)
    BY <1>1, <1>5 DEF CountForUpdate
  <1>6. CASE NewRole(r)
    BY <1>1, <1>6 DEF NewRole
  <1>7. CASE HolderForRemove(r)
    BY <1>1, <1>7 DEF HolderForRemove
  <1>8. CASE CountForRemove(r)
    BY <1>1, <1>8 DEF CountForRemove
  <1>9. CASE CountUsage(r)
    BY <1>1, <1>9 DEF CountUsage
  <1>10. CASE HolderForGrant(r)
    BY <1>1, <1>10 DEF HolderForGrant
  <1>11. CASE FindInvitee(r)
    BY <1>1, <1>11 DEF FindInvitee
  <1>12. CASE FindPending(r)
    BY <1>1, <1>12 DEF FindPending
  <1> QED
    BY <1>2, <1>3, <1>4, <1>5, <1>6, <1>7, <1>8, <1>9, <1>10, <1>11, <1>12
       DEF Lookup

-----------------------------------------------------------------------------
\* The steps that write.  Each keeps the types and the two row invariants.
LEMMA WritesKeepRows ==
    ASSUME Rows, [Next]_vars
    PROVE  Rows'
  <1> USE OrgAssumption DEF Rows, Named, TypeOK, NothingOutlivesOrg,
          RoleNamesAreUnique, RoleRows, MemberRows, InvitationRows, roleVars,
          memberVars, inviteVars, requestVars, DefaultRoles, DefaultNames
  <1>0. /\ NoCall \in CallType
        /\ "idle" \in Steps /\ "idle" \notin Naming
        /\ \A r \in Requests : call[r] \in CallType
    BY DEF NoCall, CallType, Steps, Naming
  <1>1. ASSUME NEW u \in Users, NEW m \in Members, CreateOrg(u, m)
        PROVE  Rows'
    BY <1>1 DEF CreateOrg, InsertMemberRow
  <1>2. ASSUME NEW u \in Users, NEW m \in Members, AddUserToDefaultOrg(u, m)
        PROVE  Rows'
    BY <1>2 DEF AddUserToDefaultOrg, InsertMemberRow
  <1>3. CASE DeleteOrg
    BY <1>3 DEF DeleteOrg, DeleteMemberRows, DeleteInvitationRows
  <1>4. ASSUME NEW i \in Invitations, DeleteInvitation(i)
        PROVE  Rows'
    BY <1>4 DEF DeleteInvitation, DeleteInvitationRows
  <1>5. ASSUME NEW i \in Invitations, NEW m \in Members,
               AcceptInvitation(i, m)
        PROVE  Rows'
    BY <1>5 DEF AcceptInvitation, InsertMemberRow
  <1>6. ASSUME NEW r \in Requests, Receive(r)
        PROVE  Rows'
    BY <1>6, ReceiveReads, ReadingKeepsRows
  <1>7. ASSUME NEW r \in Requests, Serve(r)
        PROVE  Rows'
    <2> USE <1>0 DEF End, Keep, CallType
    <2>1. CASE Lookup(r)
      BY <2>1, LookupReads, ReadingKeepsRows
    <2>2. ASSUME NEW m \in Members, InsertMember(r, m)
          PROVE  Rows'
      BY <2>2 DEF InsertMember, InsertMemberRow
    <2>3. CASE WriteRole(r)
      BY <2>3 DEF WriteRole
    <2>4. CASE DeleteMember(r)
      BY <2>4 DEF DeleteMember, DeleteMemberRows
    <2>5. ASSUME NEW x \in Roles, InsertRole(r, x)
          PROVE  Rows'
      BY <2>5 DEF InsertRole, RoleNames
    <2>6. CASE RenameRole(r)
      <3> DEFINE x == call[r].role
                 n == call[r].name
      <3>1. n \in Names /\ step' \in [Requests -> Steps] /\ Named'
            /\ call' \in [Requests -> CallType]
        BY <2>6 DEF RenameRole, Naming
      <3>2. CASE ~ (x \in RoleRows /\ n \notin RoleNames)
        BY <2>6, <3>1, <3>2 DEF RenameRole
      <3>3. CASE x \in RoleRows /\ n \notin RoleNames
        <4>1. /\ roleName' = [roleName EXCEPT ![x] = n]
              /\ memberRole' = Renamed(memberRole, roleName[x], n)
              /\ inviteRole' = Renamed(inviteRole, roleName[x], n)
              /\ UNCHANGED <<org, inviting, memberUser, inviteUser, pending>>
          BY <2>6, <3>3 DEF RenameRole, RenameAndCascade
        <4>2. /\ RoleRows' = RoleRows
              /\ roleName' \in [Roles -> Names \cup {None, "deleted"}]
          BY <3>1, <3>3, <4>1
        <4>3. /\ MemberRows' = MemberRows
              /\ memberRole' \in [Members -> Names \cup {None, "deleted"}]
          BY <3>1, <3>3, <4>1 DEF Renamed
        <4>4. /\ InvitationRows' = InvitationRows
              /\ inviteRole' \in [Invitations -> Names \cup {None, "deleted"}]
          BY <3>1, <3>3, <4>1 DEF Renamed
        <4>5. RoleNamesAreUnique'
          BY <3>3, <4>1, <4>2 DEF RoleNames
        <4> HIDE DEF RoleRows, MemberRows, InvitationRows, Named,
                     RoleNamesAreUnique
        <4> QED
          BY <3>1, <4>1, <4>2, <4>3, <4>4, <4>5
      <3> QED
        BY <3>2, <3>3
    <2>7. CASE DeleteRole(r)
      BY <2>7 DEF DeleteRole
    <2>8. CASE SetPermissions(r)
      BY <2>8 DEF SetPermissions
    <2>9. ASSUME NEW i \in Invitations, InsertInvitation(r, i)
          PROVE  Rows'
      <3>1. call[r].name \in Names /\ step' \in [Requests -> Steps] /\ Named'
            /\ call' \in [Requests -> CallType]
        BY <2>9 DEF InsertInvitation, Naming
      <3>2. CASE org # "present"
        BY <2>9, <3>1, <3>2 DEF InsertInvitation
      <3>3. CASE org = "present"
        <4>1. /\ inviteUser' \in [Invitations -> Users \cup {None}]
              /\ inviteRole' \in [Invitations -> Names \cup {None, "deleted"}]
          BY <2>9, <3>1, <3>3 DEF InsertInvitation
        <4>2. pending' \subseteq InvitationRows'
          BY <2>9, <3>1, <3>3 DEF InsertInvitation
        <4> QED
          BY <2>9, <3>1, <3>3, <4>1, <4>2 DEF InsertInvitation
      <3> QED
        BY <3>2, <3>3
    <2> HIDE DEF Rows, End, Keep
    <2> QED
      BY <1>7, <2>1, <2>2, <2>3, <2>4, <2>5, <2>6, <2>7, <2>8, <2>9, Zenon
         DEF Serve, Lookup, UpdateMemberRole, RemoveMember, ManageRoles
  <1>8. CASE UNCHANGED vars
    BY <1>8 DEF vars, tableVars
  <1> HIDE DEF Rows
  <1> QED
    BY <1>1, <1>2, <1>3, <1>4, <1>5, <1>6, <1>7, <1>8, Zenon DEF Next

LEMMA InitRows == Init => Rows
  BY OrgAssumption
     DEF Init, Rows, Named, Naming, TypeOK, NothingOutlivesOrg,
         RoleNamesAreUnique, RoleRows, MemberRows, InvitationRows, NoCall,
         Steps

LEMMA RowsInvariant == Spec => []Rows
  BY InitRows, WritesKeepRows, PTL DEF Spec

\* Every reachable state is well typed, for any number of requests.
THEOREM TypeCorrectness == Spec => []TypeOK
  BY RowsInvariant, PTL DEF Rows

\* No request that was in flight when an organization was deleted leaves a
\* member, an invitation or a role behind.
THEOREM DeletedOrgIsEmpty == Spec => []NothingOutlivesOrg
  BY RowsInvariant, PTL DEF Rows

\* However creations and renames interleave, a name means one role.
THEOREM UniqueRoleNames == Spec => []RoleNamesAreUnique
  BY RowsInvariant, PTL DEF Rows

-----------------------------------------------------------------------------
\* A step other than a change of a member's role keeps every member that
\* stays with the role row that it named.
Follow ==
    \A m \in Members, x \in Roles :
       (/\ m \in MemberRows /\ m \in MemberRows'
        /\ x \in RoleRows /\ x \in RoleRows'
        /\ memberRole[m] = roleName[x])
       => memberRole'[m] = roleName'[x]

LEMMA ServeFollows ==
    ASSUME Rows, NEW r \in Requests, Serve(r), ~ WriteRole(r)
    PROVE  Follow
  <1> USE OrgAssumption DEF Rows, TypeOK, Follow, RoleRows, MemberRows,
          roleVars, memberVars
  <1>1. CASE Lookup(r)
    <2>1. UNCHANGED tableVars
      BY <1>1, LookupReads DEF Reading
    <2> QED
      BY <2>1 DEF tableVars
  <1>2. ASSUME NEW m \in Members, InsertMember(r, m)
        PROVE  Follow
    BY <1>2 DEF InsertMember, InsertMemberRow
  <1>3. CASE DeleteMember(r)
    BY <1>3 DEF DeleteMember, DeleteMemberRows
  <1>4. ASSUME NEW x \in Roles, InsertRole(r, x)
        PROVE  Follow
    BY <1>4 DEF InsertRole
  <1>5. CASE RenameRole(r)
    <2>1. CASE ~ (call[r].role \in RoleRows /\ call[r].name \notin RoleNames)
      BY <1>5, <2>1 DEF RenameRole
    <2>2. CASE call[r].role \in RoleRows /\ call[r].name \notin RoleNames
      BY <1>5, <2>2
         DEF RenameRole, RenameAndCascade, Renamed, RoleNamesAreUnique
    <2> QED
      BY <2>1, <2>2
  <1>6. CASE DeleteRole(r)
    BY <1>6 DEF DeleteRole
  <1>7. CASE SetPermissions(r)
    BY <1>7 DEF SetPermissions
  <1>8. ASSUME NEW i \in Invitations, InsertInvitation(r, i)
        PROVE  Follow
    BY <1>8 DEF InsertInvitation
  <1> HIDE DEF Rows, Follow
  <1> QED
    BY <1>1, <1>2, <1>3, <1>4, <1>5, <1>6, <1>7, <1>8, Zenon
       DEF Serve, Lookup, UpdateMemberRole, RemoveMember, ManageRoles

LEMMA OthersFollow ==
    ASSUME Rows, [Next]_vars, ~ \E r \in Requests : Serve(r)
    PROVE  Follow
  <1> USE OrgAssumption DEF Rows, TypeOK, Follow, RoleRows, MemberRows,
          roleVars, memberVars
  <1>1. ASSUME NEW u \in Users, NEW m \in Members, CreateOrg(u, m)
        PROVE  Follow
    BY <1>1 DEF CreateOrg, InsertMemberRow, NothingOutlivesOrg
  <1>2. ASSUME NEW u \in Users, NEW m \in Members, AddUserToDefaultOrg(u, m)
        PROVE  Follow
    BY <1>2 DEF AddUserToDefaultOrg, InsertMemberRow
  <1>3. CASE DeleteOrg
    BY <1>3 DEF DeleteOrg, DeleteMemberRows
  <1>4. ASSUME NEW i \in Invitations, DeleteInvitation(i)
        PROVE  Follow
    BY <1>4 DEF DeleteInvitation
  <1>5. ASSUME NEW i \in Invitations, NEW m \in Members,
               AcceptInvitation(i, m)
        PROVE  Follow
    BY <1>5 DEF AcceptInvitation, InsertMemberRow
  <1>6. ASSUME NEW r \in Requests, Receive(r)
        PROVE  Follow
    <2>1. UNCHANGED tableVars
      BY <1>6, ReceiveReads DEF Reading
    <2> QED
      BY <2>1 DEF tableVars
  <1>7. CASE UNCHANGED vars
    BY <1>7 DEF vars, tableVars
  <1> HIDE DEF Rows, Follow
  <1> QED
    BY <1>1, <1>2, <1>3, <1>4, <1>5, <1>6, <1>7, Zenon DEF Next

\* Renaming and deleting roles never moves a member from one role to
\* another, whatever else is in flight.
THEOREM MembersKeepTheirRole == Spec => MembersFollowTheirRole
  <1>1. ASSUME Rows, [Next]_vars,
               ~ \E r \in Requests : step[r] = "writeRole" /\ WriteRole(r)
        PROVE  Follow
    <2>1. CASE \E r \in Requests : Serve(r)
      BY <1>1, <2>1, ServeFollows DEF WriteRole
    <2>2. CASE ~ \E r \in Requests : Serve(r)
      BY <1>1, <2>2, OthersFollow
    <2> QED
      BY <2>1, <2>2
  <1>2. Rows /\ [Next]_vars
        => [\A m \in Members, x \in Roles :
              (/\ m \in MemberRows /\ m \in MemberRows'
               /\ x \in RoleRows /\ x \in RoleRows'
               /\ memberRole[m] = roleName[x]
               /\ ~ \E r \in Requests : step[r] = "writeRole" /\ WriteRole(r))
              => memberRole'[m] = roleName'[x]]_vars
    BY <1>1 DEF Follow
  <1> QED
    BY RowsInvariant, <1>2, PTL DEF Spec, MembersFollowTheirRole

-----------------------------------------------------------------------------
\* One request at a time: what a request has read still holds when it
\* writes, so the checks of the services do what they say.
BeforeOrg(r) == org = "absent" => step[r] \in {"idle", "insertRole"}

MemberNaming == Naming \ {"insertRole", "renameRole"}

\* The role a request is about to assign exists; the one it is about to
\* delete is unused.
Checked(r) ==
    org = "present" =>
       /\ step[r] \in MemberNaming => call[r].name \in RoleNames
       /\ step[r] = "countUsage" => /\ call[r].role \in RoleRows
                                    /\ call[r].seen = roleName[call[r].role]
       /\ step[r] = "deleteRole" => /\ call[r].role \in RoleRows
                                    /\ ~ InUse(roleName[call[r].role])

Serial(r) == Rows /\ BeforeOrg(r) /\ Checked(r) /\ RolesOfMembersExist

LEMMA ReceiveIsChecked ==
    ASSUME NEW r \in Requests, Serial(r), Receive(r)
    PROVE  Serial(r)'
  <1>1. Rows' /\ UNCHANGED tableVars
    BY ReceiveReads, ReadingKeepsRows DEF Serial, Reading
  <1>2. /\ BeforeOrg(r) /\ RolesOfMembersExist /\ NothingOutlivesOrg
        /\ step \in [Requests -> Steps] /\ DOMAIN call = Requests
    BY DEF Serial, Rows, TypeOK
  <1>3. org' = org /\ RoleNames' = RoleNames /\ RoleRows' = RoleRows
        /\ roleName' = roleName /\ RolesOfMembersExist'
    BY <1>1, <1>2 DEF tableVars, roleVars, memberVars, inviteVars, RoleNames,
                      RoleRows, RolesOfMembersExist, MemberRows
  <1> USE <1>2, <1>3 DEF BeforeOrg, Checked, NothingOutlivesOrg, Begin, Keep,
                         NoCall, MemberNaming, Naming
  <1>4. BeforeOrg(r)' /\ Checked(r)'
    <2>1. ASSUME NEW u \in Users, NEW n \in Names,
                 BeginAddMember(r, u, n) \/ BeginCreateInvitation(r, u, n)
          PROVE  BeforeOrg(r)' /\ Checked(r)'
      BY <2>1 DEF BeginAddMember, BeginCreateInvitation, RoleNames
    <2>2. ASSUME NEW m \in Members, NEW n \in Names,
                 BeginUpdateMemberRole(r, m, n)
          PROVE  BeforeOrg(r)' /\ Checked(r)'
      BY <2>2 DEF BeginUpdateMemberRole, RoleNames
    <2>3. ASSUME NEW m \in Members, BeginRemoveMember(r, m)
          PROVE  BeforeOrg(r)' /\ Checked(r)'
      BY <2>3 DEF BeginRemoveMember
    <2>4. ASSUME NEW n \in Names, BeginCreateRole(r, n)
          PROVE  BeforeOrg(r)' /\ Checked(r)'
      BY <2>4 DEF BeginCreateRole
    <2>5. ASSUME NEW x \in Roles, NEW n \in Names, BeginRenameRole(r, x, n)
          PROVE  BeforeOrg(r)' /\ Checked(r)'
      BY <2>5 DEF BeginRenameRole
    <2>6. ASSUME NEW x \in Roles, BeginDeleteRole(r, x)
          PROVE  BeforeOrg(r)' /\ Checked(r)'
      BY <2>6 DEF BeginDeleteRole
    <2>7. ASSUME NEW m \in Members, NEW x \in Roles,
                 NEW s \in {"grant", "revoke"},
                 BeginAssignPermissions(r, m, x, s)
          PROVE  BeforeOrg(r)' /\ Checked(r)'
      <3>1. step'[r] \in {"holderForGrant", "grant", "revoke"}
        BY <2>7 DEF BeginAssignPermissions
      <3>2. x \in RoleRows
        BY <2>7 DEF BeginAssignPermissions
      <3> QED
        BY <3>1, <3>2
    <2> QED
      BY <2>1, <2>2, <2>3, <2>4, <2>5, <2>6, <2>7, Zenon DEF Receive
  <1> QED
    BY <1>1, <1>3, <1>4 DEF Serial

LEMMA ServeIsChecked ==
    ASSUME NEW r \in Requests, Serial(r), Serve(r)
    PROVE  Serial(r)'
  <1>1. Rows' /\ Rows
    BY WritesKeepRows DEF Serial, Next
  <1>2. /\ BeforeOrg(r) /\ RolesOfMembersExist /\ NothingOutlivesOrg
        /\ Checked(r)
        /\ step \in [Requests -> Steps] /\ DOMAIN call = Requests
        /\ roleName \in [Roles -> Names \cup {None, "deleted"}]
        /\ memberRole \in [Members -> Names \cup {None, "deleted"}]
        /\ inviteRole \in [Invitations -> Names \cup {None, "deleted"}]
        /\ pending \subseteq InvitationRows
        /\ org \in {"absent", "present", "deleted"}
    BY DEF Serial, Rows, TypeOK
  <1> USE OrgAssumption
  <1>3. CASE Lookup(r)
    <2>1. UNCHANGED tableVars
      BY <1>1, <1>3, LookupReads DEF Reading
    <2>2. /\ org' = org /\ RoleNames' = RoleNames /\ RoleRows' = RoleRows
          /\ roleName' = roleName /\ RolesOfMembersExist'
          /\ \A n : InUse(n)' = InUse(n)
      BY <1>2, <2>1 DEF tableVars, roleVars, memberVars, inviteVars,
         RoleNames, RoleRows, RolesOfMembersExist, MemberRows,
         InvitationRows, InUse
    <2>3. BeforeOrg(r)' /\ Checked(r)'
      <3> USE <1>2, <2>2 DEF Goto, Keep, End, BeforeOrg, Checked, MemberNaming,
                             Naming, NoCall
      <3>1. CASE FindMember(r) \/ FindInvitee(r) \/ FindPending(r)
        BY <3>1 DEF FindMember, FindInvitee, FindPending
      <3>2. CASE FindForUpdate(r)
        <4>1. step[r] = "findForUpdate"
              /\ \/ step'[r] = "idle"
                 \/ /\ step'[r] \in {"writeRole", "holderForUpdate"}
                    /\ call'[r].name = call[r].name
          BY <1>1, <3>2 DEF FindForUpdate, Rows, TypeOK
        <4> QED
          BY <4>1
      <3>3. CASE HolderForUpdate(r) \/ CountForUpdate(r) \/ NewRole(r)
        BY <3>3 DEF HolderForUpdate, CountForUpdate, NewRole
      <3>4. CASE HolderForRemove(r) \/ CountForRemove(r)
        BY <3>4 DEF HolderForRemove, CountForRemove
      <3>5. CASE CountUsage(r)
        BY <3>5 DEF CountUsage
      <3>6. CASE HolderForGrant(r)
        BY <3>6 DEF HolderForGrant
      <3> QED
        BY <1>3, <3>1, <3>2, <3>3, <3>4, <3>5, <3>6, Zenon DEF Lookup
    <2> QED
      BY <1>1, <2>2, <2>3 DEF Serial
  <1>4. CASE ~ Lookup(r)
    <2>1. step'[r] = "idle"
      BY <1>2, <1>4
         DEF Serve, Lookup, UpdateMemberRole, RemoveMember, ManageRoles,
             InsertMember, WriteRole, DeleteMember, InsertRole, RenameRole,
             DeleteRole, SetPermissions, InsertInvitation, End, Keep
    <2>2. BeforeOrg(r)' /\ Checked(r)'
      BY <2>1 DEF BeforeOrg, Checked, MemberNaming, Naming
    <2>3. RolesOfMembersExist'
      <3> USE <1>1, <1>2 DEF RolesOfMembersExist, RoleNames, RoleRows,
              MemberRows, Checked, NothingOutlivesOrg, roleVars, memberVars,
              inviteVars, MemberNaming, Naming
      <3>1. ASSUME NEW m \in Members, InsertMember(r, m)
            PROVE  RolesOfMembersExist'
        BY <3>1 DEF InsertMember, InsertMemberRow
      <3>2. CASE WriteRole(r)
        BY <3>2 DEF WriteRole
      <3>3. CASE DeleteMember(r)
        BY <3>3 DEF DeleteMember, DeleteMemberRows
      <3>4. ASSUME NEW x \in Roles, InsertRole(r, x)
            PROVE  RolesOfMembersExist'
        BY <3>4 DEF InsertRole
      <3>5. CASE RenameRole(r)
        <4> DEFINE x == call[r].role
                   n == call[r].name
        <4>1. CASE ~ (x \in RoleRows /\ n \notin RoleNames)
          BY <3>5, <4>1 DEF RenameRole
        <4>2. CASE x \in RoleRows /\ n \notin RoleNames
          <5>1. /\ n \in Names
                /\ roleName' = [roleName EXCEPT ![x] = n]
                /\ memberRole' = [m \in Members |->
                       IF memberRole[m] = roleName[x] THEN n ELSE memberRole[m]]
                /\ inviteRole' = [i \in Invitations |->
                       IF inviteRole[i] = roleName[x] THEN n ELSE inviteRole[i]]
                /\ pending' = pending
            BY <3>5, <4>2
               DEF RenameRole, RenameAndCascade, Renamed, Rows, Named
          <5>2. /\ n \in RoleNames'
                /\ \A k \in RoleNames : k # roleName[x] => k \in RoleNames'
            BY <4>2, <5>1
          <5>3. \A m \in Members : memberRole'[m] \in Names
                                   => memberRole'[m] \in RoleNames'
            BY <4>2, <5>1, <5>2
          <5>4. \A i \in pending : inviteRole'[i] \in RoleNames'
            BY <4>2, <5>1, <5>2 DEF InvitationRows
          <5> QED
            BY <5>1, <5>3, <5>4
        <4> QED
          BY <4>1, <4>2
      <3>6. CASE DeleteRole(r)
        <4>1. CASE org # "present"
          BY <3>6, <4>1 DEF DeleteRole, InvitationRows
        <4>2. CASE org = "present"
          <5> DEFINE x == call[r].role
          <5>1. /\ x \in RoleRows /\ ~ InUse(roleName[x])
                /\ roleName' = [roleName EXCEPT ![x] = "deleted"]
                /\ memberRole' = memberRole /\ inviteRole' = inviteRole
                /\ pending' = pending
            BY <3>6, <4>2 DEF DeleteRole
          <5>2. \A k \in RoleNames : k # roleName[x] => k \in RoleNames'
            BY <5>1
          <5> QED
            BY <5>1, <5>2 DEF InUse, InvitationRows
        <4> QED
          BY <4>1, <4>2
      <3>7. CASE SetPermissions(r)
        BY <3>7 DEF SetPermissions
      <3>8. ASSUME NEW i \in Invitations, InsertInvitation(r, i)
            PROVE  RolesOfMembersExist'
        <4>1. /\ roleName' = roleName /\ memberRole' = memberRole
              /\ call[r].name \in Names
          BY <3>8 DEF InsertInvitation, Rows, Named
        <4>2. CASE org # "present"
          BY <3>8, <4>1, <4>2 DEF InsertInvitation
        <4>3. CASE org = "present"
          <5>1. /\ call[r].name \in RoleNames
                /\ pending' = pending \cup {i}
                /\ inviteRole' = [inviteRole EXCEPT ![i] = call[r].name]
            BY <3>8, <4>3 DEF InsertInvitation
          <5> QED
            BY <4>1, <5>1
        <4> QED
          BY <4>2, <4>3
      <3> HIDE DEF RolesOfMembersExist
      <3> QED
        BY <1>4, <3>1, <3>2, <3>3, <3>4, <3>5, <3>6, <3>7, <3>8, Zenon
           DEF Serve, Lookup, UpdateMemberRole, RemoveMember, ManageRoles
    <2> QED
      BY <1>1, <2>2, <2>3 DEF Serial
  <1> QED
    BY <1>3, <1>4

\* The steps that are not of a request.
Elsewhere ==
    \/ \E u \in Users, m \in Members : \/ CreateOrg(u, m)
                                       \/ AddUserToDefaultOrg(u, m)
    \/ DeleteOrg
    \/ \E i \in Invitations : \/ DeleteInvitation(i)
                              \/ \E m \in Members : AcceptInvitation(i, m)

LEMMA ElsewhereIsChecked ==
    ASSUME NEW r \in Requests, Serial(r), Elsewhere, ~ IsDefaultOrg
    PROVE  Serial(r)'
  <1>1. Rows' /\ Rows
    BY WritesKeepRows DEF Serial, Next, Elsewhere
  <1> USE OrgAssumption, <1>1
      DEF Serial, Rows, TypeOK, NothingOutlivesOrg, BeforeOrg, Checked,
          RolesOfMembersExist, RoleNames, RoleRows, MemberRows,
          InvitationRows, InUse, MemberNaming, Naming, roleVars, memberVars,
          inviteVars, requestVars
  <1>2. ASSUME NEW u \in Users, NEW m \in Members, CreateOrg(u, m)
        PROVE  Serial(r)'
    <2>1. step'[r] \in {"idle", "insertRole"}
      BY <1>2 DEF CreateOrg
    <2>2. BeforeOrg(r)' /\ Checked(r)'
      BY <2>1
    <2>3. RolesOfMembersExist'
      BY <1>2 DEF CreateOrg, InsertMemberRow, DefaultRoles, DefaultNames
    <2> HIDE DEF Serial
    <2> QED
      BY <2>2, <2>3 DEF Serial
  <1>3. ASSUME NEW u \in Users, NEW m \in Members, AddUserToDefaultOrg(u, m)
        PROVE  Serial(r)'
    BY <1>3 DEF AddUserToDefaultOrg
  <1>4. CASE DeleteOrg
    BY <1>4 DEF DeleteOrg, DeleteMemberRows, DeleteInvitationRows
  <1>5. ASSUME NEW i \in Invitations, DeleteInvitation(i)
        PROVE  Serial(r)'
    BY <1>5 DEF DeleteInvitation, DeleteInvitationRows
  <1>6. ASSUME NEW i \in Invitations, NEW m \in Members,
               AcceptInvitation(i, m)
        PROVE  Serial(r)'
    BY <1>6 DEF AcceptInvitation, InsertMemberRow
  <1> HIDE DEF Serial
  <1> QED
    BY <1>2, <1>3, <1>4, <1>5, <1>6, Zenon DEF Elsewhere

\* One request at a time, in an organization that is not the default one of
\* the signup hook, no member is left with a role that does not exist.
THEOREM SerialRolesExist ==
    ASSUME NEW r \in Requests, Requests = {r}, ~ IsDefaultOrg
    PROVE  Spec => []RolesOfMembersExist
  <1>1. Init => Serial(r)
    BY InitRows, OrgAssumption
       DEF Init, Serial, BeforeOrg, Checked, RolesOfMembersExist, MemberRows
  <1>2. Serial(r) /\ [Next]_vars => Serial(r)'
    <2> SUFFICES ASSUME Serial(r), [Next]_vars
                 PROVE  Serial(r)'
      OBVIOUS
    <2>1. CASE Elsewhere
      BY <2>1, ElsewhereIsChecked
    <2>2. CASE Receive(r)
      BY <2>2, ReceiveIsChecked
    <2>3. CASE Serve(r)
      BY <2>3, ServeIsChecked
    <2>4. CASE UNCHANGED vars
      <3>1. Rows'
        BY <2>4, WritesKeepRows DEF Serial
      <3> QED
        BY <2>4, <3>1
           DEF vars, tableVars, requestVars, roleVars, memberVars, inviteVars,
               Serial, BeforeOrg, Checked, RolesOfMembersExist, MemberRows,
               RoleNames, RoleRows, InUse, InvitationRows
    <2> QED
      BY <2>1, <2>2, <2>3, <2>4 DEF Next, Elsewhere
  <1>3. Serial(r) => RolesOfMembersExist
    BY DEF Serial
  <1> QED
    BY <1>1, <1>2, <1>3, PTL DEF Spec

-----------------------------------------------------------------------------
\* The same for the last-member checks: what a request knows about the
\* managers between its count and its write.
ToldApart == {"holderForUpdate", "countForUpdate",
              "holderForRemove", "countForRemove"}
Targeting == ToldApart \cup {"newRole", "writeRole", "deleteMember"}

InvitingNames == {roleName[x] : x \in RoleRows \cap inviting}

Spared(m) == Managers \ {m} # {} \/ memberRole[m] \notin InvitingNames

Counted(r) ==
    org = "present" =>
       /\ step[r] \in Targeting => call[r].member \in MemberRows
       /\ step[r] \in ToldApart => call[r].seen = memberRole[call[r].member]
       /\ step[r] = "writeRole" => \/ Spared(call[r].member)
                                   \/ call[r].name \in InvitingNames
       /\ step[r] = "deleteMember" => Spared(call[r].member)

SerialCount(r) == Rows /\ BeforeOrg(r) /\ Counted(r)

LEMMA InvitingNamesGrant == \A n : Grants(n) <=> n \in InvitingNames
  BY DEF Grants, InvitingNames

LEMMA MoreThanOne ==
    ASSUME Rows, NEW m, ~ (Cardinality(Managers) <= 1)
    PROVE  Managers \ {m} # {}
  <1>1. Managers \subseteq Members
    BY DEF Managers, MemberRows
  <1>2. IsFiniteSet(Managers)
    BY <1>1, OrgAssumption, FS_Subset
  <1>3. ASSUME Managers \ {m} = {} PROVE FALSE
    <2>1. Managers \subseteq {m}
      BY <1>3
    <2>2. Cardinality(Managers) <= Cardinality({m}) /\ Cardinality({m}) = 1
      BY <2>1, FS_Subset, FS_Singleton
    <2>3. Cardinality(Managers) \in Nat
      BY <1>2, FS_CardinalityType
    <2> QED
      BY <2>2, <2>3
  <1> QED
    BY <1>3

LEMMA RequestIsCounted ==
    ASSUME NEW r \in Requests \ Superadmins, SerialCount(r),
           Receive(r) \/ Serve(r)
    PROVE  SerialCount(r)'
  <1>1. Rows' /\ Rows
    BY WritesKeepRows DEF SerialCount, Next
  <1>2. /\ BeforeOrg(r) /\ NothingOutlivesOrg /\ Counted(r)
        /\ step \in [Requests -> Steps] /\ DOMAIN call = Requests
        /\ call \in [Requests -> CallType]
        /\ org \in {"absent", "present", "deleted"}
    BY DEF SerialCount, Rows, TypeOK, CallType
  <1>3. CASE Receive(r) \/ Lookup(r)
    <2>1. UNCHANGED tableVars
      BY <1>1, <1>3, ReceiveReads, LookupReads DEF Reading
    <2>2. /\ org' = org /\ MemberRows' = MemberRows
          /\ memberRole' = memberRole /\ Managers' = Managers
          /\ InvitingNames' = InvitingNames
      BY <2>1 DEF tableVars, roleVars, memberVars, Managers, Grants,
                  InvitingNames, MemberRows, RoleRows
    <2> USE <1>2, <2>2, InvitingNamesGrant
        DEF Spared, Goto, Keep, End, Begin, BeforeOrg, Counted, Targeting,
            ToldApart, NoCall, CallType, NothingOutlivesOrg
    <2>3. CASE Receive(r)
      <3>1. \/ step'[r] \in {"findMember", "findInvitee", "findForUpdate",
                             "renameRole", "countUsage", "holderForGrant",
                             "grant", "revoke"} /\ org # "absent"
            \/ step'[r] = "insertRole"
            \/ \E m \in Members : BeginRemoveMember(r, m)
        BY <2>3
           DEF Receive, BeginAddMember, BeginCreateInvitation,
               BeginUpdateMemberRole, BeginCreateRole, BeginRenameRole,
               BeginDeleteRole, BeginAssignPermissions, RoleNames
      <3>2. ASSUME NEW m \in Members, BeginRemoveMember(r, m)
            PROVE  BeforeOrg(r)' /\ Counted(r)'
        BY <3>2 DEF BeginRemoveMember
      <3>3. BeforeOrg(r)' /\ Counted(r)'
        BY <3>1, <3>2
      <3> QED
        BY <1>1, <3>3 DEF SerialCount
    <2>4. CASE Lookup(r)
      <3> SUFFICES BeforeOrg(r)' /\ Counted(r)'
        BY <1>1 DEF SerialCount
      <3>1. CASE FindMember(r) \/ FindInvitee(r) \/ FindPending(r)
                 \/ CountUsage(r) \/ HolderForGrant(r)
        BY <3>1 DEF FindMember, FindInvitee, FindPending, CountUsage,
                    HolderForGrant
      <3>2. CASE FindForUpdate(r)
        <4>1. step[r] = "findForUpdate"
              /\ \/ step'[r] = "idle"
                 \/ /\ step'[r] = "holderForUpdate"
                    /\ call[r].member \in MemberRows
                    /\ call'[r].member = call[r].member
                    /\ call'[r].seen = memberRole[call[r].member]
          BY <3>2 DEF FindForUpdate
        <4> QED
          BY <4>1
      <3>3. CASE HolderForUpdate(r)
        BY <3>3 DEF HolderForUpdate
      <3>4. CASE CountForUpdate(r)
        BY <1>1, <3>4, MoreThanOne DEF CountForUpdate
      <3>5. CASE NewRole(r)
        BY <3>5 DEF NewRole
      <3>6. CASE HolderForRemove(r)
        BY <3>6 DEF HolderForRemove
      <3>7. CASE CountForRemove(r)
        BY <1>1, <3>7, MoreThanOne DEF CountForRemove
      <3> QED
        BY <2>4, <3>1, <3>2, <3>3, <3>4, <3>5, <3>6, <3>7, Zenon DEF Lookup
    <2> QED
      BY <1>3, <2>3, <2>4
  <1>4. CASE Serve(r) /\ ~ Lookup(r)
    <2>1. step'[r] = "idle"
      BY <1>2, <1>4
         DEF Serve, Lookup, UpdateMemberRole, RemoveMember, ManageRoles,
             InsertMember, WriteRole, DeleteMember, InsertRole, RenameRole,
             DeleteRole, SetPermissions, InsertInvitation, End, Keep
    <2> QED
      BY <1>1, <2>1 DEF SerialCount, BeforeOrg, Counted, Targeting, ToldApart
  <1> QED
    BY <1>3, <1>4

LEMMA ElsewhereIsCounted ==
    ASSUME NEW r \in Requests, SerialCount(r), Elsewhere
    PROVE  SerialCount(r)'
  <1>1. Rows' /\ Rows
    BY WritesKeepRows DEF SerialCount, Next, Elsewhere
  <1>2. UNCHANGED requestVars
    BY DEF Elsewhere, CreateOrg, AddUserToDefaultOrg, DeleteOrg,
           DeleteInvitation, AcceptInvitation
  <1>3. CASE DeleteOrg
    BY <1>1, <1>2, <1>3
       DEF DeleteOrg, SerialCount, BeforeOrg, Counted, requestVars
  <1>4. CASE org = "absent"
    <2>1. step'[r] \in {"idle", "insertRole"}
      BY <1>2, <1>4 DEF SerialCount, BeforeOrg, requestVars
    <2> QED
      BY <1>1, <2>1 DEF SerialCount, BeforeOrg, Counted, Targeting, ToldApart
  <1>5. CASE org = "present" /\ ~ DeleteOrg
    <2>1. org' = org /\ roleName' = roleName /\ inviting' = inviting
      BY <1>5 DEF Elsewhere, CreateOrg, AddUserToDefaultOrg, DeleteInvitation,
                  AcceptInvitation, roleVars
    <2>2. \A m \in MemberRows : m \in MemberRows'
                               /\ memberRole'[m] = memberRole[m]
      <3> USE <1>1, <1>5, OrgAssumption
          DEF InsertMemberRow, memberVars, MemberRows, Rows, TypeOK
      <3>1. ASSUME NEW u \in Users, NEW k \in Members,
                   AddUserToDefaultOrg(u, k)
            PROVE  \A m \in MemberRows : m \in MemberRows'
                                        /\ memberRole'[m] = memberRole[m]
        BY <3>1 DEF AddUserToDefaultOrg
      <3>2. ASSUME NEW i \in Invitations, DeleteInvitation(i)
            PROVE  \A m \in MemberRows : m \in MemberRows'
                                        /\ memberRole'[m] = memberRole[m]
        BY <3>2 DEF DeleteInvitation
      <3>3. ASSUME NEW i \in Invitations, NEW k \in Members,
                   AcceptInvitation(i, k)
            PROVE  \A m \in MemberRows : m \in MemberRows'
                                        /\ memberRole'[m] = memberRole[m]
        BY <3>3 DEF AcceptInvitation
      <3>4. ASSUME NEW u, NEW k, CreateOrg(u, k) PROVE FALSE
        BY <3>4 DEF CreateOrg
      <3> QED
        BY <3>1, <3>2, <3>3, <3>4 DEF Elsewhere
    <2>3. InvitingNames' = InvitingNames
      BY <2>1 DEF InvitingNames, RoleRows
    <2>4. Managers = {m \in MemberRows : memberRole[m] \in InvitingNames}
      BY InvitingNamesGrant DEF Managers
    <2>5. Managers' = {m \in MemberRows' : memberRole'[m] \in InvitingNames}
      BY <2>1, <2>3 DEF Managers, Grants, InvitingNames, RoleRows
    <2>6. Managers \subseteq Managers'
      BY <2>2, <2>4, <2>5
    <2>7. BeforeOrg(r)' /\ Counted(r)'
      <3> DEFINE m == call[r].member
      <3>1. step' = step /\ call' = call /\ Counted(r)
        BY <1>2 DEF requestVars, SerialCount
      <3>2. Targeting' = Targeting /\ ToldApart' = ToldApart
        BY DEF Targeting, ToldApart
      <3>3. step[r] \in ToldApart => step[r] \in Targeting
        BY DEF Targeting
      <3>4. step[r] \in {"writeRole", "deleteMember"} => step[r] \in Targeting
        BY DEF Targeting
      <3>5. step[r] \in Targeting => /\ m \in MemberRows'
                                     /\ memberRole'[m] = memberRole[m]
        BY <1>5, <2>2, <3>1 DEF Counted
      <3> QED
        BY <1>5, <2>1, <2>3, <2>6, <3>1, <3>2, <3>3, <3>4, <3>5
           DEF BeforeOrg, Counted, Spared
    <2> QED
      BY <1>1, <2>7 DEF SerialCount
  <1>6. CASE org = "deleted"
    BY <1>1, <1>2, <1>6
       DEF Elsewhere, CreateOrg, DeleteOrg, AddUserToDefaultOrg,
           DeleteInvitation, AcceptInvitation, SerialCount, BeforeOrg, Counted,
           requestVars
  <1> QED
    BY <1>1, <1>3, <1>4, <1>5, <1>6 DEF Rows, TypeOK

LEMMA CountedWriteSpares ==
    ASSUME NEW r \in Requests \ Superadmins, SerialCount(r),
           WriteRole(r) \/ DeleteMember(r), Managers # {}
    PROVE  Managers' # {}
  <1> DEFINE m == call[r].member
  <1>1. Rows /\ Counted(r)
    BY DEF SerialCount
  <1>2. org = "present"
    BY <1>1 DEF Rows, NothingOutlivesOrg, Managers
  <1>3. roleName' = roleName /\ inviting' = inviting
    BY DEF WriteRole, DeleteMember, roleVars
  <1>4. InvitingNames' = InvitingNames
    BY <1>3 DEF InvitingNames, RoleRows
  <1>5. Managers = {k \in MemberRows : memberRole[k] \in InvitingNames}
    BY InvitingNamesGrant DEF Managers
  <1>6. Managers' = {k \in MemberRows' : memberRole'[k] \in InvitingNames}
    BY <1>3, <1>4 DEF Managers, Grants, InvitingNames, RoleRows
  <1>7. m \in MemberRows
    BY <1>1, <1>2 DEF WriteRole, DeleteMember, Counted, Targeting, ToldApart
  <1>8. Managers \ {m} \subseteq Managers'
    BY <1>1, <1>5, <1>6, OrgAssumption
       DEF WriteRole, DeleteMember, DeleteMemberRows, MemberRows, Rows, TypeOK
  <1>9. CASE DeleteMember(r)
    BY <1>1, <1>2, <1>5, <1>8, <1>9 DEF DeleteMember, Counted, Spared
  <1>10. CASE WriteRole(r)
    <2>1. CASE Managers \ {m} # {}
      BY <1>8, <2>1
    <2>2. CASE memberRole[m] \notin InvitingNames
      BY <1>5, <1>8, <2>2
    <2>3. CASE call[r].name \in InvitingNames
      <3>1. memberRole'[m] = call[r].name
        BY <1>1, <1>7, <1>10 DEF WriteRole, MemberRows, Rows, TypeOK
      <3>2. memberRole'[m] \in Names
        BY <1>1, <1>10, <3>1 DEF WriteRole, Rows, Named, Naming
      <3> QED
        BY <1>6, <1>7, <2>3, <3>1, <3>2 DEF MemberRows
    <2> QED
      BY <1>1, <1>2, <1>10, <2>1, <2>2, <2>3 DEF WriteRole, Counted, Spared
  <1> QED
    BY <1>9, <1>10

\* One request at a time, updateMemberRole and removeMember leave an
\* organization a member who may invite.
THEOREM SerialLastManagerStays ==
    ASSUME NEW q \in Requests \ Superadmins, Requests = {q}
    PROVE  Spec => LastManagerStays
  <1>1. Init => SerialCount(q)
    BY InitRows DEF Init, SerialCount, BeforeOrg, Counted
  <1>2. SerialCount(q) /\ [Next]_vars => SerialCount(q)'
    <2> SUFFICES ASSUME SerialCount(q), [Next]_vars
                 PROVE  SerialCount(q)'
      OBVIOUS
    <2>1. CASE Elsewhere
      BY <2>1, ElsewhereIsCounted
    <2>2. CASE Receive(q) \/ Serve(q)
      BY <2>2, RequestIsCounted
    <2>3. CASE UNCHANGED vars
      <3>1. Rows'
        BY <2>3, WritesKeepRows DEF SerialCount
      <3> QED
        BY <2>3, <3>1
           DEF vars, tableVars, requestVars, roleVars, memberVars, SerialCount,
               BeforeOrg, Counted, Spared, InvitingNames, Managers, Grants,
               MemberRows, RoleRows
    <2> QED
      BY <2>1, <2>2, <2>3 DEF Next, Elsewhere
  <1>3. SerialCount(q) /\ [Next]_vars
        => [\A r \in Requests \ Superadmins :
              (WriteRole(r) \/ DeleteMember(r)) /\ Managers # {}
              => Managers' # {}]_vars
    <2> SUFFICES ASSUME SerialCount(q), NEW r \in Requests \ Superadmins,
                        WriteRole(r) \/ DeleteMember(r), Managers # {}
                 PROVE  Managers' # {}
      OBVIOUS
    <2>1. r = q
      OBVIOUS
    <2> QED
      BY <2>1, CountedWriteSpares
  <1> QED
    <2>1. Spec => []SerialCount(q)
      BY <1>1, <1>2, PTL DEF Spec
    <2> QED
      BY <2>1, <1>3, PTL DEF Spec, LastManagerStays
=============================================================================
