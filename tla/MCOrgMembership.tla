--------------------------- MODULE MCOrgMembership ---------------------------
(***************************************************************************)
(* Small instances of OrgMembership for TLC.                               *)
(***************************************************************************)
EXTENDS OrgMembership, TLC

CONSTANTS admin, manager, member, n1, ra, rm, rb, x1,
          u1, u2, u3, k1, k2, k3, i1, i2, r1, r2

AllOperations ==
    {"addMember", "updateMemberRole", "removeMember", "createInvitation",
     "createRole", "updateRole", "deleteRole", "assignPermissions"}
AllButPermissions == AllOperations \ {"assignPermissions"}

MemberSymmetry == Permutations(Members) \cup Permutations(Users)
RequestSymmetry == Permutations(Members) \cup Permutations(Requests)
=============================================================================
