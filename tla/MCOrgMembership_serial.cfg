SPECIFICATION Spec
CONSTANTS
  admin = admin
  manager = manager
  member = member
  ra = ra
  rm = rm
  rb = rb
  None = None
  n1 = n1
  x1 = x1
  u1 = u1
  u2 = u2
  u3 = u3
  k1 = k1
  k2 = k2
  k3 = k3
  i1 = i1
  i2 = i2
  r1 = r1
  r2 = r2
  Admin = admin
  Manager = manager
  Member = member
  AdminRole = ra
  ManagerRole = rm
  MemberRole = rb
  Names = {admin, manager, member}
  Roles = {ra, rm, rb, x1}
  Users = {u1, u2}
  Members = {k1, k2}
  Invitations = {i1}
  Requests = {r1}
  Superadmins = {}
  Operations <- AllOperations
  IsDefaultOrg = FALSE
SYMMETRY MemberSymmetry
INVARIANTS RolesOfMembersExist
PROPERTIES LastManagerStays
CHECK_DEADLOCK FALSE
