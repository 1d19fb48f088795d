SPECIFICATION FairSpec
CONSTANTS
  c1 = c1
  c2 = c2
  w1 = w1
  w2 = w2
  k1 = k1
  k2 = k2
  k3 = k3
  u1 = u1
  u2 = u2
  t1 = t1
  t2 = t2
  p1 = p1
  s1 = s1
  r1 = r1
  r2 = r2
  None = None
  Connections = {c1, c2}
  Passwords = {w1}
  Keys = {k1, k2}
  Upgrades = {u1}
  Tests = {t1}
  Requests = {r1}
  Sources = {s1}
  Projects = {p1}
  Gate = "key"

INVARIANTS CredentialsReadable  ConnectingIsTested SourcesResolve
PROPERTIES WindowDrains
