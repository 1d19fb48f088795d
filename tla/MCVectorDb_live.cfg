SPECIFICATION FairSpec
CONSTANTS
  v1 = v1
  j1 = j1
  j2 = j2
  n1 = n1
  n2 = n2
  h1 = h1
  h2 = h2
  r1 = r1
  r2 = r2
  m1 = m1
  m2 = m2
  m3 = m3
  NoJob = NoJob
  NoMessage = NoMessage
  VectorDbs = {v1}
  Jobs = {j1, j2}
  Nodes = {n1}
  Slots = {h1}
  Requests = {r1}
  Messages = {m1, m2}
  BlankFiles = {j2}
  MaxAttempts = 2
  VectorDbOf <- OneVectorDb
  NodeOf <- OneNode
  MaxFaults <- OneQueryFault
PROPERTIES RefinesLifecycle JobsSettle
CHECK_DEADLOCK FALSE
