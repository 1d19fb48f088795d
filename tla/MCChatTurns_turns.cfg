SPECIFICATION FairSpec
CONSTANTS
  t1 = t1
  t2 = t2
  n1 = n1
  n2 = n2
  p1 = p1
  p2 = p2
  p3 = p3
  k1 = k1
  k2 = k2
  c1 = c1
  None = None
  Turns = {t1, t2}
  Conversations = {c1}
  Connections = {n1}
  Pools = {p1, p2}
  Calls = {k1}
  CallsAtOnce = 1
  DatabaseTurns = {t1}
  MaxCalls = 2

INVARIANTS PoolsEndWithTheirTurn QueriesHaveTheirPool Transcript CompleteIsStored AnswerIsStreamed
PROPERTIES TurnsEnd
