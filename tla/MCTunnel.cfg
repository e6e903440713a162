SPECIFICATION FairSpec
CONSTANTS
  Nodes = {n1, n2}
  Anonymous = Anonymous
  Conns = {q1, q2, q3, q4}
  maxSessionsPerNode = 2
INVARIANTS
  SessionsExact
PROPERTIES
  RefusedByDeadSessions
  EveryAgentReconnects
