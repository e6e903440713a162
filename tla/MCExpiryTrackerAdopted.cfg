SPECIFICATION FairSpec
CONSTANTS
  Nodes = {n1}
  Kinds = {k1}
  Replicas = {r1}
  Recorders = {q1}
  MaxGen = 2
  MaxHorizon = 2
  MaxRestarts = 1
PROPERTY
  AdoptedNodesAreWarned
