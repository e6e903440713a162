SPECIFICATION IssuanceSpec
CONSTANTS
  n1 = n1
  p1 = p1
  p2 = p2
  a1 = a1
  Absent = Absent
  NoHash = NoHash
  Nodes = {n1}
  Passwords = {p1, p2}
  Calls = {c1}
  ForeignRecords <- NoForeign
  CPs = {a1}
  Unusable = {}
  Inputs <- AllInputs
  Adopted = TRUE
PROPERTY
  ServingNamesNoControlPlane
