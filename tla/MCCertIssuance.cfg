SPECIFICATION IssuanceSpec
CONSTANTS
  n1 = n1
  p1 = p1
  p2 = p2
  a1 = a1
  Absent = Absent
  NoHash = NoHash
  Nodes = {n1}
  Passwords = {p1, p2}
  Calls = {c1}
  ForeignRecords <- OtherReplica
  CPs = {a1, a2}
  Unusable = {a2}
  Inputs <- AllInputs
  Adopted = TRUE
INVARIANTS
  NodeIdentityNeedsPassword
  OnlyGoodRequestsEnrol
