SPECIFICATION Spec
CONSTANTS
  n1 = n1
  p1 = p1
  p2 = p2
  r1 = r1
  r2 = r2
  c1 = c1
  c2 = c2
  Absent = Absent
  NoHash = NoHash
  Nodes = {n1}
  Passwords = {p1, p2}
  Calls = {c1, c2}
  Replicas = {r1, r2}
  Slots = 1
  ForeignRecords <- ForeignRke2
SYMMETRY Symmetric
INVARIANTS
  TypeOK
  AcceptedIsOnRecord
  RefusalJustified
  SlotsExact
PROPERTIES
  EnrolmentNeedsFreeName
  ImplementsTofu
