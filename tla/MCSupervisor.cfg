SPECIFICATION Spec
CONSTANTS
  a1 = a1
  a2 = a2
  CPs = {a1, a2}
  Unusable = {}
  R = {r1, r2}
  Blank = Blank
  NotGiven = NotGiven
  Unreadable = Unreadable
  Refused = Refused
  NoAuth = NoAuth
  TrimSpace <- MCTrimSpace
  Options <- MCOptions
  Passwords <- MCPasswords
  Every = 1
  MaxClock = 2
  MaxDenied = 3
INVARIANTS
  SupervisorTypeOK
  OnlyTokenHoldersAnswered
  ConfigAnswers
  StaticListAnswered
  EveryRefusalCounted
  WarnRateBounded
PROPERTIES
  NeverEmptied
  ListConverges
  EveryRequestEnds
