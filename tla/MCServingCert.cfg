SPECIFICATION Spec
CONSTANTS
  TTL = 9
  RenewBefore = 6
  CheckEvery = 2
  MaxFailures = 2
  Horizon = 24
INVARIANTS
  ServedCertificateIsValid
  NeverOutlivesCA
  MetricNeverLate
