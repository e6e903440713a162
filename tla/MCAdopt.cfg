SPECIFICATION Spec
CHECK_DEADLOCK FALSE
CONSTANTS
  Rke2 = {k1, k2}
  Talos = {t1, t2}
  Adopted = {t1}
  Enrolled = {}
INVARIANTS
  AdoptionTypeOK
  StrandedOnlyWhenMisled
PROPERTIES
  OnlyStoppingCostsQuorum
  JoinsResume
  
  BackWithNewIdentity
  MigrationResumes
