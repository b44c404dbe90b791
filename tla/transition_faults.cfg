SPECIFICATION Spec
CONSTANTS
  t1 = t1
  p1 = p1
  p2 = p2
  Tx = {t1}
  Profiles = {p1, p2}
  None = None
  MaxCrashes = 1
  MaxReboots = 1
  MaxFailures = 1
  Expires = TRUE
INVARIANTS
  TypeOK
  ConfirmedStaysAwg31
  RolledBackIsClassic
  UnconfirmedIsGuarded
  CheckpointMatchesArtifacts
  RevisedExactlyOnce
