SPECIFICATION Spec
CONSTANTS
  t1 = t1
  t2 = t2
  p1 = p1
  Tx = {t1, t2}
  Profiles = {p1}
  None = None
  MaxCrashes = 2
  MaxReboots = 0
  MaxFailures = 0
  Expires = FALSE
INVARIANT CheckpointMatchesArtifacts
PROPERTIES
  Implements
  StaleTimerHarmless
SYMMETRY Symmetric
