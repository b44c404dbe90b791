SPECIFICATION InsistentSpec
CONSTANTS
  t1 = t1
  p1 = p1
  Tx = {t1}
  Profiles = {p1}
  None = None
  MaxCrashes = 0
  MaxReboots = 0
  MaxFailures = 0
  Expires = FALSE
PROPERTY RollbackSucceeds
