SPECIFICATION Spec
CONSTANTS
  a = a
  b = b
  Commands = {a, b}
  None = None
  MaxCrashes = 0
  MaxTimeouts = 0
  MaxOutside = 0
  DockerStarts = TRUE
INVARIANT ReportedStopped
