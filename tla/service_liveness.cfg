SPECIFICATION FairSpec
CONSTANTS
  a = a
  b = b
  Commands = {a, b}
  None = None
  MaxCrashes = 1
  MaxTimeouts = 1
  MaxOutside = 0
  DockerStarts = FALSE
INVARIANT ReportedStopped
PROPERTY IntentResolves
