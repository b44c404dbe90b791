SPECIFICATION Spec
CONSTANTS
  a = a
  b = b
  Commands = {a, b}
  None = None
  MaxCrashes = 2
  MaxTimeouts = 1
  MaxOutside = 1
  DockerStarts = TRUE
INVARIANTS
  TypeOK
  OwnerKeepsIntent
PROPERTIES
  ClosedDuringTransition
  Implements
SYMMETRY Symmetric
