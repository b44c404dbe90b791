\* One client may expire; every command may fail or be killed at every step.
SPECIFICATION FairSpec
CONSTANTS
  Names = {a, b}
  Expiring = {a}
  None = None
  Partial = Partial
  MaxDay = 1
  MaxCommands = 2
  MaxTroubles = 2
INVARIANTS TypeOK IdleConsistent RetiredStaysOut
PROPERTIES Implements ExpiryReconciles
CHECK_DEADLOCK FALSE
