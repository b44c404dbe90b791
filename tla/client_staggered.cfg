\* Two clients with different expiration dates; nothing fails.
SPECIFICATION FairSpec
CONSTANTS
  Names = {a, b}
  Expiring = {a, b}
  None = None
  Partial = Partial
  MaxDay = 2
  MaxCommands = 2
  MaxTroubles = 0
PROPERTIES ExpiryReconciles
CHECK_DEADLOCK FALSE
