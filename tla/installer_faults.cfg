\* Two commands from every kind of host; steps and compensations fail, runs are killed.
SPECIFICATION Spec
CONSTANTS
  None = None
  Earlier = Earlier
  Mine = Mine
  Published = Published
  MaxCommands = 2
  MaxTroubles = 2
INVARIANTS TypeOK SelectorUsable SettingsWitness NextRunAccepted
PROPERTIES ReleaseImmutable FailureRestores SuccessComplete
CHECK_DEADLOCK FALSE
