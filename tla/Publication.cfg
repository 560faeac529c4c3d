\* Two commands after each other, one edit by another editor.
SPECIFICATION FairSpec
CONSTANTS
  Commands <- EveryCommand
  MaxCommands = 2
  MaxEdits = 1
  MaxPhases = 2
  Retries = 1
  None = None
INVARIANTS
  ToldTruly
PROPERTIES
  NeverOffline
  CommandsEnd
