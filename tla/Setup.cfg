\* Seven servers, four settings, two workers; four layouts of the two files, two commands.
SPECIFICATION SetupSpec
CONSTANTS
  Servers <- SomeServers
  Settings <- SomeSettings
  Paths = 3
  Width = 2
  MaxBatches = 4
  MaxFailures = 2
  None = None
  Names = {one, other}
  Fallback = one
  Files <- SomeFiles
  Words <- SomeWords
  MaxEdits = 2
\* A run ends, and so do the commands of the bound.
CHECK_DEADLOCK FALSE

  
  
PROPERTIES
  RunsEnd
  SettingsKept
