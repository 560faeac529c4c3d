\* One command after another, API keys, every keychain policy.
SPECIFICATION FairSpec
CONSTANTS
  Procs = {p1}
  Profiles = {prod, stage}
  Kinds = {"api-key"}
  Modes = {"off", "auto", "force"}
  Flags = {FALSE}
  Commands = {"login", "relogin", "logout", "preview", "clear", "rename", "use", "read"}
  Versions = {1, 2}
  MaxCommands = 3
  p1 = p1
  prod = prod
  stage = stage
\* The commands of the bound may all have been run.
CHECK_DEADLOCK FALSE
INVARIANTS
  TypeOK
PROPERTIES
  
  CommandsEnd
