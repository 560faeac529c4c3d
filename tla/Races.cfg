\* Two processes at once: credentials without a rename; the census of two collections of at
\* most three documents, pages of two, one edit by others.
SPECIFICATION RacesSpec
CONSTANTS
  Procs = {p1, p2}
  Profiles = {prod, stage}
  Kinds = {"jwt"}
  Modes = {"off", "auto", "force"}
  Flags = {TRUE, FALSE}
  Commands = {"login", "relogin", "logout", "read"}
  Versions = {1}
  MaxCommands = 3
  p1 = p1
  p2 = p2
  prod = prod
  stage = stage
  Slugs = {1, 2}
  Ids = {1, 2, 3}
  Types = {1, 2, 3}
  Values = {1, 2, 3, 4}
  Vocabulary = {1, 2, 3}
  Declares = {1}
  PageSize = 2
  MaxValues = 2
  Fresh = 1
  HardMax = 2
  MaxTime = 1
  MaxEdits = 1
  MaxRuns = 2
  Nil = Nil
  Starts <- SomeStarts
  Layouts <- SomeLayouts
  Reads <- SomeReads
  Schemas <- SomeSchemas
  Deleted = Deleted
SYMMETRY Symmetry
\* The commands of the bound may all have been run.
CHECK_DEADLOCK FALSE
INVARIANTS
  NoSilentFallback
  OwnSecretOnly
  
PROPERTIES
  NewerKept
