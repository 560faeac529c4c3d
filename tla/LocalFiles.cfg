\* The audit log, self-update, the skills and the backups, with crashes and failures everywhere.
SPECIFICATION LocalSpec
CONSTANTS
  Procs = {p1}
  Generations = 2
  MaxRecords = 2
  MaxOps = 5
  Faults = TRUE
  p1 = p1
  Runners = {u1, u2}
  u1 = u1
  u2 = u2
  Newest = 3
  Signs = {"right", "absent", "wrong"}
  MaxCommands = 2
  MaxVersion = 2
  MaxRuns = 3
  MaxEdits = 1
  None = None
  Docs = {1, 2}
  MaxTime = 1
  MaxContent = 3
SYMMETRY Symmetry
\* The operations of the bound may all be done.
CHECK_DEADLOCK FALSE

  
  
PROPERTIES
  SwapsRight
  SkillsRight
