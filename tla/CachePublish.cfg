\* Two writers of one scope and its lock; p1 is scheduled, p2 may hang holding it.
SPECIFICATION FairSpec
CONSTANTS
  Procs = {p1, p2}
  Entities = {e1, e2}
  Topos = {1}
  Rollbacks = FALSE
  Commands = {"use", "query", "refresh"}
  FlockWorks = TRUE
  FreshFor = 1
  HardMax = 2
  GCMaxAge = 1
  MaxClock = 0
  MaxGen = 3
  MaxDir = 1
  Scheduled = {p1}
  p1 = p1
  p2 = p2
  e1 = e1
  e2 = e2
\* Every process runs one command and may be done.
CHECK_DEADLOCK FALSE
INVARIANTS
  
  SetComplete
PROPERTIES
  CommandsEnd
