\* Lock-free readers against writers, clears, crashes, deployments and the clock.
SPECIFICATION Spec
CONSTANTS
  Procs = {p1, p2}
  Entities = {e1}
  Topos = {1, 2}
  Rollbacks = FALSE
  Commands = {"use", "query", "nocache", "offline", "clear", "sweep"}
  FlockWorks = TRUE
  FreshFor = 1
  HardMax = 2
  GCMaxAge = 1
  MaxClock = 2
  MaxGen = 3
  MaxDir = 2
  Scheduled = {}
  p1 = p1
  p2 = p2
  e1 = e1
SYMMETRY Symmetry
\* Every process runs one command and may be done.
CHECK_DEADLOCK FALSE
INVARIANTS
  TypeOK
  NoMixedRuns
  
PROPERTIES
  ImplementsAtomicRuns
