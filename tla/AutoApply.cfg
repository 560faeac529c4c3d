\* update.auto: the child that a pending release starts.
SPECIFICATION Spec
CONSTANTS
  Procs = {p1, p2}
  Newest = 2
  Signs = {"right", "absent", "wrong"}
  MaxCommands = 3
  None = None
CHECK_DEADLOCK FALSE
INVARIANT ChildrenMaySwap
