\* Two requests of any kind but an upload, which is retried like a write, on one retry, every way an attempt may end.
SPECIFICATION FairSpec
CONSTANTS
  Reqs = {r1, r2}
  Kinds = {"get", "read", "write"}
  MaxAttempts = 3
  RetryBudget = 1
  r1 = r1
  r2 = r2
INVARIANTS
  TypeOK
  AtMostOnce
  UnsentIsTrue
  Restrained
  
PROPERTIES
  RequestsEnd
