\* One bulk update of at most two documents in chunks of one, nobody else.
SPECIFICATION Spec
CONSTANTS
  N = 2
  MaxDocs = 2
  PageSize = 2
  ChunkSize = 1
  Commands <- OneUpdate
  MaxEdits = 0
INVARIANTS
  SuccessMeansAll
