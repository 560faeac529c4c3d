\* Three documents of which two may be written, pages of one and chunks of two, one edit by others.
SPECIFICATION FairSpec
CONSTANTS
  N = 3
  MaxDocs = 2
  PageSize = 1
  ChunkSize = 2
  Commands <- EveryCommand
  MaxEdits = 1
INVARIANTS
  TypeOK
  BlastRadius
  EnvelopeTrue
PROPERTIES
  SavedBeforeChanged
  Terminates
