\* Two runs of one manifest of up to three items; a pipe of two stages over one document with
\* two fields; one edit by others; three writes of nested rows, each maybe with a remedy.
SPECIFICATION DocumentsSpec
CONSTANTS
  Manifests <- SomeManifests
  Hooks <- SomeHooks
  MaxRuns = 2
  MaxEdits = 1
  MaxDocs = 4
  None = None
  Documents <- SomeDocuments
  Selectors <- SomeSelectors
  Anchors <- SomeAnchors
  Changes <- SomeChanges
  Entries <- SomeEntries
  Types <- SomeTypes
  Known = {"t", "u"}
  Slugs = {"t", "x", "-"}
  MaxStages = 2
  MaxRows = 4
  Absent = Absent
  MaxPhases = 3
  MaxWrites = 3
\* The runs of the bound may all be over.
CHECK_DEADLOCK FALSE
INVARIANTS
  RunsInOrder
  OrphansTold
PROPERTIES
  
  EditsExact
