--------------------------- MODULE DocumentWrites ---------------------------
(***************************************************************************)
(* pay sync and the edit pipeline side by side: the two ways to write a    *)
(* document that read it first.  They meet only at the server, where each  *)
(* of them is one of the other editors that the other one allows for.      *)
(***************************************************************************)
EXTENDS Sync

CONSTANTS
  Documents, Selectors, Anchors, Changes, Slugs, Entries, Known, Types, MaxStages, MaxRows, Absent  \* see EditPipeline

VARIABLES pStored, pDeclared, pPipe, pLast, pWriter, pEdits, pRemoved

pipeVars == <<pStored, pDeclared, pPipe, pLast, pWriter, pEdits, pRemoved>>

Edit == INSTANCE EditPipeline WITH
  stored <- pStored, declared <- pDeclared, pipe <- pPipe, last <- pLast, writer <- pWriter,
  edits <- pEdits, removed <- pRemoved

ASSUME DocumentsAssumption == Edit!EditAssumption

\* From the read to the write, every stage makes exactly the edit it records, and the write
\* carries exactly those edits (see EditPipeline).
EditsExact == [][Edit!StageExact /\ Edit!WriteExact]_pipeVars
=============================================================================
