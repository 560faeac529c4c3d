------------------------------- MODULE MCRaces -------------------------------
(***************************************************************************)
(* Model checking of the two files that several processes of pay rewrite   *)
(* as a whole: the credentials, without a lock, and the block census,      *)
(* under one.  They share nothing, so they are checked side by side: a     *)
(* behaviour is one of one of them, chosen at the start.                   *)
(***************************************************************************)
EXTENDS MCCredentials, Sequences

CONSTANTS
  Slugs, Ids, Types, Values, Vocabulary, Declares, PageSize, MaxValues, Fresh, HardMax,
  MaxTime, MaxEdits, MaxRuns, Nil, Deleted,  \* see Census
  Starts, Layouts, Reads, Schemas  \* its documents and commands; the run's are below

VARIABLES part, cDocs, cPeak, cDisk, cProc, cClock, cEdits, cUsed

censusVars == <<cDocs, cPeak, cDisk, cProc, cClock, cEdits, cUsed>>

-----------------------------------------------------------------------------
(* Documents: two values of a vocabulary; rows that lack something; a value   *)
(* of its own, rows that have none, a nested row.                           *)

Row(t, v, inner) == [type |-> t, style |-> v, inner |-> inner]
Text(v) == Row(1, v, <<>>)
NoStyle == -1
Plain   == <<Text(1), Text(2)>>
Empties == <<Text(NoStyle), Row(0, NoStyle, <<>>), Row(3, NoStyle, <<>>)>>
Nests   == <<Text(4), Text(0), Row(NoStyle, NoStyle, <<>>), Row(2, NoStyle, <<3>>)>>

SomeLayouts == <<{Plain, Nests}, {}>>

\* A vocabulary; a document with blocks behind a page of documents without.
SomeStarts == {
  << <<Plain, Plain, Nil>>, << <<>>, Nil, Nil>> >>,
  << <<Empties, <<>>, <<>> >>, <<Plain, Nil, Nil>> >> }

Asks(only, force, wide, refresh, max) ==
  [only |-> only, force |-> force, wide |-> wide, refresh |-> refresh, max |-> max]
SomeReads == {Asks({1}, TRUE, FALSE, FALSE, 2), Asks({1, 2}, FALSE, TRUE, FALSE, 3),
              Asks({2}, FALSE, FALSE, TRUE, 3)}

\* With an acronym for a type or without, named by the project or not, and pinned.
Accepts(accepts, paired, pin) == [accepts |-> accepts, paired |-> paired, pin |-> pin]
SomeSchemas == {
  Accepts(1 .. 3, {}, {}), Accepts(1 .. 3, {2}, {}), Accepts(1 .. 4, {}, {}),
  Accepts(1 .. 4, {4}, {}), Accepts(1 .. 3, {}, 1 .. 3) }

Counted == INSTANCE Census WITH
  Commands <- Reads, MaxCommands <- MaxRuns, None <- Nil, docs <- cDocs, peak <- cPeak, disk <- cDisk, proc <- cProc,
  clock <- cClock, edits <- cEdits, used <- cUsed

-----------------------------------------------------------------------------
RacesInit ==
  /\ part \in {"credentials", "census"}
  /\ Init /\ Counted!Init
  /\ part # "credentials" => kmode = "off"
  /\ part # "census" => cDocs[1][3] = Nil /\ cDocs[2][1] = <<>>

\* PAY_KEYRING=force does what --keyring asks for.
Flagged == kmode = "force" => flag' = flag

RacesNext ==
  \/ part = "credentials" /\ Next /\ Flagged /\ UNCHANGED <<part, censusVars>>
  \/ part = "census"      /\ Counted!Next /\ UNCHANGED <<part, vars>>

RacesSpec == RacesInit /\ [][RacesNext]_<<part, vars, censusVars>>

\* See Census.  What is in the file is looked at between commands only: a crash of every
\* process leaves the same documents and the same file.
CensusTrue ==
  /\ Counted!ReadsComplete
  /\ (\A p \in Procs : cProc[p] = Counted!Idle) => Counted!CensusTrue

\* See Census.
NewerKept == [][Counted!NewerKept]_censusVars
=============================================================================
