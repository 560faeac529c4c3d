----------------------------- MODULE MCDocuments -----------------------------
(***************************************************************************)
(* Model checking of the ways to write documents that span several        *)
(* requests or processes: pay sync, the edit pipeline, and the removal of  *)
(* orphan rows.  They meet only at the server, so they are checked side by *)
(* side: a behaviour is one of one of them, chosen at the start.           *)
(***************************************************************************)
EXTENDS DocumentWrites, TLC

CONSTANTS MaxPhases, MaxWrites  \* see Orphans

VARIABLES
  part, oDb, oNewest, oVersions, oRemedy, oWas, oTold, oWrites

orphanVars == <<oDb, oNewest, oVersions, oRemedy, oWas, oTold, oWrites>>

-----------------------------------------------------------------------------
\* A chain against the load order, a cycle, a document in two locales that agree on its
\* status and in two that do not, a document described twice, and every status.
Twice == <<Item(1, "en", "keep", {}), Item(1, "en", "draft", {})>>
SomeManifests == {
  <<Item(1, "en", "keep", {2}), Item(2, "en", "published", {3}), Item(3, "en", "keep", {})>>,
  <<Item(1, "en", "keep", {2}), Item(2, "en", "draft", {1})>>,
  <<Item(1, "en", "published", {2}), Item(2, "en", "keep", {})>>,
  <<Item(1, "en", "keep", {}), Item(1, "de", "keep", {})>>,
  <<Item(1, "en", "published", {}), Item(1, "de", "draft", {})>>,
  Twice }

SomeHooks == {{}, {2}}

\* A document with three rows, two of a type, one with two inner rows, and a second field.
Row(n, type, inner) == [id |-> n, type |-> type, text |-> n, secret |-> n, rich |-> n, inner |-> inner]
InnerRow(n)         == [id |-> n, type |-> "", text |-> n]

SomeDocuments == {
  [title |-> 0,
   layout |-> <<Row(1, "t", <<InnerRow(4), InnerRow(5)>>), Row(2, "u", <<>>), Row(3, "t", <<>>)>>,
   footer |-> <<Row(6, "u", <<>>)>>] }

\* A selector from the end, a stable one and one that counts; ways into a row that are stable
\* and not; destinations on either side of what they are relative to; every kind of change.
R == INSTANCE Rows
SomeSelectors == {R!ByIndex(-1), R!ById(2), R!ByNth("t", 0)}
SomeEntries   == {R!ByIndex(0), R!ByNth("t", 1)}
SomeAnchors   == {R!AtEnd, R!At(-2), R!Before(R!ByType("u")), R!After(R!ByIndex(-1))}
SomeChanges   == {R!Sets("text", 8), R!Sets("type", "u"), R!Clears("inner"), R!SetsInner(R!ByIndex(0), 8)}

SomeTypes     == Slugs \cup {"", "t", "u"}

\* Groups hold bento boxes and grids, bento boxes items, grids texts and groups again; the
\* census has seen a bento box in a group.
Group == 1
Bento == 2
Entry == 3
Grid  == 4
Text  == 5

WhatLists == 0 :> {Group, Text} @@ Group :> {Bento, Grid} @@ Bento :> {Entry}
               @@ Grid :> {Text, Group} @@ Entry :> {} @@ Text :> {}
WhatSeen  == [t \in 0 .. 5 |-> IF t = Group THEN {Bento} ELSE {}]

In(type, inner) == [type |-> type, inner |-> inner]
Lone(type)      == In(type, <<>>)

\* A bento box with items; a grid in its place; neither; a group inside a group; empty boxes.
SomeTrees == {
  <<In(Group, <<In(Bento, <<Lone(Entry), Lone(Entry)>>)>>)>>,
  <<In(Group, <<In(Grid, <<Lone(Text)>>)>>)>>,
  <<Lone(Text)>>,
  <<In(Group, <<In(Grid, <<In(Group, <<In(Bento, <<Lone(Entry)>>)>>)>>)>>)>>,
  <<Lone(Text), In(Group, <<Lone(Grid), Lone(Bento)>>)>> }

Rest == INSTANCE Orphans WITH
  Types <- 1 .. 5, Accepts <- WhatLists, Known <- WhatSeen, Documents <- SomeTrees,
  db <- oDb, newest <- oNewest, versions <- oVersions, remedy <- oRemedy, was <- oWas,
  told <- oTold, writes <- oWrites

-----------------------------------------------------------------------------
DocumentsInit ==
  /\ part \in {"sync", "pipe", "orphans"}
  /\ Init /\ Edit!Init /\ Rest!Init
  /\ hooked \subseteq Keys
  /\ Len(manifest) = 3 => hooked = {}       \* the hook is seen with the shorter ones
  /\ Len(manifest) = 3 => made \in {0, 3}  \* a part of them exist once a run has ended early
  /\ part # "sync" => manifest = Twice /\ drafts /\ made = 0
  /\ part # "pipe" => pDeclared
  /\ part # "orphans" => oNewest = <<Lone(Text)>>

DocumentsNext ==
  \/ part = "sync"    /\ Next      /\ UNCHANGED <<part, pipeVars, orphanVars>>
  \/ part = "pipe"    /\ Edit!Next /\ UNCHANGED <<part, vars, orphanVars>>
  \/ part = "orphans" /\ Rest!Next /\ UNCHANGED <<part, vars, pipeVars>>

DocumentsSpec == DocumentsInit /\ [][DocumentsNext]_<<part, vars, pipeVars, orphanVars>>

\* See Orphans.
OrphansTold == part = "orphans" => Rest!OrphansTold
=============================================================================
