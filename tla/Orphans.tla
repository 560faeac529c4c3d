------------------------------ MODULE Orphans ------------------------------
(***************************************************************************)
(* Orphan rows (internal/orphans, cli/orphans.go, the plan of             *)
(* cli/reset_nested.go).  Payload's Postgres adapter keeps one table per   *)
(* block type, and a write of a document clears only the tables that it    *)
(* meets on its way through the new document.  Rows it does not meet stay, *)
(* and are read back wherever their old path leads now.  PayCLI predicts   *)
(* them, looks for them after a write, and removes them by writing         *)
(* carriers: copies of the rows that led to them.                          *)
(*                                                                         *)
(* A document is its list of rows, and of a row its type and its own list  *)
(* count.  How a sequence of requests fails is in Publication.             *)
(***************************************************************************)
EXTENDS Integers, FiniteSets, Sequences, SequencesExt

CONSTANTS
  Types,       \* the block types, numbers from 1
  Accepts,     \* [Types \cup {Root} -> SUBSET Types]: what a list accepts
  Known,       \* the part of it the block census has seen
  Documents,   \* what is written
  MaxPhases,   \* carrier phases of one remedy
  MaxWrites,   \* bound on the writes
  None

Root  == 0
Empty == -1  \* the type of a row that reads as {}

VARIABLES
  db,          \* the tables: set of [list, at, type]
  newest,      \* the newest version
  versions,    \* the versions, newest first
  remedy,      \* the requests of a remedy still to be sent, None at other times
  was,         \* history: what the command at hand, or the last one, found
  told,        \* what it said
  writes

vars == <<db, newest, versions, remedy, was, told, writes>>

-----------------------------------------------------------------------------
(* Documents.  A path is the positions of a row and of those around it.     *)

Row(type, inner) == [type |-> type, inner |-> inner]

RECURSIVE Paths(_), RowAt(_, _)
Paths(L)    == UNION {{<<n>>} \cup {<<n>> \o q : q \in Paths(L[n].inner)} : n \in DOMAIN L}
RowAt(L, p) == IF Len(p) = 1 THEN L[p[1]] ELSE RowAt(L[p[1]].inner, Tail(p))

TypeAt(L, p)   == RowAt(L, p).type
ParentOf(L, p) == IF Len(p) = 1 THEN Root ELSE TypeAt(L, Front(p))
Typed(L)       == {p \in Paths(L) : TypeAt(L, p) # Empty}
TypesIn(L)     == {TypeAt(L, p) : p \in Typed(L)}
EmptyRows(L)   == Paths(L) \ Typed(L)

-----------------------------------------------------------------------------
(* The adapter.                                                             *)

RowsOf(L) == {[list |-> Front(p), at |-> Last(p), type |-> TypeAt(L, p)] : p \in Typed(L)}

\* The tables a write of L clears.
Reached(L) == UNION {Accepts[t] : t \in {Root} \cup TypesIn(L)}

Written(L) == {r \in db : r.type \notin Reached(L)} \cup RowsOf(L)

\* Rows are found by the path of their list.
RowsIn(rows, path, parent) == {r \in rows : r.list = path /\ Accepts[parent] # {}}

\* A type its list does not accept reads as {}.
RECURSIVE ReadList(_, _, _)
ReadList(rows, path, parent) ==
  LET here    == SetToSortSeq(RowsIn(rows, path, parent),
                   LAMBDA a, b : a.at < b.at \/ (a.at = b.at /\ a.type < b.type))
      read(r) == IF r.type \in Accepts[parent]
                 THEN Row(r.type, ReadList(rows, Append(path, r.at), r.type))
                 ELSE Row(Empty, <<>>)
  IN  FoldLeft(LAMBDA L, r : Append(L, read(r)), <<>>, here)

Read(rows) == ReadList(rows, <<>>, Root)
Stored     == Read(db)

\* The new version is built from the stored row without its {} rows.
RECURSIVE WithoutEmptyRows(_)
WithoutEmptyRows(L) ==
  FoldLeft(LAMBDA K, r : IF r.type = Empty THEN K ELSE Append(K, Row(r.type, WithoutEmptyRows(r.inner))),
           <<>>, L)

-----------------------------------------------------------------------------
(* Analyze.                                                                 *)

\* Which types were seen in a list of this parent.
Allowed(parent, seen) ==
  Known[parent] \cup UNION {{TypeAt(L, p) : p \in {q \in Typed(L) : ParentOf(L, q) = parent}} : L \in seen}

\* Mutant: a type seen anywhere is taken for one the write clears.
ClearedAnywhere(t, next, seen) == \E parent \in {Root} \cup Types : t \in Allowed(parent, seen)

\* A list that accepts the type is met on the way through next.
Cleared(t, next, seen) == \E parent \in {Root} \cup TypesIn(next) : t \in Allowed(parent, seen)

\* Depth first.
Before(p, q) ==
  \/ IsStrictPrefix(p, q)
  \/ \E n \in 1 .. Len(p) : n <= Len(q) /\ SubSeq(p, 1, n - 1) = SubSeq(q, 1, n - 1) /\ p[n] < q[n]

Nested(L, t) == {p \in Typed(L) : TypeAt(L, p) = t /\ Len(p) > 1}

\* A chain: the rows that lead to a nested row of the type to be cleared.
Chain(L, p) ==
  [path |-> Front(p), types |-> [n \in 1 .. Len(p) - 1 |-> TypeAt(L, SubSeq(p, 1, n))], clears |-> TypeAt(L, p)]

\* The first occurrence, in the stored document before any older state.
Occurrences(t, docs) == {n \in DOMAIN docs : Nested(docs[n], t) # {}}
ChainTo(t, docs) ==
  LET n == CHOOSE i \in Occurrences(t, docs) : \A j \in Occurrences(t, docs) : i <= j
  IN  Chain(docs[n], CHOOSE p \in Nested(docs[n], t) : \A q \in Nested(docs[n], t) : p = q \/ Before(p, q))

\* A longer chain meets every list a prefix of it does.
WithoutSubsumed(chains) ==
  {c \in chains : ~\E o \in chains : IsStrictPrefix(c.path, o.path) /\ IsStrictPrefix(c.types, o.types)}

\* Mutant: the rows of the carriers are left to the last write.
FollowersNone(chains, next, seen) == {}

\* The rows of a carrier that the last write would not clear are cleared by the next phase.
Followers(chains, next, seen) ==
  LET left(c) == {n \in 2 .. Len(c.types) : ~Cleared(c.types[n], next, seen)}
      last(c) == CHOOSE n \in left(c) : \A m \in left(c) : m <= n
  IN  {[path   |-> SubSeq(c.path, 1, last(c) - 1), types |-> SubSeq(c.types, 1, last(c) - 1),
        clears |-> c.types[last(c)]] : c \in {d \in chains : left(d) # {}}}

RECURSIVE Phases(_, _, _, _)
Phases(chains, next, seen, n) ==
  IF chains = {} \/ n = 0 THEN <<>>
  ELSE LET phase == WithoutSubsumed(chains)
       IN  <<phase>> \o Phases(Followers(phase, next, seen), next, seen, n - 1)

Analyze(stored, next, history) ==
  LET seen     == {stored, next} \cup ToSet(history)
      risks    == {t \in Types : Nested(stored, t) # {} /\ ~Cleared(t, next, seen)}
      empty    == EmptyRows(stored)
      cands(e) == UNION {{TypeAt(h, q) : q \in {p \in Typed(h) : Len(p) > 1 /\ Front(p) = Front(e)}} : h \in ToSet(history)}
      need     == risks \cup {t \in UNION {cands(e) : e \in empty} : ~Cleared(t, next, seen)}
      docs     == <<stored>> \o history
      phases   == Phases({ChainTo(t, docs) : t \in need}, next, seen, MaxPhases)
      full     == Len(Phases({ChainTo(t, docs) : t \in need}, next, seen, MaxPhases + 1)) = Len(phases)
  IN  [risks |-> risks, empty |-> empty, unresolved |-> {e \in empty : cands(e) = {}},
       phases |-> phases, incomplete |-> ~full]

ClearedTypes(a) == {c.clears : c \in UNION ToSet(a.phases)}

RECURSIVE Carrier(_)
Carrier(types) == <<Row(Head(types), IF Len(types) = 1 THEN <<>> ELSE Carrier(Tail(types)))>>

\* phaseBodies: the list with the carriers of one phase.
PhaseBody(L, phase) == L \o FlattenSeq(SetToSeq({Carrier(c.types) : c \in phase}))

-----------------------------------------------------------------------------
(* The check after a write.                                                 *)

\* EchoCheck finds nothing: no {} row, no row more than sent, and the types as sent.
RECURSIVE EchoClean(_, _)
EchoClean(sent, got) ==
  LET kept == SelectSeq(got, LAMBDA r : r.type # Empty)
  IN  /\ Len(kept) = Len(got)
      /\ \/ Len(kept) < Len(sent)
         \/ /\ Len(kept) = Len(sent)
            /\ \A n \in DOMAIN sent : kept[n].type = sent[n].type /\ EchoClean(sent[n].inner, kept[n].inner)

HoldsLists(L) == \E t \in TypesIn(L) : Accepts[t] # {}

\* orphanCheckAfterWrite: the stored row is read back where rows may hold rows, or when forced.
Checked(sent, body, force, rows) ==
  LET stored == Read(rows)
      echo   == WithoutEmptyRows(stored)
      read   == IF force \/ HoldsLists(echo) \/ HoldsLists(body) THEN stored ELSE echo
  IN  (~sent \/ EchoClean(body, read)) /\ EmptyRows(read) = {}

-----------------------------------------------------------------------------
Init ==
  /\ newest \in Documents /\ db = RowsOf(newest) /\ versions = <<newest>>
  /\ remedy = None /\ was = None /\ told = None /\ writes = 0

\* A non-draft write: of a new version, or of the newest in place.
Stores(L, inPlace) ==
  /\ db' = Written(L)
  /\ newest' = WithoutEmptyRows(Read(Written(L)))
  /\ versions' = <<newest'>> \o (IF inPlace THEN Tail(versions) ELSE versions)

Counts == writes < MaxWrites /\ writes' = writes + 1

\* Another client's write, or its draft, which leaves the stored row alone.
OtherWrites ==
  /\ remedy = None /\ Counts /\ was' = None /\ told' = None /\ UNCHANGED remedy
  /\ \E L \in Documents :
       \/ Stores(L, FALSE)
       \/ /\ newest' = L /\ versions' = <<L>> \o versions
          /\ UNCHANGED db

Found(next, sent) == [db |-> db, stored |-> Stored, newest |-> newest, next |-> next, sent |-> sent]

\* A plain update, whose body has the list or not: the risk is judged by the backup, which is
\* the newest version.
Updates ==
  /\ remedy = None /\ Counts /\ UNCHANGED remedy
  /\ \E sent \in BOOLEAN : \E L \in IF sent THEN Documents ELSE {newest} :
       /\ Stores(L, FALSE)
       /\ was' = Found(L, sent)
       /\ told' = [kind |-> "update", risks |-> Analyze(newest, L, <<>>).risks, clean |-> Checked(sent, L, FALSE, Written(L))]

\* storedDiffers, {} rows aside.
PendingDraft == WithoutEmptyRows(Stored) # newest

\* planReset: a restructure writes its body first; a repair restates the newest version, and
\* is refused over a pending draft.  The versions name what reads as {}.
PlansRemedy ==
  /\ remedy = None /\ Counts /\ UNCHANGED <<db, newest, versions>>
  /\ \E repair \in BOOLEAN : \E L \in IF repair THEN {newest} ELSE Documents :
       LET a     == Analyze(Stored, L, IF EmptyRows(Stored) # {} THEN versions ELSE <<>>)
           steps == [n \in DOMAIN a.phases |-> PhaseBody(L, a.phases[n])] \o <<L>>
       IN  /\ repair => ~PendingDraft
           /\ a.phases # <<>>
           /\ remedy' = [plan |-> a, first |-> ~repair, steps |-> IF repair THEN steps ELSE <<L>> \o steps]
           /\ was' = Found(L, TRUE) /\ told' = None

\* execReset: one request after another.
Sends ==
  /\ remedy # None
  /\ Stores(Head(remedy.steps), ~remedy.first)
  /\ LET rest == Tail(remedy.steps)
     IN  \/ /\ rest # <<>> /\ remedy' = [remedy EXCEPT !.first = FALSE, !.steps = rest]
            /\ UNCHANGED told
         \/ /\ rest = <<>> /\ remedy' = None
            /\ told' = [kind |-> "reset", plan |-> remedy.plan, clean |-> Checked(TRUE, was.next, TRUE, Written(was.next))]
  /\ UNCHANGED <<was, writes>>

\* The sequence ends early, for any reason: see Publication.
Stops ==
  /\ remedy # None /\ remedy' = None /\ was' = None /\ told' = None
  /\ UNCHANGED <<db, newest, versions, writes>>

Next == OtherWrites \/ Updates \/ PlansRemedy \/ Sends \/ Stops

Spec == Init /\ [][Next]_vars

-----------------------------------------------------------------------------
(* Properties.                                                              *)

Over(kind) == remedy = None /\ told # None /\ told.kind = kind
Left       == db \ RowsOf(was.next)

\* The rows that a reader of L sees, as they are in the tables.
RECURSIVE SeenRows(_, _, _)
SeenRows(rows, path, parent) ==
  LET here == RowsIn(rows, path, parent)
  IN  here \cup UNION {SeenRows(rows, Append(path, r.at), r.type) : r \in {s \in here : s.type \in Accepts[parent]}}

\* A row that was in the document and that a plain update leaves behind was foretold, unless
\* a draft was pending.
Foretold ==
  Over("update") /\ was.stored = was.newest =>
    \A r \in Left \cap RowsOf(was.newest) : Len(r.list) > 0 => r.type \in told.risks

\* A write that says nothing about orphans left the document, as it is read, as it was sent.
CheckTells ==
  told # None /\ remedy = None /\ was.sent /\ told.clean => Stored = was.next

\* A remedy that was planned in full leaves no row of the types it says it clears, none of
\* its own rows, and nothing that was in the document; and where it knew every {} row, and
\* nothing was out of sight, the document is what was asked for.
RemedyWorks ==
  Over("reset") /\ ~told.plan.incomplete =>
    /\ \A r \in Left : r \in was.db /\ r.type \notin ClearedTypes(told.plan) \cup told.plan.risks
    /\ was.db = SeenRows(was.db, <<>>, Root) /\ told.plan.unresolved = {} => Stored = was.next

OrphansTold == Foretold /\ CheckTells /\ RemedyWorks
=============================================================================
