-------------------------------- MODULE Rows --------------------------------
(***************************************************************************)
(* The local editor of an array of rows (internal/rows): how a selector    *)
(* finds rows, and what insert, move, copy, remove and set make of the     *)
(* array.  Everything is a function of the array: no state.                *)
(*                                                                         *)
(* A row is [id, type, text, ...]: its server-given id (NoId when it has   *)
(* none), its blockType and one field.  An outer row has more fields, of   *)
(* which inner is an array of rows in turn.  Indices count from 1; the     *)
(* caller's, in a selector or a destination, from 0.                       *)
(*                                                                         *)
(* Left out: name: selectors, which are id: selectors over another key;    *)
(* groups and deeper nesting, which are walked alike.                      *)
(***************************************************************************)
EXTENDS Integers, FiniteSets, Sequences, SequencesExt

CONSTANT Absent  \* the value of a key a row or a document does not have

NoId == 0  \* the id of a row the server has not seen
Null == 0  \* a cleared scalar

\* A selector: an index (from the end if negative), an id, a blockType, or the nth of a type.
ByIndex(n)    == [kind |-> "index", n |-> n, type |-> ""]
ById(i)       == [kind |-> "id", n |-> i, type |-> ""]
ByType(t)     == [kind |-> "type", n |-> 0, type |-> t]
ByNth(t, n)   == [kind |-> "nth", n |-> n, type |-> t]

OfType(list, t) == {i \in DOMAIN list : list[i].type = t}

\* Match: the rows a selector addresses.
Match(list, sel) ==
  CASE sel.kind = "index" ->
         {(IF sel.n < 0 THEN sel.n + Len(list) ELSE sel.n) + 1} \cap DOMAIN list
    [] sel.kind = "id"    -> {i \in DOMAIN list : list[i].id = sel.n}
    [] sel.kind = "type"  -> OfType(list, sel.type)
    [] sel.kind = "nth"   ->
         {i \in OfType(list, sel.type) : Cardinality({j \in OfType(list, sel.type) : j < i}) = sel.n}

\* ResolveOne: the row a selector addresses, none if it addresses none or several.
One(list, sel) == {i \in DOMAIN list : Match(list, sel) = {i}}

\* Summarize: the selector a listing prints for row i, a stable one if there is one.
Selector(list, i) ==
  LET t == list[i].type IN
  CASE list[i].id # NoId -> ById(list[i].id)
    [] list[i].id = NoId /\ t # "" /\ OfType(list, t) = {i} -> ByType(t)
    [] list[i].id = NoId /\ t # "" /\ OfType(list, t) # {i} ->
         ByNth(t, Cardinality({j \in OfType(list, t) : j < i}))
    [] OTHER -> ByIndex(i - 1)

-----------------------------------------------------------------------------
\* A destination: append, index (from the end if negative), or before or after a row.
AtEnd         == [mode |-> "append", n |-> 0, sel |-> ByIndex(0)]
At(n)         == [mode |-> "index", n |-> n, sel |-> ByIndex(0)]
Before(sel)   == [mode |-> "before", n |-> 0, sel |-> sel]
After(sel)    == [mode |-> "after", n |-> 0, sel |-> sel]
Relative(a)   == a.mode \in {"before", "after"}

\* insertPoint: how many rows stay above the new one; none if there is no such place.
InsertPoint(list, a) ==
  {p \in 0 .. Len(list) :
     \/ a.mode = "append" /\ p = Len(list)
     \/ a.mode = "index"  /\ p = (IF a.n < 0 THEN a.n + Len(list) + 1 ELSE a.n)
     \/ a.mode = "before" /\ p + 1 \in One(list, a.sel)
     \/ a.mode = "after"  /\ p \in One(list, a.sel)}

Insert(list, p, row) == InsertAt(list, p + 1, row)

\* shiftForRemoval: where row i is once row r is taken out.
ShiftForRemoval(i, r) == IF i > r THEN i - 1 ELSE i

\* Move: how many of the other rows stay above the moved one.  The anchor is resolved with the
\* row still in the array.
MovePoint(list, src, a) ==
  IF Relative(a)
  THEN {IF a.mode = "before" THEN ShiftForRemoval(i, src) - 1 ELSE ShiftForRemoval(i, src) :
          i \in One(list, a.sel) \ {src}}
  ELSE InsertPoint(RemoveAt(list, src), a)

Move(list, src, p) == Insert(RemoveAt(list, src), p, list[src])

\* Remove: the array without the rows at idx.
RemoveAll(list, idx) ==
  LET kept   == DOMAIN list \ idx
      nth(k) == CHOOSE i \in kept : Cardinality({j \in kept : j < i}) = k - 1
  IN  [k \in 1 .. Cardinality(kept) |-> list[nth(k)]]

\* StripIDs: the row without its ids, at every depth.
StripIDs(row) ==
  LET bare == [row EXCEPT !.id = NoId] IN
  IF "inner" \notin DOMAIN row \/ row.inner = Absent THEN bare
  ELSE [bare EXCEPT !.inner = [i \in DOMAIN row.inner |-> [row.inner[i] EXCEPT !.id = NoId]]]

\* A change of one row: its field text or type set, or text or inner cleared; at selects a row
\* of inner whose text is set instead.
Sets(key, value)   == [key |-> key, value |-> value, clear |-> FALSE, at |-> Absent]
Clears(key)        == [key |-> key, value |-> Null, clear |-> TRUE, at |-> Absent]
SetsInner(sel, v)  == [key |-> "text", value |-> v, clear |-> FALSE, at |-> sel]

\* Set: the rows a change can make of a row, none if the change has no place in it.
\* ClearPath empties an array and nulls a scalar, and leaves a key that is absent.
Changed(row, c) ==
  CASE c.at # Absent ->
         IF "inner" \notin DOMAIN row \/ row.inner = Absent THEN {}
         ELSE {[row EXCEPT !.inner[i].text = c.value] : i \in One(row.inner, c.at)}
    [] c.at = Absent /\ ~c.clear -> {[row EXCEPT ![c.key] = c.value]}
    [] c.at = Absent /\ c.clear /\ c.key = "inner" ->
         {IF "inner" \notin DOMAIN row \/ row.inner = Absent THEN row ELSE [row EXCEPT !.inner = <<>>]}
    [] c.at = Absent /\ c.clear /\ c.key # "inner" -> {[row EXCEPT ![c.key] = Null]}

\* LooksLikeBlocks: every row has a blockType, and there is one.
LooksLikeBlocks(list) == list # <<>> /\ \A i \in DOMAIN list : list[i].type # ""
=============================================================================
