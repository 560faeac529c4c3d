---------------------------- MODULE EditPipeline ----------------------------
(***************************************************************************)
(* The edit pipeline: pay get | pay blocks mv, rm, add, cp, set | pay      *)
(* apply (internal/cli: pipeline.go, blocks.go, blocks_path.go, apply.go,  *)
(* masked.go).  A document is read, handed from stage to stage with a      *)
(* record of the fields edited, and written back: only those fields, whole *)
(* arrays, while another editor may change the document in between.        *)
(*                                                                         *)
(* A document has a title and two blocks fields.  A row's secret is a key  *)
(* the read masks and Payload merges; its rich is rich text, with a masked *)
(* key inside, which Payload stores whole; both hold the id of the row     *)
(* they were written for.                                                  *)
(*                                                                         *)
(* Left out: globals, drafts and the publication guard (see Publication);  *)
(* references; --template and Markdown, which only build a row; warnings   *)
(* no property needs.                                                      *)
(***************************************************************************)
EXTENDS Rows

CONSTANTS
  Documents,  \* the documents there may be at first
  Selectors, Anchors, Changes, Slugs,  \* what a caller may ask for
  Entries,    \* the selectors a --field enters a row by
  Known,      \* the blockTypes the server has
  Types,      \* the blockTypes rows may have
  MaxStages,  \* bound: stages of a pipe
  MaxRows,    \* bound: rows of an array
  MaxEdits    \* bound: edits by the other editor

VARIABLES
  stored,    \* the document at the server
  declared,  \* whether the project's schema declares the fields and what they accept
  pipe,      \* what the last stage wrote to its standard output
  last,      \* the operation of the stage just done, as its entry in edits.ops says
  writer,    \* pay apply
  edits,     \* edits by the other editor so far
  removed    \* history: the ids of the rows the stages have taken out

vars == <<stored, declared, pipe, last, writer, edits, removed>>

Blocks  == {"layout", "footer"}  \* the blocks fields
Mask    == -1   \* "<redacted>"
Omitted == -2   \* a key left out of a body
Default == 0

\* Ids: those of the documents at first are below 100; what the server gives row j of row i,
\* and the next row of the other editor.
Fresh(i, j) == 100 + 10 * i + j
Theirs      == -1 - edits

NewRow(type)      == [id |-> NoId, type |-> type, text |-> 9, secret |-> Default, rich |-> Default, inner |-> Absent]
NewInnerRow(type) == [id |-> NoId, type |-> type, text |-> 9]

\* Rows, and lists of them: whose ids differ; none of which is the id of an inner row; as the
\* server has them.
InnerRow == [id : Int, type : Types, text : Int]
OuterRow == [id : Int, type : Types, text : Int, secret : Int, rich : Int, inner : Seq(InnerRow) \cup {Absent}]
Document == [title : Int, layout : Seq(OuterRow), footer : Seq(OuterRow)]

Distinct(list) == \A i, j \in DOMAIN list : list[i].id = list[j].id /\ list[i].id # NoId => i = j
Apart(list) ==
  \A i, k \in DOMAIN list :
    list[k].inner # Absent /\ list[i].id # NoId =>
      \A n \in DOMAIN list[k].inner : list[k].inner[n].id # list[i].id
Served(list) ==
  /\ list \in Seq(OuterRow) /\ Distinct(list)
  /\ \A j \in DOMAIN list : list[j].secret \in Nat /\ list[j].rich \in Nat /\ list[j].id # NoId /\ list[j].id < 100

\* A document there may be at first: an id is given once.
DocumentOk(d) ==
  /\ d \in Document
  /\ \A f \in Blocks :
       /\ Served(d[f]) /\ Apart(d[f])
       /\ \A i \in DOMAIN d[f] :
            /\ d[f][i].id > 0
            /\ d[f][i].inner # Absent =>
                 Distinct(d[f][i].inner) /\ \A j \in DOMAIN d[f][i].inner : d[f][i].inner[j].id # NoId

ChangeOk(c) ==
  \/ c.at = Absent /\ c.clear = FALSE /\ c.key = "text" /\ c.value \in Int
  \/ c.at = Absent /\ c.clear = FALSE /\ c.key = "type" /\ c.value \in Types
  \/ c.at = Absent /\ c.clear = TRUE /\ c.key \in {"text", "inner"}
  \/ c.at # Absent /\ c.value \in Int

\* What may be asked for; no array and no document is the value of a key left out; the documents.
Asked ==
  /\ \A a \in Anchors : a.mode \in {"append", "index", "before", "after"} /\ a.n \in Int
  /\ \A c \in Changes : ChangeOk(c)
  /\ Slugs \cup {"", "t"} \subseteq Types
AbsentApart == Absent \notin Seq(InnerRow) \cup Seq(OuterRow) \cup Document
DocumentsOk == Documents # {} /\ \A d \in Documents : DocumentOk(d)

EditAssumption == Asked /\ AbsentApart /\ DocumentsOk

\* A pipe: what it holds, the error it holds instead, the document (Absent fields were not
\* read), whether its rich text was rendered, edits.fields, the arrays reshaped by a stage, the
\* warnings, and the stages it has passed.
NoPipe == [kind |-> "none", code |-> "", doc |-> Absent, rendered |-> FALSE, fields |-> {},
           reshaped |-> {}, warned |-> {}, stages |-> 0]
NoOp   == [verb |-> "none", root |-> "", row |-> 0, src |-> {}, at |-> 0, anchor |-> AtEnd]
Idle   == [at |-> "idle", sent |-> {}, before |-> Absent]

Init ==
  /\ stored \in Documents /\ declared \in BOOLEAN
  /\ pipe = NoPipe /\ last = NoOp /\ writer = Idle /\ edits = 0 /\ removed = {}

-----------------------------------------------------------------------------
\* pay get: the whole document, a part of it, its rich text rendered, one field bare, or nothing.
Masked(list) == [i \in DOMAIN list |-> [list[i] EXCEPT !.secret = Mask, !.rich = Mask]]
Slim(list)   == [i \in DOMAIN list |-> [list[i] EXCEPT !.inner = Absent]]
Read(d, how) ==
  [title  |-> d.title,
   layout |-> CASE how = "footer" -> Absent [] how = "slim" -> Slim(Masked(d.layout)) [] OTHER -> Masked(d.layout),
   footer |-> IF how = "bare" THEN Absent ELSE Masked(d.footer)]

Gets ==
  /\ pipe.kind = "none" /\ writer = Idle
  /\ \E how \in {"whole", "footer", "slim", "rendered", "bare"} :
       pipe' = [NoPipe EXCEPT !.kind = IF how = "bare" THEN "bare" ELSE "doc", !.doc = Read(stored, how),
                              !.rendered = how = "rendered"]
  /\ last' = NoOp
  /\ UNCHANGED <<stored, declared, writer, edits, removed>>

GetFails ==
  /\ pipe.kind = "none" /\ writer = Idle
  /\ pipe' = [NoPipe EXCEPT !.kind = "failed", !.code = "server_error"]
  /\ last' = NoOp
  /\ UNCHANGED <<stored, declared, writer, edits, removed>>

-----------------------------------------------------------------------------
\* A --field: the array of a field (row 0), or the inner array of a row of it; no field at all.
NoField     == [root |-> "", row |-> Absent]
Top(f)      == [root |-> f, row |-> Absent]
In(f, sel)  == [root |-> f, row |-> sel]
FieldArgs   == {NoField} \cup {Top(f) : f \in Blocks} \cup {In("layout", s) : s \in Entries}

Carried(d) == {f \in Blocks : d[f] # Absent}

\* pickRowField: the declared field the document carries, or the one whose rows look like blocks.
PickRowField(d) ==
  IF declared
  THEN IF Cardinality(Carried(d)) = 1 THEN Carried(d) ELSE {}
  ELSE LET like == {f \in Carried(d) : LooksLikeBlocks(d[f])} IN IF Cardinality(like) = 1 THEN like ELSE {}

\* knownRowArray: why a row's missing inner is believed to be an array.
KnownRowArray(d, type) ==
  type # "" /\ (declared \/ \E f \in Carried(d) : \E i \in DOMAIN d[f] :
                              d[f][i].type = type /\ d[f][i].inner # Absent)

\* A place: the error it is instead, the field, the row (0: the field itself), its rows, a warning.
Nowhere(code)        == [code |-> code, root |-> "", row |-> 0, rows |-> <<>>, warned |-> {}]
Place(f, i, list, w) == [code |-> "", root |-> f, row |-> i, rows |-> list, warned |-> w]

Missed(list, sel) == IF Match(list, sel) = {} THEN "selector_no_match" ELSE "selector_ambiguous"

\* locateRows and absentField: what a --field addresses.
Locate(d, f) ==
  CASE f.row = Absent ->
         IF d[f.root] = Absent THEN Place(f.root, 0, <<>>, {<<"field_absent", f.root>>})
         ELSE Place(f.root, 0, d[f.root], {})
    [] f.row # Absent /\ d[f.root] = Absent -> Nowhere("selector_no_match")
    [] f.row # Absent /\ d[f.root] # Absent ->
         LET list == d[f.root] IN
         IF One(list, f.row) = {} THEN Nowhere(Missed(list, f.row))
         ELSE LET i == CHOOSE i \in One(list, f.row) : TRUE IN
              IF list[i].inner # Absent THEN Place(f.root, i, list[i].inner, {})
              ELSE IF KnownRowArray(d, list[i].type) THEN Place(f.root, i, <<>>, {<<"field_absent", f.root>>})
              ELSE Nowhere("unknown_field")

\* staleIndexWarning: a path enters by position an array an earlier stage has reshaped.
ByPosition(f) == f.row # Absent /\ f.row.kind \in {"index", "nth"}
Stale(f)      == IF ByPosition(f) /\ <<f.root, 0>> \in pipe.reshaped THEN {<<"stale_index", f.root>>} ELSE {}

\* resolveRowField.
Resolve(f) ==
  IF pipe.kind = "bare"
  THEN IF f = NoField THEN Place("layout", 0, pipe.doc.layout, {}) ELSE Nowhere("invalid_args")
  ELSE IF f # NoField THEN LET p == Locate(pipe.doc, f) IN [p EXCEPT !.warned = @ \cup Stale(f)]
  ELSE IF PickRowField(pipe.doc) = {} THEN Nowhere("field_ambiguous")
  ELSE Locate(pipe.doc, Top(CHOOSE g \in PickRowField(pipe.doc) : TRUE))

\* Replace: the document with an array of it replaced.
Replace(d, p, list) ==
  IF p.row = 0 THEN [d EXCEPT ![p.root] = list] ELSE [d EXCEPT ![p.root][p.row].inner = list]

Fails(code) ==
  /\ pipe' = [pipe EXCEPT !.kind = "failed", !.code = code, !.stages = @ + 1]
  /\ last' = NoOp /\ removed' = removed

\* The ids of rows, those of their inner rows among them.
IdsOf(row) == {row.id} \cup IF "inner" \notin DOMAIN row \/ row.inner = Absent THEN {}
                            ELSE {row.inner[j].id : j \in DOMAIN row.inner}
Ids(list)  == (UNION {IdsOf(list[i]) : i \in DOMAIN list}) \ {NoId}

\* emitStage: the edited document, the field that must be written for it, and the operation.
\* Rows that came bare go on as a list, which no stage takes for rows.
Emits(p, list, op) ==
  /\ Len(list) <= MaxRows
  /\ pipe' = [pipe EXCEPT
       !.kind = IF @ = "bare" THEN "list" ELSE @,
       !.doc = Replace(@, p, list),
       !.fields = IF pipe.kind = "bare" THEN @ ELSE @ \cup {p.root},
       !.reshaped = IF op.verb = "set" THEN @ ELSE @ \cup {<<p.root, p.row>>},
       !.warned = @ \cup p.warned, !.stages = @ + 1]
  /\ last' = [op EXCEPT !.root = p.root, !.row = p.row]
  /\ removed' = removed \cup (Ids(p.rows) \ Ids(list))

\* pay blocks mv.
Moves(p) ==
  \E sel \in Selectors, a \in Anchors \ {AtEnd} :
    IF One(p.rows, sel) = {} THEN Fails(Missed(p.rows, sel))
    ELSE \E src \in One(p.rows, sel) :
      \/ MovePoint(p.rows, src, a) = {} /\ Fails("invalid_args")
      \/ \E n \in MovePoint(p.rows, src, a) :
           Emits(p, Move(p.rows, src, n), [NoOp EXCEPT !.verb = "mv", !.src = {src}, !.at = n + 1, !.anchor = a])

\* pay blocks rm: every selector is resolved in the array as it was read.
Removes(p) ==
  \E sels \in {s \in SUBSET Selectors : Cardinality(s) \in 1 .. 2}, all \in BOOLEAN :
    LET hits(sel) == IF all THEN Match(p.rows, sel) ELSE One(p.rows, sel)
        idx       == UNION {hits(sel) : sel \in sels}
    IN IF \E sel \in sels : hits(sel) = {}
       THEN \E sel \in sels : hits(sel) = {} /\ Fails(Missed(p.rows, sel))
       ELSE Emits(p, RemoveAll(p.rows, idx), [NoOp EXCEPT !.verb = "rm", !.src = idx])

\* rowArrayKind: whether the rows of an array carry a blockType, if anything says so.
Kinds(p) ==
  LET types == {p.rows[i].type : i \in DOMAIN p.rows} IN
  CASE declared /\ pipe.kind # "bare"              -> IF p.row = 0 THEN "blocks" ELSE "array"
    [] ~(declared /\ pipe.kind # "bare") /\ types = {""} -> "array"
    [] ~(declared /\ pipe.kind # "bare") /\ types # {} /\ "" \notin types -> "blocks"
    [] OTHER -> ""

\* checkBlockType: what a declared field does not accept.
Refusable(p) == IF declared /\ pipe.kind # "bare" /\ p.row = 0 THEN Slugs \ (Known \cup {"-"}) ELSE {}

\* pay blocks add: slug "-" is a row of a plain array.
Adds(p) ==
  \E slug \in Slugs, a \in Anchors :
    LET kind == Kinds(p)
        type == IF slug = "-" \/ kind = "array" THEN "" ELSE slug
        row  == IF p.row = 0 THEN NewRow(type) ELSE NewInnerRow(type)
    IN \/ slug = "-" /\ kind = "blocks" /\ Fails("invalid_args")
       \/ slug \in Refusable(p) /\ Fails("block_type_unknown")
       \/ /\ slug = "-" => kind # "blocks"
          /\ slug \notin Refusable(p)
          /\ \/ InsertPoint(p.rows, a) = {} /\ Fails("invalid_args")
             \/ \E n \in InsertPoint(p.rows, a) :
                  Emits(p, Insert(p.rows, n, row), [NoOp EXCEPT !.verb = "add", !.at = n + 1, !.anchor = a])

\* pay blocks cp.
Copies(p) ==
  \E sel \in Selectors, a \in Anchors :
    IF One(p.rows, sel) = {} THEN Fails(Missed(p.rows, sel))
    ELSE \E src \in One(p.rows, sel) :
      \/ InsertPoint(p.rows, a) = {} /\ Fails("invalid_args")
      \/ \E n \in InsertPoint(p.rows, a) :
           Emits(p, Insert(p.rows, n, StripIDs(p.rows[src])),
                 [NoOp EXCEPT !.verb = "cp", !.src = {src}, !.at = n + 1, !.anchor = a])

\* pay blocks set.
SetsRow(p) ==
  \E sel \in Selectors, c \in Changes :
    IF One(p.rows, sel) = {} THEN Fails(Missed(p.rows, sel))
    ELSE \E i \in One(p.rows, sel) :
      IF Changed(p.rows[i], c) = {} THEN Fails("selector_no_match")
      ELSE \E row \in Changed(p.rows[i], c) :
        Emits(p, [p.rows EXCEPT ![i] = row], [NoOp EXCEPT !.verb = "set", !.src = {i}])

\* runStage: one of the verbs.  An error on the pipe is passed on as it is.
Stage ==
  /\ pipe.kind # "none" /\ pipe.stages < MaxStages /\ writer = Idle
  /\ CASE pipe.kind = "failed" -> Fails(pipe.code)
       [] pipe.kind = "list"   -> Fails("bad_request_body")
       [] pipe.kind \in {"doc", "bare"} /\ pipe.rendered -> Fails("richtext_rendered")
       [] pipe.kind \in {"doc", "bare"} /\ ~pipe.rendered ->
            \E f \in FieldArgs :
              LET p == Resolve(f) IN
              IF p.code # "" THEN Fails(p.code)
              ELSE Moves(p) \/ Removes(p) \/ Adds(p) \/ Copies(p) \/ SetsRow(p)
  /\ UNCHANGED <<stored, declared, writer, edits>>

-----------------------------------------------------------------------------
\* applyBody: the fields sent are those of the edits, unless the caller names others or all.
Recorded == pipe.fields
Sendable == IF pipe.kind = "failed" THEN {{}}
            ELSE {Recorded, {"layout"}, Carried(pipe.doc) \cup {"title"}}

Refused(sent) ==
  \/ pipe.kind \in {"failed", "bare", "list"}
  \/ pipe.rendered
  \/ sent = {}
  \/ \E f \in sent \cap Blocks : pipe.doc[f] = Absent

\* pay apply is over, and so is the pipe.
Done(how) == writer' = [Idle EXCEPT !.at = how] /\ pipe' = NoPipe /\ removed' = {} /\ last' = NoOp

\* runApply up to the write: the fields to be sent, and the document read for what was masked.
Prepares ==
  /\ pipe.kind # "none" /\ writer = Idle
  /\ \E sent \in Sendable :
       IF Refused(sent) THEN Done("refused")
       ELSE /\ \E before \in {stored, Absent} :  \* a failed read restores nothing
                 writer' = [at |-> "ready", sent |-> sent, before |-> before]
            /\ last' = NoOp
            /\ UNCHANGED <<pipe, removed>>
  /\ UNCHANGED <<stored, declared, edits>>

\* Mutant: a row is paired by its position although it has an id.
PairByPosition(row, i, list) == {j \in DOMAIN list : j = i /\ row.type = list[j].type}

\* pairStored and sameNode: the stored row a row of the body is, if there is one.
Pair(row, i, list) ==
  {j \in DOMAIN list : /\ IF row.id # NoId THEN list[j].id = row.id ELSE j = i
                       /\ list[j].type = row.type}

\* prepareWriteBody: a masked key that is merged is left out; one inside rich text is put back.
Prepared(row, i, before) ==
  [row EXCEPT
     !.secret = IF @ = Mask THEN Omitted ELSE @,
     !.rich = IF @ # Mask THEN @
              ELSE IF before = Absent \/ Pair(row, i, before) = {} THEN Default
              ELSE before[CHOOSE j \in Pair(row, i, before) : TRUE].rich]

Body(f) ==
  LET before == IF writer.before = Absent THEN Absent ELSE writer.before[f]
  IN [i \in DOMAIN pipe.doc[f] |-> Prepared(pipe.doc[f][i], i, before)]

\* Payload: a PATCH replaces an array; a row whose id is stored keeps the keys left out of it, a
\* row without one is new, and a row of a type the server does not have is dropped.
Stores(row, i, list) ==
  LET old  == {j \in DOMAIN list : row.id # NoId /\ list[j].id = row.id /\ list[j].type = row.type}
      keep == IF old = {} THEN [NewRow(row.type) EXCEPT !.inner = <<>>] ELSE list[CHOOSE j \in old : TRUE]
      id(n, j) == IF n = NoId THEN Fresh(i, j) ELSE n
  IN [row EXCEPT
        !.id = id(@, 0),
        !.secret = IF @ = Omitted THEN keep.secret ELSE @,
        !.inner = IF @ = Absent THEN keep.inner
                  ELSE [j \in DOMAIN row.inner |-> [row.inner[j] EXCEPT !.id = id(@, j)]]]

Patched(f) ==
  LET body == Body(f) IN
  RemoveAll([i \in DOMAIN body |-> Stores(body[i], i, stored[f])], {i \in DOMAIN body : body[i].type \notin Known})

\* runUpdateOne: the PATCH, which may be refused or never arrive.
Writes ==
  /\ writer.at = "ready"
  /\ \/ stored' = [title  |-> IF "title" \in writer.sent THEN pipe.doc.title ELSE stored.title,
                   layout |-> IF "layout" \in writer.sent THEN Patched("layout") ELSE stored.layout,
                   footer |-> IF "footer" \in writer.sent THEN Patched("footer") ELSE stored.footer]
     \/ stored' = stored
  /\ Done("written")
  /\ UNCHANGED <<declared, edits>>

Rewritten(row) == [row EXCEPT !.secret = @ + 20, !.rich = @ + 20]

\* The other editor, between the read and the write.  No stage looks at the server: an edit
\* before one is an edit before them all.
OtherEdits ==
  /\ pipe.kind = "doc" /\ edits < MaxEdits
  /\ writer.at = "ready" \/ (writer.at = "idle" /\ pipe.stages = 0)
  /\ \/ stored' = [stored EXCEPT !.title = @ + 1]
     \/ stored' = [stored EXCEPT !.layout = [i \in DOMAIN @ |-> Rewritten(@[i])]]
     \/ \E i \in DOMAIN stored.layout : stored' = [stored EXCEPT !.layout = RemoveAt(@, i)]
     \/ stored' = [stored EXCEPT !.layout = Append(@, [NewRow("t") EXCEPT !.id = Theirs, !.secret = 50, !.rich = 50, !.inner = <<>>])]
  /\ edits' = edits + 1
  /\ last' = NoOp
  /\ UNCHANGED <<declared, pipe, writer, removed>>

Next == Gets \/ GetFails \/ Stage \/ Prepares \/ Writes \/ OtherEdits

Spec == Init /\ [][Next]_vars

-----------------------------------------------------------------------------
ArrayOf(d, l) ==
  LET list == IF l.row = 0 THEN d[l.root] ELSE d[l.root][l.row].inner
  IN IF list = Absent THEN <<>> ELSE list

\* Where a row was put is where the destination says, next to its anchor if it has one.
Lands(before, after, l) ==
  CASE l.anchor.mode = "append" -> l.at = Len(after)
    [] l.anchor.mode = "index"  -> l.anchor.n = (IF l.anchor.n >= 0 THEN l.at - 1 ELSE l.at - 1 - Len(after))
    [] l.anchor.mode = "before" -> \A j \in One(before, l.anchor.sel) : after[l.at + 1] = before[j]
    [] l.anchor.mode = "after"  -> \A j \in One(before, l.anchor.sel) : l.at > 1 /\ after[l.at - 1] = before[j]

\* The rows of after are those of before without src, in their order.
Without(before, after, src) ==
  \E f \in [DOMAIN after -> DOMAIN before] :
    /\ \A j, k \in DOMAIN after : j < k => f[j] < f[k]
    /\ {f[j] : j \in DOMAIN after} = DOMAIN before \ src
    /\ \A j \in DOMAIN after : after[j] = before[f[j]]

NoIds(row) == row.id = NoId /\ ("inner" \in DOMAIN row => IdsOf(row) = {NoId})

\* What an entry of the op log says of the array it names.
Does(before, after, l) ==
  CASE l.verb = "mv"  -> \E i \in l.src :
         /\ RemoveAt(after, l.at) = RemoveAt(before, i) /\ after[l.at] = before[i]
         /\ Lands(before, after, l)
    [] l.verb = "add" -> RemoveAt(after, l.at) = before /\ NoIds(after[l.at]) /\ Lands(before, after, l)
    [] l.verb = "cp"  -> \E i \in l.src :
         /\ RemoveAt(after, l.at) = before /\ NoIds(after[l.at]) /\ Lands(before, after, l)
         /\ after[l.at].text = before[i].text /\ after[l.at].type = before[i].type
    [] l.verb = "rm"  -> l.src # {} /\ Without(before, after, l.src)
    [] l.verb = "set" -> \E i \in l.src :
         /\ Len(after) = Len(before) /\ after[i].id = before[i].id
         /\ \A j \in DOMAIN before \ {i} : after[j] = before[j]

\* A stage does what its entry in the op log says to the array it names, and nothing else.
StageExact ==
  pipe.stages' = pipe.stages + 1 /\ pipe'.kind \in {"doc", "list"} =>
    LET l      == last'
        before == ArrayOf(pipe.doc, l)
        after  == ArrayOf(pipe.doc', l)
    IN /\ \A f \in Blocks \ {l.root} : pipe.doc'[f] = pipe.doc[f]
       /\ l.row # 0 => /\ DOMAIN pipe.doc'[l.root] = DOMAIN pipe.doc[l.root]
                       /\ \A i \in DOMAIN pipe.doc[l.root] \ {l.row} : pipe.doc'[l.root][i] = pipe.doc[l.root][i]
       /\ pipe'.kind = "doc" => pipe.fields \cup {l.root} \subseteq pipe'.fields
       /\ Does(before, after, l)
       \* Every row of the array can be addressed by the selector a listing would print for it.
       /\ \A i \in DOMAIN after : One(after, Selector(after, i)) = {i}

Told(f) == \/ <<"field_absent", f>> \in pipe.warned
           \/ \E i \in DOMAIN pipe.doc[f] : pipe.doc[f][i].type \notin Known

Same(r, q) == r.id = q.id /\ r.type = q.type

\* A write sends no field but those of the edits, unless the caller named others; no mask; and it
\* loses no row and no masked value of the document but what a stage took out, what another editor
\* wrote after it was read, and what a warning named.
WriteExact ==
  writer.at = "ready" /\ writer'.at = "written" /\ stored' # stored =>
    /\ writer.sent \in {pipe.fields, {"layout"}, Carried(pipe.doc) \cup {"title"}}
    /\ "title" \notin writer.sent => stored'.title = stored.title
    /\ \A f \in Blocks \ writer.sent : stored'[f] = stored[f]
    /\ \A f \in Blocks \cap writer.sent :
         LET before == stored[f]  after == stored'[f]  edited == pipe.doc[f] IN
         /\ Ids(edited) \subseteq Ids(after) \/ Told(f)
         /\ \A i \in DOMAIN after : after[i].secret # Mask /\ after[i].rich # Mask
         /\ \A i, j \in DOMAIN after : after[i].id = after[j].id => i = j
         /\ \A i \in DOMAIN after, j \in DOMAIN before :
              Same(after[i], before[j]) =>
                /\ after[i].secret = before[j].secret
                /\ writer.before = stored => after[i].rich = before[j].rich
         /\ edits = 0 => \A j \in DOMAIN before :
              \/ before[j].id \in removed \/ IdsOf(before[j]) \subseteq Ids(after) \cup removed
              \/ Told(f)
              \/ \E i \in DOMAIN after : after[i].id = before[j].id /\ after[i].type # before[j].type

\* From the read to the write, every stage makes exactly the edit it records, and the write
\* carries exactly those edits: no row, no id and no masked value is lost on the way.
EditsExact == [][StageExact /\ WriteExact]_vars
=============================================================================
