------------------------------- MODULE Census -------------------------------
(***************************************************************************)
(* The block census (internal/discovery/census*.go, cache/census.go,       *)
(* cli/blocks_census.go): which blockTypes and values the documents of an  *)
(* entity hold.  A command reads the entities it needs page by page and    *)
(* merges them into the one file of the scope, under its lock; a write     *)
(* folds the document it was answered with into that file.  Other editors  *)
(* create, change and delete documents meanwhile.                          *)
(*                                                                         *)
(* A document is its layout, a sequence of rows.  Of a row's fields one    *)
(* scalar ("style") and one nested blocks field ("blocks") stand for all;  *)
(* types and values are numbers, and 0 is null or an empty row.            *)
(***************************************************************************)
EXTENDS Integers, FiniteSets, Sequences

CONSTANTS
  Procs, Slugs, Ids,  \* a document created later has a higher id
  Types, Values, Vocabulary,  \* blockTypes; what style may be; the values that look like options
  Starts,             \* the documents at the start: [Slugs -> [Ids -> a layout or None]]
  Layouts,            \* what a document may be changed to, by slug: with no more values than a
                      \* vocabulary may have (see the README)
  Commands,           \* see Command
  Declares,           \* the slugs whose schema declares a blocks field
  Schemas,            \* see Schema
  PageSize, MaxValues,  \* censusPageSize, maxCensusValues
  Fresh, HardMax,     \* the two ages of the block_census class
  MaxTime, MaxEdits, MaxCommands,  \* bounds
  None, Deleted

NoKey == -1
Null  == 0

\* A row; type Null is `{}`, NoKey a row without a blockType.
Row(type, style, inner) == [type |-> type, style |-> style, inner |-> inner]

\* What a command that reads asks: which slugs, even if fresh (learn), of all slugs at once,
\* --refresh, --census-max-docs.
Command(only, force, wide, refresh, max) ==
  [only |-> only, force |-> force, wide |-> wide, refresh |-> refresh, max |-> max]

\* The schema of a blocks field: the types it accepts, those whose slug the project source
\* names, and the profile's pin.
Schema(accepts, paired, pin) == [accepts |-> accepts, paired |-> paired, pin |-> pin]

VARIABLES
  docs, peak,      \* the server, and the most rows of each type each document ever had
  disk,            \* census.json: [Slugs -> an entity or None]
  proc,            \* the commands
  clock, edits, used

vars == <<docs, peak, disk, proc, clock, edits, used>>

-----------------------------------------------------------------------------
(* Building: what a list of layouts is counted as.                          *)

Top == "layout"
Nested == "layout[].blocks"

IsBlocks(L) == \E n \in DOMAIN L : L[n].type \in Types

OfType(L, t)    == {n \in DOMAIN L : L[n].type = t}
Under(L, t, u)  == UNION {{<<n, m>> : m \in {k \in DOMAIN L[n].inner : L[n].inner[k] = u}} : n \in OfType(L, t)}

HasRows(L, t) == Cardinality(OfType(L, t)) + Cardinality(UNION {Under(L, u, t) : u \in Types})

Listed(f) == {v \in Values : f.values[v] > 0}

\* The MaxValues most frequent values (among equals the code keeps those seen first).
Ranked(counts) ==
  LET before(v) == {w \in Values : counts[w] > counts[v] \/ (counts[w] = counts[v] /\ w < v)}
  IN  [v \in Values |-> IF Cardinality(before(v)) < MaxValues THEN counts[v] ELSE 0]

\* Few values, each used again and again, all of which look like options.
EnumLike(counts, filled) ==
  LET distinct == {v \in Values : counts[v] > 0}
      d        == Cardinality(distinct)
  IN  filled >= 4 /\ d \in 2 .. MaxValues /\ 2 * d <= filled /\ distinct \subseteq Vocabulary

\* finish: of a field that is no vocabulary only repeated values are kept: the others are content.
Field(rows, t, keepValues) ==
  LET counts == [v \in Values |-> Cardinality({n \in OfType(rows, t) : rows[n].style = v})]
      filled == Cardinality({n \in OfType(rows, t) : rows[n].style \in Values})
      enum   == EnumLike(counts, filled)
      ranked == Ranked(counts)
  IN  [present |-> Cardinality({n \in OfType(rows, t) : rows[n].style # NoKey}), filled |-> filled,
       values  |-> [v \in Values |-> IF enum \/ keepValues \/ counts[v] >= 2 THEN ranked[v] ELSE 0],
       distinct |-> Cardinality({v \in Values : counts[v] > 0}), enum |-> enum, optional |-> FALSE]

\* observeRow, over all rows of the documents counted: how many of each type are at each
\* position, their fields, and how many of another type are in them.  A position, a type or a
\* field is known when its count is not 0.
Count(rows, keepValues) ==
  LET top(t)    == Cardinality(OfType(rows, t))
      nested(t) == Cardinality(UNION {Under(rows, u, t) : u \in Types})
  IN  [paths   |-> [w \in {Top, Nested} |-> [t \in Types |-> IF w = Top THEN top(t) ELSE nested(t)]],
       count   |-> [t \in Types |-> top(t) + nested(t)],
       style   |-> [t \in Types |-> Field(rows, t, keepValues)],
       accepts |-> [t \in Types |-> [u \in Types |-> Cardinality(Under(rows, t, u))]]]

Blockless(e) == \A t \in Types : e.count[t] = 0

-----------------------------------------------------------------------------
(* Overlaying a document.                                                   *)

\* demoteField: one document is no vocabulary.
Demoted(f, persist) ==
  [f EXCEPT !.enum = FALSE, !.values = [v \in Values |-> IF persist /\ @[v] < 2 THEN 0 ELSE @[v]]]

\* joinValues
Joined(a, b, persist, counting) ==
  LET all  == [v \in Values |->
                 IF a.values[v] > 0 THEN a.values[v] + IF counting THEN b.values[v] ELSE 0
                 ELSE IF persist /\ ~a.enum /\ b.values[v] < 2 THEN 0 ELSE b.values[v]]
      size == Cardinality({v \in Values : all[v] > 0})
  IN  [a EXCEPT !.values = Ranked(all), !.enum = @ /\ size <= MaxValues,
                !.distinct = IF size > @ THEN size ELSE @]

AddField(a, b, persist) ==
  IF a.present = 0 THEN Demoted(b, persist)
  ELSE [Joined(a, b, persist, TRUE) EXCEPT !.present = @ + b.present, !.filled = @ + b.filled]

\* addObservations: a document not counted yet is new evidence.
Added(e, ov, persist) ==
  [e EXCEPT !.paths   = [w \in DOMAIN @ |-> [t \in Types |-> @[w][t] + ov.paths[w][t]]],
            !.count   = [t \in Types |-> @[t] + ov.count[t]],
            !.style   = [t \in Types |-> IF ov.count[t] = 0 THEN @[t] ELSE AddField(@[t], ov.style[t], persist)],
            !.accepts = [t \in Types |-> [u \in Types |-> @[t][u] + ov.accepts[t][u]]]]

AtMost(n, bound) == IF n > bound THEN bound ELSE n

\* clampField
Clamped(f, base) == [f EXCEPT !.present = AtMost(@, base), !.filled = AtMost(@, base), !.optional = TRUE]

\* refreshField and markOptional: a field that a stored row leaves empty is not required.
RefreshField(a, known, b, rows, persist) ==
  IF a.present = 0 THEN IF b.present = 0 THEN a ELSE Clamped(Demoted(b, persist), known)
  ELSE [Joined(a, b, persist, FALSE) EXCEPT !.optional = @ \/ b.filled < rows]

New(old, seen) == [k \in DOMAIN old |-> IF old[k] = 0 THEN seen[k] ELSE old[k]]

\* refreshObservations: a document already counted only shows what nobody had seen.
Refreshed(e, ov, persist) ==
  [e EXCEPT !.paths   = [w \in DOMAIN @ |-> New(@[w], ov.paths[w])],
            !.count   = New(@, ov.count),
            !.style   = [t \in Types |-> CASE ov.count[t] = 0 -> @[t]
                                           [] ov.count[t] # 0 /\ e.count[t] = 0 -> Demoted(ov.style[t], persist)
                                           [] OTHER -> RefreshField(@[t], e.count[t], ov.style[t], ov.count[t], persist)],
            !.accepts = [t \in Types |-> New(@[t], ov.accepts[t])]]

\* Mutant: every document is taken for a new one.
OverlayEach(e, id, L, persist) ==
  IF ~IsBlocks(L) THEN e
  ELSE [Added(e, Count(L, TRUE), persist) EXCEPT !.folded = IF persist THEN @ \cup {id} ELSE @]

\* OverlayDocs
Overlay(e, id, L, persist) ==
  IF ~IsBlocks(L) THEN e
  ELSE LET ov == Count(L, TRUE)
       IN  [IF id \in e.keys \cup e.folded THEN Refreshed(e, ov, persist) ELSE Added(e, ov, persist)
              EXCEPT !.folded = IF persist THEN @ \cup {id} ELSE @]

-----------------------------------------------------------------------------
(* Judging rows by what was observed (ValidateBlocks).                      *)

IsVocabulary(f) == f.enum /\ Listed(f) \subseteq Vocabulary

\* likelyRequired: always filled in, on three rows or more, and not always with the same.
LikelyRequired(f, base) ==
  ~f.optional /\ base >= 3 /\ f.filled >= base /\ f.distinct >= 2 /\ ~IsVocabulary(f)

\* checkAccepted below a row: what rows of its type hold answers before the position does.
Observed(e, parent) ==
  LET own == {u \in Types : e.accepts[parent][u] > 0}
  IN  IF own # {} THEN own ELSE {u \in Types : e.paths[Nested][u] > 0}

\* checkRow: findings about one row's own field.
FieldFindings(e, t, style) ==
  LET f == e.style[t]
  IN  {code \in {"unknown_field", "value_not_in_enum", "likely_required"} :
         /\ e.count[t] > 0
         /\ CASE code = "unknown_field"     -> style # NoKey /\ f.present = 0
              [] code = "value_not_in_enum" -> style \in Values /\ IsVocabulary(f) /\ style \notin Listed(f)
              [] code = "likely_required"   -> style \notin Values /\ LikelyRequired(f, e.count[t])}

\* The findings about L that rest on nothing but observation.
Findings(e, L) ==
  IF Blockless(e) THEN {}
  ELSE UNION { FieldFindings(e, L[n].type, L[n].style)
                 \cup (IF e.paths[Top][L[n].type] = 0 THEN {"type"} ELSE {})
                 \cup UNION {FieldFindings(e, u, NoKey) \cup (IF u \in Observed(e, L[n].type) THEN {} ELSE {"nested"})
                               : u \in {L[n].inner[m] : m \in DOMAIN L[n].inner}}
                 : n \in {k \in DOMAIN L : L[k].type \in Types} }

-----------------------------------------------------------------------------
(* What a field accepts, from its GraphQL union, the project source and the *)
(* census.  A union member is named by the type it stands for; the slug     *)
(* inferred from its name is right for the odd types, wrong for 2, and      *)
(* none for any other (an acronym).                                         *)

Infer(i) == CASE i % 2 = 1 -> i [] i = 2 -> 100 + i [] OTHER -> None

\* slugMatchesInterface: a slug is like the name of its own member only.
Akin(slug, i) == slug = i

\* resolveFromUnion: the members nobody can name, and the declared slugs.
Unresolved(schema) == {i \in schema.accepts \ schema.paired : Infer(i) = None}
SlugOf(schema, i)  == IF i \in schema.paired THEN i ELSE Infer(i)
Slugged(schema)    == {SlugOf(schema, i) : i \in schema.accepts \ Unresolved(schema)}

\* The members whose slug is only inferred, which no document carries and none of the
\* observed slugs is alone in resembling.
Unconfirmed(schema, e, sample) ==
  LET observed == {t \in Types : e.paths[Top][t] > 0}
  IN  {i \in schema.accepts \ (schema.paired \cup Unresolved(schema)) :
         /\ Infer(i) \notin sample \cup observed
         /\ Cardinality({o \in observed \ Slugged(schema) : Akin(o, i)}) # 1}

\* reconcile: the types named, and whether the list is complete, so that what is not in it
\* is an error.
Accepted(schema, e, sample) ==
  LET observed == {t \in Types : e.paths[Top][t] > 0}
      joined   == {i \in schema.accepts \ schema.paired :
                     /\ Infer(i) \notin {None} \cup sample \cup observed
                     /\ \E o \in observed \ Slugged(schema) : Akin(o, i)}
      extra    == {o \in observed \ Slugged(schema) : \A i \in joined : ~Akin(o, i)}
  IN  IF schema.pin # {} THEN [types |-> schema.pin \cup observed, authoritative |-> TRUE]
      ELSE [types |-> (Slugged(schema) \ {Infer(i) : i \in joined}) \cup observed,
            authoritative |-> Unresolved(schema) = {} /\ Unconfirmed(schema, e, sample) = {} /\ extra = {}]

-----------------------------------------------------------------------------
(* The commands.                                                            *)

Idle == [at |-> "idle"]

Init ==
  /\ docs \in Starts
  /\ peak = [s \in Slugs |-> [i \in Ids |-> [t \in Types |-> IF docs[s][i] = None THEN 0 ELSE HasRows(docs[s][i], t)]]]
  /\ disk = [s \in Slugs |-> None] /\ proc = [p \in Procs |-> Idle]
  /\ clock = 0 /\ edits = 0 /\ used = 0

Uses == used < MaxCommands /\ used' = used + 1

Age(e) == clock - e.builtAt

\* Enough documents were read for a command that allows max.
Enough(e, max) == ~e.truncated \/ e.max >= max

Reusable(e, max) == ~e.error /\ Age(e) < Fresh /\ Enough(e, max)

BlocklessReusable(e, s, max) ==
  ~e.error /\ Blockless(e) /\ Age(e) < HardMax /\ (e.early \/ Enough(e, max)) /\ s \notin Declares

\* ensureCensus: what is not there, too old or forced is read.
Ensures(p) ==
  /\ proc[p] = Idle /\ Uses
  /\ \E c \in Commands :
       LET mem  == IF c.refresh THEN [s \in Slugs |-> None] ELSE disk
           todo == {s \in c.only : mem[s] = None \/ c.force
                      \/ ~(Reusable(mem[s], c.max) \/ (c.wide /\ BlocklessReusable(mem[s], s, c.max)))}
       IN  proc' = [proc EXCEPT ![p] =
             IF todo = {} THEN Idle
             ELSE [at |-> "build", cmd |-> c, mem |-> mem, todo |-> todo, built |-> <<>>, missed |-> {}]]
  /\ UNCHANGED <<docs, peak, disk, clock, edits>>

Live(s) == {i \in Ids : docs[s][i] \notin {None, Deleted}}

\* censusEntity: reading one entity starts.
Starts1(p) ==
  /\ proc[p].at = "build"
  /\ \E s \in proc[p].todo :
       proc' = [proc EXCEPT ![p] =
         [at |-> "read", cmd |-> @.cmd, mem |-> @.mem, todo |-> @.todo \ {s}, built |-> @.built,
          missed |-> @.missed, slug |-> s, page |-> 1, read |-> <<>>, total |-> 0, sampled |-> FALSE,
          began |-> clock, there |-> Live(s)]]
  /\ UNCHANGED <<docs, peak, disk, clock, edits, used>>

\* The server's orders, and its pages: a document is on the page that as many before it fill.
Before(S, i, order) == Cardinality({j \in S : IF order = "newest" THEN j > i ELSE j < i})
Page(S, order, n, limit) == {i \in S : Before(S, i, order) \in (n - 1) * limit .. n * limit - 1}
Limit(r) == AtMost(PageSize, r.cmd.max)

Scanned(read) == Cardinality(DOMAIN read)

\* consume: documents are counted once, by id, up to the budget.
Consume(r, page, order) ==
  LET fresh == page \ DOMAIN r.read
      room  == r.cmd.max - Scanned(r.read)
      taken == {i \in fresh : Before(fresh, i, order) < room}
  IN  [i \in DOMAIN r.read \cup taken |-> IF i \in DOMAIN r.read THEN r.read[i] ELSE docs[r.slug][i]]

NoBlocks(read) == \A i \in DOMAIN read : ~IsBlocks(read[i])

\* The rows of all documents that have blocks.
RowsOf(read) ==
  [n \in UNION {{i} \X DOMAIN read[i] : i \in {j \in DOMAIN read : IsBlocks(read[j])}} |-> read[n[1]][n[2]]]

\* Finish: the entity as it is built.  The documents that were there when the read began, and
\* were not deleted meanwhile, are remembered when a read that calls itself complete lacks one.
Ended(r, read, truncated, early, error) ==
  LET seen == Count(RowsOf(read), FALSE)
      e == [paths |-> seen.paths, count |-> seen.count, style |-> seen.style, accepts |-> seen.accepts,
            builtAt |-> r.began, max |-> r.cmd.max, truncated |-> truncated, early |-> early,
            error |-> error, keys |-> DOMAIN read, folded |-> {}]
  IN  [at |-> "build", cmd |-> r.cmd, mem |-> r.mem, todo |-> r.todo,
       built  |-> [s \in DOMAIN r.built \cup {r.slug} |-> IF s = r.slug THEN e ELSE r.built[s]],
       missed |-> IF truncated \/ error THEN r.missed ELSE r.missed \cup (r.there \ e.keys)]

\* readCollection: a page of the newest documents; after a full one without a row, the
\* oldest are looked at before the rest is given up.
ReadsPage(p) ==
  /\ proc[p].at = "read" /\ ~(proc[p].sampled /\ proc[p].page = 1)
  /\ LET r     == proc[p]
         page  == Page(Live(r.slug), "newest", r.page, Limit(r))
         total == Cardinality(Live(r.slug))
         read  == Consume(r, page, "newest")
     IN  proc' = [proc EXCEPT ![p] =
           IF r.page * Limit(r) >= total \/ page = {} \/ Scanned(read) >= r.cmd.max
             THEN Ended(r, read, total > Scanned(read), FALSE, FALSE)
           ELSE IF NoBlocks(read) /\ Scanned(read) >= PageSize /\ ~r.sampled
             THEN [r EXCEPT !.at = "oldest", !.read = read, !.total = total, !.sampled = TRUE]
           ELSE [r EXCEPT !.read = read, !.total = total, !.page = @ + 1]]
  /\ UNCHANGED <<docs, peak, disk, clock, edits, used>>

\* The oldest page; when it is not answered the newest alone decides.
ReadsOldest(p) ==
  /\ proc[p].at = "oldest"
  /\ \E answered \in BOOLEAN :
       LET r    == proc[p]
           page == Page(Live(r.slug), "oldest", 1, Limit(r))
           read == IF answered THEN Consume(r, page, "oldest") ELSE r.read
           left == r.total > Scanned(read)
       IN  proc' = [proc EXCEPT ![p] =
             IF NoBlocks(read) THEN Ended(r, read, left, left, FALSE)
             ELSE IF Scanned(read) >= r.cmd.max THEN Ended(r, read, left, FALSE, FALSE)
             ELSE [r EXCEPT !.at = "read", !.read = read, !.page = @ + 1]]
  /\ UNCHANGED <<docs, peak, disk, clock, edits, used>>

\* A page is not answered: the entity keeps what was learned, and says so.
ReadFails(p) ==
  /\ proc[p].at = "read"
  /\ proc' = [proc EXCEPT ![p] = Ended(@, @.read, FALSE, FALSE, TRUE)]
  /\ UNCHANGED <<docs, peak, disk, clock, edits, used>>

\* A failed read does not take the place of a good one this command has loaded.
Kept(r) == {s \in DOMAIN r.built : ~(r.built[s].error /\ r.mem[s] # None /\ ~r.mem[s].error)}

Memory(r) == [s \in Slugs |-> IF s \in DOMAIN r.built /\ s \in Kept(r) THEN r.built[s] ELSE r.mem[s]]

\* Mutant: the copy this command loaded is written back.
MergeStale(r) == Memory(r)

\* mergeBuiltCensus: the file as it is now, with the entities this command has read, each
\* unless a later read of it is there.
Merge(r) ==
  IF r.cmd.refresh \/ \A s \in Slugs : disk[s] = None THEN Memory(r)
  ELSE [s \in Slugs |-> IF s \in DOMAIN r.built /\ s \in Kept(r)
                             /\ (disk[s] = None \/ disk[s].builtAt <= r.built[s].builtAt)
                        THEN r.built[s] ELSE disk[s]]

\* UpdateCensus, which may fail to take the lock or to write.
Persists(p) ==
  /\ proc[p].at = "build" /\ proc[p].todo = {}
  /\ disk' = Merge(proc[p]) \/ UNCHANGED disk
  /\ proc' = [proc EXCEPT ![p] = Idle]
  /\ UNCHANGED <<docs, peak, clock, edits, used>>

Stores(s, i, L) ==
  /\ docs' = [docs EXCEPT ![s][i] = L]
  /\ peak' = [peak EXCEPT ![s][i] = [t \in Types |-> IF HasRows(L, t) > @[t] THEN HasRows(L, t) ELSE @[t]]]

\* A write: the document is answered as it is stored, and remembered.
Writes(p) ==
  /\ proc[p] = Idle /\ Uses
  /\ \E s \in Slugs, i \in Ids : \E L \in Layouts[s] :
       /\ i \in Live(s) \/ \A j \in Ids : j >= i => docs[s][j] = None
       /\ Stores(s, i, L)
       /\ proc' = [proc EXCEPT ![p] = [at |-> "fold", slug |-> s, id |-> i, echo |-> L]]
  /\ UNCHANGED <<disk, clock, edits>>

\* flushCensusFolds: into whatever is there now, unless it failed or is too old.
Folds(p) ==
  /\ proc[p].at = "fold"
  /\ LET r == proc[p]
         e == disk[r.slug]
     IN  \/ e # None /\ ~e.error /\ Age(e) < HardMax
            /\ disk' = [disk EXCEPT ![r.slug] = Overlay(@, r.id, r.echo, TRUE)]
         \/ UNCHANGED disk
  /\ proc' = [proc EXCEPT ![p] = Idle]
  /\ UNCHANGED <<docs, peak, clock, edits, used>>

Crashes(p) ==
  /\ proc[p] # Idle /\ proc' = [proc EXCEPT ![p] = Idle]
  /\ UNCHANGED <<docs, peak, disk, clock, edits, used>>

\* pay cache clear
Clears ==
  /\ Uses /\ disk' = [s \in Slugs |-> None]
  /\ UNCHANGED <<docs, peak, proc, clock, edits>>

\* Other editors.  A deletion moves the pages of reads under way: what they miss is not theirs.
Edits ==
  /\ edits < MaxEdits /\ edits' = edits + 1
  /\ \E s \in Slugs : \E i \in Live(s) :
       \/ \E L \in Layouts[s] : Stores(s, i, L) /\ UNCHANGED proc
       \/ /\ docs' = [docs EXCEPT ![s][i] = Deleted] /\ UNCHANGED peak
          /\ proc' = [p \in Procs |-> IF proc[p].at \in {"read", "oldest"} /\ proc[p].slug = s
                                      THEN [proc[p] EXCEPT !.there = {}] ELSE proc[p]]
  /\ UNCHANGED <<disk, clock, used>>

Tick == clock < MaxTime /\ clock' = clock + 1 /\ UNCHANGED <<docs, peak, disk, proc, edits, used>>

Next ==
  \/ \E p \in Procs : \/ Ensures(p) \/ Starts1(p) \/ ReadsPage(p) \/ ReadsOldest(p) \/ ReadFails(p)
                      \/ Persists(p) \/ Writes(p) \/ Folds(p) \/ Crashes(p)
  \/ Clears \/ Edits \/ Tick

Spec == Init /\ [][Next]_vars

-----------------------------------------------------------------------------
(* Properties.                                                              *)

\* The rows of a type that the documents an entity counts had at their longest, numbered.
Ever(s, e, t) == UNION {{i} \X (1 .. peak[s][i][t]) : i \in e.keys \cup e.folded}

\* A document is counted once however often it is written: the file never has more rows of a
\* type, at any position, than the counted documents ever had together.
CountedOnce ==
  \A s \in Slugs : disk[s] # None =>
    \A t \in Types :
      LET had == Cardinality(Ever(s, disk[s], t))
      IN  disk[s].count[t] <= had /\ \A w \in {Top, Nested} : disk[s].paths[w][t] <= had

\* No field is on more rows than there are, nor filled in on more than have it.
RatiosSound ==
  \A s \in Slugs : disk[s] # None =>
    \A t \in Types : LET f == disk[s].style[t] IN f.filled <= f.present /\ f.present <= disk[s].count[t]

\* A row the server holds, exactly there and with exactly these values, is no anomaly however
\* old the census is that its document is laid over.
NoFalseAlarm ==
  \A s \in Slugs : disk[s] # None /\ Age(disk[s]) < HardMax =>
    \A i \in Live(s) : Findings(Overlay(disk[s], i, docs[s][i], FALSE), docs[s][i]) = {}

\* A read that does not call itself truncated has every document that was there all along,
\* whatever was created meanwhile.
ReadsComplete == \A p \in Procs : proc[p].at = "build" => proc[p].missed = {}

\* A list of types that is called complete has every type the field accepts, so that none of
\* these is ever an error; given that documents hold none but accepted types.
AuthoritySound ==
  \A s \in Declares : disk[s] # None =>
    \A schema \in Schemas :
      LET stored == {t \in Types : \E i \in Ids : peak[s][i][t] > 0}
      IN  schema.pin = {} /\ stored \subseteq schema.accepts =>
            \A sample \in SUBSET stored :
              LET a == Accepted(schema, disk[s], sample)
              IN  a.authoritative => schema.accepts \subseteq a.types

CensusTrue == CountedOnce /\ RatiosSound /\ NoFalseAlarm /\ ReadsComplete /\ AuthoritySound

\* What one command read, another does not undo: an entity in the file is only replaced by a
\* read that did not begin before it, and leaves the file only when all of it is cleared or
\* refreshed; a fold loses neither what was read nor a document folded before.
NewerKept ==
  \A s \in Slugs : disk[s] # None /\ disk'[s] # disk[s] =>
    \/ disk' = [r \in Slugs |-> None]
    \/ \E p \in Procs : proc'[p] = Idle /\
         \/ proc[p].at = "build" /\ proc[p].cmd.refresh
         \/ /\ proc[p].at = "build" /\ s \in DOMAIN proc[p].built /\ disk'[s] = proc[p].built[s]
            /\ disk[s].builtAt <= disk'[s].builtAt
         \/ /\ proc[p].at = "fold" /\ disk'[s].builtAt = disk[s].builtAt
            /\ disk'[s].keys = disk[s].keys /\ disk[s].folded \subseteq disk'[s].folded
=============================================================================
