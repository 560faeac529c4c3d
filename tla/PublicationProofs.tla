-------------------------- MODULE PublicationProofs --------------------------
(***************************************************************************)
(* Theorems about Publication, for any commands, any number of them and of *)
(* edits by others, any number of carrier phases and of retries.           *)
(***************************************************************************)
EXTENDS Publication, TLAPS

USE BoundsAssumption, CommandsAssumption, NoneAssumption

-----------------------------------------------------------------------------
(* The inductive invariant.                                                 *)

Early == {"read", "readMore", "judge", "save", "saveMore"}
Late  == {"save", "saveMore", "send", "resend", "wait"}

Applied == pc = "wait" /\ flying.reply = "ok"

\* What a command needs to be given, and the places its steps have.
Placed ==
  /\ step \in {"only", "requested", "carriers", "restate", "first", "second"}
  /\ step \in {"first", "second"} => TwoStep
  /\ step = "only" => cmd.verb # "repair" /\ ~TwoStep
  /\ step = "requested" => cmd.verb # "repair" /\ plan > 0
  /\ step \in {"requested", "carriers", "restate"} => Resets
  /\ step = "carriers" => phase \in 1 .. plan
  /\ step = "restate" => phase \in 0 .. Retries
  /\ step \in {"first", "only", "requested"} => phase = 0
  /\ step = "second" => phase \in {0, 1}
  /\ carriers <=> step = "restate" \/ (step = "carriers" /\ phase > 1)

Typed ==
  /\ TypeOK
  /\ pc # "idle" \/ told # None => cmd # None
  /\ cmd # None => /\ before \in [stored : Row, newest : Row]
                   /\ cmd.verb = "restore" => version \in Row
                   /\ cmd.verb = "undo" => rec \in Files
  /\ pc \in {"read", "readMore", "judge"} => ~carriers /\ phase = 0
  /\ pc \in Late => Placed
  /\ pc = "saveMore" => copy \in [doc : Row]
  /\ pc = "resend" => step = "restate"
  /\ pc = "wait" => flying \in [body : Body, reply : {None, "ok", "rejected"}]

\* Nothing the command sent was executed yet.
Unsent ==
  \/ pc \in Early
  \/ /\ pc \in {"send", "wait"} /\ ~Applied
     /\ \/ step \in {"only", "requested", "first"}
        \/ step = "carriers" /\ phase = 1 /\ cmd.verb = "repair"
        \/ step = "second" /\ phase = 0

Unwritten ==
  /\ Unsent => ~wrote
  /\ cmd # None /\ ~raced /\ ~wrote => stored = before.stored /\ newest = before.newest

\* A published newest version is the live row.
LiveIsNewest == newest.status = "published" => newest = stored

\* What the guard read is what was there, while nobody else changes it.
SeenTrue ==
  cmd # None /\ ~raced =>
    /\ pc = "readMore" => IF Resets THEN seen.newest = before.newest ELSE seen.stored = before.stored
    /\ pc \in {"read", "readMore"} /\ ~Resets => seen.newest = None
    /\ pc = "judge" =>
         /\ Resets => seen.stored = before.stored /\ seen.newest = before.newest
         /\ NeedsPubCheck \/ NeedsRestoreCheck \/ cmd.verb = "undo" => seen.stored = before.stored
         /\ NeedsPubCheck /\ before.stored.status = "published" => seen.newest = before.newest

\* What the command that goes on has made sure of.
Judged ==
  pc \in Late /\ ~raced =>
    /\ NeedsPubCheck /\ before.stored.status = "published" =>
         /\ BodyStatus # "draft"
         /\ before.newest.status = "draft" =>
              /\ BodyStatus = "published"
              /\ seen.newest = None \/ "publishes_pending_draft" \in warned
    /\ cmd.verb = "repair" /\ before.stored.status = "published" =>
         before.newest.status = "published" /\ before.newest.edits = before.stored.edits
    /\ NeedsRestoreCheck => before.stored.status # "published"
    /\ step = "second" /\ phase = 0 => before.stored = rec.published

\* What is under way.
Edits == cmd.verb \notin {"restate", "undo", "restore"}
Says(b, status, lists, draft, checked) ==
  b.status = status /\ ~b.whole /\ b.lists = lists /\ b.draft = draft /\ b.checked = checked
SentIs(b) ==
  /\ step = "carriers" => Says(b, "keep", "carriers", FALSE, FALSE) /\ b.edits = {} /\ ~b.asked
  /\ step = "restate"  => Says(b, "keep", "clean", FALSE, FALSE) /\ b.edits = {} /\ ~b.asked
  /\ step = "first"    => b = Whole(rec.published, "published", FALSE)
  /\ step = "second"   => b = Whole(rec.doc, "draft", TRUE)
  /\ step \in {"only", "requested"} =>
       /\ cmd.verb = "restate" => Says(b, "keep", "clean", FALSE, TRUE) /\ b.edits = {} /\ ~b.asked
       /\ cmd.verb = "undo"    => b = Undo
       /\ cmd.verb = "restore" => /\ b.status = IF Draft THEN "draft" ELSE version.status
                                  /\ b.draft = Draft /\ b.asked = (cmd.mode = "unpublish")
       /\ Edits => /\ Says(b, BodyStatus, "keep", Draft, TRUE)
                   /\ b.asked = (cmd.verb = "unpublish" \/ cmd.mode = "unpublish")
                   /\ ~raced => b.edits \subseteq {edit}

Sent == pc = "wait" => SentIs(flying.body)

\* The steps after the first find both rows published, or neither.
Aligned ==
  ~raced /\ pc \in Late /\ (step \in {"carriers", "restate"} \/ (step = "requested" /\ Applied)) =>
    (stored.status = "published" => newest.status = "published")

Base == Typed /\ Unwritten /\ LiveIsNewest /\ SeenTrue /\ Judged /\ Sent /\ Aligned

-----------------------------------------------------------------------------
\* Nothing that was only drafted is published untold.
Within(r) == r.status = "published" => r.edits \subseteq before.stored.edits \cup {edit}
Untold ==
  /\ cmd # None /\ ~raced
  /\ pc \in Late \/ (pc = "idle" /\ told = "ok")
  /\ cmd.verb \in {"update", "repair", "restate"}
  /\ before.stored.status = "published" /\ seen.newest # None
  /\ "publishes_pending_draft" \notin warned
DraftsInv == Untold => Within(stored) /\ Within(newest)

CarrierFree == ~stored.carriers /\ ~newest.carriers
CarriersInv ==
  cmd # None /\ Resets /\ ~before.stored.carriers /\ ~before.newest.carriers /\ pc # "idle" =>
    /\ CarrierFree \/ carriers \/ (step = "carriers" /\ Applied)
    /\ pc \in Early \/ (step = "restate" /\ Applied) => CarrierFree

\* A backup that nobody raced holds what was there.
Exactly(f) ==
  f.exact =>
    /\ f.doc = f.from.newest
    /\ f.published = IF f.from.newest.status = "draft" /\ f.from.stored.status = "published"
                       THEN f.from.stored ELSE None
    /\ f.from.newest.status = "published" => f.from.newest = f.from.stored
FilesInv ==
  /\ file # None => Exactly(file)
  /\ cmd # None /\ cmd.verb = "undo" => Exactly(rec)
  /\ pc = "saveMore" /\ ~raced => copy.doc = before.newest /\ before.newest.status = "draft"

UndoInv ==
  cmd # None /\ cmd.verb = "undo" /\ cmd.mode = "plain" /\ rec.exact /\ ~raced =>
    /\ pc \in Late /\ (step = "second" \/ (step = "first" /\ Applied)) => stored = rec.published
    /\ Applied /\ step \in {"only", "second"} => newest = rec.doc
    /\ Applied /\ step = "only" /\ rec.doc.status = "published" => stored = rec.doc

IInv ==
  /\ Base /\ DraftsInv /\ CarriersInv /\ FilesInv /\ UndoInv
  /\ CarriersTold /\ StopsClean /\ UndoRestores

-----------------------------------------------------------------------------
(* The bodies.                                                              *)

LEMMA Verbs ==
  ASSUME cmd \in Command
  PROVE  /\ cmd.verb \in {"update", "publish", "unpublish", "repair", "restate", "restore", "undo"}
         /\ Resets => cmd.verb \in {"update", "publish", "unpublish", "repair"}
         /\ TwoStep => cmd.verb = "undo" /\ cmd.mode = "plain" /\ rec.published # None
         /\ cmd.verb \in {"publish", "unpublish", "repair", "restate"} => cmd.mode = "plain"
         /\ cmd.verb = "restore" => cmd.mode \in {"plain", "draft", "unpublish"}
         /\ cmd.verb = "undo" => cmd.mode \in {"plain", "draft", "publish"}
         /\ cmd.mode \in Modes
BY DEF Command, Modes, Resets, TwoStep

LEMMA RowsAre ==
  ASSUME NEW r \in Row
  PROVE  /\ r.status \in Statuses /\ r.edits \in SUBSET Nat /\ r.carriers \in BOOLEAN
         /\ r = [status |-> r.status, edits |-> r.edits, carriers |-> r.carriers]
BY DEF Row

LEMMA WholeIs ==
  ASSUME NEW r \in Row, NEW st \in Statuses \cup {"keep"}, NEW d \in BOOLEAN, NEW base \in Row
  PROVE  /\ Whole(r, st, d) \in Body
         /\ Whole(r, st, d).status = st /\ Whole(r, st, d).draft = d /\ ~Whole(r, st, d).asked
         /\ Whole(r, st, d).checked
         /\ st # "keep" => Merge(base, Whole(r, st, d)) = [r EXCEPT !.status = st]
<1>1. /\ r.status \in Statuses /\ r.edits \in SUBSET Nat /\ r.carriers \in BOOLEAN
      /\ r = [status |-> r.status, edits |-> r.edits, carriers |-> r.carriers]
  BY DEF Row
<1> DEFINE b == Whole(r, st, d)
<1>2. /\ b.status = st /\ b.whole /\ b.edits = r.edits /\ b.draft = d /\ b.checked /\ ~b.asked
      /\ b.lists = IF r.carriers THEN "carriers" ELSE "clean"
  BY DEF Whole, Empty
<1>3. b \in Body
  BY <1>1 DEF Whole, Empty, Body
<1> HIDE DEF b
<1>4. ASSUME st # "keep" PROVE Merge(base, b) = [r EXCEPT !.status = st]
  <2>1. [r EXCEPT !.status = st] = [status |-> st, edits |-> r.edits, carriers |-> r.carriers]
    BY <1>1
  <2> QED BY <1>1, <1>2, <1>4, <2>1 DEF Merge
<1> QED BY <1>2, <1>3, <1>4 DEF b

LEMMA MergeRow == ASSUME NEW base \in Row, NEW b \in Body PROVE Merge(base, b) \in Row
<1>1. /\ base.status \in Statuses /\ base.edits \in SUBSET Nat /\ base.carriers \in BOOLEAN
      /\ b.status \in Statuses \cup {"keep"} /\ b.edits \in SUBSET Nat
  BY DEF Row, Body
<1> QED BY <1>1 DEF Merge, Row

\* The server's own choice: what a draft save leaves alone, what a write makes of both rows.
LEMMA ExecutedIs ==
  ASSUME TypeOK, NEW b \in Body, Executed(b)
  PROVE  /\ stored' \in Row /\ newest' \in Row
         /\ newest'.edits = Merge(newest, b).edits /\ newest'.carriers = Merge(newest, b).carriers
         /\ SavesDraft(b) => stored' = stored /\ newest' = [Merge(newest, b) EXCEPT !.status = "draft"]
         /\ SavesDraft(b) => newest'.status = "draft"
         /\ ~SavesDraft(b) => stored' = Merge(newest, b) /\ newest' = Merge(newest, b)
<1>1. Merge(newest, b) \in Row
  BY MergeRow DEF TypeOK
<1>2. [Merge(newest, b) EXCEPT !.status = "draft"] \in Row
  BY <1>1 DEF Row, Statuses
<1> QED BY <1>1, <1>2 DEF Executed, TypeOK, Row

\* The body of the next request, by the step it is for.
LEMMA RequestIs ==
  ASSUME Typed, pc \in {"send", "resend"}
  PROVE  /\ Request \in Body
         /\ step = "carriers" => Request = [Empty EXCEPT !.lists = "carriers", !.checked = FALSE]
         /\ step = "restate" => Request = [Empty EXCEPT !.lists = "clean", !.checked = FALSE]
         /\ step = "first" => Request = Whole(rec.published, "published", FALSE)
         /\ step = "second" => Request = Whole(rec.doc, "draft", TRUE)
<1>1. Placed /\ cmd \in Command /\ TypeOK
  BY DEF Typed, TypeOK, Late
<1>2. Empty \in Body
  BY DEF Empty, Body
<1>3. CASE step = "carriers"
  <2>1. Request = [Empty EXCEPT !.lists = "carriers", !.checked = FALSE]
    BY <1>1, <1>3, Verbs DEF Request, Placed
  <2>2. [Empty EXCEPT !.lists = "carriers", !.checked = FALSE] \in Body
    BY DEF Empty, Body
  <2> QED BY <1>3, <2>1, <2>2
<1>4. CASE step = "restate"
  <2>1. Request = [Empty EXCEPT !.lists = "clean", !.checked = FALSE]
    BY <1>1, <1>4, Verbs DEF Request, Placed
  <2>2. [Empty EXCEPT !.lists = "clean", !.checked = FALSE] \in Body
    BY DEF Empty, Body
  <2> QED BY <1>4, <2>1, <2>2
<1>5. CASE step \in {"first", "second"}
  <2>1. cmd.verb = "undo" /\ cmd.mode = "plain" /\ rec.published # None /\ rec \in Files /\ TwoStep
    BY <1>1, <1>5 DEF Placed, TwoStep, Typed
  <2>2. rec.published \in Row /\ rec.doc \in Row
    BY <2>1 DEF Files
  <2>3. CASE step = "first"
    <3>1. Request = Whole(rec.published, "published", FALSE)
      BY <2>1, <2>3 DEF Request
    <3> QED BY <2>2, <2>3, <3>1, WholeIs DEF Statuses
  <2>4. CASE step = "second"
    BY <2>1, <2>2, <2>4, WholeIs DEF Request, Undo, Statuses
  <2> QED BY <1>5, <2>3, <2>4
<1>6. CASE step \in {"only", "requested"}
  <2>1. CASE cmd.verb = "restate"
    BY <1>2, <1>6, <2>1 DEF Request, Body
  <2>2. CASE cmd.verb = "undo"
    <3>1. rec \in Files
      BY <2>2, <1>1 DEF Typed
    <3>2. rec.doc \in Row /\ rec.doc.status \in Statuses
      BY <3>1 DEF Files, Row
    <3>3. Undo \in Body
      BY <3>2, WholeIs DEF Undo, Statuses
    <3> QED BY <1>6, <2>2, <3>3 DEF Request
  <2>3. CASE cmd.verb = "restore"
    <3>1. version \in Row /\ version.status \in Statuses
      BY <2>3 DEF Typed, Row
    <3>2. Whole(version, IF Draft THEN "draft" ELSE version.status, Draft) \in Body
      BY <3>1, WholeIs DEF Draft, Statuses
    <3> QED BY <1>6, <2>3, <3>2 DEF Request, Body
  <2>4. CASE cmd.verb \notin {"restate", "undo", "restore"}
    <3>1. BodyStatus \in Statuses \cup {"keep"}
      BY DEF BodyStatus, Statuses
    <3>2. (IF cmd.verb = "update" THEN {edit + 1} ELSE {}) \in SUBSET Nat
      BY <1>1 DEF TypeOK
    <3> QED BY <1>2, <1>6, <2>4, <3>1, <3>2 DEF Request, Body, Draft
  <2> QED BY <2>1, <2>2, <2>3, <2>4
<1> QED BY <1>1, <1>3, <1>4, <1>5, <1>6 DEF Placed

-----------------------------------------------------------------------------
(* Types.                                                                   *)

LEMMA TypedInit == Init => Typed
<1> SUFFICES ASSUME Init PROVE Typed
  OBVIOUS
<1>1. /\ stored \in Row /\ newest \in Row
  BY DEF Init, Row, Statuses
<1>2. /\ versions = {stored, newest} /\ edit = 2 /\ edits = 0 /\ flying = None /\ cmd = None /\ ran = 0
      /\ pc = "idle" /\ seen = [stored |-> None, newest |-> None] /\ version = None /\ rec = None /\ plan = 0
      /\ step = None /\ phase = 0 /\ carriers = FALSE /\ copy = None /\ file = None /\ kept = None
      /\ told = None /\ warned = {} /\ before = None /\ raced = FALSE /\ wrote = FALSE
  BY DEF Init
<1>3. seen \in [stored : Row \cup {None}, newest : Row \cup {None}]
  BY <1>2
<1>5. /\ edits \in 0 .. MaxEdits /\ ran \in 0 .. MaxCommands /\ plan \in 0 .. MaxPhases
      /\ edit \in Nat /\ phase \in Nat /\ phase <= MaxPhases + Retries
  BY <1>2
<1>6. /\ versions \subseteq Row /\ pc = "idle" /\ warned \subseteq {"publishes_pending_draft", "incomplete"}
      /\ carriers \in BOOLEAN
  BY <1>1, <1>2
<1>7. /\ raced \in BOOLEAN /\ wrote \in BOOLEAN
      /\ cmd \in Commands \cup {None} /\ version \in Row \cup {None} /\ rec \in Files \cup {None}
  BY <1>1, <1>2
<1>8. /\ copy \in [doc : Row] \cup {None} /\ file \in Files \cup {None}
      /\ before \in [stored : Row, newest : Row] \cup {None}
  BY <1>1, <1>2
<1>9. flying \in [body : Body, reply : {None, "ok", "rejected"}] \cup {None}
  BY <1>1, <1>2
<1>4. TypeOK
  BY <1>1, <1>2, <1>3, <1>5, <1>6, <1>7, <1>8, <1>9 DEF TypeOK
<1> QED BY <1>2, <1>4 DEF Typed, Late

\* What a step that only reads or ends leaves as it was.
Untouched == UNCHANGED <<row, edits, flying, cmd, ran, version, rec, remedy, before>>

LEMMA TypedStays ==
  ASSUME Typed, UNCHANGED <<cmd, ran, version, rec, before>>,
         TypeOK', pc' # "idle" \/ told' # None => cmd # None
  PROVE  /\ pc' \in {"idle", "read", "readMore", "judge"} /\ carriers' = FALSE /\ phase' = 0 => Typed'
         /\ pc' = "idle" => Typed'
<1>1. CASE pc' = "idle"
  BY <1>1 DEF Typed, Late
<1>2. CASE pc' \in {"read", "readMore", "judge"} /\ carriers' = FALSE /\ phase' = 0
  BY <1>2 DEF Typed, Late
<1> QED BY <1>1, <1>2

LEMMA TypedNext == Typed /\ [Next]_vars => Typed'
<1> SUFFICES ASSUME Typed, [Next]_vars PROVE Typed'
  OBVIOUS
<1>0. TypeOK
  BY DEF Typed
<1>1. CASE UNCHANGED vars
  <2>1. TypeOK'
    BY <1>0, <1>1 DEF TypeOK, vars, row, guard, remedy, backup, report, history
  <2> QED
    BY <1>1, <2>1 DEF Typed, Placed, TwoStep, Resets, Draft, vars, row, guard, remedy, backup, report, history
<1>2. CASE Others
  <2>1. /\ UNCHANGED <<flying, cmd, ran, pc, guard, remedy, backup, report, before, wrote>>
        /\ edits' \in 0 .. MaxEdits /\ edit' \in Nat /\ raced' = TRUE /\ versions' = versions \cup {newest'}
    BY <1>0, <1>2 DEF Others, TypeOK
  <2>2. stored' \in Row /\ newest' \in Row
    <3>1. PICK b \in [status : {"keep", "draft", "published"}, whole : {FALSE}, edits : {{edit + 1}}, lists : {"keep"},
                      draft : BOOLEAN, checked : {TRUE}, asked : {TRUE}] : Executed(b)
      BY <1>2, Zenon DEF Others
    <3>2. {edit + 1} \in SUBSET Nat
      BY <1>0 DEF TypeOK
    <3>3. b \in Body
      BY <3>2 DEF Body, Statuses
    <3> QED BY <1>0, <3>1, <3>3, ExecutedIs
  <2>3. TypeOK'
    BY <1>0, <2>1, <2>2 DEF TypeOK, guard, remedy, backup, report
  <2> QED BY <2>1, <2>3 DEF Typed, Placed, TwoStep, Resets, Draft, guard, remedy, backup, report
<1>3. ASSUME NEW c \in Commands, Starts(c) PROVE Typed'
  <2>1. /\ cmd' = c /\ ran' \in 0 .. MaxCommands /\ UNCHANGED <<row, edits, flying, file, kept>>
        /\ carriers' = FALSE /\ phase' = 0 /\ step' = None /\ plan' = 0 /\ warned' = {} /\ copy' = None
        /\ seen' = [stored |-> None, newest |-> None]
        /\ before' = [stored |-> stored, newest |-> newest] /\ raced' = FALSE /\ wrote' = FALSE
        /\ rec' = IF c.verb = "undo" THEN file ELSE None
        /\ c.verb = "undo" => file # None
        /\ version' \in (IF c.verb = "restore" THEN versions ELSE {None})
    BY <1>0, <1>3 DEF Starts, TypeOK
  <2>2. /\ pc' \in {"idle", "read", "judge"}
        /\ told' \in {None, "refused"}
    BY <1>3, Zenon DEF Starts
  <2>3. /\ c # None /\ version' \in Row \cup {None} /\ (c.verb = "restore" => version' \in Row)
        /\ rec' \in Files \cup {None} /\ (c.verb = "undo" => rec' \in Files)
    BY <1>0, <2>1 DEF TypeOK
  <2>4. before' \in [stored : Row, newest : Row]
    BY <1>0, <2>1 DEF TypeOK
  <2>5. seen' \in [stored : Row \cup {None}, newest : Row \cup {None}]
    BY <2>1
  <2>7. /\ stored' \in Row /\ newest' \in Row /\ versions' \subseteq Row /\ edit' \in Nat
        /\ edits' \in 0 .. MaxEdits /\ plan' \in 0 .. MaxPhases /\ phase' \in Nat
        /\ phase' <= MaxPhases + Retries
    BY <1>0, <2>1 DEF TypeOK, row
  <2>8. /\ flying' \in [body : Body, reply : {None, "ok", "rejected"}] \cup {None}
        /\ cmd' \in Commands \cup {None} /\ file' \in Files \cup {None} /\ kept' \in {None, "saved", "unsaved"}
    BY <1>0, <2>1 DEF TypeOK
  <2>9. /\ carriers' \in BOOLEAN /\ raced' \in BOOLEAN /\ wrote' \in BOOLEAN /\ copy' \in [doc : Row] \cup {None}
        /\ warned' \subseteq {"publishes_pending_draft", "incomplete"}
        /\ before' \in [stored : Row, newest : Row] \cup {None}
    BY <2>1, <2>4
  <2>6. TypeOK'
    BY <2>1, <2>2, <2>3, <2>5, <2>7, <2>8, <2>9 DEF TypeOK
  <2> QED BY <2>1, <2>2, <2>3, <2>4, <2>6 DEF Typed, Late
<1>4. CASE Reads \/ ReadsMore
  <2>1. /\ UNCHANGED <<row, edits, flying, cmd, ran, version, rec, plan, remedy, backup, report, history>>
        /\ pc' \in {"readMore", "judge"} /\ pc \in {"read", "readMore"}
        /\ \/ seen' = [seen EXCEPT !.newest = newest]
           \/ seen' = [seen EXCEPT !.stored = stored]
    BY <1>4 DEF Reads, ReadsMore
  <2>2. seen' \in [stored : Row \cup {None}, newest : Row \cup {None}]
    BY <1>0, <2>1 DEF TypeOK
  <2>3. TypeOK'
    BY <1>0, <2>1, <2>2 DEF TypeOK, row, guard, remedy, backup, report, history
  <2>4. cmd # None /\ carriers' = FALSE /\ phase' = 0 /\ UNCHANGED <<cmd, ran, version, rec, before>>
    BY <1>0, <2>1 DEF Typed, TypeOK, remedy, history
  <2> QED BY <2>1, <2>3, <2>4, TypedStays
<1>5. CASE Aborts
  <2>1. TypeOK'
    BY <1>0, <1>5 DEF Aborts, Ends, TypeOK, row, guard, remedy, backup, report, history
  <2> QED BY <1>5, <2>1, TypedStays DEF Aborts, Ends, Typed, guard, history
<1>6. CASE GuardReadFails
  <2>1. TypeOK'
    BY <1>0, <1>6 DEF GuardReadFails, TypeOK, row, guard, remedy, backup, report, history
  <2>2. cmd \in Command /\ cmd # None /\ NeedsPubCheck /\ pc \in {"read", "readMore"} /\ ~carriers
    BY <1>6 DEF GuardReadFails, Typed, TypeOK
  <2>3. cmd.verb # "repair" /\ ~TwoStep
    BY <2>2, Verbs DEF NeedsPubCheck
  <2>4. /\ pc' = "save" /\ step' = "only" /\ phase' = 0 /\ carriers' = FALSE
        /\ UNCHANGED <<cmd, rec, version, before>>
    BY <1>0, <1>6 DEF GuardReadFails, Typed, TypeOK, guard, history
  <2>5. Placed'
    BY <2>2, <2>3, <2>4 DEF Placed, TwoStep
  <2> QED BY <2>1, <2>2, <2>4, <2>5 DEF Typed, Late
<1>7. CASE Judges
  <2>1. /\ pc = "judge" /\ ~carriers /\ phase = 0 /\ cmd # None /\ cmd \in Command
        /\ UNCHANGED <<row, edits, flying, cmd, ran, seen, version, rec, carriers, backup, kept, history>>
    BY <1>0, <1>7 DEF Judges, Typed, TypeOK
  <2>2. CASE Refuses \/ RefusesRepair \/ RefusesRestore
    <3>1. pc' = "idle" /\ told' = "refused" /\ UNCHANGED <<plan, step, phase, warned>>
      BY <1>7, <2>2 DEF Judges, Ends
    <3>2. TypeOK'
      BY <1>0, <2>1, <3>1 DEF TypeOK, row, backup, history
    <3> QED BY <2>1, <3>1, <3>2, TypedStays DEF history
  <2>3. CASE ~(Refuses \/ RefusesRepair \/ RefusesRestore)
    <3>1. PICK n \in (IF Resets THEN 0 .. MaxPhases ELSE {0}) :
            /\ plan' = n
            /\ IF cmd.verb = "repair" /\ n = 0 THEN Ends("ok") /\ UNCHANGED <<step, phase, warned>>
               ELSE /\ pc' = "save" /\ UNCHANGED told
                    /\ step' = CASE TwoStep                -> IF SkipsPublished THEN "second" ELSE "first"
                                 [] cmd.verb = "repair"    -> "carriers"
                                 [] n > 0 /\ cmd.verb # "repair" -> "requested"
                                 [] OTHER                  -> "only"
                    /\ phase' = IF step' = "carriers" THEN 1 ELSE 0
                    /\ warned' = Warnings
      BY <1>7, <2>3, Zenon DEF Judges
    <3>2. plan' \in 0 .. MaxPhases /\ (n > 0 => Resets) /\ (cmd.verb = "repair" => Resets) /\ n \in Nat
      BY <3>1 DEF Resets
    <3>3. CASE cmd.verb = "repair" /\ n = 0
      <4>1. pc' = "idle" /\ told' = "ok" /\ UNCHANGED <<step, phase, warned>>
        BY <3>1, <3>3 DEF Ends
      <4>2. TypeOK'
        BY <1>0, <2>1, <3>2, <4>1 DEF TypeOK, row, backup, history
      <4> QED BY <2>1, <4>1, <4>2, TypedStays DEF history
    <3>4. CASE ~(cmd.verb = "repair" /\ n = 0)
      <4>1. /\ pc' = "save" /\ told' = told /\ warned' = Warnings
            /\ phase' = IF step' = "carriers" THEN 1 ELSE 0
        BY <3>1, <3>4
      <4>2. /\ TwoStep => step' \in {"first", "second"}
            /\ ~TwoStep /\ cmd.verb = "repair" => step' = "carriers"
            /\ ~TwoStep /\ cmd.verb # "repair" /\ n > 0 => step' = "requested"
            /\ ~TwoStep /\ cmd.verb # "repair" /\ ~(n > 0) => step' = "only"
        BY <2>1, <3>1, <3>4, Verbs
      <4>3. warned' \subseteq {"publishes_pending_draft", "incomplete"}
        BY <4>1 DEF Warnings
      <4>4. /\ step' \in {"first", "second", "carriers", "requested", "only"}
            /\ phase' \in {0, 1} /\ phase' <= MaxPhases + Retries
        BY <4>1, <4>2
      <4>5. TypeOK'
        BY <1>0, <2>1, <3>2, <4>1, <4>3, <4>4 DEF TypeOK, row, backup, history
      <4>6. Placed'
        <5>1. UNCHANGED <<cmd, rec>> /\ carriers' = FALSE /\ plan' = n
          BY <2>1, <3>1
        <5>2. ~(cmd.verb = "repair") \/ n > 0
          BY <3>2, <3>4
        <5>3. TwoStep' = TwoStep /\ Resets' = Resets
          BY <5>1 DEF TwoStep, Resets, Draft
        <5>4. TwoStep => cmd.verb = "undo"
          BY <2>1, Verbs
        <5> QED BY <3>2, <4>1, <4>2, <5>1, <5>2, <5>3, <5>4 DEF Placed
      <4> QED BY <2>1, <4>1, <4>5, <4>6 DEF Typed, history
    <3> QED BY <3>3, <3>4
  <2> QED BY <2>2, <2>3
<1>8. CASE Saves \/ SavesMore
  <2>1. /\ pc \in {"save", "saveMore"} /\ pc' \in {"saveMore", "send"} /\ Placed /\ cmd # None
        /\ UNCHANGED <<row, edits, flying, cmd, ran, guard, remedy, report, history>>
        /\ before \in [stored : Row, newest : Row]
    BY <1>8 DEF Saves, SavesMore, Typed, Late
  <2>2. copy' \in [doc : Row]
    BY <1>0, <1>8 DEF Saves, SavesMore, Typed, TypeOK
  <2>3. file' = file \/ file' \in Files
    <3>1. ASSUME NEW pub \in Row \cup {None}, file' = File(pub) PROVE file' \in Files
      BY <1>0, <2>1, <2>2, <3>1 DEF File, Files, TypeOK
    <3>2. file' = file \/ (\E pub \in Row \cup {None} : file' = File(pub))
      BY <1>0, <1>8 DEF Saves, SavesMore, TypeOK
    <3> QED BY <3>1, <3>2
  <2>4. TypeOK'
    BY <1>0, <2>1, <2>2, <2>3 DEF TypeOK, row, guard, remedy, report, history
  <2>5. Placed'
    BY <2>1 DEF Placed, TwoStep, Resets, Draft, guard, remedy
  <2> QED BY <2>1, <2>2, <2>4, <2>5 DEF Typed, guard, remedy, history
<1>9. CASE Sends
  <2>1. /\ pc \in {"send", "resend"} /\ pc' = "wait" /\ Placed /\ cmd # None
        /\ UNCHANGED <<stored, newest, versions, edits, cmd, ran, guard, remedy, backup, report, history>>
        /\ flying' = [body |-> Request, reply |-> None]
        /\ edit' \in Nat
    BY <1>0, <1>9 DEF Sends, Typed, Late, TypeOK
  <2>2. flying' \in [body : Body, reply : {None, "ok", "rejected"}]
    BY <2>1, RequestIs
  <2>3. TypeOK'
    BY <1>0, <2>1, <2>2 DEF TypeOK, guard, remedy, backup, report, history
  <2>4. Placed'
    BY <2>1 DEF Placed, TwoStep, Resets, Draft, guard, remedy
  <2> QED BY <2>1, <2>2, <2>3, <2>4 DEF Typed, guard, remedy, history
<1>10. CASE Succeeds
  <2>1. /\ pc = "wait" /\ flying' = None /\ Placed /\ cmd # None
        /\ UNCHANGED <<row, edits, cmd, ran, guard, backup, kept, warned, history>>
    BY <1>10 DEF Succeeds, Typed, Late
  <2>2. CASE step \in {"first", "requested", "carriers"}
    <3>1. /\ pc' = "send" /\ told' = told
          /\ step = "first" => step' = "second" /\ phase' = 1 /\ carriers' = carriers
          /\ step = "requested" => step' = "carriers" /\ phase' = 1 /\ carriers' = carriers
          /\ step = "carriers" =>
               /\ carriers' = TRUE
               /\ IF phase < plan THEN step' = "carriers" /\ phase' = phase + 1
                  ELSE step' = "restate" /\ phase' = 0
      BY <1>10, <2>2 DEF Succeeds, Proceeds
    <3>2. UNCHANGED <<cmd, rec, plan>> /\ plan \in Nat /\ plan <= MaxPhases
      BY <1>0, <2>1 DEF guard, TypeOK
    <3>3. TwoStep' = TwoStep /\ Resets' = Resets
      BY <3>2 DEF TwoStep, Resets, Draft
    <3>4. Placed'
      <4>1. CASE step = "first"
        BY <2>1, <3>1, <3>2, <3>3, <4>1 DEF Placed
      <4>2. CASE step = "requested"
        BY <2>1, <3>1, <3>2, <3>3, <4>2 DEF Placed
      <4>3. CASE step = "carriers"
        BY <2>1, <3>1, <3>2, <3>3, <4>3 DEF Placed
      <4> QED BY <2>2, <4>1, <4>2, <4>3
    <3>5. phase' \in Nat /\ phase' <= MaxPhases + Retries /\ carriers' \in BOOLEAN
      <4>1. carriers' \in BOOLEAN /\ phase \in Nat
        BY <1>0, <2>2, <3>1 DEF TypeOK
      <4>2. phase' \in {0, 1} \/ (phase < plan /\ phase' = phase + 1)
        BY <2>2, <3>1
      <4> QED BY <3>2, <4>1, <4>2
    <3>6. TypeOK'
      BY <1>0, <2>1, <2>2, <3>1, <3>5 DEF TypeOK, row, guard, backup, history
    <3> QED BY <2>1, <3>1, <3>4, <3>6 DEF Typed, guard, history
  <2>3. CASE step \notin {"first", "requested", "carriers"}
    <3>1. pc' = "idle" /\ told' = "ok" /\ UNCHANGED <<step, phase, carriers>>
      BY <1>10, <2>3 DEF Succeeds, Ends
    <3>2. TypeOK'
      BY <1>0, <2>1, <3>1 DEF TypeOK, row, guard, backup, history
    <3> QED BY <2>1, <3>1, <3>2, TypedStays DEF guard, history
  <2> QED BY <2>2, <2>3
<1>11. ASSUME LeavesCarriers PROVE /\ pc' = "idle" /\ told' = "carriers" /\ kept' \in {"saved", "unsaved"}
  BY <1>11 DEF LeavesCarriers, Ends
<1>12. ASSUME NEW final \in BOOLEAN, pc = "wait", Fails(final) PROVE Typed'
  <2>1. /\ flying' = None /\ Placed /\ cmd # None
        /\ UNCHANGED <<row, edits, cmd, ran, guard, backup, before, raced, wrote>>
    BY <1>12 DEF Fails, Typed, Late
  <2>2. UNCHANGED <<cmd, rec, plan, version, before>> /\ plan \in Nat /\ plan <= MaxPhases
    BY <1>0, <2>1 DEF guard, TypeOK
  <2>3. TwoStep' = TwoStep /\ Resets' = Resets
    BY <2>2 DEF TwoStep, Resets, Draft
  <2>4. CASE Restates(final)
    <3>1. /\ pc' = "send" /\ step' = "restate" /\ phase' = 0 /\ told' = told /\ carriers' = TRUE
          /\ warned' = warned \cup {"incomplete"} /\ kept' = kept /\ step = "carriers"
      BY <1>12, <2>4 DEF Fails, Proceeds, Restates
    <3>2. Placed'
      BY <2>1, <2>3, <3>1 DEF Placed
    <3>3. phase' \in Nat /\ phase' <= MaxPhases + Retries /\ carriers' \in BOOLEAN
          /\ warned' \subseteq {"publishes_pending_draft", "incomplete"}
      BY <1>0, <3>1 DEF TypeOK
    <3>4. TypeOK'
      BY <1>0, <2>1, <3>1, <3>3 DEF TypeOK, row, guard, backup
    <3> QED BY <2>1, <3>1, <3>2, <3>4 DEF Typed, guard
  <2>5. CASE step = "restate" /\ ~Exhausted(final)
    <3>1. /\ pc' = "resend" /\ phase' = phase + 1 /\ UNCHANGED <<step, carriers, kept, told, warned>>
          /\ phase # Retries
      BY <1>12, <2>5 DEF Fails, Attempt, Restates, Exhausted
    <3>2. Placed' /\ phase' \in Nat /\ phase' <= MaxPhases + Retries
      BY <1>0, <2>1, <2>2, <2>3, <2>5, <3>1 DEF Placed, TypeOK
    <3>3. TypeOK'
      BY <1>0, <2>1, <3>1, <3>2 DEF TypeOK, row, guard, backup
    <3> QED BY <2>1, <2>5, <3>1, <3>2, <3>3 DEF Typed, guard
  <2>6. CASE ~Restates(final) /\ (step = "restate" => Exhausted(final))
    <3>1. /\ pc' = "idle" /\ told' \in {"carriers", "live", "failed"} /\ kept' \in {kept, "saved", "unsaved"}
          /\ UNCHANGED <<step, phase, carriers, warned>>
      BY <1>12, <2>6 DEF Fails, LeavesCarriers, Ends
    <3>2. TypeOK'
      BY <1>0, <2>1, <3>1 DEF TypeOK, row, guard, backup
    <3> QED BY <2>1, <2>2, <3>1, <3>2, TypedStays
  <2> QED BY <2>4, <2>5, <2>6
<1>13. CASE PreFails
  <2>1. /\ pc' = "idle" /\ told' \in {"carriers", "stored", "aborted"} /\ kept' \in {kept, "saved", "unsaved"}
        /\ UNCHANGED <<row, edits, flying, cmd, ran, guard, remedy, backup, warned, history>>
        /\ cmd # None
    BY <1>11, <1>13 DEF PreFails, Ends, Typed
  <2>2. TypeOK'
    BY <1>0, <2>1 DEF TypeOK, row, guard, remedy, backup, history
  <2> QED BY <2>1, <2>2, TypedStays DEF guard, history
<1>14. CASE GivesUp \/ Crashes
  <2>1. /\ pc' = "idle" /\ told' \in {"carriers", "killed"} /\ kept' \in {kept, "saved", "unsaved"}
        /\ UNCHANGED <<row, edits, cmd, ran, guard, remedy, backup, warned, history>>
        /\ flying' \in {flying, None} /\ cmd # None
    BY <1>11, <1>14 DEF GivesUp, Crashes, Ends, Typed, history
  <2>2. TypeOK'
    BY <1>0, <2>1 DEF TypeOK, row, guard, remedy, backup, history
  <2> QED BY <2>1, <2>2, TypedStays DEF guard, history
<1>15. CASE Executes
  <2>1. /\ pc = "wait" /\ flying \in [body : Body, reply : {None, "ok", "rejected"}] /\ Placed
        /\ UNCHANGED <<edit, edits, cmd, ran, pc, guard, remedy, backup, report, before, raced>>
    BY <1>15 DEF Executes, Typed, Late
  <2>2. /\ flying' \in [body : Body, reply : {None, "ok", "rejected"}]
        /\ wrote' \in BOOLEAN
    BY <1>0, <1>15, <2>1 DEF Executes, TypeOK
  <2>3. stored' \in Row /\ newest' \in Row
    <3>1. Executed(flying.body) \/ UNCHANGED <<stored, newest>>
      BY <1>15 DEF Executes
    <3>2. flying.body \in Body
      BY <2>1
    <3> QED BY <1>0, <3>1, <3>2, ExecutedIs DEF TypeOK
  <2>4. versions' \subseteq Row
    BY <1>0, <1>15, <2>3 DEF Executes, TypeOK
  <2>5. TypeOK'
    BY <1>0, <2>1, <2>2, <2>3, <2>4 DEF TypeOK, guard, remedy, backup, report
  <2>6. Placed'
    BY <2>1 DEF Placed, TwoStep, Resets, Draft, guard, remedy
  <2> QED BY <2>1, <2>2, <2>5, <2>6 DEF Typed, guard, remedy, backup, report
<1> QED
  BY <1>1, <1>2, <1>3, <1>4, <1>5, <1>6, <1>7, <1>8, <1>9, <1>10, <1>12, <1>13, <1>14, <1>15
  DEF Next, Step, Done, Rejected, Lost

\* The types of the variables, with what a command at work has been given.
THEOREM TypeCorrect == Spec => []TypeOK
<1>1. Typed => TypeOK
  BY DEF Typed
<1> QED BY TypedInit, TypedNext, <1>1, PTL DEF Spec

-----------------------------------------------------------------------------
(* What a step leaves alone.                                                *)

LEMMA SameCommand ==
  ASSUME UNCHANGED <<cmd, version, rec>>
  PROVE  /\ Resets' = Resets /\ NeedsPubCheck' = NeedsPubCheck /\ NeedsRestoreCheck' = NeedsRestoreCheck
         /\ TwoStep' = TwoStep /\ BodyStatus' = BodyStatus /\ Draft' = Draft /\ Edits' = Edits
BY DEF Resets, NeedsPubCheck, NeedsRestoreCheck, TwoStep, BodyStatus, Draft, Edits

LEMMA OthersFrame ==
  ASSUME Others
  PROVE  /\ raced' = TRUE
         /\ UNCHANGED <<flying, cmd, ran, pc, seen, version, rec, plan, step, phase, carriers, copy, file,
                        kept, told, warned, before, wrote>>
BY DEF Others, guard, remedy, backup, report

LEMMA StartsFrame ==
  ASSUME NEW c \in Commands, Starts(c)
  PROVE  /\ cmd' = c /\ before' = [stored |-> stored, newest |-> newest] /\ raced' = FALSE /\ wrote' = FALSE
         /\ UNCHANGED <<stored, newest, edit, flying, file, kept>>
         /\ seen' = [stored |-> None, newest |-> None] /\ warned' = {} /\ step' = None /\ phase' = 0
         /\ carriers' = FALSE /\ copy' = None
         /\ rec' = IF c.verb = "undo" THEN file ELSE None
         /\ c.verb = "undo" => file # None
         /\ \/ pc' = "idle" /\ told' = "refused" /\ c.verb = "restore"
            \/ /\ told' = None
               /\ pc' = IF Resets' \/ NeedsPubCheck' \/ NeedsRestoreCheck' \/ c.verb = "undo" THEN "read" ELSE "judge"
BY Zenon DEF Starts, row

\* Every other step goes on with the command there is, and nobody else changes anything.
Going == UNCHANGED <<cmd, version, rec, before, raced>>

LEMMA OwnFrame ==
  ASSUME [Next]_vars
  PROVE  Others \/ (\E c \in Commands : Starts(c)) \/ Going
<1>1. CASE Reads \/ ReadsMore \/ GuardReadFails \/ Judges
  BY <1>1 DEF Going, Reads, ReadsMore, GuardReadFails, Judges, history, guard
<1>2. CASE Saves \/ SavesMore \/ Sends
  BY <1>2 DEF Going, Saves, SavesMore, Sends, history, guard
<1>3. CASE Succeeds \/ Aborts \/ PreFails \/ GivesUp \/ Crashes \/ Executes
  BY <1>3 DEF Going, Succeeds, Aborts, PreFails, GivesUp, Crashes, Executes, history, guard
<1>4. ASSUME NEW final \in BOOLEAN, Fails(final) PROVE Going
  BY <1>4 DEF Going, Fails, guard
<1>5. CASE UNCHANGED vars
  BY <1>5 DEF Going, vars, guard, history
<1> QED BY <1>1, <1>2, <1>3, <1>4, <1>5 DEF Next, Step, Done, Rejected, Lost

LEMMA RowsFrame ==
  ASSUME [Next]_vars
  PROVE  Others \/ Executes \/ UNCHANGED <<stored, newest>>
<1>1. CASE Reads \/ ReadsMore \/ GuardReadFails \/ Judges
  BY <1>1 DEF Reads, ReadsMore, GuardReadFails, Judges, row
<1>2. CASE Saves \/ SavesMore \/ Sends
  BY <1>2 DEF Saves, SavesMore, Sends, row
<1>3. CASE Succeeds \/ Aborts \/ PreFails \/ GivesUp \/ Crashes
  BY <1>3 DEF Succeeds, Aborts, PreFails, GivesUp, Crashes, row
<1>4. ASSUME NEW final \in BOOLEAN, Fails(final) PROVE UNCHANGED <<stored, newest>>
  BY <1>4 DEF Fails, row
<1>5. CASE UNCHANGED vars
  BY <1>5 DEF vars, row
<1>6. ASSUME NEW c \in Commands, Starts(c) PROVE UNCHANGED <<stored, newest>>
  BY <1>6, StartsFrame
<1> QED BY <1>1, <1>2, <1>3, <1>4, <1>5, <1>6 DEF Next, Step, Done, Rejected, Lost

\* The server executes what is under way, or answers that it does not.
LEMMA ExecutesFrame ==
  ASSUME Typed, Executes
  PROVE  /\ pc = "wait" /\ pc' = "wait" /\ ~Applied /\ flying.body \in Body /\ flying'.body = flying.body
         /\ UNCHANGED <<edit, cmd, seen, version, rec, plan, step, phase, carriers, copy, file, kept, told, warned,
                        before, raced>>
         /\ \/ /\ Accepts(flying.body) /\ Executed(flying.body)
               /\ flying'.reply = "ok" /\ wrote' = TRUE /\ Applied'
            \/ flying'.reply = "rejected" /\ UNCHANGED <<stored, newest, wrote>> /\ ~Applied'
<1>1. /\ pc = "wait" /\ flying \in [body : Body, reply : {None, "ok", "rejected"}] /\ flying.reply = None
      /\ UNCHANGED <<edit, edits, cmd, ran, pc, guard, remedy, backup, report, before, raced>>
      /\ \/ /\ Accepts(flying.body) /\ Executed(flying.body)
            /\ flying' = [flying EXCEPT !.reply = "ok"] /\ wrote' = TRUE
         \/ flying' = [flying EXCEPT !.reply = "rejected"] /\ UNCHANGED <<stored, newest, versions, wrote>>
  BY DEF Executes, Typed
<1>2. \A r : [flying EXCEPT !.reply = r].body = flying.body /\ [flying EXCEPT !.reply = r].reply = r
  BY <1>1
<1> QED BY <1>1, <1>2 DEF Applied, guard, remedy, backup, report

\* A command that has not written, and that nobody raced, has the rows it started with.
LEMMA RowsAsBefore ==
  ASSUME Unwritten, cmd # None, ~raced, Unsent
  PROVE  stored = before.stored /\ newest = before.newest
BY DEF Unwritten

-----------------------------------------------------------------------------
(* The parts of the invariant.                                              *)

LEMMA LiveNext == ASSUME Typed, LiveIsNewest, [Next]_vars PROVE LiveIsNewest'
<1>1. ASSUME NEW b \in Body, Executed(b) PROVE LiveIsNewest'
  BY <1>1, ExecutedIs DEF LiveIsNewest, Typed
<1>2. CASE Others
  <2>1. PICK b \in [status : {"keep", "draft", "published"}, whole : {FALSE}, edits : {{edit + 1}}, lists : {"keep"},
                    draft : BOOLEAN, checked : {TRUE}, asked : {TRUE}] : Executed(b)
    BY <1>2, Zenon DEF Others
  <2>2. {edit + 1} \in SUBSET Nat
    BY DEF Typed, TypeOK
  <2>3. b \in Body
    BY <2>2 DEF Body, Statuses
  <2> QED BY <1>1, <2>1, <2>3
<1>3. CASE Executes
  BY <1>1, <1>3, ExecutesFrame DEF LiveIsNewest
<1>4. CASE UNCHANGED <<stored, newest>>
  BY <1>4 DEF LiveIsNewest
<1> QED BY <1>2, <1>3, <1>4, RowsFrame

LEMMA UnwrittenNext == ASSUME Typed, Unwritten, [Next]_vars PROVE Unwritten'
<1>1. CASE Others
  BY <1>1, OthersFrame DEF Unwritten, Unsent, Applied
<1>2. ASSUME NEW c \in Commands, Starts(c) PROVE Unwritten'
  <2>1. wrote' = FALSE /\ UNCHANGED <<stored, newest>> /\ before' = [stored |-> stored, newest |-> newest]
    BY <1>2, StartsFrame
  <2>2. stored' = before'.stored /\ newest' = before'.newest
    BY <2>1
  <2> QED BY <2>1, <2>2 DEF Unwritten
<1>3. CASE Executes
  <2>1. CASE Applied'
    BY <1>3, <2>1, ExecutesFrame DEF Unwritten, Unsent, Early
  <2>2. CASE ~Applied'
    <3>1. /\ UNCHANGED <<stored, newest, wrote, cmd, before, raced, pc, step, phase>> /\ ~Applied
      BY <1>3, <2>2, ExecutesFrame
    <3>2. Unsent' => Unsent
      BY <2>2, <3>1 DEF Unsent
    <3> QED BY <3>1, <3>2 DEF Unwritten
  <2> QED BY <2>1, <2>2
<1>4. CASE Going /\ ~Others /\ ~Executes
  <2>1. UNCHANGED <<stored, newest>>
    BY <1>4, RowsFrame
  <2>2. ASSUME Unsent' => ~wrote', wrote' = wrote PROVE Unwritten'
    BY <1>4, <2>1, <2>2 DEF Unwritten, Going
  <2>3. CASE Reads \/ ReadsMore \/ GuardReadFails \/ Judges \/ Saves \/ SavesMore
    <3>1. pc \in Early /\ wrote' = wrote
      BY <2>3 DEF Reads, ReadsMore, GuardReadFails, Judges, Saves, SavesMore, Early, history
    <3> QED BY <2>2, <3>1 DEF Unwritten, Unsent
  <2>4. CASE Sends
    <3>1. /\ pc \in {"send", "resend"} /\ pc' = "wait" /\ UNCHANGED <<step, phase, wrote, cmd>>
          /\ pc = "resend" => step = "restate"
      BY <2>4 DEF Sends, Typed, remedy, history
    <3>2. Unsent' => Unsent
      BY <3>1 DEF Unsent, Applied, Early
    <3> QED BY <2>2, <3>1, <3>2 DEF Unwritten
  <2>5. CASE Succeeds
    <3>1. /\ wrote' = wrote /\ cmd' = cmd /\ Placed
          /\ \/ pc' = "idle"
             \/ pc' = "send" /\ step = "first" /\ step' = "second" /\ phase' = 1
             \/ pc' = "send" /\ step = "requested" /\ step' = "carriers"
             \/ pc' = "send" /\ step = "carriers" /\ step' = "carriers" /\ phase' = phase + 1
             \/ pc' = "send" /\ step = "carriers" /\ step' = "restate"
      BY <2>5 DEF Succeeds, Proceeds, Ends, Typed, Late, history
    <3>2. ~Unsent'
      BY <3>1 DEF Placed, Unsent, Early
    <3> QED BY <2>2, <3>1, <3>2
  <2>6. ASSUME NEW final \in BOOLEAN, Fails(final) PROVE Unwritten'
    <3>1. wrote' = wrote /\ (pc' \in {"idle", "resend"} \/ (pc' = "send" /\ step' = "restate"))
      BY <2>6 DEF Fails, Proceeds, LeavesCarriers, Ends
    <3> QED BY <2>2, <3>1 DEF Unsent, Early
  <2>7. CASE Aborts \/ PreFails \/ GivesUp \/ Crashes
    <3>1. wrote' = wrote /\ pc' = "idle"
      BY <2>7 DEF Aborts, PreFails, GivesUp, Crashes, LeavesCarriers, Ends, history
    <3> QED BY <2>2, <3>1 DEF Unsent, Early
  <2>8. CASE UNCHANGED vars
    BY <2>2, <2>8 DEF Unwritten, Unsent, Applied, vars, remedy, history
  <2> QED
    BY <1>4, <2>3, <2>4, <2>5, <2>6, <2>7, <2>8, StartsFrame, <1>2 DEF Next, Step, Done, Rejected, Lost
<1> QED BY <1>1, <1>2, <1>3, <1>4, OwnFrame

\* The steps that leave a command where it still reads, and where it has judged.
LEMMA EarlyFrame ==
  ASSUME [Next]_vars, pc' \in {"read", "readMore", "judge"}
  PROVE  Others \/ (\E c \in Commands : Starts(c)) \/ Reads \/ ReadsMore \/ UNCHANGED vars
<1>1. ASSUME GuardReadFails \/ Judges \/ Saves \/ SavesMore \/ Sends PROVE FALSE
  BY <1>1 DEF GuardReadFails, Judges, Saves, SavesMore, Sends, Ends
<1>2. ASSUME Succeeds \/ Aborts \/ PreFails \/ GivesUp \/ Crashes PROVE FALSE
  BY <1>2 DEF Succeeds, Proceeds, Aborts, PreFails, GivesUp, Crashes, LeavesCarriers, Ends
<1>3. ASSUME NEW final \in BOOLEAN, Fails(final) PROVE FALSE
  BY <1>3 DEF Fails, Proceeds, LeavesCarriers, Ends
<1>4. ASSUME Executes PROVE FALSE
  BY <1>4 DEF Executes
<1> QED BY <1>1, <1>2, <1>3, <1>4 DEF Next, Step, Done, Rejected, Lost

LEMMA LateFrame ==
  ASSUME [Next]_vars, pc' \in Late
  PROVE  \/ Others
         \/ Judges \/ GuardReadFails
         \/ /\ pc \in Late /\ UNCHANGED <<cmd, seen, version, rec, plan, before, raced>>
            /\ \A w \in warned : w \in warned'
            /\ UNCHANGED <<step, phase>> \/ step' # "second" \/ phase' # 0
<1> DEFINE Stay == /\ pc \in Late /\ UNCHANGED <<cmd, seen, version, rec, plan, before, raced>>
                   /\ \A w \in warned : w \in warned'
                   /\ UNCHANGED <<step, phase>> \/ step' # "second" \/ phase' # 0
<1>1. ASSUME Reads \/ ReadsMore \/ Aborts \/ PreFails \/ GivesUp \/ Crashes PROVE FALSE
  BY <1>1 DEF Reads, ReadsMore, Aborts, PreFails, GivesUp, Crashes, LeavesCarriers, Ends, Late
<1>2. CASE Saves \/ SavesMore \/ Sends
  BY <1>2 DEF Saves, SavesMore, Sends, Late, guard, remedy, report, history
<1>3. CASE Succeeds
  <2>1. pc = "wait" /\ UNCHANGED <<cmd, guard, warned, history>>
    BY <1>3 DEF Succeeds
  <2>2. UNCHANGED <<step, phase>> \/ phase' = 1 \/ step' # "second"
    BY <1>3 DEF Succeeds, Proceeds
  <2> QED BY <2>1, <2>2 DEF Late, guard, history
<1>4. ASSUME NEW final \in BOOLEAN, pc = "wait", Fails(final) PROVE Stay
  BY <1>4 DEF Fails, Proceeds, LeavesCarriers, Ends, Late, guard
<1>5. CASE Executes
  BY <1>5 DEF Executes, Late, guard, remedy, report
<1>6. CASE UNCHANGED vars
  BY <1>6 DEF vars, guard, remedy, report, history
<1>7. ASSUME NEW c \in Commands, Starts(c) PROVE FALSE
  BY <1>7, StartsFrame DEF Late
<1> QED BY <1>1, <1>2, <1>3, <1>4, <1>5, <1>6, <1>7 DEF Next, Step, Done, Rejected, Lost

LEMMA SeenNext == ASSUME Typed, Unwritten, SeenTrue, [Next]_vars PROVE SeenTrue'
<1> SUFFICES ASSUME cmd' # None, ~raced', pc' \in {"read", "readMore", "judge"}
             PROVE  /\ pc' = "readMore" => IF Resets' THEN seen'.newest = before'.newest ELSE seen'.stored = before'.stored
                    /\ pc' \in {"read", "readMore"} /\ ~Resets' => seen'.newest = None
                    /\ pc' = "judge" =>
                         /\ Resets' => seen'.stored = before'.stored /\ seen'.newest = before'.newest
                         /\ NeedsPubCheck' \/ NeedsRestoreCheck' \/ cmd'.verb = "undo" => seen'.stored = before'.stored
                         /\ NeedsPubCheck' /\ before'.stored.status = "published" => seen'.newest = before'.newest
  BY DEF SeenTrue
<1>0. seen \in [stored : Row \cup {None}, newest : Row \cup {None}]
  BY DEF Typed, TypeOK
<1>1. CASE Others
  BY <1>1, OthersFrame
<1>2. ASSUME NEW c \in Commands, Starts(c)
      PROVE  seen'.newest = None /\ (pc' = "read" \/ (pc' = "judge" /\ ~Resets' /\ ~NeedsPubCheck'
                                                       /\ ~NeedsRestoreCheck' /\ cmd'.verb # "undo"))
  <2>1. /\ seen' = [stored |-> None, newest |-> None] /\ cmd' = c /\ pc' # "idle"
        /\ pc' = IF Resets' \/ NeedsPubCheck' \/ NeedsRestoreCheck' \/ c.verb = "undo" THEN "read" ELSE "judge"
    BY <1>2, StartsFrame
  <2>2. seen'.newest = None
    BY <2>1
  <2> QED BY <2>1, <2>2, Zenon
<1>3. CASE Reads
  <2>1. /\ pc = "read" /\ UNCHANGED <<cmd, version, rec, before, raced>>
        /\ IF Resets THEN seen' = [seen EXCEPT !.newest = newest] /\ pc' = "readMore"
           ELSE /\ seen' = [seen EXCEPT !.stored = stored]
                /\ pc' = IF stored.status = "published" /\ cmd.verb # "undo" THEN "readMore" ELSE "judge"
    BY <1>3 DEF Reads, history
  <2>2. stored = before.stored /\ newest = before.newest
    BY <2>1, RowsAsBefore DEF Unsent, Early
  <2>3. Resets' = Resets /\ NeedsPubCheck' = NeedsPubCheck /\ NeedsRestoreCheck' = NeedsRestoreCheck
    BY <2>1, SameCommand
  <2>4. CASE Resets
    BY <1>0, <2>1, <2>2, <2>3, <2>4
  <2>5. CASE ~Resets
    <3>1. seen.newest = None
      BY <2>1, <2>5 DEF SeenTrue
    <3>2. seen'.stored = before'.stored /\ seen'.newest = None
      BY <1>0, <2>1, <2>2, <2>5, <3>1
    <3>3. pc' = "judge" /\ before'.stored.status = "published" => cmd.verb = "undo"
      BY <2>1, <2>2, <2>5
    <3> QED BY <2>1, <2>3, <2>5, <3>2, <3>3 DEF NeedsPubCheck
  <2> QED BY <2>4, <2>5
<1>4. CASE ReadsMore
  <2>1. /\ pc = "readMore" /\ pc' = "judge" /\ UNCHANGED <<cmd, version, rec, before, raced>>
        /\ seen' = IF Resets THEN [seen EXCEPT !.stored = stored] ELSE [seen EXCEPT !.newest = newest]
    BY <1>4 DEF ReadsMore, history
  <2>2. stored = before.stored /\ newest = before.newest
    BY <2>1, RowsAsBefore DEF Unsent, Early
  <2>3. Resets' = Resets /\ NeedsPubCheck' = NeedsPubCheck /\ NeedsRestoreCheck' = NeedsRestoreCheck
    BY <2>1, SameCommand
  <2>4. seen'.stored = before.stored /\ seen'.newest = before.newest
    BY <1>0, <2>1, <2>2 DEF SeenTrue
  <2> QED BY <2>1, <2>3, <2>4
<1>5. CASE UNCHANGED vars
  <2>1. UNCHANGED <<cmd, version, rec, before, raced, pc, seen>>
    BY <1>5 DEF vars, guard, history
  <2> QED BY <2>1, SameCommand DEF SeenTrue
<1> QED BY <1>1, <1>2, <1>3, <1>4, <1>5, EarlyFrame

LEMMA JudgedNext == ASSUME Typed, Unwritten, SeenTrue, Judged, [Next]_vars PROVE Judged'
<1> SUFFICES ASSUME pc' \in Late, ~raced'
             PROVE  /\ NeedsPubCheck' /\ before'.stored.status = "published" =>
                         /\ BodyStatus' # "draft"
                         /\ before'.newest.status = "draft" =>
                              /\ BodyStatus' = "published"
                              /\ seen'.newest = None \/ "publishes_pending_draft" \in warned'
                    /\ cmd'.verb = "repair" /\ before'.stored.status = "published" =>
                         before'.newest.status = "published" /\ before'.newest.edits = before'.stored.edits
                    /\ NeedsRestoreCheck' => before'.stored.status # "published"
                    /\ step' = "second" /\ phase' = 0 => before'.stored = rec'.published
  BY DEF Judged
<1>1. CASE Others
  BY <1>1, OthersFrame
<1>2. CASE Judges
  <2>1. /\ pc = "judge" /\ ~Refuses /\ ~RefusesRepair /\ ~RefusesRestore /\ warned' = Warnings
        /\ UNCHANGED <<cmd, version, rec, before, raced, seen>>
        /\ step' = "second" => TwoStep /\ SkipsPublished
    BY <1>2 DEF Judges, Ends, Late, history
  <2>2. cmd # None
    BY <2>1 DEF Typed
  <2>3. /\ NeedsPubCheck \/ NeedsRestoreCheck \/ cmd.verb \in {"undo", "repair"} => seen.stored = before.stored
        /\ NeedsPubCheck /\ before.stored.status = "published" => seen.newest = before.newest
        /\ cmd.verb = "repair" => seen.newest = before.newest
    BY <2>1, <2>2 DEF SeenTrue, Resets
  <2>4. BodyStatus \in {"published", "draft", "keep"}
    BY DEF BodyStatus
  <2>5. ASSUME NeedsPubCheck, before.stored.status = "published"
        PROVE  /\ BodyStatus # "draft"
               /\ before.newest.status = "draft" => BodyStatus = "published" /\ "publishes_pending_draft" \in warned'
    BY <2>1, <2>3, <2>4, <2>5 DEF Refuses, PendingDraft, Warnings
  <2>6. ASSUME cmd.verb = "repair", before.stored.status = "published"
        PROVE  before.newest.status = "published" /\ before.newest.edits = before.stored.edits
    BY <2>1, <2>3, <2>6 DEF RefusesRepair
  <2>7. ASSUME NeedsRestoreCheck PROVE before.stored.status # "published"
    BY <2>1, <2>3, <2>7 DEF RefusesRestore
  <2>8. ASSUME step' = "second" PROVE before.stored = rec.published
    BY <2>1, <2>3, <2>8 DEF TwoStep, SkipsPublished
  <2>9. NeedsPubCheck' = NeedsPubCheck /\ NeedsRestoreCheck' = NeedsRestoreCheck /\ BodyStatus' = BodyStatus
    BY <2>1, SameCommand
  <2> QED BY <2>1, <2>5, <2>6, <2>7, <2>8, <2>9
<1>3. CASE GuardReadFails
  <2>1. /\ pc \in {"read", "readMore"} /\ NeedsPubCheck /\ ~cmd.reset /\ BodyStatus = "published"
        /\ step' = "only" /\ UNCHANGED <<cmd, version, rec, before, raced, seen>>
    BY <1>3 DEF GuardReadFails, guard, history
  <2>2. cmd # None /\ ~Resets
    BY <2>1 DEF Typed, NeedsPubCheck, Resets
  <2>3. seen.newest = None
    BY <2>1, <2>2 DEF SeenTrue
  <2>4. NeedsPubCheck' = NeedsPubCheck /\ NeedsRestoreCheck' = NeedsRestoreCheck /\ BodyStatus' = BodyStatus
    BY <2>1, SameCommand
  <2> QED BY <2>1, <2>3, <2>4 DEF NeedsPubCheck, NeedsRestoreCheck
<1>4. CASE /\ pc \in Late /\ UNCHANGED <<cmd, seen, version, rec, plan, before, raced>>
           /\ \A w \in warned : w \in warned'
           /\ UNCHANGED <<step, phase>> \/ step' # "second" \/ phase' # 0
  <2>1. NeedsPubCheck' = NeedsPubCheck /\ NeedsRestoreCheck' = NeedsRestoreCheck /\ BodyStatus' = BodyStatus
    BY <1>4, SameCommand
  <2> QED BY <1>4, <2>1 DEF Judged
<1> QED BY <1>1, <1>2, <1>3, <1>4, LateFrame

\* The request, in the words of SentIs, with the edit it is about to be.
LEMMA RequestSays ==
  ASSUME Typed, pc \in {"send", "resend"}
  PROVE  /\ step = "carriers" => Says(Request, "keep", "carriers", FALSE, FALSE) /\ Request.edits = {} /\ ~Request.asked
         /\ step = "restate" => Says(Request, "keep", "clean", FALSE, FALSE) /\ Request.edits = {} /\ ~Request.asked
         /\ step \in {"only", "requested"} =>
              /\ cmd.verb = "restate" => Says(Request, "keep", "clean", FALSE, TRUE) /\ Request.edits = {} /\ ~Request.asked
              /\ cmd.verb = "undo" => Request = Undo
              /\ cmd.verb = "restore" => /\ Request.status = IF Draft THEN "draft" ELSE version.status
                                         /\ Request.draft = Draft /\ Request.asked = (cmd.mode = "unpublish")
              /\ Edits => /\ Says(Request, BodyStatus, "keep", Draft, TRUE)
                          /\ Request.asked = (cmd.verb = "unpublish" \/ cmd.mode = "unpublish")
                          /\ Request.edits \subseteq IF cmd.verb = "update" THEN {edit + 1} ELSE {}
<1>1. Placed /\ cmd \in Command /\ TypeOK
  BY DEF Typed, TypeOK, Late
<1>2. CASE step \in {"carriers", "restate"}
  BY <1>2, RequestIs DEF Says, Empty
<1>3. CASE step \in {"only", "requested"}
  <2>1. CASE cmd.verb = "restate"
    BY <1>3, <2>1 DEF Request, Says, Empty, Edits
  <2>2. CASE cmd.verb = "undo"
    BY <1>3, <2>2 DEF Request, Edits
  <2>3. CASE cmd.verb = "restore"
    <3>1. Request = [Whole(version, IF Draft THEN "draft" ELSE version.status, Draft)
                       EXCEPT !.asked = cmd.mode = "unpublish"]
      BY <1>3, <2>3 DEF Request
    <3> QED BY <1>3, <2>3, <3>1 DEF Edits, Whole, Empty
  <2>4. CASE Edits
    <3>1. Request = [Empty EXCEPT !.status = BodyStatus, !.draft = Draft,
                                  !.edits = IF cmd.verb = "update" THEN {edit + 1} ELSE {},
                                  !.asked = cmd.verb = "unpublish" \/ cmd.mode = "unpublish"]
      BY <1>3, <2>4 DEF Request, Edits
    <3> QED BY <1>3, <2>4, <3>1 DEF Edits, Says, Empty
  <2> QED BY <2>1, <2>2, <2>3, <2>4 DEF Edits
<1> QED BY <1>2, <1>3

LEMMA SentNext == ASSUME Typed, Sent, [Next]_vars PROVE Sent'
<1>1. ASSUME pc = "wait", UNCHANGED <<cmd, version, rec, step>>, flying'.body = flying.body, UNCHANGED edit \/ raced',
             ~raced' => ~raced
      PROVE  Sent'
  <2>1. BodyStatus' = BodyStatus /\ Draft' = Draft /\ Edits' = Edits /\ Undo' = Undo
    BY <1>1, SameCommand DEF Undo, TwoStep
  <2>2. SentIs(flying.body)
    BY <1>1 DEF Sent
  <2> QED BY <1>1, <2>1, <2>2 DEF Sent, SentIs, Says
<1>2. CASE Sends
  <2>1. /\ pc \in {"send", "resend"} /\ flying' = [body |-> Request, reply |-> None]
        /\ edit' = IF cmd.verb = "update" /\ step \in {"only", "requested"} THEN edit + 1 ELSE edit
        /\ UNCHANGED <<cmd, version, rec, step, raced>>
    BY <1>2 DEF Sends, guard, remedy, history
  <2>2. BodyStatus' = BodyStatus /\ Draft' = Draft /\ Edits' = Edits /\ Undo' = Undo
    BY <2>1, SameCommand DEF Undo, TwoStep
  <2>3. flying'.body = Request
    BY <2>1
  <2>4. step \in {"only", "requested"} /\ Edits => flying'.body.edits \subseteq {edit'}
    BY <2>1, <2>3, RequestSays
  <2>5. /\ step = "first" => Request = Whole(rec.published, "published", FALSE)
        /\ step = "second" => Request = Whole(rec.doc, "draft", TRUE)
    BY <2>1, RequestIs
  <2>6. /\ (Whole(rec.published, "published", FALSE))' = Whole(rec.published, "published", FALSE)
        /\ (Whole(rec.doc, "draft", TRUE))' = Whole(rec.doc, "draft", TRUE)
    BY <2>1 DEF Whole, Empty
  <2> QED BY <2>1, <2>2, <2>3, <2>4, <2>5, <2>6, RequestSays DEF Sent, SentIs, Says
<1>3. CASE Executes
  BY <1>1, <1>3, ExecutesFrame
<1>4. CASE Others
  BY <1>1, <1>4, OthersFrame DEF Sent
<1>5. CASE UNCHANGED vars
  BY <1>1, <1>5 DEF vars, row, guard, remedy, history, Sent
<1>6. CASE pc' # "wait"
  BY <1>6 DEF Sent
<1>7. ASSUME Reads \/ ReadsMore \/ GuardReadFails \/ Judges \/ Saves \/ SavesMore \/ Succeeds PROVE pc' # "wait"
  BY <1>7 DEF Reads, ReadsMore, GuardReadFails, Judges, Saves, SavesMore, Succeeds, Proceeds, Ends
<1>8. ASSUME Aborts \/ PreFails \/ GivesUp \/ Crashes PROVE pc' # "wait"
  BY <1>8 DEF Aborts, PreFails, GivesUp, Crashes, LeavesCarriers, Ends
<1>9. ASSUME NEW final \in BOOLEAN, Fails(final) PROVE pc' # "wait"
  BY <1>9 DEF Fails, Proceeds, LeavesCarriers, Ends
<1>10. ASSUME NEW c \in Commands, Starts(c) PROVE pc' # "wait"
  BY <1>10, StartsFrame
<1> QED
  BY <1>2, <1>3, <1>4, <1>5, <1>6, <1>7, <1>8, <1>9, <1>10 DEF Next, Step, Done, Rejected, Lost

\* A request that is no draft save makes both rows the same.
LEMMA SameRows ==
  ASSUME TypeOK, NEW b \in Body, Executed(b), b.draft = FALSE
  PROVE  stored' = newest'
BY ExecutedIs DEF SavesDraft

LEMMA AlignedNext ==
  ASSUME Typed, Unwritten, SeenTrue, Sent, Aligned, [Next]_vars
  PROVE  Aligned'
<1> SUFFICES ASSUME ~raced', pc' \in Late,
                    step' \in {"carriers", "restate"} \/ (step' = "requested" /\ Applied'),
                    stored'.status = "published"
             PROVE  newest'.status = "published"
  BY DEF Aligned
<1>1. CASE Others
  BY <1>1, OthersFrame
<1>2. CASE Judges
  <2>1. /\ pc = "judge" /\ ~RefusesRepair /\ pc' = "save" /\ cmd.verb = "repair" /\ UNCHANGED <<stored, newest, raced>>
    BY <1>2 DEF Judges, Ends, Late, row, history, Applied
  <2>2. cmd # None
    BY <2>1 DEF Typed
  <2>3. stored = before.stored /\ newest = before.newest
    BY <2>1, <2>2, RowsAsBefore DEF Unsent, Early
  <2>4. seen.stored = before.stored /\ seen.newest = before.newest
    BY <2>1, <2>2 DEF SeenTrue, Resets
  <2> QED BY <2>1, <2>3, <2>4 DEF RefusesRepair
<1>3. CASE GuardReadFails
  BY <1>3 DEF GuardReadFails
<1>4. CASE Executes
  <2>1. CASE Executed(flying.body) /\ Accepts(flying.body)
    <3>1. flying.body.draft = FALSE
      <4>1. SentIs(flying.body) /\ step' = step /\ Placed /\ cmd \in Command
        BY <1>4, ExecutesFrame DEF Sent, Typed, TypeOK, Late
      <4>2. CASE step \in {"carriers", "restate"}
        BY <4>1, <4>2 DEF SentIs, Says
      <4>3. CASE step = "requested"
        <5>1. Edits /\ ~Draft
          BY <4>1, <4>3, Verbs DEF Placed, Resets, Edits
        <5> QED BY <4>1, <4>3, <5>1 DEF SentIs, Says
      <4> QED BY <4>1, <4>2, <4>3
    <3> QED BY <1>4, <2>1, <3>1, ExecutesFrame, SameRows DEF Typed
  <2>2. CASE UNCHANGED <<stored, newest>> /\ ~Applied'
    <3>1. step \in {"carriers", "restate"} /\ pc \in Late /\ ~raced
      BY <1>4, <2>2, ExecutesFrame DEF Late
    <3> QED BY <2>2, <3>1 DEF Aligned
  <2> QED BY <1>4, <2>1, <2>2, ExecutesFrame
<1>5. CASE ~Others /\ ~Executes /\ ~Judges /\ ~GuardReadFails
  <2>1. UNCHANGED <<stored, newest>>
    BY <1>5, RowsFrame
  <2>2. pc \in Late /\ UNCHANGED raced
    BY <1>5, LateFrame
  <2>3. step \in {"carriers", "restate"} \/ (step = "requested" /\ Applied)
    <3>1. CASE Succeeds
      BY <3>1 DEF Succeeds, Proceeds, Ends, Late, Applied
    <3>2. ASSUME NEW final \in BOOLEAN, Fails(final) PROVE step \in {"carriers", "restate"}
      BY <3>2 DEF Fails, Proceeds, LeavesCarriers, Ends, Late, Restates
    <3>3. ASSUME Saves \/ SavesMore PROVE step' = step /\ pc' # "wait"
      BY <3>3 DEF Saves, SavesMore, remedy
    <3>4. ASSUME Sends PROVE step' = step /\ ~Applied'
      BY <3>4 DEF Sends, remedy, Applied
    <3>5. CASE UNCHANGED vars
      BY <3>5 DEF vars, remedy, Applied
    <3>6. ASSUME Reads \/ ReadsMore \/ Aborts \/ PreFails \/ GivesUp \/ Crashes PROVE FALSE
      BY <3>6 DEF Reads, ReadsMore, Aborts, PreFails, GivesUp, Crashes, LeavesCarriers, Ends, Late
    <3>7. ASSUME NEW c \in Commands, Starts(c) PROVE FALSE
      BY <3>7, StartsFrame DEF Late
    <3> QED
      BY <1>5, <3>1, <3>2, <3>3, <3>4, <3>5, <3>6, <3>7 DEF Next, Step, Done, Rejected, Lost, Applied
  <2> QED BY <2>1, <2>2, <2>3 DEF Aligned
<1> QED BY <1>1, <1>2, <1>3, <1>4, <1>5

LEMMA BaseInit == Init => Base
<1> SUFFICES ASSUME Init PROVE Base
  OBVIOUS
<1>1. /\ cmd = None /\ pc = "idle"
  BY DEF Init
<1>2. LiveIsNewest
  BY DEF Init, LiveIsNewest
<1> QED BY <1>1, <1>2, TypedInit DEF Base, Unwritten, Unsent, Applied, Early, SeenTrue, Judged, Late, Sent, Aligned

LEMMA BaseNext == Base /\ [Next]_vars => Base'
BY TypedNext, UnwrittenNext, LiveNext, SeenNext, JudgedNext, SentNext, AlignedNext DEF Base

-----------------------------------------------------------------------------
(* No accidental unpublishing.                                              *)

LEMMA OfflineSafe ==
  ASSUME Base, Executes, ~raced, ~flying.body.asked, stored.status = "published"
  PROVE  stored'.status = "published"
<1> DEFINE b == flying.body
<1>1. /\ b \in Body /\ SentIs(b) /\ Placed /\ cmd \in Command /\ cmd # None /\ TypeOK /\ pc = "wait" /\ ~Applied
  BY ExecutesFrame DEF Base, Sent, Typed, TypeOK, Late
<1>2. UNCHANGED <<stored, newest>> \/ Executed(b)
  BY ExecutesFrame DEF Base
<1>3. CASE SavesDraft(b)
  BY <1>1, <1>2, <1>3, ExecutedIs
<1>4. CASE b.status = "published" \/ (b.status = "keep" /\ newest.status = "published")
  <2>1. Executed(b) /\ ~SavesDraft(b) => stored' = Merge(newest, b)
    BY <1>1, ExecutedIs
  <2>2. Merge(newest, b).status = IF b.status = "keep" THEN newest.status ELSE b.status
    BY DEF Merge
  <2> HIDE DEF b
  <2> QED BY <1>2, <1>3, <1>4, <2>1, <2>2
<1>5. CASE step \in {"carriers", "restate"}
  <2>1. newest.status = "published"
    BY <1>1, <1>5 DEF Base, Aligned, Late
  <2> QED BY <1>1, <1>4, <1>5, <2>1 DEF SentIs, Says
<1>6. CASE step \in {"first", "second"}
  <2>1. rec \in Files /\ rec.doc \in Row /\ (step = "first" => rec.published \in Row)
    BY <1>1, <1>6 DEF Placed, TwoStep, Base, Typed, Files
  <2>2. newest \in Row
    BY <1>1 DEF TypeOK
  <2>3. CASE step = "first"
    <3>1. Whole(rec.published, "published", FALSE).status = "published"
      BY DEF Whole, Empty
    <3> QED BY <1>1, <1>4, <2>3, <3>1 DEF SentIs
  <2>4. CASE step = "second"
    <3>1. Whole(rec.doc, "draft", TRUE).status = "draft" /\ Whole(rec.doc, "draft", TRUE).draft = TRUE
      BY DEF Whole, Empty
    <3> QED BY <1>1, <1>3, <2>4, <3>1 DEF SentIs, SavesDraft
  <2> QED BY <1>6, <2>3, <2>4
<1>7. CASE step \in {"only", "requested"}
  <2>1. stored = before.stored /\ newest = before.newest /\ before.newest.status \in Statuses
    <3>1. Unsent
      BY <1>1, <1>7 DEF Unsent
    <3> QED BY <1>1, <3>1, RowsAsBefore DEF Base, TypeOK, Row
  <2>2. /\ NeedsPubCheck =>
             BodyStatus # "draft" /\ (before.newest.status = "draft" => BodyStatus = "published")
        /\ ~NeedsRestoreCheck
    BY <1>1, <2>1 DEF Base, Judged, Late
  <2>3. CASE cmd.verb = "restate"
    <3>1. NeedsPubCheck /\ BodyStatus = "keep"
      BY <1>1, <2>3, Verbs DEF NeedsPubCheck, BodyStatus, Draft
    <3> QED BY <1>1, <1>4, <1>7, <2>1, <2>2, <2>3, <3>1 DEF SentIs, Says, Statuses
  <2>4. CASE cmd.verb = "undo"
    <3>1. rec.doc \in Row /\ rec.doc.status \in Statuses /\ newest \in Row /\ b = Undo /\ ~TwoStep
          /\ cmd.mode \in {"plain", "draft", "publish"}
      BY <1>1, <1>7, <2>4, Verbs DEF Base, Typed, Files, Row, SentIs, Placed, TypeOK, Resets
    <3>2. \/ b = Whole(rec.doc, "draft", TRUE)
          \/ b = Whole(rec.doc, "published", FALSE)
      BY <3>1 DEF Undo, Statuses
    <3>3. /\ Whole(rec.doc, "draft", TRUE).status = "draft" /\ Whole(rec.doc, "draft", TRUE).draft = TRUE
          /\ Whole(rec.doc, "published", FALSE).status = "published"
      BY DEF Whole, Empty
    <3> QED BY <1>3, <1>4, <3>1, <3>2, <3>3 DEF SavesDraft
  <2>5. CASE cmd.verb = "restore"
    <3>1. /\ b.status = IF Draft THEN "draft" ELSE version.status
          /\ b.draft = Draft /\ b.asked = (cmd.mode = "unpublish")
      BY <1>1, <1>7, <2>5 DEF SentIs
    <3>2. version.status \in Statuses /\ cmd.mode \in {"plain", "draft"}
      BY <1>1, <2>5, <3>1, Verbs DEF Base, Typed, Row
    <3> QED BY <1>3, <1>4, <2>2, <2>5, <3>1, <3>2 DEF Draft, SavesDraft, NeedsRestoreCheck, Statuses
  <2>6. CASE Edits
    <3>1. /\ b.status = BodyStatus /\ b.draft = Draft /\ cmd.verb # "unpublish" /\ cmd.mode # "unpublish"
          /\ cmd.verb \in {"update", "publish"}
      BY <1>1, <1>7, <2>6, Verbs DEF SentIs, Says, Edits, Placed
    <3>2. CASE Draft
      BY <1>3, <3>1, <3>2, Verbs, <1>1 DEF Draft, BodyStatus, SavesDraft
    <3>3. CASE ~Draft /\ cmd.verb = "update"
      <4>1. NeedsPubCheck
        BY <3>1, <3>3 DEF NeedsPubCheck
      <4>2. BodyStatus \in {"published", "draft", "keep"}
        BY DEF BodyStatus
      <4> QED BY <1>4, <2>1, <2>2, <3>1, <4>1, <4>2 DEF Statuses
    <3>4. CASE cmd.verb = "publish"
      BY <1>1, <1>4, <3>1, <3>4, Verbs DEF BodyStatus
    <3> QED BY <3>1, <3>2, <3>3, <3>4
  <2> QED BY <2>3, <2>4, <2>5, <2>6 DEF Edits
<1> QED BY <1>1, <1>5, <1>6, <1>7 DEF Placed

\* No request takes a published document offline unless the command asked for it or
\* somebody else changed the document since the command started.
THEOREM OfflineOnlyAsked == Spec => NeverOffline
<1>1. Base /\ [Next]_vars => [stored.status = "published" /\ stored'.status = "draft" => raced' \/ flying.body.asked]_vars
  <2> SUFFICES ASSUME Base, [Next]_vars, stored.status = "published", stored'.status = "draft",
                      ~raced', ~flying.body.asked
               PROVE  FALSE
    OBVIOUS
  <2>1. CASE Others
    BY <2>1, OthersFrame
  <2>2. CASE Executes
    <3>1. ~raced
      BY <2>2, ExecutesFrame DEF Base
    <3> QED BY <2>2, <3>1, OfflineSafe
  <2> QED BY <2>1, <2>2, RowsFrame
<1> QED BY BaseInit, BaseNext, <1>1, PTL DEF Spec, NeverOffline

-----------------------------------------------------------------------------
(* How a command ends.                                                      *)

\* What it says, from where.
Stops   == told' \in {"refused", "aborted"} /\ pc \in Early
Cannot  == pc = "send" /\ ~carriers /\ IF step = "carriers" /\ cmd.verb # "repair" THEN told' = "stored" ELSE told' = "aborted"
Nothing == told' = "ok" /\ pc = "judge" /\ cmd.verb = "repair" /\ warned' = warned
Answers == told' = "ok" /\ Applied /\ step \in {"only", "restate", "second"} /\ warned' = warned
Leaves  == told' = "carriers" /\ kept' # None
Fallen(final) ==
  /\ told' = IF step = "second" /\ phase = 1 THEN "live" ELSE "failed"
  /\ pc = "wait" /\ step # "restate" /\ ~Restates(final) /\ (final => ~Applied)

LEMMA Ending ==
  ASSUME Typed, [Next]_vars, pc' = "idle"
  PROVE  \/ Others
         \/ \E c \in Commands : Starts(c)
         \/ UNCHANGED vars
         \/ /\ pc # "idle" /\ Going /\ UNCHANGED <<stored, newest, edit, seen, wrote>>
            /\ Stops \/ Cannot \/ Nothing \/ Answers \/ Leaves \/ told' = "killed" \/ Fallen(TRUE) \/ Fallen(FALSE)
<1> DEFINE Frame == Going /\ UNCHANGED <<stored, newest, edit, seen, wrote>>
<1>1. ASSUME Reads \/ ReadsMore \/ GuardReadFails \/ Saves \/ SavesMore \/ Sends PROVE FALSE
  BY <1>1 DEF Reads, ReadsMore, GuardReadFails, Saves, SavesMore, Sends
<1>2. CASE Judges
  <2>1. Frame /\ pc = "judge"
    BY <1>2 DEF Judges, Going, row, history
  <2>2. told' = "refused" \/ (told' = "ok" /\ cmd.verb = "repair" /\ warned' = warned)
    BY <1>2 DEF Judges, Ends
  <2> QED BY <2>1, <2>2 DEF Stops, Nothing, Early
<1>3. CASE Aborts
  BY <1>3 DEF Aborts, Ends, Going, Stops, Early, row, guard, history
<1>4. CASE PreFails
  <2>1. Frame /\ pc = "send"
    BY <1>4 DEF PreFails, Going, row, guard, history
  <2>2. CASE carriers
    BY <1>4, <2>1, <2>2 DEF PreFails, LeavesCarriers, Ends, Leaves
  <2>3. CASE ~carriers
    BY <1>4, <2>1, <2>3 DEF PreFails, Ends, Cannot
  <2> QED BY <2>1, <2>2, <2>3
<1>5. CASE Succeeds
  <2>1. Frame /\ Applied /\ Placed /\ warned' = warned
    BY <1>5 DEF Succeeds, Applied, Going, Typed, Late, row, guard, history
  <2>2. step \notin {"first", "requested", "carriers"} /\ told' = "ok"
    BY <1>5 DEF Succeeds, Proceeds, Ends
  <2> QED BY <2>1, <2>2 DEF Placed, Answers, Applied
<1>6. ASSUME NEW final \in BOOLEAN, pc = "wait", Fails(final), final => ~Applied
      PROVE  pc # "idle" /\ Frame /\ (Leaves \/ Fallen(final))
  <2>1. Frame /\ pc = "wait"
    BY <1>6 DEF Fails, Going, row, guard
  <2>2. ~Restates(final) /\ (step = "restate" => Exhausted(final))
    BY <1>6 DEF Fails, Proceeds, Restates, Exhausted
  <2>3. CASE step = "restate"
    BY <1>6, <2>1, <2>2, <2>3 DEF Fails, LeavesCarriers, Ends, Leaves
  <2>4. CASE step # "restate"
    BY <1>6, <2>1, <2>2, <2>4 DEF Fails, Ends, Fallen
  <2> QED BY <2>1, <2>3, <2>4
<1>7. CASE Rejected
  BY <1>6, <1>7 DEF Rejected, Applied
<1>8. CASE Lost
  BY <1>6, <1>8 DEF Lost
<1>9. CASE GivesUp \/ Crashes
  <2>1. Frame /\ pc # "idle"
    BY <1>9 DEF GivesUp, Crashes, Going, row, guard, history
  <2>2. Leaves \/ told' = "killed"
    BY <1>9 DEF GivesUp, Crashes, LeavesCarriers, Ends, Leaves
  <2> QED BY <2>1, <2>2
<1>10. CASE Executes
  BY <1>10, ExecutesFrame
<1> QED BY <1>1, <1>2, <1>3, <1>4, <1>5, <1>7, <1>8, <1>9, <1>10 DEF Next, Step, Done

LEMMA StopsCleanNext == ASSUME Typed, Unwritten, StopsClean, [Next]_vars PROVE StopsClean'
<1> SUFFICES ASSUME pc' = "idle", cmd' # None, cmd'.verb # "undo",
                    told' \in {"refused", "aborted"} \/ (told' = "failed" /\ cmd'.verb = "repair")
             PROVE  ~wrote'
  BY DEF StopsClean
<1>1. CASE Others
  BY <1>1, OthersFrame DEF StopsClean
<1>2. ASSUME NEW c \in Commands, Starts(c) PROVE wrote' = FALSE
  BY <1>2, StartsFrame
<1>3. CASE UNCHANGED vars
  BY <1>3 DEF vars, history, report, StopsClean
<1>4. CASE /\ pc # "idle" /\ Going /\ UNCHANGED <<stored, newest, edit, seen, wrote>>
           /\ Stops \/ Cannot \/ Nothing \/ Answers \/ Leaves \/ told' = "killed" \/ Fallen(TRUE) \/ Fallen(FALSE)
  <2>1. UNCHANGED <<cmd, wrote>>
    BY <1>4 DEF Going
  <2>2. CASE Stops
    BY <2>1, <2>2 DEF Stops, Unwritten, Unsent
  <2>3. CASE Cannot
    <3>1. Placed /\ pc = "send" /\ ~carriers /\ cmd \in Command
      BY <2>3 DEF Cannot, Typed, TypeOK, Late
    <3>2. told' \in {"stored", "aborted"} /\ (step = "carriers" => cmd.verb = "repair")
      BY <2>3 DEF Cannot
    <3>3. step \notin {"second", "restate"} /\ (step = "carriers" => phase = 1)
      <4>1. step # "second"
        BY <2>1, <3>1, Verbs DEF Placed
      <4>2. step # "restate" /\ (step = "carriers" => phase \in 1 .. plan /\ ~(phase > 1))
        BY <3>1 DEF Placed
      <4>3. plan \in Nat
        BY DEF Typed, TypeOK
      <4> QED BY <4>1, <4>2, <4>3
    <3>4. Unsent
      BY <3>1, <3>2, <3>3 DEF Unsent, Placed, Applied
    <3> QED BY <2>1, <3>4 DEF Unwritten
  <2>4. ASSUME NEW final \in BOOLEAN, Fallen(final), told' = "failed", cmd.verb = "repair" PROVE ~wrote
    <3>1. Placed /\ pc = "wait" /\ cmd \in Command /\ step # "restate" /\ ~Restates(final) /\ (final => ~Applied)
      BY <2>4 DEF Fallen, Typed, TypeOK, Late
    <3>2. step = "carriers"
      BY <2>4, <3>1, Verbs DEF Placed
    <3>3. final /\ phase = 1
      BY <3>1, <3>2 DEF Restates
    <3> QED BY <2>4, <3>1, <3>2, <3>3 DEF Unwritten, Unsent
  <2>5. Nothing \/ Answers \/ Leaves \/ told' = "killed" => told' \in {"ok", "carriers", "killed"}
    BY DEF Nothing, Answers, Leaves
  <2>6. Fallen(TRUE) \/ Fallen(FALSE) => told' \in {"live", "failed"}
    BY DEF Fallen
  <2>7. CASE Fallen(TRUE) \/ Fallen(FALSE)
    <3>1. told' = "failed" /\ cmd.verb = "repair"
      BY <2>1, <2>6, <2>7
    <3>2. ~wrote
      BY <2>4, <2>7, <3>1
    <3> QED BY <2>1, <3>2
  <2>8. CASE Nothing \/ Answers \/ Leaves \/ told' = "killed"
    BY <2>5, <2>8
  <2> QED BY <1>4, <2>2, <2>3, <2>7, <2>8
<1> QED BY <1>1, <1>2, <1>3, <1>4, Ending

-----------------------------------------------------------------------------
(* Carriers, told.                                                          *)

\* Neither a body that restates the lists clean nor one that keeps them stores carriers.
LEMMA KeptFree ==
  ASSUME TypeOK, NEW b \in Body, Executed(b), b.lists = "keep", CarrierFree
  PROVE  CarrierFree'
<1>1. ~Merge(newest, b).carriers
  BY DEF Merge, CarrierFree
<1> QED BY <1>1, ExecutedIs DEF CarrierFree

LEMMA CleanFree ==
  ASSUME TypeOK, NEW b \in Body, Executed(b), b.lists = "clean", b.draft = FALSE
  PROVE  CarrierFree'
<1>1. ~Merge(newest, b).carriers
  BY DEF Merge
<1>2. stored' = Merge(newest, b) /\ newest' = Merge(newest, b)
  BY ExecutedIs DEF SavesDraft
<1> QED BY <1>1, <1>2 DEF CarrierFree

LEMMA OthersExecute ==
  ASSUME Typed, Others
  PROVE  \E b \in Body : Executed(b) /\ b.lists = "keep"
<1>1. PICK b \in [status : {"keep", "draft", "published"}, whole : {FALSE}, edits : {{edit + 1}}, lists : {"keep"},
                  draft : BOOLEAN, checked : {TRUE}, asked : {TRUE}] : Executed(b)
  BY Zenon DEF Others
<1>2. {edit + 1} \in SUBSET Nat
  BY DEF Typed, TypeOK
<1> QED BY <1>1, <1>2 DEF Body, Statuses

LEMMA CarriersNext == ASSUME Typed, Sent, CarriersInv, [Next]_vars PROVE CarriersInv'
<1> DEFINE Due == cmd # None /\ Resets /\ ~before.stored.carriers /\ ~before.newest.carriers /\ pc # "idle"
           Holds == /\ CarrierFree \/ carriers \/ (step = "carriers" /\ Applied)
                    /\ pc \in Early \/ (step = "restate" /\ Applied) => CarrierFree
<1>0. Due => Holds
  BY DEF CarriersInv
<1> SUFFICES ASSUME Due' PROVE Holds'
  BY DEF CarriersInv
<1>1. CASE Others
  <2>1. PICK b \in Body : Executed(b) /\ b.lists = "keep"
    BY <1>1, OthersExecute
  <2>2. CarrierFree => CarrierFree'
    BY <2>1, KeptFree DEF Typed
  <2>3. UNCHANGED <<cmd, pc, step, carriers, before, flying>> /\ Resets' = Resets
    BY <1>1, OthersFrame, SameCommand
  <2> QED BY <1>0, <2>2, <2>3 DEF Applied
<1>2. ASSUME NEW c \in Commands, Starts(c) PROVE Holds'
  <2>1. before' = [stored |-> stored, newest |-> newest] /\ UNCHANGED <<stored, newest>>
    BY <1>2, StartsFrame
  <2>2. CarrierFree'
    BY <2>1 DEF CarrierFree
  <2> QED BY <2>2
<1>3. CASE Executes
  <2>1. /\ pc = "wait" /\ pc' = "wait" /\ Placed /\ cmd \in Command /\ SentIs(flying.body) /\ flying.body \in Body
        /\ UNCHANGED <<cmd, step, carriers, before>> /\ Resets' = Resets /\ ~Applied
    BY <1>3, ExecutesFrame, SameCommand DEF Sent, Typed, TypeOK, Late
  <2>2. CarrierFree \/ carriers
    BY <1>0, <2>1
  <2>3. CASE ~Applied'
    BY <1>3, <2>1, <2>2, <2>3, ExecutesFrame DEF CarrierFree, Early
  <2>4. CASE Applied' /\ Executed(flying.body)
    <3>1. CASE step = "carriers"
      BY <2>1, <2>4, <3>1 DEF Early
    <3>2. CASE step = "restate"
      <4>1. CarrierFree'
        BY <2>1, <2>4, <3>2, CleanFree DEF SentIs, Says, Typed
      <4> QED BY <4>1
    <3>3. CASE step \in {"only", "requested"}
      <4>1. Edits /\ ~carriers
        BY <2>1, <3>3, Verbs DEF Edits, Placed
      <4>2. flying.body.lists = "keep"
        BY <2>1, <3>3, <4>1 DEF SentIs, Says
      <4>3. CarrierFree'
        BY <2>1, <2>2, <2>4, <4>1, <4>2, KeptFree DEF Typed
      <4> QED BY <4>3
    <3>4. step \notin {"first", "second"}
      BY <2>1, Verbs DEF Placed
    <3> QED BY <2>1, <3>1, <3>2, <3>3, <3>4 DEF Placed
  <2> QED BY <1>3, <2>3, <2>4, ExecutesFrame
<1>4. CASE Going /\ ~Others /\ ~Executes
  <2>1. UNCHANGED <<stored, newest, cmd, before>> /\ Resets' = Resets /\ CarrierFree' = CarrierFree
    BY <1>4, RowsFrame, SameCommand DEF Going, CarrierFree
  <2>2. CASE Reads \/ ReadsMore \/ GuardReadFails \/ Judges \/ Saves \/ SavesMore
    <3>1. pc \in Early /\ pc # "idle"
      BY <2>2 DEF Reads, ReadsMore, GuardReadFails, Judges, Saves, SavesMore, Early
    <3> QED BY <1>0, <2>1, <3>1
  <2>3. CASE Sends
    <3>1. pc \in {"send", "resend"} /\ pc' = "wait" /\ UNCHANGED <<step, carriers>> /\ ~Applied'
      BY <2>3 DEF Sends, remedy, Applied
    <3> QED BY <1>0, <2>1, <3>1 DEF Applied, Early
  <2>4. CASE Succeeds
    <3>1. pc = "wait" /\ Placed /\ cmd \in Command
      BY <2>1, <2>4 DEF Succeeds, Typed, TypeOK, Late
    <3>2. step \notin {"first", "second"}
      BY <2>1, <3>1, Verbs DEF Placed
    <3>3. /\ pc' = "send"
          /\ (step = "requested" /\ carriers' = carriers) \/ (step = "carriers" /\ carriers' = TRUE)
      BY <2>4, <3>2 DEF Succeeds, Proceeds, Ends
    <3> QED BY <1>0, <2>1, <3>1, <3>3 DEF Applied, Early
  <2>5. ASSUME NEW final \in BOOLEAN, pc = "wait", Fails(final) PROVE Holds'
    <3>1. Placed
      BY <2>5 DEF Typed, Late
    <3>2. pc' \in {"send", "resend"} /\ carriers' = TRUE
      BY <2>5, <3>1 DEF Fails, Proceeds, LeavesCarriers, Ends, Placed, Restates, Exhausted
    <3> QED BY <3>2 DEF Applied, Early
  <2>6. ASSUME Aborts \/ PreFails \/ GivesUp \/ Crashes PROVE FALSE
    BY <2>6 DEF Aborts, PreFails, GivesUp, Crashes, LeavesCarriers, Ends
  <2>7. CASE UNCHANGED vars
    BY <1>0, <2>1, <2>7 DEF vars, remedy, Applied
  <2> QED BY <1>2, <1>4, <2>2, <2>3, <2>4, <2>5, <2>6, <2>7 DEF Next, Step, Done, Rejected, Lost
<1> QED BY <1>1, <1>2, <1>3, <1>4, OwnFrame

LEMMA CarriersToldNext ==
  ASSUME Typed, CarriersInv, CarriersTold, [Next]_vars
  PROVE  CarriersTold'
<1> SUFFICES ASSUME pc' = "idle", told' \notin {None, "killed"}, Resets',
                    ~before'.stored.carriers, ~before'.newest.carriers
             PROVE  CarrierFree' \/ (told' = "carriers" /\ kept' # None)
  BY DEF CarriersTold, CarrierFree
<1>1. CASE Others
  <2>1. PICK b \in Body : Executed(b) /\ b.lists = "keep"
    BY <1>1, OthersExecute
  <2>2. CarrierFree => CarrierFree'
    BY <2>1, KeptFree DEF Typed
  <2>3. UNCHANGED <<cmd, pc, told, kept, before>> /\ Resets' = Resets
    BY <1>1, OthersFrame, SameCommand
  <2> QED BY <2>2, <2>3 DEF CarriersTold, CarrierFree
<1>2. ASSUME NEW c \in Commands, Starts(c) PROVE CarrierFree'
  <2>1. before' = [stored |-> stored, newest |-> newest] /\ UNCHANGED <<stored, newest>>
    BY <1>2, StartsFrame
  <2> QED BY <2>1 DEF CarrierFree
<1>3. CASE UNCHANGED vars
  <2>1. UNCHANGED <<stored, newest, cmd, pc, told, kept, before>> /\ Resets' = Resets
    BY <1>3 DEF vars, row, report, history, Resets, Draft
  <2> QED BY <2>1 DEF CarriersTold, CarrierFree
<1>4. CASE /\ pc # "idle" /\ Going /\ UNCHANGED <<stored, newest, edit, seen, wrote>>
           /\ Stops \/ Cannot \/ Nothing \/ Answers \/ Leaves \/ told' = "killed" \/ Fallen(TRUE) \/ Fallen(FALSE)
  <2>1. cmd # None /\ Resets /\ cmd \in Command /\ CarrierFree' = CarrierFree
    BY <1>4, SameCommand DEF Going, Typed, TypeOK, CarrierFree
  <2>2. /\ CarrierFree \/ carriers \/ (step = "carriers" /\ Applied)
        /\ pc \in Early \/ (step = "restate" /\ Applied) => CarrierFree
    BY <1>4, <2>1 DEF CarriersInv, Going
  <2>3. CASE Stops \/ Nothing
    BY <2>1, <2>2, <2>3 DEF Stops, Nothing, Early
  <2>4. CASE Cannot
    BY <2>1, <2>2, <2>4 DEF Cannot, Applied
  <2>5. CASE Answers
    <3>1. Placed /\ step # "second"
      BY <2>1, <2>5, Verbs DEF Answers, Applied, Typed, Late, Placed
    <3> QED BY <2>1, <2>2, <2>5, <3>1 DEF Answers, Placed
  <2>6. ASSUME NEW final \in BOOLEAN, Fallen(final) PROVE CarrierFree
    <3>1. /\ Placed /\ step # "restate" /\ ~Restates(final) /\ (final => ~Applied)
      BY <2>6 DEF Fallen, Typed, Late
    <3>2. step = "carriers" => final /\ phase = 1
      BY <3>1 DEF Restates
    <3>3. ~carriers
      BY <3>1, <3>2 DEF Placed
    <3> QED BY <2>2, <3>1, <3>2, <3>3
  <2> QED BY <1>4, <2>1, <2>3, <2>4, <2>5, <2>6 DEF Leaves
<1> QED BY <1>1, <1>2, <1>3, <1>4, Ending

-----------------------------------------------------------------------------
(* Drafts that go live, told.                                               *)

\* While the rows are what they were, a published row is the live one of before.
LEMMA WithinBefore ==
  ASSUME LiveIsNewest, stored = before.stored, newest = before.newest
  PROVE  /\ stored.edits \subseteq before.stored.edits
         /\ newest.status = "published" => newest.edits \subseteq before.stored.edits
BY DEF LiveIsNewest

LEMMA DraftsExecutes == ASSUME Base, DraftsInv, Executes, Untold' PROVE (Within(stored) /\ Within(newest))'
<1> DEFINE b == flying.body
<1>1. /\ b \in Body /\ SentIs(b) /\ Placed /\ cmd \in Command /\ cmd # None /\ TypeOK /\ pc = "wait" /\ ~Applied
      /\ UNCHANGED <<cmd, seen, edit, warned, before, raced, pc, step>>
  BY ExecutesFrame DEF Base, Sent, Typed, TypeOK, Late
<1>2. Untold
  BY <1>1 DEF Untold, Late
<1>3. Within(stored) /\ Within(newest)
  BY <1>2 DEF DraftsInv
<1>4. CASE UNCHANGED <<stored, newest>>
  BY <1>1, <1>3, <1>4 DEF Within
<1>5. CASE Executed(b)
  <2>1. /\ ~b.whole
        /\ \/ b.status = "keep" /\ b.edits = {}
           \/ b.status = BodyStatus /\ b.draft = Draft /\ Edits /\ cmd.verb = "update" /\ b.edits \subseteq {edit}
              /\ step \in {"only", "requested"}
    <3>1. cmd.verb \in {"update", "repair", "restate"} /\ step \notin {"first", "second"}
      BY <1>1, <1>2, Verbs DEF Untold, Placed
    <3>2. CASE step \in {"carriers", "restate"}
      BY <1>1, <3>2 DEF SentIs, Says
    <3>3. CASE step \in {"only", "requested"} /\ cmd.verb = "restate"
      BY <1>1, <3>3 DEF SentIs, Says
    <3>4. CASE step \in {"only", "requested"} /\ cmd.verb = "update"
      BY <1>1, <1>2, <3>4 DEF SentIs, Says, Edits, Untold
    <3> QED BY <1>1, <3>1, <3>2, <3>3, <3>4 DEF Placed
  <2>2. CASE SavesDraft(b)
    BY <1>1, <1>3, <1>5, <2>2, ExecutedIs DEF Within
  <2>3. CASE ~SavesDraft(b)
    <3>1. /\ stored' = Merge(newest, b) /\ newest' = Merge(newest, b)
      BY <1>1, <1>5, <2>3, ExecutedIs
    <3>2. /\ Merge(newest, b).edits = newest.edits \cup b.edits
          /\ Merge(newest, b).status = IF b.status = "keep" THEN newest.status ELSE b.status
      BY <2>1 DEF Merge
    <3>3. CASE newest.status = "published"
      <4>1. newest.edits \subseteq before.stored.edits \cup {edit} /\ b.edits \subseteq {edit}
        BY <1>3, <2>1, <3>3 DEF Within
      <4> QED BY <1>1, <3>1, <3>2, <4>1 DEF Within
    <3>4. CASE newest.status = "draft" /\ Merge(newest, b).status = "published"
      <4>1. BodyStatus = "published" /\ cmd.verb = "update" /\ step \in {"only", "requested"} /\ b.draft = Draft
        BY <2>1, <3>2, <3>4
      <4>2. newest = before.newest
        BY <1>1, <1>2, <4>1, RowsAsBefore DEF Base, Unsent, Untold
      <4>3. NeedsPubCheck
        BY <1>1, <4>1, Verbs DEF NeedsPubCheck, BodyStatus, Draft
      <4>4. seen.newest = None \/ "publishes_pending_draft" \in warned
        BY <1>1, <1>2, <3>4, <4>2, <4>3 DEF Base, Judged, Untold, Late
      <4> QED BY <1>2, <4>4 DEF Untold
    <3>5. newest.status \in Statuses
      BY <1>1 DEF TypeOK, Row
    <3> QED BY <3>1, <3>3, <3>4, <3>5 DEF Within, Statuses
  <2> QED BY <2>2, <2>3
<1> QED BY <1>4, <1>5, ExecutesFrame DEF Base

LEMMA DraftsNext == ASSUME Base, DraftsInv, [Next]_vars PROVE DraftsInv'
<1> SUFFICES ASSUME Untold' PROVE (Within(stored) /\ Within(newest))'
  BY DEF DraftsInv
<1>0. Typed /\ TypeOK /\ cmd' # None /\ ~raced' /\ before'.stored.status = "published" /\ seen'.newest # None
  BY DEF Untold, Base, Typed
<1>1. CASE Others
  BY <1>0, <1>1, OthersFrame
<1>2. ASSUME NEW c \in Commands, Starts(c) PROVE FALSE
  BY <1>2, StartsFrame DEF Untold, Late
<1>3. CASE Executes
  BY <1>3, DraftsExecutes
<1>4. ASSUME ~Others, ~Executes, Going, cmd # None, pc \in {"judge", "read", "readMore"}, UNCHANGED edit
      PROVE  (Within(stored) /\ Within(newest))'
  <2>1. UNCHANGED <<stored, newest, before, raced>>
    BY <1>4, RowsFrame DEF Going
  <2>2. stored = before.stored /\ newest = before.newest
    BY <1>0, <1>4, <2>1, RowsAsBefore DEF Base, Unsent, Early
  <2> QED BY <2>1, <2>2, WithinBefore DEF Base, Within
<1>5. ASSUME ~Others, ~Executes, Going, Untold, UNCHANGED edit
      PROVE  (Within(stored) /\ Within(newest))'
  BY <1>5, RowsFrame DEF Going, DraftsInv, Within
<1>6. CASE pc' = "idle" /\ ~Others
  <2>1. CASE UNCHANGED vars
    <3>1. UNCHANGED <<stored, newest, edit, cmd, pc, told, seen, warned, before, raced>>
      BY <2>1 DEF vars, row, guard, report, history
    <3>2. Untold
      BY <3>1 DEF Untold
    <3> QED BY <3>1, <3>2 DEF DraftsInv, Within
  <2>2. CASE /\ pc # "idle" /\ Going /\ UNCHANGED <<stored, newest, edit, seen, wrote>>
             /\ Stops \/ Cannot \/ Nothing \/ Answers \/ Leaves \/ told' = "killed" \/ Fallen(TRUE) \/ Fallen(FALSE)
    <3>1. told' = "ok" /\ (Nothing \/ Answers) /\ ~Executes
      BY <1>6, <2>2, ExecutesFrame, <1>0 DEF Untold, Stops, Cannot, Leaves, Fallen, Late
    <3>2. CASE Nothing
      BY <1>0, <1>4, <1>6, <2>2, <3>1, <3>2 DEF Nothing, Going
    <3>3. CASE Answers
      <4>1. Untold
        BY <1>6, <2>2, <3>3 DEF Untold, Answers, Applied, Late, Going
      <4> QED BY <1>5, <1>6, <2>2, <3>1, <4>1
    <3> QED BY <3>1, <3>2, <3>3
  <2> QED BY <1>0, <1>2, <1>6, <2>1, <2>2, Ending
<1>7. CASE pc' \in Late /\ ~Others /\ ~Executes
  <2>1. CASE Judges
    <3>1. pc = "judge" /\ Going /\ UNCHANGED edit
      BY <2>1 DEF Judges, Going, row, history
    <3> QED BY <1>0, <1>4, <1>7, <3>1 DEF Going
  <2>2. CASE GuardReadFails
    <3>1. /\ pc \in {"read", "readMore"} /\ NeedsPubCheck /\ ~cmd.reset
          /\ UNCHANGED <<cmd, seen, raced>>
      BY <2>2 DEF GuardReadFails, guard, history
    <3>2. ~Resets
      BY <3>1 DEF NeedsPubCheck, Resets
    <3> QED BY <1>0, <3>1, <3>2 DEF Base, SeenTrue
  <2>3. CASE /\ pc \in Late /\ UNCHANGED <<cmd, seen, version, rec, plan, before, raced>>
             /\ \A w \in warned : w \in warned'
    <3>1. Untold /\ Going
      BY <2>3 DEF Untold, Going
    <3>2. CASE UNCHANGED edit
      BY <1>5, <1>7, <3>1, <3>2
    <3>3. CASE ~UNCHANGED edit
      <4>1. Sends
        <5>1. ASSUME Reads \/ ReadsMore \/ Saves \/ SavesMore \/ Succeeds \/ Aborts PROVE UNCHANGED edit
          BY <5>1 DEF Reads, ReadsMore, Saves, SavesMore, Succeeds, Aborts, row
        <5>2. ASSUME PreFails \/ GivesUp \/ Crashes \/ UNCHANGED vars PROVE UNCHANGED edit
          BY <5>2 DEF PreFails, GivesUp, Crashes, vars, row
        <5>3. ASSUME Judges \/ GuardReadFails PROVE UNCHANGED edit
          BY <5>3 DEF Judges, GuardReadFails, row
        <5>4. ASSUME NEW final \in BOOLEAN, Fails(final) PROVE UNCHANGED edit
          BY <5>4 DEF Fails, row
        <5> QED
          BY <1>2, <1>7, <3>3, <5>1, <5>2, <5>3, <5>4 DEF Next, Step, Done, Rejected, Lost
      <4>2. step \in {"only", "requested"} /\ pc = "send" /\ UNCHANGED <<stored, newest>>
        BY <1>0, <3>3, <4>1 DEF Sends, Typed
      <4>3. stored = before.stored /\ newest = before.newest
        BY <3>1, <4>2, RowsAsBefore DEF Base, Unsent, Applied, Untold
      <4> QED BY <2>3, <4>2, <4>3, WithinBefore DEF Base, Within
    <3> QED BY <3>2, <3>3
  <2> QED BY <1>7, <2>1, <2>2, <2>3, LateFrame
<1> QED BY <1>1, <1>3, <1>6, <1>7 DEF Untold

-----------------------------------------------------------------------------
(* What a backup brings back.                                               *)

LEMMA FilesFrame ==
  ASSUME [Next]_vars
  PROVE  Others \/ (\E c \in Commands : Starts(c)) \/ Saves \/ SavesMore
         \/ (Going /\ UNCHANGED <<copy, file>> /\ (pc' = "saveMore" => pc = "saveMore"))
<1>1. CASE Reads \/ ReadsMore \/ GuardReadFails \/ Judges
  BY <1>1 DEF Reads, ReadsMore, GuardReadFails, Judges, Going, Ends, guard, backup, history
<1>2. CASE Sends \/ Succeeds \/ Executes
  BY <1>2 DEF Sends, Succeeds, Proceeds, Ends, Executes, Going, guard, backup, history
<1>3. CASE Aborts \/ PreFails \/ GivesUp \/ Crashes
  BY <1>3 DEF Aborts, PreFails, GivesUp, Crashes, LeavesCarriers, Ends, Going, guard, backup, history
<1>4. ASSUME NEW final \in BOOLEAN, Fails(final) PROVE Going /\ UNCHANGED <<copy, file>> /\ pc' # "saveMore"
  BY <1>4 DEF Fails, Proceeds, LeavesCarriers, Ends, Going, guard, backup
<1>5. CASE UNCHANGED vars
  BY <1>5 DEF vars, Going, guard, backup, history
<1> QED BY <1>1, <1>2, <1>3, <1>4, <1>5 DEF Next, Step, Done, Rejected, Lost

LEMMA FilesNext == ASSUME Base, FilesInv, [Next]_vars PROVE FilesInv'
<1>0. Typed /\ TypeOK
  BY DEF Base, Typed
<1>1. CASE Others
  BY <1>1, OthersFrame DEF FilesInv, Exactly
<1>2. ASSUME NEW c \in Commands, Starts(c) PROVE FilesInv'
  <2>1. /\ file' = file /\ pc' # "saveMore" /\ cmd' = c /\ rec' = IF c.verb = "undo" THEN file ELSE None
        /\ c.verb = "undo" => file # None
    BY <1>2, StartsFrame
  <2> QED BY <2>1 DEF FilesInv, Exactly
<1>3. CASE Saves
  <2>1. /\ pc = "save" /\ copy' = [doc |-> newest] /\ Going
        /\ IF newest.status = "draft" THEN pc' = "saveMore" /\ file' = file
           ELSE pc' = "send" /\ file' = [doc |-> copy'.doc, published |-> None, from |-> before, exact |-> ~raced]
    BY <1>3 DEF Saves, File, Going, guard, history
  <2>2. cmd # None /\ newest \in Row
    BY <1>0, <2>1 DEF Typed, TypeOK, Late
  <2>3. ~raced => stored = before.stored /\ newest = before.newest
    BY <2>1, <2>2, RowsAsBefore DEF Base, Unsent, Early
  <2>4. copy'.doc = newest
    BY <2>1
  <2>5. file' # None => Exactly(file')
    <3>1. CASE newest.status = "draft"
      BY <2>1, <3>1 DEF FilesInv
    <3>2. CASE newest.status # "draft"
      <4> DEFINE f == file'
      <4>1. f.doc = newest /\ f.published = None /\ f.from = before /\ f.exact = ~raced
        BY <2>1, <2>4, <3>2
      <4>2. newest.status = "published"
        BY <2>2, <3>2 DEF Row, Statuses
      <4>3. newest = stored
        BY <4>2 DEF Base, LiveIsNewest
      <4> HIDE DEF f
      <4>4. Exactly(f)
        BY <2>3, <4>1, <4>2, <4>3 DEF Exactly
      <4> QED BY <4>4 DEF f
    <3> QED BY <3>1, <3>2
  <2>6. Exactly(file)' <=> Exactly(file')
    BY DEF Exactly
  <2>7. Exactly(rec)' <=> Exactly(rec)
    BY <2>1 DEF Exactly, Going
  <2> QED BY <2>1, <2>3, <2>4, <2>5, <2>6, <2>7 DEF FilesInv, Going
<1>4. CASE SavesMore
  <2>1. /\ pc = "saveMore" /\ pc' = "send" /\ copy' = copy /\ Going
        /\ file' = [doc |-> copy.doc, published |-> IF stored.status = "published" THEN stored ELSE None,
                    from |-> before, exact |-> ~raced]
    BY <1>4 DEF SavesMore, File, Going, guard, history
  <2>2. cmd # None
    BY <1>0, <2>1 DEF Typed, Late
  <2>3. ~raced => stored = before.stored /\ newest = before.newest
    BY <2>1, <2>2, RowsAsBefore DEF Base, Unsent, Early
  <2>4. ~raced => copy.doc = before.newest /\ before.newest.status = "draft"
    BY <2>1 DEF FilesInv
  <2> DEFINE f == file'
  <2>5. f.doc = copy.doc /\ f.from = before /\ f.exact = ~raced
        /\ f.published = IF stored.status = "published" THEN stored ELSE None
    BY <2>1
  <2> HIDE DEF f
  <2>6. Exactly(f)
    BY <2>3, <2>4, <2>5 DEF Exactly
  <2>7. Exactly(file)' <=> Exactly(f)
    BY DEF Exactly, f
  <2>8. Exactly(rec)' <=> Exactly(rec)
    BY <2>1 DEF Exactly, Going
  <2> QED BY <2>1, <2>6, <2>7, <2>8 DEF FilesInv, Going
<1>5. CASE Going /\ UNCHANGED <<copy, file>> /\ (pc' = "saveMore" => pc = "saveMore")
  BY <1>5 DEF FilesInv, Exactly, Going
<1> QED BY <1>1, <1>2, <1>3, <1>4, <1>5, FilesFrame

\* Undoing a plain backup: which of the two ways it goes, and what the backup is then.
LEMMA UndoIs ==
  ASSUME Typed, FilesInv, cmd # None, cmd.verb = "undo", cmd.mode = "plain", rec.exact
  PROVE  /\ rec \in Files /\ rec.doc \in Row /\ rec.from.newest \in Row /\ rec.from.stored \in Row
         /\ rec.doc = rec.from.newest /\ Exactly(rec)
         /\ TwoStep => /\ rec.published \in Row /\ rec.published = rec.from.stored /\ rec.published.status = "published"
                       /\ rec.doc.status = "draft"
         /\ ~TwoStep /\ rec.doc.status = "draft" => rec.from.stored.status # "published"
         /\ rec.doc.status = "published" => rec.doc = rec.from.stored
<1>1. rec \in Files /\ Exactly(rec)
  BY DEF Typed, FilesInv
<1>2. rec.doc \in Row /\ rec.from.newest \in Row /\ rec.from.stored \in Row
  BY <1>1 DEF Files
<1>3. None \notin Row
  OBVIOUS
<1> QED BY <1>1, <1>2, <1>3 DEF Exactly, TwoStep

\* The row a whole body makes is the row it restates, when its status is its own.
LEMMA WholeRow ==
  ASSUME NEW r \in Row, NEW st \in Statuses, r.status = st
  PROVE  [r EXCEPT !.status = st] = r
BY DEF Row

LEMMA UndoExecutes ==
  ASSUME Base, FilesInv, UndoInv, Executes, Applied', ~raced,
         cmd.verb = "undo", cmd.mode = "plain", rec.exact
  PROVE  /\ step \in {"first", "second"} => stored' = rec.published
         /\ step \in {"only", "second"} => newest' = rec.doc
         /\ step = "only" /\ rec.doc.status = "published" => stored' = rec.doc
<1> DEFINE b == flying.body
<1>1. /\ b \in Body /\ SentIs(b) /\ Placed /\ cmd \in Command /\ cmd # None /\ TypeOK /\ Typed /\ pc = "wait" /\ ~Applied
      /\ Executed(b) /\ newest \in Row
  BY ExecutesFrame DEF Base, Sent, Typed, TypeOK, Late
<1>2. /\ rec.doc \in Row
      /\ TwoStep => /\ rec.published \in Row /\ rec.published.status = "published" /\ rec.doc.status = "draft"
  BY <1>1, UndoIs
<1>3. ASSUME NEW r \in Row, NEW st \in Statuses, r.status = st, NEW d \in BOOLEAN, b = Whole(r, st, d)
      PROVE  /\ b.status = st /\ b.draft = d
             /\ Merge(newest, b) = r
  BY <1>1, <1>3, WholeIs, WholeRow DEF Statuses
<1>4. CASE step = "first"
  <2>1. TwoStep /\ b = Whole(rec.published, "published", FALSE)
    BY <1>1, <1>4 DEF SentIs, Placed
  <2>2. b.draft = FALSE /\ Merge(newest, b) = rec.published
    BY <1>2, <1>3, <2>1 DEF Statuses
  <2> QED BY <1>1, <1>4, <2>2, ExecutedIs DEF SavesDraft
<1>5. ASSUME NEW r \in Row, r.status = "draft", b = Whole(r, "draft", TRUE)
      PROVE  stored' = stored /\ newest' = r
  <2>1. b.draft = TRUE /\ b.status = "draft" /\ Merge(newest, b) = r
    BY <1>3, <1>5 DEF Statuses
  <2>2. SavesDraft(b)
    BY <2>1 DEF SavesDraft
  <2>3. stored' = stored /\ newest' = [r EXCEPT !.status = "draft"]
    BY <1>1, <2>1, <2>2, ExecutedIs
  <2> QED BY <1>5, <2>3, WholeRow DEF Statuses
<1>6. CASE step = "second"
  <2>1. TwoStep /\ b = Whole(rec.doc, "draft", TRUE)
    BY <1>1, <1>6 DEF SentIs, Placed
  <2>2. stored = rec.published
    BY <1>1, <1>6 DEF UndoInv, Late
  <2> QED BY <1>2, <1>5, <1>6, <2>1, <2>2
<1>7. CASE step = "only"
  <2>1. ~TwoStep /\ b = Undo
    BY <1>1, <1>7 DEF SentIs, Placed
  <2>2. rec.doc.status \in Statuses
    BY <1>2 DEF Row
  <2>3. CASE rec.doc.status = "draft"
    <3>1. b = Whole(rec.doc, "draft", TRUE)
      BY <2>1, <2>3 DEF Undo
    <3> QED BY <1>2, <1>5, <1>7, <2>3, <3>1
  <2>4. CASE rec.doc.status = "published"
    <3>1. b = Whole(rec.doc, "published", FALSE)
      BY <2>1, <2>4 DEF Undo
    <3>2. b.draft = FALSE /\ Merge(newest, b) = rec.doc
      BY <1>2, <1>3, <2>4, <3>1 DEF Statuses
    <3> QED BY <1>1, <1>7, <3>2, ExecutedIs DEF SavesDraft
  <2> QED BY <2>2, <2>3, <2>4 DEF Statuses
<1> QED BY <1>4, <1>6, <1>7

LEMMA UndoNext == ASSUME Base, FilesInv, UndoInv, [Next]_vars PROVE UndoInv'
<1> SUFFICES ASSUME cmd' # None, cmd'.verb = "undo", cmd'.mode = "plain", rec'.exact, ~raced'
             PROVE  /\ pc' \in Late /\ (step' = "second" \/ (step' = "first" /\ Applied')) => stored' = rec'.published
                    /\ Applied' /\ step' \in {"only", "second"} => newest' = rec'.doc
                    /\ Applied' /\ step' = "only" /\ rec'.doc.status = "published" => stored' = rec'.doc
  BY DEF UndoInv
<1>0. Typed /\ TypeOK
  BY DEF Base, Typed
<1>1. CASE Others
  BY <1>1, OthersFrame
<1>2. ASSUME NEW c \in Commands, Starts(c) PROVE pc' \notin Late /\ ~Applied'
  BY <1>2, StartsFrame DEF Late, Applied
<1>3. CASE Executes
  <2>1. UNCHANGED <<cmd, rec, step, raced, pc>> /\ pc = "wait" /\ ~Applied
    BY <1>3, ExecutesFrame DEF Base
  <2>2. CASE Applied'
    BY <1>3, <2>1, <2>2, UndoExecutes
  <2>3. CASE ~Applied'
    <3>1. UNCHANGED <<stored, newest>>
      BY <1>3, <2>3, ExecutesFrame DEF Base
    <3> QED BY <2>1, <2>3, <3>1 DEF UndoInv
  <2> QED BY <2>2, <2>3
<1>4. CASE Going /\ ~Others /\ ~Executes
  <2>1. UNCHANGED <<stored, newest, cmd, rec, raced>>
    BY <1>4, RowsFrame DEF Going
  <2>2. CASE Judges
    <3>1. /\ pc = "judge" /\ pc' # "wait"
          /\ step' = "second" => SkipsPublished \/ pc' = "idle"
      BY <2>2 DEF Judges, Ends
    <3>2. stored = before.stored /\ seen.stored = before.stored
      BY <2>1, <3>1, RowsAsBefore DEF Base, SeenTrue, Unsent, Early
    <3> QED BY <2>1, <3>1, <3>2 DEF SkipsPublished, Applied, Late
  <2>3. CASE Reads \/ ReadsMore \/ GuardReadFails
    <3>1. pc' \notin Late \/ (step' = "only" /\ ~Applied')
      BY <2>3 DEF Reads, ReadsMore, GuardReadFails, Late, Applied
    <3>2. ~Applied'
      BY <2>3 DEF Reads, ReadsMore, GuardReadFails, Applied
    <3> QED BY <3>1, <3>2
  <2>4. CASE Saves \/ SavesMore \/ Sends
    <3>1. pc \in Late /\ step' = step /\ ~Applied'
      BY <2>4 DEF Saves, SavesMore, Sends, Late, Applied, remedy
    <3> QED BY <2>1, <3>1 DEF UndoInv
  <2>5. CASE Succeeds
    <3>1. Applied /\ pc \in Late /\ Placed /\ cmd \in Command /\ ~Applied'
      BY <1>0, <2>1, <2>5 DEF Succeeds, Proceeds, Ends, Applied, Late, Typed, TypeOK
    <3>2. step \notin {"requested", "carriers", "restate"}
      BY <2>1, <3>1, Verbs DEF Placed
    <3>3. step' = "second" => pc' = "idle" \/ step = "first"
      BY <2>5, <3>2 DEF Succeeds, Proceeds, Ends
    <3>4. step' = "first" => pc' = "idle"
      BY <2>5, <3>2 DEF Succeeds, Proceeds, Ends
    <3> QED BY <2>1, <3>1, <3>3, <3>4 DEF UndoInv, Late
  <2>6. ASSUME NEW final \in BOOLEAN, pc = "wait", Fails(final) PROVE pc' = "idle"
    <3>1. Placed /\ cmd \in Command
      BY <1>0, <2>1, <2>6 DEF Typed, TypeOK, Late
    <3>2. step \notin {"carriers", "restate"}
      BY <2>1, <3>1, Verbs DEF Placed
    <3> QED BY <2>6, <3>2 DEF Fails, Ends, Restates
  <2>7. ASSUME Aborts \/ PreFails \/ GivesUp \/ Crashes PROVE pc' = "idle"
    BY <2>7 DEF Aborts, PreFails, GivesUp, Crashes, LeavesCarriers, Ends
  <2>8. CASE UNCHANGED vars
    BY <2>1, <2>8 DEF vars, remedy, Applied, UndoInv
  <2> QED
    BY <1>2, <1>4, <2>2, <2>3, <2>4, <2>5, <2>6, <2>7, <2>8 DEF Next, Step, Done, Rejected, Lost, Late, Applied
<1> QED BY <1>1, <1>2, <1>3, <1>4, OwnFrame

LEMMA UndoRestoresNext ==
  ASSUME Base, FilesInv, UndoInv, UndoRestores, [Next]_vars
  PROVE  UndoRestores'
<1> SUFFICES ASSUME pc' = "idle", cmd' # None, cmd'.verb = "undo", cmd'.mode = "plain", rec'.exact, ~raced'
             PROVE  /\ told' = "ok" => newest'.edits = rec'.from.newest.edits
                    /\ told' = "ok" /\ rec'.from.stored.status = "published" =>
                         stored' = rec'.from.stored /\ newest' = rec'.from.newest
                    /\ told' = "live" => stored' = rec'.from.stored
  BY DEF UndoRestores
<1>0. Typed /\ TypeOK
  BY DEF Base, Typed
<1>1. CASE Others
  BY <1>1, OthersFrame
<1>2. ASSUME NEW c \in Commands, Starts(c) PROVE told' = "refused"
  BY <1>2, StartsFrame
<1>3. CASE UNCHANGED vars
  BY <1>3 DEF vars, row, guard, report, history, UndoRestores
<1>4. CASE /\ pc # "idle" /\ Going /\ UNCHANGED <<stored, newest, edit, seen, wrote>>
           /\ Stops \/ Cannot \/ Nothing \/ Answers \/ Leaves \/ told' = "killed" \/ Fallen(TRUE) \/ Fallen(FALSE)
  <2>1. UNCHANGED <<stored, newest, cmd, rec, raced>> /\ cmd # None /\ cmd \in Command
    BY <1>0, <1>4 DEF Going, TypeOK
  <2>2. /\ rec.doc \in Row /\ rec.from.newest \in Row /\ rec.from.stored \in Row
        /\ rec.doc = rec.from.newest
        /\ TwoStep => /\ rec.published = rec.from.stored
                      /\ rec.doc.status = "draft"
        /\ ~TwoStep /\ rec.doc.status = "draft" => rec.from.stored.status # "published"
        /\ rec.doc.status = "published" => rec.doc = rec.from.stored
    BY <1>0, <2>1, UndoIs
  <2>3. CASE Answers
    <3>1. Placed /\ Applied /\ pc \in Late /\ told' = "ok"
      BY <1>0, <2>3 DEF Answers, Applied, Typed, Late
    <3>2. step \in {"only", "second"}
      BY <2>1, <2>3, <3>1, Verbs DEF Answers, Placed
    <3>3. newest = rec.doc
      BY <2>1, <3>1, <3>2 DEF UndoInv
    <3>4. ASSUME rec.from.stored.status = "published" PROVE stored = rec.from.stored
      <4>1. CASE step = "second"
        BY <2>1, <2>2, <3>1, <4>1 DEF UndoInv, Placed
      <4>2. CASE step = "only"
        <5>1. ~TwoStep /\ rec.doc.status = "published"
          BY <2>2, <3>1, <3>4, <4>2 DEF Placed, Row, Statuses
        <5> QED BY <2>1, <2>2, <3>1, <4>2, <5>1 DEF UndoInv
      <4> QED BY <3>2, <4>1, <4>2
    <3> QED BY <2>1, <2>2, <3>1, <3>3, <3>4
  <2>4. ASSUME NEW final \in BOOLEAN, Fallen(final), told' = "live" PROVE stored = rec.from.stored
    <3>1. step = "second" /\ pc \in Late /\ TwoStep
      BY <1>0, <2>4 DEF Fallen, Typed, Late, Placed
    <3> QED BY <2>1, <2>2, <3>1 DEF UndoInv
  <2>5. Nothing => FALSE
    BY <2>1 DEF Nothing
  <2>6. Stops \/ Cannot \/ Leaves \/ told' = "killed" => told' \notin {"ok", "live"}
    BY DEF Stops, Cannot, Leaves
  <2>7. CASE Fallen(TRUE) \/ Fallen(FALSE)
    <3>1. told' # "ok"
      BY <2>7 DEF Fallen
    <3>2. told' = "live" => stored = rec.from.stored
      BY <2>4, <2>7
    <3> QED BY <2>1, <3>1, <3>2
  <2> QED BY <1>4, <2>3, <2>5, <2>6, <2>7
<1> QED BY <1>1, <1>2, <1>3, <1>4, <1>0, Ending

-----------------------------------------------------------------------------
(* The invariant.                                                           *)

LEMMA IInvInit == Init => IInv
<1> SUFFICES ASSUME Init PROVE IInv
  OBVIOUS
<1>1. cmd = None /\ pc = "idle" /\ file = None /\ told = None
  BY DEF Init
<1>2. DraftsInv /\ CarriersInv /\ FilesInv /\ UndoInv
  BY <1>1 DEF DraftsInv, Untold, CarriersInv, FilesInv, UndoInv
<1>3. CarriersTold /\ StopsClean /\ UndoRestores
  BY <1>1 DEF CarriersTold, StopsClean, UndoRestores
<1> QED BY <1>2, <1>3, BaseInit DEF IInv

LEMMA IInvNext == IInv /\ [Next]_vars => IInv'
<1> SUFFICES ASSUME IInv, [Next]_vars PROVE IInv'
  OBVIOUS
<1>1. Base' /\ DraftsInv' /\ FilesInv' /\ UndoInv' /\ UndoRestores'
  BY BaseNext, DraftsNext, FilesNext, UndoNext, UndoRestoresNext DEF IInv
<1>2. CarriersInv' /\ CarriersTold' /\ StopsClean'
  BY CarriersNext, CarriersToldNext, StopsCleanNext DEF IInv, Base
<1> QED BY <1>1, <1>2 DEF IInv

\* What a command says of its end is so, whatever commands run, fail and are killed, and
\* whatever others do: a draft that went live untold, carriers left behind, a write of a
\* command that stopped, a backup that brings back something else are all excluded.
THEOREM TellsTheTruth == Spec => []ToldTruly
<1>1. IInv => ToldTruly
  <2> SUFFICES ASSUME IInv PROVE DraftsGoLiveTold
    BY DEF IInv, ToldTruly, Base, Typed
  <2>1. told = "ok" => cmd # None
    BY DEF IInv, Base, Typed
  <2> QED BY <2>1 DEF IInv, DraftsInv, Untold, Within, DraftsGoLiveTold
<1> QED BY IInvInit, IInvNext, <1>1, PTL DEF Spec
=============================================================================
