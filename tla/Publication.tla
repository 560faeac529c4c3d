---------------------------- MODULE Publication ----------------------------
(***************************************************************************)
(* One document with drafts and the commands that write it by id           *)
(* (internal/cli runUpdateOne, runPublish, versions restore,               *)
(* restoreDocBackup, reset_nested.go, pubguard.go, backup.go): read the     *)
(* publication state, judge, back up, write the audit record, send, and for *)
(* --reset-nested and a two-step restore, send again.  Other editors save   *)
(* drafts, publish and unpublish meanwhile.                                *)
(*                                                                         *)
(* External, as pubguard.go and reset_nested.go describe the server: a      *)
(* PATCH without ?draft is merged into the NEWEST version and stored as the *)
(* live row, status included; with ?draft it only adds a version.  A        *)
(* request whose answer was lost was executed by then or never is.          *)
(***************************************************************************)
EXTENDS Integers, FiniteSets

CONSTANTS
  Commands,     \* the commands the user may run
  MaxCommands,  \* bound: commands
  MaxEdits,     \* bound: edits by others
  MaxPhases,    \* orphans.MaxPhases: carrier phases of one remedy
  Retries,      \* resetRestateBackoff: retries of the restatement
  None          \* no value

\* The modes of an update: no flag, --draft, --publish, --unpublish, and no flag with a
\* body that carries _status "draft" or "published" (an export does).
Modes == {"plain", "draft", "publish", "unpublish", "draftBody", "publishedBody"}
Command ==
  [verb : {"update"}, mode : Modes, reset : BOOLEAN]
    \cup [verb : {"publish", "unpublish"}, mode : {"plain"}, reset : BOOLEAN]
    \cup [verb : {"repair", "restate"}, mode : {"plain"}, reset : {FALSE}]
    \cup [verb : {"restore"}, mode : {"plain", "draft", "unpublish"}, reset : {FALSE}]
    \cup [verb : {"undo"}, mode : {"plain", "draft", "publish"}, reset : {FALSE}]

ASSUME BoundsAssumption ==
  MaxCommands \in Nat /\ MaxEdits \in Nat /\ MaxPhases \in Nat \ {0} /\ Retries \in Nat
ASSUME CommandsAssumption == Commands \subseteq Command

VARIABLES
  stored,    \* external: the live row
  newest,    \* external: the newest version
  versions,  \* external: the versions, for versions restore
  edit,      \* how many edits there were; an edit is its number
  edits,     \* edits by others
  flying,    \* external: the request under way
  cmd,       \* the command
  ran,       \* commands so far
  pc,        \* where it is
  seen,      \* what the guard read
  version,   \* the version to restore
  rec,       \* the backup to restore
  plan,      \* carrier phases to send
  step,      \* the request it is at
  phase,     \* the carrier phase
  carriers,  \* carriers may be stored
  copy,      \* the backup being read
  file,      \* the last backup file
  kept,      \* the restatement file: none, saved, or it could not be
  told,      \* how the command ended
  warned,    \* warnings
  before,    \* history: the document when the command started
  raced,     \* history: others changed it since
  wrote      \* history: the server executed a request of the command

row     == <<stored, newest, versions, edit>>
guard   == <<seen, version, rec, plan>>
remedy  == <<step, phase, carriers>>
backup  == <<copy, file>>
report  == <<kept, told, warned>>
history == <<before, raced, wrote>>
vars    == <<row, edits, flying, cmd, ran, pc, guard, remedy, backup, report, history>>

-----------------------------------------------------------------------------
Statuses == {"draft", "published"}
Row == [status : Statuses, edits : SUBSET Nat, carriers : BOOLEAN]

\* No value is none of the values, of the commands and of the answers.
ASSUME NoneAssumption == None \notin Row \cup Command \cup {"ok", "rejected", "saved", "unsaved"}

\* A body: whole restates every field, lists says what it makes of the carrier lists.
\* checked is FALSE with unpublishAllLocales.
Body == [status : Statuses \cup {"keep"}, whole : BOOLEAN, edits : SUBSET Nat,
         lists : {"keep", "clean", "carriers"}, draft : BOOLEAN, checked : BOOLEAN, asked : BOOLEAN]

\* The server's merge of a body into a row.
Merge(base, b) ==
  [status |-> IF b.status = "keep" THEN base.status ELSE b.status,
   edits |-> IF b.whole THEN b.edits ELSE base.edits \cup b.edits,
   carriers |-> IF b.lists = "keep" THEN base.carriers ELSE b.lists = "carriers"]

SavesDraft(b) == b.draft /\ b.status # "published"

\* Carriers are not valid content; only a draft save and an unvalidated write may hold them.
Accepts(b) == b.checked /\ ~SavesDraft(b) => ~Merge(newest, b).carriers

\* The server executes a body.
Executed(b) ==
  LET result == Merge(newest, b)
  IN  IF SavesDraft(b)
        THEN newest' = [result EXCEPT !.status = "draft"] /\ UNCHANGED stored
        ELSE newest' = result /\ stored' = result

-----------------------------------------------------------------------------
Init ==
  /\ \E live \in Statuses, pending \in BOOLEAN :
       /\ stored = [status |-> live, edits |-> {1}, carriers |-> FALSE]
       /\ newest = IF pending THEN [status |-> "draft", edits |-> {1, 2}, carriers |-> FALSE] ELSE stored
  /\ versions = {stored, newest} /\ edit = 2 /\ edits = 0
  /\ flying = None
  /\ cmd = None /\ ran = 0 /\ pc = "idle"
  /\ seen = [stored |-> None, newest |-> None] /\ version = None /\ rec = None /\ plan = 0
  /\ step = None /\ phase = 0 /\ carriers = FALSE
  /\ copy = None /\ file = None /\ kept = None /\ told = None /\ warned = {}
  /\ before = None /\ raced = FALSE /\ wrote = FALSE

\* Another editor saves a draft, publishes or unpublishes; the admin panel validates too.
Others ==
  /\ edits < MaxEdits /\ edits' = edits + 1 /\ edit' = edit + 1
  /\ \E b \in [status : {"keep", "draft", "published"}, whole : {FALSE}, edits : {{edit + 1}}, lists : {"keep"},
               draft : BOOLEAN, checked : {TRUE}, asked : {TRUE}] :
       /\ b.draft => b.status = "keep"
       /\ Accepts(b) /\ Executed(b)
  /\ versions' = versions \cup {newest'}
  /\ raced' = TRUE
  /\ UNCHANGED <<flying, cmd, ran, pc, guard, remedy, backup, report, before, wrote>>

-----------------------------------------------------------------------------
Draft == cmd.mode = "draft"

\* A plain draft save has nothing to reset.
Resets == cmd.verb = "repair" \/ (cmd.reset /\ ~Draft)

BodyStatus ==
  CASE cmd.verb = "publish"                              -> "published"
    [] cmd.verb = "unpublish"                            -> "draft"
    [] cmd.mode \in {"publish", "publishedBody"}         -> "published"
    [] cmd.mode \in {"unpublish", "draftBody"}           -> "draft"
    [] OTHER                                             -> "keep"

\* needsPubCheck, for the commands that call checkPublication.
NeedsPubCheck == cmd.verb \in {"update", "restate"} /\ ~Draft /\ cmd.mode # "unpublish"

\* checkVersionRestore: what it reads the publication state for.
NeedsRestoreCheck == cmd.verb = "restore" /\ cmd.mode = "plain" /\ version.status = "draft"

\* A command starts.  Versions restore names a version, backups restore a file; the
\* command of resetCarriersLeft's hint sends the restatement file.
Starts(c) ==
  /\ pc = "idle" /\ ran < MaxCommands
  /\ c.verb = "undo" => file # None
  /\ c.verb = "restate" => kept = "saved"
  /\ cmd' = c /\ ran' = ran + 1
  /\ \E v \in (IF c.verb = "restore" THEN versions ELSE {None}) :
       /\ version' = v
       /\ IF c.verb = "restore" /\ c.mode = "unpublish" /\ v.status = "published"
            THEN pc' = "idle" /\ told' = "refused"
            ELSE /\ pc' = IF Resets' \/ NeedsPubCheck' \/ NeedsRestoreCheck' \/ c.verb = "undo" THEN "read" ELSE "judge"
                 /\ told' = None
  /\ rec' = IF c.verb = "undo" THEN file ELSE None
  /\ seen' = [stored |-> None, newest |-> None] /\ plan' = 0
  /\ step' = None /\ phase' = 0 /\ carriers' = FALSE /\ copy' = None /\ warned' = {}
  /\ before' = [stored |-> stored, newest |-> newest] /\ raced' = FALSE /\ wrote' = FALSE
  /\ UNCHANGED <<row, edits, flying, file, kept>>

\* The first read: loadPreimage reads the newest version first, readPubState and
\* restoreDocBackup the live row.  The newest version matters only of a published document.
Reads ==
  /\ pc = "read"
  /\ IF Resets
       THEN seen' = [seen EXCEPT !.newest = newest] /\ pc' = "readMore"
       ELSE /\ seen' = [seen EXCEPT !.stored = stored]
            /\ pc' = IF stored.status = "published" /\ cmd.verb # "undo" THEN "readMore" ELSE "judge"
  /\ UNCHANGED <<row, edits, flying, cmd, ran, version, rec, plan, remedy, backup, report, history>>

ReadsMore ==
  /\ pc = "readMore" /\ pc' = "judge"
  /\ seen' = IF Resets THEN [seen EXCEPT !.stored = stored] ELSE [seen EXCEPT !.newest = newest]
  /\ UNCHANGED <<row, edits, flying, cmd, ran, version, rec, plan, remedy, backup, report, history>>

Ends(how) == pc' = "idle" /\ told' = how

\* A read fails, the user says no, a backup or an audit record cannot be written: the
\* command ends before it sent anything.  A failed guard read does not stop a write
\* that publishes.
Aborts ==
  /\ pc \in {"read", "readMore", "judge", "save", "saveMore"}
  /\ Ends("aborted")
  /\ UNCHANGED <<row, edits, flying, cmd, ran, guard, remedy, backup, kept, warned, history>>

GuardReadFails ==
  /\ pc \in {"read", "readMore"} /\ NeedsPubCheck /\ ~cmd.reset /\ BodyStatus = "published"
  /\ pc' = "save" /\ step' = "only"
  /\ UNCHANGED <<row, edits, flying, cmd, ran, guard, phase, carriers, backup, report, history>>

PendingDraft == seen.stored.status = "published" /\ seen.newest.status = "draft"

\* Mutant: the pending draft is not considered.
RefusesByBody == NeedsPubCheck /\ seen.stored.status = "published" /\ BodyStatus = "draft"

\* publicationVerdict.
Refuses ==
  /\ NeedsPubCheck /\ seen.stored.status = "published"
  /\ BodyStatus = "draft" \/ (BodyStatus = "keep" /\ PendingDraft)

\* refusePendingDraft: a repair would publish what the newest version adds.
RefusesRepair ==
  /\ cmd.verb = "repair" /\ seen.stored.status = "published"
  /\ seen.newest.status # seen.stored.status \/ seen.newest.edits # seen.stored.edits

RefusesRestore == NeedsRestoreCheck /\ seen.stored.status = "published"

\* Restoring a backup that holds a published state too takes two steps; the first is
\* skipped when the live row already is that state.
TwoStep == cmd.verb = "undo" /\ cmd.mode = "plain" /\ rec.published # None
SkipsPublished == seen.stored = rec.published

\* Mutant: --publish says enough.
WarningsUnlessFlagged == IF NeedsPubCheck /\ PendingDraft /\ cmd.mode # "publish" THEN {"publishes_pending_draft"} ELSE {}

Warnings == IF NeedsPubCheck /\ PendingDraft THEN {"publishes_pending_draft"} ELSE {}

\* The verdict, and what planReset finds to do: none of it is a plain write.
Judges ==
  /\ pc = "judge"
  /\ IF Refuses \/ RefusesRepair \/ RefusesRestore THEN Ends("refused") /\ UNCHANGED <<plan, step, phase, warned>>
     ELSE \E n \in (IF Resets THEN 0 .. MaxPhases ELSE {0}) :
       /\ plan' = n
       /\ IF cmd.verb = "repair" /\ n = 0 THEN Ends("ok") /\ UNCHANGED <<step, phase, warned>>
          ELSE /\ pc' = "save" /\ UNCHANGED told
               /\ step' = CASE TwoStep                -> IF SkipsPublished THEN "second" ELSE "first"
                            [] cmd.verb = "repair"    -> "carriers"
                            [] n > 0 /\ cmd.verb # "repair" -> "requested"
                            [] OTHER                  -> "only"
               /\ phase' = IF step' = "carriers" THEN 1 ELSE 0
               /\ warned' = Warnings
  /\ UNCHANGED <<row, edits, flying, cmd, ran, seen, version, rec, carriers, backup, kept, history>>

-----------------------------------------------------------------------------
File(published) == [doc |-> copy'.doc, published |-> published, from |-> before, exact |-> ~raced]

\* Mutant: a backup is the newest version and nothing else.
SavesNewestOnly ==
  /\ pc = "save"
  /\ copy' = [doc |-> newest] /\ pc' = "send" /\ file' = File(None)
  /\ UNCHANGED <<row, edits, flying, cmd, ran, guard, remedy, report, history>>

\* The backup of the first request: the newest version, and of a draft the live row.
Saves ==
  /\ pc = "save"
  /\ copy' = [doc |-> newest]
  /\ IF newest.status = "draft" THEN pc' = "saveMore" /\ UNCHANGED file
     ELSE pc' = "send" /\ file' = File(None)
  /\ UNCHANGED <<row, edits, flying, cmd, ran, guard, remedy, report, history>>

SavesMore ==
  /\ pc = "saveMore" /\ pc' = "send"
  /\ UNCHANGED copy /\ file' = File(IF stored.status = "published" THEN stored ELSE None)
  /\ UNCHANGED <<row, edits, flying, cmd, ran, guard, remedy, report, history>>

Empty == [status |-> "keep", whole |-> FALSE, edits |-> {}, lists |-> "keep",
          draft |-> FALSE, checked |-> TRUE, asked |-> FALSE]

\* The body that restates a row.
Whole(r, status, draft) ==
  [Empty EXCEPT !.whole = TRUE, !.edits = r.edits, !.lists = IF r.carriers THEN "carriers" ELSE "clean",
                !.status = status, !.draft = draft]

\* restoreDraftMode, for the document of a backup.
Undo ==
  CASE cmd.mode = "draft" \/ TwoStep                              -> Whole(rec.doc, "draft", TRUE)
    [] cmd.mode = "publish"                                        -> Whole(rec.doc, "published", FALSE)
    [] cmd.mode = "plain" /\ ~TwoStep /\ rec.doc.status = "draft"  -> Whole(rec.doc, "draft", TRUE)
    [] OTHER                                                       -> Whole(rec.doc, rec.doc.status, FALSE)

\* The request of the step the command is at.
Request ==
  CASE step = "carriers"      -> [Empty EXCEPT !.lists = "carriers", !.checked = FALSE]
    [] step = "restate"       -> [Empty EXCEPT !.lists = "clean", !.checked = FALSE]
    [] step = "first"         -> Whole(rec.published, "published", FALSE)
    [] cmd.verb = "restate"   -> [Empty EXCEPT !.lists = "clean"]
    [] cmd.verb = "undo" /\ step # "first" -> Undo
    [] cmd.verb = "restore"   -> [Whole(version, IF Draft THEN "draft" ELSE version.status, Draft)
                                    EXCEPT !.asked = cmd.mode = "unpublish"]
    [] OTHER -> [Empty EXCEPT !.status = BodyStatus, !.draft = Draft,
                              !.edits = IF cmd.verb = "update" THEN {edit + 1} ELSE {},
                              !.asked = cmd.verb = "unpublish" \/ cmd.mode = "unpublish"]

\* The audit pre-record is written and the request sent; a retry has no record of its own.
Sends ==
  /\ pc \in {"send", "resend"} /\ pc' = "wait"
  /\ flying' = [body |-> Request, reply |-> None]
  /\ edit' = IF cmd.verb = "update" /\ step \in {"only", "requested"} THEN edit + 1 ELSE edit
  /\ UNCHANGED <<stored, newest, versions, edits, cmd, ran, guard, remedy, backup, report, history>>

\* resetCarriersLeft: the restatement goes to a file, if one can be written.
LeavesCarriers == Ends("carriers") /\ kept' \in {"saved", "unsaved"}

\* The audit pre-record cannot be written.
PreFails ==
  /\ pc = "send"
  /\ IF carriers THEN LeavesCarriers
     ELSE Ends(IF step = "carriers" /\ cmd.verb # "repair" THEN "stored" ELSE "aborted") /\ UNCHANGED kept
  /\ UNCHANGED <<row, edits, flying, cmd, ran, guard, remedy, backup, warned, history>>

\* The server executes the request or rejects it.  An update in place (unpublishAllLocales)
\* adds no version.
Executes ==
  /\ pc = "wait" /\ flying.reply = None
  /\ \/ /\ Accepts(flying.body) /\ Executed(flying.body)
        /\ versions' = IF flying.body.checked THEN versions \cup {newest'} ELSE versions
        /\ flying' = [flying EXCEPT !.reply = "ok"] /\ wrote' = TRUE
     \/ flying' = [flying EXCEPT !.reply = "rejected"] /\ UNCHANGED <<stored, newest, versions, wrote>>
  /\ UNCHANGED <<edit, edits, cmd, ran, pc, guard, remedy, backup, report, before, raced>>

Proceeds(s, n) == pc' = "send" /\ step' = s /\ phase' = n /\ UNCHANGED told

\* The answer to a request that was executed.
Succeeds ==
  /\ pc = "wait" /\ flying.reply = "ok" /\ flying' = None
  /\ CASE step = "first"     -> Proceeds("second", 1) /\ UNCHANGED carriers
       [] step = "requested" -> Proceeds("carriers", 1) /\ UNCHANGED carriers
       [] step = "carriers"  -> /\ (IF phase < plan THEN Proceeds("carriers", phase + 1) ELSE Proceeds("restate", 0))
                                /\ carriers' = TRUE
       [] OTHER              -> Ends("ok") /\ UNCHANGED <<step, phase, carriers>>
  /\ UNCHANGED <<row, edits, cmd, ran, guard, backup, kept, warned, history>>

ExhaustedNever(final) == final
AttemptUncounted == phase

\* After a carrier phase failed the lists are restated, unless nothing of a repair was written.
Restates(final) == step = "carriers" /\ ~(final /\ phase = 1 /\ cmd.verb = "repair")
Exhausted(final) == final \/ phase = Retries
Attempt == phase + 1

\* A request fails: rejected (final), or its answer is lost (retriable).
Fails(final) ==
  /\ flying' = None
  /\ CASE Restates(final) ->
            Proceeds("restate", 0) /\ carriers' = TRUE /\ warned' = warned \cup {"incomplete"} /\ UNCHANGED kept
       [] step = "restate" /\ ~Exhausted(final) ->
            /\ pc' = "resend" /\ phase' = Attempt /\ UNCHANGED <<step, carriers, kept, told, warned>>
       [] step = "restate" /\ Exhausted(final) ->
            LeavesCarriers /\ UNCHANGED <<step, phase, carriers, warned>>
       [] OTHER ->
            /\ Ends(IF step = "second" /\ phase = 1 THEN "live" ELSE "failed")
            /\ UNCHANGED <<step, phase, carriers, kept, warned>>
  /\ UNCHANGED <<row, edits, cmd, ran, guard, backup, before, raced, wrote>>

Rejected == pc = "wait" /\ flying.reply = "rejected" /\ Fails(TRUE)

Lost == pc = "wait" /\ Fails(FALSE)

\* The context ends while the restatement waits for its next attempt.
GivesUp ==
  /\ pc = "resend" /\ LeavesCarriers
  /\ UNCHANGED <<row, edits, flying, cmd, ran, guard, remedy, backup, warned, history>>

\* The process is killed.
Crashes ==
  /\ pc # "idle" /\ Ends("killed") /\ flying' = None
  /\ UNCHANGED <<row, edits, cmd, ran, guard, remedy, backup, kept, warned, before, raced, wrote>>

Step ==
  \/ Reads \/ ReadsMore \/ GuardReadFails \/ Judges \/ Saves \/ SavesMore
  \/ Sends \/ Succeeds \/ Rejected \/ Lost

Done == pc = "idle" /\ ran = MaxCommands /\ UNCHANGED vars

Next ==
  \/ Step \/ Done \/ Aborts \/ PreFails \/ GivesUp \/ Crashes
  \/ Executes \/ Others
  \/ \E c \in Commands : Starts(c)

Spec == Init /\ [][Next]_vars

\* A command runs; what it waits for ends, at the latest with its timeout.
FairSpec == Spec /\ WF_vars(Step)

-----------------------------------------------------------------------------
(* Properties.                                                              *)

Files == [doc : Row, published : Row \cup {None}, from : [stored : Row, newest : Row], exact : BOOLEAN]

\* The types of the variables.
TypeOK ==
  /\ stored \in Row /\ newest \in Row /\ versions \subseteq Row /\ edit \in Nat /\ edits \in 0 .. MaxEdits
  /\ flying \in [body : Body, reply : {None, "ok", "rejected"}] \cup {None}
  /\ cmd \in Commands \cup {None} /\ ran \in 0 .. MaxCommands
  /\ pc \in {"idle", "read", "readMore", "judge", "save", "saveMore", "send", "resend", "wait"}
  /\ seen \in [stored : Row \cup {None}, newest : Row \cup {None}]
  /\ version \in Row \cup {None} /\ rec \in Files \cup {None} /\ plan \in 0 .. MaxPhases
  /\ step \in {None, "only", "requested", "carriers", "restate", "first", "second"}
  /\ phase \in Nat /\ phase <= MaxPhases + Retries /\ carriers \in BOOLEAN
  /\ copy \in [doc : Row] \cup {None} /\ file \in Files \cup {None}
  /\ kept \in {None, "saved", "unsaved"}
  /\ told \in {None, "ok", "refused", "aborted", "failed", "stored", "live", "carriers", "killed"}
  /\ warned \subseteq {"publishes_pending_draft", "incomplete"}
  /\ before \in [stored : Row, newest : Row] \cup {None}
  /\ raced \in BOOLEAN /\ wrote \in BOOLEAN

\* "A non-draft write never unpublishes by accident": no request of a command takes a
\* published document offline unless the command asked for it, or somebody else changed
\* the document since the command started.
NeverOffline ==
  [][stored.status = "published" /\ stored'.status = "draft" => raced' \/ flying.body.asked]_vars

\* An update of a published document never publishes what somebody drafted without
\* saying so, unless the guard could not read the newest version.
DraftsGoLiveTold ==
  /\ pc = "idle" /\ told = "ok" /\ ~raced /\ cmd.verb \in {"update", "repair", "restate"}
  /\ before.stored.status = "published" /\ stored.status = "published" /\ seen.newest # None
  => stored.edits \subseteq before.stored.edits \cup {edit} \/ "publishes_pending_draft" \in warned

\* backups restore brings the document back to what it was before the command that made
\* the backup: the draft, and the published state under it; when only its second step
\* fails it says truly that the document is live again.
UndoRestores ==
  pc = "idle" /\ cmd # None /\ cmd.verb = "undo" /\ cmd.mode = "plain" /\ rec.exact /\ ~raced =>
    LET was == rec.from
    IN  /\ told = "ok" => newest.edits = was.newest.edits
        /\ told = "ok" /\ was.stored.status = "published" => stored = was.stored /\ newest = was.newest
        /\ told = "live" => stored = was.stored

\* The remedy never leaves carrier rows in the document unless it says so and has tried
\* to save the restatement, or was killed.
CarriersTold ==
  pc = "idle" /\ told \notin {None, "killed"} /\ Resets /\ ~before.stored.carriers /\ ~before.newest.carriers =>
    (stored.carriers \/ newest.carriers => told = "carriers" /\ kept # None)

\* A command that was refused or stopped, and a repair whose first phase was rejected,
\* has written nothing.
StopsClean ==
  pc = "idle" /\ cmd # None /\ cmd.verb # "undo" =>
    (told \in {"refused", "aborted"} \/ (told = "failed" /\ cmd.verb = "repair") => ~wrote)

\* Every command ends, though the restatement is retried.
CommandsEnd == pc # "idle" ~> pc = "idle"

\* What a command says of its end is so: what it published, the remedy's carriers, that it
\* wrote nothing, what it brought back.
ToldTruly == TypeOK /\ DraftsGoLiveTold /\ CarriersTold /\ StopsClean /\ UndoRestores
=============================================================================
