------------------------------ MODULE Backups ------------------------------
(***************************************************************************)
(* The backup directory and the commands that fill it, read it and empty   *)
(* it (internal/backup, cli/backup.go, cli/backups.go): every command that *)
(* changes a document saves it first, backups restore writes a file back   *)
(* or creates the document again, backups prune deletes files.  Processes  *)
(* run side by side; what one sends, and when, is in Publication.          *)
(*                                                                         *)
(* External, as those files describe the server: an id is never given out  *)
(* twice; a plain save becomes the live row and the newest version, a draft*)
(* save only the newest version; the trash is a mark on the live row.      *)
(***************************************************************************)
EXTENDS Naturals, FiniteSets, Sequences

CONSTANTS
  Docs,         \* the ids there are, and those the server may yet give out
  Processes,
  MaxTime,      \* bound: milliseconds
  MaxCommands,  \* bound: commands
  MaxContent,   \* bound: contents others write
  None          \* no value

VARIABLES
  docs,      \* external: the documents
  fresh,     \* external: ids not given out yet
  content,   \* how many contents there were; a content is its number
  time,
  files,     \* the backup files
  procs,     \* the commands under way
  ran,       \* commands so far
  overwritten,  \* history: what a command took away although nobody else had changed it
  replaced,     \* history: files replaced by another of the same name
  cutoff        \* history: the latest one backups were pruned with

vars == <<docs, fresh, content, time, files, procs, ran, overwritten, replaced, cutoff>>

-----------------------------------------------------------------------------
(* Documents.                                                               *)

\* The content of the live row, of a draft on top of it or instead of it, and whether it is in
\* the trash.  A global is a document nobody throws away.
Doc == [live : Nat \cup {None}, draft : Nat \cup {None}, trashed : BOOLEAN]

Status(d) == IF d.draft # None THEN "draft" ELSE "published"
Latest(d) == IF d.draft # None THEN d.draft ELSE d.live

\* A file: which document, when, which of that millisecond, before which command, and what of
\* the document: the newest version, and the published one under a draft.
FileOf(id, t, n, cmd, d) ==
  [id |-> id, time |-> t, n |-> n, cmd |-> cmd, status |-> Status(d), doc |-> Latest(d),
   published |-> IF d.draft # None THEN d.live ELSE None, trashed |-> d.trashed]

Name(f) == <<f.id, f.time, f.n, f.cmd>>

\* Does a file hold a document?
Holds(f, d) == f.doc = Latest(d) /\ f.trashed = d.trashed /\ f.status = Status(d)
               /\ f.published = (IF d.draft # None THEN d.live ELSE None)

-----------------------------------------------------------------------------
Idle == [cmd |-> "none", pc |-> "idle", id |-> None, mode |-> "plain", rec |-> None, steps |-> <<>>,
         copy |-> None, name |-> None, raced |-> FALSE, told |-> None]

\* The first document has a draft, and may be live.
Start(live) == [i \in Docs |-> IF i = 1 THEN [live |-> live, draft |-> 2, trashed |-> FALSE] ELSE None]
Live == Start(1)

Init ==
  /\ docs \in {Live, Start(None)}
  /\ fresh = {i \in Docs : docs[i] = None}
  /\ content = 2 /\ time = 0 /\ files = {} /\ ran = 0
  /\ procs = [p \in Processes |-> Idle]
  /\ overwritten = {} /\ replaced = {} /\ cutoff = 0

Tick ==
  /\ time < MaxTime /\ time' = time + 1
  /\ UNCHANGED <<docs, fresh, content, files, procs, ran, overwritten, replaced, cutoff>>

Goes(p, r) == procs' = [procs EXCEPT ![p] = r]

\* A command that is over; only of a restore is there more to say.
Over(r, id, how) ==
  IF r.cmd = "restore" /\ how = "ok"
  THEN [Idle EXCEPT !.cmd = "restore", !.id = id, !.mode = r.mode, !.rec = r.rec, !.raced = r.raced, !.told = how]
  ELSE Idle

Ends(p, how) == Goes(p, Over(procs[p], procs[p].id, how))

\* The last command of the bound runs alone.
MayStart(p) ==
  /\ procs[p].pc = "idle" /\ ran < MaxCommands
  /\ ran = MaxCommands - 1 => \A q \in Processes : procs[q].pc = "idle"

\* A command that edits, publishes, throws away or deletes a document.
Starts(p) ==
  /\ MayStart(p) /\ ran' = ran + 1
  /\ \E id \in Docs \ fresh, cmd \in {"update", "publish", "trash", "delete"} :
       /\ Goes(p, [Idle EXCEPT !.cmd = cmd, !.pc = "save", !.id = id, !.steps = <<cmd>>])
  /\ UNCHANGED <<docs, fresh, content, time, files, overwritten, replaced, cutoff>>

\* backups restore FILE [--draft | --publish] [--recreate]; the file is read first.
StartsRestore(p) ==
  /\ MayStart(p) /\ ran' = ran + 1
  /\ \E f \in files, mode \in {"plain", "draft", "publish"} :
       Goes(p, [Idle EXCEPT !.cmd = "restore", !.pc = "look", !.id = f.id, !.mode = mode, !.rec = f])
  /\ UNCHANGED <<docs, fresh, content, time, files, overwritten, replaced, cutoff>>

\* Mutant: what the file says alone decides.
AlwaysPlain(f, mode, live) ==
  CASE mode = "draft" -> <<"saveDraft">> [] mode = "publish" -> <<"savePublished">>
    [] mode = "plain" -> IF f.status = "draft" THEN <<"saveDraft">> ELSE <<"savePublished">>

\* The requests of a restore over a document whose live row is this: a draft never goes over
\* what is live, and what was live under it goes first, unless it is still.
RestoreMode(f, mode, live) ==
  CASE mode = "draft"   -> <<"saveDraft">>
    [] mode = "publish" -> <<"savePublished">>
    [] mode = "plain"   -> IF f.published # None
                           THEN IF live = f.published THEN <<"saveDraft">> ELSE <<"saveLive", "saveDraft">>
                           ELSE IF f.status = "draft" THEN <<"saveDraft">> ELSE <<"savePublished">>

\* Those of a restore of a document that is gone.
RecreateMode(f, mode) ==
  CASE mode = "publish" -> <<"createPublished">>
    [] mode = "draft"   -> <<"createDraft">>
    [] mode = "plain"   -> IF f.published # None THEN <<"createLive", "saveDraft">>
                           ELSE IF f.status = "draft" THEN <<"createDraft">> ELSE <<"createPublished">>

\* It reads the live row.  A document that is gone is created again with --recreate only; what
\* does not exist needs no backup.
Looks(p) ==
  /\ procs[p].pc = "look"
  /\ LET r == procs[p]
         here == docs[r.id]
     IN  IF here # None
         THEN Goes(p, [r EXCEPT !.pc = "save", !.steps = RestoreMode(r.rec, r.mode, here.live), !.raced = FALSE])
         ELSE \/ Ends(p, "refused")
              \/ Goes(p, [r EXCEPT !.pc = "send", !.steps = RecreateMode(r.rec, r.mode), !.raced = FALSE])
  /\ UNCHANGED <<docs, fresh, content, time, files, ran, overwritten, replaced, cutoff>>

-----------------------------------------------------------------------------
(* The backup.                                                              *)

\* It reads the document, and picks the first name that is not there.
Saves(p) ==
  /\ procs[p].pc = "save"
  /\ LET r == procs[p]
         here == docs[r.id]
         taken == {f.n : f \in {g \in files : g.id = r.id /\ g.time = time /\ g.cmd = r.cmd}}
         n == CHOOSE m \in 1 .. Cardinality(taken) + 1 : m \notin taken /\ 1 .. m - 1 \subseteq taken
     IN  IF here = None THEN Goes(p, [r EXCEPT !.pc = "send"])
         ELSE Goes(p, [r EXCEPT !.pc = "write", !.copy = here, !.name = FileOf(r.id, time, n, r.cmd, here)])
  /\ UNCHANGED <<docs, fresh, content, time, files, ran, overwritten, replaced, cutoff>>

\* It writes the file under that name.
Writes(p) ==
  /\ procs[p].pc = "write"
  /\ LET file == procs[p].name
         old == {f \in files : Name(f) = Name(file)}
     IN  files' = (files \ old) \cup {file} /\ replaced' = replaced \cup old
  /\ Goes(p, [procs[p] EXCEPT !.pc = "send"])
  /\ UNCHANGED <<docs, fresh, content, time, ran, overwritten, cutoff>>

\* The document cannot be read, or the file written: its directory was pruned away, say.
BackupFails(p) ==
  /\ procs[p].pc \in {"save", "write"} /\ Ends(p, "aborted")
  /\ UNCHANGED <<docs, fresh, content, time, files, ran, overwritten, replaced, cutoff>>

-----------------------------------------------------------------------------
(* The server.                                                              *)

\* What a request makes of the document.
Becomes(d, what, f) ==
  CASE what = "update"  -> IF d.draft # None THEN [d EXCEPT !.draft = content + 1] ELSE [d EXCEPT !.live = content + 1]
    [] what = "publish" -> [d EXCEPT !.live = Latest(d), !.draft = None]
    [] what = "trash"   -> [d EXCEPT !.trashed = TRUE]
    [] what = "delete"  -> None
    [] what = "saveLive"      -> [d EXCEPT !.live = f.published, !.draft = None, !.trashed = f.trashed]
    [] what = "savePublished" -> [d EXCEPT !.live = f.doc, !.draft = None, !.trashed = f.trashed]
    [] what = "saveDraft"     -> [d EXCEPT !.draft = f.doc]

Created(what, f) ==
  [live |-> CASE what = "createLive" -> f.published [] what = "createPublished" -> f.doc [] OTHER -> None,
   draft |-> IF what = "createDraft" THEN f.doc ELSE None, trashed |-> f.trashed]

\* Somebody who wrote a document has raced with every command about it.
Races(who, id) == [q \in Processes |-> IF q # who /\ procs[q].id = id THEN [procs[q] EXCEPT !.raced = TRUE] ELSE procs[q]]

\* The next request is executed, unless the guard of an update refuses it; an answer that is
\* lost ends the command.
Executes(p) ==
  /\ procs[p].pc = "send"
  /\ LET r == procs[p]
         what == Head(r.steps)
         creates == what \in {"createLive", "createPublished", "createDraft"}
     IN  \E id \in (IF creates THEN fresh ELSE {r.id}) : \E answered \in BOOLEAN :
           /\ creates \/ docs[id] # None
           /\ what = "update" => docs[id].live = None \/ docs[id].draft = None
           /\ docs' = [docs EXCEPT ![id] = IF creates THEN Created(what, r.rec) ELSE Becomes(@, what, r.rec)]
           /\ fresh' = fresh \ {id}
           /\ overwritten' = IF ~creates /\ docs[id] = r.copy /\ docs'[id] # docs[id]
                             THEN overwritten \cup {[id |-> id, doc |-> docs[id], time |-> r.name.time]} ELSE overwritten
           /\ content' = content + (IF what = "update" THEN 1 ELSE 0)
           /\ procs' = [Races(p, id) EXCEPT ![p] =
                          IF ~answered THEN Over(r, id, "failed")
                          ELSE IF Len(r.steps) = 1 THEN Over(r, id, "ok")
                          ELSE [r EXCEPT !.id = id, !.steps = Tail(@)]]
  /\ UNCHANGED <<time, files, ran, replaced, cutoff>>

\* It is refused, or the document is not there.
Refused(p) ==
  /\ procs[p].pc = "send" /\ Ends(p, "failed")
  /\ UNCHANGED <<docs, fresh, content, time, files, ran, overwritten, replaced, cutoff>>

\* Somebody else edits.
Others ==
  /\ content < MaxContent
  /\ \E id \in Docs :
       /\ docs[id] # None
       /\ docs' = [docs EXCEPT ![id] = Becomes(@, "update", None)]
       /\ procs' = Races(None, id)
  /\ content' = content + 1
  /\ UNCHANGED <<fresh, time, files, ran, overwritten, replaced, cutoff>>

-----------------------------------------------------------------------------
(* The directory.                                                           *)

\* backups list: those a filter lets through.
List(id, before) == {f \in files : (id # None => f.id = id) /\ f.time < before}

\* backups prune --older-than, of one document or all of them.
Prune(p) ==
  /\ procs[p].pc = "idle"
  /\ \E before \in 1 .. time, id \in Docs \cup {None} :
       /\ List(id, before) # {}
       /\ files' = files \ List(id, before)
       /\ cutoff' = IF before > cutoff THEN before ELSE cutoff
  /\ UNCHANGED <<docs, fresh, content, time, procs, ran, overwritten, replaced>>

Next ==
  \/ Tick \/ Others
  \/ \E p \in Processes :
       \/ Starts(p) \/ StartsRestore(p) \/ Looks(p) \/ Saves(p) \/ Writes(p) \/ BackupFails(p)
       \/ Executes(p) \/ Refused(p) \/ Prune(p)

Spec == Init /\ [][Next]_vars

-----------------------------------------------------------------------------
(* Properties.                                                              *)

\* Every state of a document a command took away is in a file, published state and all, unless
\* it was pruned as older than the cutoff or another command of the same millisecond wrote a file
\* of the same name.  (backup.go:258 backupDocs, backup/backup.go:227 Write, 464 Prune.)
StatesHeld ==
  \A o \in overwritten :
    \/ \E f \in files \cup replaced : f.id = o.id /\ Holds(f, o.doc)
    \/ o.time < cutoff

\* A restore that says it succeeded, and with which nobody interfered, has brought back what the
\* file holds: what was live is live, the draft is on top of it, and what was in the trash is
\* there again.
\* (backups.go:558 restoreDraftMode, 898 recreateDocBackup.)
RestoresFile(r, d) ==
  /\ r.mode = "plain" => Latest(d) = r.rec.doc
  /\ r.mode = "plain" /\ r.rec.published # None => d.live = r.rec.published /\ d.draft = r.rec.doc
  /\ r.mode = "plain" /\ (r.rec.status = "published" \/ r.id # r.rec.id) => d.trashed = r.rec.trashed
  /\ r.mode = "publish" => d.live = r.rec.doc /\ d.draft = None
  /\ r.mode = "draft" => d.draft = r.rec.doc

RestoreTrue ==
  \A p \in Processes :
    LET r == procs[p]
    IN  r.cmd = "restore" /\ r.told = "ok" /\ ~r.raced /\ docs[r.id] # None => RestoresFile(r, docs[r.id])

BackupsHold == StatesHeld /\ RestoreTrue
=============================================================================
