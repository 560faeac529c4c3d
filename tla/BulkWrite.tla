----------------------------- MODULE BulkWrite -----------------------------
(***************************************************************************)
(* One bulk command, `pay update --where` or `pay delete --where`          *)
(* (internal/cli runBulkUpdate, runBulkDelete, runUnsafeDelete;            *)
(* internal/payload ResolveIDsScoped, FindPages, bulk): count what matches, *)
(* check the cap, resolve the ids page by page, confirm, back the documents *)
(* up, write the audit record, and send the ids in chunks.  Others edit the *)
(* documents meanwhile.                                                    *)
(*                                                                         *)
(* External: the server runs a chunk one document at a time and may refuse *)
(* a document or the request; an answer may be lost while the server goes  *)
(* on.  A request that was given up has reached the server by then or      *)
(* never will.                                                             *)
(***************************************************************************)
EXTENDS Integers, Sequences, FiniteSets

CONSTANTS
  N,          \* documents 1 .. N, in the order of their ids
  MaxDocs,    \* --max-docs
  PageSize,   \* bulkResolvePageSize: 200
  ChunkSize,  \* BulkChunk, backupReadChunk: 100
  Commands,   \* the commands run
  MaxEdits    \* bound: edits by others

Docs == 1 .. N
None == -1
\* update or delete by id, one by one, move to the trash, purge (trash=true), delete by filter.
AllVerbs == {"update", "each", "trash", "delete", "purge", "unsafe"}
Command ==
  {c \in [verb : AllVerbs, failFast : BOOLEAN, backups : BOOLEAN, all : BOOLEAN, dryRun : BOOLEAN] :
     c.failFast => c.verb = "each"}

ASSUME SizesAssumption ==
  N \in Nat /\ MaxDocs \in Nat \ {0} /\ PageSize \in Nat \ {0} /\ ChunkSize \in Nat \ {0} /\ MaxEdits \in Nat
ASSUME CommandsAssumption == Commands \subseteq Command

VARIABLES
  state,     \* external: per document, live, in the trash or gone
  match,     \* external: per document, the filter matches it
  rev,       \* external: how often each document was changed
  edits,     \* external: edits by others
  cmd,       \* the command
  pc,        \* where it is
  counted,   \* what Count answered
  page,      \* FindPages: the next page
  ids,       \* the ids resolved
  next,      \* how many of ids the current loop is through
  saved,     \* per document, the revision its backup file holds
  logged,    \* the audit pre-record is written
  working,   \* external: what the server has yet to do of the request under way
  reply,     \* external: what it has done of it
  stray,     \* external: what it has yet to do of requests given up
  docs,      \* BulkResult.Docs
  errors,    \* BulkResult.Errors that name an id
  unnamed,   \* BulkResult.Errors that name none
  skipped,   \* notAttempted
  callErr,   \* callErr: what the audit post-record says went wrong
  cancelled, \* the context is cancelled: Ctrl-C or --timeout
  outcome,   \* how the command ended
  changes,   \* history: how often the command changed each document
  absent     \* history: documents a request named that the server did not have

server  == <<state, match, rev, edits>>
resolve == <<counted, page, ids>>
guard   == <<saved, logged>>
flight  == <<working, reply, stray>>
result  == <<docs, errors, unnamed, skipped, callErr>>
history == <<changes, absent>>
vars    == <<server, cmd, pc, resolve, next, guard, flight, result, cancelled, outcome, history>>

-----------------------------------------------------------------------------
SetOf(s) == {s[i] : i \in 1 .. Len(s)}
Least(a, b) == IF a < b THEN a ELSE b

\* What the command may see: a purge sends trash=true.
Visible == IF cmd.verb = "purge" THEN {"live", "trashed"} ELSE {"live"}

\* bulkScope: the documents the three phases address.
InScope == {d \in Docs : match[d] /\ state[d] \in Visible}

\* Plan.Check, with ResolveMaxDocs.
PlanCheck(n) == cmd.all \/ n <= MaxDocs

\* One page of a find, which is sorted by id: how many come before a document decides.
Page(p) == {d \in InScope :
              Cardinality({e \in InScope : e < d}) \in (p - 1) * PageSize .. p * PageSize - 1}

\* A set of documents in the order of their ids.
Sorted(S) == {s \in [1 .. Cardinality(S) -> S] : \A i, j \in DOMAIN s : i < j => s[i] < s[j]}

\* The ids of the chunk the loop is at: one, for --per-doc.
ChunkEnd == IF cmd.verb = "each" THEN Least(next + 1, Len(ids)) ELSE Least(next + ChunkSize, Len(ids))
ChunkIds == {ids[i] : i \in next + 1 .. ChunkEnd}

NoReply == [docs |-> {}, errors |-> {}]

-----------------------------------------------------------------------------
Init ==
  /\ state \in [Docs -> {"live", "trashed"}] /\ match \in [Docs -> BOOLEAN]
  /\ rev = [d \in Docs |-> 0] /\ edits = 0
  /\ cmd \in Commands /\ pc = "count" /\ counted = 0 /\ page = 1 /\ ids = <<>> /\ next = 0
  /\ saved = [d \in Docs |-> None] /\ logged = FALSE
  /\ working = {} /\ reply = NoReply /\ stray = [d \in Docs |-> 0]
  /\ docs = {} /\ errors = {} /\ unnamed = FALSE /\ skipped = {} /\ callErr = FALSE
  /\ cancelled = FALSE /\ outcome = "none"
  /\ changes = [d \in Docs |-> 0] /\ absent = {}

Goto(from, to) == pc = from /\ pc' = to
Ends(how) == pc' = "done" /\ outcome' = how

\* Somebody edits a document, so that the filter matches it or not, moves it to the
\* trash or back, or deletes it.
Edits(d) ==
  /\ edits < MaxEdits /\ state[d] # "gone"
  /\ edits' = edits + 1
  /\ \E s \in {"live", "trashed", "gone"} : state' = [state EXCEPT ![d] = s]
  /\ \E m \in BOOLEAN : match' = [match EXCEPT ![d] = m]
  /\ rev' = [rev EXCEPT ![d] = @ + 1]
  /\ UNCHANGED <<cmd, pc, resolve, next, guard, flight, result, cancelled, outcome, history>>

\* The user interrupts, or --timeout passes.
Cancels ==
  /\ ~cancelled /\ pc # "done" /\ cancelled' = TRUE
  /\ UNCHANGED <<server, cmd, pc, resolve, next, guard, flight, result, outcome, history>>

\* Before the first write, a request that fails, the user who says no, a backup or an
\* audit record that cannot be written end the command.
Aborts ==
  /\ pc \in {"count", "resolve", "confirm", "backup", "log"}
  /\ Ends("error")
  /\ UNCHANGED <<server, cmd, resolve, next, guard, flight, result, cancelled, history>>

\* Phases 1 and 2.  A delete by filter is not capped.
Counts ==
  /\ pc = "count" /\ ~cancelled
  /\ counted' = Cardinality(InScope)
  /\ IF cmd.verb = "unsafe"
       THEN pc' = (IF cmd.backups THEN "resolve" ELSE "confirm") /\ UNCHANGED outcome
     ELSE IF PlanCheck(counted') THEN pc' = "resolve" /\ UNCHANGED outcome
     ELSE Ends("refused")
  /\ UNCHANGED <<server, cmd, page, ids, next, guard, flight, result, cancelled, history>>

\* Phase 3, one page of FindPages: it stops at max documents, and 0 is no maximum.
Resolves ==
  /\ pc = "resolve" /\ ~cancelled
  /\ \E found \in Sorted(Page(page)) :
       LET all == ids \o found
       IN  ids' = IF counted > 0 THEN SubSeq(all, 1, Least(Len(all), counted)) ELSE all
  /\ pc' = IF Page(page) = {} \/ Page(page + 1) = {} \/ (counted > 0 /\ Len(ids') >= counted)
             THEN "confirm" ELSE "resolve"
  /\ page' = page + 1
  /\ UNCHANGED <<server, cmd, counted, next, guard, flight, result, cancelled, outcome, history>>

\* A dry run ends with the preview.  Otherwise Confirm, which may need a terminal.
Confirms ==
  /\ pc = "confirm"
  /\ IF cmd.dryRun THEN Ends("previewed")
     ELSE pc' = (IF cmd.backups /\ ids # <<>> THEN "backup" ELSE "log") /\ UNCHANGED outcome
  /\ UNCHANGED <<server, cmd, resolve, next, guard, flight, result, cancelled, history>>

\* backupDocs: one chunk is read (trash and drafts included) and a file is written for
\* each document the server has; when a file cannot be written the others stay.
BacksUp ==
  /\ pc = "backup" /\ ~cancelled
  /\ LET Chunk == {ids[i] : i \in next + 1 .. Least(next + ChunkSize, Len(ids))}
         Found == {d \in Chunk : state[d] # "gone" /\ saved[d] = None}
     IN  \E written \in SUBSET Found :
           /\ saved' = [d \in Docs |-> IF d \in written THEN rev[d] ELSE saved[d]]
           /\ IF written # Found THEN Ends("error") /\ UNCHANGED next
              ELSE /\ next' = (IF next + ChunkSize < Len(ids) THEN next + ChunkSize ELSE 0)
                   /\ pc' = (IF next' = 0 THEN "log" ELSE "backup")
                   /\ UNCHANGED outcome
  /\ UNCHANGED <<server, cmd, resolve, logged, flight, result, cancelled, history>>

\* Mutant: the pre-record is best effort.
LogsIfItCan ==
  /\ pc = "log"
  /\ logged' \in BOOLEAN
  /\ IF ids = <<>> /\ cmd.verb # "unsafe" THEN Ends("ok") ELSE pc' = "send" /\ UNCHANGED outcome
  /\ UNCHANGED <<server, cmd, resolve, next, saved, flight, result, cancelled, history>>

\* The pre-record.  When no document was resolved there is nothing to send.
Logs ==
  /\ pc = "log"
  /\ logged' = TRUE
  /\ IF ids = <<>> /\ cmd.verb # "unsafe" THEN Ends("ok") ELSE pc' = "send" /\ UNCHANGED outcome
  /\ UNCHANGED <<server, cmd, resolve, next, saved, flight, result, cancelled, history>>

-----------------------------------------------------------------------------
\* Mutant: a chunk is sent with the filter, not with its ids.
SendsFilter ==
  /\ Goto("send", "wait") /\ ~cancelled
  /\ working' = InScope /\ reply' = NoReply
  /\ UNCHANGED <<server, cmd, resolve, next, guard, stray, result, cancelled, outcome, history>>

\* The request for the next chunk reaches the server, which looks the documents up; a
\* delete by filter evaluates the filter now.  An update of one document that is not
\* there is an error; a chunk's missing documents are not mentioned.
Sends ==
  /\ Goto("send", "wait") /\ ~cancelled
  /\ LET Named   == IF cmd.verb = "unsafe" THEN InScope ELSE ChunkIds
         missing == {d \in Named : state[d] \notin Visible}
     IN  /\ working' = Named \ missing
         /\ reply' = [NoReply EXCEPT !.errors = IF cmd.verb = "each" THEN missing ELSE {}]
         /\ absent' = absent \cup missing
  /\ UNCHANGED <<server, cmd, resolve, next, guard, stray, result, cancelled, outcome, changes>>

\* What a write does to a document.
Writes(d) ==
  /\ state' = [state EXCEPT ![d] = CASE cmd.verb \in {"delete", "purge", "unsafe"} -> "gone"
                                     [] cmd.verb = "trash" -> "trashed"
                                     [] OTHER -> @]
  /\ rev' = [rev EXCEPT ![d] = @ + 1]
  /\ changes' = [changes EXCEPT ![d] = @ + 1]
  /\ UNCHANGED <<match, edits>>

\* The server comes to a document: it writes or refuses it, or it is gone by now.
Executes(d) ==
  /\ d \in working /\ working' = working \ {d}
  /\ \/ state[d] # "gone" /\ Writes(d) /\ reply' = [reply EXCEPT !.docs = @ \cup {d}] /\ UNCHANGED absent
     \/ /\ reply' = [reply EXCEPT !.errors = @ \cup {d}]
        /\ absent' = (IF state[d] = "gone" THEN absent \cup {d} ELSE absent)
        /\ UNCHANGED <<server, changes>>
  /\ UNCHANGED <<cmd, pc, resolve, next, guard, stray, result, cancelled, outcome>>

\* The same, for a request whose answer nobody waits for; the server may give it up.
ExecutesStray(d) ==
  /\ stray[d] > 0 /\ state[d] # "gone" /\ Writes(d)
  /\ stray' = [stray EXCEPT ![d] = @ - 1]
  /\ UNCHANGED <<cmd, pc, resolve, next, guard, working, reply, result, cancelled, outcome, absent>>

Rest == {ids[i] : i \in ChunkEnd + 1 .. Len(ids)}

\* Mutant: the loop counts in whole chunks.
GoesOnInChunks ==
  LET stop == cmd.failFast /\ errors' # {}
  IN  /\ working' = {} /\ reply' = NoReply /\ next' = next + ChunkSize
      /\ pc' = IF cmd.verb = "unsafe" \/ Rest = {} \/ stop THEN "report" ELSE "send"
      /\ skipped' = IF stop THEN Rest ELSE skipped

\* The loop goes on with the next chunk, whatever became of this one; --fail-fast
\* stops at the first document that failed.
GoesOn ==
  LET stop == cmd.failFast /\ errors' # {}
  IN  /\ working' = {} /\ reply' = NoReply /\ next' = ChunkEnd
      /\ pc' = IF cmd.verb = "unsafe" \/ Rest = {} \/ stop THEN "report" ELSE "send"
      /\ skipped' = IF stop THEN Rest ELSE skipped

\* Mutant: only what was written is read off the answer.
AnswersDocsOnly ==
  /\ pc = "wait" /\ working = {}
  /\ docs' = docs \cup reply.docs /\ UNCHANGED <<errors, callErr>>
  /\ GoesOn
  /\ UNCHANGED <<server, cmd, resolve, guard, stray, unnamed, cancelled, outcome, history>>

\* The answer: docs[] and errors[], with a status that tells of the errors.
Answers ==
  /\ pc = "wait" /\ working = {}
  /\ docs' = docs \cup reply.docs /\ errors' = errors \cup reply.errors
  /\ callErr' = (callErr \/ (cmd.verb # "each" /\ reply.errors # {}))
  /\ GoesOn
  /\ UNCHANGED <<server, cmd, resolve, guard, stray, unnamed, cancelled, outcome, history>>

\* The server refuses the request as a whole: an error without an id.
Refuses ==
  /\ pc = "wait" /\ reply = NoReply
  /\ IF cmd.verb = "each" THEN errors' = errors \cup ChunkIds /\ UNCHANGED <<unnamed, callErr>>
     ELSE unnamed' = TRUE /\ callErr' = TRUE /\ UNCHANGED errors
  /\ GoesOn
  /\ UNCHANGED <<server, cmd, resolve, guard, stray, docs, cancelled, outcome, history>>

\* Mutant: a request has no timeout.
LosesUntimed ==
  /\ pc = "wait" /\ working = {}
  /\ callErr' = TRUE /\ UNCHANGED errors /\ GoesOn
  /\ UNCHANGED <<server, cmd, resolve, guard, stray, docs, unnamed, cancelled, outcome, history>>

\* No answer, or one that is not JSON.  The server may go on with the request.
Loses ==
  /\ pc = "wait"
  /\ \E S \in SUBSET working : stray' = [d \in Docs |-> stray[d] + IF d \in S THEN 1 ELSE 0]
  /\ IF cmd.verb = "each" THEN errors' = errors \cup ChunkIds /\ UNCHANGED callErr
     ELSE callErr' = TRUE /\ UNCHANGED errors
  /\ IF cmd.verb = "unsafe"
       THEN Ends("error") /\ working' = {} /\ reply' = NoReply /\ UNCHANGED <<next, skipped>>
       ELSE GoesOn /\ UNCHANGED outcome
  /\ UNCHANGED <<server, cmd, resolve, guard, docs, unnamed, cancelled, history>>

\* After the context was cancelled: the loop over single documents stops, the loop over
\* chunks has every request fail before it is sent.
SendsCancelled ==
  /\ pc = "send" /\ cancelled
  /\ callErr' = TRUE
  /\ CASE cmd.verb = "each"   -> pc' = "report" /\ skipped' = ChunkIds \cup Rest /\ UNCHANGED <<next, outcome>>
       [] cmd.verb = "unsafe" -> Ends("error") /\ UNCHANGED <<next, skipped>>
       [] OTHER -> /\ pc' = (IF Rest = {} THEN "report" ELSE "send") /\ next' = ChunkEnd
                   /\ UNCHANGED <<skipped, outcome>>
  /\ UNCHANGED <<server, cmd, resolve, guard, flight, docs, errors, unnamed, cancelled, history>>

\* bulkEnvelope: success, or partial_failure and exit 7.
Reports ==
  /\ pc = "report"
  /\ Ends(IF errors = {} /\ ~unnamed /\ skipped = {} THEN "ok" ELSE "partial")
  /\ UNCHANGED <<server, cmd, resolve, next, guard, flight, result, cancelled, history>>

\* The process is killed.
Crashes ==
  /\ pc # "done" /\ Ends("killed")
  /\ stray' = [d \in Docs |-> stray[d] + IF d \in working THEN 1 ELSE 0]
  /\ working' = {} /\ reply' = NoReply
  /\ UNCHANGED <<server, cmd, resolve, next, guard, result, cancelled, history>>

Done == pc = "done" /\ UNCHANGED vars

Step ==
  \/ Counts \/ Resolves \/ Confirms \/ BacksUp \/ Logs
  \/ Sends \/ SendsCancelled \/ Answers \/ Refuses \/ Loses \/ Reports

Next ==
  \/ Step \/ Aborts \/ Cancels \/ Crashes \/ Done
  \/ \E d \in Docs : Edits(d) \/ Executes(d) \/ ExecutesStray(d)

Spec == Init /\ [][Next]_vars

\* The command runs; what it waits for ends, at the latest with its timeout.
FairSpec == Spec /\ WF_vars(Step \/ Aborts)

-----------------------------------------------------------------------------
(* Properties.                                                              *)

\* The types of the variables.
TypeOK ==
  /\ state \in [Docs -> {"live", "trashed", "gone"}] /\ match \in [Docs -> BOOLEAN]
  /\ rev \in [Docs -> Nat] /\ edits \in 0 .. MaxEdits /\ cmd \in Commands
  /\ pc \in {"count", "resolve", "confirm", "backup", "log", "send", "wait", "report", "done"}
  /\ counted \in 0 .. N /\ page \in Nat \ {0} /\ ids \in Seq(Docs) /\ next \in 0 .. Len(ids)
  /\ saved \in [Docs -> Nat \cup {None}] /\ logged \in BOOLEAN
  /\ working \subseteq Docs /\ reply \in [docs : SUBSET Docs, errors : SUBSET Docs]
  /\ stray \in [Docs -> Nat]
  /\ docs \subseteq Docs /\ errors \subseteq Docs /\ unnamed \in BOOLEAN /\ skipped \subseteq Docs
  /\ callErr \in BOOLEAN /\ cancelled \in BOOLEAN
  /\ outcome \in {"none", "ok", "partial", "error", "refused", "previewed", "killed"}
  /\ changes \in [Docs -> Nat] /\ absent \subseteq Docs

Changed == {d \in Docs : changes[d] > 0}

\* "The blast radius is exactly what --dry-run printed": only documents whose ids were
\* resolved are changed, however many match by then, and no more of them than
\* --max-docs, if Count saw any.
BlastRadius ==
  cmd.verb # "unsafe" =>
    /\ Changed \subseteq SetOf(ids)
    /\ counted > 0 /\ ~cmd.all => Cardinality(Changed) <= MaxDocs

\* A command that is refused, previewed, declined or aborted by a read, a backup or the
\* audit log has changed nothing, now or later; a preview stores no backup.
AbortsClean ==
  /\ outcome \in {"refused", "previewed"} \/ (outcome = "error" /\ cmd.verb # "unsafe") => Changed = {}
  /\ cmd.dryRun => ~logged /\ \A d \in Docs : saved[d] = None

\* What the envelope says happened: documents reported as written were, and unless the
\* audit record has an error every id resolved was written, failed, skipped or gone.
AccountsForAll ==
  outcome \in {"ok", "partial"} =>
    /\ docs \subseteq Changed
    /\ ~callErr /\ cmd.verb # "unsafe" => SetOf(ids) \subseteq docs \cup errors \cup skipped \cup absent

\* "Retry only the failed ids using next.cmd": after chunks, if paging resolved no
\* document twice, no document next.cmd names has been or will be changed.
RetrySafe ==
  outcome = "partial" /\ cmd.verb # "each" /\ Cardinality(SetOf(ids)) = Len(ids) => errors \cap Changed = {}

\* Every command ends.
Terminates == <>(pc = "done")

\* What the guarded write sees of this command.  A delete by filter does not know
\* what it will delete.
Guarded == INSTANCE GuardedWrite WITH
  Docs <- Docs, guarded <- cmd.backups /\ cmd.verb # "unsafe"

\* No document is changed before its backup is written and the audit log tells of it.
SavedBeforeChanged == Guarded!Spec

\* "Exit 7 is emitted whenever any document failed": exit 0 means that every document
\* resolved was written or is gone.
SuccessMeansAll ==
  outcome = "ok" /\ cmd.verb # "unsafe" => SetOf(ids) \subseteq Changed \cup absent

\* The outcome and the envelope of a bulk command can be relied on, to know what was written
\* and what was not, and to try the rest again.
EnvelopeTrue == AbortsClean /\ AccountsForAll /\ RetrySafe
=============================================================================
