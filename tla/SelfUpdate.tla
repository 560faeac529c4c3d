----------------------------- MODULE SelfUpdate -----------------------------
(***************************************************************************)
(* Self-update (internal/update, pay update-self).  A check records a      *)
(* newer release in update-state.json; an apply takes the update lock,     *)
(* downloads the release, verifies it and renames it over the binary.      *)
(* With update.auto every command starts an apply in the background when   *)
(* the file names a release.  The state file is read and written whole     *)
(* without a lock, so processes overwrite each other's news.               *)
(*                                                                         *)
(* Left out: last_check, last_error, notified; the archive's format; the   *)
(* temporary file next to the binary, which nothing reads.                 *)
(***************************************************************************)
EXTENDS Integers, FiniteSets

CONSTANTS
  Procs,        \* processes
  Newest,       \* bound: releases are 1 .. Newest
  Signs,        \* what an archive's checksum, and the checksums' signature, may say of it:
                \* "right", "absent" or "wrong"
  MaxCommands,  \* bound: commands begun
  None

VARIABLES
  installed,  \* the release at the binary's path
  published,  \* the newest release
  evidence,   \* what came with each release
  managed,    \* a package manager owns the binary
  auto,       \* update.auto
  state,      \* update-state.json: the pending release and its outcome
  lock,       \* who has the update lock
  proc,       \* the processes
  used        \* commands begun

vars == <<installed, published, evidence, managed, auto, state, lock, proc, used>>

Versions == 1 .. Newest
NoState  == [pending |-> None, outcome |-> None]

\* A process: where it is; the release it is an image of; a detached child; the flags;
\* the release it is about; what it found out; the state file as it read it; and how a child ended.
Idle == [at |-> "idle", image |-> 0, child |-> FALSE, force |-> FALSE, strict |-> FALSE,
         allow |-> FALSE, tag |-> None, outcome |-> None, read |-> NoState, next |-> None, end |-> None]

-----------------------------------------------------------------------------
\* Newer.
Newer(current, candidate) == candidate > current

\* The archive's checksum and the checksums' signature: each agrees, is absent, or
\* disagrees.  A disagreement dominates; without one, anything absent does.
Combine(steps) ==
  CASE "wrong" \in steps  -> "verification_failed"
    [] "absent" \in steps /\ "wrong" \notin steps -> "unverifiable"
    [] OTHER              -> "verified"

\* Mutant: only a strict update refuses a disagreement.
EnforceStrictly(outcome, strict) == strict => outcome = "verified"

\* Enforce: what may be installed.
Enforce(outcome, strict) ==
  outcome # "verification_failed" /\ (strict => outcome # "unverifiable")

\* HasPending.
HasPending(s, current) ==
  s.pending # None /\ s.outcome # "verification_failed" /\ Newer(current, s.pending)

-----------------------------------------------------------------------------
Init ==
  /\ installed = 1 /\ published = 1
  /\ evidence = [v \in Versions |-> [checksum |-> "right", signature |-> "right"]]
  /\ managed \in BOOLEAN /\ auto \in BOOLEAN
  /\ state = NoState /\ lock = None
  /\ proc = [p \in Procs |-> Idle] /\ used = 0

given == <<published, evidence, managed, auto>>

Set(p, r)    == proc' = [proc EXCEPT ![p] = r]
Go(p, at)    == Set(p, [proc[p] EXCEPT !.at = at])
Ended(p, e)  == IF proc[p].child THEN [Idle EXCEPT !.child = TRUE, !.end = e] ELSE Idle
Free(p)      == IF lock = p THEN None ELSE lock

\* The lock is released when Apply returns.
Ends(p, e) == Set(p, Ended(p, e)) /\ lock' = Free(p) /\ UNCHANGED state

\* A release, with or without evidence.
Publishes ==
  /\ published < Newest /\ published' = published + 1
  /\ \E came \in [checksum : Signs, signature : Signs] : evidence' = [evidence EXCEPT ![published'] = came]
  /\ UNCHANGED <<installed, managed, auto, state, lock, proc, used>>

\* A command begins: any, or update-self with its flags.  maybeAutoUpdate: with update.auto
\* and a release pending, a child is started from the binary's path with PAY_NO_UPDATE set
\* (and starts no child of its own).
Begins(p) ==
  /\ proc[p].at = "idle" /\ used < MaxCommands /\ used' = used + 1
  /\ \E at \in {"command", "check", "apply"}, force, strict, allow \in BOOLEAN :
       LET begun == [Idle EXCEPT !.at = at, !.image = installed, !.force = force,
                                 !.strict = strict, !.allow = allow]
       IN  /\ (force \/ strict \/ allow) => at = "apply"
           /\ allow => managed   \* elsewhere the flag says nothing
           /\ IF auto /\ HasPending(state, installed)
              THEN \E q \in Procs \ {p} :
                     /\ proc[q].at = "idle"
                     /\ proc' = [proc EXCEPT ![p] = begun,
                                             ![q] = [Idle EXCEPT !.at = "apply", !.image = installed, !.child = TRUE]]
              ELSE Set(p, begun)
  /\ UNCHANGED <<installed, given, state, lock>>

\* Any other command says nothing to the release API.
Commands(p) ==
  /\ proc[p].at = "command" /\ Ends(p, "ok")
  /\ UNCHANGED <<installed, given, used>>

\* runUpdateSelf: PAY_NO_UPDATE refuses every update-self, the detached child's too.
Refuses(p) ==
  /\ proc[p].at = "apply" /\ proc[p].child /\ Ends(p, "operation_unsupported")
  /\ UNCHANGED <<installed, given, used>>

-----------------------------------------------------------------------------
(* The state file.                                                          *)

\* Somebody reads it, to write it back with something changed.
Reads(p) ==
  /\ proc[p].at = "reads" /\ Set(p, [proc[p] EXCEPT !.at = "writes", !.read = state])
  /\ UNCHANGED <<installed, given, state, lock, used>>

\* What is written: after a check, after a failed verification, after a swap, or after any
\* other error.
Noted(r) ==
  CASE r.next = "checked"  -> IF Newer(r.image, r.tag) THEN [pending |-> r.tag, outcome |-> r.outcome] ELSE NoState
    [] r.next = "rejected" -> [pending |-> r.tag, outcome |-> r.outcome]
    [] r.next = "swapped"  -> [pending |-> None, outcome |-> r.outcome]
    [] OTHER               -> r.read

\* The write may fail.
Writes(p) ==
  /\ proc[p].at = "writes"
  /\ \/ state' = Noted(proc[p]) \/ UNCHANGED state
  /\ Set(p, Ended(p, proc[p].next)) /\ lock' = Free(p)
  /\ UNCHANGED <<installed, given, used>>

\* recordError and its like: p goes on to write down what became of it.
Records(p, next, tag, outcome) ==
  Set(p, [proc[p] EXCEPT !.at = "reads", !.next = next, !.tag = tag, !.outcome = outcome])

-----------------------------------------------------------------------------
\* VerifySignature: a signature that is there may be judged wrong because the tool that
\* checks it failed, and its files may be lost on the way.
Signature(tag) ==
  LET sign == evidence[tag].signature IN {sign, "absent"} \cup (IF sign = "absent" THEN {} ELSE {"wrong"})

\* VerifyChecksum.
Checksum(tag) == evidence[tag].checksum

\* latestTag: the newest release of the channel.
LatestTag == published

\* DetectManaged: a binary that a package manager owns is replaced only on request.
MayReplace(p) == managed => proc[p].allow

\* Check: the newest release, and the signature over its checksums.
Checks(p) ==
  /\ proc[p].at = "check"
  /\ \/ Records(p, "failed", None, None)
     \/ /\ ~Newer(proc[p].image, LatestTag) /\ Records(p, "checked", LatestTag, None)
     \/ /\ Newer(proc[p].image, LatestTag)
        /\ \E signature \in Signature(LatestTag) :
             Records(p, "checked", LatestTag, Combine({signature}))
  /\ UNCHANGED <<installed, given, state, lock, used>>

\* Apply: a managed binary is left alone, and so is one that is being updated.
Applies(p) ==
  /\ proc[p].at = "apply" /\ ~proc[p].child
  /\ \/ ~MayReplace(p) /\ Ends(p, "operation_unsupported")
     \/ MayReplace(p) /\ lock # None /\ Ends(p, "skipped")
     \/ MayReplace(p) /\ lock = None /\ lock' = p /\ Go(p, "target") /\ UNCHANGED state
  /\ UNCHANGED <<installed, given, used>>

\* targetVersion: the pending release before the newest one.
Targets(p) ==
  /\ proc[p].at = "target"
  /\ LET pending == state.pending # None /\ (proc[p].force \/ Newer(proc[p].image, state.pending))
         tag     == IF pending THEN state.pending ELSE LatestTag
     IN  \/ ~pending /\ Records(p, "failed", None, None) /\ UNCHANGED <<lock, state>>
         \/ ~proc[p].force /\ ~Newer(proc[p].image, tag) /\ Ends(p, "already up to date")
         \/ /\ proc[p].force \/ Newer(proc[p].image, tag)
            /\ Set(p, [proc[p] EXCEPT !.at = "download", !.tag = tag]) /\ UNCHANGED <<lock, state>>
  /\ UNCHANGED <<installed, given, used>>

\* The release is downloaded and judged before anything is written to disk.  Without the
\* signature's files or an attestation there is no evidence.
Downloads(p) ==
  /\ proc[p].at = "download"
  /\ \/ Records(p, "failed", proc[p].tag, None)
     \/ \E signature \in Signature(proc[p].tag) :
          LET outcome == Combine({Checksum(proc[p].tag), signature})
          IN  IF Enforce(outcome, proc[p].strict)
              THEN Set(p, [proc[p] EXCEPT !.at = "swap", !.outcome = outcome])
              ELSE Records(p, "rejected", proc[p].tag, outcome)
  /\ UNCHANGED <<installed, given, state, lock, used>>

\* swap: one rename, or an error and the binary as it was.
Swaps(p) ==
  /\ proc[p].at = "swap"
  /\ \/ Records(p, "failed", proc[p].tag, None) /\ UNCHANGED installed
     \/ installed' = proc[p].tag /\ Records(p, "swapped", proc[p].tag, proc[p].outcome)
  /\ UNCHANGED <<given, state, lock, used>>

\* The process is killed; the system releases its lock.
Crashes(p) ==
  /\ proc[p].at # "idle" /\ Set(p, Ended(p, "killed")) /\ lock' = Free(p)
  /\ UNCHANGED <<installed, given, state, used>>

Step(p) ==
  \/ Begins(p) \/ Commands(p) \/ Refuses(p) \/ Reads(p) \/ Writes(p) \/ Checks(p)
  \/ Applies(p) \/ Targets(p) \/ Downloads(p) \/ Swaps(p) \/ Crashes(p)

Next == Publishes \/ \E p \in Procs : Step(p)

Spec == Init /\ [][Next]_vars

-----------------------------------------------------------------------------
(* Properties.                                                              *)

\* Whoever replaces the binary holds the update lock, may replace what a package manager
\* owns, and installs a release whose archive is not another than its checksums say (with
\* --strict: one both speak for).  Without --force it is newer than the one it replaces,
\* unless that was replaced since the process was started: an image compares with itself.
SwapsRightly ==
  installed' # installed =>
     /\ lock # None
     /\ LET p == proc[lock]
        IN  /\ managed => p.allow
            /\ evidence[installed'].checksum # "wrong"
            /\ p.strict => evidence[installed'] = [checksum |-> "right", signature |-> "right"]
            /\ (~p.force /\ p.image = installed) => installed' > installed

SwapsRight == [][SwapsRightly]_vars

\* "A pay invocation that finds a recorded pending version spawns a detached child to
\* perform the swap" (INSTALL.md): a child that lives ends for no reason of its parent's.
ChildrenMaySwap ==
  \A p \in Procs : (proc[p].child /\ ~managed) => proc[p].end # "operation_unsupported"
=============================================================================
