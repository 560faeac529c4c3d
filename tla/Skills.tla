------------------------------- MODULE Skills -------------------------------
(***************************************************************************)
(* The skills installer (internal/skills, pay skills).  install and update *)
(* copy SKILL.md, and PROJECT.md when the server could be asked, into an   *)
(* agent's directory, and then record in .pay-skill.json what they wrote;  *)
(* uninstall removes what still is as recorded.  A file that differs from  *)
(* its record was edited by the user, and is left alone without --force.   *)
(*                                                                         *)
(* Left out: all files but SKILL.md that come with the binary, and all     *)
(* directories but one, each of which is treated alike; --dry-run; status. *)
(***************************************************************************)
EXTENDS Integers, FiniteSets, FiniteSetsExt

CONSTANTS
  Procs,      \* processes
  MaxVersion, \* bound: binaries, and revisions of the discovery, are 1 .. MaxVersion
  MaxRuns,    \* bound: commands begun
  MaxEdits,   \* bound: what the user does to the files
  None

VARIABLES
  disk,      \* the files' contents
  manifest,  \* .pay-skill.json: the recorded contents, and the discovery revision
  binary,    \* the version at the binary's path
  revision,  \* the discovery's revision
  proc,      \* the processes
  runs,      \* commands begun
  edits,     \* edits so far
  torn       \* a command did not end, or two ran at once

vars == <<disk, manifest, binary, revision, proc, runs, edits, torn>>

\* In the order they are written.
Skill   == 1
Project == 2
Files   == {Skill, Project}

\* PayCLI's content of some version or revision, or the user's.
Pay(n)  == <<"pay", n>>
Users   == <<"user", 0>>
Nothing == [f \in Files |-> None]

\* A process: where it is, its command, the binary it is an image of, the revision it writes
\* PROJECT.md for, --force, the manifest it loaded, the files it has still to see to, the one
\* it is about to write or remove and what it found there, and what it will record.
Idle == [at |-> "idle", uninstall |-> FALSE, version |-> 0, project |-> None, force |-> FALSE,
         read |-> None, todo |-> {}, file |-> None, saw |-> None, next |-> Nothing]

Init ==
  /\ disk \in [Files -> {None, Users}] /\ manifest = None
  /\ binary = 1 /\ revision = 1
  /\ proc = [p \in Procs |-> Idle]
  /\ runs = 0 /\ edits = 0 /\ torn = FALSE

-----------------------------------------------------------------------------
\* Recorded: the manifest's record of a file, if it has one.
Recorded(m, f) == IF m = None THEN None ELSE m.files[f]

\* payload: PROJECT.md is left out when there is no content for it.
Payload(p) == IF proc[p].project = None THEN {Skill} ELSE Files
Want(p, f) == Pay(IF f = Skill THEN proc[p].version ELSE proc[p].project)

\* decide: whether a file is written.
Decide(have, want, recorded, force) ==
  have = None \/ (have # want /\ (have = recorded \/ force))

\* Mutant: what is there.
KeptAsFound(have, want, recorded) == have

\* What is recorded of a file that is not written: the content wanted if that is there, and
\* otherwise what was recorded before.
Kept(have, want, recorded) == IF have = want THEN want ELSE recorded

\* manifestFiles: an empty manifest falls back to what the binary would install.
ManifestFiles(m, version) == IF m.files = Nothing THEN [Nothing EXCEPT ![Skill] = Pay(version)] ELSE m.files

\* fileState: what pay skills status says of a file of the binary's.
FileState(f) ==
  CASE disk[f] = None                   -> "missing"
    [] disk[f] = Pay(binary)            -> "current"
    [] disk[f] \notin {None, Pay(binary)} /\ manifest = None -> "unknown"
    [] disk[f] \notin {None, Pay(binary)} /\ manifest # None ->
         IF Recorded(manifest, f) = disk[f] THEN "outdated" ELSE "modified"

-----------------------------------------------------------------------------
\* The user saves or removes a file, installs another binary, or discovers again.
Edits ==
  /\ edits < MaxEdits /\ edits' = edits + 1
  /\ \E f \in Files, c \in {Users, None} : disk[f] # c /\ disk' = [disk EXCEPT ![f] = c]
  /\ UNCHANGED <<manifest, binary, revision, proc, runs, torn>>

Upgrades ==
  /\ \/ binary < MaxVersion /\ binary' = binary + 1 /\ UNCHANGED revision
     \/ revision < MaxVersion /\ revision' = revision + 1 /\ UNCHANGED binary
  /\ UNCHANGED <<disk, manifest, proc, runs, edits, torn>>

Set(p, r) == proc' = [proc EXCEPT ![p] = r]

\* A command begins.  No project content without --with-project-context or when the server
\* could not be asked; only install and update have --force. The last command of the
\* bound runs alone.
Begins(p) ==
  /\ proc[p].at = "idle" /\ runs < MaxRuns /\ runs' = runs + 1
  /\ runs = MaxRuns - 1 => \A q \in Procs : proc[q].at = "idle"
  /\ \E uninstall, force \in BOOLEAN, project \in {None, revision} :
       /\ uninstall => ~force /\ project = None
       /\ Set(p, [Idle EXCEPT !.at = "load", !.version = binary, !.uninstall = uninstall,
                              !.force = force, !.project = project])
  /\ torn' = (torn \/ \E q \in Procs : proc[q].at # "idle")
  /\ UNCHANGED <<disk, manifest, binary, revision, edits>>

\* installTo and Uninstall begin with the manifest; without one nothing is uninstalled.
Loads(p) ==
  /\ proc[p].at = "load"
  /\ IF proc[p].uninstall
     THEN IF manifest = None
          THEN Set(p, Idle)
          ELSE LET files == ManifestFiles(manifest, proc[p].version)
               IN  Set(p, [proc[p] EXCEPT !.at = "look", !.read = manifest, !.next = files,
                                          !.todo = {f \in Files : files[f] # None}])
     ELSE Set(p, [proc[p] EXCEPT !.at = "look", !.read = manifest, !.todo = Payload(p)])
  /\ UNCHANGED <<disk, manifest, binary, revision, runs, edits, torn>>

\* The next file is read and judged: written, or left alone and recorded.
Looks(p) ==
  /\ proc[p].at = "look" /\ ~proc[p].uninstall /\ proc[p].todo # {}
  /\ LET f        == Min(proc[p].todo)
         recorded == Recorded(proc[p].read, f)
     IN  IF Decide(disk[f], Want(p, f), recorded, proc[p].force)
         THEN Set(p, [proc[p] EXCEPT !.at = "put", !.file = f, !.saw = disk[f], !.todo = @ \ {f}])
         ELSE Set(p, [proc[p] EXCEPT !.todo = @ \ {f},
                                     !.next[f] = Kept(disk[f], Want(p, f), recorded)])
  /\ UNCHANGED <<disk, manifest, binary, revision, runs, edits, torn>>

\* The write, by a rename; or it fails, and the command with it.
Puts(p) ==
  /\ proc[p].at = "put"
  /\ LET f == proc[p].file
     IN  \/ /\ disk' = [disk EXCEPT ![f] = Want(p, f)]
            /\ Set(p, [proc[p] EXCEPT !.at = "look", !.next[f] = Want(p, f), !.file = None, !.saw = None])
            /\ UNCHANGED torn
         \/ Set(p, Idle) /\ torn' = TRUE /\ UNCHANGED disk
  /\ UNCHANGED <<manifest, binary, revision, runs, edits>>

\* Mutant: an existing record is carried over.
NextManifestCarried(p) ==
  [files |-> IF proc[p].read = None THEN proc[p].next ELSE proc[p].read.files, revision |-> proc[p].project]

\* What is recorded: PROJECT.md's record is not carried over when it was not installed.
NextManifest(p) == [files |-> proc[p].next, revision |-> proc[p].project]

\* Save, last of all.
Saves(p) ==
  /\ proc[p].at = "look" /\ ~proc[p].uninstall /\ proc[p].todo = {}
  /\ \/ manifest' = NextManifest(p) /\ UNCHANGED torn
     \/ torn' = TRUE /\ UNCHANGED manifest
  /\ Set(p, Idle)
  /\ UNCHANGED <<disk, binary, revision, runs, edits>>

\* Uninstall reads the recorded files in any order.
LooksAgain(p) ==
  /\ proc[p].at = "look" /\ proc[p].uninstall
  /\ \E f \in proc[p].todo :
       IF disk[f] = proc[p].next[f]
       THEN Set(p, [proc[p] EXCEPT !.at = "remove", !.file = f, !.saw = disk[f], !.todo = @ \ {f}])
       ELSE Set(p, [proc[p] EXCEPT !.todo = @ \ {f}])
  /\ UNCHANGED <<disk, manifest, binary, revision, runs, edits, torn>>

\* The removal of a file that matched; or it fails.
Removes(p) ==
  /\ proc[p].at = "remove"
  /\ \/ /\ disk' = [disk EXCEPT ![proc[p].file] = None]
        /\ Set(p, [proc[p] EXCEPT !.at = "look", !.file = None, !.saw = None])
        /\ UNCHANGED torn
     \/ Set(p, Idle) /\ torn' = TRUE /\ UNCHANGED disk
  /\ UNCHANGED <<manifest, binary, revision, runs, edits>>

\* The manifest goes last, whatever was left.
Forgets(p) ==
  /\ proc[p].at = "look" /\ proc[p].uninstall /\ proc[p].todo = {}
  /\ \/ manifest' = None /\ UNCHANGED torn
     \/ torn' = TRUE /\ UNCHANGED manifest
  /\ Set(p, Idle)
  /\ UNCHANGED <<disk, binary, revision, runs, edits>>

\* The process is killed.
Crashes(p) ==
  /\ proc[p].at # "idle" /\ Set(p, Idle) /\ torn' = TRUE
  /\ UNCHANGED <<disk, manifest, binary, revision, runs, edits>>

Step(p) ==
  \/ Begins(p) \/ Loads(p) \/ Looks(p) \/ Puts(p) \/ Saves(p)
  \/ LooksAgain(p) \/ Removes(p) \/ Forgets(p) \/ Crashes(p)

Next == Edits \/ Upgrades \/ \E p \in Procs : Step(p)

Spec == Init /\ [][Next]_vars

-----------------------------------------------------------------------------
(* Properties.                                                              *)

\* "PayCLI never deletes your work": without --force nothing the user wrote is replaced or
\* removed, however many commands run at once or were broken off, unless the user saved it
\* after the file was read and before it was written.
KeepsUserWork ==
  \A f \in Files : (disk[f] = Users /\ disk'[f] # Users /\ edits' = edits) =>
     \E p \in Procs : proc'[p] # proc[p] /\ (proc[p].force \/ proc[p].saw # Users)

UserWorkKept == [][KeepsUserWork]_vars

\* "Modified means YOU edited that file": unless a command was broken off or two ran at
\* once, status never says so, nor that it does not know, of a SKILL.md that PayCLI wrote;
\* so no version refuses to upgrade what another installed.  Of PROJECT.md this is not so,
\* see README.
InstallTrue ==
  (~torn /\ (\A p \in Procs : proc[p].at = "idle") /\ disk[Skill] # Users) =>
     FileState(Skill) \in {"missing", "current", "outdated"}
=============================================================================
