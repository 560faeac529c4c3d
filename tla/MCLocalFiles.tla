---------------------------- MODULE MCLocalFiles ----------------------------
(***************************************************************************)
(* Model checking of the components that keep files of their own beside   *)
(* the cache and the credentials: the audit log, self-update, the skills  *)
(* and the backups.  They share no file, so they are checked side by side: *)
(* a behaviour is one of one of them, chosen at the start.                 *)
(***************************************************************************)
EXTENDS AuditLog, TLC

CONSTANTS
  Runners,                       \* processes of self-update and skills
  Newest, Signs, MaxCommands,  \* see SelfUpdate
  MaxVersion, MaxRuns, MaxEdits, None,  \* see Skills
  Docs, MaxTime, MaxContent    \* see Backups

ASSUME UpdateAssumption == Newest \in Nat \ {0} /\ Signs \subseteq {"right", "absent", "wrong"}
\* None is no number, no word, no process, no file's content, no manifest and no document.
ASSUME NoneAssumption ==
  /\ None \notin Nat \cup Runners \cup {"ok"} /\ None \notin {"pay", "user"} \X (Nat \cup {None})
  /\ None \notin [files : [{1, 2} -> ({"pay"} \X (Nat \cup {None})) \cup {None}], revision : Nat \cup {None}]
  /\ None \notin [live : Nat \cup {None}, draft : Nat \cup {None}, trashed : BOOLEAN]

VARIABLES
  part,  \* whose behaviour it is
  uInstalled, uPublished, uEvidence, uManaged, uAuto, uState, uLock, uProc, uUsed,
  kDisk, kManifest, kBinary, kRevision, kProc, kRuns, kEdits, kTorn,
  bDocs, bFresh, bContent, bTime, bFiles, bProcs, bRan, bOverwritten, bReplaced, bCutoff

Update == INSTANCE SelfUpdate WITH
  Procs <- Runners, installed <- uInstalled, published <- uPublished, evidence <- uEvidence,
  managed <- uManaged, auto <- uAuto, state <- uState, lock <- uLock, proc <- uProc, used <- uUsed

Skill == INSTANCE Skills WITH
  Procs <- Runners, disk <- kDisk, manifest <- kManifest, binary <- kBinary, revision <- kRevision,
  proc <- kProc, runs <- kRuns, edits <- kEdits, torn <- kTorn

Vault == INSTANCE Backups WITH
  Processes <- Runners, MaxCommands <- MaxRuns, docs <- bDocs, fresh <- bFresh, content <- bContent,
  time <- bTime, files <- bFiles, procs <- bProcs, ran <- bRan, overwritten <- bOverwritten,
  replaced <- bReplaced, cutoff <- bCutoff

updateVars == <<uInstalled, uPublished, uEvidence, uManaged, uAuto, uState, uLock, uProc, uUsed>>
skillVars  == <<kDisk, kManifest, kBinary, kRevision, kProc, kRuns, kEdits, kTorn>>
backupVars == <<bDocs, bFresh, bContent, bTime, bFiles, bProcs, bRan, bOverwritten, bReplaced, bCutoff>>

LocalInit ==
  /\ part \in {"audit", "update", "skills", "backups"}
  /\ Init /\ Update!Init /\ Skill!Init /\ Vault!Init
  /\ uManaged => uAuto
  /\ part # "update" => ~uAuto
  /\ part # "skills" => kDisk = Skill!Nothing
  /\ part # "backups" => bDocs = Vault!Live

LocalNext ==
  \/ part = "audit"  /\ Next        /\ UNCHANGED <<part, updateVars, skillVars, backupVars>>
  \/ part = "update" /\ Update!Next /\ UNCHANGED <<part, vars, skillVars, backupVars>>
  \/ part = "skills" /\ Skill!Next  /\ UNCHANGED <<part, vars, updateVars, backupVars>>
  \/ part = "backups" /\ Vault!Next /\ UNCHANGED <<part, vars, updateVars, skillVars>>

LocalSpec == LocalInit /\ [][LocalNext]_<<part, vars, updateVars, skillVars, backupVars>>

Symmetry == Permutations(Runners)

\* See SelfUpdate.
SwapsRight == [][part = "update" => Update!SwapsRightly]_updateVars

\* See Skills.
SkillsRight == [](part = "skills" => Skill!InstallTrue) /\ [][part = "skills" => Skill!KeepsUserWork]_skillVars

\* See Backups.
BackupsHold == part = "backups" => Vault!BackupsHold
=============================================================================
