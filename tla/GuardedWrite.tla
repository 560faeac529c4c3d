---------------------------- MODULE GuardedWrite ----------------------------
(***************************************************************************)
(* What every command that changes documents promises (internal/cli:       *)
(* writeOp.pre): a document is read and stored in a backup file before the *)
(* command changes it, and the audit log tells of the command before it    *)
(* changes anything.  Others may change documents at any time.             *)
(***************************************************************************)
EXTENDS Integers

CONSTANT Docs  \* the documents

None == -1     \* no backup of a document

VARIABLES
  rev,      \* how often each document was changed, by anyone
  saved,    \* the revision the command's backup of each document holds
  logged,   \* the command's pre-record is in the audit log
  changes,  \* how often the command changed each document
  guarded   \* backups are on, and the command knows what it will change

vars == <<rev, saved, logged, changes, guarded>>

Init ==
  /\ rev \in [Docs -> Nat] /\ saved = [d \in Docs |-> None]
  /\ changes = [d \in Docs |-> 0]
  /\ logged = FALSE /\ guarded \in BOOLEAN

\* Somebody else changes documents.
OthersChange ==
  /\ rev' \in [Docs -> Nat] /\ \A d \in Docs : rev'[d] >= rev[d]
  /\ UNCHANGED <<saved, logged, changes, guarded>>

\* Some documents are read and stored, none of them for a second time.
Saves ==
  /\ \E S \in SUBSET {d \in Docs : saved[d] = None} :
       saved' = [d \in Docs |-> IF d \in S THEN rev[d] ELSE saved[d]]
  /\ ~logged
  /\ UNCHANGED <<rev, logged, changes, guarded>>

\* The pre-record is written.
Logs == ~logged /\ logged' = TRUE /\ UNCHANGED <<rev, saved, changes, guarded>>

\* The command changes a document.
Changes(d) ==
  /\ logged
  /\ guarded => saved[d] # None
  /\ rev' = [rev EXCEPT ![d] = @ + 1]
  /\ changes' = [changes EXCEPT ![d] = @ + 1]
  /\ UNCHANGED <<saved, logged, guarded>>

Next == OthersChange \/ Saves \/ Logs \/ \E d \in Docs : Changes(d)

Spec == Init /\ [][Next]_vars
=============================================================================
