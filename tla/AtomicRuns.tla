----------------------------- MODULE AtomicRuns -----------------------------
(***************************************************************************)
(* What the discovery cache promises its readers (ARCHITECTURE 8.2, 8.7):  *)
(* a command answers from one discovery run at a time, and whatever schema *)
(* it is given for an entity is that run's, or it is given none.  There is *)
(* no disk here, no lock and no writer: each run is one atomic set.        *)
(***************************************************************************)
EXTENDS Naturals

CONSTANTS Readers, Entities

VARIABLES
  runs,   \* the number of discovery runs so far; runs are numbered from 1
  base,   \* per reader: the run it answers from, 0 if it has none
  view    \* per reader and entity: the run of the schema it was given, 0 if none

Blank == [e \in Entities |-> 0]

Init ==
  /\ runs \in {0, 1}
  /\ base = [r \in Readers |-> 0]
  /\ view = [r \in Readers |-> Blank]

Discover == runs' = runs + 1 /\ UNCHANGED <<base, view>>

\* A reader settles on a run while it has been given nothing yet.
Settle(r) ==
  /\ view[r] = Blank
  /\ \E g \in 1 .. runs : base' = [base EXCEPT ![r] = g]
  /\ UNCHANGED <<runs, view>>

Give(r, e) ==
  /\ base[r] # 0
  /\ view' = [view EXCEPT ![r][e] = base[r]]
  /\ UNCHANGED <<runs, base>>

Leave(r) ==
  /\ base' = [base EXCEPT ![r] = 0]
  /\ view' = [view EXCEPT ![r] = Blank]
  /\ UNCHANGED runs

Next ==
  \/ Discover
  \/ \E r \in Readers : Settle(r) \/ Leave(r) \/ \E e \in Entities : Give(r, e)

Spec == Init /\ [][Next]_<<runs, base, view>>
=============================================================================
