------------------------------ MODULE AuditLog ------------------------------
(***************************************************************************)
(* The audit log and its rotation (internal/audit).  A command that writes *)
(* to the server appends a record before the call and one after it; both   *)
(* first rotate the log if the record would not fit.  There is no lock: a  *)
(* step is one stat, remove, rename, open or write.                        *)
(*                                                                         *)
(* Left out: the text of a record and its redaction, Tail's filters.  A    *)
(* record is one unit of the log's size.                                   *)
(***************************************************************************)
EXTENDS Integers, Sequences, FiniteSets, SequencesExt

CONSTANTS
  Procs,        \* the processes
  Generations,  \* how many rotated files are kept
  MaxRecords,   \* MaxBytes, in records
  MaxOps,       \* bound: operations begun
  Faults        \* whether system calls fail and processes crash

ASSUME GenerationsAssumption == Generations \in Nat \ {0}
ASSUME MaxRecordsAssumption == MaxRecords \in Nat \ {0}
ASSUME MaxOpsAssumption == MaxOps \in Nat
ASSUME FaultsAssumption == Faults \in BOOLEAN

VARIABLES
  exists,   \* the files there are: 0 is the log, n is its n-th generation
  content,  \* the lines of each
  used,     \* how many operations were begun
  pc,       \* per process: the step it is about to take
  op,       \* per process: its operation
  phase,    \* per process: which record it is writing
  rot,      \* per process: the next file it renames
  fd,       \* per process: the file it has open, wherever it was renamed to
  order,    \* history: the records written, in order
  mutated,  \* history: the operations whose call was made
  fault     \* history: the worst fault so far, a line left without its end

hist == <<order, mutated, fault>>
vars == <<exists, content, used, pc, op, phase, rot, fd, hist>>

-----------------------------------------------------------------------------
Files  == 0 .. Generations
Phases == {"pre", "post"}
Gone   == Generations + 1

\* A line without its end, and one that began as such.
Torn   == [op |-> 0, phase |-> "torn"]
Broken == [op |-> 0, phase |-> "broken"]
Events == [op : 1 .. MaxOps, phase : Phases]
Lines  == Events \cup {Torn, Broken}

Event(p) == [op |-> op[p], phase |-> phase[p]]

\* O_APPEND: a line that has no end swallows the next one.
AddLine(s, e) ==
  IF s # <<>> /\ Last(s) = Torn THEN Front(s) \o <<Broken>> ELSE Append(s, e)

Lengthen(p, e) ==
  content' = [n \in Files |-> IF n = fd[p] THEN AddLine(content[n], e) ELSE content[n]]

-----------------------------------------------------------------------------
Init ==
  /\ exists = {} /\ content = [n \in Files |-> <<>>]
  /\ used = 0
  /\ pc = [p \in Procs |-> "idle"]
  /\ op = [p \in Procs |-> 0]
  /\ phase = [p \in Procs |-> "pre"]
  /\ rot = [p \in Procs |-> 0]
  /\ fd = [p \in Procs |-> Gone]
  /\ order = <<>> /\ mutated = {} /\ fault = "none"

Fault(kind) == fault' = IF fault = "torn" THEN fault ELSE kind

Goto(p, from, next) == pc[p] = from /\ pc' = [pc EXCEPT ![p] = next]

\* The process is done, or dead.
Exit(p) ==
  /\ pc'    = [pc EXCEPT ![p] = "idle"]
  /\ op'    = [op EXCEPT ![p] = 0]
  /\ phase' = [phase EXCEPT ![p] = "pre"]
  /\ rot'   = [rot EXCEPT ![p] = 0]
  /\ fd'    = [fd EXCEPT ![p] = Gone]

Start(p) ==
  /\ used < MaxOps /\ Goto(p, "idle", "stat")
  /\ used' = used + 1
  /\ op' = [op EXCEPT ![p] = used + 1]
  /\ UNCHANGED <<exists, content, phase, rot, fd, hist>>

\* rotateIfNeeded.
Stats(p) ==
  /\ Goto(p, "stat", IF 0 \notin exists \/ Len(content[0]) + 1 <= MaxRecords THEN "open" ELSE "remove")
  /\ UNCHANGED <<exists, content, used, op, phase, rot, fd, hist>>

\* Who has the replaced file open goes on writing to a file without a name.
Unlinked(n) == [q \in Procs |-> IF fd[q] = n THEN Gone ELSE fd[q]]

RemovesOldest(p) ==
  /\ Goto(p, "remove", "rename")
  /\ exists'  = exists \ {Generations}
  /\ content' = [content EXCEPT ![Generations] = <<>>]
  /\ fd'  = Unlinked(Generations)
  /\ rot' = [rot EXCEPT ![p] = Generations - 1]
  /\ UNCHANGED <<used, op, phase, hist>>

\* .n to .n+1, the log last; a file that is not there is passed over.
Renames(p) ==
  LET n == rot[p] IN
  /\ Goto(p, "rename", IF n = 0 THEN "open" ELSE "rename")
  /\ rot' = [rot EXCEPT ![p] = IF n = 0 THEN 0 ELSE n - 1]
  /\ IF n \in exists
       THEN /\ exists'  = (exists \ {n}) \cup {n + 1}
            /\ content' = [content EXCEPT ![n + 1] = content[n], ![n] = <<>>]
            /\ fd' = [q \in Procs |-> IF fd[q] = n THEN n + 1 ELSE Unlinked(n + 1)[q]]
       ELSE UNCHANGED <<exists, content, fd>>
  /\ UNCHANGED <<used, op, phase, hist>>

Opens(p) ==
  /\ Goto(p, "open", "append")
  /\ exists' = exists \cup {0}
  /\ fd' = [fd EXCEPT ![p] = 0]
  /\ UNCHANGED <<content, used, op, phase, rot, hist>>

\* The line is written and synced: on to the call, or the end.
Appends(p) ==
  /\ pc[p] = "append"
  /\ Lengthen(p, Event(p))
  /\ order' = Append(order, Event(p))
  /\ IF phase[p] = "pre"
       THEN /\ Goto(p, "append", "call")
            /\ fd' = [fd EXCEPT ![p] = Gone]
            /\ UNCHANGED <<op, phase, rot>>
       ELSE Exit(p)
  /\ UNCHANGED <<exists, used, mutated, fault>>

\* The call to the server, whatever it answers.
Calls(p) ==
  /\ Goto(p, "call", "stat")
  /\ mutated' = mutated \cup {op[p]}
  /\ phase' = [phase EXCEPT ![p] = "post"]
  /\ UNCHANGED <<exists, content, used, op, rot, fd, order, fault>>

\* Mutant: a failed Pre is a warning, as a failed Post is.
WriteFailsSoftly(p) ==
  /\ Faults /\ phase[p] = "pre" /\ pc[p] \in {"stat", "remove", "rename", "open", "append"}
  /\ pc' = [pc EXCEPT ![p] = "call"]
  /\ fd' = [fd EXCEPT ![p] = Gone]
  /\ UNCHANGED <<exists, content, used, op, phase, rot, hist>>

\* A step of write fails: Pre aborts the operation before its call, Post only
\* warns.  The write itself may have left nothing, all or part of the line.
WriteFails(p) ==
  /\ Faults /\ pc[p] \in {"stat", "remove", "rename", "open", "append"}
  /\ \/ UNCHANGED <<content, order>> /\ Fault("clean")
     \/ /\ pc[p] = "append" /\ Lengthen(p, Event(p)) /\ Fault("clean")
        /\ order' = Append(order, Event(p))
     \/ /\ pc[p] = "append" /\ Lengthen(p, Torn) /\ Fault("torn")
        /\ UNCHANGED order
  /\ Exit(p)
  /\ UNCHANGED <<exists, used, mutated>>

Crashes(p) ==
  /\ Faults /\ pc[p] # "idle"
  /\ Exit(p) /\ Fault("clean")
  /\ UNCHANGED <<exists, content, used, order, mutated>>

\* pay doctor: Writable creates the log.
Doctor ==
  /\ 0 \notin exists /\ exists' = exists \cup {0}
  /\ UNCHANGED <<content, used, pc, op, phase, rot, fd, hist>>

Next ==
  \/ Doctor
  \/ \E p \in Procs :
       \/ Start(p) \/ Stats(p) \/ RemovesOldest(p) \/ Renames(p) \/ Opens(p) \/ Appends(p)
       \/ Calls(p) \/ WriteFails(p) \/ Crashes(p)

Spec == Init /\ [][Next]_vars

-----------------------------------------------------------------------------
(* Properties.                                                              *)

\* The types of the variables; a file that is not there has no lines.
TypeOK ==
  /\ exists \subseteq Files
  /\ content \in [Files -> Seq(Lines)]
  /\ \A n \in Files \ exists : content[n] = <<>>
  /\ used \in 0 .. MaxOps
  /\ pc \in [Procs -> {"idle", "stat", "remove", "rename", "open", "append", "call"}]
  /\ op \in [Procs -> 0 .. MaxOps]
  /\ phase \in [Procs -> Phases]
  /\ rot \in [Procs -> 0 .. Generations - 1]
  /\ fd \in [Procs -> 0 .. Gone]
  /\ order \in Seq(Events)
  /\ mutated \subseteq 1 .. MaxOps
  /\ fault \in {"none", "clean", "torn"}

Survives(e) == \E n \in Files : e \in ToSet(content[n])

\* How many records were written after e.
Since(e) == Len(order) - (CHOOSE i \in DOMAIN order : order[i] = e)

\* "An interrupted destructive operation still leaves a trace": the record of a
\* call that was made is in the log or a generation of it, at least until a whole
\* file of later records was written.  A line that a full disk cut short swallows
\* the record after it; from then on nothing is claimed.
MutationTraced ==
  fault # "torn" => \A o \in mutated : LET e == [op |-> o, phase |-> "pre"] IN
    \/ Survives(e)
    \/ e \in ToSet(order) /\ Since(e) >= MaxRecords

\* As long as nothing failed, the last Generations * MaxRecords records are kept.
HistoryKept ==
  fault = "none" => \A i \in DOMAIN order : Len(order) - i < Generations * MaxRecords => Survives(order[i])

\* Processes that found room at the same time may exceed the limit by a record
\* each, and no more.
SizeBounded ==
  \A n \in Files : Len(content[n]) < MaxRecords + Cardinality(Procs)

\* Every call that was made is traced; rotation loses nothing it should keep and lets nothing
\* grow, and the files it moves stay what they are.
LogSound == TypeOK /\ MutationTraced /\ HistoryKept /\ SizeBounded
=============================================================================
