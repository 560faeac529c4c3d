-------------------------- MODULE LocalFilesProofs --------------------------
(***************************************************************************)
(* Theorems about the files pay keeps beside the cache and the             *)
(* credentials.  AuditLog: for any number of processes what their races    *)
(* cannot break, and for one process at a time all that is claimed of the  *)
(* log, for any sizes, any number of operations and any faults.  Then      *)
(* SelfUpdate, Skills and Backups, for any number of processes.            *)
(***************************************************************************)
EXTENDS MCLocalFiles, FiniteSetTheorems, TLAPS

USE GenerationsAssumption, MaxRecordsAssumption, MaxOpsAssumption

-----------------------------------------------------------------------------
(* Types.                                                                   *)

\* A process at work has an operation, and what it has open is there.
AtWork(p) == (pc[p] # "idle" => op[p] # 0) /\ fd[p] \in exists \cup {Gone}

Typed == TypeOK /\ \A p \in Procs : AtWork(p)

\* What a write leaves of a file: one line more, unless its last line has no end.
LEMMA AddLineIs ==
  ASSUME NEW s \in Seq(Lines), NEW e \in Lines
  PROVE  /\ AddLine(s, e) \in Seq(Lines)
         /\ Len(AddLine(s, e)) <= Len(s) + 1
         /\ Torn \notin ToSet(s) =>
              Len(AddLine(s, e)) = Len(s) + 1 /\ ToSet(AddLine(s, e)) = ToSet(s) \cup {e}
<1>1. CASE s # <<>> /\ Last(s) = Torn
  <2>1. Len(s) \in Nat /\ Len(s) > 0
    BY <1>1
  <2>2. Torn \in ToSet(s)
    BY <1>1, <2>1 DEF Last, ToSet
  <2>3. Front(s) \in Seq(Lines) /\ Len(Front(s)) = Len(s) - 1
    BY <2>1 DEF Front
  <2>4. Broken \in Lines
    BY DEF Lines
  <2>5. AddLine(s, e) = Front(s) \o <<Broken>>
    BY <1>1 DEF AddLine
  <2> HIDE DEF Broken
  <2>6. Front(s) \o <<Broken>> \in Seq(Lines) /\ Len(Front(s) \o <<Broken>>) = Len(s)
    BY <2>1, <2>3, <2>4
  <2> QED BY <2>1, <2>2, <2>5, <2>6
<1>2. CASE ~(s # <<>> /\ Last(s) = Torn)
  <2>1. AddLine(s, e) = Append(s, e)
    BY <1>2 DEF AddLine
  <2>2. ToSet(Append(s, e)) = ToSet(s) \cup {e}
    BY DEF ToSet
  <2> QED BY <2>1, <2>2
<1> QED BY <1>1, <1>2

LEMMA LengthenIs ==
  ASSUME Typed, NEW p \in Procs, NEW e \in Lines, Lengthen(p, e)
  PROVE  /\ content' \in [Files -> Seq(Lines)]
         /\ \A n \in Files \ exists : content'[n] = <<>>
<1>1. content' = [n \in Files |-> IF n = fd[p] THEN AddLine(content[n], e) ELSE content[n]]
  BY DEF Lengthen
<1>2. \A n \in Files : content[n] \in Seq(Lines)
  BY DEF Typed, TypeOK
<1>3. \A n \in Files : AddLine(content[n], e) \in Seq(Lines)
  BY <1>2, AddLineIs
<1>4. \A n \in Files \ exists : n # fd[p] /\ content[n] = <<>>
  <2>1. fd[p] \in exists \cup {Gone} /\ Gone \notin Files
    BY DEF Typed, AtWork, Gone, Files
  <2> QED BY <2>1 DEF Typed, TypeOK
<1> QED BY <1>1, <1>2, <1>3, <1>4

\* The record a process at work is about to write is one.
LEMMA EventIs ==
  ASSUME Typed, NEW p \in Procs, pc[p] # "idle"
  PROVE  Event(p) \in Events /\ Event(p) \in Lines
BY DEF Typed, TypeOK, AtWork, Event, Events, Lines, Phases

LEMMA TypedInit == Init => Typed
BY DEF Init, Typed, TypeOK, AtWork, Files, Phases, Gone

LEMMA ExitTypes ==
  ASSUME Typed, NEW p \in Procs, Exit(p), exists' = exists
  PROVE  /\ pc' \in [Procs -> {"idle", "stat", "remove", "rename", "open", "append", "call"}]
         /\ op' \in [Procs -> 0 .. MaxOps] /\ phase' \in [Procs -> Phases]
         /\ rot' \in [Procs -> 0 .. Generations - 1] /\ fd' \in [Procs -> 0 .. Gone]
         /\ \A q \in Procs : AtWork(q)'
<1>1. pc' \in [Procs -> {"idle", "stat", "remove", "rename", "open", "append", "call"}]
  BY DEF Exit, Typed, TypeOK
<1>2. op' \in [Procs -> 0 .. MaxOps] /\ rot' \in [Procs -> 0 .. Generations - 1]
  BY DEF Exit, Typed, TypeOK
<1>3. phase' \in [Procs -> Phases]
  BY DEF Exit, Typed, TypeOK, Phases
<1>4. fd' \in [Procs -> 0 .. Gone]
  BY DEF Exit, Typed, TypeOK, Gone
<1>5. ASSUME NEW q \in Procs PROVE AtWork(q)'
  BY DEF Exit, Typed, TypeOK, AtWork, Gone
<1> QED BY <1>1, <1>2, <1>3, <1>4, <1>5

LEMMA TypedNext == Typed /\ [Next]_vars => Typed'
<1> SUFFICES ASSUME Typed, [Next]_vars PROVE Typed'
  OBVIOUS
<1>0. /\ exists \subseteq Files /\ content \in [Files -> Seq(Lines)]
      /\ \A n \in Files \ exists : content[n] = <<>>
      /\ \A p \in Procs : AtWork(p)
  BY DEF Typed, TypeOK
<1>1. CASE UNCHANGED vars
  BY <1>1 DEF vars, hist, Typed, TypeOK, AtWork
<1>2. CASE Doctor
  BY <1>2 DEF Doctor, hist, Typed, TypeOK, AtWork, Files
<1>3. ASSUME NEW p \in Procs, Start(p) PROVE Typed'
  <2>1. used' \in 0 .. MaxOps /\ used + 1 \in 1 .. MaxOps
    BY <1>3 DEF Start, Typed, TypeOK
  <2>2. /\ pc' \in [Procs -> {"idle", "stat", "remove", "rename", "open", "append", "call"}]
        /\ op' \in [Procs -> 0 .. MaxOps]
    BY <1>3, <2>1 DEF Start, Goto, Typed, TypeOK
  <2>3. ASSUME NEW q \in Procs PROVE AtWork(q)'
    BY <1>0, <1>3, <2>1 DEF Start, Goto, Typed, TypeOK, AtWork
  <2> QED BY <1>3, <2>1, <2>2, <2>3 DEF Start, hist, Typed, TypeOK
<1>4. ASSUME NEW p \in Procs, Stats(p) PROVE Typed'
  <2>1. pc' \in [Procs -> {"idle", "stat", "remove", "rename", "open", "append", "call"}]
    BY <1>4 DEF Stats, Goto, Typed, TypeOK
  <2>2. ASSUME NEW q \in Procs PROVE AtWork(q)'
    BY <1>0, <1>4 DEF Stats, Goto, Typed, TypeOK, AtWork
  <2> QED BY <1>4, <2>1, <2>2 DEF Stats, hist, Typed, TypeOK
<1>5. ASSUME NEW p \in Procs, RemovesOldest(p) PROVE Typed'
  <2>1. pc' \in [Procs -> {"idle", "stat", "remove", "rename", "open", "append", "call"}]
    BY <1>5 DEF RemovesOldest, Goto, Typed, TypeOK
  <2>2. exists' \subseteq Files /\ rot' \in [Procs -> 0 .. Generations - 1]
    BY <1>0, <1>5 DEF RemovesOldest, Typed, TypeOK
  <2>3. content' \in [Files -> Seq(Lines)] /\ \A n \in Files \ exists' : content'[n] = <<>>
    BY <1>0, <1>5 DEF RemovesOldest, Files
  <2>4. \A q \in Procs : fd'[q] = IF fd[q] = Generations THEN Gone ELSE fd[q]
    BY <1>5 DEF RemovesOldest, Unlinked
  <2>5. fd' \in [Procs -> 0 .. Gone]
    BY <1>5 DEF RemovesOldest, Unlinked, Typed, TypeOK, Gone
  <2>6. ASSUME NEW q \in Procs PROVE AtWork(q)'
    BY <1>0, <1>5, <2>4 DEF RemovesOldest, Goto, Typed, TypeOK, AtWork
  <2> QED BY <1>5, <2>1, <2>2, <2>3, <2>5, <2>6 DEF RemovesOldest, hist, Typed, TypeOK
<1>6. ASSUME NEW p \in Procs, Renames(p) PROVE Typed'
  <2>1. pc' \in [Procs -> {"idle", "stat", "remove", "rename", "open", "append", "call"}]
    BY <1>6 DEF Renames, Goto, Typed, TypeOK
  <2>2. rot[p] \in 0 .. Generations - 1 /\ rot[p] \in Files /\ rot[p] + 1 \in Files
    BY DEF Typed, TypeOK, Files
  <2>3. rot' \in [Procs -> 0 .. Generations - 1]
    BY <1>6, <2>2 DEF Renames, Typed, TypeOK
  <2>4. CASE rot[p] \notin exists
    <3>1. ASSUME NEW q \in Procs PROVE AtWork(q)'
      BY <1>0, <1>6, <2>4 DEF Renames, Goto, Typed, TypeOK, AtWork
    <3> QED BY <1>6, <2>1, <2>3, <2>4, <3>1 DEF Renames, hist, Typed, TypeOK
  <2>5. CASE rot[p] \in exists
    <3>1. /\ exists' = (exists \ {rot[p]}) \cup {rot[p] + 1}
          /\ content' = [content EXCEPT ![rot[p] + 1] = content[rot[p]], ![rot[p]] = <<>>]
          /\ fd' = [q \in Procs |-> IF fd[q] = rot[p] THEN rot[p] + 1 ELSE Unlinked(rot[p] + 1)[q]]
      BY <1>6, <2>5 DEF Renames
    <3>2. exists' \subseteq Files
      BY <1>0, <2>2, <3>1
    <3>3. content' \in [Files -> Seq(Lines)] /\ \A n \in Files \ exists' : content'[n] = <<>>
      BY <1>0, <2>2, <3>1
    <3>4. \A q \in Procs : fd'[q] = IF fd[q] = rot[p] THEN rot[p] + 1
                                    ELSE IF fd[q] = rot[p] + 1 THEN Gone ELSE fd[q]
      BY <3>1 DEF Unlinked
    <3>5. fd' \in [Procs -> 0 .. Gone]
      <4>1. \A q \in Procs : fd'[q] \in 0 .. Gone
        <5>1. \A q \in Procs : fd[q] \in 0 .. Gone
          BY DEF Typed, TypeOK
        <5>2. rot[p] + 1 \in 0 .. Gone /\ Gone \in 0 .. Gone
          BY <2>2 DEF Gone, Files
        <5> QED BY <3>4, <5>1, <5>2
      <4> QED BY <3>1, <4>1
    <3>6. ASSUME NEW q \in Procs PROVE AtWork(q)'
      <4>1. fd[q] \in exists \cup {Gone} /\ (pc[q] # "idle" => op[q] # 0)
        BY <1>0 DEF AtWork
      <4>2. fd'[q] \in exists' \cup {Gone}
        BY <3>1, <3>4, <4>1
      <4>3. pc'[q] # "idle" => op'[q] # 0
        BY <1>6, <4>1 DEF Renames, Goto, Typed, TypeOK
      <4> QED BY <4>2, <4>3 DEF AtWork, Gone
    <3> QED BY <1>6, <2>1, <2>3, <3>2, <3>3, <3>5, <3>6 DEF Renames, hist, Typed, TypeOK
  <2> QED BY <2>4, <2>5
<1>7. ASSUME NEW p \in Procs, Opens(p) PROVE Typed'
  <2>1. pc' \in [Procs -> {"idle", "stat", "remove", "rename", "open", "append", "call"}]
    BY <1>7 DEF Opens, Goto, Typed, TypeOK
  <2>2. exists' \subseteq Files /\ fd' \in [Procs -> 0 .. Gone]
    BY <1>0, <1>7 DEF Opens, Typed, TypeOK, Files, Gone
  <2>3. ASSUME NEW q \in Procs PROVE AtWork(q)'
    BY <1>0, <1>7 DEF Opens, Goto, Typed, TypeOK, AtWork, Gone
  <2> QED BY <1>7, <2>1, <2>2, <2>3 DEF Opens, hist, Typed, TypeOK
<1>8. ASSUME NEW p \in Procs, Appends(p) PROVE Typed'
  <2>1. Event(p) \in Events /\ Event(p) \in Lines
    BY <1>8, EventIs DEF Appends
  <2>2. content' \in [Files -> Seq(Lines)] /\ \A n \in Files \ exists : content'[n] = <<>>
    BY <1>8, <2>1, LengthenIs DEF Appends
  <2>3. order' \in Seq(Events)
    BY <1>8, <2>1 DEF Appends, Typed, TypeOK
  <2>4. CASE phase[p] = "pre"
    <3>1. pc' \in [Procs -> {"idle", "stat", "remove", "rename", "open", "append", "call"}]
      BY <1>8, <2>4 DEF Appends, Goto, Typed, TypeOK
    <3>2. fd' \in [Procs -> 0 .. Gone]
      <4>1. fd' = [fd EXCEPT ![p] = Gone] /\ fd \in [Procs -> 0 .. Gone] /\ Gone \in 0 .. Gone
        BY <1>8, <2>4 DEF Appends, Typed, TypeOK, Gone
      <4> QED BY <4>1, Zenon
    <3>3. ASSUME NEW q \in Procs PROVE AtWork(q)'
      BY <1>0, <1>8, <2>4 DEF Appends, Goto, Typed, TypeOK, AtWork
    <3> QED BY <1>8, <2>2, <2>3, <2>4, <3>1, <3>2, <3>3 DEF Appends, Typed, TypeOK
  <2>5. CASE phase[p] # "pre"
    BY <1>8, <2>2, <2>3, <2>5, ExitTypes DEF Appends, Typed, TypeOK
  <2> QED BY <2>4, <2>5
<1>9. ASSUME NEW p \in Procs, Calls(p) PROVE Typed'
  <2>1. /\ pc' \in [Procs -> {"idle", "stat", "remove", "rename", "open", "append", "call"}]
        /\ phase' \in [Procs -> Phases]
    BY <1>9 DEF Calls, Goto, Typed, TypeOK, Phases
  <2>2. mutated' \subseteq 1 .. MaxOps
    <3>1. op[p] \in 1 .. MaxOps /\ mutated \subseteq 1 .. MaxOps
      <4>1. op[p] \in 0 .. MaxOps /\ op[p] # 0
        BY <1>0, <1>9 DEF Calls, Goto, Typed, TypeOK, AtWork
      <4> QED BY <4>1 DEF Typed, TypeOK
    <3>2. mutated' = mutated \cup {op[p]}
      BY <1>9 DEF Calls
    <3> QED BY <3>1, <3>2
  <2>3. ASSUME NEW q \in Procs PROVE AtWork(q)'
    BY <1>0, <1>9 DEF Calls, Goto, Typed, TypeOK, AtWork
  <2> QED BY <1>9, <2>1, <2>2, <2>3 DEF Calls, Typed, TypeOK
<1>10. ASSUME NEW p \in Procs, WriteFails(p) PROVE Typed'
  <2>1. Event(p) \in Events /\ Event(p) \in Lines /\ Torn \in Lines
    BY <1>10, EventIs DEF WriteFails, Lines
  <2>2. content' \in [Files -> Seq(Lines)] /\ \A n \in Files \ exists : content'[n] = <<>>
    BY <1>0, <1>10, <2>1, LengthenIs DEF WriteFails
  <2>3. order' \in Seq(Events)
    <3>1. order' = order \/ order' = Append(order, Event(p))
      BY <1>10 DEF WriteFails
    <3>2. order \in Seq(Events)
      BY DEF Typed, TypeOK
    <3> QED BY <2>1, <3>1, <3>2
  <2>4. fault' \in {"clean", "torn"}
    BY <1>10 DEF WriteFails, Fault
  <2> QED BY <1>10, <2>2, <2>3, <2>4, ExitTypes DEF WriteFails, Typed, TypeOK
<1>11. ASSUME NEW p \in Procs, Crashes(p) PROVE Typed'
  <2>1. fault' \in {"clean", "torn"}
    BY <1>11 DEF Crashes, Fault
  <2> QED BY <1>11, <2>1, ExitTypes DEF Crashes, Typed, TypeOK
<1> QED
  BY <1>1, <1>2, <1>3, <1>4, <1>5, <1>6, <1>7, <1>8, <1>9, <1>10, <1>11 DEF Next

\* The variables keep their types, and a file that is not there has no lines: whatever
\* processes rotate and write at once.
THEOREM TypeCorrect == Spec => []TypeOK
<1>1. Typed => TypeOK
  BY DEF Typed
<1> QED BY TypedInit, TypedNext, <1>1, PTL DEF Spec

-----------------------------------------------------------------------------
(* No file grows beyond its limit.                                          *)

\* Who found room and is yet to write to the n-th file: it has it open, or is about to
\* open the log.
Cleared(n) == {q \in Procs : (pc[q] = "append" /\ fd[q] = n) \/ (pc[q] = "open" /\ n = 0)}

\* What is in a file and what is still to come.
Room == \A n \in Files : Len(content[n]) + Cardinality(Cleared(n)) < MaxRecords + Cardinality(Procs)

LEMMA ClearedCount ==
  ASSUME IsFiniteSet(Procs)
  PROVE  /\ Cardinality(Procs) \in Nat
         /\ \A S \in SUBSET Procs : /\ IsFiniteSet(S) /\ Cardinality(S) \in Nat
                                   /\ Cardinality(S) <= Cardinality(Procs)
         /\ \A S, T \in SUBSET Procs : S \subseteq T => Cardinality(S) <= Cardinality(T)
         /\ \A S \in SUBSET Procs, p \in Procs :
              p \in S => Cardinality(S \ {p}) = Cardinality(S) - 1
<1>1. \A S \in SUBSET Procs : IsFiniteSet(S)
  BY FS_Subset
<1>2. \A S, T \in SUBSET Procs : S \subseteq T => Cardinality(S) <= Cardinality(T)
  BY <1>1, FS_Subset
<1>3. \A S \in SUBSET Procs, p \in Procs : p \in S => Cardinality(S \ {p}) = Cardinality(S) - 1
  BY <1>1, FS_RemoveElement
<1> QED BY <1>1, <1>2, <1>3, FS_CardinalityType

LEMMA RoomInit == ASSUME IsFiniteSet(Procs) PROVE Init => Room
<1> SUFFICES ASSUME Init, NEW n \in Files
             PROVE  Len(content[n]) + Cardinality(Cleared(n)) < MaxRecords + Cardinality(Procs)
  BY DEF Room
<1>1. Len(content[n]) = 0
  BY DEF Init
<1>2. Cleared(n) \in SUBSET Procs
  BY DEF Cleared
<1> QED BY <1>1, <1>2, ClearedCount

\* A step that clears nobody for a file and does not lengthen it leaves room in it.
LEMMA RoomStays ==
  ASSUME IsFiniteSet(Procs), Typed, Room, NEW n \in Files, NEW m \in Files,
         Len(content'[n]) <= Len(content[m]), Len(content'[n]) \in Nat,
         Cleared(n)' \subseteq Cleared(m)
  PROVE  Len(content'[n]) + Cardinality(Cleared(n)') < MaxRecords + Cardinality(Procs)
<1>1. /\ Cleared(m) \in SUBSET Procs /\ Cleared(n)' \in SUBSET Procs
      /\ Len(content[m]) \in Nat
  BY DEF Cleared, Typed, TypeOK
<1>2. Cardinality(Cleared(n)') <= Cardinality(Cleared(m))
  BY <1>1, ClearedCount
<1>3. Cardinality(Cleared(n)') \in Nat /\ Cardinality(Cleared(m)) \in Nat /\ Cardinality(Procs) \in Nat
  BY <1>1, ClearedCount
<1>4. Len(content[m]) + Cardinality(Cleared(m)) < MaxRecords + Cardinality(Procs)
  BY DEF Room
<1> QED BY <1>1, <1>2, <1>3, <1>4

\* In a file that is not full there is room for everybody.
LEMMA RoomForAll ==
  ASSUME IsFiniteSet(Procs), NEW n \in Files, Len(content'[n]) \in Nat, Len(content'[n]) < MaxRecords
  PROVE  Len(content'[n]) + Cardinality(Cleared(n)') < MaxRecords + Cardinality(Procs)
<1>1. Cleared(n)' \in SUBSET Procs
  BY DEF Cleared
<1>2. /\ Cardinality(Cleared(n)') <= Cardinality(Procs)
      /\ Cardinality(Cleared(n)') \in Nat /\ Cardinality(Procs) \in Nat
  BY <1>1, ClearedCount
<1> QED BY <1>2

\* A record takes the room of the process that was cleared for it.
LEMMA WriteTakesRoom ==
  ASSUME IsFiniteSet(Procs), Typed, Room, NEW p \in Procs, pc[p] = "append",
         NEW e \in Lines, Lengthen(p, e), content' \in [Files -> Seq(Lines)],
         \A n \in Files : Cleared(n)' \subseteq Cleared(n) \ {p}
  PROVE  Room'
<1> SUFFICES ASSUME NEW n \in Files
             PROVE  Len(content'[n]) + Cardinality(Cleared(n)') < MaxRecords + Cardinality(Procs)
  BY DEF Room
<1>1. content[n] \in Seq(Lines) /\ content'[n] \in Seq(Lines)
  BY DEF Typed, TypeOK
<1>2. CASE n # fd[p]
  <2>1. content'[n] = content[n]
    BY <1>2 DEF Lengthen
  <2> QED BY <1>1, <2>1, RoomStays
<1>3. CASE n = fd[p]
  <2>1. p \in Cleared(n) /\ Cleared(n) \in SUBSET Procs /\ Cleared(n)' \in SUBSET Procs
    BY <1>3 DEF Cleared
  <2>2. Cardinality(Cleared(n)') <= Cardinality(Cleared(n)) - 1
    <3>1. Cleared(n) \ {p} \in SUBSET Procs /\ Cleared(n)' \subseteq Cleared(n) \ {p}
      BY <2>1
    <3>2. Cardinality(Cleared(n)') <= Cardinality(Cleared(n) \ {p})
      BY <2>1, <3>1, ClearedCount
    <3>3. Cardinality(Cleared(n) \ {p}) = Cardinality(Cleared(n)) - 1
      BY <2>1, ClearedCount
    <3> QED BY <3>2, <3>3
  <2>3. Len(content'[n]) <= Len(content[n]) + 1
    BY <1>1, <1>3, AddLineIs DEF Lengthen
  <2>4. /\ Cardinality(Cleared(n)') \in Nat /\ Cardinality(Cleared(n)) \in Nat
        /\ Cardinality(Procs) \in Nat /\ Len(content'[n]) \in Nat /\ Len(content[n]) \in Nat
    BY <1>1, <2>1, ClearedCount
  <2>5. Len(content[n]) + Cardinality(Cleared(n)) < MaxRecords + Cardinality(Procs)
    BY DEF Room
  <2> QED BY <2>2, <2>3, <2>4, <2>5
<1> QED BY <1>2, <1>3

LEMMA RoomNext == ASSUME IsFiniteSet(Procs) PROVE Typed /\ Typed' /\ Room /\ [Next]_vars => Room'
<1> SUFFICES ASSUME Typed, Typed', Room, [Next]_vars PROVE Room'
  OBVIOUS
<1>0. /\ content' \in [Files -> Seq(Lines)] /\ content \in [Files -> Seq(Lines)]
      /\ \A n \in Files : Len(content[n]) \in Nat /\ Len(content'[n]) \in Nat
      /\ 0 \in Files /\ \A n \in Files \ exists : content[n] = <<>>
  BY DEF Typed, TypeOK, Files
<1>1. ASSUME content' = content, \A n \in Files : Cleared(n)' \subseteq Cleared(n) PROVE Room'
  BY <1>0, <1>1, RoomStays DEF Room
<1>2. CASE UNCHANGED vars \/ Doctor
  BY <1>1, <1>2 DEF vars, Doctor, Cleared
<1>3. ASSUME NEW p \in Procs, Start(p) \/ Calls(p) PROVE Room'
  <2>1. content' = content /\ fd' = fd
    BY <1>3 DEF Start, Calls
  <2>2. \A q \in Procs : pc'[q] \in {"append", "open"} => pc'[q] = pc[q]
    BY <1>3 DEF Start, Calls, Goto, Typed, TypeOK
  <2> QED BY <1>1, <2>1, <2>2 DEF Cleared
<1>4. ASSUME NEW p \in Procs, Stats(p) PROVE Room'
  <2>1. content' = content /\ fd' = fd
    BY <1>4 DEF Stats
  <2>2. \A q \in Procs : pc'[q] = "append" => pc[q] = "append"
    BY <1>4 DEF Stats, Goto, Typed, TypeOK
  <2>3. CASE 0 \notin exists \/ Len(content[0]) + 1 <= MaxRecords
    <3>1. Len(content'[0]) < MaxRecords
      BY <1>0, <2>1, <2>3
    <3>2. ASSUME NEW n \in Files \ {0} PROVE Cleared(n)' \subseteq Cleared(n)
      BY <2>1, <2>2, <3>2 DEF Cleared
    <3>3. ASSUME NEW n \in Files
          PROVE  Len(content'[n]) + Cardinality(Cleared(n)') < MaxRecords + Cardinality(Procs)
      <4>1. CASE n = 0
        BY <1>0, <3>1, <4>1, RoomForAll
      <4>2. CASE n # 0
        <5>1. Cleared(n)' \subseteq Cleared(n) /\ Len(content'[n]) <= Len(content[n])
          BY <1>0, <2>1, <3>2, <4>2
        <5> QED BY <1>0, <5>1, RoomStays
      <4> QED BY <4>1, <4>2
    <3> QED BY <3>3 DEF Room
  <2>4. CASE ~(0 \notin exists \/ Len(content[0]) + 1 <= MaxRecords)
    <3>1. \A q \in Procs : pc'[q] \in {"append", "open"} => pc'[q] = pc[q]
      BY <1>4, <2>4 DEF Stats, Goto, Typed, TypeOK
    <3> QED BY <1>1, <2>1, <3>1 DEF Cleared
  <2> QED BY <2>3, <2>4
<1>5. ASSUME NEW p \in Procs, RemovesOldest(p) PROVE Room'
  <2>1. content' = [content EXCEPT ![Generations] = <<>>] /\ Generations \in Files
    BY <1>5 DEF RemovesOldest, Files
  <2>2. \A q \in Procs : pc'[q] \in {"append", "open"} => pc'[q] = pc[q]
    BY <1>5 DEF RemovesOldest, Goto, Typed, TypeOK
  <2>3. \A q \in Procs : fd'[q] = IF fd[q] = Generations THEN Gone ELSE fd[q]
    BY <1>5 DEF RemovesOldest, Unlinked
  <2>4. ASSUME NEW n \in Files
        PROVE  Len(content'[n]) + Cardinality(Cleared(n)') < MaxRecords + Cardinality(Procs)
    <3>1. Cleared(n)' \subseteq Cleared(n)
      <4>1. Gone # n
        BY DEF Gone, Files
      <4> QED BY <2>2, <2>3, <4>1 DEF Cleared
    <3>2. Len(content'[n]) <= Len(content[n])
      BY <1>0, <2>1
    <3> QED BY <1>0, <3>1, <3>2, RoomStays
  <2> QED BY <2>4 DEF Room
<1>6. ASSUME NEW p \in Procs, Renames(p) PROVE Room'
  <2> DEFINE r == rot[p]
  <2>1. r \in Files /\ r + 1 \in Files /\ r # r + 1
    <3>1. r \in 0 .. Generations - 1
      BY DEF Typed, TypeOK
    <3> HIDE DEF r
    <3> QED BY <3>1 DEF Files
  <2>2. \A q \in Procs : pc'[q] = "append" => pc[q] = "append"
    BY <1>6 DEF Renames, Goto, Typed, TypeOK
  <2>3. r # 0 => \A q \in Procs : pc'[q] = "open" => pc[q] = "open"
    BY <1>6 DEF Renames, Goto, Typed, TypeOK
  <2>4. CASE r \notin exists
    <3>1. content' = content /\ fd' = fd
      BY <1>6, <2>4 DEF Renames
    <3>2. ASSUME NEW n \in Files
          PROVE  Len(content'[n]) + Cardinality(Cleared(n)') < MaxRecords + Cardinality(Procs)
      <4>1. CASE n = 0 /\ r = 0
        <5>1. Len(content'[0]) < MaxRecords
          BY <1>0, <2>4, <3>1, <4>1
        <5> QED BY <1>0, <4>1, <5>1, RoomForAll
      <4>2. CASE n # 0 \/ r # 0
        <5>1. Cleared(n)' \subseteq Cleared(n)
          BY <2>2, <2>3, <3>1, <4>2 DEF Cleared
        <5> QED BY <1>0, <3>1, <5>1, RoomStays
      <4> QED BY <4>1, <4>2
    <3> QED BY <3>2 DEF Room
  <2>5. CASE r \in exists
    <3>1. /\ content' = [content EXCEPT ![r + 1] = content[r], ![r] = <<>>]
          /\ fd' = [q \in Procs |-> IF fd[q] = r THEN r + 1 ELSE Unlinked(r + 1)[q]]
      BY <1>6, <2>5 DEF Renames
    <3>2. \A q \in Procs : fd'[q] = IF fd[q] = r THEN r + 1 ELSE IF fd[q] = r + 1 THEN Gone ELSE fd[q]
      BY <3>1 DEF Unlinked
    <3>3. /\ content'[r] = <<>> /\ content'[r + 1] = content[r]
          /\ \A n \in Files \ {r, r + 1} : content'[n] = content[n]
      BY <1>0, <2>1, <3>1
    <3>4. ASSUME NEW n \in Files
          PROVE  Len(content'[n]) + Cardinality(Cleared(n)') < MaxRecords + Cardinality(Procs)
      <4>1. CASE n = r
        <5>1. Len(content'[n]) < MaxRecords
          BY <3>3, <4>1
        <5> QED BY <1>0, <5>1, RoomForAll
      <4>2. CASE n = r + 1
        <5>1. Cleared(n)' \subseteq Cleared(r)
          <6>1. \A q \in Procs : fd'[q] = n => fd[q] = r
            BY <2>1, <3>2, <4>2 DEF Gone, Files
          <6>2. n # 0
            BY <2>1, <4>2 DEF Files
          <6> QED BY <2>2, <6>1, <6>2 DEF Cleared
        <5>2. Len(content'[n]) <= Len(content[r]) /\ Len(content'[n]) \in Nat
          BY <1>0, <2>1, <3>3, <4>2
        <5> QED BY <2>1, <5>1, <5>2, RoomStays
      <4>3. CASE n \notin {r, r + 1}
        <5>1. Cleared(n)' \subseteq Cleared(n)
          <6>1. \A q \in Procs : fd'[q] = n => fd[q] = n
            BY <2>1, <3>2, <4>3 DEF Gone, Files
          <6>2. n = 0 => r # 0
            BY <4>3
          <6> QED BY <2>2, <2>3, <6>1, <6>2 DEF Cleared
        <5>2. Len(content'[n]) <= Len(content[n]) /\ Len(content'[n]) \in Nat
          BY <1>0, <3>3, <4>3
        <5> QED BY <5>1, <5>2, RoomStays
      <4> QED BY <4>1, <4>2, <4>3
    <3> QED BY <3>4 DEF Room
  <2> QED BY <2>4, <2>5
<1>7. ASSUME NEW p \in Procs, Opens(p) PROVE Room'
  <2>1. content' = content /\ pc[p] = "open"
    BY <1>7 DEF Opens, Goto
  <2>2. \A q \in Procs : q # p => pc'[q] = pc[q] /\ fd'[q] = fd[q]
    BY <1>7 DEF Opens, Goto, Typed, TypeOK
  <2>3. fd'[p] = 0 /\ pc'[p] = "append"
    BY <1>7 DEF Opens, Goto, Typed, TypeOK
  <2>4. ASSUME NEW n \in Files PROVE Cleared(n)' \subseteq Cleared(n)
    BY <2>1, <2>2, <2>3 DEF Cleared
  <2> QED BY <1>1, <2>1, <2>4
<1>8. ASSUME NEW p \in Procs, Exit(p) PROVE \A n \in Files : Cleared(n)' \subseteq Cleared(n) \ {p}
  <2>1. \A q \in Procs : q # p => pc'[q] = pc[q] /\ fd'[q] = fd[q]
    BY <1>8 DEF Exit, Typed, TypeOK
  <2>2. pc'[p] = "idle"
    BY <1>8 DEF Exit, Typed, TypeOK
  <2> QED BY <2>1, <2>2 DEF Cleared
<1>9. ASSUME NEW p \in Procs, Appends(p) PROVE Room'
  <2>1. pc[p] = "append" /\ Lengthen(p, Event(p)) /\ Event(p) \in Lines
    BY <1>9, EventIs DEF Appends
  <2>2. CASE phase[p] = "pre"
    <3>1. \A q \in Procs : q # p => pc'[q] = pc[q] /\ fd'[q] = fd[q]
      BY <1>9, <2>2 DEF Appends, Goto, Typed, TypeOK
    <3>2. pc'[p] = "call"
      BY <1>9, <2>2 DEF Appends, Goto, Typed, TypeOK
    <3>3. \A n \in Files : Cleared(n)' \subseteq Cleared(n) \ {p}
      BY <3>1, <3>2 DEF Cleared
    <3> QED BY <1>0, <2>1, <3>3, WriteTakesRoom
  <2>3. CASE phase[p] # "pre"
    <3>1. \A n \in Files : Cleared(n)' \subseteq Cleared(n) \ {p}
      BY <1>8, <1>9, <2>3 DEF Appends
    <3> QED BY <1>0, <2>1, <3>1, WriteTakesRoom
  <2> QED BY <2>2, <2>3
<1>10. ASSUME NEW p \in Procs, WriteFails(p) \/ Crashes(p) PROVE Room'
  <2>1. \A n \in Files : Cleared(n)' \subseteq Cleared(n) \ {p}
    BY <1>8, <1>10 DEF WriteFails, Crashes
  <2>2. \/ content' = content
        \/ pc[p] = "append" /\ \E e \in {Event(p), Torn} : Lengthen(p, e)
    BY <1>10 DEF WriteFails, Crashes
  <2>3. pc[p] = "append" => Event(p) \in Lines /\ Torn \in Lines
    BY EventIs DEF Lines
  <2> QED BY <1>0, <1>1, <2>1, <2>2, <2>3, WriteTakesRoom
<1> QED
  BY <1>2, <1>3, <1>4, <1>5, <1>6, <1>7, <1>9, <1>10 DEF Next

LEMMA RoomIsEnough == ASSUME IsFiniteSet(Procs), Room, Typed PROVE SizeBounded
<1> SUFFICES ASSUME NEW n \in Files PROVE Len(content[n]) < MaxRecords + Cardinality(Procs)
  BY DEF SizeBounded
<1>1. Cleared(n) \in SUBSET Procs
  BY DEF Cleared
<1>2. /\ Cardinality(Cleared(n)) \in Nat /\ Cardinality(Procs) \in Nat
      /\ Len(content[n]) \in Nat
  BY <1>1, ClearedCount DEF Typed, TypeOK
<1> QED BY <1>2 DEF Room

\* However many processes find room at the same time, no file exceeds the limit by more than
\* a record each.
THEOREM SizesBounded == ASSUME IsFiniteSet(Procs) PROVE Spec => []SizeBounded
<1>1. Room /\ Typed => SizeBounded
  BY RoomIsEnough
<1>2. Init => Room
  BY RoomInit
<1>3. Typed /\ Typed' /\ Room /\ [Next]_vars => Room'
  BY RoomNext
<1> QED BY TypedInit, TypedNext, <1>1, <1>2, <1>3, PTL DEF Spec

-----------------------------------------------------------------------------
(* One process at a time.                                                   *)

PreOf(o) == [op |-> o, phase |-> "pre"]

\* The process writes to the log itself, rotates it only when it is full, and calls the
\* server only when the record of the call is written.
InStep(p) ==
  /\ pc[p] = "append" => fd[p] = 0
  /\ pc[p] \in {"remove", "rename"} => Len(content[0]) >= MaxRecords
  /\ pc[p] = "call" => PreOf(op[p]) \in ToSet(order)

Traced == \A o \in mutated : PreOf(o) \in ToSet(order)

\* Until a line was cut short: no file holds such a line, the log holds the last records
\* there are, as many as it has lines, and the last MaxRecords survive somewhere.
Whole ==
  fault # "torn" =>
    /\ \A n \in Files : Torn \notin ToSet(content[n])
    /\ \A i \in DOMAIN order :
         Len(order) - i < Len(content[0]) => order[i] \in ToSet(content[0])
    /\ \A i \in DOMAIN order : Len(order) - i < MaxRecords => Survives(order[i])

\* A record that K full generations behind the log have room for.
Behind(i, K) == Len(order) - i < Len(content[0]) + K * MaxRecords

Held(i, S) == \E n \in S : order[i] \in ToSet(content[n])

\* Between rotations a record is no further back than it must be.
Settled == \A i \in DOMAIN order, K \in 0 .. Generations : Behind(i, K) => Held(i, 0 .. K)

\* While generation r is about to be renamed those behind it have moved on by one.
Moved(r, K) == {n \in Files : (n <= K /\ n <= r) \/ (r + 2 <= n /\ n <= K + 1)}
Moving(r)   == \A i \in DOMAIN order, K \in 0 .. Generations - 1 :
                 Behind(i, K) => Held(i, Moved(r, K))

Kept(p) == fault = "none" => IF pc[p] = "rename" THEN Moving(rot[p]) ELSE Settled

LogInv(p) == InStep(p) /\ Traced /\ Whole /\ Kept(p)

LEMMA Times ==
  \A K \in Nat : /\ K * MaxRecords \in Nat
                 /\ (K + 1) * MaxRecords = K * MaxRecords + MaxRecords
<1> SUFFICES ASSUME NEW K \in Nat
             PROVE  K * MaxRecords \in Nat /\ (K + 1) * MaxRecords = K * MaxRecords + MaxRecords
  OBVIOUS
<1>1. MaxRecords \in Nat
  OBVIOUS
<1> QED BY <1>1

LEMMA LogInit == ASSUME NEW p \in Procs PROVE Init => LogInv(p)
<1> SUFFICES ASSUME Init PROVE LogInv(p)
  OBVIOUS
<1>1. /\ order = <<>> /\ mutated = {} /\ pc[p] = "idle" /\ DOMAIN order = {}
      /\ \A n \in Files : content[n] = <<>> /\ ToSet(content[n]) = {}
  BY DEF Init, ToSet
<1> QED BY <1>1 DEF LogInv, InStep, Traced, Whole, Kept, Settled

\* A record that is written is the last there is, in the log, and takes no other one's place.
LEMMA WriteKeeps ==
  ASSUME Typed, NEW p \in Procs, pc[p] = "append", fd[p] = 0, fault # "torn", Whole,
         Lengthen(p, Event(p)), order' = Append(order, Event(p))
  PROVE  /\ \A n \in Files : Torn \notin ToSet(content'[n])
         /\ \A i \in DOMAIN order' :
              Len(order') - i < Len(content'[0]) => order'[i] \in ToSet(content'[0])
         /\ \A i \in DOMAIN order' : Len(order') - i < MaxRecords => Survives(order[i])' \/ i = Len(order')
         /\ order'[Len(order')] \in ToSet(content'[0])
         /\ ToSet(order') = ToSet(order) \cup {Event(p)}
         /\ Settled => Settled'
<1> DEFINE e == Event(p)
<1>0. e \in Events /\ e \in Lines /\ order \in Seq(Events)
  BY EventIs DEF Typed, TypeOK
<1>1. e # Torn
  BY <1>0 DEF Events, Torn, Phases
<1>2. /\ content[0] \in Seq(Lines) /\ 0 \in Files /\ Torn \notin ToSet(content[0])
      /\ \A n \in Files : content[n] \in Seq(Lines)
  BY DEF Typed, TypeOK, Files, Whole
<1>3. content' = [n \in Files |-> IF n = 0 THEN AddLine(content[n], e) ELSE content[n]]
  BY DEF Lengthen
<1> HIDE DEF e
<1>4. /\ Len(content'[0]) = Len(content[0]) + 1 /\ ToSet(content'[0]) = ToSet(content[0]) \cup {e}
      /\ \A n \in Files \ {0} : content'[n] = content[n]
  BY <1>0, <1>2, <1>3, AddLineIs
<1>5. /\ Len(order') = Len(order) + 1 /\ Len(order) \in Nat /\ Len(content[0]) \in Nat
      /\ order'[Len(order) + 1] = e
      /\ DOMAIN order = 1 .. Len(order) /\ DOMAIN order' = 1 .. Len(order) + 1
      /\ \A i \in 1 .. Len(order) : order'[i] = order[i]
  BY <1>0, <1>2 DEF e
<1>6. \A n \in Files : Torn \notin ToSet(content'[n])
  BY <1>1, <1>4 DEF Whole
<1>7. ASSUME NEW i \in DOMAIN order' PROVE i = Len(order') \/ i \in DOMAIN order
  BY <1>5, <1>7
<1>8. \A i \in DOMAIN order' :
        Len(order') - i < Len(content'[0]) => order'[i] \in ToSet(content'[0])
  <2> SUFFICES ASSUME NEW i \in DOMAIN order', Len(order') - i < Len(content'[0])
               PROVE  order'[i] \in ToSet(content'[0])
    OBVIOUS
  <2>1. CASE i = Len(order')
    BY <1>4, <1>5, <2>1
  <2>2. CASE i \in DOMAIN order
    <3>1. Len(order) - i < Len(content[0])
      BY <1>4, <1>5, <2>2
    <3> QED BY <1>4, <1>5, <2>2, <3>1 DEF Whole
  <2> QED BY <1>7, <2>1, <2>2
<1>9. \A n \in Files : ToSet(content[n]) \subseteq ToSet(content'[n])
  BY <1>4
<1>10. \A i \in DOMAIN order' : Len(order') - i < MaxRecords => Survives(order[i])' \/ i = Len(order')
  <2> SUFFICES ASSUME NEW i \in DOMAIN order', Len(order') - i < MaxRecords, i # Len(order')
               PROVE  Survives(order[i])'
    OBVIOUS
  <2>1. i \in DOMAIN order /\ Len(order) - i < MaxRecords /\ order'[i] = order[i]
    BY <1>5, <1>7
  <2> QED BY <1>9, <2>1 DEF Whole, Survives
<1>11. ToSet(order') = ToSet(order) \cup {e}
  BY <1>5 DEF ToSet
<1>12. Settled => Settled'
  <2> SUFFICES ASSUME Settled, NEW i \in DOMAIN order', NEW K \in 0 .. Generations, Behind(i, K)'
               PROVE  Held(i, 0 .. K)'
    BY DEF Settled
  <2>1. CASE i = Len(order')
    BY <1>4, <1>5, <2>1 DEF Held
  <2>2. CASE i \in DOMAIN order
    <3>1. K * MaxRecords \in Nat
      BY Times
    <3>2. Behind(i, K)
      <4>1. Len(order') - i < Len(content'[0]) + K * MaxRecords
        BY DEF Behind
      <4>2. \A x \in Nat : Len(order') - i < Len(content'[0]) + x
                             => Len(order) - i < Len(content[0]) + x
        BY <1>4, <1>5, <2>2
      <4> QED BY <3>1, <4>1, <4>2 DEF Behind
    <3>3. PICK n \in 0 .. K : order[i] \in ToSet(content[n])
      BY <2>2, <3>2 DEF Settled, Held
    <3>4. n \in Files
      BY <3>3 DEF Files
    <3> QED BY <1>5, <1>9, <2>2, <3>3, <3>4 DEF Held
  <2> QED BY <1>7, <2>1, <2>2
<1> QED BY <1>4, <1>5, <1>6, <1>8, <1>10, <1>11, <1>12 DEF e

\* One rename moves on what it renames, and nothing else.
LEMMA RenameMoves ==
  ASSUME Typed, NEW p \in Procs, Renames(p), InStep(p)
  PROVE  /\ rot[p] \in 0 .. Generations - 1 /\ pc[p] = "rename" /\ Len(content[0]) >= MaxRecords
         /\ rot[p] = 0 => content'[0] = <<>>
         /\ rot[p] # 0 => content'[0] = content[0] /\ rot'[p] = rot[p] - 1 /\ pc'[p] = "rename"
         /\ rot[p] = 0 => pc'[p] = "open"
         /\ \A n \in Files \ {rot[p], rot[p] + 1} : content'[n] = content[n]
         /\ \/ content'[rot[p] + 1] = content[rot[p]] /\ content'[rot[p]] = <<>>
            \/ content[rot[p]] = <<>> /\ rot[p] # 0 /\ content' = content
<1>1. rot[p] \in 0 .. Generations - 1 /\ pc[p] = "rename" /\ Len(content[0]) >= MaxRecords
  BY DEF Renames, Goto, InStep, Typed, TypeOK
<1>2. /\ rot[p] \in Files /\ rot[p] + 1 \in Files /\ content \in [Files -> Seq(Lines)]
      /\ rot[p] # rot[p] + 1 /\ 0 \in Files /\ rot[p] + 1 # 0
  BY <1>1 DEF Typed, TypeOK, Files
<1>3. /\ rot[p] # 0 => rot'[p] = rot[p] - 1 /\ pc'[p] = "rename"
      /\ rot[p] = 0 => pc'[p] = "open"
  BY DEF Renames, Goto, Typed, TypeOK
<1>4. 0 \in exists
  <2>1. Len(<<>>) = 0 /\ content[0] # <<>>
    BY <1>1
  <2> QED BY <1>2, <2>1 DEF Typed, TypeOK
<1>5. CASE rot[p] \in exists
  <2>1. content' = [content EXCEPT ![rot[p] + 1] = content[rot[p]], ![rot[p]] = <<>>]
    BY <1>5 DEF Renames
  <2> QED BY <1>1, <1>2, <1>3, <2>1
<1>6. CASE rot[p] \notin exists
  <2>1. content' = content /\ content[rot[p]] = <<>> /\ rot[p] # 0
    BY <1>2, <1>4, <1>6 DEF Renames, Typed, TypeOK
  <2> QED BY <1>1, <1>2, <1>3, <2>1
<1> QED BY <1>5, <1>6

\* What is renamed is still there, under the next name.
LEMMA MovedOn ==
  ASSUME Typed, NEW p \in Procs, Renames(p), InStep(p), NEW n \in Files, n # rot[p] + 1,
         NEW x, x \in ToSet(content[n])
  PROVE  IF n = rot[p] THEN x \in ToSet(content'[rot[p] + 1]) ELSE x \in ToSet(content'[n])
<1>1. ToSet(<<>>) = {}
  BY DEF ToSet
<1>2. CASE n = rot[p]
  BY <1>1, <1>2, RenameMoves
<1>3. CASE n # rot[p]
  BY <1>3, RenameMoves
<1> QED BY <1>2, <1>3

LEMMA RotationKeeps ==
  ASSUME Typed, NEW p \in Procs, Renames(p), InStep(p), Kept(p)
  PROVE  Kept(p)'
<1>0. order' = order /\ fault' = fault
  BY DEF Renames, hist
<1> SUFFICES ASSUME fault = "none" PROVE IF pc'[p] = "rename" THEN Moving(rot[p])' ELSE Settled'
  BY <1>0 DEF Kept
<1>1. /\ rot[p] \in 0 .. Generations - 1 /\ pc[p] = "rename" /\ Len(content[0]) >= MaxRecords
      /\ rot[p] = 0 => content'[0] = <<>>
      /\ rot[p] # 0 => content'[0] = content[0] /\ rot'[p] = rot[p] - 1 /\ pc'[p] = "rename"
      /\ rot[p] = 0 => pc'[p] = "open"
  BY RenameMoves
<1>2. Moving(rot[p])
  BY <1>1 DEF Kept
<1>3. /\ DOMAIN order = 1 .. Len(order) /\ Len(order) \in Nat /\ Len(content[0]) \in Nat
      /\ MaxRecords \in Nat /\ Generations \in Nat
  BY DEF Typed, TypeOK, Files
<1>4. CASE rot[p] # 0
  <2> SUFFICES ASSUME NEW i \in DOMAIN order, NEW K \in 0 .. Generations - 1, Behind(i, K)
               PROVE  \E m \in Moved(rot'[p], K) : order'[i] \in ToSet(content'[m])
    <3>1. pc'[p] = "rename" /\ \A i \in DOMAIN order, K \in 0 .. Generations - 1 :
                                 Behind(i, K)' => Behind(i, K)
      BY <1>0, <1>1, <1>4 DEF Behind
    <3> QED BY <1>0, <3>1 DEF Moving, Held
  <2>1. PICK n \in Moved(rot[p], K) : order[i] \in ToSet(content[n])
    BY <1>2 DEF Moving, Held
  <2>2. n \in Files /\ n # rot[p] + 1
    BY <1>1, <2>1 DEF Moved, Files
  <2>3. n = rot[p] => rot[p] + 1 \in Moved(rot[p] - 1, K)
    BY <1>1, <1>4, <2>1 DEF Moved, Files
  <2>4. n # rot[p] => n \in Moved(rot[p] - 1, K)
    BY <1>1, <1>4, <2>1 DEF Moved, Files
  <2>5. rot'[p] = rot[p] - 1
    BY <1>1, <1>4
  <2> QED BY <1>0, <2>1, <2>2, <2>3, <2>4, <2>5, MovedOn
<1>5. CASE rot[p] = 0
  <2> SUFFICES ASSUME NEW i \in DOMAIN order, NEW K \in 0 .. Generations, Behind(i, K)'
               PROVE  Held(i, 0 .. K)'
    BY <1>0, <1>1, <1>5 DEF Settled
  <2>1. Len(order) - i < K * MaxRecords
    <3>1. Len(order') - i < Len(content'[0]) + K * MaxRecords
      BY DEF Behind
    <3>2. Len(content'[0]) = 0 /\ K * MaxRecords \in Nat
      BY <1>1, <1>5, Times
    <3> QED BY <1>0, <1>3, <3>1, <3>2
  <2>2. K # 0
    <3>1. 0 * MaxRecords = 0
      BY <1>3
    <3> QED BY <1>3, <2>1, <3>1
  <2>3. K - 1 \in 0 .. Generations - 1 /\ K = (K - 1) + 1
    BY <1>3, <2>2
  <2>4. Behind(i, K - 1)
    <3>1. (K - 1) * MaxRecords \in Nat /\ K * MaxRecords = (K - 1) * MaxRecords + MaxRecords
      BY <2>3, Times
    <3>2. \A x \in Nat : Len(order) - i < x + MaxRecords => Len(order) - i < Len(content[0]) + x
      BY <1>1, <1>3
    <3> QED BY <2>1, <3>1, <3>2 DEF Behind
  <2>5. PICK n \in Moved(0, K - 1) : order[i] \in ToSet(content[n])
    BY <1>2, <1>5, <2>3, <2>4 DEF Moving, Held
  <2>6. n \in Files /\ n # 1 /\ n \in 0 .. K
    BY <2>3, <2>5 DEF Moved, Files
  <2>7. \E m \in 0 .. K : order'[i] \in ToSet(content'[m])
    BY <1>0, <1>5, <2>2, <2>5, <2>6, MovedOn
  <2> QED BY <2>7 DEF Held
<1> QED BY <1>4, <1>5

\* While the log is full, what is behind it does not count for what it must hold.
LEMMA FullLog ==
  ASSUME Typed, Whole, fault # "torn", Len(content[0]) >= MaxRecords, NEW i \in DOMAIN order,
         Len(order) - i < MaxRecords
  PROVE  order[i] \in ToSet(content[0])
<1>1. Len(order) \in Nat /\ Len(content[0]) \in Nat /\ DOMAIN order = 1 .. Len(order)
  BY DEF Typed, TypeOK, Files
<1>2. Len(order) - i < Len(content[0])
  BY <1>1
<1> QED BY <1>2 DEF Whole

LEMMA RotationWhole ==
  ASSUME Typed, NEW p \in Procs, Renames(p), InStep(p), Whole
  PROVE  Whole'
<1>0. order' = order /\ fault' = fault
  BY DEF Renames, hist
<1> SUFFICES ASSUME fault # "torn"
    PROVE  /\ \A n \in Files : Torn \notin ToSet(content'[n])
           /\ \A i \in DOMAIN order :
                Len(order) - i < Len(content'[0]) => order[i] \in ToSet(content'[0])
           /\ \A i \in DOMAIN order : Len(order) - i < MaxRecords =>
                \E n \in Files : order[i] \in ToSet(content'[n])
  BY <1>0 DEF Whole, Survives
<1>1. /\ rot[p] \in 0 .. Generations - 1 /\ Len(content[0]) >= MaxRecords
      /\ rot[p] = 0 => content'[0] = <<>>
      /\ rot[p] # 0 => content'[0] = content[0]
      /\ \A n \in Files \ {rot[p], rot[p] + 1} : content'[n] = content[n]
      /\ \/ content'[rot[p] + 1] = content[rot[p]] /\ content'[rot[p]] = <<>>
         \/ content[rot[p]] = <<>> /\ rot[p] # 0 /\ content' = content
  BY RenameMoves
<1>2. rot[p] \in Files /\ rot[p] + 1 \in Files /\ 0 \in Files
  BY <1>1 DEF Files
<1>3. ToSet(<<>>) = {} /\ Len(<<>>) = 0
  BY DEF ToSet
<1>4. \A n \in Files : \E m \in Files : content'[n] = <<>> \/ content'[n] = content[m]
  BY <1>1, <1>2
<1>5. \A n \in Files : Torn \notin ToSet(content'[n])
  BY <1>3, <1>4 DEF Whole
<1>6. ASSUME NEW i \in DOMAIN order, Len(order) - i < Len(content'[0])
      PROVE  order[i] \in ToSet(content'[0])
  <2>1. CASE rot[p] = 0
    <3>1. Len(order) \in Nat /\ DOMAIN order = 1 .. Len(order)
      BY DEF Typed, TypeOK
    <3> QED BY <1>1, <1>3, <1>6, <2>1, <3>1
  <2>2. CASE rot[p] # 0
    BY <1>1, <1>6, <2>2 DEF Whole
  <2> QED BY <2>1, <2>2
<1>7. ASSUME NEW i \in DOMAIN order, Len(order) - i < MaxRecords
      PROVE  \E n \in Files : order[i] \in ToSet(content'[n])
  <2>1. order[i] \in ToSet(content[0])
    BY <1>1, <1>7, FullLog
  <2>2. CASE rot[p] = 0
    BY <1>1, <1>2, <2>1, <2>2
  <2>3. CASE rot[p] # 0
    BY <1>1, <1>2, <2>1, <2>3
  <2> QED BY <2>2, <2>3
<1> QED BY <1>5, <1>6, <1>7

LEMMA ExitLog ==
  ASSUME Typed, NEW p \in Procs, Exit(p)
  PROVE  pc'[p] = "idle" /\ InStep(p)'
BY DEF Exit, Typed, TypeOK, InStep

LEMMA LogNext ==
  ASSUME NEW p, Procs = {p}
  PROVE  Typed /\ LogInv(p) /\ [Next]_vars => LogInv(p)'
<1> SUFFICES ASSUME Typed, LogInv(p), [Next]_vars PROVE LogInv(p)'
  OBVIOUS
<1>0. p \in Procs /\ InStep(p) /\ Traced /\ Whole /\ Kept(p)
  BY DEF LogInv
<1>1. ASSUME UNCHANGED <<content, order, fault>> PROVE Whole' /\ (Settled => Settled')
  BY <1>0, <1>1 DEF Whole, Survives, Settled, Behind, Held
<1>2. CASE UNCHANGED vars \/ Doctor
  <2>1. UNCHANGED <<content, order, fault, mutated, pc, op, fd, rot>>
    BY <1>2 DEF vars, hist, Doctor
  <2>2. InStep(p)' /\ Traced' /\ Kept(p)'
    BY <1>0, <2>1 DEF InStep, Traced, Kept, Settled, Moving, Moved, Behind, Held
  <2> QED BY <1>1, <2>1, <2>2 DEF LogInv
<1>3. CASE Start(p) \/ Stats(p) \/ Opens(p) \/ Calls(p)
  <2>1. UNCHANGED <<content, order, fault>>
    BY <1>3 DEF Start, Stats, Opens, Calls, hist
  <2>2. pc[p] \notin {"rename"} /\ pc'[p] \notin {"rename", "call"}
    BY <1>3 DEF Start, Stats, Opens, Calls, Goto, Typed, TypeOK
  <2>3. InStep(p)'
    <3>1. pc'[p] = "append" => fd'[p] = 0
      BY <1>3 DEF Start, Stats, Opens, Calls, Goto, Typed, TypeOK
    <3>2. pc'[p] = "remove" => Len(content[0]) >= MaxRecords
      <4>1. Len(content[0]) \in Nat
        BY DEF Typed, TypeOK, Files
      <4> QED BY <1>3, <4>1 DEF Start, Stats, Opens, Calls, Goto, Typed, TypeOK
    <3> QED BY <2>1, <2>2, <3>1, <3>2 DEF InStep
  <2>4. Traced'
    <3>1. CASE Start(p) \/ Stats(p) \/ Opens(p)
      <4>1. mutated' = mutated
        BY <3>1 DEF Start, Stats, Opens, hist
      <4> QED BY <1>0, <2>1, <4>1 DEF Traced
    <3>2. CASE Calls(p)
      <4>1. mutated' = mutated \cup {op[p]} /\ PreOf(op[p]) \in ToSet(order)
        BY <1>0, <3>2 DEF Calls, Goto, InStep
      <4> QED BY <1>0, <2>1, <4>1 DEF Traced
    <3> QED BY <1>3, <3>1, <3>2
  <2>5. Kept(p)'
    BY <1>0, <1>1, <2>1, <2>2 DEF Kept
  <2> QED BY <1>1, <2>1, <2>3, <2>4, <2>5 DEF LogInv
<1>4. CASE RemovesOldest(p)
  <2>1. /\ content' = [content EXCEPT ![Generations] = <<>>] /\ pc[p] = "remove"
        /\ UNCHANGED <<order, fault, mutated>>
    BY <1>4 DEF RemovesOldest, Goto, hist
  <2>2. pc'[p] = "rename" /\ rot'[p] = Generations - 1
    BY <1>4 DEF RemovesOldest, Goto, Typed, TypeOK
  <2>3. /\ 0 \in Files /\ Generations \in Files /\ 0 # Generations
        /\ content \in [Files -> Seq(Lines)]
    BY DEF Files, Typed, TypeOK
  <2>4. /\ content'[0] = content[0] /\ content'[Generations] = <<>>
        /\ \A n \in Files \ {Generations} : content'[n] = content[n]
    BY <2>1, <2>3
  <2>5. Len(content[0]) >= MaxRecords
    BY <1>0, <2>1 DEF InStep
  <2>6. InStep(p)' /\ Traced'
    BY <1>0, <2>1, <2>2, <2>4, <2>5 DEF InStep, Traced
  <2>7. Whole'
    <3> SUFFICES ASSUME fault # "torn"
        PROVE  /\ \A n \in Files : Torn \notin ToSet(content'[n])
               /\ \A i \in DOMAIN order : Len(order) - i < Len(content[0]) => order[i] \in ToSet(content[0])
               /\ \A i \in DOMAIN order : Len(order) - i < MaxRecords =>
                    \E n \in Files : order[i] \in ToSet(content'[n])
      BY <2>1, <2>4 DEF Whole, Survives
    <3>1. ToSet(<<>>) = {}
      BY DEF ToSet
    <3>2. \A n \in Files : Torn \notin ToSet(content'[n])
      BY <1>0, <2>4, <3>1 DEF Whole
    <3>3. \A i \in DOMAIN order : Len(order) - i < MaxRecords => order[i] \in ToSet(content'[0])
      BY <1>0, <2>4, <2>5, FullLog
    <3> QED BY <1>0, <2>3, <3>2, <3>3 DEF Whole
  <2>8. Kept(p)'
    <3> SUFFICES ASSUME fault = "none" PROVE Moving(rot[p])'
      BY <2>1, <2>2 DEF Kept
    <3>1. Settled
      BY <1>0, <2>1 DEF Kept
    <3> SUFFICES ASSUME NEW i \in DOMAIN order, NEW K \in 0 .. Generations - 1, Behind(i, K)
                 PROVE  \E n \in Moved(Generations - 1, K) : order[i] \in ToSet(content'[n])
      <4>1. \A i \in DOMAIN order, K \in 0 .. Generations - 1 : Behind(i, K)' => Behind(i, K)
        BY <2>1, <2>4 DEF Behind
      <4> QED BY <2>1, <2>2, <4>1 DEF Moving, Held
    <3>2. PICK n \in 0 .. K : order[i] \in ToSet(content[n])
      BY <3>1 DEF Settled, Held
    <3>3. n \in Moved(Generations - 1, K) /\ n # Generations /\ n \in Files
      BY <3>2 DEF Moved, Files
    <3> QED BY <2>4, <3>2, <3>3
  <2> QED BY <2>6, <2>7, <2>8 DEF LogInv
<1>5. CASE Renames(p)
  <2>1. order' = order /\ mutated' = mutated
    BY <1>5 DEF Renames, hist
  <2>2. InStep(p)'
    BY <1>0, <1>5, RenameMoves DEF InStep
  <2> QED BY <1>0, <1>5, <2>1, <2>2, RotationKeeps, RotationWhole DEF LogInv, Traced
<1>6. CASE Appends(p)
  <2>1. /\ pc[p] = "append" /\ fd[p] = 0 /\ Lengthen(p, Event(p)) /\ order' = Append(order, Event(p))
        /\ fault' = fault /\ mutated' = mutated
    BY <1>0, <1>6 DEF Appends, InStep
  <2>2. ToSet(order') = ToSet(order) \cup {Event(p)}
    <3>1. order \in Seq(Events) /\ Event(p) \in Events
      BY <2>1, EventIs DEF Typed, TypeOK
    <3> QED BY <2>1, <3>1 DEF ToSet
  <2>3. Traced'
    BY <1>0, <2>1, <2>2 DEF Traced
  <2>4. InStep(p)' /\ pc'[p] \notin {"rename"}
    <3>1. CASE phase[p] = "pre"
      <4>1. pc'[p] = "call" /\ op' = op /\ Event(p) = PreOf(op[p])
        BY <1>6, <3>1 DEF Appends, Goto, Typed, TypeOK, Event, PreOf
      <4> QED BY <2>2, <4>1 DEF InStep
    <3>2. CASE phase[p] # "pre"
      BY <1>6, <3>2, ExitLog DEF Appends
    <3> QED BY <3>1, <3>2
  <2>5. Whole'
    <3> SUFFICES ASSUME fault # "torn" PROVE Whole'
      BY <2>1 DEF Whole
    <3>1. 0 \in Files
      BY DEF Files
    <3>2. \A i \in DOMAIN order' : Len(order') - i < MaxRecords => Survives(order[i])'
      BY <1>0, <2>1, <3>1, WriteKeeps DEF Survives
    <3> QED BY <1>0, <2>1, <3>2, WriteKeeps DEF Whole
  <2>6. Kept(p)'
    BY <1>0, <2>1, <2>4, WriteKeeps DEF Kept
  <2> QED BY <2>3, <2>4, <2>5, <2>6 DEF LogInv
<1>7. CASE WriteFails(p) \/ Crashes(p)
  <2>0. fault' # "torn" => fault # "torn"
    BY <1>7 DEF WriteFails, Crashes, Fault
  <2>1. /\ fault' # "none" /\ mutated' = mutated /\ Exit(p)
        /\ fault' # "torn" =>
              /\ fault # "torn"
              /\ \/ UNCHANGED <<content, order>>
                 \/ /\ pc[p] = "append" /\ Lengthen(p, Event(p))
                    /\ order' = Append(order, Event(p))
    BY <1>7 DEF WriteFails, Crashes, Fault
  <2>2. Kept(p)' /\ InStep(p)'
    BY <2>1, <1>0, ExitLog DEF Kept
  <2>3. Traced'
    <3>1. \/ order' = order
          \/ pc[p] = "append" /\ order' = Append(order, Event(p))
      BY <1>7 DEF WriteFails, Crashes
    <3>2. ToSet(order) \subseteq ToSet(order')
      <4>1. order \in Seq(Events) /\ (pc[p] = "append" => Event(p) \in Events)
        BY <1>0, EventIs DEF Typed, TypeOK
      <4> QED BY <3>1, <4>1 DEF ToSet
    <3> QED BY <1>0, <2>1, <3>2 DEF Traced
  <2>4. Whole'
    <3> SUFFICES ASSUME fault' # "torn" PROVE Whole'
      BY DEF Whole
    <3>1. CASE UNCHANGED <<content, order>>
      BY <1>0, <2>1, <3>1 DEF Whole, Survives
    <3>2. CASE pc[p] = "append" /\ Lengthen(p, Event(p)) /\ order' = Append(order, Event(p))
      <4>0. 0 \in Files /\ fd[p] = 0
        BY <1>0, <3>2 DEF InStep, Files
      <4>1. fd[p] = 0 /\ fault # "torn" /\ 0 \in Files
        BY <2>0, <4>0
      <4>2. \A i \in DOMAIN order' : Len(order') - i < MaxRecords => Survives(order[i])'
        BY <1>0, <3>2, <4>1, WriteKeeps DEF Survives
      <4> QED BY <1>0, <3>2, <4>1, <4>2, WriteKeeps DEF Whole
    <3> QED BY <2>1, <3>1, <3>2
  <2> QED BY <2>2, <2>3, <2>4 DEF LogInv
<1> QED
  BY <1>0, <1>2, <1>3, <1>4, <1>5, <1>6, <1>7 DEF Next

\* The last MaxRecords records of a process that works alone survive, whatever fails short of
\* a torn line; and the last Generations * MaxRecords, if nothing fails.
LEMMA SoundWhen ==
  ASSUME NEW p, Procs = {p}, Typed, LogInv(p), Room
  PROVE  LogSound
<1>0. p \in Procs /\ InStep(p) /\ Traced /\ Whole /\ Kept(p)
  BY DEF LogInv
<1>1. /\ order \in Seq(Events) /\ Len(order) \in Nat /\ DOMAIN order = 1 .. Len(order)
      /\ Len(content[0]) \in Nat /\ MaxRecords \in Nat /\ Generations \in Nat
  BY DEF Typed, TypeOK, Files
<1>2. MutationTraced
  <2> SUFFICES ASSUME fault # "torn", NEW o \in mutated
               PROVE  \/ Survives(PreOf(o))
                      \/ PreOf(o) \in ToSet(order) /\ Since(PreOf(o)) >= MaxRecords
    BY DEF MutationTraced, PreOf
  <2>1. PreOf(o) \in ToSet(order)
    BY <1>0 DEF Traced
  <2> DEFINE i == CHOOSE j \in DOMAIN order : order[j] = PreOf(o)
  <2>2. i \in DOMAIN order /\ order[i] = PreOf(o)
    <3>1. \E j \in DOMAIN order : order[j] = PreOf(o)
      BY <2>1 DEF ToSet
    <3> QED BY <3>1
  <2>3. Since(PreOf(o)) = Len(order) - i
    BY DEF Since
  <2> HIDE DEF i
  <2>4. Len(order) - i < MaxRecords => Survives(order[i])
    BY <1>0, <2>2 DEF Whole
  <2> QED BY <1>1, <2>1, <2>2, <2>3, <2>4
<1>3. HistoryKept
  <2> SUFFICES ASSUME fault = "none", NEW j \in DOMAIN order,
                      Len(order) - j < Generations * MaxRecords
               PROVE  Survives(order[j])
    BY DEF HistoryKept
  <2>1. CASE pc[p] # "rename"
    <3>1. Generations * MaxRecords \in Nat
      BY <1>1, Times
    <3>2. \A x \in Nat : Len(order) - j < x => Len(order) - j < Len(content[0]) + x
      BY <1>1
    <3>3. Behind(j, Generations)
      BY <3>1, <3>2 DEF Behind
    <3>4. Held(j, 0 .. Generations)
      BY <1>0, <1>1, <2>1, <3>3 DEF Kept, Settled
    <3> QED BY <3>4 DEF Held, Survives, Files
  <2>2. CASE pc[p] = "rename"
    <3>1. Len(content[0]) >= MaxRecords
      BY <1>0, <2>2 DEF InStep
    <3>2. Generations - 1 \in Nat /\ Generations = (Generations - 1) + 1
      OBVIOUS
    <3>3. /\ (Generations - 1) * MaxRecords \in Nat
          /\ Generations * MaxRecords = (Generations - 1) * MaxRecords + MaxRecords
      BY <3>2, Times
    <3>4. \A x \in Nat : Len(order) - j < x + MaxRecords => Len(order) - j < Len(content[0]) + x
      BY <1>1, <3>1
    <3>5. Behind(j, Generations - 1)
      BY <3>3, <3>4 DEF Behind
    <3>6. Held(j, Moved(rot[p], Generations - 1))
      BY <1>0, <2>2, <3>2, <3>5 DEF Kept, Moving
    <3> QED BY <3>6 DEF Held, Survives, Moved
  <2> QED BY <2>1, <2>2
<1>4. SizeBounded
  BY RoomIsEnough, FS_Singleton
<1> QED BY <1>2, <1>3, <1>4 DEF LogSound, Typed

\* For a process that works alone the log keeps what it promises: every call to the server is
\* traced, rotation loses no record that the generations have room for, and nothing grows.
THEOREM LogIsSound == ASSUME NEW p, Procs = {p} PROVE Spec => []LogSound
<1>1. IsFiniteSet(Procs) /\ p \in Procs
  BY FS_Singleton
<1>2. Init => Typed /\ LogInv(p) /\ Room
  BY <1>1, TypedInit, LogInit, RoomInit
<1>3. (Typed /\ LogInv(p) /\ Room) /\ [Next]_vars => (Typed /\ LogInv(p) /\ Room)'
  BY <1>1, TypedNext, LogNext, RoomNext
<1>4. Typed /\ LogInv(p) /\ Room => LogSound
  BY SoundWhen
<1> QED BY <1>2, <1>3, <1>4, PTL DEF Spec

-----------------------------------------------------------------------------
(* Self-update.                                                             *)

Released == 1 .. uPublished

Outcomes == {"verification_failed", "unverifiable", "verified", None}
UPlaces  == {"idle", "command", "check", "apply", "target", "download", "swap", "reads", "writes"}
Nexts    == {"checked", "rejected", "swapped", "failed", None}
UEnds    == Nexts \cup {"ok", "operation_unsupported", "skipped", "already up to date", "killed"}

UState == [pending : Update!Versions \cup {None}, outcome : Outcomes]

UProc == [at : UPlaces, image : Nat, child : BOOLEAN, force : BOOLEAN, strict : BOOLEAN, allow : BOOLEAN,
          tag : Update!Versions \cup {None}, outcome : Outcomes, read : UState, next : Nexts, end : UEnds]

Evidence == [checksum : {"right", "absent", "wrong"}, signature : {"right", "absent", "wrong"}]

UpdateType ==
  /\ uInstalled \in Update!Versions /\ uPublished \in Update!Versions
  /\ uEvidence \in [Update!Versions -> Evidence]
  /\ uState \in UState /\ uState.pending \in Released \cup {None}
  /\ uLock \in Runners \cup {None} /\ uProc \in [Runners -> UProc]

\* What came with a release lets it be installed.
Vouched(tag, strict) ==
  /\ uEvidence[tag].checksum # "wrong"
  /\ strict => uEvidence[tag] = [checksum |-> "right", signature |-> "right"]

\* A process about to replace the binary has the lock and may replace it; what it is about
\* is published, newer unless forced, and, once downloaded, vouched for.
Entitled(p, r) ==
  /\ r.tag \in Released \cup {None} /\ r.read.pending \in Released \cup {None}
  /\ r.at \in {"target", "download", "swap"} => uLock = p /\ (uManaged => r.allow)
  /\ r.at \in {"download", "swap"} => r.tag \in Released /\ (r.force \/ r.tag > r.image)
  /\ r.at = "swap" => Vouched(r.tag, r.strict)

UpdateInv == UpdateType /\ \A p \in Runners : Entitled(p, uProc[p])

LEMMA UpdateInit == Update!Init => UpdateInv
  <1> SUFFICES ASSUME Update!Init PROVE UpdateInv OBVIOUS
  <1>1. Update!NoState \in UState BY DEF Update!NoState, UState, Outcomes
  <1>2. Update!Idle \in UProc BY <1>1 DEF Update!Idle, UProc, Outcomes, UPlaces, Nexts, UEnds
  <1>3. UpdateType BY <1>1, <1>2, UpdateAssumption
    DEF Update!Init, UpdateType, Update!Versions, Evidence, Update!NoState
  <1>4. ASSUME NEW p \in Runners PROVE Entitled(p, uProc[p])
    <2>1. uProc[p] = Update!Idle BY DEF Update!Init
    <2> QED BY <2>1 DEF Entitled, Update!Idle, Update!NoState
  <1> QED BY <1>3, <1>4 DEF UpdateInv

\* A step that puts one process, or a second idle one too, elsewhere.
LEMMA UpdateMoves ==
  ASSUME UpdateInv, NEW p \in Runners, NEW r \in UProc, Update!Set(p, r),
         UNCHANGED <<uPublished, uEvidence, uManaged>>,
         uInstalled' \in Update!Versions, uState' \in UState, uState'.pending \in Released \cup {None},
         uLock' = uLock \/ uLock' = Update!Free(p) \/ (uLock = None /\ uLock' = p),
         r.tag \in Released \cup {None}, r.read.pending \in Released \cup {None},
         r.at \in {"target", "download", "swap"} => uLock' = p /\ (uManaged => r.allow),
         r.at \in {"download", "swap"} => r.tag \in Released /\ (r.force \/ r.tag > r.image),
         r.at = "swap" => Vouched(r.tag, r.strict)
  PROVE  UpdateInv'
  <1>1. uProc' = [uProc EXCEPT ![p] = r] BY DEF Update!Set
  <1>2. Released' = Released BY DEF Released
  <1>3. UpdateType' BY <1>1, <1>2 DEF UpdateInv, UpdateType, Update!Free
  <1>4. ASSUME NEW q \in Runners PROVE Entitled(q, uProc[q])'
    <2>1. CASE q = p
      <3>1. uProc'[q] = r BY <1>1, <2>1 DEF UpdateInv, UpdateType
      <3> QED BY <1>2, <2>1, <3>1 DEF Entitled, Vouched
    <2>2. CASE q # p
      <3>1. uProc'[q] = uProc[q] BY <1>1, <2>2 DEF UpdateInv, UpdateType
      <3>2. uLock = q => uLock' = q BY <2>2, NoneAssumption DEF Update!Free
      <3>3. Entitled(q, uProc[q]) BY DEF UpdateInv
      <3> QED BY <1>2, <3>1, <3>2, <3>3 DEF Entitled, Vouched
    <2> QED BY <2>1, <2>2
  <1> QED BY <1>3, <1>4 DEF UpdateInv

\* A process that is not entitled to anything.
Harmless(r) ==
  /\ r \in UProc /\ r.at \notin {"target", "download", "swap"}
  /\ r.tag \in Released \cup {None} /\ r.read.pending \in Released \cup {None}

LEMMA EndedHarmless ==
  ASSUME UpdateInv, NEW p \in Runners, NEW e \in UEnds
  PROVE  Harmless(Update!Ended(p, e))
  <1>1. Update!NoState \in UState BY DEF Update!NoState, UState, Outcomes
  <1>2. Update!Idle \in UProc BY <1>1 DEF Update!Idle, UProc, Outcomes, UPlaces, Nexts, UEnds
  <1>3. [Update!Idle EXCEPT !.child = TRUE, !.end = e] \in UProc BY <1>2 DEF UProc
  <1> QED BY <1>2, <1>3 DEF Harmless, Update!Ended, Update!Idle, Update!NoState, UProc

\* A step of p alone that leaves it harmless.
LEMMA HarmlessMove ==
  ASSUME UpdateInv, NEW p \in Runners, NEW r, Harmless(r), Update!Set(p, r),
         UNCHANGED <<uPublished, uEvidence, uManaged, uInstalled>>,
         uState' \in UState, uState'.pending \in Released \cup {None},
         uLock' = uLock \/ uLock' = Update!Free(p)
  PROVE  UpdateInv'
  <1>1. uInstalled' \in Update!Versions BY DEF UpdateInv, UpdateType
  <1>2. r \in UProc /\ r.at \notin {"target", "download", "swap"} /\ r.tag \in Released \cup {None}
        /\ r.read.pending \in Released \cup {None}
    BY DEF Harmless
  <1>3. /\ r.at \in {"target", "download", "swap"} => uLock' = p /\ (uManaged => r.allow)
        /\ r.at \in {"download", "swap"} => r.tag \in Released /\ (r.force \/ r.tag > r.image)
        /\ r.at = "swap" => Vouched(r.tag, r.strict)
    BY <1>2
  <1>4. UNCHANGED <<uPublished, uEvidence, uManaged>> OBVIOUS
  <1> QED BY <1>1, <1>2, <1>3, <1>4, UpdateMoves

\* What is published is a release.
LEMMA ReleasedFew == ASSUME UpdateInv PROVE Released \subseteq Update!Versions
  <1>1. uPublished \in 1 .. Newest /\ Newest \in Nat BY UpdateAssumption DEF UpdateInv, UpdateType, Update!Versions
  <1> QED BY <1>1 DEF Released, Update!Versions

\* Nothing that goes on to the state file is entitled to more.
LEMMA RecordsHarmless ==
  ASSUME UpdateInv, NEW p \in Runners, NEW next \in Nexts, NEW tag \in Released \cup {None},
         NEW outcome \in Outcomes
  PROVE  Harmless([uProc[p] EXCEPT !.at = "reads", !.next = next, !.tag = tag, !.outcome = outcome])
  <1>1. uProc[p] \in UProc /\ Entitled(p, uProc[p]) BY DEF UpdateInv, UpdateType
  <1>2. Released \subseteq Update!Versions BY ReleasedFew
  <1> QED BY <1>1, <1>2 DEF Harmless, Entitled, UProc, UPlaces

\* What Combine says is one of the outcomes.
LEMMA CombineOutcome == \A steps : Update!Combine(steps) \in Outcomes
  BY DEF Update!Combine, Outcomes

LEMMA UpdateBegins ==
  ASSUME UpdateInv, NEW p \in Runners, Update!Begins(p)
  PROVE  UpdateInv'
  <1> DEFINE Begun(at, force, strict, allow) ==
               [Update!Idle EXCEPT !.at = at, !.image = uInstalled, !.force = force,
                                   !.strict = strict, !.allow = allow]
             Child == [Update!Idle EXCEPT !.at = "apply", !.image = uInstalled, !.child = TRUE]
  <1>1. Update!Idle \in UProc
    <2>1. Update!NoState \in UState BY DEF Update!NoState, UState, Outcomes
    <2> QED BY <2>1 DEF Update!Idle, UProc, Outcomes, UPlaces, Nexts, UEnds
  <1>2. uInstalled \in Nat BY UpdateAssumption DEF UpdateInv, UpdateType, Update!Versions
  <1>3. ASSUME NEW at \in {"command", "check", "apply"}, NEW force \in BOOLEAN, NEW strict \in BOOLEAN,
               NEW allow \in BOOLEAN
        PROVE  Harmless(Begun(at, force, strict, allow))
    <2>1. Begun(at, force, strict, allow) \in UProc BY <1>1, <1>2 DEF UProc, UPlaces
    <2> QED BY <2>1 DEF Harmless, Update!Idle, Update!NoState
  <1>4. Harmless(Child)
    <2>1. Child \in UProc BY <1>1, <1>2 DEF UProc, UPlaces
    <2> QED BY <2>1 DEF Harmless, Update!Idle, Update!NoState
  <1>5. UNCHANGED <<uInstalled, uPublished, uEvidence, uManaged, uAuto, uState, uLock>>
    BY DEF Update!Begins, Update!given
  <1>6. PICK r : /\ Harmless(r)
                 /\ \/ uProc' = [uProc EXCEPT ![p] = r]
                    \/ \E q \in Runners \ {p} : uProc' = [uProc EXCEPT ![p] = r, ![q] = Child]
    <2>1. PICK at \in {"command", "check", "apply"}, force \in BOOLEAN, strict \in BOOLEAN, allow \in BOOLEAN :
            \/ uProc' = [uProc EXCEPT ![p] = Begun(at, force, strict, allow)]
            \/ \E q \in Runners \ {p} : uProc' = [uProc EXCEPT ![p] = Begun(at, force, strict, allow), ![q] = Child]
      <3>1. PICK at \in {"command", "check", "apply"}, force \in BOOLEAN, strict \in BOOLEAN, allow \in BOOLEAN :
              LET begun == [Update!Idle EXCEPT !.at = at, !.image = uInstalled, !.force = force,
                                               !.strict = strict, !.allow = allow]
              IN  /\ (force \/ strict \/ allow) => at = "apply"
                  /\ allow => uManaged
                  /\ IF uAuto /\ Update!HasPending(uState, uInstalled)
                     THEN \E q \in Runners \ {p} :
                            /\ uProc[q].at = "idle"
                            /\ uProc' = [uProc EXCEPT ![p] = begun,
                                   ![q] = [Update!Idle EXCEPT !.at = "apply", !.image = uInstalled, !.child = TRUE]]
                     ELSE Update!Set(p, begun)
        BY Zenon DEF Update!Begins
      <3>4. /\ uAuto /\ Update!HasPending(uState, uInstalled) =>
                  \E q \in Runners \ {p} : uProc' = [uProc EXCEPT ![p] = Begun(at, force, strict, allow), ![q] = Child]
            /\ ~(uAuto /\ Update!HasPending(uState, uInstalled)) => Update!Set(p, Begun(at, force, strict, allow))
        BY <3>1, Zenon
      <3> HIDE DEF Begun, Child
      <3>2. CASE uAuto /\ Update!HasPending(uState, uInstalled) BY <3>4, <3>2
      <3>3. CASE ~(uAuto /\ Update!HasPending(uState, uInstalled)) BY <3>4, <3>3 DEF Update!Set
      <3> QED BY <3>2, <3>3
    <2> HIDE DEF Begun, Child
    <2> QED BY <1>3, <2>1
  <1> HIDE DEF Begun, Child
  <1>7. ASSUME NEW q \in Runners
        PROVE  uProc'[q] = uProc[q] \/ Harmless(uProc'[q])
    BY <1>4, <1>6 DEF UpdateInv, UpdateType
  <1>8. uProc' \in [Runners -> UProc]
    BY <1>4, <1>6 DEF UpdateInv, UpdateType, Harmless
  <1>9. ASSUME NEW q \in Runners PROVE Entitled(q, uProc[q])'
    BY <1>5, <1>7 DEF UpdateInv, Entitled, Harmless, Vouched, Released
  <1> QED BY <1>5, <1>8, <1>9 DEF UpdateInv, UpdateType, Released

\* The state file is read and written whole: what is written is about a release too.
LEMMA UpdateFile ==
  ASSUME UpdateInv, NEW p \in Runners, Update!Reads(p) \/ Update!Writes(p)
  PROVE  UpdateInv'
  <1>1. uProc[p] \in UProc /\ Entitled(p, uProc[p]) /\ uState \in UState /\ uState.pending \in Released \cup {None}
    BY DEF UpdateInv, UpdateType
  <1>2. CASE Update!Reads(p)
    <2>1. Harmless([uProc[p] EXCEPT !.at = "writes", !.read = uState])
      BY <1>1 DEF Harmless, Entitled, UProc, UPlaces
    <2> QED BY <1>1, <1>2, <2>1, HarmlessMove DEF Update!Reads, Update!given
  <1>3. CASE Update!Writes(p)
    <2>1. Update!Noted(uProc[p]) \in UState /\ Update!Noted(uProc[p]).pending \in Released \cup {None}
      <3>1. uProc[p].read \in UState /\ uProc[p].outcome \in Outcomes /\ uProc[p].tag \in Update!Versions \cup {None}
            /\ uProc[p].tag \in Released \cup {None} /\ uProc[p].read.pending \in Released \cup {None}
        BY <1>1 DEF UProc, Entitled
      <3>2. None \in Outcomes BY DEF Outcomes
      <3> QED BY <3>1, <3>2 DEF Update!Noted, UState, Update!NoState
    <2>2. uState' \in UState /\ uState'.pending \in Released \cup {None} BY <1>1, <1>3, <2>1 DEF Update!Writes
    <2>3. uProc[p].next \in UEnds BY <1>1 DEF UProc, UEnds
    <2>4. Harmless(Update!Ended(p, uProc[p].next)) BY <2>3, EndedHarmless
    <2> QED BY <1>3, <2>2, <2>4, HarmlessMove DEF Update!Writes, Update!given
  <1> QED BY <1>2, <1>3


\* What p writes down next it is harmless to write.
LEMMA UpdateRecords ==
  ASSUME UpdateInv, NEW p \in Runners, NEW next \in Nexts, NEW tag \in Released \cup {None},
         NEW outcome \in Outcomes, Update!Records(p, next, tag, outcome),
         UNCHANGED <<uPublished, uEvidence, uManaged, uInstalled, uState, uLock>>
  PROVE  UpdateInv'
  <1> DEFINE r == [uProc[p] EXCEPT !.at = "reads", !.next = next, !.tag = tag, !.outcome = outcome]
  <1>1. Harmless(r) BY RecordsHarmless
  <1>2. Update!Set(p, r) BY DEF Update!Records
  <1>3. uState' \in UState /\ uState'.pending \in Released \cup {None} BY DEF UpdateInv, UpdateType
  <1>4. UNCHANGED <<uPublished, uEvidence, uManaged, uInstalled>> OBVIOUS
  <1>5. uLock' = uLock OBVIOUS
  <1> HIDE DEF r
  <1> QED BY <1>1, <1>2, <1>3, <1>4, <1>5, HarmlessMove

\* A process that returns, or is killed, gives up the lock.
LEMMA UpdateEnds ==
  ASSUME UpdateInv, NEW p \in Runners, NEW e \in UEnds, Update!Set(p, Update!Ended(p, e)),
         uLock' = Update!Free(p), UNCHANGED <<uPublished, uEvidence, uManaged, uInstalled, uState>>
  PROVE  UpdateInv'
  <1>1. Harmless(Update!Ended(p, e)) BY EndedHarmless
  <1>2. uState' \in UState /\ uState'.pending \in Released \cup {None} BY DEF UpdateInv, UpdateType
  <1>3. UNCHANGED <<uPublished, uEvidence, uManaged, uInstalled>> OBVIOUS
  <1> QED BY <1>1, <1>2, <1>3, HarmlessMove

\* Commands, Refuses, Crashes: nothing but an end.
LEMMA UpdateQuits ==
  ASSUME UpdateInv, NEW p \in Runners, Update!Commands(p) \/ Update!Refuses(p) \/ Update!Crashes(p)
  PROVE  UpdateInv'
  <1>1. PICK e \in {"ok", "operation_unsupported", "killed"} :
          Update!Set(p, Update!Ended(p, e)) /\ uLock' = Update!Free(p)
          /\ UNCHANGED <<uPublished, uEvidence, uManaged, uInstalled, uState>>
    BY DEF Update!Commands, Update!Refuses, Update!Crashes, Update!Ends, Update!given
  <1>2. e \in UEnds BY DEF UEnds
  <1> QED BY <1>1, <1>2, UpdateEnds

\* The newest release is one.
LEMMA LatestReleased == ASSUME UpdateInv PROVE uPublished \in Released /\ uPublished \in Nat
  <1>1. uPublished \in 1 .. Newest /\ Newest \in Nat BY UpdateAssumption DEF UpdateInv, UpdateType, Update!Versions
  <1> QED BY <1>1 DEF Released

\* A check writes down the newest release, or its failure.
LEMMA UpdateChecks == ASSUME UpdateInv, NEW p \in Runners, Update!Checks(p) PROVE UpdateInv'
  <1>1. UNCHANGED <<uPublished, uEvidence, uManaged, uInstalled, uState, uLock>>
    BY DEF Update!Checks, Update!given
  <1>2. PICK next \in {"failed", "checked"}, tag \in {None, uPublished}, outcome \in Outcomes :
          Update!Records(p, next, tag, outcome)
    <2>1. None \in Outcomes BY DEF Outcomes
    <2> QED BY <2>1, CombineOutcome DEF Update!Checks, Update!LatestTag
  <1>3. next \in Nexts /\ tag \in Released \cup {None} BY LatestReleased DEF Nexts
  <1> QED BY <1>1, <1>2, <1>3, UpdateRecords

\* An apply takes the lock when nobody has it, and may replace the binary.
LEMMA UpdateApplies == ASSUME UpdateInv, NEW p \in Runners, Update!Applies(p) PROVE UpdateInv'
  <1>1. UNCHANGED <<uPublished, uEvidence, uManaged, uInstalled, uState>>
    BY DEF Update!Applies, Update!given, Update!Ends
  <1>2. CASE \E e \in {"operation_unsupported", "skipped"} : Update!Ends(p, e)
    <2>1. {"operation_unsupported", "skipped"} \subseteq UEnds BY DEF UEnds
    <2> QED BY <1>1, <1>2, <2>1, UpdateEnds DEF Update!Ends
  <1>3. CASE Update!MayReplace(p) /\ uLock = None /\ uLock' = p /\ Update!Go(p, "target")
    <2> DEFINE r == [uProc[p] EXCEPT !.at = "target"]
    <2>1. uProc[p] \in UProc /\ Entitled(p, uProc[p]) BY DEF UpdateInv, UpdateType
    <2>2. r \in UProc /\ r.at = "target" /\ r.allow = uProc[p].allow /\ r.tag = uProc[p].tag /\ r.read = uProc[p].read
      BY <2>1 DEF UProc, UPlaces
    <2>3. Update!Set(p, r) BY <1>3 DEF Update!Go
    <2> HIDE DEF r
    <2>4. /\ r.tag \in Released \cup {None} /\ r.read.pending \in Released \cup {None}
          /\ r.at \in {"target", "download", "swap"} => uLock' = p /\ (uManaged => r.allow)
          /\ r.at \in {"download", "swap"} => r.tag \in Released /\ (r.force \/ r.tag > r.image)
          /\ r.at = "swap" => Vouched(r.tag, r.strict)
      BY <1>3, <2>1, <2>2 DEF Entitled, Update!MayReplace
    <2>5. uInstalled' \in Update!Versions /\ uState' \in UState /\ uState'.pending \in Released \cup {None}
      BY <1>1 DEF UpdateInv, UpdateType
    <2> QED BY <1>1, <1>3, <2>2, <2>3, <2>4, <2>5, UpdateMoves
  <1> QED BY <1>2, <1>3 DEF Update!Applies

\* What is downloaded is published, and newer unless forced.
LEMMA UpdateTargets == ASSUME UpdateInv, NEW p \in Runners, Update!Targets(p) PROVE UpdateInv'
  <1> DEFINE pending == uState.pending # None /\ (uProc[p].force \/ Update!Newer(uProc[p].image, uState.pending))
             tag     == IF pending THEN uState.pending ELSE Update!LatestTag
             r       == [uProc[p] EXCEPT !.at = "download", !.tag = tag]
  <1>1. UNCHANGED <<uPublished, uEvidence, uManaged, uInstalled, uState>>
    BY DEF Update!Targets, Update!given, Update!Ends
  <1>2. uProc[p] \in UProc /\ Entitled(p, uProc[p]) /\ uProc[p].at = "target"
    BY DEF UpdateInv, UpdateType, Update!Targets
  <1>3. tag \in Released
    BY LatestReleased DEF UpdateInv, UpdateType, Update!LatestTag
  <1>4. \/ Update!Records(p, "failed", None, None) /\ UNCHANGED uLock
        \/ Update!Ends(p, "already up to date")
        \/ /\ uProc[p].force \/ Update!Newer(uProc[p].image, tag)
           /\ Update!Set(p, r) /\ UNCHANGED uLock
    BY Zenon DEF Update!Targets
  <1>5. CASE Update!Records(p, "failed", None, None) /\ UNCHANGED uLock
    <2>1. "failed" \in Nexts /\ None \in Outcomes BY DEF Nexts, Outcomes
    <2> QED BY <1>1, <1>5, <2>1, UpdateRecords
  <1>6. CASE Update!Ends(p, "already up to date")
    <2>1. "already up to date" \in UEnds BY DEF UEnds
    <2> QED BY <1>1, <1>6, <2>1, UpdateEnds DEF Update!Ends
  <1>7. CASE (uProc[p].force \/ Update!Newer(uProc[p].image, tag)) /\ Update!Set(p, r) /\ UNCHANGED uLock
    <2> HIDE DEF tag
    <2>1. tag \in Update!Versions BY <1>3, ReleasedFew
    <2>2. /\ r \in UProc /\ r.at = "download" /\ r.allow = uProc[p].allow /\ r.tag = tag /\ r.read = uProc[p].read
          /\ r.force = uProc[p].force /\ r.image = uProc[p].image
      BY <1>2, <2>1 DEF UProc, UPlaces
    <2> HIDE DEF r
    <2>3. /\ r.tag \in Released \cup {None} /\ r.read.pending \in Released \cup {None}
          /\ r.at \in {"target", "download", "swap"} => uLock' = p /\ (uManaged => r.allow)
          /\ r.at \in {"download", "swap"} => r.tag \in Released /\ (r.force \/ r.tag > r.image)
          /\ r.at = "swap" => Vouched(r.tag, r.strict)
      BY <1>2, <1>3, <1>7, <2>2 DEF Entitled, Update!Newer
    <2>4. uInstalled' \in Update!Versions /\ uState' \in UState /\ uState'.pending \in Released \cup {None}
      BY <1>1 DEF UpdateInv, UpdateType
    <2> QED BY <1>1, <1>7, <2>2, <2>3, <2>4, UpdateMoves
  <1> QED BY <1>4, <1>5, <1>6, <1>7


\* What Enforce lets through is vouched for: a disagreement dominates, and a strict update
\* takes no absence either.
LEMMA EnforceVouches ==
  ASSUME UpdateInv, NEW tag \in Update!Versions, NEW strict \in BOOLEAN, NEW signature \in Update!Signature(tag),
         Update!Enforce(Update!Combine({Update!Checksum(tag), signature}), strict)
  PROVE  Vouched(tag, strict)
  <1> DEFINE steps == {Update!Checksum(tag), signature}
  <1>1. uEvidence[tag] \in Evidence BY DEF UpdateInv, UpdateType
  <1>2. "wrong" \notin steps BY DEF Update!Enforce, Update!Combine
  <1>3. ASSUME strict PROVE "absent" \notin steps
    BY <1>2, <1>3 DEF Update!Enforce, Update!Combine
  <1>4. uEvidence[tag].checksum # "wrong" BY <1>2 DEF Update!Checksum
  <1>5. ASSUME strict PROVE uEvidence[tag] = [checksum |-> "right", signature |-> "right"]
    <2>1. uEvidence[tag].checksum = "right" BY <1>1, <1>3, <1>4, <1>5 DEF Update!Checksum, Evidence
    <2>2. signature = uEvidence[tag].signature
      BY <1>2, <1>3, <1>5 DEF Update!Signature
    <2>3. uEvidence[tag].signature = "right" BY <1>1, <1>2, <1>3, <1>5, <2>2 DEF Evidence
    <2> QED BY <1>1, <2>1, <2>3 DEF Evidence
  <1> QED BY <1>4, <1>5 DEF Vouched

\* A download ends in a release that may be installed, or in the state file.
LEMMA UpdateDownloads == ASSUME UpdateInv, NEW p \in Runners, Update!Downloads(p) PROVE UpdateInv'
  <1>1. UNCHANGED <<uPublished, uEvidence, uManaged, uInstalled, uState, uLock>>
    BY DEF Update!Downloads, Update!given
  <1>2. /\ uProc[p] \in UProc /\ Entitled(p, uProc[p]) /\ uProc[p].at = "download"
        /\ uProc[p].tag \in Released /\ uProc[p].strict \in BOOLEAN
    BY DEF UpdateInv, UpdateType, Update!Downloads, Entitled, UProc
  <1>3. uProc[p].tag \in Update!Versions BY <1>2, ReleasedFew
  <1>4. CASE Update!Records(p, "failed", uProc[p].tag, None)
    <2>1. "failed" \in Nexts /\ None \in Outcomes BY DEF Nexts, Outcomes
    <2> QED BY <1>1, <1>2, <1>4, <2>1, UpdateRecords
  <1>5. ASSUME NEW signature \in Update!Signature(uProc[p].tag), NEW outcome,
               outcome = Update!Combine({Update!Checksum(uProc[p].tag), signature}),
               IF Update!Enforce(outcome, uProc[p].strict)
               THEN Update!Set(p, [uProc[p] EXCEPT !.at = "swap", !.outcome = outcome])
               ELSE Update!Records(p, "rejected", uProc[p].tag, outcome)
        PROVE  UpdateInv'
    <2>1. outcome \in Outcomes BY <1>5, CombineOutcome
    <2>2. CASE Update!Enforce(outcome, uProc[p].strict)
      <3> DEFINE r == [uProc[p] EXCEPT !.at = "swap", !.outcome = outcome]
      <3>1. /\ r \in UProc /\ r.at = "swap" /\ r.tag = uProc[p].tag /\ r.read = uProc[p].read /\ r.force = uProc[p].force
            /\ r.image = uProc[p].image /\ r.allow = uProc[p].allow /\ r.strict = uProc[p].strict
        BY <1>2, <2>1 DEF UProc, UPlaces
      <3>2. Update!Set(p, r) BY <1>5, <2>2
      <3>3. Vouched(r.tag, r.strict) BY <1>2, <1>3, <1>5, <2>2, <3>1, EnforceVouches
      <3> HIDE DEF r
      <3>4. /\ r.tag \in Released \cup {None} /\ r.read.pending \in Released \cup {None}
            /\ r.at \in {"target", "download", "swap"} => uLock' = p /\ (uManaged => r.allow)
            /\ r.at \in {"download", "swap"} => r.tag \in Released /\ (r.force \/ r.tag > r.image)
            /\ r.at = "swap" => Vouched(r.tag, r.strict)
        BY <1>1, <1>2, <3>1, <3>3 DEF Entitled
      <3>5. uInstalled' \in Update!Versions /\ uState' \in UState /\ uState'.pending \in Released \cup {None}
        BY <1>1 DEF UpdateInv, UpdateType
      <3> QED BY <1>1, <3>1, <3>2, <3>4, <3>5, UpdateMoves
    <2>3. CASE ~Update!Enforce(outcome, uProc[p].strict)
      <3>1. "rejected" \in Nexts BY DEF Nexts
      <3>2. Update!Records(p, "rejected", uProc[p].tag, outcome) BY <1>5, <2>3
      <3> QED BY <1>1, <1>2, <2>1, <3>1, <3>2, UpdateRecords
    <2> QED BY <2>2, <2>3
  <1>6. CASE \E signature \in Update!Signature(uProc[p].tag) :
               LET outcome == Update!Combine({Update!Checksum(uProc[p].tag), signature})
               IN  IF Update!Enforce(outcome, uProc[p].strict)
                   THEN Update!Set(p, [uProc[p] EXCEPT !.at = "swap", !.outcome = outcome])
                   ELSE Update!Records(p, "rejected", uProc[p].tag, outcome)
    BY <1>5, <1>6
  <1> QED BY <1>4, <1>6 DEF Update!Downloads

\* One rename, or an error.
LEMMA UpdateSwaps == ASSUME UpdateInv, NEW p \in Runners, Update!Swaps(p) PROVE UpdateInv'
  <1>1. UNCHANGED <<uPublished, uEvidence, uManaged, uState, uLock>>
    BY DEF Update!Swaps, Update!given
  <1>2. /\ uProc[p] \in UProc /\ Entitled(p, uProc[p]) /\ uProc[p].at = "swap"
        /\ uProc[p].tag \in Released /\ uProc[p].outcome \in Outcomes
    BY DEF UpdateInv, UpdateType, Update!Swaps, Entitled, UProc
  <1>3. uInstalled' \in Update!Versions
    BY <1>2, ReleasedFew DEF Update!Swaps, UpdateInv, UpdateType
  <1>4. PICK next \in {"failed", "swapped"}, outcome \in Outcomes : Update!Records(p, next, uProc[p].tag, outcome)
    <2>1. None \in Outcomes BY DEF Outcomes
    <2> QED BY <1>2, <2>1 DEF Update!Swaps
  <1>5. next \in Nexts BY DEF Nexts
  <1> DEFINE r == [uProc[p] EXCEPT !.at = "reads", !.next = next, !.tag = uProc[p].tag, !.outcome = outcome]
  <1>6. Harmless(r) BY <1>2, <1>5, RecordsHarmless
  <1>7. Update!Set(p, r) BY <1>4 DEF Update!Records
  <1> HIDE DEF r
  <1>8. /\ r \in UProc /\ r.at \notin {"target", "download", "swap"} /\ r.tag \in Released \cup {None}
        /\ r.read.pending \in Released \cup {None}
    BY <1>6 DEF Harmless
  <1>9. /\ r.at \in {"target", "download", "swap"} => uLock' = p /\ (uManaged => r.allow)
        /\ r.at \in {"download", "swap"} => r.tag \in Released /\ (r.force \/ r.tag > r.image)
        /\ r.at = "swap" => Vouched(r.tag, r.strict)
    BY <1>8
  <1>10. uState' \in UState /\ uState'.pending \in Released \cup {None}
    BY <1>1 DEF UpdateInv, UpdateType
  <1> QED BY <1>1, <1>3, <1>7, <1>8, <1>9, <1>10, UpdateMoves

\* A new release is nobody's yet.
LEMMA UpdatePublishes == ASSUME UpdateInv, Update!Publishes PROVE UpdateInv'
  <1>1. /\ uPublished \in Nat /\ uPublished' = uPublished + 1 /\ uPublished < Newest /\ Newest \in Nat
        /\ uPublished \in Update!Versions
    BY LatestReleased, UpdateAssumption DEF Update!Publishes, UpdateInv, UpdateType
  <1>2. UNCHANGED <<uInstalled, uManaged, uState, uLock, uProc>> BY DEF Update!Publishes
  <1>3. uPublished' \in Update!Versions BY <1>1 DEF Update!Versions
  <1>4. /\ uEvidence' \in [Update!Versions -> Evidence]
        /\ \A v \in Update!Versions : v # uPublished' => uEvidence'[v] = uEvidence[v]
    <2>1. PICK came \in [checksum : Signs, signature : Signs] : uEvidence' = [uEvidence EXCEPT ![uPublished'] = came]
      BY DEF Update!Publishes
    <2>2. came \in Evidence BY UpdateAssumption DEF Evidence
    <2> QED BY <2>1, <2>2 DEF UpdateInv, UpdateType
  <1>5. Released \subseteq Released' /\ uPublished' \notin Released BY <1>1 DEF Released
  <1>6. Released \subseteq Update!Versions BY ReleasedFew
  <1>7. UpdateType' BY <1>2, <1>3, <1>4, <1>5 DEF UpdateInv, UpdateType
  <1>8. ASSUME NEW q \in Runners PROVE Entitled(q, uProc[q])'
    <2>1. Entitled(q, uProc[q]) BY DEF UpdateInv
    <2>2. ASSUME uProc[q].at = "swap" PROVE Vouched(uProc[q].tag, uProc[q].strict)'
      <3>1. uProc[q].tag \in Released /\ Vouched(uProc[q].tag, uProc[q].strict) BY <2>1, <2>2 DEF Entitled
      <3>2. uEvidence'[uProc[q].tag] = uEvidence[uProc[q].tag] BY <1>4, <1>5, <1>6, <3>1
      <3> QED BY <1>2, <3>1, <3>2 DEF Vouched
    <2> QED BY <1>2, <1>5, <2>1, <2>2 DEF Entitled
  <1> QED BY <1>7, <1>8 DEF UpdateInv

LEMMA UpdateNext == UpdateInv /\ Update!Next => UpdateInv'
  BY UpdatePublishes, UpdateBegins, UpdateQuits, UpdateFile, UpdateChecks, UpdateApplies, UpdateTargets,
     UpdateDownloads, UpdateSwaps DEF Update!Next, Update!Step

\* Only Swaps replaces the binary, and then as it should.
LEMMA SwapsWell == UpdateInv /\ Update!Next => Update!SwapsRightly
  <1> SUFFICES ASSUME UpdateInv, Update!Next, uInstalled' # uInstalled PROVE Update!SwapsRightly
    BY DEF Update!SwapsRightly
  <1>1. PICK p \in Runners : Update!Swaps(p)
    BY DEF Update!Next, Update!Step, Update!Publishes, Update!Begins, Update!Commands, Update!Refuses, Update!Reads,
           Update!Writes, Update!Checks, Update!Applies, Update!Targets, Update!Downloads, Update!Crashes
  <1>2. /\ uProc[p] \in UProc /\ Entitled(p, uProc[p]) /\ uProc[p].at = "swap" /\ uInstalled \in Nat
    BY <1>1, UpdateAssumption DEF UpdateInv, UpdateType, Update!Swaps, Update!Versions
  <1>3. uInstalled' = uProc[p].tag BY <1>1 DEF Update!Swaps
  <1>4. /\ uLock = p /\ (uManaged => uProc[p].allow) /\ Vouched(uProc[p].tag, uProc[p].strict)
        /\ uProc[p].force \/ uProc[p].tag > uProc[p].image
    BY <1>2 DEF Entitled
  <1>5. uLock # None BY <1>4, NoneAssumption
  <1> QED BY <1>3, <1>4, <1>5 DEF Update!SwapsRightly, Vouched

\* Whatever else runs, crashes or is published, an update replaces the binary only under the
\* lock, by a release its evidence speaks for, and by a newer one unless forced or overtaken.
THEOREM UpdatesRightly == LocalSpec => SwapsRight
  <1>1. LocalInit => UpdateInv BY UpdateInit DEF LocalInit
  <1>2. UpdateInv /\ UNCHANGED updateVars => UpdateInv'
    BY DEF updateVars, UpdateInv, UpdateType, Entitled, Vouched, Released
  <1>3. UpdateInv /\ [LocalNext]_<<part, vars, updateVars, skillVars, backupVars>> => UpdateInv'
    BY <1>2, UpdateNext DEF LocalNext
  <1>4. /\ UpdateInv /\ [LocalNext]_<<part, vars, updateVars, skillVars, backupVars>>
        => [part = "update" => Update!SwapsRightly]_updateVars
    BY SwapsWell DEF LocalNext
  <1> QED BY <1>1, <1>3, <1>4, PTL DEF LocalSpec, SwapsRight


-----------------------------------------------------------------------------
(* The skills installer.                                                    *)

Contents  == ({"pay", "user"} \X (Nat \cup {None})) \cup {None}
Records   == [Skill!Files -> ({"pay"} \X (Nat \cup {None})) \cup {None}]
Manifests == [files : Records, revision : Nat \cup {None}]

Installer == [at : {"idle", "load", "look", "put", "remove"}, uninstall : BOOLEAN, version : Nat,
              project : Nat \cup {None}, force : BOOLEAN, read : Manifests \cup {None}, todo : SUBSET Skill!Files,
              file : Skill!Files \cup {None}, saw : Contents, next : Records]

\* Whoever is about to write or remove a file found none of the user's there, or was told
\* to.  (Records are never the user's, by their type.)
Careful(r) ==
  /\ r.at \in {"put", "remove"} => r.file \in Skill!Files \ r.todo /\ (r.force \/ r.saw # Skill!Users)
  /\ (r.at = "put" => ~r.uninstall) /\ (r.at = "remove" => r.uninstall)

SkillType ==
  /\ kDisk \in [Skill!Files -> Contents] /\ kManifest \in Manifests \cup {None}
  /\ kBinary \in Nat /\ kRevision \in Nat /\ kEdits \in Nat /\ kTorn \in BOOLEAN
  /\ kProc \in [Runners -> Installer]
  /\ \A p \in Runners : Careful(kProc[p])

\* A content of SKILL.md that is not PayCLI's, or is as the manifest records.
NotOurs(c)    == c \in {None, Skill!Users}
Settles(c, m) == NotOurs(c) \/ (m # None /\ m.files[Skill!Skill] = c)

\* A command that is alone: until it sees to SKILL.md the file is as recorded; then the
\* command will record it as it is, or has removed it.
Minds(r, c, m) ==
  LET sees == r.at \in {"look", "put", "remove"}
      busy == r.at \in {"put", "remove"} /\ r.file = Skill!Skill
  IN  /\ r.at = "load" => Settles(c, m)
      /\ sees /\ Skill!Skill \in r.todo =>
           IF r.uninstall THEN NotOurs(c) \/ r.next[Skill!Skill] = c ELSE Settles(c, m) /\ r.read = m
      /\ sees /\ Skill!Skill \notin r.todo /\ ~busy =>
           NotOurs(c) \/ (~r.uninstall /\ r.next[Skill!Skill] = c)

Whence ==
  ~kTorn =>
    /\ \A p, q \in Runners : kProc[p].at # "idle" /\ kProc[q].at # "idle" => p = q
    /\ \A p \in Runners : Minds(kProc[p], kDisk[Skill!Skill], kManifest)
    /\ (\A p \in Runners : kProc[p].at = "idle") => Settles(kDisk[Skill!Skill], kManifest)

SkillInv == SkillType /\ Whence


LEMMA SkillConstants ==
  /\ Skill!Skill = 1 /\ Skill!Project = 2 /\ Skill!Files = {1, 2}
  /\ Skill!Users = <<"user", 0>> /\ None # Skill!Users /\ \A n : Skill!Pay(n) = <<"pay", n>> /\ Skill!Pay(n) # Skill!Users
  /\ \A n \in Nat \cup {None} : Skill!Pay(n) # None
  /\ \A m \in Manifests : m # None
  /\ \A g \in Records, f \in Skill!Files : g[f] # Skill!Users
  <1>1. /\ Skill!Skill = 1 /\ Skill!Project = 2 /\ Skill!Files = {1, 2} /\ Skill!Users = <<"user", 0>>
        /\ \A n : Skill!Pay(n) = <<"pay", n>>
    BY DEF Skill!Skill, Skill!Project, Skill!Files, Skill!Users, Skill!Pay
  <1>2. None # <<"user", 0>> /\ \A n \in Nat \cup {None} : <<"pay", n>> # None BY NoneAssumption
  <1>3. \A n : <<"pay", n>> # <<"user", 0>> OBVIOUS
  <1>4. \A m \in Manifests : m # None BY <1>1, NoneAssumption DEF Manifests, Records
  <1>5. \A g \in Records, f \in Skill!Files : g[f] # Skill!Users BY <1>1, <1>2 DEF Records
  <1> QED BY <1>1, <1>2, <1>3, <1>4, <1>5

LEMMA SkillIdle == Skill!Idle \in Installer /\ Careful(Skill!Idle) /\ Skill!Idle.at = "idle"
  <1>1. None \in Contents BY DEF Contents
  <1>2. Skill!Nothing \in Records BY DEF Skill!Nothing, Records
  <1>3. 0 \in Nat /\ {} \in SUBSET Skill!Files OBVIOUS
  <1>4. Skill!Idle \in Installer BY <1>1, <1>2, <1>3 DEF Skill!Idle, Installer
  <1> QED BY <1>4 DEF Skill!Idle, Careful

LEMMA SkillInit == Skill!Init => SkillInv
  <1> SUFFICES ASSUME Skill!Init PROVE SkillInv OBVIOUS
  <1>1. \A p \in Runners : kProc[p] = Skill!Idle BY DEF Skill!Init
  <1>2. kDisk \in [Skill!Files -> {None, Skill!Users}] BY DEF Skill!Init
  <1>3. {None, Skill!Users} \subseteq Contents BY SkillConstants DEF Contents
  <1>4. SkillType BY <1>1, <1>2, <1>3, SkillIdle DEF Skill!Init, SkillType
  <1>5. Settles(kDisk[Skill!Skill], kManifest) BY <1>2, SkillConstants DEF Settles, NotOurs
  <1>6. Whence BY <1>1, <1>5, SkillIdle DEF Whence, Minds, Skill!Idle
  <1> QED BY <1>4, <1>6 DEF SkillInv

\* A step of one process is typed when what it leaves is.
LEMMA SkillMoves ==
  ASSUME SkillType, NEW p \in Runners, NEW r \in Installer, Careful(r), Skill!Set(p, r),
         kDisk' \in [Skill!Files -> Contents], kManifest' \in Manifests \cup {None}, kTorn' \in BOOLEAN,
         UNCHANGED <<kBinary, kRevision, kEdits>>
  PROVE  SkillType'
  BY DEF SkillType, Skill!Set

\* The first of the files there are.
LEMMA FirstFile == ASSUME NEW S, S \subseteq Skill!Files, S # {} PROVE Skill!Min(S) \in S
  <1>1. S \subseteq {1, 2} BY SkillConstants
  <1>2. \E x \in S : \A y \in S : x <= y
    <2>1. CASE 1 \in S BY <1>1, <2>1
    <2>2. CASE 1 \notin S
      <3>1. \A y \in S : y = 2 BY <1>1, <2>2
      <3>2. 2 \in S BY <3>1
      <3> QED BY <3>1, <3>2
    <2> QED BY <2>1, <2>2
  <1> QED BY <1>2 DEF Skill!Min

\* Begins, Loads and Looks keep the types.
LEMMA SkillBeginsTyped ==
  ASSUME SkillType, NEW p \in Runners, Skill!Begins(p)
  PROVE  SkillType'
  <1>1. PICK uninstall \in BOOLEAN, force \in BOOLEAN, project \in {None, kRevision} :
          Skill!Set(p, [Skill!Idle EXCEPT !.at = "load", !.version = kBinary, !.uninstall = uninstall,
                                          !.force = force, !.project = project])
    BY DEF Skill!Begins
  <1> DEFINE r == [Skill!Idle EXCEPT !.at = "load", !.version = kBinary, !.uninstall = uninstall,
                                     !.force = force, !.project = project]
  <1>2. r \in Installer /\ r.at = "load" BY SkillIdle DEF Installer, SkillType
  <1> HIDE DEF r
  <1>3. Careful(r) BY <1>2 DEF Careful
  <1> QED BY <1>1, <1>2, <1>3, SkillMoves DEF r, Skill!Begins, SkillType

LEMMA SkillLoadsTyped ==
  ASSUME SkillType, NEW p \in Runners, Skill!Loads(p)
  PROVE  SkillType'
  <1>1. kProc[p] \in Installer BY DEF SkillType
  <1>2. PICK r : Skill!Set(p, r) /\ r \in Installer /\ r.at \in {"idle", "look"}
    <2>1. CASE kProc[p].uninstall /\ kManifest = None
      BY <2>1, SkillIdle DEF Skill!Loads
    <2>2. CASE kProc[p].uninstall /\ kManifest # None
      <3> DEFINE files == Skill!ManifestFiles(kManifest, kProc[p].version)
                 r == [kProc[p] EXCEPT !.at = "look", !.read = kManifest, !.next = files,
                                       !.todo = {f \in Skill!Files : files[f] # None}]
      <3>1. files \in Records
        <4>1. kManifest.files \in Records BY <2>2 DEF SkillType, Manifests
        <4>2. [Skill!Nothing EXCEPT ![Skill!Skill] = Skill!Pay(kProc[p].version)] \in Records
          BY <1>1, SkillConstants DEF Skill!Nothing, Records, Installer
        <4> QED BY <4>1, <4>2 DEF Skill!ManifestFiles
      <3>2. Skill!Set(p, r) BY <2>2, Zenon DEF Skill!Loads
      <3> HIDE DEF files
      <3>3. r \in Installer /\ r.at = "look" BY <1>1, <2>2, <3>1 DEF Installer, SkillType
      <3> QED BY <3>2, <3>3
    <2>3. CASE ~kProc[p].uninstall
      <3> DEFINE r == [kProc[p] EXCEPT !.at = "look", !.read = kManifest, !.todo = Skill!Payload(p)]
      <3>1. Skill!Set(p, r) BY <2>3 DEF Skill!Loads
      <3>2. r \in Installer /\ r.at = "look"
        BY <1>1, SkillConstants DEF Installer, SkillType, Skill!Payload
      <3> QED BY <3>1, <3>2
    <2> QED BY <2>1, <2>2, <2>3
  <1>3. Careful(r) BY <1>2 DEF Careful
  <1> QED BY <1>2, <1>3, SkillMoves DEF Skill!Loads, SkillType

\* The file and the judgement of Looks.
LEMMA SkillLooksTyped ==
  ASSUME SkillType, NEW p \in Runners, Skill!Looks(p)
  PROVE  SkillType'
  <1> DEFINE f == Skill!Min(kProc[p].todo)
             want == Skill!Want(p, f)
             recorded == Skill!Recorded(kProc[p].read, f)
             put == [kProc[p] EXCEPT !.at = "put", !.file = f, !.saw = kDisk[f], !.todo = @ \ {f}]
             kept == [kProc[p] EXCEPT !.todo = @ \ {f}, !.next[f] = Skill!Kept(kDisk[f], want, recorded)]
  <1>1. kProc[p] \in Installer /\ kProc[p].at = "look" /\ ~kProc[p].uninstall /\ kProc[p].todo # {}
    BY DEF SkillType, Skill!Looks
  <1>2. f \in kProc[p].todo /\ f \in Skill!Files
    BY <1>1, FirstFile DEF Installer
  <1>3. want \in ({"pay"} \X (Nat \cup {None})) /\ want # Skill!Users
    BY <1>1, SkillConstants DEF Skill!Want, Installer
  <1>4. recorded \in ({"pay"} \X (Nat \cup {None})) \cup {None} /\ recorded # Skill!Users
    BY <1>1, <1>2, SkillConstants DEF Skill!Recorded, Installer, Manifests, Records
  <1>5. kDisk[f] \in Contents BY <1>2 DEF SkillType
  <1>6. IF Skill!Decide(kDisk[f], want, recorded, kProc[p].force) THEN Skill!Set(p, put) ELSE Skill!Set(p, kept)
    BY Zenon DEF Skill!Looks
  <1> HIDE DEF f, want, recorded
  <1>7. CASE Skill!Decide(kDisk[f], want, recorded, kProc[p].force)
    <2>1. put \in Installer BY <1>1, <1>2, <1>5 DEF Installer
    <2>2. kProc[p].force \/ kDisk[f] # Skill!Users BY <1>3, <1>4, <1>7, SkillConstants DEF Skill!Decide
    <2>3. Careful(put) BY <1>1, <1>2, <2>1, <2>2 DEF Careful, Installer
    <2> QED BY <1>6, <1>7, <2>1, <2>3, SkillMoves DEF Skill!Looks, SkillType
  <1>8. CASE ~Skill!Decide(kDisk[f], want, recorded, kProc[p].force)
    <2>1. Skill!Kept(kDisk[f], want, recorded) \in ({"pay"} \X (Nat \cup {None})) \cup {None}
      BY <1>3, <1>4 DEF Skill!Kept
    <2>2. kept \in Installer BY <1>1, <1>2, <2>1 DEF Installer, Records
    <2>3. Careful(kept) BY <1>1, <2>2 DEF Careful, Installer
    <2> QED BY <1>6, <1>8, <2>2, <2>3, SkillMoves DEF Skill!Looks, SkillType
  <1> QED BY <1>7, <1>8


\* A command that ends, with or without its last write.
LEMMA SkillEndsTyped ==
  ASSUME SkillType, NEW p \in Runners, Skill!Saves(p) \/ Skill!Forgets(p) \/ Skill!Crashes(p)
  PROVE  SkillType'
  <1>1. kProc[p] \in Installer BY DEF SkillType
  <1>2. Skill!NextManifest(p) \in Manifests BY <1>1 DEF Skill!NextManifest, Manifests, Installer
  <1>3. Skill!Set(p, Skill!Idle) BY DEF Skill!Saves, Skill!Forgets, Skill!Crashes
  <1>4. /\ kDisk' \in [Skill!Files -> Contents] /\ kManifest' \in Manifests \cup {None} /\ kTorn' \in BOOLEAN
        /\ UNCHANGED <<kBinary, kRevision, kEdits>>
    BY <1>2 DEF Skill!Saves, Skill!Forgets, Skill!Crashes, SkillType
  <1> QED BY <1>3, <1>4, SkillIdle, SkillMoves

\* A write or a removal, done or failed.
LEMMA SkillActsTyped ==
  ASSUME SkillType, NEW p \in Runners, Skill!Puts(p) \/ Skill!Removes(p)
  PROVE  SkillType'
  <1> DEFINE f == kProc[p].file
             want == Skill!Want(p, f)
             put == [kProc[p] EXCEPT !.at = "look", !.next[f] = want, !.file = None, !.saw = None]
             gone == [kProc[p] EXCEPT !.at = "look", !.file = None, !.saw = None]
  <1>1. kProc[p] \in Installer /\ f \in Skill!Files
    BY DEF SkillType, Careful, Skill!Puts, Skill!Removes
  <1>2. want \in ({"pay"} \X (Nat \cup {None}))
    BY <1>1, SkillConstants DEF Skill!Want, Installer
  <1>3. None \in Contents /\ want \in Contents BY <1>2 DEF Contents
  <1>4. /\ \/ Skill!Set(p, put) /\ kDisk' = [kDisk EXCEPT ![f] = want] /\ UNCHANGED kTorn
           \/ Skill!Set(p, gone) /\ kDisk' = [kDisk EXCEPT ![f] = None] /\ UNCHANGED kTorn
           \/ Skill!Set(p, Skill!Idle) /\ UNCHANGED kDisk /\ kTorn' = TRUE
        /\ UNCHANGED <<kManifest, kBinary, kRevision, kEdits>>
    BY Zenon DEF Skill!Puts, Skill!Removes
  <1> HIDE DEF f, want
  <1>5. /\ kDisk' \in [Skill!Files -> Contents] /\ kManifest' \in Manifests \cup {None} /\ kTorn' \in BOOLEAN
        /\ UNCHANGED <<kBinary, kRevision, kEdits>>
    BY <1>1, <1>3, <1>4 DEF SkillType
  <1>6. put \in Installer /\ put.at = "look" BY <1>1, <1>2, <1>3 DEF Installer, Records
  <1>7. gone \in Installer /\ gone.at = "look" BY <1>1, <1>3 DEF Installer
  <1> HIDE DEF put, gone
  <1>8. Careful(put) /\ Careful(gone) BY <1>6, <1>7 DEF Careful
  <1>9. CASE Skill!Set(p, put) BY <1>5, <1>6, <1>8, <1>9, SkillMoves
  <1>10. CASE Skill!Set(p, gone) BY <1>5, <1>7, <1>8, <1>10, SkillMoves
  <1>11. CASE Skill!Set(p, Skill!Idle) BY <1>5, <1>11, SkillIdle, SkillMoves
  <1> QED BY <1>4, <1>9, <1>10, <1>11

\* An uninstall reads a recorded file: what is as recorded is not the user's.
LEMMA SkillLooksAgainTyped ==
  ASSUME SkillType, NEW p \in Runners, Skill!LooksAgain(p)
  PROVE  SkillType'
  <1>1. kProc[p] \in Installer /\ kProc[p].at = "look" /\ kProc[p].uninstall
    BY DEF SkillType, Skill!LooksAgain
  <1>2. PICK f \in kProc[p].todo :
          IF kDisk[f] = kProc[p].next[f]
          THEN Skill!Set(p, [kProc[p] EXCEPT !.at = "remove", !.file = f, !.saw = kDisk[f], !.todo = @ \ {f}])
          ELSE Skill!Set(p, [kProc[p] EXCEPT !.todo = @ \ {f}])
    BY Zenon DEF Skill!LooksAgain
  <1> DEFINE gone == [kProc[p] EXCEPT !.at = "remove", !.file = f, !.saw = kDisk[f], !.todo = @ \ {f}]
             left == [kProc[p] EXCEPT !.todo = @ \ {f}]
  <1>3. f \in Skill!Files BY <1>1 DEF Installer
  <1>4. kDisk[f] \in Contents BY <1>3 DEF SkillType
  <1>5. CASE kDisk[f] = kProc[p].next[f]
    <2>1. kDisk[f] # Skill!Users BY <1>1, <1>3, <1>5, SkillConstants DEF Installer
    <2>2. gone \in Installer BY <1>1, <1>3, <1>4 DEF Installer
    <2>3. Careful(gone) BY <1>1, <1>3, <2>1, <2>2 DEF Careful, Installer
    <2> QED BY <1>2, <1>5, <2>2, <2>3, SkillMoves DEF Skill!LooksAgain, SkillType
  <1>6. CASE kDisk[f] # kProc[p].next[f]
    <2>1. left \in Installer /\ left.at = "look" BY <1>1 DEF Installer
    <2>2. Careful(left) BY <2>1 DEF Careful
    <2> QED BY <1>2, <1>6, <2>1, <2>2, SkillMoves DEF Skill!LooksAgain, SkillType
  <1> QED BY <1>5, <1>6

LEMMA SkillTyped == SkillType /\ Skill!Next => SkillType'
  <1>1. ASSUME SkillType, Skill!Edits PROVE SkillType'
    <2>1. Skill!Users \in Contents /\ None \in Contents BY SkillConstants DEF Contents
    <2>2. kDisk' \in [Skill!Files -> Contents] BY <1>1, <2>1 DEF Skill!Edits, SkillType
    <2>3. kEdits' \in Nat BY <1>1 DEF Skill!Edits, SkillType
    <2> QED BY <1>1, <2>2, <2>3 DEF Skill!Edits, SkillType
  <1>2. ASSUME SkillType, Skill!Upgrades PROVE SkillType'
    <2>1. kBinary' \in Nat /\ kRevision' \in Nat BY <1>2 DEF Skill!Upgrades, SkillType
    <2> QED BY <1>2, <2>1 DEF Skill!Upgrades, SkillType
  <1> QED BY <1>1, <1>2, SkillBeginsTyped, SkillLoadsTyped, SkillLooksTyped, SkillActsTyped, SkillEndsTyped,
             SkillLooksAgainTyped DEF Skill!Next, Skill!Step

\* Only a command that was told to, or found none of the user's there, replaces a file.
LEMMA UserWork == SkillType /\ Skill!Next => Skill!KeepsUserWork
  <1> SUFFICES ASSUME SkillType, Skill!Next, NEW f \in Skill!Files, kDisk[f] = Skill!Users,
                      kDisk'[f] # Skill!Users, kEdits' = kEdits
               PROVE  \E p \in Runners : kProc'[p] # kProc[p] /\ (kProc[p].force \/ kProc[p].saw # Skill!Users)
    BY DEF Skill!KeepsUserWork
  <1>1. ~Skill!Edits BY DEF Skill!Edits, SkillType
  <1>2. PICK p \in Runners : Skill!Puts(p) \/ Skill!Removes(p)
    BY <1>1 DEF Skill!Next, Skill!Step, Skill!Upgrades, Skill!Begins, Skill!Loads, Skill!Looks, Skill!Saves,
                Skill!LooksAgain, Skill!Forgets, Skill!Crashes
  <1>3. kProc[p] \in Installer /\ Careful(kProc[p]) /\ kProc[p].at \in {"put", "remove"}
    BY <1>2 DEF SkillType, Skill!Puts, Skill!Removes
  <1>4. PICK r : kProc' = [kProc EXCEPT ![p] = r] /\ r.at \in {"look", "idle"}
    <2>1. DEFINE f1 == kProc[p].file
    <2>2. \/ Skill!Set(p, [kProc[p] EXCEPT !.at = "look", !.next[f1] = Skill!Want(p, f1), !.file = None, !.saw = None])
          \/ Skill!Set(p, [kProc[p] EXCEPT !.at = "look", !.file = None, !.saw = None])
          \/ Skill!Set(p, Skill!Idle)
      BY <1>2, Zenon DEF Skill!Puts, Skill!Removes
    <2>3. /\ [kProc[p] EXCEPT !.at = "look", !.next[f1] = Skill!Want(p, f1), !.file = None, !.saw = None].at = "look"
          /\ [kProc[p] EXCEPT !.at = "look", !.file = None, !.saw = None].at = "look"
      BY <1>3 DEF Installer
    <2> QED BY <2>2, <2>3, SkillIdle DEF Skill!Set
  <1>5. kProc'[p] = r BY <1>4 DEF SkillType
  <1>6. kProc'[p] # kProc[p] BY <1>3, <1>4, <1>5
  <1> QED BY <1>3, <1>6 DEF Careful


\* A step of one process while the others are idle.
LEMMA WhenceMoves ==
  ASSUME SkillType, NEW p \in Runners, NEW r \in Installer, Skill!Set(p, r),
         \A q \in Runners \ {p} : kProc[q].at = "idle",
         Minds(r, kDisk'[Skill!Skill], kManifest'),
         r.at = "idle" => Settles(kDisk'[Skill!Skill], kManifest')
  PROVE  Whence'
  <1>1. kProc'[p] = r /\ \A q \in Runners \ {p} : kProc'[q] = kProc[q]
    BY DEF SkillType, Skill!Set
  <1>2. \A q \in Runners \ {p} : Minds(kProc'[q], kDisk'[Skill!Skill], kManifest')
    BY <1>1 DEF Minds
  <1>3. \A q \in Runners : Minds(kProc'[q], kDisk'[Skill!Skill], kManifest')
    BY <1>1, <1>2
  <1>4. \A q1, q2 \in Runners : kProc'[q1].at # "idle" /\ kProc'[q2].at # "idle" => q1 = q2
    BY <1>1
  <1>5. (\A q \in Runners : kProc'[q].at = "idle") => Settles(kDisk'[Skill!Skill], kManifest')
    BY <1>1
  <1>6. (Skill!Skill)' = Skill!Skill BY DEF Skill!Skill
  <1> QED BY <1>3, <1>4, <1>5 DEF Whence, Minds, Settles, NotOurs, Skill!Skill, Skill!Users

LEMMA Lone ==
  ASSUME SkillInv, ~kTorn, NEW p \in Runners, kProc[p].at # "idle"
  PROVE  /\ \A q \in Runners \ {p} : kProc[q].at = "idle"
         /\ Minds(kProc[p], kDisk[Skill!Skill], kManifest) /\ kProc[p] \in Installer /\ Careful(kProc[p])
  BY DEF SkillInv, Whence, SkillType

LEMMA WhenceBegins ==
  ASSUME SkillInv, NEW p \in Runners, Skill!Begins(p)
  PROVE  Whence'
  <1> SUFFICES ASSUME ~kTorn' PROVE Whence' BY DEF Whence
  <1>1. ~kTorn /\ \A q \in Runners : kProc[q].at = "idle" BY DEF Skill!Begins
  <1>2. Settles(kDisk[Skill!Skill], kManifest) BY <1>1 DEF SkillInv, Whence
  <1>3. SkillType /\ SkillType' BY SkillBeginsTyped DEF SkillInv
  <1>4. PICK uninstall \in BOOLEAN, force \in BOOLEAN, project \in {None, kRevision} :
          Skill!Set(p, [Skill!Idle EXCEPT !.at = "load", !.version = kBinary, !.uninstall = uninstall,
                                          !.force = force, !.project = project])
    BY DEF Skill!Begins
  <1> DEFINE r == [Skill!Idle EXCEPT !.at = "load", !.version = kBinary, !.uninstall = uninstall,
                                     !.force = force, !.project = project]
  <1>5. r \in Installer /\ r.at = "load" BY <1>3, SkillIdle DEF Installer, SkillType
  <1> HIDE DEF r
  <1>6. Minds(r, kDisk[Skill!Skill], kManifest) BY <1>2, <1>5 DEF Minds
  <1> QED BY <1>1, <1>3, <1>4, <1>5, <1>6, WhenceMoves DEF r, Skill!Begins

LEMMA WhenceLoads ==
  ASSUME SkillInv, NEW p \in Runners, Skill!Loads(p)
  PROVE  Whence'
  <1> SUFFICES ASSUME ~kTorn' PROVE Whence' BY DEF Whence
  <1> DEFINE c == kDisk[Skill!Skill]
  <1>1. ~kTorn /\ kProc[p].at = "load" /\ kDisk' = kDisk /\ kManifest' = kManifest BY DEF Skill!Loads
  <1>2. /\ \A q \in Runners \ {p} : kProc[q].at = "idle"
        /\ kProc[p] \in Installer /\ SkillType /\ Minds(kProc[p], c, kManifest)
    BY <1>1, Lone DEF SkillInv
  <1>3. Settles(c, kManifest) BY <1>1, <1>2 DEF Minds
  <1>4. ASSUME NEW r \in Installer, Skill!Set(p, r), r.at \in {"idle", "look"}, Minds(r, c, kManifest) PROVE Whence'
    BY <1>1, <1>2, <1>3, <1>4, WhenceMoves
  <1>5. CASE kProc[p].uninstall /\ kManifest = None
    <2>1. Skill!Set(p, Skill!Idle) BY <1>5 DEF Skill!Loads
    <2>2. Minds(Skill!Idle, c, kManifest) BY SkillIdle DEF Minds
    <2> QED BY <1>4, <2>1, <2>2, SkillIdle
  <1>6. CASE kProc[p].uninstall /\ kManifest # None
    <2> DEFINE files == Skill!ManifestFiles(kManifest, kProc[p].version)
               r == [kProc[p] EXCEPT !.at = "look", !.read = kManifest, !.next = files,
                                     !.todo = {f \in Skill!Files : files[f] # None}]
    <2>1. kManifest.files \in Records BY <1>2, <1>6 DEF SkillType, Manifests
    <2>2. [Skill!Nothing EXCEPT ![Skill!Skill] = Skill!Pay(kProc[p].version)] \in Records
      BY <1>2, SkillConstants DEF Skill!Nothing, Records, Installer
    <2>3. files \in Records BY <2>1, <2>2 DEF Skill!ManifestFiles
    <2>4. (files[Skill!Skill] # None => NotOurs(c) \/ files[Skill!Skill] = c)
          /\ (files[Skill!Skill] = None => NotOurs(c))
      <3>1. CASE kManifest.files = Skill!Nothing
        <4>1. files[Skill!Skill] = Skill!Pay(kProc[p].version)
          BY <3>1, SkillConstants DEF Skill!ManifestFiles, Skill!Nothing
        <4>2. kManifest.files[Skill!Skill] = None BY <3>1, SkillConstants DEF Skill!Nothing
        <4>3. kProc[p].version \in Nat BY <1>2 DEF Installer
        <4> QED BY <1>3, <4>1, <4>2, <4>3, SkillConstants DEF Settles, NotOurs
      <3>2. CASE kManifest.files # Skill!Nothing
        <4>1. files = kManifest.files BY <3>2 DEF Skill!ManifestFiles
        <4> QED BY <1>3, <4>1 DEF Settles, NotOurs
      <3> QED BY <3>1, <3>2
    <2>5. Skill!Set(p, r) BY <1>6, Zenon DEF Skill!Loads
    <2> HIDE DEF files
    <2>6. /\ r \in Installer /\ r.at = "look" /\ r.uninstall /\ r.next = files
          /\ r.todo = {f \in Skill!Files : files[f] # None}
      BY <1>2, <1>6, <2>3 DEF Installer, SkillType
    <2> HIDE DEF r
    <2>7. Minds(r, c, kManifest) BY <2>4, <2>6, SkillConstants DEF Minds
    <2> QED BY <1>4, <2>5, <2>6, <2>7
  <1>7. CASE ~kProc[p].uninstall
    <2> DEFINE r == [kProc[p] EXCEPT !.at = "look", !.read = kManifest, !.todo = Skill!Payload(p)]
    <2>1. Skill!Set(p, r) BY <1>7 DEF Skill!Loads
    <2>2. Skill!Payload(p) \subseteq Skill!Files /\ Skill!Skill \in Skill!Payload(p)
      BY SkillConstants DEF Skill!Payload
    <2>3. r \in Installer /\ r.at = "look" /\ ~r.uninstall /\ r.read = kManifest /\ r.todo = Skill!Payload(p)
      BY <1>2, <1>7, <2>2 DEF Installer, SkillType
    <2> HIDE DEF r
    <2>4. Minds(r, c, kManifest) BY <1>3, <2>2, <2>3 DEF Minds
    <2> QED BY <1>4, <2>1, <2>3, <2>4
  <1> QED BY <1>5, <1>6, <1>7

LEMMA WhenceLooks ==
  ASSUME SkillInv, NEW p \in Runners, Skill!Looks(p)
  PROVE  Whence'
  <1> SUFFICES ASSUME ~kTorn' PROVE Whence' BY DEF Whence
  <1> DEFINE c == kDisk[Skill!Skill]
             f == Skill!Min(kProc[p].todo)
             want == Skill!Want(p, f)
             recorded == Skill!Recorded(kProc[p].read, f)
             put == [kProc[p] EXCEPT !.at = "put", !.file = f, !.saw = kDisk[f], !.todo = @ \ {f}]
             kept == [kProc[p] EXCEPT !.todo = @ \ {f}, !.next[f] = Skill!Kept(kDisk[f], want, recorded)]
  <1>1. /\ ~kTorn /\ kProc[p].at = "look" /\ ~kProc[p].uninstall /\ kProc[p].todo # {}
        /\ kDisk' = kDisk /\ kManifest' = kManifest
    BY DEF Skill!Looks
  <1>2. /\ \A q \in Runners \ {p} : kProc[q].at = "idle"
        /\ kProc[p] \in Installer /\ SkillType /\ Minds(kProc[p], c, kManifest)
    BY <1>1, Lone DEF SkillInv
  <1>3. f \in kProc[p].todo /\ f \in Skill!Files
    BY <1>1, <1>2, FirstFile DEF Installer
  <1>4. want \in ({"pay"} \X (Nat \cup {None}))
    BY <1>2, SkillConstants DEF Skill!Want, Installer
  <1>5. recorded \in ({"pay"} \X (Nat \cup {None})) \cup {None}
    BY <1>2, <1>3, SkillConstants DEF Skill!Recorded, Installer, Manifests, Records
  <1>6. kDisk[f] \in Contents BY <1>2, <1>3 DEF SkillType
  <1>7. IF Skill!Decide(kDisk[f], want, recorded, kProc[p].force) THEN Skill!Set(p, put) ELSE Skill!Set(p, kept)
    BY Zenon DEF Skill!Looks
  <1>8. ASSUME NEW r \in Installer, Skill!Set(p, r), r.at # "idle", Minds(r, c, kManifest) PROVE Whence'
    BY <1>1, <1>2, <1>8, WhenceMoves
  <1>9. ASSUME f = Skill!Skill, kDisk[f] # None, kDisk[f] # want PROVE NotOurs(c) \/ recorded = c
    BY <1>1, <1>2, <1>3, <1>9 DEF Minds, Settles, Skill!Recorded
  <1> HIDE DEF f, want, recorded
  <1>10. CASE Skill!Decide(kDisk[f], want, recorded, kProc[p].force)
    <2>1. /\ put \in Installer /\ put.at = "put" /\ put.file = f /\ put.todo = kProc[p].todo \ {f}
          /\ ~put.uninstall /\ put.next = kProc[p].next /\ put.read = kProc[p].read
      BY <1>1, <1>2, <1>3, <1>6 DEF Installer
    <2>2. Minds(put, c, kManifest) BY <1>1, <1>2, <2>1 DEF Minds
    <2> QED BY <1>7, <1>8, <1>10, <2>1, <2>2
  <1>11. CASE ~Skill!Decide(kDisk[f], want, recorded, kProc[p].force)
    <2>1. Skill!Kept(kDisk[f], want, recorded) \in ({"pay"} \X (Nat \cup {None})) \cup {None}
      BY <1>4, <1>5 DEF Skill!Kept
    <2>2. /\ kept \in Installer /\ kept.at = "look" /\ kept.todo = kProc[p].todo \ {f} /\ ~kept.uninstall
          /\ kept.next[f] = Skill!Kept(kDisk[f], want, recorded) /\ kept.read = kProc[p].read
          /\ \A g \in Skill!Files \ {f} : kept.next[g] = kProc[p].next[g]
      BY <1>1, <1>2, <1>3, <2>1 DEF Installer, Records
    <2>3. f = Skill!Skill => NotOurs(c) \/ kept.next[Skill!Skill] = c
      BY <1>9, <1>11, <2>2 DEF Skill!Decide, Skill!Kept
    <2> HIDE DEF kept
    <2>4. Minds(kept, c, kManifest) BY <1>1, <1>2, <2>2, <2>3, SkillConstants DEF Minds
    <2> QED BY <1>7, <1>8, <1>11, <2>2, <2>4
  <1> QED BY <1>10, <1>11


LEMMA WhenceActs ==
  ASSUME SkillInv, NEW p \in Runners, Skill!Puts(p) \/ Skill!Removes(p)
  PROVE  Whence'
  <1> SUFFICES ASSUME ~kTorn' PROVE Whence' BY DEF Whence
  <1> DEFINE c == kDisk[Skill!Skill]
             f == kProc[p].file
             want == Skill!Want(p, f)
             put == [kProc[p] EXCEPT !.at = "look", !.next[f] = want, !.file = None, !.saw = None]
             gone == [kProc[p] EXCEPT !.at = "look", !.file = None, !.saw = None]
  <1>1. ~kTorn /\ kProc[p].at \in {"put", "remove"} /\ kManifest' = kManifest
    BY DEF Skill!Puts, Skill!Removes, SkillInv, SkillType
  <1>2. /\ \A q \in Runners \ {p} : kProc[q].at = "idle"
        /\ kProc[p] \in Installer /\ SkillType /\ Minds(kProc[p], c, kManifest)
        /\ f \in Skill!Files \ kProc[p].todo
        /\ (kProc[p].at = "put" => ~kProc[p].uninstall) /\ (kProc[p].at = "remove" => kProc[p].uninstall)
    BY <1>1, Lone DEF SkillInv, Careful
  <1>3. want \in ({"pay"} \X (Nat \cup {None}))
    BY <1>2, SkillConstants DEF Skill!Want, Installer
  <1>4. None \in Contents BY DEF Contents
  <1>5. \/ kProc[p].at = "put" /\ Skill!Set(p, put) /\ kDisk' = [kDisk EXCEPT ![f] = want]
        \/ kProc[p].at = "remove" /\ Skill!Set(p, gone) /\ kDisk' = [kDisk EXCEPT ![f] = None]
    BY Zenon DEF Skill!Puts, Skill!Removes
  <1> HIDE DEF want
  <1>6. CASE kProc[p].at = "put" /\ Skill!Set(p, put) /\ kDisk' = [kDisk EXCEPT ![f] = want]
    <2>1. /\ put \in Installer /\ put.at = "look" /\ put.todo = kProc[p].todo /\ ~put.uninstall
          /\ put.next[f] = want /\ put.read = kProc[p].read
          /\ \A g \in Skill!Files \ {f} : put.next[g] = kProc[p].next[g]
      BY <1>2, <1>3, <1>4, <1>6 DEF Installer, Records
    <2>2. /\ f = Skill!Skill => kDisk'[Skill!Skill] = want
          /\ f # Skill!Skill => kDisk'[Skill!Skill] = c
      BY <1>2, <1>6, SkillConstants DEF SkillType
    <2> HIDE DEF put, f
    <2>3. Minds(put, kDisk'[Skill!Skill], kManifest')
      <3>1. CASE f = Skill!Skill BY <1>2, <2>1, <2>2, <3>1 DEF Minds
      <3>2. CASE f # Skill!Skill
        <4>1. put.next[Skill!Skill] = kProc[p].next[Skill!Skill] BY <2>1, <3>2, SkillConstants
        <4>2. kProc[p].file # Skill!Skill BY <3>2 DEF f
        <4> QED BY <1>1, <1>2, <1>6, <2>1, <2>2, <3>2, <4>1, <4>2 DEF Minds
      <3> QED BY <3>1, <3>2
    <2> QED BY <1>2, <1>6, <2>1, <2>3, WhenceMoves
  <1>7. CASE kProc[p].at = "remove" /\ Skill!Set(p, gone) /\ kDisk' = [kDisk EXCEPT ![f] = None]
    <2>1. /\ gone \in Installer /\ gone.at = "look" /\ gone.todo = kProc[p].todo /\ gone.uninstall
          /\ gone.next = kProc[p].next
      BY <1>2, <1>4, <1>7 DEF Installer
    <2>2. /\ f = Skill!Skill => kDisk'[Skill!Skill] = None
          /\ f # Skill!Skill => kDisk'[Skill!Skill] = c
      BY <1>2, <1>7, SkillConstants DEF SkillType
    <2> HIDE DEF gone, f
    <2>3. Minds(gone, kDisk'[Skill!Skill], kManifest')
      <3>1. CASE f = Skill!Skill BY <1>2, <2>1, <2>2, <3>1 DEF Minds, NotOurs
      <3>2. CASE f # Skill!Skill
        <4>2. kProc[p].file # Skill!Skill BY <3>2 DEF f
        <4> QED BY <1>1, <1>2, <1>7, <2>1, <2>2, <3>2, <4>2 DEF Minds
      <3> QED BY <3>1, <3>2
    <2> QED BY <1>2, <1>7, <2>1, <2>3, WhenceMoves
  <1> QED BY <1>5, <1>6, <1>7

LEMMA WhenceLooksAgain ==
  ASSUME SkillInv, NEW p \in Runners, Skill!LooksAgain(p)
  PROVE  Whence'
  <1> SUFFICES ASSUME ~kTorn' PROVE Whence' BY DEF Whence
  <1> DEFINE c == kDisk[Skill!Skill]
  <1>1. ~kTorn /\ kProc[p].at = "look" /\ kProc[p].uninstall /\ kDisk' = kDisk /\ kManifest' = kManifest
    BY DEF Skill!LooksAgain
  <1>2. /\ \A q \in Runners \ {p} : kProc[q].at = "idle"
        /\ kProc[p] \in Installer /\ SkillType /\ Minds(kProc[p], c, kManifest)
    BY <1>1, Lone DEF SkillInv
  <1>3. PICK f \in kProc[p].todo :
          IF kDisk[f] = kProc[p].next[f]
          THEN Skill!Set(p, [kProc[p] EXCEPT !.at = "remove", !.file = f, !.saw = kDisk[f], !.todo = @ \ {f}])
          ELSE Skill!Set(p, [kProc[p] EXCEPT !.todo = @ \ {f}])
    BY Zenon DEF Skill!LooksAgain
  <1> DEFINE gone == [kProc[p] EXCEPT !.at = "remove", !.file = f, !.saw = kDisk[f], !.todo = @ \ {f}]
             left == [kProc[p] EXCEPT !.todo = @ \ {f}]
  <1>4. f \in Skill!Files BY <1>2 DEF Installer
  <1>5. kDisk[f] \in Contents BY <1>2, <1>4 DEF SkillType
  <1>6. ASSUME NEW r \in Installer, Skill!Set(p, r), r.at # "idle", Minds(r, c, kManifest) PROVE Whence'
    BY <1>1, <1>2, <1>6, WhenceMoves
  <1>7. CASE kDisk[f] = kProc[p].next[f]
    <2>1. /\ gone \in Installer /\ gone.at = "remove" /\ gone.file = f /\ gone.todo = kProc[p].todo \ {f}
          /\ gone.uninstall /\ gone.next = kProc[p].next
      BY <1>1, <1>2, <1>4, <1>5 DEF Installer
    <2> HIDE DEF gone
    <2>2. Minds(gone, c, kManifest) BY <1>1, <1>2, <2>1 DEF Minds
    <2> QED BY <1>3, <1>6, <1>7, <2>1, <2>2 DEF gone
  <1>8. CASE kDisk[f] # kProc[p].next[f]
    <2>1. /\ left \in Installer /\ left.at = "look" /\ left.todo = kProc[p].todo \ {f}
          /\ left.uninstall /\ left.next = kProc[p].next
      BY <1>1, <1>2 DEF Installer
    <2> HIDE DEF left
    <2>2. Minds(left, c, kManifest) BY <1>1, <1>2, <1>3, <1>8, <2>1 DEF Minds
    <2> QED BY <1>3, <1>6, <1>8, <2>1, <2>2 DEF left
  <1> QED BY <1>7, <1>8

LEMMA WhenceEnds ==
  ASSUME SkillInv, NEW p \in Runners, Skill!Saves(p) \/ Skill!Forgets(p) \/ Skill!Crashes(p)
  PROVE  Whence'
  <1> SUFFICES ASSUME ~kTorn' PROVE Whence' BY DEF Whence
  <1> DEFINE c == kDisk[Skill!Skill]
  <1>1. /\ ~Skill!Crashes(p) /\ ~kTorn /\ kProc[p].at = "look" /\ kProc[p].todo = {} /\ kDisk' = kDisk
        /\ Skill!Set(p, Skill!Idle)
        /\ IF kProc[p].uninstall THEN kManifest' = None ELSE kManifest' = Skill!NextManifest(p)
    BY DEF Skill!Saves, Skill!Forgets, Skill!Crashes, SkillInv, SkillType
  <1>2. /\ \A q \in Runners \ {p} : kProc[q].at = "idle"
        /\ kProc[p] \in Installer /\ SkillType /\ Minds(kProc[p], c, kManifest)
    BY <1>1, Lone DEF SkillInv
  <1>3. NotOurs(c) \/ (~kProc[p].uninstall /\ kProc[p].next[Skill!Skill] = c)
    BY <1>1, <1>2 DEF Minds
  <1>4. /\ Skill!NextManifest(p) # None /\ Skill!NextManifest(p).files = kProc[p].next
    <2>1. Skill!NextManifest(p) \in Manifests BY <1>2 DEF Skill!NextManifest, Manifests, Installer
    <2> QED BY <2>1, SkillConstants DEF Skill!NextManifest
  <1>5. Settles(c, kManifest') BY <1>1, <1>3, <1>4 DEF Settles
  <1>6. Minds(Skill!Idle, c, kManifest') BY SkillIdle DEF Minds
  <1>7. kDisk'[Skill!Skill] = c BY <1>1
  <1> HIDE DEF c
  <1> QED BY <1>1, <1>2, <1>5, <1>6, <1>7, SkillIdle, WhenceMoves

LEMMA WhenceOutside ==
  ASSUME SkillInv, Skill!Edits \/ Skill!Upgrades
  PROVE  Whence'
  <1>1. UNCHANGED <<kManifest, kProc, kTorn>> BY DEF Skill!Edits, Skill!Upgrades
  <1>2. NotOurs(kDisk'[Skill!Skill]) \/ kDisk'[Skill!Skill] = kDisk[Skill!Skill]
    <2>1. CASE Skill!Upgrades BY <2>1 DEF Skill!Upgrades
    <2>2. CASE Skill!Edits
      <3>1. PICK f \in Skill!Files, c \in {Skill!Users, None} : kDisk' = [kDisk EXCEPT ![f] = c] BY <2>2 DEF Skill!Edits
      <3>2. kDisk'[Skill!Skill] = c \/ kDisk'[Skill!Skill] = kDisk[Skill!Skill]
        BY <3>1, SkillConstants DEF SkillInv, SkillType
      <3> QED BY <3>2 DEF NotOurs
    <2> QED BY <2>1, <2>2
  <1>3. \A r : Minds(r, kDisk[Skill!Skill], kManifest) => Minds(r, kDisk'[Skill!Skill], kManifest')
    BY <1>1, <1>2 DEF Minds, Settles
  <1>4. Settles(kDisk[Skill!Skill], kManifest) => Settles(kDisk'[Skill!Skill], kManifest')
    BY <1>1, <1>2 DEF Settles
  <1>5. (Skill!Skill)' = Skill!Skill BY DEF Skill!Skill
  <1>6. ~kTorn' =>
          /\ \A p, q \in Runners : kProc'[p].at # "idle" /\ kProc'[q].at # "idle" => p = q
          /\ \A p \in Runners : Minds(kProc'[p], kDisk'[Skill!Skill], kManifest')
          /\ (\A p \in Runners : kProc'[p].at = "idle") => Settles(kDisk'[Skill!Skill], kManifest')
    BY <1>1, <1>3, <1>4 DEF SkillInv, Whence
  <1> QED BY <1>6 DEF Whence, Minds, Settles, NotOurs, Skill!Skill, Skill!Users

LEMMA SkillNext == SkillInv /\ Skill!Next => SkillInv'
  <1> SUFFICES ASSUME SkillInv, Skill!Next PROVE SkillInv' OBVIOUS
  <1>1. SkillType' BY SkillTyped DEF SkillInv
  <1>2. Whence' BY WhenceBegins, WhenceLoads, WhenceLooks, WhenceActs, WhenceLooksAgain, WhenceEnds, WhenceOutside
                DEF Skill!Next, Skill!Step
  <1> QED BY <1>1, <1>2 DEF SkillInv

\* A SKILL.md that PayCLI wrote is as recorded, so status knows it.
LEMMA StatusKnows == SkillInv => Skill!InstallTrue
  <1> SUFFICES ASSUME SkillInv, ~kTorn, \A p \in Runners : kProc[p].at = "idle", kDisk[Skill!Skill] # Skill!Users
               PROVE  Skill!FileState(Skill!Skill) \in {"missing", "current", "outdated"}
    BY DEF Skill!InstallTrue
  <1>1. Settles(kDisk[Skill!Skill], kManifest) BY DEF SkillInv, Whence
  <1>2. kBinary \in Nat BY DEF SkillInv, SkillType
  <1>3. CASE kDisk[Skill!Skill] = None
    BY <1>2, <1>3, SkillConstants DEF Skill!FileState
  <1>4. CASE kDisk[Skill!Skill] = Skill!Pay(kBinary)
    BY <1>2, <1>4, SkillConstants DEF Skill!FileState
  <1>5. CASE kDisk[Skill!Skill] \notin {None, Skill!Pay(kBinary)}
    <2>1. kManifest # None /\ kManifest.files[Skill!Skill] = kDisk[Skill!Skill]
      BY <1>1, <1>5 DEF Settles, NotOurs
    <2> QED BY <1>5, <2>1 DEF Skill!FileState, Skill!Recorded
  <1> QED BY <1>3, <1>4, <1>5

\* Whatever runs at once or breaks off, no command replaces or removes what the user wrote
\* without being told to; and PayCLI always knows again the SKILL.md it wrote.
THEOREM SkillsAreRight == LocalSpec => SkillsRight
  <1>1. LocalInit => SkillInv BY SkillInit DEF LocalInit
  <1>2. SkillInv /\ UNCHANGED skillVars => SkillInv'
    BY DEF skillVars, SkillInv, SkillType, Whence, Minds, Settles, NotOurs, Careful, Skill!Skill, Skill!Users
  <1>3. SkillInv /\ [LocalNext]_<<part, vars, updateVars, skillVars, backupVars>> => SkillInv'
    BY <1>2, SkillNext DEF LocalNext
  <1>4. SkillInv => (part = "skills" => Skill!InstallTrue) BY StatusKnows
  <1>5. /\ SkillInv /\ [LocalNext]_<<part, vars, updateVars, skillVars, backupVars>>
        => [part = "skills" => Skill!KeepsUserWork]_skillVars
    BY UserWork DEF LocalNext, SkillInv
  <1> QED BY <1>1, <1>3, <1>4, <1>5, PTL DEF LocalSpec, SkillsRight


-----------------------------------------------------------------------------
(* The backups.                                                             *)

Ones  == {<<"update">>, <<"publish">>, <<"trash">>, <<"delete">>}
Twos  == {<<"saveLive", "saveDraft">>, <<"createLive", "saveDraft">>}
News  == {<<"createPublished">>, <<"createDraft">>, <<"createLive", "saveDraft">>}
Plans == Ones \cup Twos \cup News \cup {<<"saveDraft">>, <<"savePublished">>}

IsFile(f) ==
  /\ f.id \in Docs /\ f.time \in Nat /\ f.doc \in Nat /\ f.published \in Nat \cup {None} /\ f.trashed \in BOOLEAN
  /\ f.status \in {"draft", "published"} /\ (f.published # None => f.status = "draft")

\* A command's record; a file in it is whatever it is.
IsCommand(r) ==
  r \in [cmd : {"none", "update", "publish", "trash", "delete", "restore"},
         pc : {"idle", "look", "save", "write", "send"}, id : Docs \cup {None},
         mode : {"plain", "draft", "publish"}, rec : {r.rec}, steps : Plans \cup {<<>>},
         copy : Vault!Doc \cup {None}, name : {r.name}, raced : BOOLEAN, told : {"ok", None}]

\* What a command is about and what it has still to send; and the file it wrote, or is about
\* to, holds the document as it read it.
Fit(r) ==
  /\ IsCommand(r)
  /\ r.pc # "idle" => r.id \in Docs /\ r.told = None
  /\ r.told = "ok" => r.id \in Docs /\ r.cmd = "restore" /\ IsFile(r.rec)
  /\ r.pc = "look" => r.cmd = "restore" /\ IsFile(r.rec) /\ r.id = r.rec.id /\ r.copy = None
  /\ r.pc \in {"save", "write", "send"} =>
        /\ r.steps \in Plans
        /\ r.cmd = "restore" => IsFile(r.rec) /\ (r.steps \in Twos => r.rec.published # None)
        /\ r.cmd # "restore" => r.steps \in Ones
        /\ r.steps \in News => r.pc = "send" /\ r.copy = None
  /\ r.pc = "save" => r.copy = None
  /\ r.pc = "write" => r.copy # None
  /\ r.pc \in {"write", "send"} /\ r.copy # None =>
        IsFile(r.name) /\ r.name.id = r.id /\ Vault!Holds(r.name, r.copy)

\* Before it sends anything, the file is there, or was.
Saved(r, there, cutoff) == r.pc = "send" /\ r.copy # None => r.name \in there \/ r.name.time < cutoff

\* What a restore with which nobody interfered has still to send to the document d, which is
\* about to be created, is as the file's or was just created with the file's published state;
\* and, when it is over, what it made of it.
OnItsWay(r, d) ==
  \/ r.steps \in News /\ r.steps = Vault!RecreateMode(r.rec, r.mode)
  \/ d # None /\ r.id = r.rec.id /\ r.steps = Vault!RestoreMode(r.rec, r.mode, d.live)
  \/ /\ d # None /\ r.steps = <<"saveDraft">> /\ r.mode = "plain" /\ r.rec.published # None
     /\ d.live = r.rec.published /\ d.trashed = r.rec.trashed

Restoring(r, d) ==
  r.cmd = "restore" /\ ~r.raced =>
    /\ r.pc \in {"save", "write", "send"} => OnItsWay(r, d)
    /\ r.pc = "idle" /\ r.told = "ok" /\ d # None => Vault!RestoresFile(r, d)

\* A document has a live row or a draft.
FullDoc(d) == d \in Vault!Doc /\ (d.live # None \/ d.draft # None)

Kepts(o, there, cutoff) ==
  (\E f \in there : f.id = o.id /\ f.time = o.time /\ Vault!Holds(f, o.doc)) \/ o.time < cutoff

BackupType ==
  /\ bDocs \in [Docs -> Vault!Doc \cup {None}] /\ (\A i \in Docs : bDocs[i] # None => FullDoc(bDocs[i]))
  /\ bFresh \subseteq Docs /\ bContent \in Nat /\ bTime \in Nat /\ bCutoff \in Nat
  /\ DOMAIN bProcs = Runners /\ bProcs = [p \in Runners |-> bProcs[p]]
  /\ \A f \in bFiles : IsFile(f)
  /\ \A o \in bOverwritten : o.time \in Nat

BackupInv ==
  /\ BackupType
  /\ \A p \in Runners : /\ Fit(bProcs[p]) /\ Saved(bProcs[p], bFiles \cup bReplaced, bCutoff)
                        /\ Restoring(bProcs[p], bDocs[bProcs[p].id])
  /\ \A o \in bOverwritten : Kepts(o, bFiles \cup bReplaced, bCutoff)

LEMMA IdleFit == Fit(Vault!Idle) /\ Vault!Idle.pc = "idle" /\ Vault!Idle.told = None
  <1>1. IsCommand(Vault!Idle) BY DEF Vault!Idle, IsCommand
  <1> QED BY <1>1, NoneAssumption DEF Vault!Idle, Fit

LEMMA IdleSaved == ASSUME NEW r, r.pc = "idle" PROVE \A there, cutoff : Saved(r, there, cutoff)
  BY DEF Saved

\* What a document's status and newest version are.
LEMMA DocHeld ==
  ASSUME NEW d, FullDoc(d), NEW i \in Docs, NEW t \in Nat, NEW n, NEW cmd
  PROVE  /\ IsFile(Vault!FileOf(i, t, n, cmd, d)) /\ Vault!Holds(Vault!FileOf(i, t, n, cmd, d), d)
         /\ Vault!FileOf(i, t, n, cmd, d).id = i /\ Vault!FileOf(i, t, n, cmd, d).time = t
  <1>1. d.live \in Nat \cup {None} /\ d.draft \in Nat \cup {None} /\ d.trashed \in BOOLEAN
    BY DEF FullDoc, Vault!Doc
  <1>2. Vault!Latest(d) \in Nat BY <1>1 DEF FullDoc, Vault!Latest
  <1> QED BY <1>1, <1>2 DEF Vault!FileOf, Vault!Status, Vault!Holds, IsFile

LEMMA BackupInit == Vault!Init => BackupInv
  <1> SUFFICES ASSUME Vault!Init PROVE BackupInv OBVIOUS
  <1>1. bProcs = [p \in Runners |-> Vault!Idle] BY DEF Vault!Init
  <1>2. bDocs \in [Docs -> Vault!Doc \cup {None}] /\ (\A i \in Docs : bDocs[i] # None => FullDoc(bDocs[i]))
    <2>1. PICK live : live \in {1, None} /\ bDocs = Vault!Start(live) BY DEF Vault!Init, Vault!Live
    <2> DEFINE first == [live |-> live, draft |-> 2, trashed |-> FALSE]
    <2>2. first \in Vault!Doc /\ first.draft = 2 BY <2>1 DEF Vault!Doc
    <2>3. FullDoc(first) BY <2>2, NoneAssumption DEF FullDoc
    <2>4. bDocs = [i \in Docs |-> IF i = 1 THEN first ELSE None] BY <2>1 DEF Vault!Start
    <2> HIDE DEF first
    <2> QED BY <2>2, <2>3, <2>4
  <1>3. BackupType BY <1>1, <1>2 DEF Vault!Init, BackupType
  <1>4. \A p \in Runners : Fit(bProcs[p]) /\ bProcs[p].pc = "idle" /\ bProcs[p].told = None BY <1>1, IdleFit
  <1>5. \A p \in Runners : Saved(bProcs[p], bFiles \cup bReplaced, bCutoff) BY <1>4, IdleSaved
  <1>6. \A p \in Runners : Restoring(bProcs[p], bDocs[bProcs[p].id]) BY <1>4, NoneAssumption DEF Restoring
  <1> QED BY <1>3, <1>4, <1>5, <1>6 DEF BackupInv, Vault!Init


\* A step of one command that leaves the documents and the files alone.
LEMMA BackupMoves ==
  ASSUME BackupInv, NEW p \in Runners, NEW r, Fit(r), Saved(r, bFiles \cup bReplaced, bCutoff),
         Restoring(r, bDocs[r.id]), Vault!Goes(p, r),
         UNCHANGED <<bDocs, bFresh, bContent, bTime, bFiles, bOverwritten, bReplaced, bCutoff>>
  PROVE  BackupInv'
  <1>1. bProcs' = [bProcs EXCEPT ![p] = r] BY DEF Vault!Goes
  <1>2. /\ DOMAIN bProcs' = Runners /\ bProcs' = [q \in Runners |-> bProcs'[q]] /\ bProcs'[p] = r
        /\ \A q \in Runners \ {p} : bProcs'[q] = bProcs[q]
    BY <1>1 DEF BackupInv, BackupType
  <1>3. BackupType' BY <1>2 DEF BackupInv, BackupType
  <1>4. \A q \in Runners : /\ Fit(bProcs'[q]) /\ Saved(bProcs'[q], bFiles \cup bReplaced, bCutoff)
                           /\ Restoring(bProcs'[q], bDocs[bProcs'[q].id])
    BY <1>2 DEF BackupInv
  <1>5. \A o \in bOverwritten : Kepts(o, bFiles \cup bReplaced, bCutoff) BY DEF BackupInv
  <1> QED BY <1>3, <1>4, <1>5 DEF BackupInv

LEMMA IdleRestoring == \A d : Restoring(Vault!Idle, d)
  BY IdleFit, NoneAssumption DEF Restoring

\* A command that ends without success leaves nothing to say.
LEMMA BackupQuits ==
  ASSUME BackupInv, NEW p \in Runners, Vault!BackupFails(p) \/ Vault!Refused(p)
  PROVE  BackupInv'
  <1>1. Vault!Goes(p, Vault!Idle) BY DEF Vault!BackupFails, Vault!Refused, Vault!Ends, Vault!Over
  <1>2. UNCHANGED <<bDocs, bFresh, bContent, bTime, bFiles, bOverwritten, bReplaced, bCutoff>>
    BY DEF Vault!BackupFails, Vault!Refused
  <1> QED BY <1>1, <1>2, IdleFit, IdleSaved, IdleRestoring, BackupMoves

LEMMA BackupStarts ==
  ASSUME BackupInv, NEW p \in Runners, Vault!Starts(p)
  PROVE  BackupInv'
  <1>1. PICK id \in Docs \ bFresh, cmd \in {"update", "publish", "trash", "delete"} :
          Vault!Goes(p, [Vault!Idle EXCEPT !.cmd = cmd, !.pc = "save", !.id = id, !.steps = <<cmd>>])
    BY DEF Vault!Starts
  <1> DEFINE r == [Vault!Idle EXCEPT !.cmd = cmd, !.pc = "save", !.id = id, !.steps = <<cmd>>]
  <1>2. <<cmd>> \in Ones /\ <<cmd>> \notin News /\ <<cmd>> \in Plans BY DEF Ones, News, Plans
  <1>3. /\ r.cmd = cmd /\ r.pc = "save" /\ r.id = id /\ r.steps = <<cmd>> /\ r.copy = None /\ r.told = None
        /\ r.raced = FALSE /\ r.mode = "plain" /\ r.rec = None /\ r.name = None
    BY DEF Vault!Idle
  <1>4. IsCommand(r) BY <1>2 DEF Vault!Idle, IsCommand
  <1> HIDE DEF r
  <1>5. Fit(r) BY <1>2, <1>3, <1>4, NoneAssumption DEF Fit
  <1>6. Saved(r, bFiles \cup bReplaced, bCutoff) /\ Restoring(r, bDocs[r.id]) BY <1>3 DEF Saved, Restoring
  <1> QED BY <1>1, <1>5, <1>6, BackupMoves DEF r, Vault!Starts

LEMMA BackupStartsRestore ==
  ASSUME BackupInv, NEW p \in Runners, Vault!StartsRestore(p)
  PROVE  BackupInv'
  <1>1. PICK f \in bFiles, mode \in {"plain", "draft", "publish"} :
          Vault!Goes(p, [Vault!Idle EXCEPT !.cmd = "restore", !.pc = "look", !.id = f.id, !.mode = mode, !.rec = f])
    BY DEF Vault!StartsRestore
  <1> DEFINE r == [Vault!Idle EXCEPT !.cmd = "restore", !.pc = "look", !.id = f.id, !.mode = mode, !.rec = f]
  <1>2. IsFile(f) /\ f.id \in Docs BY DEF BackupInv, BackupType, IsFile
  <1>3. /\ r.cmd = "restore" /\ r.pc = "look" /\ r.id = f.id /\ r.rec = f /\ r.copy = None /\ r.told = None
    BY DEF Vault!Idle
  <1>4. IsCommand(r) BY <1>2 DEF Vault!Idle, IsCommand
  <1> HIDE DEF r
  <1>5. Fit(r) BY <1>2, <1>3, <1>4, NoneAssumption DEF Fit
  <1>6. Saved(r, bFiles \cup bReplaced, bCutoff) /\ Restoring(r, bDocs[r.id])
    BY <1>3, NoneAssumption DEF Saved, Restoring
  <1> QED BY <1>1, <1>5, <1>6, BackupMoves DEF r, Vault!StartsRestore

LEMMA PlansWhole ==
  /\ Ones \subseteq Plans /\ Twos \subseteq Plans /\ News \subseteq Plans
  /\ <<"saveDraft">> \in Plans /\ <<"savePublished">> \in Plans
  /\ <<"saveDraft">> \notin News \cup Twos \cup Ones /\ <<"savePublished">> \notin News \cup Twos \cup Ones
  /\ <<"saveLive", "saveDraft">> \notin News \cup Ones
  BY DEF Plans, Ones, Twos, News

\* The plan of a restore.
LEMMA RestorePlan ==
  ASSUME NEW f, IsFile(f), NEW mode \in {"plain", "draft", "publish"}, NEW live
  PROVE  LET s == Vault!RestoreMode(f, mode, live)
         IN  /\ s \in Plans \ News /\ (s \in Twos => f.published # None)
             /\ Vault!RecreateMode(f, mode) \in News
             /\ Vault!RecreateMode(f, mode) \in Twos => f.published # None
  <1>1. CASE mode = "draft" BY <1>1, PlansWhole DEF Vault!RestoreMode, Vault!RecreateMode, News, Twos
  <1>2. CASE mode = "publish" BY <1>2, PlansWhole DEF Vault!RestoreMode, Vault!RecreateMode, News, Twos
  <1>3. CASE mode = "plain" /\ f.published # None
    BY <1>3, PlansWhole DEF Vault!RestoreMode, Vault!RecreateMode, News, Twos
  <1>4. CASE mode = "plain" /\ f.published = None
    BY <1>4, PlansWhole DEF Vault!RestoreMode, Vault!RecreateMode, News, Twos
  <1> QED BY <1>1, <1>2, <1>3, <1>4

LEMMA BackupLooks ==
  ASSUME BackupInv, NEW p \in Runners, Vault!Looks(p)
  PROVE  BackupInv'
  <1> DEFINE r == bProcs[p]
             here == bDocs[r.id]
             over == [r EXCEPT !.pc = "save", !.steps = Vault!RestoreMode(r.rec, r.mode, here.live), !.raced = FALSE]
             again == [r EXCEPT !.pc = "send", !.steps = Vault!RecreateMode(r.rec, r.mode), !.raced = FALSE]
  <1>0. UNCHANGED <<bDocs, bFresh, bContent, bTime, bFiles, bOverwritten, bReplaced, bCutoff>> BY DEF Vault!Looks
  <1>1. Fit(r) /\ r.pc = "look" BY DEF BackupInv, Vault!Looks
  <1>2. /\ r.cmd = "restore" /\ IsFile(r.rec) /\ r.id = r.rec.id /\ r.copy = None /\ r.id \in Docs /\ r.told = None
        /\ IsCommand(r) /\ r.mode \in {"plain", "draft", "publish"}
    BY <1>1 DEF Fit, IsCommand
  <1>3. \/ here # None /\ Vault!Goes(p, over)
        \/ here = None /\ Vault!Ends(p, "refused")
        \/ here = None /\ Vault!Goes(p, again)
    BY Zenon DEF Vault!Looks
  <1>4. /\ Vault!RestoreMode(r.rec, r.mode, here.live) \in Plans \ News
        /\ Vault!RestoreMode(r.rec, r.mode, here.live) \in Twos => r.rec.published # None
        /\ Vault!RecreateMode(r.rec, r.mode) \in News
        /\ Vault!RecreateMode(r.rec, r.mode) \in Twos => r.rec.published # None
    BY <1>2, RestorePlan
  <1>5. CASE here # None /\ Vault!Goes(p, over)
    <2>1. /\ over.cmd = r.cmd /\ over.pc = "save" /\ over.id = r.id /\ over.rec = r.rec /\ over.copy = r.copy
          /\ over.told = r.told /\ over.mode = r.mode /\ over.steps = Vault!RestoreMode(r.rec, r.mode, here.live)
          /\ IsCommand(over)
      BY <1>2, <1>4 DEF IsCommand
    <2> HIDE DEF over, r, here
    <2>2. Fit(over) BY <1>2, <1>4, <2>1, NoneAssumption DEF Fit
    <2>3. Saved(over, bFiles \cup bReplaced, bCutoff) BY <2>1 DEF Saved
    <2>4. Restoring(over, bDocs[over.id]) BY <1>2, <1>5, <2>1 DEF Restoring, OnItsWay, here
    <2> QED BY <1>0, <1>5, <2>2, <2>3, <2>4, BackupMoves
  <1>6. CASE here = None /\ Vault!Ends(p, "refused")
    <2>1. Vault!Goes(p, Vault!Idle) BY <1>6 DEF Vault!Ends, Vault!Over
    <2> QED BY <1>0, <2>1, IdleFit, IdleSaved, IdleRestoring, BackupMoves
  <1>7. CASE here = None /\ Vault!Goes(p, again)
    <2>1. /\ again.cmd = r.cmd /\ again.pc = "send" /\ again.id = r.id /\ again.rec = r.rec /\ again.copy = r.copy
          /\ again.told = r.told /\ again.mode = r.mode /\ again.steps = Vault!RecreateMode(r.rec, r.mode)
          /\ IsCommand(again)
      BY <1>2, <1>4, PlansWhole DEF IsCommand
    <2> HIDE DEF again, r, here
    <2>2. Fit(again) BY <1>2, <1>4, <2>1, PlansWhole, NoneAssumption DEF Fit
    <2>3. Saved(again, bFiles \cup bReplaced, bCutoff) BY <1>2, <2>1 DEF Saved
    <2>4. Restoring(again, bDocs[again.id]) BY <1>4, <2>1 DEF Restoring, OnItsWay
    <2> QED BY <1>0, <1>7, <2>2, <2>3, <2>4, BackupMoves
  <1> QED BY <1>3, <1>5, <1>6, <1>7

LEMMA BackupSaves ==
  ASSUME BackupInv, NEW p \in Runners, Vault!Saves(p)
  PROVE  BackupInv'
  <1> DEFINE r == bProcs[p]
             here == bDocs[r.id]
             missing == [r EXCEPT !.pc = "send"]
  <1>0. UNCHANGED <<bDocs, bFresh, bContent, bTime, bFiles, bOverwritten, bReplaced, bCutoff>> BY DEF Vault!Saves
  <1>1. Fit(r) /\ r.pc = "save" /\ Restoring(r, here) BY DEF BackupInv, Vault!Saves
  <1>2. /\ IsCommand(r) /\ r.copy = None /\ r.id \in Docs /\ r.told = None /\ r.steps \in Plans \ News
        /\ r.cmd = "restore" => IsFile(r.rec) /\ (r.steps \in Twos => r.rec.published # None)
        /\ r.cmd # "restore" => r.steps \in Ones
    BY <1>1 DEF Fit
  <1>3. bTime \in Nat /\ (here # None => FullDoc(here)) BY <1>2 DEF BackupInv, BackupType
  <1>4. PICK n : IF here = None THEN Vault!Goes(p, missing)
                 ELSE Vault!Goes(p, [r EXCEPT !.pc = "write", !.copy = here,
                                              !.name = Vault!FileOf(r.id, bTime, n, r.cmd, here)])
    BY Zenon DEF Vault!Saves
  <1>5. CASE here = None
    <2>1. /\ missing.pc = "send" /\ missing.cmd = r.cmd /\ missing.id = r.id /\ missing.rec = r.rec /\ missing.mode = r.mode
          /\ missing.copy = None /\ missing.told = r.told /\ missing.steps = r.steps /\ missing.raced = r.raced
          /\ IsCommand(missing)
      BY <1>2 DEF IsCommand
    <2>2. Vault!Goes(p, missing) BY <1>4, <1>5
    <2> HIDE DEF missing, r, here
    <2>3. Fit(missing) BY <1>2, <2>1, NoneAssumption DEF Fit
    <2>4. Saved(missing, bFiles \cup bReplaced, bCutoff) BY <2>1 DEF Saved
    <2>5. Restoring(missing, bDocs[missing.id]) BY <1>1, <2>1 DEF Restoring, OnItsWay, here
    <2> QED BY <1>0, <2>2, <2>3, <2>4, <2>5, BackupMoves
  <1>6. CASE here # None
    <2> DEFINE file == Vault!FileOf(r.id, bTime, n, r.cmd, here)
               s == [r EXCEPT !.pc = "write", !.copy = here, !.name = file]
    <2>1. IsFile(file) /\ Vault!Holds(file, here) /\ file.id = r.id BY <1>2, <1>3, <1>6, DocHeld
    <2>2. Vault!Goes(p, s) BY <1>4, <1>6
    <2> HIDE DEF file
    <2>3. /\ s.pc = "write" /\ s.cmd = r.cmd /\ s.id = r.id /\ s.rec = r.rec /\ s.mode = r.mode
          /\ s.copy = here /\ s.told = r.told /\ s.steps = r.steps /\ s.raced = r.raced /\ s.name = file
          /\ IsCommand(s)
      BY <1>2, <1>3, <1>6 DEF IsCommand, FullDoc
    <2> HIDE DEF s, r, here
    <2>4. Fit(s) BY <1>2, <1>6, <2>1, <2>3, NoneAssumption DEF Fit
    <2>5. Saved(s, bFiles \cup bReplaced, bCutoff) BY <2>3 DEF Saved
    <2>6. Restoring(s, bDocs[s.id]) BY <1>1, <2>3 DEF Restoring, OnItsWay, here
    <2> QED BY <1>0, <2>2, <2>4, <2>5, <2>6, BackupMoves
  <1> QED BY <1>5, <1>6


\* A file that is written: one it takes the place of is remembered.
LEMMA BackupWrites ==
  ASSUME BackupInv, NEW p \in Runners, Vault!Writes(p)
  PROVE  BackupInv'
  <1> DEFINE r == bProcs[p]
             s == [r EXCEPT !.pc = "send"]
             there == bFiles \cup bReplaced
  <1>0. UNCHANGED <<bDocs, bFresh, bContent, bTime, bOverwritten, bCutoff>> BY DEF Vault!Writes
  <1>1. Fit(r) /\ r.pc = "write" /\ Restoring(r, bDocs[r.id]) BY DEF BackupInv, Vault!Writes
  <1>2. /\ IsCommand(r) /\ r.copy # None /\ r.id \in Docs /\ r.told = None /\ r.steps \in Plans \ News
        /\ r.cmd = "restore" => IsFile(r.rec) /\ (r.steps \in Twos => r.rec.published # None)
        /\ r.cmd # "restore" => r.steps \in Ones
        /\ IsFile(r.name) /\ r.name.id = r.id /\ Vault!Holds(r.name, r.copy)
    BY <1>1 DEF Fit
  <1>3. /\ bFiles' \subseteq bFiles \cup {r.name} /\ r.name \in bFiles' /\ there \subseteq bFiles' \cup bReplaced'
        /\ bProcs' = [bProcs EXCEPT ![p] = s]
    <2>1. PICK old : old \subseteq bFiles /\ bFiles' = (bFiles \ old) \cup {r.name} /\ bReplaced' = bReplaced \cup old
      BY DEF Vault!Writes
    <2> QED BY <2>1 DEF Vault!Writes, Vault!Goes
  <1>4. /\ s.pc = "send" /\ s.cmd = r.cmd /\ s.id = r.id /\ s.rec = r.rec /\ s.mode = r.mode
        /\ s.copy = r.copy /\ s.told = r.told /\ s.steps = r.steps /\ s.raced = r.raced /\ s.name = r.name
        /\ IsCommand(s)
    BY <1>2 DEF IsCommand
  <1>5. /\ DOMAIN bProcs' = Runners /\ bProcs' = [q \in Runners |-> bProcs'[q]] /\ bProcs'[p] = s
        /\ \A q \in Runners \ {p} : bProcs'[q] = bProcs[q]
    BY <1>3 DEF BackupInv, BackupType
  <1> HIDE DEF s, r
  <1>6. Fit(s) BY <1>2, <1>4, NoneAssumption DEF Fit
  <1>7. Saved(s, bFiles' \cup bReplaced', bCutoff) BY <1>3, <1>4 DEF Saved
  <1>8. Restoring(s, bDocs[s.id]) BY <1>1, <1>4 DEF Restoring, OnItsWay
  <1>9. \A q \in Runners : /\ Fit(bProcs'[q]) /\ Saved(bProcs'[q], bFiles' \cup bReplaced', bCutoff)
                           /\ Restoring(bProcs'[q], bDocs[bProcs'[q].id])
    BY <1>3, <1>5, <1>6, <1>7, <1>8 DEF BackupInv, Saved
  <1>10. \A o \in bOverwritten : Kepts(o, bFiles' \cup bReplaced', bCutoff) BY <1>3 DEF BackupInv, Kepts
  <1>11. BackupType' BY <1>0, <1>2, <1>3, <1>5 DEF BackupInv, BackupType
  <1> QED BY <1>0, <1>9, <1>10, <1>11 DEF BackupInv

\* What a prune takes is older than its cutoff.
LEMMA BackupPrune ==
  ASSUME BackupInv, NEW p \in Runners, Vault!Prune(p)
  PROVE  BackupInv'
  <1>0. UNCHANGED <<bDocs, bFresh, bContent, bTime, bProcs, bOverwritten, bReplaced>> BY DEF Vault!Prune
  <1>1. PICK before \in 1 .. bTime, id \in Docs \cup {None} :
          bFiles' = bFiles \ Vault!List(id, before) /\ bCutoff' = IF before > bCutoff THEN before ELSE bCutoff
    BY DEF Vault!Prune
  <1>2. /\ bTime \in Nat /\ bCutoff \in Nat /\ before \in Nat /\ bCutoff' \in Nat /\ bCutoff' >= bCutoff /\ bCutoff' >= before
    BY <1>1 DEF BackupInv, BackupType
  <1>3. \A f \in bFiles : IsFile(f) /\ (f \in bFiles' \/ f.time < before)
    BY <1>1 DEF Vault!List, BackupInv, BackupType
  <1>4. bFiles' \subseteq bFiles BY <1>1
  <1>5. ASSUME NEW r, Fit(r), Saved(r, bFiles \cup bReplaced, bCutoff) PROVE Saved(r, bFiles' \cup bReplaced', bCutoff')
    <2> SUFFICES ASSUME r.pc = "send", r.copy # None
                 PROVE  r.name \in bFiles' \cup bReplaced' \/ r.name.time < bCutoff'
      BY DEF Saved
    <2>1. r.name.time \in Nat BY <1>5 DEF Fit, IsFile
    <2>2. r.name \in bFiles \cup bReplaced \/ r.name.time < bCutoff BY <1>5 DEF Saved
    <2> QED BY <1>0, <1>2, <1>3, <2>1, <2>2
  <1>6. ASSUME NEW o \in bOverwritten PROVE Kepts(o, bFiles' \cup bReplaced', bCutoff')
    <2>1. o.time \in Nat /\ Kepts(o, bFiles \cup bReplaced, bCutoff) BY DEF BackupInv, BackupType
    <2>2. CASE o.time < bCutoff BY <1>2, <2>1, <2>2 DEF Kepts
    <2>3. CASE \E f \in bFiles \cup bReplaced : f.id = o.id /\ f.time = o.time /\ Vault!Holds(f, o.doc)
      BY <1>0, <1>2, <1>3, <2>1, <2>3 DEF Kepts
    <2> QED BY <2>1, <2>2, <2>3 DEF Kepts
  <1>7. BackupType' BY <1>0, <1>2, <1>4 DEF BackupInv, BackupType
  <1>8. \A q \in Runners : Fit(bProcs[q]) /\ Saved(bProcs[q], bFiles' \cup bReplaced', bCutoff')
                           /\ Restoring(bProcs[q], bDocs[bProcs[q].id])
    BY <1>5 DEF BackupInv
  <1> QED BY <1>0, <1>6, <1>7, <1>8 DEF BackupInv

LEMMA BackupTick == ASSUME BackupInv, Vault!Tick PROVE BackupInv'
  <1>1. UNCHANGED <<bDocs, bFresh, bContent, bFiles, bProcs, bOverwritten, bReplaced, bCutoff>> /\ bTime' \in Nat
    BY DEF Vault!Tick, BackupInv, BackupType
  <1>2. BackupType' BY <1>1 DEF BackupInv, BackupType
  <1> QED BY <1>1, <1>2 DEF BackupInv

\* Whoever else is about a document that somebody wrote has raced, and what is said of a
\* restore is said no more.
Bystander(r, s, id) == IF r.id = id THEN s = [r EXCEPT !.raced = TRUE] ELSE s = r

LEMMA Bystands ==
  ASSUME NEW r, NEW s, NEW id \in Docs, Fit(r), Bystander(r, s, id)
  PROVE  /\ Fit(s) /\ \A there, cutoff : Saved(r, there, cutoff) => Saved(s, there, cutoff)
         /\ s.id = r.id /\ (r.id = id => \A d : Restoring(s, d)) /\ (r.id # id => s = r)
  <1>1. CASE r.id # id BY <1>1 DEF Bystander
  <1>2. CASE r.id = id
    <2>1. s = [r EXCEPT !.raced = TRUE] /\ IsCommand(r) BY <1>2 DEF Bystander, Fit
    <2>2. /\ s.pc = r.pc /\ s.cmd = r.cmd /\ s.id = r.id /\ s.rec = r.rec /\ s.mode = r.mode
          /\ s.copy = r.copy /\ s.told = r.told /\ s.steps = r.steps /\ s.raced = TRUE /\ s.name = r.name
          /\ IsCommand(s)
      BY <2>1 DEF IsCommand
    <2>3. Fit(s) BY <2>2 DEF Fit
    <2>4. \A there, cutoff : Saved(r, there, cutoff) => Saved(s, there, cutoff) BY <2>2 DEF Saved
    <2>5. \A d : Restoring(s, d) BY <2>2 DEF Restoring
    <2> QED BY <1>2, <2>2, <2>3, <2>4, <2>5
  <1> QED BY <1>1, <1>2

LEMMA RacesBystand ==
  ASSUME BackupInv, NEW who, NEW id, NEW q \in Runners, q # who
  PROVE  Bystander(bProcs[q], Vault!Races(who, id)[q], id)
  BY DEF Vault!Races, Bystander

\* What an edit, a publish or the trash makes of a document.
LEMMA BecomesFull ==
  ASSUME NEW d, FullDoc(d), NEW what, NEW f, bContent \in Nat,
         what \in {"update", "publish", "trash", "saveLive", "savePublished", "saveDraft"},
         what \in {"saveLive", "savePublished", "saveDraft"} => IsFile(f),
         what = "saveLive" => f.published # None
  PROVE  FullDoc(Vault!Becomes(d, what, f))
  <1>1. /\ d \in [live : Nat \cup {None}, draft : Nat \cup {None}, trashed : BOOLEAN] /\ (d.live # None \/ d.draft # None)
        /\ None \notin Nat
    BY NoneAssumption DEF FullDoc, Vault!Doc
  <1>2. CASE what = "update" BY <1>1, <1>2 DEF Vault!Becomes, FullDoc, Vault!Doc
  <1>3. CASE what = "publish" BY <1>1, <1>3 DEF Vault!Becomes, FullDoc, Vault!Doc, Vault!Latest
  <1>4. CASE what = "trash" BY <1>1, <1>4 DEF Vault!Becomes, FullDoc, Vault!Doc
  <1>5. CASE what = "saveLive" BY <1>1, <1>5 DEF Vault!Becomes, FullDoc, Vault!Doc, IsFile
  <1>6. CASE what = "savePublished" BY <1>1, <1>6 DEF Vault!Becomes, FullDoc, Vault!Doc, IsFile
  <1>7. CASE what = "saveDraft" BY <1>1, <1>7 DEF Vault!Becomes, FullDoc, Vault!Doc, IsFile
  <1> QED BY <1>2, <1>3, <1>4, <1>5, <1>6, <1>7

LEMMA BackupOthers == ASSUME BackupInv, Vault!Others PROVE BackupInv'
  <1>0. UNCHANGED <<bFresh, bTime, bFiles, bOverwritten, bReplaced, bCutoff>> /\ bContent \in Nat /\ bContent' \in Nat
    BY DEF Vault!Others, BackupInv, BackupType
  <1>1. PICK id \in Docs : /\ bDocs[id] # None
                           /\ bDocs' = [bDocs EXCEPT ![id] = Vault!Becomes(bDocs[id], "update", None)]
                           /\ bProcs' = Vault!Races(None, id)
    BY DEF Vault!Others
  <1>2. FullDoc(bDocs[id]) BY <1>1 DEF BackupInv, BackupType
  <1> DEFINE d == Vault!Becomes(bDocs[id], "update", None)
  <1>3. FullDoc(d) BY <1>0, <1>2, BecomesFull
  <1> HIDE DEF d
  <1>4. /\ bDocs' \in [Docs -> Vault!Doc \cup {None}] /\ (\A i \in Docs : bDocs'[i] # None => FullDoc(bDocs'[i]))
        /\ \A i \in Docs \ {id} : bDocs'[i] = bDocs[i]
    BY <1>1, <1>3 DEF d, BackupInv, BackupType, FullDoc
  <1>5. DOMAIN bProcs' = Runners /\ bProcs' = [q \in Runners |-> bProcs'[q]]
    BY <1>1 DEF Vault!Races
  <1>6. BackupType' BY <1>0, <1>4, <1>5 DEF BackupInv, BackupType
  <1>7. ASSUME NEW q \in Runners
        PROVE  Fit(bProcs'[q]) /\ Saved(bProcs'[q], bFiles \cup bReplaced, bCutoff) /\ Restoring(bProcs'[q], bDocs'[bProcs'[q].id])
    <2>1. q # None BY NoneAssumption
    <2>2. Bystander(bProcs[q], bProcs'[q], id) BY <1>1, <2>1, RacesBystand
    <2>3. Fit(bProcs[q]) /\ Saved(bProcs[q], bFiles \cup bReplaced, bCutoff) /\ Restoring(bProcs[q], bDocs[bProcs[q].id])
      BY DEF BackupInv
    <2>4. Fit(bProcs'[q]) /\ Saved(bProcs'[q], bFiles \cup bReplaced, bCutoff) BY <2>2, <2>3, Bystands
    <2>5. Restoring(bProcs'[q], bDocs'[bProcs'[q].id])
      <3>1. CASE bProcs[q].id = id BY <2>2, <2>3, <3>1, Bystands
      <3>2. CASE bProcs[q].id # id
        <4>1. bProcs'[q] = bProcs[q] BY <2>2, <3>2 DEF Bystander
        <4>2. CASE bProcs[q].id \in Docs BY <1>4, <2>3, <3>2, <4>1, <4>2
        <4>3. CASE bProcs[q].id \notin Docs BY <2>3, <4>1, <4>3 DEF Fit, Restoring
        <4> QED BY <4>2, <4>3
      <3> QED BY <3>1, <3>2
    <2> QED BY <2>4, <2>5
  <1> QED BY <1>0, <1>6, <1>7 DEF BackupInv


LEMMA PlanSteps ==
  ASSUME NEW s \in Plans
  PROVE  /\ s \in Ones => Head(s) \in {"update", "publish", "trash", "delete"}
         /\ s \in News <=> Head(s) \in {"createLive", "createPublished", "createDraft"}
         /\ s \notin Ones \cup News => Head(s) \in {"saveLive", "saveDraft", "savePublished"}
         /\ s \in Twos => Len(s) # 1 /\ Tail(s) = <<"saveDraft">>
         /\ s \notin Twos => Len(s) = 1
         /\ Head(s) \in {"saveLive", "createLive"} <=> s \in Twos
         /\ (s \notin Twos /\ Head(s) = "saveDraft") => s = <<"saveDraft">>
  <1>1. \A what : Head(<<what>>) = what /\ Len(<<what>>) = 1 OBVIOUS
  <1>2. \A what : Head(<<what, "saveDraft">>) = what /\ Len(<<what, "saveDraft">>) = 2
                  /\ Tail(<<what, "saveDraft">>) = <<"saveDraft">>
    OBVIOUS
  <1>3. CASE s \in Ones BY <1>1, <1>3 DEF Ones, Twos, News
  <1>4. CASE s = <<"saveLive", "saveDraft">> BY <1>2, <1>4 DEF Ones, Twos, News
  <1>5. CASE s = <<"createLive", "saveDraft">> BY <1>2, <1>5 DEF Ones, Twos, News
  <1>6. CASE s \in {<<"createPublished">>, <<"createDraft">>, <<"saveDraft">>, <<"savePublished">>}
    BY <1>1, <1>6 DEF Ones, Twos, News
  <1> QED BY <1>3, <1>4, <1>5, <1>6 DEF Plans, Twos, News

\* A request that was executed: what it makes of the document, of its command, and of what is
\* to be remembered.
LEMMA BackupExecuted ==
  ASSUME BackupInv, NEW p \in Runners, NEW id \in Docs, NEW e, e = None \/ FullDoc(e), NEW s,
         bDocs' = [bDocs EXCEPT ![id] = e], bProcs' = [Vault!Races(p, id) EXCEPT ![p] = s],
         Fit(s), Saved(s, bFiles \cup bReplaced, bCutoff), s.id = id => Restoring(s, e),
         s.id # id => s.cmd # "restore",
         bFresh' \subseteq Docs, bContent' \in Nat, UNCHANGED <<bTime, bFiles, bReplaced, bCutoff>>,
         \A o \in bOverwritten' : o.time \in Nat /\ Kepts(o, bFiles \cup bReplaced, bCutoff)
  PROVE  BackupInv'
  <1>1. /\ bDocs' \in [Docs -> Vault!Doc \cup {None}] /\ (\A i \in Docs : bDocs'[i] # None => FullDoc(bDocs'[i]))
        /\ bDocs'[id] = e /\ \A i \in Docs \ {id} : bDocs'[i] = bDocs[i]
    BY DEF BackupInv, BackupType, FullDoc
  <1>2. /\ DOMAIN bProcs' = Runners /\ bProcs' = [q \in Runners |-> bProcs'[q]]
        /\ bProcs'[p] = s /\ \A q \in Runners \ {p} : bProcs'[q] = Vault!Races(p, id)[q]
    BY DEF Vault!Races
  <1>3. BackupType' BY <1>1, <1>2 DEF BackupInv, BackupType
  <1>4. ASSUME NEW q \in Runners
        PROVE  Fit(bProcs'[q]) /\ Saved(bProcs'[q], bFiles \cup bReplaced, bCutoff) /\ Restoring(bProcs'[q], bDocs'[bProcs'[q].id])
    <2>1. CASE q = p
      <3>1. s.id = id => Restoring(s, bDocs'[s.id]) BY <1>1
      <3>2. s.id # id => Restoring(s, bDocs'[s.id]) BY DEF Restoring
      <3> QED BY <1>2, <2>1, <3>1, <3>2
    <2>2. CASE q # p
      <3>1. Bystander(bProcs[q], bProcs'[q], id) BY <1>2, <2>2, RacesBystand
      <3>2. Fit(bProcs[q]) /\ Saved(bProcs[q], bFiles \cup bReplaced, bCutoff) /\ Restoring(bProcs[q], bDocs[bProcs[q].id])
        BY DEF BackupInv
      <3>3. Fit(bProcs'[q]) /\ Saved(bProcs'[q], bFiles \cup bReplaced, bCutoff) BY <3>1, <3>2, Bystands
      <3>4. Restoring(bProcs'[q], bDocs'[bProcs'[q].id])
        <4>1. CASE bProcs[q].id = id BY <3>1, <3>2, <4>1, Bystands
        <4>2. CASE bProcs[q].id # id
          <5>1. bProcs'[q] = bProcs[q] BY <3>1, <4>2 DEF Bystander
          <5>2. CASE bProcs[q].id \in Docs BY <1>1, <3>2, <4>2, <5>1, <5>2
          <5>3. CASE bProcs[q].id \notin Docs BY <3>2, <5>1, <5>3 DEF Fit, Restoring
          <5> QED BY <5>2, <5>3
        <4> QED BY <4>1, <4>2
      <3> QED BY <3>3, <3>4
    <2> QED BY <2>1, <2>2
  <1> QED BY <1>3, <1>4 DEF BackupInv, BackupType

\* What the last request of a restore makes of the document, when nobody interfered.
LEMMA LastRequest ==
  ASSUME NEW r, Fit(r), r.pc = "send", r.cmd = "restore", NEW d, d # None => FullDoc(d), OnItsWay(r, d), r.steps \notin Twos,
         NEW id, r.steps \notin News => d # None /\ id = r.id, NEW e,
         r.steps \in News => e = Vault!Created(Head(r.steps), r.rec),
         r.steps \notin News => e = Vault!Becomes(d, Head(r.steps), r.rec),
         NEW o, o.mode = r.mode, o.rec = r.rec, o.id = id
  PROVE  Vault!RestoresFile(o, e)
  <1> DEFINE f == r.rec
  <1>1. /\ IsFile(f) /\ r.steps \in Plans /\ r.mode \in {"plain", "draft", "publish"}
        /\ f.doc \in Nat /\ None \notin Nat
    BY NoneAssumption DEF Fit, IsFile, IsCommand
  <1>2. Head(<<"savePublished">>) = "savePublished" /\ Head(<<"saveDraft">>) = "saveDraft"
        /\ Head(<<"createPublished">>) = "createPublished" /\ Head(<<"createDraft">>) = "createDraft"
    OBVIOUS
  <1>3. f.published # None => f.status = "draft" BY <1>1 DEF IsFile
  <1>4. CASE r.steps \in News
    <2>1. r.steps = <<"createPublished">> \/ r.steps = <<"createDraft">> BY <1>4 DEF News, Twos
    <2>2. r.steps = Vault!RecreateMode(f, r.mode)
      BY <1>1, <1>4, <2>1, RestorePlan, PlansWhole DEF OnItsWay
    <2>3. r.steps = <<"createPublished">> => e.live = f.doc /\ e.draft = None /\ e.trashed = f.trashed
      BY <1>2, <1>4 DEF Vault!Created
    <2>4. r.steps = <<"createDraft">> => e.draft = f.doc /\ e.trashed = f.trashed
      BY <1>2, <1>4 DEF Vault!Created
    <2>5. r.mode = "plain" => f.published = None BY <2>1, <2>2 DEF Vault!RecreateMode
    <2>6. r.mode = "publish" => r.steps = <<"createPublished">> BY <2>2 DEF Vault!RecreateMode
    <2>7. r.mode = "draft" => r.steps = <<"createDraft">> BY <2>2 DEF Vault!RecreateMode
    <2> HIDE DEF f
    <2> QED BY <1>1, <2>1, <2>3, <2>4, <2>5, <2>6, <2>7 DEF Vault!RestoresFile, Vault!Latest, f
  <1>5. CASE r.steps \notin News
    <2>1. r.steps = <<"saveDraft">> => e.draft = f.doc /\ e.live = d.live /\ e.trashed = d.trashed
      BY <1>2, <1>5 DEF Vault!Becomes, FullDoc, Vault!Doc
    <2>2. r.steps = <<"savePublished">> => e.live = f.doc /\ e.draft = None /\ e.trashed = f.trashed
      BY <1>2, <1>5 DEF Vault!Becomes, FullDoc, Vault!Doc
    <2>3. CASE id = f.id /\ r.steps = Vault!RestoreMode(f, r.mode, d.live)
      <3>1. r.mode = "publish" => r.steps = <<"savePublished">> BY <2>3 DEF Vault!RestoreMode
      <3>2. r.mode = "draft" => r.steps = <<"saveDraft">> BY <2>3 DEF Vault!RestoreMode
      <3>3. r.mode = "plain" /\ f.published # None => r.steps = <<"saveDraft">> /\ d.live = f.published
        BY <2>3 DEF Vault!RestoreMode, Twos
      <3>4. r.mode = "plain" /\ f.published = None =>
              r.steps = IF f.status = "draft" THEN <<"saveDraft">> ELSE <<"savePublished">>
        BY <2>3 DEF Vault!RestoreMode
      <3>5. f.status \in {"draft", "published"} BY <1>1 DEF IsFile
      <3> HIDE DEF f
      <3> QED BY <1>1, <1>3, <2>1, <2>2, <2>3, <3>1, <3>2, <3>3, <3>4, <3>5 DEF Vault!RestoresFile, Vault!Latest, f
    <2>4. CASE /\ r.steps = <<"saveDraft">> /\ r.mode = "plain" /\ f.published # None
               /\ d.live = f.published /\ d.trashed = f.trashed
      BY <1>1, <2>1, <2>4 DEF Vault!RestoresFile, Vault!Latest
    <2> QED BY <1>5, <2>3, <2>4 DEF OnItsWay
  <1> QED BY <1>4, <1>5


\* After the first of two requests the draft is to come, on top of what was live.
LEMMA FirstRequest ==
  ASSUME NEW r, Fit(r), r.pc = "send", r.cmd = "restore", NEW d, d # None => FullDoc(d), OnItsWay(r, d), r.steps \in Twos,
         NEW id, r.steps \notin News => d # None /\ id = r.id, NEW e, e # None,
         r.steps \in News => e = Vault!Created(Head(r.steps), r.rec),
         r.steps \notin News => e = Vault!Becomes(d, Head(r.steps), r.rec),
         NEW o, o.mode = r.mode, o.rec = r.rec, o.id = id, o.steps = <<"saveDraft">>
  PROVE  OnItsWay(o, e)
  <1> DEFINE f == r.rec
  <1>1. Head(<<"saveLive", "saveDraft">>) = "saveLive" /\ Head(<<"createLive", "saveDraft">>) = "createLive" OBVIOUS
  <1>2. r.steps = <<"saveLive", "saveDraft">> \/ r.steps = <<"createLive", "saveDraft">> BY DEF Twos
  <1>3. CASE r.steps = <<"createLive", "saveDraft">>
    <2>1. r.steps \in News BY <1>3 DEF News
    <2>2. r.steps = Vault!RecreateMode(f, r.mode)
      BY <2>1, <1>3, PlansWhole, RestorePlan DEF OnItsWay, Fit, IsCommand
    <2>3. r.mode = "plain" /\ f.published # None BY <1>3, <2>2 DEF Vault!RecreateMode, Fit, IsCommand
    <2>4. e.live = f.published /\ e.trashed = f.trashed BY <1>1, <1>3, <2>1 DEF Vault!Created
    <2> QED BY <2>3, <2>4 DEF OnItsWay
  <1>4. CASE r.steps = <<"saveLive", "saveDraft">>
    <2>1. r.steps \notin News BY <1>4, PlansWhole
    <2>2. r.id = f.id /\ r.steps = Vault!RestoreMode(f, r.mode, d.live)
      BY <1>4, <2>1 DEF OnItsWay
    <2>3. r.mode = "plain" /\ f.published # None BY <1>4, <2>2 DEF Vault!RestoreMode, Fit, IsCommand
    <2>4. e.live = f.published BY <1>1, <1>4, <2>1 DEF Vault!Becomes, FullDoc, Vault!Doc
    <2>5. Vault!RestoreMode(f, r.mode, e.live) = <<"saveDraft">> BY <2>3, <2>4 DEF Vault!RestoreMode
    <2> HIDE DEF f
    <2> QED BY <2>1, <2>2, <2>5 DEF OnItsWay, f
  <1> QED BY <1>2, <1>3, <1>4

LEMMA BackupExecutes ==
  ASSUME BackupInv, NEW p \in Runners, Vault!Executes(p)
  PROVE  BackupInv'
  <1> DEFINE r == bProcs[p]
             what == Head(r.steps)
             creates == what \in {"createLive", "createPublished", "createDraft"}
             more(id) == [r EXCEPT !.id = id, !.steps = Tail(@)]
             after(id, answered) ==
               IF ~answered THEN Vault!Over(r, id, "failed")
               ELSE IF Len(r.steps) = 1 THEN Vault!Over(r, id, "ok") ELSE more(id)
             made(id) == IF creates THEN Vault!Created(what, r.rec) ELSE Vault!Becomes(bDocs[id], what, r.rec)
  <1>0. UNCHANGED <<bTime, bFiles, bReplaced, bCutoff>> BY DEF Vault!Executes
  <1>1. r.pc = "send" /\ Fit(r) /\ Saved(r, bFiles \cup bReplaced, bCutoff) /\ Restoring(r, bDocs[r.id])
    BY DEF Vault!Executes, BackupInv
  <1>2. PICK id \in (IF creates THEN bFresh ELSE {r.id}) : \E answered \in BOOLEAN :
          /\ creates \/ bDocs[id] # None
          /\ bDocs' = [bDocs EXCEPT ![id] = made(id)]
          /\ bFresh' = bFresh \ {id}
          /\ bOverwritten' = IF ~creates /\ bDocs[id] = r.copy /\ bDocs'[id] # bDocs[id]
                             THEN bOverwritten \cup {[id |-> id, doc |-> bDocs[id], time |-> r.name.time]} ELSE bOverwritten
          /\ bContent' = bContent + (IF what = "update" THEN 1 ELSE 0)
          /\ bProcs' = [Vault!Races(p, id) EXCEPT ![p] = after(id, answered)]
    BY Zenon DEF Vault!Executes
  <1>3. PICK answered \in BOOLEAN : bProcs' = [Vault!Races(p, id) EXCEPT ![p] = after(id, answered)] BY <1>2
  <1> DEFINE e == made(id)
             s == after(id, answered)
             d == bDocs[r.id]
  <1>4. /\ creates \/ bDocs[id] # None
        /\ bDocs' = [bDocs EXCEPT ![id] = e]
        /\ bFresh' = bFresh \ {id}
        /\ bOverwritten' = IF ~creates /\ bDocs[id] = r.copy /\ bDocs'[id] # bDocs[id]
                           THEN bOverwritten \cup {[id |-> id, doc |-> bDocs[id], time |-> r.name.time]} ELSE bOverwritten
        /\ bContent' = bContent + (IF what = "update" THEN 1 ELSE 0)
        /\ bProcs' = [Vault!Races(p, id) EXCEPT ![p] = s]
    BY <1>2, <1>3
  <1>5. /\ IsCommand(r) /\ r.id \in Docs /\ r.told = None /\ r.steps \in Plans
        /\ r.cmd = "restore" => IsFile(r.rec) /\ (r.steps \in Twos => r.rec.published # None)
        /\ r.cmd # "restore" => r.steps \in Ones
        /\ r.steps \in News => r.copy = None
        /\ r.copy # None => IsFile(r.name) /\ r.name.id = r.id /\ Vault!Holds(r.name, r.copy)
    BY <1>1 DEF Fit
  <1>6. /\ creates <=> r.steps \in News
        /\ r.steps \in Ones => what \in {"update", "publish", "trash", "delete"}
        /\ r.steps \notin Ones \cup News => what \in {"saveLive", "saveDraft", "savePublished"}
        /\ r.steps \in Twos => Len(r.steps) # 1 /\ Tail(r.steps) = <<"saveDraft">>
        /\ r.steps \notin Twos => Len(r.steps) = 1
        /\ what \in {"saveLive", "createLive"} <=> r.steps \in Twos
    BY <1>5, PlanSteps
  <1>7. id \in Docs /\ (~creates => id = r.id /\ bDocs[id] # None /\ d # None)
    BY <1>2, <1>4, <1>5 DEF BackupInv, BackupType
  <1>8. bFresh' \subseteq Docs /\ bContent \in Nat /\ bContent' \in Nat /\ (d # None => FullDoc(d))
    BY <1>4, <1>5 DEF BackupInv, BackupType
  <1>9. Ones \cap News = {} /\ Ones \cap Twos = {} BY DEF Ones, News, Twos
  <1>10. e = None \/ FullDoc(e)
    <2>1. CASE creates
      <3>1. r.cmd = "restore" /\ IsFile(r.rec) /\ (what = "createLive" => r.rec.published # None)
        BY <1>5, <1>6, <1>9, <2>1
      <3>2. e = Vault!Created(what, r.rec) BY <2>1
      <3> HIDE DEF e, what, creates
      <3>3. FullDoc(Vault!Created(what, r.rec))
        BY <3>1, <2>1, NoneAssumption DEF FullDoc, Vault!Created, Vault!Doc, IsFile, creates
      <3> QED BY <3>2, <3>3
    <2>2. CASE ~creates
      <3>1. e = Vault!Becomes(d, what, r.rec) /\ FullDoc(d) BY <1>7, <1>8, <2>2
      <3>2. CASE what = "delete" BY <3>1, <3>2 DEF Vault!Becomes
      <3>3. CASE what # "delete"
        <4>1. what \in {"update", "publish", "trash", "saveLive", "savePublished", "saveDraft"}
          BY <1>6, <2>2, <3>3
        <4>2. what \in {"saveLive", "savePublished", "saveDraft"} => IsFile(r.rec)
          BY <1>5, <1>6
        <4>3. what = "saveLive" => r.rec.published # None
          BY <1>5, <1>6, <1>9
        <4> HIDE DEF e, what, d, r
        <4> QED BY <1>8, <3>1, <4>1, <4>2, <4>3, BecomesFull
      <3> QED BY <3>2, <3>3
    <2> QED BY <2>1, <2>2
  <1>11. \A o \in bOverwritten' : o.time \in Nat /\ Kepts(o, bFiles \cup bReplaced, bCutoff)
    <2>1. \A o \in bOverwritten : o.time \in Nat /\ Kepts(o, bFiles \cup bReplaced, bCutoff) BY DEF BackupInv, BackupType
    <2>2. ASSUME ~creates, bDocs[id] = r.copy
          PROVE  LET o == [id |-> id, doc |-> bDocs[id], time |-> r.name.time]
                 IN  o.time \in Nat /\ Kepts(o, bFiles \cup bReplaced, bCutoff)
      <3>1. r.copy # None /\ id = r.id BY <1>7, <2>2
      <3>2. r.name \in bFiles \cup bReplaced \/ r.name.time < bCutoff BY <1>1, <3>1 DEF Saved
      <3>3. IsFile(r.name) /\ r.name.id = id /\ Vault!Holds(r.name, bDocs[id]) BY <1>5, <2>2, <3>1
      <3> HIDE DEF r
      <3> QED BY <3>2, <3>3 DEF Kepts, IsFile
    <2> QED BY <1>4, <2>1, <2>2
  <1>12. r.cmd = "restore" /\ ~r.raced => OnItsWay(r, d) BY <1>1 DEF Restoring
  <1>13. /\ r.steps \notin News => d # None /\ id = r.id
         /\ r.steps \in News => e = Vault!Created(what, r.rec)
         /\ r.steps \notin News => e = Vault!Becomes(d, what, r.rec)
    BY <1>6, <1>7
  <1>14. Fit(s) /\ Saved(s, bFiles \cup bReplaced, bCutoff) /\ (s.id = id => Restoring(s, e)) /\ (s.id # id => s.cmd # "restore")
    <2>1. CASE s = Vault!Idle
      <3>1. Vault!Idle.cmd # "restore" BY DEF Vault!Idle
      <3> HIDE DEF s, e
      <3> QED BY <2>1, <3>1, IdleFit, IdleSaved, IdleRestoring
    <2>2. CASE answered /\ r.steps \notin Twos /\ r.cmd = "restore"
      <3> DEFINE o == [Vault!Idle EXCEPT !.cmd = "restore", !.id = id, !.mode = r.mode, !.rec = r.rec, !.raced = r.raced,
                                         !.told = "ok"]
      <3>1. s = o BY <1>6, <2>2 DEF Vault!Over
      <3>2. /\ o.cmd = "restore" /\ o.id = id /\ o.mode = r.mode /\ o.rec = r.rec /\ o.raced = r.raced /\ o.told = "ok"
            /\ o.pc = "idle"
        BY DEF Vault!Idle
      <3>9. r.mode \in {"plain", "draft", "publish"} /\ r.raced \in BOOLEAN BY <1>5 DEF IsCommand
      <3> HIDE DEF e, s, d, what, r
      <3>3. IsCommand(o) BY <1>7, <3>9 DEF Vault!Idle, IsCommand
      <3> HIDE DEF o
      <3>4. Fit(o) BY <1>5, <1>7, <2>2, <3>2, <3>3 DEF Fit
      <3>5. Restoring(o, e)
        <4> SUFFICES ASSUME ~r.raced PROVE Vault!RestoresFile(o, e) BY <3>2 DEF Restoring
        <4>1. OnItsWay(r, d) BY <1>12, <2>2
        <4> QED BY <1>1, <1>8, <1>13, <2>2, <3>2, <4>1, LastRequest DEF what
      <3> QED BY <3>1, <3>2, <3>4, <3>5, IdleSaved
    <2>3. CASE answered /\ r.steps \in Twos
      <3>1. s = more(id) BY <1>6, <2>3
      <3>2. r.cmd = "restore" BY <1>5, <1>9, <2>3
      <3>3. /\ more(id).cmd = "restore" /\ more(id).id = id /\ more(id).mode = r.mode /\ more(id).rec = r.rec
            /\ more(id).raced = r.raced /\ more(id).told = None /\ more(id).pc = "send" /\ more(id).copy = r.copy
            /\ more(id).name = r.name /\ more(id).steps = <<"saveDraft">> /\ IsCommand(more(id))
        BY <1>1, <1>5, <1>6, <1>7, <2>3, <3>2, PlansWhole DEF IsCommand
      <3> DEFINE o == more(id)
      <3>4. /\ s = o /\ o.cmd = "restore" /\ o.id = id /\ o.mode = r.mode /\ o.rec = r.rec
            /\ o.raced = r.raced /\ o.told = None /\ o.pc = "send" /\ o.copy = r.copy
            /\ o.name = r.name /\ o.steps = <<"saveDraft">> /\ IsCommand(o)
        BY <3>1, <3>3
      <3> HIDE DEF o, more, e, s, d, what, r
      <3>5. r.copy # None => id = r.id BY <1>5, <1>13
      <3>6. Fit(o) BY <1>5, <1>7, <2>3, <3>2, <3>4, <3>5, PlansWhole, NoneAssumption DEF Fit
      <3>7. Saved(o, bFiles \cup bReplaced, bCutoff) BY <1>1, <3>4 DEF Saved
      <3>8. Restoring(o, e)
        <4> SUFFICES ASSUME ~r.raced PROVE OnItsWay(o, e) BY <3>4 DEF Restoring
        <4>1. OnItsWay(r, d) BY <1>12, <3>2
        <4>2. e # None
          <5>1. CASE r.steps \in News
            <6>1. IsFile(r.rec) BY <1>5, <3>2
            <6>2. Vault!Created(what, r.rec) \in Vault!Doc
              BY <6>1 DEF Vault!Created, Vault!Doc, IsFile
            <6> QED BY <1>13, <5>1, <6>2, NoneAssumption DEF Vault!Doc
          <5>2. CASE r.steps \notin News
            <6>1. what = "saveLive" BY <1>6, <2>3, <5>2 DEF creates
            <6>2. IsFile(r.rec) /\ r.rec.published # None /\ FullDoc(d) BY <1>5, <1>8, <1>13, <2>3, <3>2, <5>2
            <6>3. FullDoc(e) BY <1>8, <1>13, <5>2, <6>1, <6>2, BecomesFull
            <6> QED BY <6>3, NoneAssumption DEF FullDoc, Vault!Doc
          <5> QED BY <5>1, <5>2
        <4> QED BY <1>1, <1>8, <1>13, <2>3, <3>2, <3>4, <4>1, <4>2, FirstRequest DEF what
      <3> QED BY <3>4, <3>6, <3>7, <3>8
    <2>4. ~answered => s = Vault!Idle BY DEF Vault!Over
    <2>5. answered /\ r.steps \notin Twos /\ r.cmd # "restore" => s = Vault!Idle BY <1>6 DEF Vault!Over
    <2> HIDE DEF s
    <2> QED BY <2>1, <2>2, <2>3, <2>4, <2>5
  <1> HIDE DEF e, s, r, d, what, creates
  <1> QED BY <1>0, <1>4, <1>7, <1>8, <1>10, <1>11, <1>14, BackupExecuted

LEMMA BackupNext == BackupInv /\ Vault!Next => BackupInv'
  BY BackupTick, BackupOthers, BackupStarts, BackupStartsRestore, BackupLooks, BackupSaves, BackupWrites, BackupQuits,
     BackupExecutes, BackupPrune DEF Vault!Next

LEMMA BackupsKept == BackupInv => Vault!BackupsHold
  <1> SUFFICES ASSUME BackupInv PROVE Vault!StatesHeld /\ Vault!RestoreTrue BY DEF Vault!BackupsHold
  <1>1. Vault!StatesHeld BY DEF Vault!StatesHeld, BackupInv, Kepts
  <1>2. Vault!RestoreTrue
    <2> SUFFICES ASSUME NEW p \in Runners, bProcs[p].cmd = "restore", bProcs[p].told = "ok", ~bProcs[p].raced,
                        bDocs[bProcs[p].id] # None
                 PROVE  Vault!RestoresFile(bProcs[p], bDocs[bProcs[p].id])
      BY DEF Vault!RestoreTrue
    <2>1. bProcs[p].pc = "idle" BY NoneAssumption DEF BackupInv, Fit
    <2> QED BY <2>1 DEF BackupInv, Restoring
  <1> QED BY <1>1, <1>2

\* Whatever runs at once or fails between its steps, no state of a document that a command
\* took away is lost before it is pruned, and a restore that succeeds restores.
THEOREM BackupsAreKept == LocalSpec => []BackupsHold
  <1>1. LocalInit => BackupInv BY BackupInit DEF LocalInit
  <1>2. BackupInv /\ UNCHANGED backupVars => BackupInv'
    BY DEF backupVars, BackupInv, BackupType
  <1>3. BackupInv /\ [LocalNext]_<<part, vars, updateVars, skillVars, backupVars>> => BackupInv'
    BY <1>2, BackupNext DEF LocalNext
  <1>4. BackupInv => BackupsHold BY BackupsKept DEF BackupsHold
  <1> QED BY <1>1, <1>3, <1>4, PTL DEF LocalSpec
=============================================================================
