--------------------------- MODULE BulkWriteProofs ---------------------------
(***************************************************************************)
(* Theorems about BulkWrite, for any number of documents, any cap and any  *)
(* sizes of pages and chunks.                                              *)
(***************************************************************************)
EXTENDS BulkWrite, FiniteSetTheorems, SequenceTheorems, TLAPS

USE DEF None

Before == {"count", "resolve", "confirm", "backup", "log"}

\* A loop starts from the first id; the outcome is told at the end.
NextInRange ==
  /\ pc \in {"count", "resolve", "confirm"} => next = 0
  /\ pc = "count" => ids = <<>>
  /\ pc = "backup" => ids # <<>>
  /\ pc # "done" => outcome = "none"

\* How a command ends that was to change nothing.
EndsClean == outcome \in {"refused", "previewed"} \/ (outcome = "error" /\ cmd.verb # "unsafe")

\* Nothing is under way, and nothing is changed, before the first request.
QuietBefore ==
  pc \in Before \/ EndsClean =>
    working = {} /\ \A d \in Docs : stray[d] = 0 /\ changes[d] = 0

\* What a request may change was resolved.
NamedOnly ==
  cmd.verb # "unsafe" =>
    /\ working \subseteq SetOf(ids)
    /\ \A d \in Docs : stray[d] > 0 \/ changes[d] > 0 => d \in SetOf(ids)

\* What is resolved was counted, and the count was within the cap.
CountedOnly ==
  /\ counted > 0 => Len(ids) <= counted
  /\ cmd.verb # "unsafe" /\ ~cmd.all /\ (ids # <<>> \/ pc = "resolve") => counted <= MaxDocs

-----------------------------------------------------------------------------
\* A page holds documents, so a page in their order is a sequence of documents.
LEMMA PageIsSeq == ASSUME NEW S \in SUBSET Docs, NEW s \in Sorted(S), N \in Nat PROVE s \in Seq(Docs)
<1>1. IsFiniteSet(Docs)
  BY FS_Interval DEF Docs
<1>2. Cardinality(S) \in Nat
  BY <1>1, FS_Subset, FS_CardinalityType
<1>3. s \in [1 .. Cardinality(S) -> S]
  BY DEF Sorted
<1>4. s \in [1 .. Cardinality(S) -> Docs]
  BY <1>3
<1> QED
  BY <1>2, <1>4, SeqDef

LEMMA CountInRange == ASSUME N \in Nat PROVE Cardinality(InScope) \in 0 .. N
<1>1. IsFiniteSet(Docs) /\ Cardinality(Docs) = N
  BY FS_Interval DEF Docs
<1>2. InScope \in SUBSET Docs
  BY DEF InScope
<1>3. IsFiniteSet(InScope) /\ Cardinality(InScope) <= N
  BY <1>1, <1>2, FS_Subset
<1> QED
  BY <1>3, FS_CardinalityType

\* A cut sequence of documents is one, and no longer than the cut.
LEMMA CutIsSeq ==
  ASSUME NEW s \in Seq(Docs), NEW n \in Nat
  PROVE  /\ SubSeq(s, 1, Least(Len(s), n)) \in Seq(Docs)
         /\ Len(SubSeq(s, 1, Least(Len(s), n))) <= n
  BY DEF Least

LEMMA ChunkEndInRange ==
  ASSUME TypeOK PROVE ChunkEnd \in 0 .. Len(ids) /\ ChunkEnd >= next
  BY SizesAssumption DEF ChunkEnd, Least, TypeOK

LEMMA ChunkResolved == ASSUME TypeOK PROVE ChunkIds \subseteq SetOf(ids) /\ SetOf(ids) \subseteq Docs
  BY ChunkEndInRange DEF ChunkIds, SetOf, TypeOK

-----------------------------------------------------------------------------
LEMMA WritesTypes ==
  ASSUME TypeOK, NEW d \in Docs, Writes(d)
  PROVE  /\ state' \in [Docs -> {"live", "trashed", "gone"}] /\ rev' \in [Docs -> Nat]
         /\ changes' \in [Docs -> Nat]
<1>1. PICK s \in {"live", "trashed", "gone"} : state' = [state EXCEPT ![d] = s]
  <2>1. state[d] \in {"live", "trashed", "gone"}
    BY DEF TypeOK
  <2> QED
    BY <2>1 DEF Writes, TypeOK
<1> QED
  BY <1>1 DEF Writes, TypeOK

LEMMA GoesOnTypes ==
  ASSUME TypeOK, errors' \subseteq Docs, GoesOn
  PROVE  /\ working' = {} /\ reply' \in [docs : SUBSET Docs, errors : SUBSET Docs]
         /\ next' \in 0 .. Len(ids) /\ pc' \in {"report", "send"} /\ skipped' \subseteq Docs
<1>1. Rest \subseteq Docs
  BY ChunkEndInRange DEF Rest, TypeOK
<1> QED
  BY <1>1, ChunkEndInRange DEF GoesOn, NoReply, TypeOK

\* The type invariant is inductive with the ranges of the loops.
LEMMA TypesHold == ASSUME TypeOK, NextInRange, [Next]_vars PROVE TypeOK' /\ NextInRange'
<1> USE SizesAssumption, CommandsAssumption
<1>0. SetOf(ids) \subseteq Docs /\ ChunkIds \subseteq Docs /\ InScope \subseteq Docs
  BY ChunkResolved DEF InScope
<1>1. CASE UNCHANGED vars
  BY <1>1 DEF TypeOK, NextInRange, vars, server, resolve, guard, flight, result, history
<1>2. CASE Counts
  BY <1>2, CountInRange DEF Counts, Ends, TypeOK, NextInRange, server, guard, flight, result, history
<1>3. CASE Resolves
  <2>1. PICK found \in Sorted(Page(page)) :
          ids' = IF counted > 0 THEN SubSeq(ids \o found, 1, Least(Len(ids \o found), counted))
                                ELSE ids \o found
    BY <1>3 DEF Resolves
  <2>2. found \in Seq(Docs)
    <3>1. Page(page) \in SUBSET Docs
      BY DEF Page, InScope
    <3> QED
      BY <3>1, PageIsSeq
  <2>3. ids' \in Seq(Docs)
    <3>1. ids \o found \in Seq(Docs)
      BY <2>2 DEF TypeOK
    <3>2. counted \in Nat
      BY DEF TypeOK
    <3> QED
      BY <2>1, <3>1, <3>2, CutIsSeq
  <2>4. next = 0 /\ next' = 0
    BY <1>3 DEF Resolves, NextInRange
  <2>5. page' \in Nat \ {0} /\ pc' \in {"confirm", "resolve"} /\ outcome' = "none"
    BY <1>3 DEF Resolves, TypeOK, NextInRange
  <2>6. next' \in 0 .. Len(ids')
    BY <2>3, <2>4
  <2>7. NextInRange'
    BY <2>4, <2>5 DEF NextInRange
  <2> QED
    BY <1>3, <2>3, <2>5, <2>6, <2>7 DEF Resolves, TypeOK, server, guard, flight, result, history
<1>4. CASE Confirms
  BY <1>4 DEF Confirms, Ends, TypeOK, NextInRange, server, resolve, guard, flight, result, history
<1>5. CASE BacksUp
  <2>1. PICK written \in SUBSET Docs : saved' = [d \in Docs |-> IF d \in written THEN rev[d] ELSE saved[d]]
    <3>1. {ids[i] : i \in next + 1 .. Least(next + ChunkSize, Len(ids))} \subseteq Docs
      BY DEF Least, TypeOK
    <3> QED
      BY <1>5, <3>1 DEF BacksUp
  <2>2. saved' \in [Docs -> Nat \cup {None}]
    BY <2>1 DEF TypeOK
  <2>3. next' \in 0 .. Len(ids) /\ pc' \in {"done", "log", "backup"} /\ outcome' \in {outcome, "error"} /\ (pc' # "done" => outcome' = outcome)
    BY <1>5 DEF BacksUp, Ends, TypeOK
  <2>4. ids # <<>>
    BY <1>5 DEF BacksUp, NextInRange
  <2>5. pc # "done"
    BY <1>5 DEF BacksUp
  <2> QED
    BY <1>5, <2>2, <2>3, <2>4, <2>5 DEF BacksUp, TypeOK, NextInRange, server, resolve, flight, result, history
<1>6. CASE Logs
  BY <1>6 DEF Logs, Ends, TypeOK, NextInRange, server, resolve, flight, result, history
<1>7. CASE Sends
  <2>1. working' \subseteq Docs /\ absent' \subseteq Docs
    BY <1>7, <1>0 DEF Sends, TypeOK
  <2>2. reply' \in [docs : SUBSET Docs, errors : SUBSET Docs]
    BY <1>7, <1>0 DEF Sends, NoReply
  <2> QED
    BY <1>7, <2>1, <2>2 DEF Sends, Goto, TypeOK, NextInRange, server, resolve, guard, result
<1>8. CASE SendsCancelled
  <2>1. Rest \subseteq Docs
    BY ChunkEndInRange DEF Rest, TypeOK
  <2>2. skipped' \subseteq Docs /\ next' \in 0 .. Len(ids) /\ pc' \in {"report", "send", "done"}
        /\ outcome' \in {outcome, "error"} /\ (pc' # "done" => outcome' = outcome)
    BY <1>8, <1>0, <2>1, ChunkEndInRange DEF SendsCancelled, Ends, TypeOK
  <2>3. pc # "done"
    BY <1>8 DEF SendsCancelled
  <2> QED
    BY <1>8, <2>2, <2>3 DEF SendsCancelled, TypeOK, NextInRange, server, resolve, guard, flight, history
<1>9. CASE Answers
  <2>1. docs' \subseteq Docs /\ errors' \subseteq Docs /\ callErr' \in BOOLEAN
    <3>1. reply.docs \subseteq Docs /\ reply.errors \subseteq Docs
      BY DEF TypeOK
    <3> QED
      BY <1>9, <3>1, Zenon DEF Answers, TypeOK
  <2> QED
    BY <1>9, <2>1, GoesOnTypes DEF Answers, TypeOK, NextInRange, server, resolve, guard, history
<1>10. CASE Refuses
  <2>1. errors' \subseteq Docs /\ callErr' \in BOOLEAN /\ unnamed' \in BOOLEAN
    BY <1>10, <1>0 DEF Refuses, TypeOK
  <2> QED
    BY <1>10, <2>1, GoesOnTypes DEF Refuses, TypeOK, NextInRange, server, resolve, guard, history
<1>11. CASE Loses
  <2>1. errors' \subseteq Docs /\ callErr' \in BOOLEAN
    BY <1>11, <1>0 DEF Loses, TypeOK
  <2>2. stray' \in [Docs -> Nat]
    BY <1>11 DEF Loses, TypeOK
  <2>3. /\ working' = {} /\ reply' \in [docs : SUBSET Docs, errors : SUBSET Docs]
        /\ next' \in 0 .. Len(ids) /\ pc' \in {"report", "send", "done"} /\ skipped' \subseteq Docs
        /\ outcome' \in {outcome, "error"} /\ (pc' # "done" => outcome' = outcome)
    BY <1>11, <2>1, GoesOnTypes DEF Loses, Ends, NoReply, TypeOK
  <2>4. pc # "done"
    BY <1>11 DEF Loses
  <2> QED
    BY <1>11, <2>1, <2>2, <2>3, <2>4 DEF Loses, TypeOK, NextInRange, server, resolve, guard, history
<1>12. CASE Reports
  BY <1>12 DEF Reports, Ends, TypeOK, NextInRange, server, resolve, guard, flight, result, history
<1>13. CASE Aborts
  BY <1>13 DEF Aborts, Ends, TypeOK, NextInRange, server, resolve, guard, flight, result, history
<1>14. CASE Cancels
  BY <1>14 DEF Cancels, TypeOK, NextInRange, server, resolve, guard, flight, result, history
<1>15. CASE Crashes
  <2>1. stray' \in [Docs -> Nat]
    BY <1>15 DEF Crashes, TypeOK
  <2> QED
    BY <1>15, <2>1 DEF Crashes, Ends, NoReply, TypeOK, NextInRange, server, resolve, guard, result, history
<1>16. ASSUME NEW d \in Docs, Edits(d) PROVE TypeOK' /\ NextInRange'
  <2>1. state' \in [Docs -> {"live", "trashed", "gone"}] /\ match' \in [Docs -> BOOLEAN]
    <3>1. PICK s \in {"live", "trashed", "gone"} : state' = [state EXCEPT ![d] = s]
      BY <1>16 DEF Edits
    <3>2. PICK m \in BOOLEAN : match' = [match EXCEPT ![d] = m]
      BY <1>16 DEF Edits
    <3>3. match' \in [Docs -> BOOLEAN]
      BY <3>2, Zenon DEF TypeOK
    <3> QED
      BY <3>1, <3>3 DEF TypeOK
  <2>2. rev' \in [Docs -> Nat] /\ edits' \in 0 .. MaxEdits
    BY <1>16 DEF Edits, TypeOK
  <2> QED
    BY <1>16, <2>1, <2>2 DEF Edits, TypeOK, NextInRange, resolve, guard, flight, result, history
<1>17. ASSUME NEW d \in Docs, Executes(d) PROVE TypeOK' /\ NextInRange'
  <2>1. reply' \in [docs : SUBSET Docs, errors : SUBSET Docs]
    <3>1. \/ reply' = [reply EXCEPT !.docs = @ \cup {d}]
          \/ reply' = [reply EXCEPT !.errors = @ \cup {d}]
      BY <1>17 DEF Executes
    <3>2. reply \in [docs : SUBSET Docs, errors : SUBSET Docs]
      BY DEF TypeOK
    <3> QED
      BY <3>1, <3>2
  <2>2. /\ state' \in [Docs -> {"live", "trashed", "gone"}] /\ rev' \in [Docs -> Nat]
        /\ changes' \in [Docs -> Nat] /\ match' = match /\ edits' = edits
    BY <1>17, WritesTypes DEF Executes, Writes, TypeOK, server
  <2>3. working' \subseteq Docs /\ absent' \subseteq Docs
    BY <1>17 DEF Executes, TypeOK
  <2> QED
    BY <1>17, <2>1, <2>2, <2>3 DEF Executes, TypeOK, NextInRange, resolve, guard, result
<1>18. ASSUME NEW d \in Docs, ExecutesStray(d) PROVE TypeOK' /\ NextInRange'
  <2>1. stray' \in [Docs -> Nat]
    BY <1>18 DEF ExecutesStray, TypeOK
  <2>2. match' = match /\ edits' = edits
    BY <1>18 DEF ExecutesStray, Writes
  <2>3. /\ state' \in [Docs -> {"live", "trashed", "gone"}] /\ rev' \in [Docs -> Nat]
        /\ changes' \in [Docs -> Nat]
    BY <1>18, WritesTypes DEF ExecutesStray
  <2>4. UNCHANGED <<cmd, pc, resolve, next, guard, working, reply, result, cancelled, outcome, absent>>
    BY <1>18 DEF ExecutesStray
  <2>5. NextInRange'
    BY <2>4 DEF NextInRange, resolve
  <2>6. TypeOK'
    BY <2>1, <2>2, <2>3, <2>4 DEF TypeOK, resolve, guard, result
  <2> QED
    BY <2>5, <2>6
<1> QED
  BY <1>1, <1>2, <1>3, <1>4, <1>5, <1>6, <1>7, <1>8, <1>9, <1>10, <1>11, <1>12, <1>13, <1>14, <1>15,
     <1>16, <1>17, <1>18 DEF Next, Step, Done

LEMMA TypesInit == Init => TypeOK /\ NextInRange
<1> SUFFICES ASSUME Init PROVE TypeOK /\ NextInRange
  OBVIOUS
<1>1. ids \in Seq(Docs) /\ next \in 0 .. Len(ids)
  BY EmptySeq DEF Init
<1>2. reply \in [docs : SUBSET Docs, errors : SUBSET Docs]
  BY DEF Init, NoReply
<1>3. counted \in 0 .. N /\ edits \in 0 .. MaxEdits
  BY SizesAssumption DEF Init
<1>4. state \in [Docs -> {"live", "trashed", "gone"}]
  BY DEF Init
<1>5. /\ match \in [Docs -> BOOLEAN] /\ cmd \in Commands /\ logged \in BOOLEAN /\ unnamed \in BOOLEAN
      /\ callErr \in BOOLEAN /\ cancelled \in BOOLEAN
  BY Zenon DEF Init
<1>6. /\ rev \in [Docs -> Nat] /\ saved \in [Docs -> Nat \cup {None}] /\ stray \in [Docs -> Nat]
      /\ changes \in [Docs -> Nat]
  BY DEF Init
<1>7. NextInRange
  BY DEF Init, NextInRange
<1> QED
  BY <1>1, <1>2, <1>3, <1>4, <1>5, <1>6, <1>7 DEF Init, TypeOK

\* The variables keep their types.
THEOREM TypeCorrect == Spec => []TypeOK
<1>1. TypeOK /\ NextInRange /\ [Next]_vars => (TypeOK /\ NextInRange)'
  BY TypesHold
<1> QED
  BY TypesInit, <1>1, PTL DEF Spec

-----------------------------------------------------------------------------
Typed == TypeOK /\ NextInRange

Quiet == UNCHANGED <<changes, stray>> /\ working' \subseteq working

\* Which steps change documents, or ask the server to.
LEMMA WhoActs ==
  ASSUME Typed, [Next]_vars
  PROVE  \/ Quiet
         \/ Sends \/ Loses \/ Crashes
         \/ \E d \in Docs : Executes(d) \/ ExecutesStray(d)
<1> USE DEF Quiet, flight, history, server
<1>1. CASE UNCHANGED vars
  BY <1>1 DEF vars
<1>2. CASE Counts \/ Resolves \/ Confirms \/ BacksUp \/ Logs
  BY <1>2 DEF Counts, Resolves, Confirms, BacksUp, Logs
<1>3. CASE SendsCancelled \/ Answers \/ Refuses \/ Reports \/ Aborts \/ Cancels
  BY <1>3 DEF SendsCancelled, Answers, Refuses, Reports, Aborts, Cancels, GoesOn
<1>4. ASSUME NEW d \in Docs, Edits(d) PROVE Quiet
  BY <1>4 DEF Edits
<1> QED
  BY <1>1, <1>2, <1>3, <1>4 DEF Next, Step, Done

\* The ids, once resolved, stay, and so do the command and what was counted.
LEMMA IdsStay ==
  ASSUME Typed, [Next]_vars, ~Resolves
  PROVE  ids' = ids /\ cmd' = cmd /\ (~Counts => counted' = counted)
<1> USE DEF resolve
<1>1. CASE UNCHANGED vars
  BY <1>1 DEF vars
<1>2. CASE Counts \/ Confirms \/ BacksUp \/ Logs \/ Sends
  BY <1>2 DEF Counts, Confirms, BacksUp, Logs, Sends
<1>3. CASE SendsCancelled \/ Answers \/ Refuses \/ Loses \/ Reports \/ Aborts \/ Cancels \/ Crashes
  BY <1>3 DEF SendsCancelled, Answers, Refuses, Loses, Reports, Aborts, Cancels, Crashes
<1>4. ASSUME NEW d \in Docs, Edits(d) \/ Executes(d) \/ ExecutesStray(d)
      PROVE  ids' = ids /\ cmd' = cmd /\ counted' = counted
  BY <1>4 DEF Edits, Executes, ExecutesStray
<1> QED
  BY <1>1, <1>2, <1>3, <1>4 DEF Next, Step, Done

\* Where the command may get to before its first request.
LEMMA BeforeStays ==
  ASSUME Typed, [Next]_vars
  PROVE  /\ pc' \in Before => pc \in Before
         /\ EndsClean' => EndsClean \/ pc \in Before
<1> USE DEF Before, EndsClean
<1>1. CASE UNCHANGED vars
  BY <1>1 DEF vars
<1>2. CASE Counts \/ Resolves \/ Confirms \/ BacksUp \/ Logs \/ Sends
  BY <1>2 DEF Counts, Resolves, Confirms, BacksUp, Logs, Sends, Goto, Ends
<1>3. CASE Answers \/ Refuses
  BY <1>3 DEF Answers, Refuses, GoesOn
<1>4. CASE SendsCancelled \/ Loses \/ Reports \/ Aborts \/ Cancels \/ Crashes
  BY <1>4 DEF SendsCancelled, Loses, GoesOn, Reports, Aborts, Cancels, Crashes, Ends
<1>5. ASSUME NEW d \in Docs, Edits(d) \/ Executes(d) \/ ExecutesStray(d)
      PROVE  pc' = pc /\ outcome' = outcome /\ cmd' = cmd
  BY <1>5 DEF Edits, Executes, ExecutesStray
<1> QED
  BY <1>1, <1>2, <1>3, <1>4, <1>5 DEF Next, Step, Done

LEMMA QuietHolds ==
  ASSUME Typed, QuietBefore, [Next]_vars PROVE QuietBefore'
<1> SUFFICES ASSUME pc' \in Before \/ EndsClean'
             PROVE  working' = {} /\ \A d \in Docs : stray'[d] = 0 /\ changes'[d] = 0
  BY DEF QuietBefore
<1>1. pc \in Before \/ EndsClean
  BY BeforeStays
<1>2. working = {} /\ \A d \in Docs : stray[d] = 0 /\ changes[d] = 0
  BY <1>1 DEF QuietBefore
<1>3. CASE Quiet
  BY <1>2, <1>3 DEF Quiet
<1>4. CASE Sends
  BY <1>4, <1>1 DEF Sends, Goto, Before, Typed, NextInRange, EndsClean
<1>5. CASE Loses
  BY <1>5, <1>2 DEF Loses, GoesOn, Ends, history
<1>6. CASE Crashes
  BY <1>6, <1>2 DEF Crashes, history, TypeOK, Typed
<1>7. ASSUME NEW d \in Docs, Executes(d) \/ ExecutesStray(d) PROVE FALSE
  BY <1>7, <1>2 DEF Executes, ExecutesStray
<1> QED
  BY <1>3, <1>4, <1>5, <1>6, <1>7, WhoActs

LEMMA NamedHolds ==
  ASSUME Typed, QuietBefore, NamedOnly, [Next]_vars PROVE NamedOnly'
<1>1. CASE Resolves
  <2>1. working' = {} /\ \A d \in Docs : stray'[d] = 0 /\ changes'[d] = 0
    BY <1>1 DEF Resolves, QuietBefore, Before, flight, history
  <2> QED
    BY <2>1 DEF NamedOnly
<1>2. CASE ~Resolves
  <2>1. ids' = ids /\ cmd' = cmd
    BY <1>2, IdsStay
  <2> SUFFICES ASSUME cmd.verb # "unsafe"
               PROVE  /\ working' \subseteq SetOf(ids)
                      /\ \A d \in Docs : stray'[d] > 0 \/ changes'[d] > 0 => d \in SetOf(ids)
    BY <2>1 DEF NamedOnly, SetOf
  <2>2. /\ working \subseteq SetOf(ids)
        /\ \A d \in Docs : stray[d] > 0 \/ changes[d] > 0 => d \in SetOf(ids)
    BY DEF NamedOnly
  <2>3. CASE Quiet
    BY <2>2, <2>3 DEF Quiet
  <2>4. CASE Sends
    <3>1. working' \subseteq ChunkIds
      BY <2>4 DEF Sends
    <3> QED
      BY <3>1, <2>2, <2>4, ChunkResolved DEF Sends, Typed
  <2>5. CASE Loses \/ Crashes
    <3>1. /\ working' = {} /\ changes' = changes
          /\ \A d \in Docs : stray'[d] = stray[d] \/ d \in working
      BY <2>5 DEF Loses, Crashes, GoesOn, history, Typed, TypeOK
    <3> QED
      BY <3>1, <2>2
  <2>6. ASSUME NEW e \in Docs, Executes(e) \/ ExecutesStray(e)
        PROVE  /\ working' \subseteq SetOf(ids)
               /\ \A d \in Docs : stray'[d] > 0 \/ changes'[d] > 0 => d \in SetOf(ids)
    <3>1. e \in SetOf(ids) /\ working' \subseteq working
      BY <2>6, <2>2 DEF Executes, ExecutesStray
    <3>2. \A d \in Docs : d # e => stray'[d] = stray[d] /\ changes'[d] = changes[d]
      BY <2>6 DEF Executes, ExecutesStray, Writes, Typed, TypeOK
    <3> QED
      BY <3>1, <3>2, <2>2
  <2> QED
    BY <2>3, <2>4, <2>5, <2>6, WhoActs
<1> QED
  BY <1>1, <1>2

LEMMA CountedHolds ==
  ASSUME Typed, CountedOnly, [Next]_vars PROVE CountedOnly'
<1> USE DEF Typed
<1>1. CASE Resolves
  <2>1. PICK found \in Sorted(Page(page)) :
          ids' = IF counted > 0 THEN SubSeq(ids \o found, 1, Least(Len(ids \o found), counted))
                                ELSE ids \o found
    BY <1>1 DEF Resolves
  <2>2. ids \o found \in Seq(Docs)
    <3>1. Page(page) \in SUBSET Docs
      BY DEF Page, InScope
    <3>2. found \in Seq(Docs)
      BY <3>1, PageIsSeq, SizesAssumption
    <3> QED
      BY <3>2 DEF TypeOK
  <2>3. counted \in Nat /\ counted' = counted /\ cmd' = cmd /\ pc = "resolve"
    BY <1>1 DEF Resolves, TypeOK
  <2>4. counted > 0 => Len(ids') <= counted
    BY <2>1, <2>2, <2>3, CutIsSeq
  <2> QED
    BY <2>3, <2>4 DEF CountedOnly
<1>2. CASE Counts
  <2>1. ids = <<>> /\ ids' = <<>> /\ cmd' = cmd
    BY <1>2 DEF Counts, NextInRange
  <2>2. pc' = "resolve" /\ cmd.verb # "unsafe" /\ ~cmd.all => counted' <= MaxDocs
    BY <1>2 DEF Counts, PlanCheck, Ends
  <2>3. counted' \in Nat
    BY <1>2, CountInRange, SizesAssumption DEF Counts
  <2> QED
    BY <2>1, <2>2, <2>3 DEF CountedOnly
<1>3. CASE ~Resolves /\ ~Counts
  <2>1. ids' = ids /\ cmd' = cmd /\ counted' = counted
    BY <1>3, IdsStay
  <2>2. pc' = "resolve" => pc = "resolve"
    <3>1. CASE UNCHANGED vars
      BY <3>1 DEF vars
    <3>2. CASE Confirms \/ BacksUp \/ Logs \/ Sends
      BY <3>2 DEF Confirms, BacksUp, Logs, Sends, Goto, Ends
    <3>3. CASE SendsCancelled \/ Answers \/ Refuses \/ Loses \/ Reports \/ Aborts \/ Cancels \/ Crashes
      BY <3>3 DEF SendsCancelled, Answers, Refuses, Loses, GoesOn, Reports, Aborts, Cancels, Crashes, Ends
    <3>4. ASSUME NEW d \in Docs, Edits(d) \/ Executes(d) \/ ExecutesStray(d) PROVE pc' = pc
      BY <3>4 DEF Edits, Executes, ExecutesStray
    <3> QED
      BY <1>3, <3>1, <3>2, <3>3, <3>4 DEF Next, Step, Done
  <2> QED
    BY <2>1, <2>2 DEF CountedOnly
<1> QED
  BY <1>1, <1>2, <1>3

\* No more documents have an id in a sequence than it has members; and if as many have,
\* each is there once.
LEMMA SetOfBound ==
  ASSUME NEW s \in Seq(Docs)
  PROVE  /\ IsFiniteSet(SetOf(s)) /\ Cardinality(SetOf(s)) <= Len(s)
         /\ Cardinality(SetOf(s)) = Len(s) =>
              \A i, j \in 1 .. Len(s) : s[i] = s[j] => i = j
<1> DEFINE f == [i \in 1 .. Len(s) |-> s[i]]
<1>1. f \in Surjection(1 .. Len(s), SetOf(s))
  BY DEF SetOf, Surjection
<1>2. IsFiniteSet(1 .. Len(s)) /\ Cardinality(1 .. Len(s)) = Len(s)
  <2>1. Len(s) \in Nat
    OBVIOUS
  <2> QED
    BY <2>1, FS_Interval
<1>3. /\ IsFiniteSet(SetOf(s)) /\ Cardinality(SetOf(s)) <= Len(s)
      /\ Cardinality(SetOf(s)) = Len(s) => f \in Injection(1 .. Len(s), SetOf(s))
  <2> HIDE DEF f
  <2> QED
    BY <1>1, <1>2, FS_Surjection
<1>4. f \in Injection(1 .. Len(s), SetOf(s)) => \A i, j \in 1 .. Len(s) : s[i] = s[j] => i = j
  BY DEF Injection, IsInjective
<1> QED
  BY <1>3, <1>4

BulkInv == Typed /\ QuietBefore /\ NamedOnly /\ CountedOnly

LEMMA BulkInvInit == Init => BulkInv
<1> SUFFICES ASSUME Init PROVE BulkInv
  OBVIOUS
<1>1. Typed
  BY TypesInit DEF Typed
<1>2. QuietBefore /\ NamedOnly
  BY DEF Init, QuietBefore, NamedOnly
<1>3. CountedOnly
  BY DEF Init, CountedOnly
<1> QED
  BY <1>1, <1>2, <1>3 DEF BulkInv

LEMMA BulkInvNext == BulkInv /\ [Next]_vars => BulkInv'
<1> SUFFICES ASSUME BulkInv, [Next]_vars PROVE BulkInv'
  OBVIOUS
<1>1. Typed'
  BY TypesHold DEF BulkInv, Typed
<1> QED
  BY <1>1, QuietHolds, NamedHolds, CountedHolds DEF BulkInv

LEMMA BulkInvRadius == BulkInv => BlastRadius
<1> SUFFICES ASSUME BulkInv, cmd.verb # "unsafe"
             PROVE  /\ Changed \subseteq SetOf(ids)
                    /\ counted > 0 /\ ~cmd.all => Cardinality(Changed) <= MaxDocs
  BY DEF BlastRadius
<1>1. Changed \subseteq SetOf(ids)
  BY DEF BulkInv, NamedOnly, Changed
<1>2. ids \in Seq(Docs) /\ counted \in Nat
  BY DEF BulkInv, Typed, TypeOK
<1>3. IsFiniteSet(SetOf(ids)) /\ Cardinality(SetOf(ids)) <= Len(ids)
  BY <1>2, SetOfBound
<1>4. IsFiniteSet(Changed) /\ Cardinality(Changed) <= Cardinality(SetOf(ids))
  BY <1>1, <1>3, FS_Subset
<1>5. Cardinality(Changed) \in Nat /\ Cardinality(SetOf(ids)) \in Nat
  BY <1>3, <1>4, FS_CardinalityType
<1>6. ASSUME counted > 0, ~cmd.all PROVE Cardinality(Changed) <= MaxDocs
  <2>1. Len(ids) <= counted
    BY <1>6 DEF BulkInv, CountedOnly
  <2>2. CASE ids = <<>>
    BY <2>2, <1>2, <1>3, <1>4, <1>5, SizesAssumption
  <2>3. CASE ids # <<>>
    <3>1. counted <= MaxDocs
      BY <1>6, <2>3 DEF BulkInv, CountedOnly
    <3> QED
      BY <3>1, <2>1, <1>2, <1>3, <1>4, <1>5, SizesAssumption
  <2> QED
    BY <2>2, <2>3
<1> QED
  BY <1>1, <1>6

\* A command changes nothing but what it resolved, and within the cap.
THEOREM BlastRadiusHolds == Spec => []BlastRadius
  BY BulkInvInit, BulkInvNext, BulkInvRadius, PTL DEF Spec

-----------------------------------------------------------------------------
\* A document has a backup, or needs none.
Safe(d) == saved[d] # None \/ state[d] = "gone"
AllSafe == cmd.backups /\ cmd.verb # "unsafe" => \A d \in SetOf(ids) : Safe(d)
Acting  == pc \in {"send", "wait", "report"} \/ working # {} \/ \E d \in Docs : stray[d] > 0

\* The backups keep up with the loop that writes them, and the log comes before all.
SavedFirst ==
  /\ pc = "backup" => \A i \in 1 .. next : Safe(ids[i])
  /\ pc = "log" => AllSafe
  /\ Acting => logged /\ AllSafe
  /\ pc \in Before => ~logged

LEMMA SafeStays ==
  ASSUME Typed, [Next]_vars
  PROVE  (\A d \in Docs : Safe(d) => Safe(d)') /\ (~Logs => logged' = logged)
<1> USE DEF Safe, guard, server
<1>1. CASE UNCHANGED vars
  BY <1>1 DEF vars
<1>2. CASE Counts \/ Resolves \/ Confirms \/ Logs \/ Sends
  BY <1>2 DEF Counts, Resolves, Confirms, Logs, Sends
<1>3. CASE SendsCancelled \/ Answers \/ Refuses \/ Loses \/ Reports \/ Aborts \/ Cancels \/ Crashes
  BY <1>3 DEF SendsCancelled, Answers, Refuses, Loses, Reports, Aborts, Cancels, Crashes
<1>4. CASE BacksUp
  <2>1. \A d \in Docs : saved'[d] = saved[d] \/ saved'[d] = rev[d]
    BY <1>4 DEF BacksUp
  <2> QED
    BY <1>4, <2>1 DEF BacksUp, Typed, TypeOK
<1>5. ASSUME NEW e \in Docs, Edits(e) \/ Executes(e) \/ ExecutesStray(e)
      PROVE  (\A d \in Docs : Safe(d) => Safe(d)') /\ logged' = logged
  <2>1. saved' = saved /\ logged' = logged
    BY <1>5 DEF Edits, Executes, ExecutesStray
  <2>2. \A d \in Docs : state[d] = "gone" => state'[d] = "gone"
    BY <1>5 DEF Edits, Executes, ExecutesStray, Writes, Typed, TypeOK
  <2> QED
    BY <2>1, <2>2
<1> QED
  BY <1>1, <1>2, <1>3, <1>4, <1>5 DEF Next, Step, Done

LEMMA AllSafeStays == ASSUME Typed, [Next]_vars, ~Resolves, AllSafe PROVE AllSafe'
<1>1. ids' = ids /\ cmd' = cmd
  BY IdsStay
<1>2. SetOf(ids) \subseteq Docs
  BY ChunkResolved DEF Typed
<1> QED
  BY <1>1, <1>2, SafeStays DEF AllSafe, SetOf

\* The command acts once it has logged, and for as long as something is under way.
LEMMA ActsOn == ASSUME Typed, QuietBefore, [Next]_vars PROVE Acting' => Acting \/ Logs
<1> USE DEF Acting, flight, Typed
<1>1. CASE UNCHANGED vars
  BY <1>1 DEF vars
<1>2. CASE Counts \/ Resolves \/ Confirms \/ BacksUp \/ Sends
  BY <1>2 DEF Counts, Resolves, Confirms, BacksUp, Sends, Goto, Ends
<1>3. CASE SendsCancelled \/ Answers \/ Refuses \/ Loses
  BY <1>3 DEF SendsCancelled, Answers, Refuses, Loses
<1>4. CASE Reports \/ Aborts \/ Cancels
  BY <1>4 DEF Reports, Aborts, Cancels, Ends
<1>5. CASE Crashes
  BY <1>5 DEF Crashes, Ends, TypeOK
<1>6. ASSUME NEW e \in Docs, Edits(e) PROVE Acting' => Acting
  BY <1>6 DEF Edits
<1>7. ASSUME NEW e \in Docs, Executes(e) \/ ExecutesStray(e) PROVE Acting
  BY <1>7 DEF Executes, ExecutesStray
<1> QED
  BY <1>1, <1>2, <1>3, <1>4, <1>5, <1>6, <1>7 DEF Next, Step, Done

LEMMA SavedHolds ==
  ASSUME Typed, QuietBefore, SavedFirst, [Next]_vars PROVE SavedFirst'
<1> USE DEF Typed
<1>1. pc' = "backup" => \A i \in 1 .. next' : Safe(ids[i])'
  <2> SUFFICES ASSUME pc' = "backup" PROVE \A i \in 1 .. next' : Safe(ids[i])'
    OBVIOUS
  <2>1. CASE Confirms
    <3>1. next' = 0
      BY <2>1 DEF Confirms, NextInRange
    <3> QED
      BY <3>1
  <2>2. CASE BacksUp
    <3>1. PICK written \in SUBSET Docs :
            /\ written = {d \in {ids[i] : i \in next + 1 .. Least(next + ChunkSize, Len(ids))} :
                            state[d] # "gone" /\ saved[d] = None}
            /\ saved' = [d \in Docs |-> IF d \in written THEN rev[d] ELSE saved[d]]
      <4>1. {ids[i] : i \in next + 1 .. Least(next + ChunkSize, Len(ids))} \subseteq Docs
        BY SizesAssumption DEF Least, TypeOK
      <4> QED
        BY <2>2, <4>1 DEF BacksUp, Ends
    <3>2. next' = next + ChunkSize /\ next + ChunkSize < Len(ids) /\ ids' = ids /\ state' = state
      BY <2>2, SizesAssumption DEF BacksUp, Ends, resolve, server, TypeOK
    <3>3. ASSUME NEW i \in 1 .. next' PROVE Safe(ids[i])'
      <4>1. ids[i] \in Docs /\ next \in Nat
        BY <3>2, SizesAssumption DEF TypeOK
      <4>2. CASE i \in 1 .. next
        BY <4>1, <4>2, <3>2, SafeStays, <2>2 DEF SavedFirst, BacksUp, Safe
      <4>3. CASE i \in next + 1 .. next + ChunkSize
        <5>1. ids[i] \in {ids[j] : j \in next + 1 .. Least(next + ChunkSize, Len(ids))}
          BY <4>3, <3>2 DEF Least
        <5>2. ids[i] \in written => saved'[ids[i]] # None
          BY <3>1, <4>1 DEF TypeOK
        <5>3. ids[i] \notin written => saved'[ids[i]] = saved[ids[i]] /\ (state[ids[i]] = "gone" \/ saved[ids[i]] # None)
          BY <3>1, <4>1, <5>1
        <5> QED
          BY <5>2, <5>3, <3>2 DEF Safe
      <4> QED
        BY <4>1, <4>2, <4>3, <3>2, SizesAssumption
    <3> QED
      BY <3>3
  <2>3. CASE UNCHANGED <<pc, next, ids>>
    <3>1. ASSUME NEW i \in 1 .. next' PROVE Safe(ids[i])'
      <4>1. ids[i] \in Docs /\ Safe(ids[i]) /\ ids'[i] = ids[i]
        BY <2>3 DEF SavedFirst, TypeOK
      <4> QED
        BY <4>1, SafeStays DEF Safe
    <3> QED
      BY <3>1
  <2>4. Confirms \/ BacksUp \/ UNCHANGED <<pc, next, ids>>
    <3>1. ~Counts /\ ~Resolves /\ ~Logs /\ ~Sends
      BY DEF Counts, Resolves, Logs, Sends, Goto, Ends
    <3>2. ~SendsCancelled /\ ~Answers /\ ~Refuses /\ ~Loses /\ ~Reports /\ ~Aborts /\ ~Crashes
      BY DEF SendsCancelled, Answers, Refuses, Loses, GoesOn, Reports, Aborts, Crashes, Ends
    <3>3. CASE UNCHANGED vars \/ Cancels
      BY <3>3 DEF vars, Cancels, resolve
    <3>4. ASSUME NEW e \in Docs, Edits(e) \/ Executes(e) \/ ExecutesStray(e)
          PROVE  UNCHANGED <<pc, next, ids>>
      BY <3>4 DEF Edits, Executes, ExecutesStray, resolve
    <3> QED
      BY <3>1, <3>2, <3>3, <3>4 DEF Next, Step, Done
  <2> QED
    BY <2>1, <2>2, <2>3, <2>4
<1>2. pc' = "log" => AllSafe'
  <2> SUFFICES ASSUME pc' = "log" PROVE AllSafe'
    OBVIOUS
  <2>1. CASE pc = "log"
    <3>1. ~Resolves
      BY <2>1 DEF Resolves
    <3> QED
      BY <2>1, <3>1, AllSafeStays DEF SavedFirst
  <2>2. CASE Confirms
    <3>1. ~cmd'.backups \/ ids' = <<>>
      BY <2>2 DEF Confirms, Ends, resolve
    <3> QED
      BY <3>1 DEF AllSafe, SetOf
  <2>3. CASE BacksUp
    <3>1. PICK written \in SUBSET Docs :
            /\ written = {d \in {ids[i] : i \in next + 1 .. Least(next + ChunkSize, Len(ids))} :
                            state[d] # "gone" /\ saved[d] = None}
            /\ saved' = [d \in Docs |-> IF d \in written THEN rev[d] ELSE saved[d]]
      <4>1. {ids[i] : i \in next + 1 .. Least(next + ChunkSize, Len(ids))} \subseteq Docs
        BY SizesAssumption DEF Least, TypeOK
      <4> QED
        BY <2>3, <4>1 DEF BacksUp, Ends
    <3>2. ~(next + ChunkSize < Len(ids)) /\ ids' = ids /\ state' = state /\ pc = "backup"
      BY <2>3, SizesAssumption DEF BacksUp, Ends, resolve, server, TypeOK
    <3>3. ASSUME NEW i \in 1 .. Len(ids) PROVE Safe(ids[i])'
      <4>1. ids[i] \in Docs /\ next \in Nat /\ Len(ids) \in Nat
        BY DEF TypeOK
      <4>2. CASE i \in 1 .. next
        BY <4>1, <4>2, <3>2, SafeStays DEF SavedFirst, Safe
      <4>3. CASE i \in next + 1 .. Len(ids)
        <5>1. ids[i] \in {ids[j] : j \in next + 1 .. Least(next + ChunkSize, Len(ids))}
          BY <4>1, <4>3, <3>2, SizesAssumption DEF Least
        <5>2. ids[i] \in written => saved'[ids[i]] # None
          BY <3>1, <4>1 DEF TypeOK
        <5>3. ids[i] \notin written => saved'[ids[i]] = saved[ids[i]] /\ (state[ids[i]] = "gone" \/ saved[ids[i]] # None)
          BY <3>1, <4>1, <5>1
        <5> QED
          BY <5>2, <5>3, <3>2 DEF Safe
      <4> QED
        BY <4>1, <4>2, <4>3
    <3> QED
      BY <3>2, <3>3 DEF AllSafe, SetOf, Safe
  <2>4. pc = "log" \/ Confirms \/ BacksUp
    <3>1. ~Counts /\ ~Resolves /\ ~Logs /\ ~Sends
      BY DEF Counts, Resolves, Logs, Sends, Goto, Ends
    <3>2. ~SendsCancelled /\ ~Answers /\ ~Refuses /\ ~Loses /\ ~Reports /\ ~Aborts /\ ~Crashes
      BY DEF SendsCancelled, Answers, Refuses, Loses, GoesOn, Reports, Aborts, Crashes, Ends
    <3>3. CASE UNCHANGED vars \/ Cancels
      BY <3>3 DEF vars, Cancels
    <3>4. ASSUME NEW e \in Docs, Edits(e) \/ Executes(e) \/ ExecutesStray(e) PROVE pc' = pc
      BY <3>4 DEF Edits, Executes, ExecutesStray
    <3> QED
      BY <3>1, <3>2, <3>3, <3>4 DEF Next, Step, Done
  <2> QED
    BY <2>1, <2>2, <2>3, <2>4
<1>3. Acting' => logged' /\ AllSafe'
  <2>1. CASE Logs
    <3>1. ~Resolves /\ logged' /\ pc = "log"
      BY <2>1 DEF Logs, Resolves
    <3> QED
      BY <3>1, AllSafeStays DEF SavedFirst
  <2>2. CASE ~Logs
    <3> SUFFICES ASSUME Acting' PROVE logged' /\ AllSafe'
      OBVIOUS
    <3>1. Acting /\ logged
      BY <2>2, ActsOn DEF SavedFirst
    <3>2. ~Resolves
      BY <3>1 DEF Resolves, SavedFirst, Before
    <3> QED
      BY <2>2, <3>1, <3>2, AllSafeStays, SafeStays DEF SavedFirst
  <2> QED
    BY <2>1, <2>2
<1>4. pc' \in Before => ~logged'
  <2>1. CASE Logs
    BY <2>1 DEF Logs, Ends, Before
  <2>2. CASE ~Logs
    BY <2>2, BeforeStays, SafeStays DEF SavedFirst
  <2> QED
    BY <2>1, <2>2
<1> QED
  BY <1>1, <1>2, <1>3, <1>4 DEF SavedFirst

-----------------------------------------------------------------------------
SavedInv == Typed /\ QuietBefore /\ SavedFirst

LEMMA SavedInvInit == Init => SavedInv
<1> SUFFICES ASSUME Init PROVE SavedInv
  OBVIOUS
<1>1. Typed
  BY TypesInit DEF Typed
<1>2. QuietBefore /\ SavedFirst
  BY DEF Init, QuietBefore, SavedFirst, Acting, Before
<1> QED
  BY <1>1, <1>2 DEF SavedInv

LEMMA SavedInvNext == SavedInv /\ [Next]_vars => SavedInv'
<1> SUFFICES ASSUME SavedInv, [Next]_vars PROVE SavedInv'
  OBVIOUS
<1>1. Typed'
  BY TypesHold DEF SavedInv, Typed
<1> QED
  BY <1>1, QuietHolds, SavedHolds DEF SavedInv

LEMMA GuardedInit == Init => Guarded!Init
<1> SUFFICES ASSUME Init PROVE Guarded!Init
  OBVIOUS
<1>1. rev \in [Docs -> Nat] /\ saved = [d \in Docs |-> Guarded!None] /\ changes = [d \in Docs |-> 0]
  BY DEF Init, Guarded!None
<1>2. logged = FALSE
  BY Zenon DEF Init
<1>3. (cmd.backups /\ cmd.verb # "unsafe") \in BOOLEAN
  BY Zenon
<1> QED
  BY <1>1, <1>2, <1>3 DEF Guarded!Init

\* What the server does to a document the command may do.
LEMMA GuardedChanges ==
  ASSUME SavedInv, NEW d \in Docs, Acting, Writes(d), state[d] # "gone",
         cmd.verb # "unsafe" => d \in SetOf(ids), UNCHANGED <<saved, logged, cmd>>
  PROVE  Guarded!Changes(d)
<1>1. logged /\ AllSafe
  BY DEF SavedInv, SavedFirst
<1>2. cmd.backups /\ cmd.verb # "unsafe" => saved[d] # Guarded!None
  BY <1>1 DEF AllSafe, Safe, Guarded!None
<1>3. rev' = [rev EXCEPT ![d] = @ + 1] /\ changes' = [changes EXCEPT ![d] = @ + 1]
  BY DEF Writes
<1> QED
  BY <1>1, <1>2, <1>3 DEF Guarded!Changes

\* Every step of the command is a step of the guarded write, or none.
LEMMA GuardedNext ==
  ASSUME SavedInv, NamedOnly, [Next]_vars PROVE [Guarded!Next]_(Guarded!vars)
<1> USE DEF server, guard, history, SavedInv, Typed
<1> DEFINE Stutters == UNCHANGED <<rev, saved, logged, changes, cmd>>
<1>0. Stutters => UNCHANGED Guarded!vars
  BY DEF Guarded!vars
<1> SUFFICES ASSUME ~Stutters PROVE Guarded!Next
  BY <1>0
<1>1. CASE UNCHANGED vars
  BY <1>1 DEF vars
<1>2. CASE Counts \/ Resolves \/ Confirms \/ Sends
  BY <1>2 DEF Counts, Resolves, Confirms, Sends
<1>3. CASE SendsCancelled \/ Answers \/ Refuses \/ Loses \/ Reports \/ Aborts \/ Cancels \/ Crashes
  BY <1>3 DEF SendsCancelled, Answers, Refuses, Loses, Reports, Aborts, Cancels, Crashes
<1>4. CASE BacksUp
  <2>1. PICK written \in SUBSET Docs :
          /\ \A d \in written : saved[d] = None
          /\ saved' = [d \in Docs |-> IF d \in written THEN rev[d] ELSE saved[d]]
    <3>1. {ids[i] : i \in next + 1 .. Least(next + ChunkSize, Len(ids))} \subseteq Docs
      BY SizesAssumption DEF Least, TypeOK
    <3> QED
      BY <1>4, <3>1 DEF BacksUp
  <2>2. ~logged
    BY <1>4 DEF BacksUp, SavedFirst, Before
  <2>3. written \in SUBSET {d \in Docs : saved[d] = Guarded!None}
    BY <2>1 DEF Guarded!None
  <2>4. UNCHANGED <<rev, logged, changes, cmd>>
    BY <1>4 DEF BacksUp
  <2> QED
    BY <2>1, <2>2, <2>3, <2>4 DEF Guarded!Next, Guarded!Saves
<1>5. CASE Logs
  <2>1. ~logged /\ logged' = TRUE /\ UNCHANGED <<rev, saved, changes, cmd>>
    BY <1>5 DEF Logs, SavedFirst, Before
  <2> QED
    BY <2>1 DEF Guarded!Next, Guarded!Logs
<1>6. ASSUME NEW e \in Docs, Edits(e) PROVE Guarded!Next
  <2>1. UNCHANGED <<saved, logged, changes, cmd>>
    BY <1>6 DEF Edits
  <2>2. rev' \in [Docs -> Nat] /\ \A d \in Docs : rev'[d] >= rev[d]
    BY <1>6 DEF Edits, TypeOK
  <2> QED
    BY <2>1, <2>2 DEF Guarded!Next, Guarded!OthersChange
<1>7. ASSUME NEW e \in Docs, Executes(e) PROVE Guarded!Next
  <2>1. Acting /\ e \in working /\ UNCHANGED <<saved, logged, cmd>>
    BY <1>7 DEF Executes, Acting
  <2>2. state[e] # "gone" /\ Writes(e)
    BY <1>7, <2>1 DEF Executes
  <2>3. cmd.verb # "unsafe" => e \in SetOf(ids)
    BY <2>1 DEF NamedOnly
  <2> QED
    BY <2>1, <2>2, <2>3, GuardedChanges DEF Guarded!Next
<1>8. ASSUME NEW e \in Docs, ExecutesStray(e) PROVE Guarded!Next
  <2>1. Acting /\ stray[e] > 0 /\ UNCHANGED <<saved, logged, cmd>>
    BY <1>8 DEF ExecutesStray, Acting
  <2>2. state[e] # "gone" /\ Writes(e)
    BY <1>8 DEF ExecutesStray
  <2>3. cmd.verb # "unsafe" => e \in SetOf(ids)
    BY <2>1 DEF NamedOnly
  <2> QED
    BY <2>1, <2>2, <2>3, GuardedChanges DEF Guarded!Next
<1> QED
  BY <1>1, <1>2, <1>3, <1>4, <1>5, <1>6, <1>7, <1>8 DEF Next, Step, Done

\* The bulk commands are guarded writes: every document they change was backed up
\* before, and the audit log told of it.
THEOREM GuardedImplemented == Spec => SavedBeforeChanged
<1>1. SavedInv /\ NamedOnly /\ [Next]_vars => (SavedInv /\ NamedOnly)'
  BY SavedInvNext, NamedHolds DEF SavedInv
<1>2. Init => SavedInv /\ NamedOnly
  BY SavedInvInit, BulkInvInit DEF BulkInv
<1>3. SavedInv /\ NamedOnly /\ [Next]_vars => [Guarded!Next]_(Guarded!vars)
  BY GuardedNext
<1> QED
  BY <1>1, <1>2, <1>3, GuardedInit, PTL DEF Spec, SavedBeforeChanged, Guarded!Spec

-----------------------------------------------------------------------------
(* The envelope.                                                            *)

\* Before the first request nothing is reported and the loop has not begun; a request is
\* under way only while the command waits; a preview gets no further than Confirm.
NotSent ==
  /\ pc \in Before => docs = {} /\ errors = {} /\ skipped = {}
  /\ pc # "wait" => working = {} /\ reply = NoReply
  /\ pc = "log" => next = 0
  /\ cmd.dryRun => pc \in {"count", "resolve", "confirm", "done"} /\ ~logged
                     /\ \A d \in Docs : saved[d] = None

\* What is reported as written was written.
Reported == docs \cup reply.docs \subseteq Changed

First(n) == {ids[i] : i \in 1 .. n}
After(n) == {ids[i] : i \in n + 1 .. Len(ids)}
Handled  == docs \cup errors \cup absent

\* Unless a call had an error, what the loop is through has been accounted for, and so
\* will be what is under way.
Covers ==
  cmd.verb # "unsafe" /\ ~callErr =>
    /\ pc \in {"send", "wait"} => First(next) \subseteq Handled
    /\ pc = "wait" => ChunkIds \subseteq working \cup reply.docs \cup reply.errors \cup absent
    /\ pc = "report" \/ outcome \in {"ok", "partial"} => SetOf(ids) \subseteq Handled \cup skipped

Untouched(d) == changes[d] = 0 /\ stray[d] = 0
Fresh(S) == \A d \in S : Untouched(d) /\ d \notin errors \cup reply.errors \cup working

\* When every id is there once: what failed, what is under way and what is yet to be sent
\* has not been changed, will not be by a request given up, and is not one another.
Disjoint ==
  cmd.verb # "each" /\ Cardinality(SetOf(ids)) = Len(ids) =>
    /\ \A d \in errors \cup reply.errors \cup working : Untouched(d)
    /\ (errors \cup reply.errors) \cap working = {}
    /\ pc = "send" => Fresh(IF cmd.verb = "unsafe" THEN Docs ELSE After(next))
    /\ pc = "wait" /\ cmd.verb # "unsafe" => Fresh(After(ChunkEnd))

EnvelopeInv == Typed /\ QuietBefore /\ NotSent /\ Reported /\ Covers /\ Disjoint

\* The chunk is what lies between the ids the loop is through and the rest.
LEMMA ChunkIsBetween ==
  ASSUME TypeOK
  PROVE  /\ First(ChunkEnd) = First(next) \cup ChunkIds
         /\ SetOf(ids) = First(ChunkEnd) \cup Rest
         /\ After(next) = ChunkIds \cup Rest /\ After(ChunkEnd) = Rest
         /\ After(0) = SetOf(ids) /\ First(0) = {}
<1>1. /\ ChunkEnd \in Nat /\ next \in Nat /\ Len(ids) \in Nat
      /\ next <= ChunkEnd /\ ChunkEnd <= Len(ids)
  BY ChunkEndInRange DEF TypeOK
<1>2. 1 .. ChunkEnd = 1 .. next \cup next + 1 .. ChunkEnd
  BY <1>1
<1>3. 1 .. Len(ids) = 1 .. ChunkEnd \cup ChunkEnd + 1 .. Len(ids)
  BY <1>1
<1>4. next + 1 .. Len(ids) = next + 1 .. ChunkEnd \cup ChunkEnd + 1 .. Len(ids)
  BY <1>1
<1>5. 1 .. 0 = {} /\ 0 + 1 .. Len(ids) = 1 .. Len(ids)
  BY <1>1
<1> HIDE DEF ChunkEnd
<1>6. First(ChunkEnd) = First(next) \cup ChunkIds
  BY <1>2 DEF First, ChunkIds
<1>7. SetOf(ids) = First(ChunkEnd) \cup Rest
  BY <1>3 DEF First, SetOf, Rest
<1>8. After(next) = ChunkIds \cup Rest /\ After(ChunkEnd) = Rest
  BY <1>4 DEF After, ChunkIds, Rest
<1> QED BY <1>5, <1>6, <1>7, <1>8 DEF After, First, SetOf

\* Ids that are there once are not in two parts of the list.
LEMMA PartsDisjoint ==
  ASSUME TypeOK, Cardinality(SetOf(ids)) = Len(ids)
  PROVE  ChunkIds \cap Rest = {}
<1>4. \A i, j \in 1 .. Len(ids) : ids[i] = ids[j] => i = j
  BY SetOfBound DEF TypeOK
<1>5. /\ ChunkEnd \in Nat /\ next \in Nat /\ Len(ids) \in Nat
      /\ next <= ChunkEnd /\ ChunkEnd <= Len(ids)
  BY ChunkEndInRange DEF TypeOK
<1> HIDE DEF ChunkEnd
<1> QED BY <1>4, <1>5 DEF ChunkIds, Rest

LEMMA NotSentHolds ==
  ASSUME Typed, NotSent, [Next]_vars PROVE NotSent'
<1> USE DEF Before
<1>1. CASE UNCHANGED vars
  BY <1>1 DEF vars, NotSent, server, resolve, guard, flight, result, history
<1>2. CASE Counts \/ Resolves \/ Confirms \/ Logs \/ Aborts \/ Cancels
  BY <1>2 DEF Counts, Resolves, Confirms, Logs, Aborts, Cancels, Ends, NotSent, Typed, NextInRange,
              resolve, guard, flight, result
<1>3. CASE BacksUp
  <2>1. /\ pc = "backup" /\ ~cmd.dryRun /\ UNCHANGED <<cmd, logged, flight, result>>
        /\ pc' \in {"log", "backup", "done"} /\ (pc' = "log" => next' = 0)
    BY <1>3 DEF BacksUp, Ends, NotSent
  <2> QED BY <2>1 DEF NotSent, flight, result
<1>4. CASE Sends \/ SendsCancelled \/ Reports
  BY <1>4 DEF Sends, SendsCancelled, Reports, Goto, Ends, NotSent, guard, flight
<1>5. CASE Answers \/ Refuses
  BY <1>5 DEF Answers, Refuses, GoesOn, NotSent, guard
<1>6. CASE Loses \/ Crashes
  BY <1>6 DEF Loses, Crashes, GoesOn, Ends, NotSent, guard
<1>7. ASSUME NEW d \in Docs, Edits(d) \/ Executes(d) \/ ExecutesStray(d) PROVE NotSent'
  BY <1>7 DEF Edits, Executes, ExecutesStray, NotSent, resolve, guard, flight, result
<1> QED BY <1>1, <1>2, <1>3, <1>4, <1>5, <1>6, <1>7 DEF Next, Step, Done

\* What has been changed stays changed.
LEMMA ChangedGrows ==
  ASSUME Typed, [Next]_vars
  PROVE  Changed \subseteq Changed' /\ absent \subseteq absent'
<1>1. CASE UNCHANGED <<changes, absent>>
  BY <1>1 DEF Changed
<1>2. CASE Sends
  BY <1>2 DEF Sends, Changed
<1>3. ASSUME NEW d \in Docs, Executes(d) \/ ExecutesStray(d)
      PROVE  Changed \subseteq Changed' /\ absent \subseteq absent'
  <2>1. absent \subseteq absent'
    BY <1>3 DEF Executes, ExecutesStray
  <2>2. changes' = changes \/ changes' = [changes EXCEPT ![d] = @ + 1]
    BY <1>3 DEF Executes, ExecutesStray, Writes
  <2>3. changes \in [Docs -> Nat]
    BY DEF Typed, TypeOK
  <2> QED BY <2>1, <2>2, <2>3 DEF Changed
<1>4. CASE Counts \/ Resolves \/ Confirms \/ BacksUp \/ Logs \/ SendsCancelled \/ Answers \/ Refuses
           \/ Loses \/ Reports \/ Aborts \/ Cancels \/ Crashes \/ Done
  BY <1>1, <1>4 DEF Counts, Resolves, Confirms, BacksUp, Logs, SendsCancelled, Answers, Refuses,
     Loses, Reports, Aborts, Cancels, Crashes, Done, vars, history
<1>5. ASSUME NEW d \in Docs, Edits(d) PROVE UNCHANGED <<changes, absent>>
  BY <1>5 DEF Edits, history
<1> QED BY <1>1, <1>2, <1>3, <1>4, <1>5 DEF Next, Step, vars, history

LEMMA ReportedHolds ==
  ASSUME Typed, Reported, [Next]_vars PROVE Reported'
<1>1. Changed \subseteq Changed'
  BY ChangedGrows
<1>2. CASE docs' \cup reply'.docs \subseteq docs \cup reply.docs
  BY <1>1, <1>2 DEF Reported
<1>3. CASE UNCHANGED vars \/ Counts \/ Resolves \/ Confirms \/ BacksUp \/ Logs \/ SendsCancelled
           \/ Reports \/ Aborts \/ Cancels \/ Done
  BY <1>2, <1>3 DEF vars, Counts, Resolves, Confirms, BacksUp, Logs, SendsCancelled,
     Reports, Aborts, Cancels, Done, flight, result
<1>4. CASE Sends \/ Answers \/ Refuses \/ Loses \/ Crashes
  BY <1>2, <1>4 DEF Sends, Answers, Refuses, Loses, Crashes, GoesOn, NoReply, flight, result
<1>5. ASSUME NEW d \in Docs, Edits(d) \/ ExecutesStray(d) PROVE Reported'
  BY <1>2, <1>5 DEF Edits, ExecutesStray, flight, result
<1>6. ASSUME NEW d \in Docs, Executes(d) PROVE Reported'
  <2>1. docs' = docs
    BY <1>6 DEF Executes, result
  <2>2. CASE state[d] # "gone" /\ Writes(d) /\ reply' = [reply EXCEPT !.docs = @ \cup {d}]
    <3>1. d \in Changed'
      BY <2>2 DEF Writes, Changed, Typed, TypeOK
    <3>2. reply'.docs = reply.docs \cup {d}
      BY <2>2 DEF Typed, TypeOK
    <3> QED BY <1>1, <2>1, <3>1, <3>2 DEF Reported
  <2>3. CASE reply' = [reply EXCEPT !.errors = @ \cup {d}]
    <3>1. reply'.docs = reply.docs
      BY <2>3 DEF Typed, TypeOK
    <3> QED BY <1>2, <2>1, <3>1
  <2>4. \/ state[d] # "gone" /\ Writes(d) /\ reply' = [reply EXCEPT !.docs = @ \cup {d}]
        \/ reply' = [reply EXCEPT !.errors = @ \cup {d}]
    BY <1>6, Zenon DEF Executes
  <2> QED BY <2>2, <2>3, <2>4
<1> QED BY <1>3, <1>4, <1>5, <1>6 DEF Next, Step

\* After a chunk the loop is through the chunk, and what is not sent any more is skipped.
LEMMA GoesOnCovers ==
  ASSUME Typed, cmd.verb # "unsafe", ids' = ids, GoesOn,
         First(next) \cup ChunkIds \subseteq Handled'
  PROVE  /\ pc' \in {"send", "wait"} => First(next)' \subseteq Handled'
         /\ pc' # "wait"
         /\ pc' = "report" => SetOf(ids)' \subseteq Handled' \cup skipped'
<1>1. next' = ChunkEnd /\ pc' \in {"report", "send"}
  BY DEF GoesOn
<1>2. pc' = "report" => Rest = {} \/ skipped' = Rest
  BY DEF GoesOn
<1>3. First(next)' = First(ChunkEnd)
  BY <1>1 DEF First
<1>4. First(ChunkEnd) = First(next) \cup ChunkIds /\ SetOf(ids) = First(ChunkEnd) \cup Rest
  BY ChunkIsBetween DEF Typed
<1>5. SetOf(ids)' = SetOf(ids)
  BY DEF SetOf
<1> QED BY <1>1, <1>2, <1>3, <1>4, <1>5

LEMMA CoversHolds ==
  ASSUME Typed, NotSent, Covers, [Next]_vars PROVE Covers'
<1>0. Changed \subseteq Changed' /\ absent \subseteq absent'
  BY ChangedGrows
<1>1. CASE UNCHANGED <<cmd, pc, ids, next, docs, errors, skipped, callErr, working, reply, outcome>>
  <2>1. SetOf(ids)' = SetOf(ids) /\ First(next)' = First(next) /\ ChunkIds' = ChunkIds
    BY <1>1 DEF SetOf, First, ChunkIds, ChunkEnd
  <2> QED BY <1>0, <1>1, <2>1 DEF Covers, Handled
<1>2. CASE UNCHANGED vars \/ Cancels
  BY <1>1, <1>2 DEF vars, Cancels, resolve, flight, result
<1>3. ASSUME NEW d \in Docs, Edits(d) \/ ExecutesStray(d) PROVE Covers'
  BY <1>1, <1>3 DEF Edits, ExecutesStray, resolve, flight, result
<1>4. CASE Counts \/ Resolves \/ Confirms \/ BacksUp \/ Aborts \/ Crashes
  <2>1. pc' \notin {"send", "wait", "report"} /\ outcome' \notin {"ok", "partial"}
    BY <1>4 DEF Counts, Resolves, Confirms, BacksUp, Aborts, Crashes, Ends, Typed, NextInRange
  <2> QED BY <2>1 DEF Covers
<1>5. CASE Logs
  <2>1. pc = "log" /\ next' = next /\ ids' = ids /\ outcome = "none" /\ next = 0 /\ cmd' = cmd
    BY <1>5 DEF Logs, resolve, Typed, NextInRange, NotSent
  <2>2. First(next)' = {}
    BY <2>1 DEF First
  <2>3. \/ pc' = "send" /\ outcome' = "none"
        \/ pc' = "done" /\ ids = <<>>
    BY <1>5, <2>1 DEF Logs, Ends
  <2>4. ids' = <<>> => SetOf(ids)' = {}
    BY DEF SetOf
  <2> QED BY <2>1, <2>2, <2>3, <2>4 DEF Covers
<1>6. CASE Sends
  <2> SUFFICES ASSUME cmd.verb # "unsafe", ~callErr
               PROVE  First(next)' \subseteq Handled'
                      /\ ChunkIds' \subseteq working' \cup reply'.docs \cup reply'.errors \cup absent'
    BY <1>6 DEF Sends, Goto, Covers, result, Typed, NextInRange
  <2>1. First(next)' = First(next) /\ ChunkIds' = ChunkIds
    BY <1>6 DEF Sends, resolve, First, ChunkIds, ChunkEnd
  <2>2. First(next) \subseteq Handled /\ Handled \subseteq Handled'
    BY <1>0, <1>6 DEF Sends, Goto, Covers, Handled, result
  <2>3. ChunkIds \subseteq working' \cup absent'
    BY <1>6 DEF Sends
  <2> QED BY <2>1, <2>2, <2>3
<1>7. CASE SendsCancelled
  BY <1>7 DEF SendsCancelled, Covers
<1>8. CASE Answers \/ Refuses \/ Loses
  <2> SUFFICES ASSUME cmd.verb # "unsafe", ~callErr' PROVE Covers'
    BY <1>8 DEF Answers, Refuses, Loses, Covers
  <2>1. /\ pc = "wait" /\ ids' = ids /\ GoesOn /\ outcome' = outcome /\ outcome = "none"
        /\ cmd' = cmd /\ ~callErr
    BY <1>8 DEF Answers, Refuses, Loses, resolve, Typed, NextInRange, TypeOK
  <2>2. First(next) \subseteq Handled /\ Handled \subseteq Handled'
    BY <1>0, <1>8, <2>1 DEF Answers, Refuses, Loses, Covers, Handled
  <2>3. ChunkIds \subseteq Handled'
    <3>1. CASE Answers
      BY <1>0, <2>1, <3>1 DEF Answers, Covers, Handled
    <3>2. CASE Refuses \/ Loses
      BY <2>1, <3>2 DEF Refuses, Loses, Handled
    <3> QED BY <1>8, <3>1, <3>2
  <2> QED BY <2>1, <2>2, <2>3, GoesOnCovers DEF Covers
<1>9. CASE Reports
  <2>1. /\ pc = "report" /\ pc' = "done" /\ ids' = ids /\ cmd' = cmd
        /\ UNCHANGED <<docs, errors, skipped, callErr, absent>>
    BY <1>9 DEF Reports, Ends, resolve, result, history
  <2>2. SetOf(ids)' = SetOf(ids)
    BY <2>1 DEF SetOf
  <2> QED BY <2>1, <2>2 DEF Covers, Handled
<1>10. ASSUME NEW d \in Docs, Executes(d) PROVE Covers'
  <2>1. /\ UNCHANGED <<cmd, pc, ids, next, docs, errors, skipped, callErr, outcome>>
        /\ working' = working \ {d}
    BY <1>10 DEF Executes, resolve, result
  <2>2. \/ reply' = [reply EXCEPT !.docs = @ \cup {d}]
        \/ reply' = [reply EXCEPT !.errors = @ \cup {d}]
    BY <1>10, Zenon DEF Executes
  <2>3. /\ reply.docs \subseteq reply'.docs /\ reply.errors \subseteq reply'.errors
        /\ d \in reply'.docs \cup reply'.errors
    <3>1. reply \in [docs : SUBSET Docs, errors : SUBSET Docs]
      BY DEF Typed, TypeOK
    <3>2. CASE reply' = [reply EXCEPT !.docs = @ \cup {d}]
      BY <3>1, <3>2
    <3>3. CASE reply' = [reply EXCEPT !.errors = @ \cup {d}]
      BY <3>1, <3>3
    <3> QED BY <2>2, <3>2, <3>3
  <2>4. SetOf(ids)' = SetOf(ids) /\ First(next)' = First(next) /\ ChunkIds' = ChunkIds
    BY <2>1 DEF SetOf, First, ChunkIds, ChunkEnd
  <2> QED BY <1>0, <2>1, <2>3, <2>4 DEF Covers, Handled
<1> QED
  BY <1>2, <1>3, <1>4, <1>5, <1>6, <1>7, <1>8, <1>9, <1>10 DEF Next, Step, Done

\* Where nothing failed, nothing is under way and nothing was touched, there is nothing
\* to keep apart.
LEMMA UntouchedDisjoint ==
  ASSUME Typed', errors' = {}, working' = {}, reply' = NoReply,
         \A d \in Docs : changes'[d] = 0 /\ stray'[d] = 0
  PROVE  Disjoint'
<1>1. After(next)' \subseteq Docs /\ After(ChunkEnd)' \subseteq Docs
  <2>1. After(next)' \subseteq SetOf(ids)' /\ After(ChunkEnd)' \subseteq SetOf(ids)'
    <3>1. next' \in 0 .. Len(ids') /\ Len(ids') \in Nat
      BY DEF Typed, TypeOK
    <3>2. ChunkEnd' \in 0 .. Len(ids')
      <4>1. \A a, b \in Nat : Least(a, b) \in 0 .. b
        BY DEF Least
      <4>2. ChunkEnd' \in {Least(next' + 1, Len(ids')), Least(next' + ChunkSize, Len(ids'))}
        BY DEF ChunkEnd
      <4>3. next' + 1 \in Nat /\ next' + ChunkSize \in Nat
        <5>1. next' \in Nat
          BY <3>1
        <5>2. \A n \in Nat : n + 1 \in Nat /\ n + ChunkSize \in Nat
          BY SizesAssumption
        <5> QED BY <5>1, <5>2, Zenon
      <4> QED BY <3>1, <4>1, <4>2, <4>3
    <3>3. \A n \in Nat : {ids'[i] : i \in n + 1 .. Len(ids')} \subseteq {ids'[i] : i \in 1 .. Len(ids')}
      BY <3>1
    <3>4. next' \in Nat /\ ChunkEnd' \in Nat
      BY <3>1, <3>2
    <3>5. /\ After(next)' = {ids'[i] : i \in next' + 1 .. Len(ids')}
          /\ After(ChunkEnd)' = {ids'[i] : i \in ChunkEnd' + 1 .. Len(ids')}
          /\ SetOf(ids)' = {ids'[i] : i \in 1 .. Len(ids')}
      BY DEF After, SetOf
    <3> HIDE DEF ChunkEnd
    <3> QED BY <3>3, <3>4, <3>5
  <2>2. SetOf(ids)' \subseteq Docs
    BY DEF SetOf, Typed, TypeOK
  <2> QED BY <2>1, <2>2
<1> HIDE DEF After
<1> QED BY <1>1 DEF Disjoint, Fresh, Untouched, NoReply

\* Up to the first request nothing was touched.
LEMMA DisjointAtFirst ==
  ASSUME Typed, Typed', QuietBefore, NotSent, pc \in Before, [Next]_vars
  PROVE  Disjoint'
<1>1. /\ working = {} /\ reply = NoReply /\ errors = {}
      /\ \A d \in Docs : stray[d] = 0 /\ changes[d] = 0
  BY DEF QuietBefore, NotSent, Before
<1>2. CASE UNCHANGED <<working, reply, errors, changes, stray>>
  BY <1>1, <1>2, UntouchedDisjoint
<1>3. CASE UNCHANGED vars \/ Counts \/ Resolves \/ Confirms \/ BacksUp \/ Logs \/ Aborts \/ Cancels
  BY <1>2, <1>3 DEF vars, Counts, Resolves, Confirms, BacksUp, Logs, Aborts, Cancels,
     flight, result, history
<1>4. CASE Crashes
  <2>1. /\ working' = {} /\ reply' = NoReply /\ errors' = errors /\ changes' = changes
        /\ \A d \in Docs : stray'[d] = stray[d]
    BY <1>1, <1>4 DEF Crashes, result, history, Typed, TypeOK
  <2> QED BY <1>1, <2>1, UntouchedDisjoint
<1>5. CASE Sends \/ SendsCancelled \/ Answers \/ Refuses \/ Loses \/ Reports
  BY <1>5 DEF Sends, SendsCancelled, Answers, Refuses, Loses, Reports, Goto, Before
<1>6. ASSUME NEW d \in Docs, Edits(d) \/ Executes(d) \/ ExecutesStray(d) PROVE Disjoint'
  BY <1>1, <1>2, <1>6 DEF Edits, Executes, ExecutesStray, flight, result, history
<1> QED BY <1>3, <1>4, <1>5, <1>6 DEF Next, Step, Done

\* After a chunk: what failed in it joins what failed before, and the rest is still fresh.
LEMMA GoesOnDisjoint ==
  ASSUME Typed, cmd.verb # "each", ids' = ids, cmd' = cmd, changes' = changes,
         GoesOn, pc = "wait", Disjoint, Cardinality(SetOf(ids)) = Len(ids),
         errors' \subseteq errors \cup reply.errors,
         \A d \in Docs : stray'[d] = stray[d] \/ d \in working
  PROVE  Disjoint'
<1>1. /\ working' = {} /\ reply' = NoReply /\ next' = ChunkEnd /\ pc' \in {"report", "send"}
      /\ (cmd.verb = "unsafe" => pc' = "report")
  BY DEF GoesOn
<1>2. After(next)' = After(ChunkEnd)
  BY <1>1 DEF After
<1>3. /\ \A d \in errors \cup reply.errors : Untouched(d) /\ d \notin working
      /\ cmd.verb # "unsafe" => Fresh(After(ChunkEnd))
  BY DEF Disjoint
<1>4. errors \cup reply.errors \subseteq Docs /\ After(ChunkEnd) \subseteq Docs
  BY ChunkIsBetween, ChunkResolved DEF Typed, TypeOK
<1>5. \A d \in Docs : Untouched(d) /\ d \notin working => Untouched(d)'
  BY DEF Untouched
<1>6. \A d \in errors' : Untouched(d)'
  BY <1>3, <1>4, <1>5
<1>7. cmd.verb # "unsafe" => \A d \in After(next)' : Untouched(d)' /\ d \notin errors'
  BY <1>2, <1>3, <1>4, <1>5 DEF Fresh
<1> QED BY <1>1, <1>6, <1>7 DEF Disjoint, Fresh, NoReply

LEMMA DisjointHolds ==
  ASSUME Typed, Typed', QuietBefore, NotSent, Disjoint, [Next]_vars PROVE Disjoint'
<1>1. CASE pc \in Before
  BY <1>1, DisjointAtFirst
<1> SUFFICES ASSUME pc \notin Before, cmd.verb # "each", Cardinality(SetOf(ids)) = Len(ids)
             PROVE  Disjoint'
  <2>1. CASE pc \notin Before
    <3>1. ids' = ids /\ cmd' = cmd
      BY <2>1, IdsStay DEF Resolves, Before
    <3> QED BY <2>1, <3>1 DEF Disjoint, SetOf
  <2> QED BY <1>1, <2>1
<1>2. ids' = ids /\ cmd' = cmd
  BY IdsStay DEF Resolves, Before
<1>3. /\ SetOf(ids) \subseteq Docs /\ ChunkIds \subseteq Docs /\ Rest \subseteq Docs
      /\ After(next) = ChunkIds \cup Rest /\ After(ChunkEnd) = Rest
  BY ChunkIsBetween, ChunkResolved DEF Typed
<1>4. /\ \A d \in errors \cup reply.errors \cup working : Untouched(d)
      /\ (errors \cup reply.errors) \cap working = {}
      /\ pc = "send" => Fresh(IF cmd.verb = "unsafe" THEN Docs ELSE After(next))
      /\ pc = "wait" /\ cmd.verb # "unsafe" => Fresh(After(ChunkEnd))
  BY DEF Disjoint
<1>5. CASE UNCHANGED <<pc, next, errors, working, reply, changes, stray>>
  <2>1. After(next)' = After(next) /\ After(ChunkEnd)' = After(ChunkEnd)
    BY <1>2, <1>5 DEF After, ChunkEnd
  <2> QED BY <1>2, <1>4, <1>5, <2>1 DEF Disjoint, Fresh, Untouched
<1>6. CASE UNCHANGED vars \/ Cancels
  BY <1>5, <1>6 DEF vars, Cancels, resolve, flight, result, history
<1>7. ASSUME NEW d \in Docs, Edits(d) PROVE Disjoint'
  BY <1>5, <1>7 DEF Edits, flight, result, history
<1>8. CASE Reports
  BY <1>4, <1>8 DEF Reports, Ends, Disjoint, Untouched, flight, result, history
<1>9. CASE Crashes
  <2>1. /\ pc' = "done" /\ working' = {} /\ reply' = NoReply /\ errors' = errors
        /\ changes' = changes
        /\ \A d \in Docs : stray'[d] = stray[d] \/ d \in working
    BY <1>9 DEF Crashes, Ends, result, history, Typed, TypeOK
  <2>2. \A d \in errors : d \in Docs /\ d \notin working
    BY <1>4 DEF Typed, TypeOK
  <2> QED BY <1>4, <2>1, <2>2 DEF Disjoint, Untouched, NoReply
<1>10. CASE SendsCancelled
  <2>1. /\ UNCHANGED <<errors, working, reply, changes, stray>> /\ pc = "send"
        /\ pc' \in {"report", "send", "done"}
        /\ pc' = "send" => cmd.verb # "unsafe" /\ next' = ChunkEnd
    BY <1>10 DEF SendsCancelled, Ends, flight, history
  <2>2. pc' = "send" => After(next)' = Rest
    BY <1>2, <1>3, <2>1 DEF After
  <2> QED BY <1>2, <1>3, <1>4, <2>1, <2>2 DEF Disjoint, Fresh, Untouched
<1>11. CASE Answers \/ Refuses \/ Loses
  <2>1. pc = "wait" /\ changes' = changes
    BY <1>11 DEF Answers, Refuses, Loses, history
  <2>2. errors' \subseteq errors \cup reply.errors
    BY <1>11 DEF Answers, Refuses, Loses
  <2>3. \A d \in Docs : stray'[d] = stray[d] \/ d \in working
    <3>1. Answers \/ Refuses => stray' = stray
      BY DEF Answers, Refuses
    <3>2. Loses => \E S \in SUBSET working :
                     stray' = [d \in Docs |-> stray[d] + IF d \in S THEN 1 ELSE 0]
      BY DEF Loses
    <3>3. \A d \in Docs : stray[d] \in Nat
      BY DEF Typed, TypeOK
    <3> QED BY <1>11, <3>1, <3>2, <3>3
  <2>4. CASE GoesOn
    BY <1>2, <2>1, <2>2, <2>3, <2>4, GoesOnDisjoint
  <2>5. CASE Loses /\ cmd.verb = "unsafe"
    <3>1. pc' = "done" /\ working' = {} /\ reply' = NoReply /\ errors' = errors
      BY <2>5 DEF Loses, Ends
    <3>2. \A d \in errors : d \in Docs /\ d \notin working
      BY <1>4 DEF Typed, TypeOK
    <3> QED BY <1>4, <2>1, <2>3, <3>1, <3>2 DEF Disjoint, Untouched, NoReply
  <2> QED BY <1>11, <2>4, <2>5 DEF Answers, Refuses, Loses
<1>12. CASE Sends
  <2>1. /\ pc = "send" /\ pc' = "wait" /\ UNCHANGED <<next, errors, changes, stray>>
        /\ reply'.errors = {}
        /\ working' \subseteq IF cmd.verb = "unsafe" THEN Docs ELSE ChunkIds
    BY <1>12 DEF Sends, Goto, NoReply, result, InScope, resolve
  <2>2. After(ChunkEnd)' = Rest
    BY <1>2, <1>3, <2>1 DEF After, ChunkEnd
  <2>3. cmd.verb # "unsafe" => ChunkIds \cap Rest = {}
    BY PartsDisjoint DEF Typed
  <2>4. \A d \in working' : Untouched(d) /\ d \notin errors
    BY <1>3, <1>4, <2>1 DEF Fresh
  <2> QED BY <1>2, <1>3, <1>4, <2>1, <2>2, <2>3, <2>4 DEF Disjoint, Fresh, Untouched
<1>13. ASSUME NEW d \in Docs, Executes(d) PROVE Disjoint'
  <2>1. /\ UNCHANGED <<pc, next, errors, stray>> /\ d \in working /\ working' = working \ {d}
        /\ pc = "wait"
    BY <1>13 DEF Executes, NotSent, result, resolve
  <2>2. After(ChunkEnd)' = After(ChunkEnd)
    BY <1>2, <2>1 DEF After, ChunkEnd
  <2>3. \/ /\ reply'.errors = reply.errors
           /\ \A e \in Docs : e # d => changes'[e] = changes[e]
        \/ /\ reply'.errors = reply.errors \cup {d} /\ changes' = changes
    <3>1. reply \in [docs : SUBSET Docs, errors : SUBSET Docs] /\ changes \in [Docs -> Nat]
      BY DEF Typed, TypeOK
    <3>2. \/ Writes(d) /\ reply' = [reply EXCEPT !.docs = @ \cup {d}]
          \/ reply' = [reply EXCEPT !.errors = @ \cup {d}] /\ changes' = changes
      BY <1>13, Zenon DEF Executes
    <3>3. Writes(d) => \A e \in Docs : e # d => changes'[e] = changes[e]
      BY <3>1 DEF Writes
    <3>4. CASE Writes(d) /\ reply' = [reply EXCEPT !.docs = @ \cup {d}]
      BY <3>1, <3>3, <3>4
    <3>5. CASE reply' = [reply EXCEPT !.errors = @ \cup {d}] /\ changes' = changes
      BY <3>1, <3>5
    <3> QED BY <3>2, <3>4, <3>5
  <2>4. errors \cup reply.errors \cup working \cup After(ChunkEnd) \subseteq Docs
    BY <1>3 DEF Typed, TypeOK
  <2>5. \A e \in Docs : e # d /\ Untouched(e) => Untouched(e)'
    BY <2>1, <2>3 DEF Untouched
  <2>6. d \notin errors \cup reply.errors /\ Untouched(d)
    BY <1>4, <2>1
  <2>7. d \in reply'.errors => Untouched(d)'
    BY <2>1, <2>3, <2>6 DEF Untouched
  <2>8. /\ \A e \in errors' \cup reply'.errors \cup working' : Untouched(e)'
        /\ (errors' \cup reply'.errors) \cap working' = {}
    BY <1>4, <2>1, <2>3, <2>4, <2>5, <2>6, <2>7
  <2>9. cmd.verb # "unsafe" => Fresh(After(ChunkEnd))'
    <3>1. cmd.verb # "unsafe" =>
            \A e \in After(ChunkEnd) : Untouched(e) /\ e \notin errors \cup reply.errors \cup working
      BY <1>4, <2>1 DEF Fresh
    <3>2. cmd.verb # "unsafe" =>
            \A e \in After(ChunkEnd) : Untouched(e)' /\ e \notin errors' \cup reply'.errors \cup working'
      BY <2>1, <2>3, <2>4, <2>5, <3>1
    <3> QED BY <2>2, <3>2 DEF Fresh
  <2> QED BY <1>2, <2>1, <2>8, <2>9 DEF Disjoint
<1>14. ASSUME NEW d \in Docs, ExecutesStray(d) PROVE Disjoint'
  <2>1. /\ UNCHANGED <<pc, next, errors, working, reply>> /\ stray[d] > 0
        /\ \A e \in Docs : e # d => changes'[e] = changes[e] /\ stray'[e] = stray[e]
    BY <1>14 DEF ExecutesStray, Writes, result, resolve, Typed, TypeOK
  <2>2. ~Untouched(d)
    BY <2>1 DEF Untouched
  <2>3. \A e \in Docs : Untouched(e) => Untouched(e)'
    BY <2>1, <2>2 DEF Untouched
  <2>4. errors \cup reply.errors \cup working \cup After(next) \cup After(ChunkEnd) \subseteq Docs
    BY <1>3 DEF Typed, TypeOK
  <2>5. After(next)' = After(next) /\ After(ChunkEnd)' = After(ChunkEnd)
    BY <1>2, <2>1 DEF After, ChunkEnd
  <2> QED BY <1>2, <1>4, <2>1, <2>3, <2>4, <2>5 DEF Disjoint, Fresh
<1> QED
  <2>1. ~(Counts \/ Resolves \/ Confirms \/ BacksUp \/ Logs \/ Aborts)
    BY DEF Counts, Resolves, Confirms, BacksUp, Logs, Aborts, Before
  <2> QED
    BY <2>1, <1>6, <1>7, <1>8, <1>9, <1>10, <1>11, <1>12, <1>13, <1>14 DEF Next, Step, Done

LEMMA EnvelopeInit == Init => EnvelopeInv
<1> SUFFICES ASSUME Init PROVE EnvelopeInv
  OBVIOUS
<1>1. Typed
  BY TypesInit DEF Typed
<1>2. /\ pc = "count" /\ outcome = "none" /\ working = {} /\ reply = NoReply /\ ~logged
      /\ docs = {} /\ errors = {} /\ skipped = {} /\ \A d \in Docs : saved[d] = None
      /\ \A d \in Docs : stray[d] = 0 /\ changes[d] = 0
  BY DEF Init
<1>3. QuietBefore /\ NotSent
  BY <1>2 DEF QuietBefore, EndsClean, NotSent, Before
<1>4. Reported /\ Covers
  BY <1>2 DEF Reported, Covers, NoReply
<1>5. Disjoint
  BY <1>2 DEF Disjoint, NoReply
<1> QED BY <1>1, <1>3, <1>4, <1>5 DEF EnvelopeInv

LEMMA EnvelopeNext == EnvelopeInv /\ [Next]_vars => EnvelopeInv'
<1> SUFFICES ASSUME EnvelopeInv, [Next]_vars PROVE EnvelopeInv'
  OBVIOUS
<1>1. Typed'
  BY TypesHold DEF EnvelopeInv, Typed
<1> QED
  BY <1>1, QuietHolds, NotSentHolds, ReportedHolds, CoversHolds, DisjointHolds DEF EnvelopeInv

\* What a bulk command reports can be relied on: a command that was refused, previewed or
\* aborted has changed nothing and will not; what is reported as written was; whatever was
\* resolved is accounted for; and what it says to retry has not been and will not be changed.
THEOREM EnvelopeHolds == Spec => []EnvelopeTrue
<1>1. EnvelopeInv => EnvelopeTrue
  <2> SUFFICES ASSUME EnvelopeInv PROVE EnvelopeTrue
    OBVIOUS
  <2> USE DEF EnvelopeInv
  <2>1. AbortsClean
    BY DEF AbortsClean, QuietBefore, EndsClean, NotSent, Changed
  <2>2. AccountsForAll
    BY DEF AccountsForAll, Reported, Covers, Handled
  <2>3. RetrySafe
    BY DEF RetrySafe, Disjoint, Untouched, Changed
  <2> QED BY <2>1, <2>2, <2>3 DEF EnvelopeTrue
<1> QED BY EnvelopeInit, EnvelopeNext, <1>1, PTL DEF Spec
=============================================================================
