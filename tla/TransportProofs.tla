--------------------------- MODULE TransportProofs ---------------------------
(***************************************************************************)
(* Theorems about Transport, for any number of requests, any budget and    *)
(* any limit of attempts.                                                  *)
(***************************************************************************)
EXTENDS Transport, FiniteSetTheorems, TLAPS

\* Who is about to swap the budget has seen some.
SwapsSome == \A r \in Reqs : pc[r] = "swap" => seenLeft[r] # 0

Untouched(r) == applied[r] = 0 /\ ~flying[r] /\ ~taken[r]

\* Where a write may have been executed: while it is under way, and once send has
\* returned; before send tries again, never.
WriteOnce(r) ==
  /\ pc[r] \in {"plan", "send", "promote", "take", "swap"} => Untouched(r)
  /\ pc[r] = "wait" => ~flying[r] /\ applied[r] = IF taken[r] THEN 1 ELSE 0
  /\ pc[r] \in {"answered", "renew", "done"} =>
       /\ ~taken[r]
       /\ applied[r] = 0 \/ (applied[r] = 1 /\ ~flying[r])
       /\ answer[r] \in Unsent => applied[r] = 0 /\ ~flying[r]

WritesOnce == \A r \in Reqs : ~IsReadOnly(r) => WriteOnce(r)

\* One request renews, and only if none did.
OneRenews ==
  /\ renewed <= 1
  /\ ~staleUsed => renewed = 0
  /\ \A r \in Reqs : pc[r] = "renew" => renewed = 0 /\ staleUsed
  /\ \A r, s \in Reqs : pc[r] = "renew" /\ pc[s] = "renew" => r = s

\* What pays for an attempt: two for a call of send, one for a promotion, one for a retry
\* of the budget.  What it pays for: the attempts made, the one send is about to make and
\* the free retry it may still take.
Started   == {r \in Reqs : pc[r] # "plan"}
Again     == {r \in Reqs : resent[r]}
Overrides == {r \in Reqs : promoted[r]}
Owed      == {r \in Reqs : pc[r] = "send"}
InSend    == {"send", "wait", "promote", "take", "swap"}
Free      == {r \in Reqs : pc[r] \in InSend /\ ~freeUsed[r]}

AttemptsPaid ==
  sent + Cardinality(Owed) + Cardinality(Free) <=
    2 * (Cardinality(Started) + Cardinality(Again)) + Cardinality(Overrides) + (RetryBudget - budget)

\* A request is planned once and sent again once.
OnceEach == \A r \in Reqs : /\ pc[r] = "plan" => ~promoted[r]
                            /\ pc[r] = "renew" => ~resent[r]

-----------------------------------------------------------------------------
LEMMA TypesHold == ASSUME TypeOK, SwapsSome, [Next]_vars PROVE TypeOK' /\ SwapsSome'
<1> USE KindsAssumption, AttemptsAssumption, BudgetAssumption
<1>1. CASE UNCHANGED vars
  BY <1>1 DEF TypeOK, SwapsSome, vars, request, loop, shared, network, history
<1>2. ASSUME NEW r \in Reqs, Step(r) \/ Executes(r) PROVE TypeOK' /\ SwapsSome'
  <2>1. CASE Plans(r)
    <3>1. PICK long \in BOOLEAN : promoted' = [promoted EXCEPT ![r] = long /\ CanPromote(r)]
      BY <2>1 DEF Plans
    <3>2. promoted' \in [Reqs -> BOOLEAN]
      BY <3>1, Zenon DEF TypeOK
    <3>3. pc' = [pc EXCEPT ![r] = "send"]
      BY <2>1 DEF Plans, Goto
    <3> QED
      BY <2>1, <3>2, <3>3 DEF Plans, TypeOK, SwapsSome, PCs, loop, shared, network, history
  <2>2. CASE Sends(r)
    BY <2>2 DEF Sends, TypeOK, SwapsSome, PCs, shared, network
  <2>3. CASE AttemptEnds(r)
    <3>1. PICK a \in Answers : /\ Ends(r, a)
                               /\ answer' = [answer EXCEPT ![r] = a]
                               /\ freeUsed' = [freeUsed EXCEPT ![r] = @ \/ ClassifyAttempt(r, a) = "free"]
                               /\ pc' = [pc EXCEPT ![r] = Decides(r, a)]
      BY <2>3 DEF AttemptEnds
    <3>2. freeUsed' \in [Reqs -> BOOLEAN]
      BY <3>1, Zenon DEF TypeOK
    <3>3. taken' \in [Reqs -> BOOLEAN] /\ flying' \in [Reqs -> BOOLEAN] /\ drained' \in [Reqs -> BOOLEAN]
      BY <3>1, Zenon DEF Ends, TypeOK
    <3>4. Decides(r, a) \in {"send", "promote", "take", "answered"}
      BY DEF Decides, ClassifyAttempt
    <3>5. pc' \in [Reqs -> PCs]
      BY <3>1, <3>4 DEF TypeOK, PCs
    <3>6. \A s \in Reqs : pc'[s] = "swap" => pc[s] = "swap"
      BY <3>1, <3>4 DEF TypeOK
    <3> QED
      BY <2>3, <3>1, <3>2, <3>3, <3>5, <3>6 DEF AttemptEnds, TypeOK, SwapsSome, shared, history
  <2>4. CASE Promotes(r)
    <3>1. promoted' \in [Reqs -> BOOLEAN]
      BY <2>4, Zenon DEF Promotes, TypeOK
    <3>2. pc' = [pc EXCEPT ![r] = IF CanPromote(r) THEN "send" ELSE "answered"]
      BY <2>4 DEF Promotes, Goto
    <3> QED
      BY <2>4, <3>1, <3>2 DEF Promotes, TypeOK, SwapsSome, PCs, loop, shared, network, history
  <2>5. CASE LoadsBudget(r)
    BY <2>5 DEF LoadsBudget, Goto, TypeOK, SwapsSome, PCs, request, shared, network, history
  <2>6. CASE SwapsBudget(r)
    <3>1. budget' \in 0 .. RetryBudget
      BY <2>6 DEF SwapsBudget, TypeOK, SwapsSome
    <3>2. \E next \in {"send", "answered", "take"} : pc' = [pc EXCEPT ![r] = next]
      BY <2>6 DEF SwapsBudget
    <3> QED
      BY <2>6, <3>1, <3>2 DEF SwapsBudget, TypeOK, SwapsSome, PCs, request, network, history
  <2>7. CASE Returns(r)
    <3>1. \E next \in {"renew", "done"} : pc' = [pc EXCEPT ![r] = next]
      BY <2>7 DEF Returns, Goto
    <3>2. staleUsed' \in BOOLEAN
      BY <2>7, Zenon DEF Returns, TypeOK
    <3> QED
      BY <2>7, <3>1, <3>2 DEF Returns, TypeOK, SwapsSome, PCs, request, network, history
  <2>8. CASE Renews(r)
    <3>1. \E next \in {"send", "done"} : pc' = [pc EXCEPT ![r] = next]
      BY <2>8 DEF Renews, Goto
    <3>2. resent' \in [Reqs -> BOOLEAN]
      BY <2>8, Zenon DEF Renews, TypeOK, IsReadOnly
    <3> QED
      BY <2>8, <3>1, <3>2 DEF Renews, TypeOK, SwapsSome, PCs, loop, shared, network
  <2>9. CASE Executes(r)
    <3>1. taken' \in [Reqs -> BOOLEAN] /\ flying' \in [Reqs -> BOOLEAN]
      BY <2>9, Zenon DEF Executes, TypeOK
    <3>2. \E n \in Nat : applied' = [applied EXCEPT ![r] = n]
      <4>1. applied[r] \in Nat /\ applied[r] + 1 \in Nat
        BY DEF TypeOK
      <4>2. applied' = [applied EXCEPT ![r] = IF IsReadOnly(r) THEN applied[r] ELSE applied[r] + 1]
        BY <2>9 DEF Executes
      <4> QED BY <4>1, <4>2
    <3>3. applied' \in [Reqs -> Nat]
      BY <3>2 DEF TypeOK
    <3> QED
      BY <2>9, <3>1, <3>3 DEF Executes, TypeOK, SwapsSome, request, loop, shared, history
  <2> QED
    BY <1>2, <2>1, <2>2, <2>3, <2>4, <2>5, <2>6, <2>7, <2>8, <2>9 DEF Step
<1> QED
  BY <1>1, <1>2 DEF Next, Done

\* One request's step leaves the others as they were.
LEMMA Frame ==
  ASSUME TypeOK, NEW r \in Reqs, Step(r) \/ Executes(r), NEW s \in Reqs, s # r
  PROVE  /\ pc'[s] = pc[s] /\ answer'[s] = answer[s]
         /\ applied'[s] = applied[s] /\ taken'[s] = taken[s] /\ flying'[s] = flying[s]
<1>1. CASE Plans(r) \/ Sends(r) \/ Promotes(r) \/ LoadsBudget(r)
  BY <1>1 DEF Plans, Sends, Promotes, LoadsBudget, Goto, TypeOK, request, loop, shared, network
<1>2. CASE AttemptEnds(r)
  BY <1>2 DEF AttemptEnds, Ends, TypeOK
<1>3. CASE SwapsBudget(r) \/ Returns(r) \/ Renews(r)
  BY <1>3 DEF SwapsBudget, Returns, Renews, Goto, TypeOK, request, network
<1>4. CASE Executes(r)
  BY <1>4 DEF Executes, TypeOK, request
<1> QED
  BY <1>1, <1>2, <1>3, <1>4 DEF Step

LEMMA FrameFlags ==
  ASSUME TypeOK, NEW r \in Reqs, Step(r) \/ Executes(r), NEW s \in Reqs, s # r
  PROVE  freeUsed'[s] = freeUsed[s] /\ promoted'[s] = promoted[s] /\ resent'[s] = resent[s]
<1>1. CASE Plans(r)
  BY <1>1, Zenon DEF Plans, TypeOK, loop
<1>2. CASE Sends(r) \/ LoadsBudget(r) \/ SwapsBudget(r) \/ Executes(r)
  BY <1>2, Zenon DEF Sends, LoadsBudget, SwapsBudget, Executes, request, loop
<1>3. CASE AttemptEnds(r)
  <2>1. PICK a \in Answers : freeUsed' = [freeUsed EXCEPT ![r] = @ \/ ClassifyAttempt(r, a) = "free"]
    BY <1>3 DEF AttemptEnds
  <2>2. freeUsed'[s] = freeUsed[s]
    BY <2>1, Zenon DEF TypeOK
  <2> QED
    BY <1>3, <2>2 DEF AttemptEnds
<1>4. CASE Promotes(r)
  BY <1>4, Zenon DEF Promotes, TypeOK, loop
<1>5. CASE Returns(r)
  BY <1>5, Zenon DEF Returns, TypeOK, request
<1>6. CASE Renews(r)
  BY <1>6, Zenon DEF Renews, TypeOK, loop
<1> QED
  BY <1>1, <1>2, <1>3, <1>4, <1>5, <1>6 DEF Step

LEMMA KindsStay == [Next]_vars => kind' = kind
  BY DEF Next, Done, Step, Plans, Sends, AttemptEnds, Promotes, LoadsBudget, SwapsBudget, Returns,
         Renews, Executes, vars, request

LEMMA WritesStay == ASSUME TypeOK, WritesOnce, [Next]_vars PROVE WritesOnce'
<1>1. CASE UNCHANGED vars
  BY <1>1 DEF WritesOnce, WriteOnce, Untouched, IsReadOnly, vars, request, network
<1>2. ASSUME NEW r \in Reqs, Step(r) \/ Executes(r) PROVE WritesOnce'
  <2> SUFFICES ASSUME NEW s \in Reqs, kind[s] \notin {"get", "read"} PROVE WriteOnce(s)'
    BY KindsStay DEF WritesOnce, IsReadOnly
  <2>0. WriteOnce(s)
    BY DEF WritesOnce, IsReadOnly
  <2>1. CASE s # r
    BY <1>2, <2>0, <2>1, Frame DEF WriteOnce, Untouched
  <2>2. CASE s = r
    <3>1. CASE Plans(r)
      BY <2>0, <2>2, <3>1 DEF Plans, Goto, WriteOnce, Untouched, TypeOK, network
    <3>2. CASE Sends(r)
      BY <2>0, <2>2, <3>2 DEF Sends, WriteOnce, Untouched, TypeOK, network
    <3>3. CASE AttemptEnds(r)
      <4>1. PICK a \in Answers : /\ Ends(r, a)
                                 /\ answer' = [answer EXCEPT ![r] = a]
                                 /\ pc' = [pc EXCEPT ![r] = Decides(r, a)]
        BY <3>3 DEF AttemptEnds
      <4>2. /\ pc[r] = "wait" /\ ~flying[r] /\ applied[r] = (IF taken[r] THEN 1 ELSE 0)
            /\ applied' = applied
        BY <2>0, <2>2, <3>3 DEF AttemptEnds, WriteOnce
      <4>3. ~taken'[r] /\ answer'[r] = a /\ pc'[r] = Decides(r, a)
        BY <4>1 DEF Ends, TypeOK
      <4>4. flying'[r] => ~taken[r] /\ a \in {"lost", "canceled"}
        BY <4>1, <4>2, <2>2 DEF Ends, TypeOK, IsReadOnly
      <4>5. a \in Unsent => ~taken[r]
        BY <4>1 DEF Ends
      <4>6. CASE Decides(r, a) = "answered"
        BY <2>2, <4>2, <4>3, <4>4, <4>5, <4>6 DEF WriteOnce, Unsent
      <4>7. CASE Decides(r, a) # "answered"
        <5>1. a \in {"idle", "preflight"} /\ Decides(r, a) \in {"send", "take"}
          BY <2>2, <4>7 DEF Decides, ClassifyAttempt, IsReadOnly
        <5> QED
          BY <2>2, <4>2, <4>3, <4>4, <4>5, <5>1 DEF WriteOnce, Untouched, Unsent
      <4> QED BY <4>6, <4>7
    <3>4. CASE Promotes(r)
      BY <2>0, <2>2, <3>4 DEF Promotes, Goto, WriteOnce, Untouched, TypeOK, network
    <3>5. CASE LoadsBudget(r)
      BY <2>0, <2>2, <3>5 DEF LoadsBudget, Goto, WriteOnce, Untouched, TypeOK, request, network
    <3>6. CASE SwapsBudget(r)
      BY <2>0, <2>2, <3>6 DEF SwapsBudget, WriteOnce, Untouched, TypeOK, request, network
    <3>7. CASE Returns(r)
      BY <2>0, <2>2, <3>7 DEF Returns, Goto, WriteOnce, Untouched, TypeOK, request, network
    <3>8. CASE Renews(r)
      BY <2>0, <2>2, <3>8 DEF Renews, Goto, WriteOnce, TypeOK, IsReadOnly, network
    <3>9. CASE Executes(r)
      BY <2>0, <2>2, <3>9 DEF Executes, WriteOnce, Untouched, TypeOK, IsReadOnly, PCs, request
    <3> QED
      BY <1>2, <3>1, <3>2, <3>3, <3>4, <3>5, <3>6, <3>7, <3>8, <3>9 DEF Step
  <2> QED BY <2>1, <2>2
<1> QED
  BY <1>1, <1>2 DEF Next, Done

LEMMA RenewsStay == ASSUME TypeOK, OneRenews, [Next]_vars PROVE OneRenews'
<1>1. CASE UNCHANGED vars
  BY <1>1 DEF OneRenews, vars, shared, history
<1>2. ASSUME NEW r \in Reqs, Step(r) \/ Executes(r) PROVE OneRenews'
  <2>1. CASE Returns(r)
    <3>1. \/ pc' = [pc EXCEPT ![r] = "done"] /\ (staleUsed => staleUsed')
          \/ pc' = [pc EXCEPT ![r] = "renew"] /\ ~staleUsed /\ staleUsed'
      BY <2>1 DEF Returns, Goto, TypeOK
    <3>2. renewed' = renewed
      BY <2>1 DEF Returns, history
    <3> QED
      BY <3>1, <3>2 DEF OneRenews, TypeOK
  <2>2. CASE Renews(r)
    <3>1. /\ pc[r] = "renew" /\ renewed' = renewed + 1 /\ staleUsed' = staleUsed
          /\ \E next \in {"send", "done"} : pc' = [pc EXCEPT ![r] = next]
      BY <2>2 DEF Renews, Goto, shared
    <3> QED
      BY <3>1 DEF OneRenews, TypeOK
  <2>3. CASE ~Returns(r) /\ ~Renews(r)
    <3>1. renewed' = renewed /\ staleUsed' = staleUsed
      BY <1>2, <2>3 DEF Step, Plans, Sends, AttemptEnds, Promotes, LoadsBudget, SwapsBudget,
                        Executes, shared, history
    <3>2. pc'[r] = "renew" => pc[r] = "renew"
      <4>1. CASE AttemptEnds(r)
        BY <4>1 DEF AttemptEnds, Decides, ClassifyAttempt, TypeOK
      <4> QED
        BY <1>2, <2>3, <4>1 DEF Step, Plans, Sends, Promotes, LoadsBudget, SwapsBudget, Executes,
                                Goto, TypeOK
    <3>3. \A s \in Reqs : pc'[s] = "renew" => pc[s] = "renew"
      BY <1>2, <3>2, Frame
    <3> QED
      BY <3>1, <3>3 DEF OneRenews
  <2> QED BY <2>1, <2>2, <2>3
<1> QED
  BY <1>1, <1>2 DEF Next, Done

-----------------------------------------------------------------------------
(* The accounts of AttemptsPaid, set by set.                                *)

Counts(S, r) == IF r \in S THEN 1 ELSE 0

\* A set of requests that a step of r changed, if at all, at r.
LEMMA OneMoves ==
  ASSUME NEW S \in SUBSET Reqs, NEW T \in SUBSET Reqs, NEW r, S \ {r} = T \ {r}
  PROVE  /\ Cardinality(S) \in Nat /\ Cardinality(T) \in Nat
         /\ Cardinality(T) - Counts(T, r) = Cardinality(S) - Counts(S, r)
<1>1. IsFiniteSet(S) /\ IsFiniteSet(T)
  BY ReqsAssumption, FS_Subset
<1>2. Cardinality(S) \in Nat /\ Cardinality(T) \in Nat
  BY <1>1, FS_CardinalityType
<1>3. Cardinality(S \ {r}) = Cardinality(S) - Counts(S, r)
  <2>1. Cardinality(S \ {r}) = IF r \in S THEN Cardinality(S) - 1 ELSE Cardinality(S)
    BY <1>1, FS_RemoveElement
  <2> QED BY <1>2, <2>1 DEF Counts
<1>4. Cardinality(T \ {r}) = Cardinality(T) - Counts(T, r)
  <2>1. Cardinality(T \ {r}) = IF r \in T THEN Cardinality(T) - 1 ELSE Cardinality(T)
    BY <1>1, FS_RemoveElement
  <2> QED BY <1>2, <2>1 DEF Counts
<1> QED
  BY <1>2, <1>3, <1>4 DEF Counts

\* What r has been paid beyond what it has been paid for.
Balance(r) ==
  2 * (Counts(Started, r) + Counts(Again, r)) + Counts(Overrides, r) - budget
    - (sent + Counts(Owed, r) + Counts(Free, r))

LEMMA Members ==
  ASSUME NEW r \in Reqs
  PROVE  /\ r \in Started <=> pc[r] # "plan"
         /\ r \in Again <=> resent[r]
         /\ r \in Overrides <=> promoted[r]
         /\ r \in Owed <=> pc[r] = "send"
         /\ r \in Free <=> pc[r] \in InSend /\ ~freeUsed[r]
  BY Zenon DEF Started, Again, Overrides, Owed, Free

LEMMA MembersNext ==
  ASSUME NEW r \in Reqs
  PROVE  /\ r \in Started' <=> pc'[r] # "plan"
         /\ r \in Again' <=> resent'[r]
         /\ r \in Overrides' <=> promoted'[r]
         /\ r \in Owed' <=> pc'[r] = "send"
         /\ r \in Free' <=> pc'[r] \in InSend /\ ~freeUsed'[r]
  BY Zenon DEF Started, Again, Overrides, Owed, Free

LEMMA BalanceKept ==
  ASSUME TypeOK, SwapsSome, OnceEach, NEW r \in Reqs, Step(r) \/ Executes(r)
  PROVE  Balance(r)' >= Balance(r)
<1> USE Members, MembersNext
<1>0. sent \in Nat /\ budget \in Int
  BY BudgetAssumption DEF TypeOK
<1>1. CASE Plans(r)
  <2>1. /\ pc[r] = "plan" /\ pc'[r] = "send" /\ sent' = sent /\ budget' = budget
        /\ resent' = resent
    BY <1>1 DEF Plans, Goto, TypeOK, shared, history
  <2>2. r \notin Started /\ r \notin Owed /\ r \notin Free /\ r \notin Overrides
    BY <2>1, Zenon DEF InSend, OnceEach
  <2>3. r \in Started' /\ (r \in Again <=> r \in Again')
    BY <2>1, Zenon
  <2> QED
    BY <1>0, <2>1, <2>2, <2>3 DEF Balance, Counts
<1>2. CASE Sends(r)
  <2>1. /\ pc[r] = "send" /\ pc'[r] \in {"wait", "answered"} /\ budget' = budget
        /\ resent' = resent /\ promoted' = promoted /\ freeUsed' = freeUsed
        /\ sent' = sent \/ sent' = sent + 1
    BY <1>2 DEF Sends, TypeOK, shared
  <2>2. /\ r \in Started /\ r \in Owed /\ r \notin Owed' /\ r \in Started'
        /\ r \in Free' => r \in Free
    BY <2>1, Zenon DEF InSend
  <2>3. (r \in Again <=> r \in Again') /\ (r \in Overrides <=> r \in Overrides')
    BY <2>1, Zenon
  <2> QED
    BY <1>0, <2>1, <2>2, <2>3 DEF Balance, Counts
<1>3. CASE AttemptEnds(r)
  <2>1. PICK a \in Answers : /\ freeUsed' = [freeUsed EXCEPT ![r] = @ \/ ClassifyAttempt(r, a) = "free"]
                             /\ pc' = [pc EXCEPT ![r] = Decides(r, a)]
    BY <1>3 DEF AttemptEnds
  <2>2. /\ pc[r] = "wait" /\ resent' = resent /\ promoted' = promoted
        /\ sent' = sent /\ budget' = budget
    BY <1>3 DEF AttemptEnds, shared, history
  <2>3. pc'[r] = Decides(r, a)
    BY <2>1 DEF TypeOK
  <2>4. freeUsed'[r] <=> freeUsed[r] \/ ClassifyAttempt(r, a) = "free"
    BY <2>1, Zenon DEF TypeOK
  <2>5. /\ Decides(r, a) \in {"send", "promote", "take", "answered"}
        /\ Decides(r, a) = "send" => ClassifyAttempt(r, a) = "free" /\ ~freeUsed[r]
    BY DEF Decides, ClassifyAttempt
  <2>6. /\ r \in Started /\ r \in Started' /\ r \notin Owed
        /\ r \in Owed' => r \in Free /\ r \notin Free'
        /\ r \in Free' => r \in Free
    BY <2>2, <2>3, <2>4, <2>5, Zenon DEF InSend
  <2>7. (r \in Again <=> r \in Again') /\ (r \in Overrides <=> r \in Overrides')
    BY <2>2, Zenon
  <2> QED
    BY <1>0, <2>2, <2>6, <2>7 DEF Balance, Counts
<1>4. CASE Promotes(r)
  <2>1. /\ pc[r] = "promote" /\ pc'[r] = (IF CanPromote(r) THEN "send" ELSE "answered")
        /\ sent' = sent /\ budget' = budget /\ resent' = resent /\ freeUsed' = freeUsed
    BY <1>4 DEF Promotes, Goto, TypeOK, loop, shared, history
  <2>2. promoted'[r] <=> promoted[r] \/ CanPromote(r)
    BY <1>4, Zenon DEF Promotes, TypeOK
  <2>3. /\ r \in Started /\ r \in Started' /\ r \notin Owed
        /\ r \in Owed' => r \notin Overrides /\ r \in Overrides'
        /\ r \in Overrides => r \in Overrides'
        /\ r \in Free' => r \in Free
        /\ r \in Again <=> r \in Again'
    BY <2>1, <2>2, Zenon DEF InSend, CanPromote
  <2> QED
    BY <1>0, <2>1, <2>3 DEF Balance, Counts
<1>5. CASE LoadsBudget(r)
  <2>1. /\ pc[r] = "take" /\ pc'[r] \in {"answered", "swap"}
        /\ sent' = sent /\ budget' = budget
        /\ resent' = resent /\ promoted' = promoted /\ freeUsed' = freeUsed
    BY <1>5 DEF LoadsBudget, Goto, TypeOK, request, shared, history
  <2>2. /\ r \in Started /\ r \in Started' /\ r \notin Owed /\ r \notin Owed'
        /\ r \in Free' => r \in Free
        /\ r \in Again <=> r \in Again'
        /\ r \in Overrides <=> r \in Overrides'
    BY <2>1, Zenon DEF InSend
  <2> QED
    BY <1>0, <2>1, <2>2 DEF Balance, Counts
<1>6. CASE SwapsBudget(r)
  <2>1. /\ pc[r] = "swap" /\ sent' = sent
        /\ resent' = resent /\ promoted' = promoted /\ freeUsed' = freeUsed
    BY <1>6 DEF SwapsBudget, request, history
  <2>2. \/ budget' = budget - 1 /\ pc'[r] \in {"send", "answered"}
        \/ budget' = budget /\ pc'[r] = "take"
    BY <1>6 DEF SwapsBudget, TypeOK
  <2>3. /\ r \in Started /\ r \in Started' /\ r \notin Owed
        /\ r \in Owed' => budget' = budget - 1
        /\ r \in Free' => r \in Free
        /\ r \in Again <=> r \in Again'
        /\ r \in Overrides <=> r \in Overrides'
    BY <2>1, <2>2, Zenon DEF InSend
  <2> QED
    BY <1>0, <2>1, <2>2, <2>3 DEF Balance, Counts
<1>7. CASE Returns(r)
  <2>1. /\ pc[r] = "answered" /\ pc'[r] \in {"renew", "done"} /\ sent' = sent /\ budget' = budget
        /\ resent' = resent /\ promoted' = promoted
    BY <1>7 DEF Returns, Goto, TypeOK, request, history
  <2>2. /\ r \in Started /\ r \in Started' /\ r \notin Owed /\ r \notin Owed' /\ r \notin Free'
        /\ r \in Again <=> r \in Again'
        /\ r \in Overrides <=> r \in Overrides'
    BY <2>1, Zenon DEF InSend
  <2> QED
    BY <1>0, <2>1, <2>2 DEF Balance, Counts
<1>8. CASE Renews(r)
  <2>1. PICK revalidated \in BOOLEAN :
          /\ Goto(r, "renew", IF revalidated /\ IsReadOnly(r) THEN "send" ELSE "done")
          /\ resent' = [resent EXCEPT ![r] = revalidated /\ IsReadOnly(r)]
    BY <1>8 DEF Renews
  <2>2. /\ pc[r] = "renew"
        /\ pc'[r] = (IF revalidated /\ IsReadOnly(r) THEN "send" ELSE "done")
    BY <2>1 DEF Goto, TypeOK
  <2>3. resent'[r] <=> revalidated /\ IsReadOnly(r)
    BY <2>1, Zenon DEF TypeOK
  <2>4. sent' = sent /\ budget' = budget /\ promoted' = promoted
    BY <1>8 DEF Renews, shared
  <2>5. /\ r \in Started /\ r \in Started' /\ r \notin Owed /\ r \notin Again
        /\ r \in Owed' => r \in Again'
        /\ r \in Free' => r \in Again'
        /\ r \in Overrides <=> r \in Overrides'
    BY <2>2, <2>3, <2>4, Zenon DEF InSend, OnceEach
  <2> QED
    BY <1>0, <2>4, <2>5 DEF Balance, Counts
<1>9. CASE Executes(r)
  <2>1. /\ Started' = Started /\ Again' = Again /\ Overrides' = Overrides /\ Owed' = Owed
        /\ Free' = Free /\ sent' = sent /\ budget' = budget
    BY <1>9 DEF Executes, Started, Again, Overrides, Owed, Free, request, loop, shared, history
  <2> QED
    BY <1>0, <2>1 DEF Balance, Counts
<1> QED
  BY <1>1, <1>2, <1>3, <1>4, <1>5, <1>6, <1>7, <1>8, <1>9 DEF Step

LEMMA OnceStays == ASSUME TypeOK, OnceEach, [Next]_vars PROVE OnceEach'
<1>1. CASE UNCHANGED vars
  BY <1>1 DEF OnceEach, vars, request
<1>2. ASSUME NEW r \in Reqs, Step(r) \/ Executes(r) PROVE OnceEach'
  <2> SUFFICES ASSUME NEW s \in Reqs
               PROVE  /\ pc'[s] = "plan" => ~promoted'[s]
                      /\ pc'[s] = "renew" => ~resent'[s]
    BY Zenon DEF OnceEach
  <2>1. CASE s # r
    BY <1>2, <2>1, Frame, FrameFlags DEF OnceEach
  <2>2. CASE s = r
    <3>1. pc'[r] # "plan" \/ Executes(r)
      <4>1. CASE AttemptEnds(r)
        BY <4>1 DEF AttemptEnds, Decides, ClassifyAttempt, TypeOK
      <4> QED
        BY <1>2, <4>1 DEF Step, Plans, Sends, Promotes, LoadsBudget, SwapsBudget, Returns, Renews,
                          Goto, TypeOK
    <3>2. pc'[r] # "renew" \/ Executes(r) \/ (Returns(r) /\ ~resent[r] /\ resent' = resent)
      <4>1. CASE AttemptEnds(r)
        BY <4>1 DEF AttemptEnds, Decides, ClassifyAttempt, TypeOK
      <4>2. CASE Returns(r)
        <5>1. resent' = resent
          BY <4>2 DEF Returns, request
        <5>2. pc'[r] = "renew" => ~resent[r]
          BY <4>2 DEF Returns, Goto, TypeOK
        <5> QED BY <4>2, <5>1, <5>2
      <4> QED
        BY <1>2, <4>1, <4>2 DEF Step, Plans, Sends, Promotes, LoadsBudget, SwapsBudget, Renews,
                                Goto, TypeOK
    <3>3. CASE Executes(r)
      BY <2>2, <3>3, Zenon DEF Executes, request, OnceEach
    <3> QED
      BY <2>2, <3>1, <3>2, <3>3, Zenon
  <2> QED BY <2>1, <2>2
<1> QED
  BY <1>1, <1>2 DEF Next, Done

LEMMA PaidStays ==
  ASSUME TypeOK, SwapsSome, OnceEach, AttemptsPaid, [Next]_vars
  PROVE  AttemptsPaid'
<1>1. CASE UNCHANGED vars
  <2>1. /\ Started' = Started /\ Again' = Again /\ Overrides' = Overrides /\ Owed' = Owed
        /\ Free' = Free /\ sent' = sent /\ budget' = budget
    BY <1>1 DEF Started, Again, Overrides, Owed, Free, vars, request, loop, shared, history
  <2> QED
    BY <2>1 DEF AttemptsPaid
<1>2. ASSUME NEW r \in Reqs, Step(r) \/ Executes(r) PROVE AttemptsPaid'
  <2>1. /\ Started \ {r} = Started' \ {r} /\ Again \ {r} = Again' \ {r}
        /\ Overrides \ {r} = Overrides' \ {r} /\ Owed \ {r} = Owed' \ {r}
        /\ Free \ {r} = Free' \ {r}
    <3>1. ASSUME NEW s \in Reqs, s # r
          PROVE  /\ pc'[s] = pc[s] /\ freeUsed'[s] = freeUsed[s]
                 /\ promoted'[s] = promoted[s] /\ resent'[s] = resent[s]
      BY <1>2, <3>1, Frame, FrameFlags
    <3> QED
      BY <3>1, Zenon DEF Started, Again, Overrides, Owed, Free
  <2>2. /\ Started \in SUBSET Reqs /\ Again \in SUBSET Reqs /\ Overrides \in SUBSET Reqs
        /\ Owed \in SUBSET Reqs /\ Free \in SUBSET Reqs
        /\ Started' \in SUBSET Reqs /\ Again' \in SUBSET Reqs /\ Overrides' \in SUBSET Reqs
        /\ Owed' \in SUBSET Reqs /\ Free' \in SUBSET Reqs
    BY Zenon DEF Started, Again, Overrides, Owed, Free
  <2> DEFINE Moves(S, T) ==
        /\ Cardinality(S) \in Nat /\ Cardinality(T) \in Nat
        /\ Cardinality(T) - Counts(T, r) = Cardinality(S) - Counts(S, r)
  <2>3. /\ Moves(Started, Started') /\ Moves(Again, Again') /\ Moves(Overrides, Overrides')
        /\ Moves(Owed, Owed') /\ Moves(Free, Free')
    BY <2>1, <2>2, OneMoves
  <2>4. Balance(r)' >= Balance(r)
    BY <1>2, BalanceKept
  <2>5. sent \in Nat /\ budget \in Int /\ sent' \in Nat /\ budget' \in Int
    BY <1>2, TypesHold, BudgetAssumption DEF TypeOK, Next
  <2>6. \A S : Counts(S, r) \in {0, 1}
    BY DEF Counts
  <2> QED
    BY <2>3, <2>4, <2>5, <2>6, BudgetAssumption DEF AttemptsPaid, Balance
<1> QED
  BY <1>1, <1>2 DEF Next, Done

LEMMA OverridesStay == ASSUME TypeOK, OverridesOnlyGets, [Next]_vars PROVE OverridesOnlyGets'
<1>1. CASE UNCHANGED vars
  BY <1>1 DEF OverridesOnlyGets, vars, request
<1>2. ASSUME NEW r \in Reqs, Step(r) \/ Executes(r) PROVE OverridesOnlyGets'
  <2>1. promoted'[r] => promoted[r] \/ kind[r] = "get"
    <3>1. CASE Plans(r)
      BY <3>1, Zenon DEF Plans, TypeOK, CanPromote
    <3>2. CASE Promotes(r)
      BY <3>2, Zenon DEF Promotes, TypeOK, CanPromote
    <3> QED
      BY <1>2, <3>1, <3>2, Zenon DEF Step, Sends, AttemptEnds, LoadsBudget, SwapsBudget, Returns,
                                     Renews, Executes, request
  <2>2. kind' = kind
    BY <1>2, KindsStay DEF Next
  <2>3. \A s \in Reqs : s # r => promoted'[s] = promoted[s]
    BY <1>2, FrameFlags
  <2> QED
    BY <2>1, <2>2, <2>3, Zenon DEF OverridesOnlyGets
<1> QED
  BY <1>1, <1>2 DEF Next, Done

-----------------------------------------------------------------------------
LEMMA InitHolds == Init => TypeOK /\ SwapsSome /\ WritesOnce /\ OneRenews
<1> SUFFICES ASSUME Init PROVE TypeOK /\ SwapsSome /\ WritesOnce /\ OneRenews
  OBVIOUS
<1>1. /\ promoted \in [Reqs -> BOOLEAN] /\ freeUsed \in [Reqs -> BOOLEAN]
      /\ resent \in [Reqs -> BOOLEAN] /\ taken \in [Reqs -> BOOLEAN]
      /\ flying \in [Reqs -> BOOLEAN] /\ drained \in [Reqs -> BOOLEAN]
  BY Zenon DEF Init
<1>2. TypeOK
  <2>1. pc \in [Reqs -> PCs] /\ answer \in [Reqs -> Answers \cup {"none"}]
    BY DEF Init, PCs
  <2>2. /\ attempts \in [Reqs -> 0 .. MaxAttempts] /\ seenLeft \in [Reqs -> 0 .. RetryBudget]
        /\ applied \in [Reqs -> Nat]
    <3>1. attempts = [r \in Reqs |-> 0] /\ seenLeft = attempts /\ applied = attempts
      BY DEF Init
    <3>2. 0 \in 0 .. MaxAttempts /\ 0 \in 0 .. RetryBudget /\ 0 \in Nat
      BY AttemptsAssumption, BudgetAssumption
    <3> QED BY <3>1, <3>2
  <2>3. kind \in [Reqs -> Kinds] /\ staleUsed \in BOOLEAN
    BY Zenon DEF Init
  <2>4. budget = RetryBudget /\ sent = 0 /\ renewed = 0
    BY DEF Init
  <2>5. budget \in 0 .. RetryBudget /\ sent \in Nat /\ renewed \in Nat
    BY <2>4, BudgetAssumption
  <2> QED BY <1>1, <2>1, <2>2, <2>3, <2>5 DEF TypeOK
<1>3. SwapsSome /\ OneRenews
  BY DEF Init, SwapsSome, OneRenews
<1>4. WritesOnce
  BY DEF Init, WritesOnce, WriteOnce, Untouched
<1> QED BY <1>2, <1>3, <1>4

LEMMA Invariant == Spec => [](TypeOK /\ SwapsSome /\ WritesOnce /\ OneRenews)
<1>1. TypeOK /\ SwapsSome /\ WritesOnce /\ OneRenews /\ [Next]_vars =>
        (TypeOK /\ SwapsSome /\ WritesOnce /\ OneRenews)'
  BY TypesHold, WritesStay, RenewsStay
<1> QED
  BY <1>1, InitHolds, PTL DEF Spec

\* The variables keep their types; the shared budget is never overdrawn.
THEOREM TypeCorrect == Spec => []TypeOK
  BY Invariant, PTL

\* The server executes a write at most once, whatever the network loses or delays,
\* however many retries the policy allows and however many requests are under way.
THEOREM WritesOnlyOnce == Spec => []AtMostOnce
<1>1. TypeOK /\ WritesOnce => AtMostOnce
  BY DEF TypeOK, WritesOnce, WriteOnce, Untouched, AtMostOnce, PCs, IsReadOnly
<1> QED
  BY <1>1, Invariant, PTL

\* A write reported as never having left was not executed and will not be.
THEOREM UnsentIsUnsent == Spec => []UnsentIsTrue
<1>1. WritesOnce => UnsentIsTrue
  BY DEF WritesOnce, WriteOnce, UnsentIsTrue
<1> QED
  BY <1>1, Invariant, PTL

\* Discovery is run again at most once per process.
THEOREM RenewsAtMostOnce == Spec => []RenewsOnce
<1>1. OneRenews => RenewsOnce
  BY DEF OneRenews, RenewsOnce
<1> QED
  BY <1>1, Invariant, PTL

\* The server is spared: attempts beyond one, a free retry and a promotion per call are
\* paid by the retry budget all requests share.  And only a GET is sent as another method.
THEOREM ResendingIsRestrained == Spec => []Restrained
<1> DEFINE IInv == TypeOK /\ SwapsSome /\ OnceEach /\ AttemptsPaid /\ OverridesOnlyGets
<1>1. Init => IInv
  <2> SUFFICES ASSUME Init PROVE OnceEach /\ AttemptsPaid /\ OverridesOnlyGets
    BY InitHolds
  <2>1. OnceEach /\ OverridesOnlyGets
    BY Zenon DEF Init, OnceEach, OverridesOnlyGets
  <2>2. Started = {} /\ Again = {} /\ Overrides = {} /\ Owed = {} /\ Free = {}
    BY Zenon DEF Init, Started, Again, Overrides, Owed, Free, InSend
  <2>3. sent = 0 /\ budget = RetryBudget
    BY DEF Init
  <2> QED
    BY <2>1, <2>2, <2>3, FS_EmptySet, BudgetAssumption DEF AttemptsPaid
<1>2. IInv /\ [Next]_vars => IInv'
  BY TypesHold, OnceStays, PaidStays, OverridesStay
<1>3. IInv => Restrained
  <2> SUFFICES ASSUME IInv PROVE ServerSpared
    BY DEF Restrained
  <2>1. /\ Owed \in SUBSET Reqs /\ Free \in SUBSET Reqs /\ Started \in SUBSET Reqs
        /\ Again \in SUBSET Reqs /\ Overrides \in SUBSET Reqs
    BY Zenon DEF Owed, Free, Started, Again, Overrides
  <2>2. /\ Cardinality(Owed) \in Nat /\ Cardinality(Free) \in Nat /\ Cardinality(Started) \in Nat
        /\ Cardinality(Again) \in Nat /\ Cardinality(Overrides) \in Nat
    BY <2>1, OneMoves
  <2>3. sent \in Nat /\ budget \in Int
    BY BudgetAssumption DEF TypeOK
  <2>4. sent <= 2 * (Cardinality(Started) + Cardinality(Again)) + Cardinality(Overrides) + RetryBudget - budget
    BY <2>2, <2>3, BudgetAssumption DEF AttemptsPaid
  <2> QED
    BY <2>4 DEF ServerSpared, Started, Again, Overrides
<1> QED
  BY <1>1, <1>2, <1>3, PTL DEF Spec
=============================================================================
