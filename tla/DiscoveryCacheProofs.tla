------------------------ MODULE DiscoveryCacheProofs ------------------------
(* Theorems about DiscoveryCache, for every value of its constants. *)
EXTENDS DiscoveryCache, TLAPS

-----------------------------------------------------------------------------
(* Types.                                                                   *)

\* A missing index is of the type of an index.
LEMMA NoIndexType == NoIndex \in Index /\ Missing(NoIndex)
  BY ToposAssumption, BoundAssumption DEF NoIndex, Index, Gens, Missing

\* Leaving keeps the types of the process's memory.
LEMMA ExitType ==
  ASSUME TypeOK, NEW p \in Procs, Exit(p), UNCHANGED <<server, minted, disk>>
  PROVE  TypeOK'
  <1>1. UNCHANGED <<clock, topo, seen, minted, dirs, dir, born, index, shard>>
    BY DEF server, disk
  <1>2. [e \in Entities |-> 0] \in [Entities -> Gens]
    BY BoundAssumption DEF Gens
  <1>3. now' \in [Procs -> 0 .. MaxClock] /\ inode' \in [Procs -> 0 .. MaxDir]
    BY BoundAssumption DEF TypeOK, Exit
  <1> QED BY <1>1, <1>2, <1>3, NoIndexType DEF TypeOK, Exit, PCs

\* So does the end of a write.
LEMMA AfterWriteType ==
  ASSUME TypeOK, NEW p \in Procs, AfterWrite(p)
  PROVE  TypeOK'
  <1>1. UNCHANGED <<clock, topo, seen, minted, dirs, dir, born, index, shard, cmd, now, man, ref, ran, view>>
    BY DEF AfterWrite, server, disk
  <1>2. inode' \in [Procs -> 0 .. MaxDir]
    BY BoundAssumption DEF TypeOK, AfterWrite
  <1> QED BY <1>1, <1>2, NoIndexType DEF TypeOK, AfterWrite, PCs

\* The scope directory is created only while the bound allows one more.
LEMMA MkdirAllType ==
  ASSUME TypeOK, MkdirAll
  PROVE  /\ dirs' \in 0 .. MaxDir /\ dir' \in 0 .. MaxDir /\ born' \in 0 .. MaxClock
         /\ dir' = 0 => dirs' < MaxDir
  BY BoundAssumption DEF TypeOK, MkdirAll

LEMMA InitType == Init => TypeOK
  <1> SUFFICES ASSUME Init PROVE TypeOK OBVIOUS
  <1>1. 0 \in Gens /\ 1 \in Gens /\ 0 \in 0 .. MaxClock
    BY BoundAssumption DEF Gens
  <1>2. [e \in Entities |-> 0] \in [Entities -> Gens]
    BY <1>1
  <1>3. CASE minted = 0 /\ index = NoIndex /\ shard = [e \in Entities |-> 0]
    BY <1>1, <1>2, <1>3, NoIndexType, BoundAssumption DEF Init, TypeOK, PCs
  <1>4. CASE /\ minted = 1 /\ dirs = 1 /\ dir = 1
             /\ index = [gen |-> 1, topo |-> topo, conf |-> 0, memo |-> FALSE]
             /\ shard = [e \in Entities |-> 1]
    <2>1. index \in Index BY <1>1, <1>4 DEF Init, Index
    <2>2. shard \in [Entities -> Gens] BY <1>1, <1>4
    <2> QED BY <1>1, <1>2, <1>4, <2>1, <2>2, NoIndexType, BoundAssumption DEF Init, TypeOK, PCs
  <1> QED BY <1>3, <1>4 DEF Init

\* Every step keeps every variable in its type.
LEMMA NextType == TypeOK /\ [Next]_vars => TypeOK'
  <1> SUFFICES ASSUME TypeOK, [Next]_vars PROVE TypeOK' OBVIOUS
  <1> USE BoundAssumption DEF server, disk, Goto
  <1>1. CASE Tick BY <1>1 DEF Tick, TypeOK, proc
  <1>2. CASE Deploy BY <1>2 DEF Deploy, TypeOK, proc
  <1>3. ASSUME NEW p \in Procs, Start(p) PROVE TypeOK'
    <2> DEFINE First(c) == CASE c \in {"use", "query"}       -> "resolve"
                             [] c \in {"refresh", "nocache"} -> "discover"
                             [] c = "offline"                -> "offline"
                             [] c = "clear"                  -> "trash"
                             [] c = "sweep"                  -> "sweep"
    <2>1. PICK c \in Commands : /\ cmd' = [cmd EXCEPT ![p] = c]
                                /\ pc' = [pc EXCEPT ![p] = First(c)]
      BY <1>3 DEF Start
    <2>2. c \in {"use", "query", "refresh", "nocache", "offline", "clear", "sweep"}
      BY <2>1, CommandsAssumption DEF AllCommands, Online
    <2>3. First(c) \in PCs BY <2>2 DEF PCs
    <2> HIDE DEF First
    <2>4. pc' \in [Procs -> PCs] BY <2>1, <2>3 DEF TypeOK
    <2>5. cmd' \in [Procs -> Commands \cup {"none"}] BY <2>1 DEF TypeOK
    <2>6. now' \in [Procs -> 0 .. MaxClock] BY <1>3 DEF Start, TypeOK
    <2>7. UNCHANGED <<server, minted, disk, man, ref, ran, job, doc, todo, inode, held, view>>
      BY <1>3 DEF Start
    <2> QED BY <2>4, <2>5, <2>6, <2>7 DEF TypeOK
  <1>4. ASSUME NEW p \in Procs, Resolve(p) PROVE TypeOK'
    <2>0. \E next \in {"serve", "probe", "discover"} : pc' = [pc EXCEPT ![p] = next]
      BY <1>4 DEF Resolve
    <2>1. pc' \in [Procs -> PCs] BY <2>0 DEF TypeOK, PCs
    <2>2. man' \in [Procs -> Index] /\ ref' \in [Procs -> Index]
          /\ todo' \in [Procs -> SUBSET Entities]
      <3>1. CASE Adopt(p, index) BY <3>1 DEF Adopt, TypeOK
      <3>2. CASE UNCHANGED <<man, ref, todo>> BY <3>2 DEF TypeOK
      <3> QED BY <1>4, <3>1, <3>2 DEF Resolve
    <2> QED BY <1>4, <2>1, <2>2 DEF Resolve, TypeOK
  <1>5. ASSUME NEW p \in Procs, ProbeTimesOut(p) \/ ProbeConfirms(p) \/ ProbeDiffers(p) PROVE TypeOK'
    BY <1>5 DEF ProbeTimesOut, ProbeConfirms, ProbeDiffers, TypeOK, PCs
  <1>6. ASSUME NEW p \in Procs, TouchReads(p) PROVE TypeOK'
    <2>1. [index EXCEPT !.conf = now[p]] \in Index BY DEF TypeOK, Index
    <2>2. \E next \in {"serve", "open"} : pc' = [pc EXCEPT ![p] = next] BY <1>6 DEF TouchReads
    <2>3. pc' \in [Procs -> PCs] BY <2>2 DEF TypeOK, PCs
    <2>4. job' \in [Procs -> {"none", "set", "touch", "memo"}] /\ doc' \in [Procs -> Index]
      BY <1>6, <2>1 DEF TouchReads, TypeOK
    <2> QED BY <1>6, <2>3, <2>4 DEF TouchReads, TypeOK
  <1>7. ASSUME NEW p \in Procs, DiscoveryStarts(p) PROVE TypeOK'
    <2>1. minted' \in Gens BY <1>7 DEF DiscoveryStarts, TypeOK, Gens
    <2>2. [NoIndex EXCEPT !.gen = minted', !.conf = clock] \in Index
      BY <2>1, NoIndexType DEF Index, TypeOK
    <2> QED BY <1>7, <2>1, <2>2 DEF DiscoveryStarts, TypeOK, PCs
  <1>8. ASSUME NEW p \in Procs, DiscoveryEnds(p) PROVE TypeOK'
    <2>1. [doc[p] EXCEPT !.topo = topo] \in Index BY DEF Index, TypeOK
    <2> QED BY <1>8, <2>1, NoIndexType DEF DiscoveryEnds, TypeOK, PCs
  <1>9. ASSUME NEW p \in Procs, DiscoveryFails(p) \/ Ends(p) \/ Crashes(p) PROVE TypeOK'
    BY <1>9, ExitType DEF DiscoveryFails, Ends, Crashes
  <1>10. ASSUME NEW p \in Procs, OpensLock(p) PROVE TypeOK'
    BY <1>10, MkdirAllType DEF OpensLock, TypeOK, PCs
  <1>11. ASSUME NEW p \in Procs, OpenFails(p) \/ LockTimesOut(p) \/ Releases(p) PROVE TypeOK'
    BY <1>11, AfterWriteType DEF OpenFails, LockTimesOut, Releases
  <1>12. ASSUME NEW p \in Procs, Acquires(p) PROVE TypeOK'
    BY <1>12 DEF Acquires, TypeOK, PCs
  <1>13. ASSUME NEW p \in Procs, NEW e \in Entities, WritesShard(p, e) PROVE TypeOK'
    <2>1. doc[p].gen \in Gens BY DEF TypeOK, Index
    <2> QED BY <1>13, <2>1, MkdirAllType DEF WritesShard, TypeOK
  <1>14. ASSUME NEW p \in Procs, WritesIndex(p) PROVE TypeOK'
    BY <1>14, MkdirAllType DEF WritesIndex, TypeOK, PCs
  <1>15. ASSUME NEW p \in Procs, WriteFails(p) PROVE TypeOK'
    BY <1>15 DEF WriteFails, TypeOK, PCs
  <1>16. ASSUME NEW p \in Procs, NEW e \in Entities, Serves(p, e) PROVE TypeOK'
    <2>1. (IF ran[p] THEN man[p].gen ELSE ReadShard(ref[p], e)) \in Gens
      BY DEF TypeOK, Index, Gens, ReadShard
    <2> QED BY <1>16, <2>1 DEF Serves, TypeOK
  <1>17. ASSUME NEW p \in Procs, Answers(p) PROVE TypeOK'
    BY <1>17 DEF Answers, TypeOK, PCs
  <1>18. ASSUME NEW p \in Procs, MemoReads(p) PROVE TypeOK'
    <2>1. [index EXCEPT !.memo = TRUE] \in Index BY DEF TypeOK, Index
    <2>2. \E next \in {"end", "open"} : pc' = [pc EXCEPT ![p] = next] BY <1>18 DEF MemoReads
    <2>3. pc' \in [Procs -> PCs] BY <2>2 DEF TypeOK, PCs
    <2>4. job' \in [Procs -> {"none", "set", "touch", "memo"}] /\ doc' \in [Procs -> Index]
      BY <1>18, <2>1 DEF MemoReads, TypeOK
    <2> QED BY <1>18, <2>3, <2>4 DEF MemoReads, TypeOK
  <1>19. ASSUME NEW p \in Procs, OfflineReads(p) \/ OfflineReadsAgain(p) PROVE TypeOK'
    <2>1. CASE OfflineReads(p)
      <3>1. \E next \in {"end", "serve"} : pc' = [pc EXCEPT ![p] = next] BY <2>1 DEF OfflineReads
      <3>2. pc' \in [Procs -> PCs] BY <3>1 DEF TypeOK, PCs
      <3>3. man' = man \/ man' = [man EXCEPT ![p] = index] BY <2>1 DEF OfflineReads
      <3>4. todo' = todo \/ todo' = [todo EXCEPT ![p] = Entities] BY <2>1 DEF OfflineReads
      <3>5. man' \in [Procs -> Index] BY <3>3 DEF TypeOK
      <3>6. todo' \in [Procs -> SUBSET Entities] BY <3>4 DEF TypeOK
      <3> QED BY <2>1, <3>2, <3>5, <3>6 DEF OfflineReads, TypeOK
    <2>2. CASE OfflineReadsAgain(p)
      <3>1. todo' \in [Procs -> SUBSET Entities]
        <4>1. CASE \E e \in todo[p] : todo' = [todo EXCEPT ![p] = @ \ {e}]
          BY <4>1 DEF TypeOK
        <4>2. CASE UNCHANGED todo BY <4>2 DEF TypeOK
        <4> QED BY <2>2, <4>1, <4>2 DEF OfflineReadsAgain
      <3>2. ref' \in [Procs -> Index]
        <4>1. CASE ref' = [ref EXCEPT ![p] = index] BY <4>1 DEF TypeOK
        <4>2. CASE UNCHANGED ref BY <4>2 DEF TypeOK
        <4> QED BY <2>2, <4>1, <4>2 DEF OfflineReadsAgain
      <3> QED BY <2>2, <3>1, <3>2 DEF OfflineReadsAgain, TypeOK
    <2> QED BY <1>19, <2>1, <2>2
  <1>20. ASSUME NEW p \in Procs, Sweeps(p) PROVE TypeOK'
    BY <1>20 DEF Sweeps, TypeOK, PCs
  <1>21. ASSUME NEW p \in Procs, Trashes(p) PROVE TypeOK'
    BY <1>21, NoIndexType DEF Trashes, TypeOK, PCs, Gens
  <1>22. CASE UNCHANGED vars
    BY <1>22 DEF vars, proc, TypeOK
  <1> QED
    BY <1>1, <1>2, <1>3, <1>4, <1>5, <1>6, <1>7, <1>8, <1>9, <1>10, <1>11, <1>12, <1>13,
       <1>14, <1>15, <1>16, <1>17, <1>18, <1>19, <1>20, <1>21, <1>22 DEF Next, Step

\* The variables keep their types, with any number of processes and whatever
\* the bounds are.
THEOREM TypeCorrect == Spec => []TypeOK
  BY InitType, NextType, PTL DEF Spec

-----------------------------------------------------------------------------
(* No mixed runs.  NoMixedRuns is not inductive: a command that has been    *)
(* served must not change its manifest, and the index it holds shards to    *)
(* must be that manifest as long as it has not discovered.                  *)

\* Where an online command may not have been served anything yet.
Early == {"idle", "resolve", "probe", "touch", "discover", "stage0", "exited"}

\* Where it has settled on a manifest.
Settled == {"probe", "touch", "open", "wait", "write", "unlock", "serve", "memo"}

\* The manifest a command answers from, and what it was served.
Coherent(p) ==
  /\ pc[p] \in Early => view[p] = [e \in Entities |-> 0]
  /\ cmd[p] \in Online =>
       /\ pc[p] # "offline"
       /\ pc[p] \in Settled /\ ~ran[p] => ref[p].gen = man[p].gen /\ man[p].gen # 0
       /\ \A e \in Entities : view[p][e] \in {0, man[p].gen}

ReadersCoherent == \A p \in Procs : Coherent(p)

\* A process that leaves, or another process's step, keeps Coherent.
LEMMA CoherentExit ==
  ASSUME TypeOK, NEW p \in Procs, Exit(p)
  PROVE  Coherent(p)'
  BY DEF Exit, Coherent, TypeOK, Early, Settled, Online

LEMMA CoherentOther ==
  ASSUME TypeOK, NEW p \in Procs, Coherent(p),
         pc'[p] = pc[p], cmd'[p] = cmd[p], man'[p] = man[p], ref'[p] = ref[p],
         ran'[p] = ran[p], view'[p] = view[p]
  PROVE  Coherent(p)'
  BY DEF Coherent

\* A step of p touches no other process's memory.
LEMMA StepIsLocal ==
  ASSUME TypeOK, NEW p \in Procs, Start(p) \/ Step(p) \/ Crashes(p),
         NEW q \in Procs, q # p
  PROVE  /\ pc'[q] = pc[q] /\ cmd'[q] = cmd[q] /\ man'[q] = man[q] /\ ref'[q] = ref[q]
         /\ ran'[q] = ran[q] /\ view'[q] = view[q]
  <1>1. CASE Start(p)
    BY <1>1 DEF Start, TypeOK
  <1>2. CASE DiscoveryFails(p) \/ Ends(p) \/ Crashes(p)
    BY <1>2 DEF DiscoveryFails, Ends, Crashes, Exit, TypeOK
  <1>3. CASE Resolve(p) \/ ProbeTimesOut(p) \/ ProbeConfirms(p) \/ ProbeDiffers(p) \/ TouchReads(p)
    BY <1>3 DEF Resolve, Adopt, ProbeTimesOut, ProbeConfirms, ProbeDiffers, TouchReads, Goto, TypeOK
  <1>4. CASE DiscoveryStarts(p) \/ DiscoveryEnds(p)
    BY <1>4 DEF DiscoveryStarts, DiscoveryEnds, Goto, TypeOK
  <1>5. CASE OpensLock(p) \/ Acquires(p) \/ WritesIndex(p) \/ WriteFails(p)
    BY <1>5 DEF OpensLock, Acquires, WritesIndex, WriteFails, Goto, TypeOK
  <1>6. CASE OpenFails(p) \/ LockTimesOut(p) \/ Releases(p)
    BY <1>6 DEF OpenFails, LockTimesOut, Releases, AfterWrite, TypeOK
  <1>7. CASE \E e \in Entities : WritesShard(p, e) \/ Serves(p, e)
    BY <1>7 DEF WritesShard, Serves, TypeOK
  <1>8. CASE Answers(p) \/ MemoReads(p) \/ Sweeps(p) \/ Trashes(p)
    BY <1>8 DEF Answers, MemoReads, Sweeps, Trashes, Goto, TypeOK
  <1>9. CASE OfflineReads(p) \/ OfflineReadsAgain(p)
    BY <1>9 DEF OfflineReads, OfflineReadsAgain, TypeOK
  <1> QED BY <1>1, <1>2, <1>3, <1>4, <1>5, <1>6, <1>7, <1>8, <1>9 DEF Step

\* A step of p keeps p coherent.
LEMMA StepCoherent ==
  ASSUME TypeOK, NEW p \in Procs, Coherent(p), Start(p) \/ Step(p) \/ Crashes(p)
  PROVE  Coherent(p)'
  <1> USE DEF Early, Settled
  <1>1. CASE Start(p)
    BY <1>1 DEF Start, Coherent, TypeOK, Online
  <1>2. CASE DiscoveryFails(p) \/ Ends(p) \/ Crashes(p)
    BY <1>2, CoherentExit DEF DiscoveryFails, Ends, Crashes
  <1>3. CASE Resolve(p)
    BY <1>3 DEF Resolve, Adopt, Coherent, TypeOK, Missing
  <1>4. CASE ProbeTimesOut(p) \/ ProbeConfirms(p) \/ ProbeDiffers(p) \/ TouchReads(p)
    BY <1>4 DEF ProbeTimesOut, ProbeConfirms, ProbeDiffers, TouchReads, Goto, Coherent, TypeOK
  <1>5. CASE DiscoveryStarts(p)
    BY <1>5 DEF DiscoveryStarts, Goto, Coherent, TypeOK
  <1>6. CASE DiscoveryEnds(p)
    <2>1. view'[p] = [e \in Entities |-> 0]
      BY <1>6 DEF DiscoveryEnds, Goto, Coherent
    <2>2. ran'[p] = TRUE /\ cmd'[p] = cmd[p] /\ pc'[p] \in {"open", "serve"}
      BY <1>6 DEF DiscoveryEnds, Goto, TypeOK
    <2> QED BY <2>1, <2>2 DEF Coherent
  <1>7. CASE OpensLock(p) \/ Acquires(p) \/ WritesIndex(p) \/ WriteFails(p)
    BY <1>7 DEF OpensLock, Acquires, WritesIndex, WriteFails, Goto, Coherent, TypeOK
  <1>8. CASE OpenFails(p) \/ LockTimesOut(p) \/ Releases(p)
    BY <1>8 DEF OpenFails, LockTimesOut, Releases, AfterWrite, Coherent, TypeOK
  <1>9. ASSUME NEW e \in Entities, WritesShard(p, e) PROVE Coherent(p)'
    BY <1>9 DEF WritesShard, Coherent
  <1>10. ASSUME NEW e \in Entities, Serves(p, e) PROVE Coherent(p)'
    <2> DEFINE v == IF ran[p] THEN man[p].gen ELSE ReadShard(ref[p], e)
    <2>1. cmd[p] \in Online => v \in {0, man[p].gen}
      BY <1>10 DEF Serves, Coherent, ReadShard
    <2>2. view'[p] = [view[p] EXCEPT ![e] = v]
      BY <1>10 DEF Serves, TypeOK
    <2>3. \A f \in Entities : view'[p][f] = IF f = e THEN v ELSE view[p][f]
      BY <2>2 DEF TypeOK
    <2> QED BY <1>10, <2>1, <2>3 DEF Serves, Coherent
  <1>11. CASE Answers(p) \/ MemoReads(p) \/ Sweeps(p) \/ Trashes(p)
    BY <1>11 DEF Answers, MemoReads, Sweeps, Trashes, Goto, Coherent, TypeOK
  <1>12. CASE OfflineReads(p)
    BY <1>12 DEF OfflineReads, Coherent, TypeOK
  <1>13. CASE OfflineReadsAgain(p)
    BY <1>13 DEF OfflineReadsAgain, Coherent, TypeOK, Missing
  <1> QED BY <1>1, <1>2, <1>3, <1>4, <1>5, <1>6, <1>7, <1>8, <1>9, <1>10, <1>11, <1>12, <1>13 DEF Step

LEMMA CoherentNext == TypeOK /\ ReadersCoherent /\ [Next]_vars => ReadersCoherent'
  <1> SUFFICES ASSUME TypeOK, ReadersCoherent, [Next]_vars, NEW q \in Procs PROVE Coherent(q)'
    BY DEF ReadersCoherent
  <1>1. Coherent(q) BY DEF ReadersCoherent
  <1>2. CASE Tick \/ Deploy \/ UNCHANGED vars
    BY <1>1, <1>2, CoherentOther DEF Tick, Deploy, vars, proc
  <1>3. ASSUME NEW p \in Procs, Start(p) \/ Step(p) \/ Crashes(p) PROVE Coherent(q)'
    BY <1>1, <1>3, StepCoherent, StepIsLocal, CoherentOther
  <1> QED BY <1>2, <1>3 DEF Next

\* No online command is ever served the shards of two discovery runs, with
\* any number of processes, with or without flock, whatever is cleared, and
\* wherever a writer dies.
THEOREM RunsNeverMix == Spec => []NoMixedRuns
  <1>1. Init => ReadersCoherent
    BY DEF Init, ReadersCoherent, Coherent, Early, Settled, Online
  <1>2. ReadersCoherent => NoMixedRuns
    BY DEF ReadersCoherent, Coherent, NoMixedRuns
  <1> QED BY <1>1, <1>2, CoherentNext, TypeCorrect, PTL DEF Spec

-----------------------------------------------------------------------------
(* The lock.  A process holds it exactly while it writes and unlocks.       *)

Holding == {"write", "unlock"}

LockInv ==
  /\ \A p \in Procs : held[p] <=> pc[p] \in Holding
  /\ WritersExclude

\* Where a step leaves held alone and moves no process in or out of Holding.
LEMMA LockUntouched ==
  ASSUME TypeOK, LockInv, UNCHANGED <<held, inode>>,
         \A q \in Procs : pc'[q] \in Holding <=> pc[q] \in Holding
  PROVE  LockInv'
  BY DEF LockInv, WritersExclude

\* Where a process lets go of the lock, if it held it.
LEMMA LockDropped ==
  ASSUME TypeOK, LockInv, NEW p \in Procs,
         held' = [held EXCEPT ![p] = FALSE], inode' = [inode EXCEPT ![p] = 0],
         NEW s \in PCs \ Holding, pc' = [pc EXCEPT ![p] = s]
  PROVE  LockInv'
  BY DEF LockInv, WritersExclude, TypeOK

LEMMA LockNext == TypeOK /\ LockInv /\ [Next]_vars => LockInv'
  <1> SUFFICES ASSUME TypeOK, LockInv, [Next]_vars PROVE LockInv' OBVIOUS
  <1>1. CASE Tick \/ Deploy \/ UNCHANGED vars
    BY <1>1, LockUntouched DEF Tick, Deploy, vars, proc
  <1>2. ASSUME NEW p \in Procs, Start(p) PROVE LockInv'
    <2>1. pc[p] = "idle" /\ pc'[p] \notin Holding
      BY <1>2, CommandsAssumption DEF Start, TypeOK, Holding, AllCommands, Online
    <2>2. \A q \in Procs : q # p => pc'[q] = pc[q] BY <1>2 DEF Start, TypeOK
    <2> QED BY <1>2, <2>1, <2>2, LockUntouched DEF Start, Holding
  <1>3. ASSUME NEW p \in Procs,
               Resolve(p) \/ ProbeTimesOut(p) \/ ProbeConfirms(p) \/ ProbeDiffers(p) \/ TouchReads(p)
        PROVE LockInv'
    BY <1>3, LockUntouched DEF Resolve, ProbeTimesOut, ProbeConfirms, ProbeDiffers, TouchReads,
                               Goto, TypeOK, Holding
  <1>4. ASSUME NEW p \in Procs, DiscoveryStarts(p) \/ DiscoveryEnds(p) PROVE LockInv'
    BY <1>4, LockUntouched DEF DiscoveryStarts, DiscoveryEnds, Goto, TypeOK, Holding
  <1>5. ASSUME NEW p \in Procs, DiscoveryFails(p) \/ Ends(p) \/ Crashes(p) PROVE LockInv'
    BY <1>5, LockDropped DEF DiscoveryFails, Ends, Crashes, Exit, PCs, Holding
  <1>6. ASSUME NEW p \in Procs, OpenFails(p) \/ LockTimesOut(p) \/ Releases(p) PROVE LockInv'
    <2>1. pc' = [pc EXCEPT ![p] = "end"] \/ pc' = [pc EXCEPT ![p] = "serve"]
      BY <1>6 DEF OpenFails, LockTimesOut, Releases, AfterWrite
    <2> QED BY <1>6, <2>1, LockDropped DEF OpenFails, LockTimesOut, Releases, AfterWrite, PCs, Holding
  <1>7. ASSUME NEW p \in Procs, OpensLock(p) PROVE LockInv'
    <2>1. ~held[p] BY <1>7 DEF OpensLock, Goto, LockInv, Holding
    <2> QED BY <1>7, <2>1 DEF OpensLock, Goto, LockInv, WritersExclude, TypeOK, Holding
  <1>8. ASSUME NEW p \in Procs, Acquires(p) PROVE LockInv'
    BY <1>8 DEF Acquires, Goto, LockInv, WritersExclude, TypeOK, Holding
  <1>9. ASSUME NEW p \in Procs, NEW e \in Entities, WritesShard(p, e) \/ Serves(p, e) PROVE LockInv'
    BY <1>9, LockUntouched DEF WritesShard, Serves
  <1>10. ASSUME NEW p \in Procs, WritesIndex(p) \/ WriteFails(p) PROVE LockInv'
    BY <1>10, LockUntouched DEF WritesIndex, WriteFails, Goto, TypeOK, Holding
  <1>11. ASSUME NEW p \in Procs, Answers(p) \/ MemoReads(p) \/ Sweeps(p) \/ Trashes(p) PROVE LockInv'
    BY <1>11, LockUntouched DEF Answers, MemoReads, Sweeps, Trashes, Goto, TypeOK, Holding
  <1>12. ASSUME NEW p \in Procs, OfflineReads(p) \/ OfflineReadsAgain(p) PROVE LockInv'
    BY <1>12, LockUntouched DEF OfflineReads, OfflineReadsAgain, TypeOK, Holding
  <1> QED
    BY <1>1, <1>2, <1>3, <1>4, <1>5, <1>6, <1>7, <1>8, <1>9, <1>10, <1>11, <1>12 DEF Next, Step

LEMMA LockInvariant == Spec => []LockInv
  <1>1. Init => LockInv
    BY DEF Init, LockInv, WritersExclude, Holding
  <1> QED BY <1>1, LockNext, TypeCorrect, PTL DEF Spec

\* Two processes that hold .lock hold different incarnations of it.
THEOREM LockExcludes == Spec => []WritersExclude
  <1>1. LockInv => WritersExclude BY DEF LockInv
  <1> QED BY <1>1, LockInvariant, PTL

-----------------------------------------------------------------------------
(* Sets are published whole, as long as nobody renames the directory away:  *)
(* then every lock is on the same file, so one process writes at a time.    *)

Opened == {"wait", "write", "unlock"}

SetInv ==
  /\ \A p \in Procs : pc[p] \notin {"sweep", "trash"}
  /\ \A p \in Procs : pc[p] \in Opened => inode[p] = dir /\ dir # 0
  /\ SetComplete

\* Only one process writes.
LEMMA OneWriter ==
  ASSUME FlockWorks, TypeOK, LockInv, SetInv,
         NEW p \in Procs, NEW q \in Procs, pc[p] = "write", pc[q] = "write"
  PROVE  p = q
  BY DEF LockInv, WritersExclude, SetInv, Holding, Opened

\* A step that leaves the directory and the shards alone, and the document
\* and the remaining shards of every process that goes on writing.
LEMMA SetUntouched ==
  ASSUME TypeOK, SetInv, UNCHANGED <<dir, shard>>,
         \A q \in Procs : pc'[q] \notin {"sweep", "trash"},
         \A q \in Procs : pc'[q] \in Opened => pc[q] \in Opened /\ inode'[q] = inode[q],
         \A q \in Procs : pc'[q] = "write" /\ job'[q] = "set" =>
            \/ todo'[q] = Entities
            \/ pc[q] = "write" /\ job[q] = "set" /\ doc'[q] = doc[q] /\ todo'[q] = todo[q]
  PROVE  SetInv'
  BY DEF SetInv, SetComplete

LEMMA SetNext ==
  ASSUME FlockWorks, Commands \cap {"clear", "sweep"} = {},
         TypeOK, LockInv, SetInv, [Next]_vars
  PROVE  SetInv'
  <1> USE DEF Opened, server, disk, Goto
  <1>1. CASE Tick \/ Deploy \/ UNCHANGED vars
    BY <1>1 DEF Tick, Deploy, vars, proc, SetInv, SetComplete
  <1>2. ASSUME NEW p \in Procs, Start(p) PROVE SetInv'
    <2>1. pc'[p] \in {"resolve", "discover", "offline"}
      BY <1>2, CommandsAssumption DEF Start, TypeOK, AllCommands, Online
    <2>2. \A q \in Procs : q # p => pc'[q] = pc[q] BY <1>2 DEF Start, TypeOK
    <2> QED BY <1>2, <2>1, <2>2, SetUntouched DEF Start, SetInv
  <1>3. ASSUME NEW p \in Procs,
               Resolve(p) \/ ProbeTimesOut(p) \/ ProbeConfirms(p) \/ ProbeDiffers(p)
        PROVE SetInv'
    <2>1. pc'[p] \in {"serve", "probe", "discover", "touch"} /\ pc[p] \notin Opened
      BY <1>3 DEF Resolve, ProbeTimesOut, ProbeConfirms, ProbeDiffers, TypeOK
    <2>2. \A q \in Procs : q # p => pc'[q] = pc[q] /\ todo'[q] = todo[q]
      BY <1>3 DEF Resolve, Adopt, ProbeTimesOut, ProbeConfirms, ProbeDiffers, TypeOK
    <2>3. UNCHANGED <<dir, shard, inode, job, doc>>
      BY <1>3 DEF Resolve, ProbeTimesOut, ProbeConfirms, ProbeDiffers
    <2> QED BY <2>1, <2>2, <2>3, SetUntouched DEF SetInv
  <1>4. ASSUME NEW p \in Procs,
               TouchReads(p) \/ MemoReads(p) \/ DiscoveryStarts(p) \/ DiscoveryEnds(p)
        PROVE SetInv'
    <2>1. pc'[p] \in {"serve", "open", "end", "stage0"} /\ pc[p] \notin Opened
      BY <1>4 DEF TouchReads, MemoReads, DiscoveryStarts, DiscoveryEnds, TypeOK
    <2>2. \A q \in Procs : q # p =>
            pc'[q] = pc[q] /\ todo'[q] = todo[q] /\ job'[q] = job[q] /\ doc'[q] = doc[q]
      BY <1>4 DEF TouchReads, MemoReads, DiscoveryStarts, DiscoveryEnds, TypeOK
    <2>3. UNCHANGED <<dir, shard, inode>>
      BY <1>4 DEF TouchReads, MemoReads, DiscoveryStarts, DiscoveryEnds
    <2> QED BY <2>1, <2>2, <2>3, SetUntouched DEF SetInv
  <1>5. ASSUME NEW p \in Procs,
               DiscoveryFails(p) \/ Ends(p) \/ Crashes(p)
               \/ OpenFails(p) \/ LockTimesOut(p) \/ Releases(p)
        PROVE SetInv'
    <2>1. pc'[p] \in {"exited", "end", "serve"}
      BY <1>5 DEF DiscoveryFails, Ends, Crashes, Exit, OpenFails, LockTimesOut, Releases, AfterWrite, TypeOK
    <2>2. \A q \in Procs : q # p =>
            pc'[q] = pc[q] /\ todo'[q] = todo[q] /\ job'[q] = job[q] /\ doc'[q] = doc[q]
            /\ inode'[q] = inode[q]
      BY <1>5 DEF DiscoveryFails, Ends, Crashes, Exit, OpenFails, LockTimesOut, Releases, AfterWrite, TypeOK
    <2>3. UNCHANGED <<dir, shard>>
      BY <1>5 DEF DiscoveryFails, Ends, Crashes, OpenFails, LockTimesOut, Releases, AfterWrite
    <2> QED BY <2>1, <2>2, <2>3, SetUntouched DEF SetInv
  <1>6. ASSUME NEW p \in Procs, OpensLock(p) PROVE SetInv'
    <2>1. dir' # 0 /\ (dir # 0 => dir' = dir)
      BY <1>6 DEF OpensLock, MkdirAll, TypeOK
    <2>2. \A q \in Procs : q # p => pc'[q] = pc[q] /\ inode'[q] = inode[q]
      BY <1>6 DEF OpensLock, TypeOK
    <2>3. pc'[p] = "wait" /\ inode'[p] = dir'
      BY <1>6 DEF OpensLock, TypeOK
    <2> QED BY <1>6, <2>1, <2>2, <2>3 DEF OpensLock, SetInv, SetComplete
  <1>7. ASSUME NEW p \in Procs, Acquires(p) PROVE SetInv'
    <2>1. pc[p] = "wait" /\ pc'[p] = "write" /\ (job'[p] = "set" => todo'[p] = Entities)
      BY <1>7 DEF Acquires, TypeOK
    <2>2. \A q \in Procs : q # p => pc'[q] = pc[q] /\ todo'[q] = todo[q]
      BY <1>7 DEF Acquires, TypeOK
    <2>3. UNCHANGED <<dir, shard, inode, job, doc>> BY <1>7 DEF Acquires
    <2> QED BY <2>1, <2>2, <2>3, SetUntouched DEF SetInv
  <1>8. ASSUME NEW p \in Procs, NEW e \in Entities, WritesShard(p, e) PROVE SetInv'
    <2>1. UNCHANGED <<dir, pc, inode, job, doc>>
      BY <1>8 DEF WritesShard, MkdirAll, SetInv
    <2>2. SetComplete'
      <3> SUFFICES ASSUME NEW q \in Procs, pc[q] = "write", job[q] = "set",
                          NEW f \in Entities, f \notin todo'[q]
                   PROVE  shard'[f] = doc[q].gen
        BY <2>1 DEF SetComplete
      <3>1. q = p BY <1>8, OneWriter DEF WritesShard
      <3>2. shard'[f] = IF f = e THEN doc[p].gen ELSE shard[f]
        BY <1>8 DEF WritesShard, TypeOK
      <3>3. f = e \/ f \notin todo[p] BY <1>8, <3>1 DEF WritesShard, TypeOK
      <3> QED BY <3>1, <3>2, <3>3 DEF SetInv, SetComplete
    <2> QED BY <2>1, <2>2 DEF SetInv
  <1>9. ASSUME NEW p \in Procs, WritesIndex(p) \/ WriteFails(p) PROVE SetInv'
    <2>1. UNCHANGED <<dir, shard, inode, job, doc, todo>>
      BY <1>9 DEF WritesIndex, WriteFails, MkdirAll, SetInv
    <2>2. pc[p] = "write" /\ pc'[p] = "unlock" BY <1>9 DEF WritesIndex, WriteFails, TypeOK
    <2>3. \A q \in Procs : q # p => pc'[q] = pc[q] BY <1>9 DEF WritesIndex, WriteFails, TypeOK
    <2> QED BY <2>1, <2>2, <2>3, SetUntouched DEF SetInv
  <1>10. ASSUME NEW p \in Procs, NEW e \in Entities, Serves(p, e) PROVE SetInv'
    <2>1. UNCHANGED <<dir, shard, inode, pc, job, doc>> BY <1>10 DEF Serves
    <2>2. \A q \in Procs : q # p => todo'[q] = todo[q] BY <1>10 DEF Serves, TypeOK
    <2>3. pc[p] = "serve" BY <1>10 DEF Serves
    <2> QED BY <2>1, <2>2, <2>3, SetUntouched DEF SetInv
  <1>11. ASSUME NEW p \in Procs, Answers(p) \/ OfflineReads(p) \/ OfflineReadsAgain(p) PROVE SetInv'
    <2>1. pc'[p] \in {"end", "memo", "serve"} /\ pc[p] \notin Opened
      BY <1>11 DEF Answers, OfflineReads, OfflineReadsAgain, TypeOK
    <2>2. \A q \in Procs : q # p => pc'[q] = pc[q] /\ todo'[q] = todo[q]
      BY <1>11 DEF Answers, OfflineReads, OfflineReadsAgain, TypeOK
    <2>3. UNCHANGED <<dir, shard, inode, job, doc>>
      BY <1>11 DEF Answers, OfflineReads, OfflineReadsAgain
    <2> QED BY <2>1, <2>2, <2>3, SetUntouched DEF SetInv
  <1>12. ASSUME NEW p \in Procs, Sweeps(p) \/ Trashes(p) PROVE FALSE
    BY <1>12 DEF Sweeps, Trashes, SetInv
  <1> QED
    BY <1>1, <1>2, <1>3, <1>4, <1>5, <1>6, <1>7, <1>8, <1>9, <1>10, <1>11, <1>12 DEF Next, Step

\* With a working flock, and no clear or sweep of the scope, every set is
\* published whole: no writer ever finds another's shard among its own.
THEOREM SetsArePublishedWhole ==
  ASSUME FlockWorks, Commands \cap {"clear", "sweep"} = {}
  PROVE  Spec => []SetComplete
  <1>1. Init => SetInv
    BY DEF Init, SetInv, SetComplete, Opened
  <1>2. TypeOK /\ LockInv /\ SetInv /\ [Next]_vars => SetInv'
    BY SetNext
  <1>3. SetInv => SetComplete BY DEF SetInv
  <1> QED BY <1>1, <1>2, <1>3, LockInvariant, TypeCorrect, PTL DEF Spec

-----------------------------------------------------------------------------
(* The refinement of AtomicRuns.                                            *)

\* What the mapping needs beyond Coherent: a generation that is used has been
\* minted, and no shard is served twice.
Minted(p) ==
  /\ man[p].gen <= minted /\ doc[p].gen <= minted
  /\ ran[p] => man[p].gen # 0
  /\ pc[p] = "stage0" => doc[p].gen # 0
  /\ pc[p] = "idle" => cmd[p] = "none" /\ man[p].gen = 0 /\ ~ran[p]

ServedOnce(p) ==
  /\ (\/ pc[p] = "offline"
      \/ pc[p] \in {"open", "wait", "write", "unlock"} /\ job[p] # "memo") =>
       view[p] = [e \in Entities |-> 0]
  /\ pc[p] = "serve" => \A e \in todo[p] : view[p][e] = 0

RunInv ==
  /\ index.gen <= minted
  /\ \A p \in Procs : Minted(p) /\ ServedOnce(p)

-----------------------------------------------------------------------------
LEMMA RunInit == Init => RunInv
  BY DEF Init, RunInv, Minted, ServedOnce, NoIndex

\* A step that leaves a process's memory alone, and mints no less.
LEMMA RunOther ==
  ASSUME TypeOK, RunInv, NEW q \in Procs, minted' \in Nat, minted <= minted',
         pc'[q] = pc[q], cmd'[q] = cmd[q], man'[q] = man[q], ran'[q] = ran[q],
         job'[q] = job[q], doc'[q] = doc[q], todo'[q] = todo[q], view'[q] = view[q]
  PROVE  Minted(q)' /\ ServedOnce(q)'
  <1>1. minted \in Nat /\ man[q].gen \in Nat /\ doc[q].gen \in Nat
    BY BoundAssumption DEF TypeOK, Index, Gens
  <1> QED BY <1>1 DEF RunInv, Minted, ServedOnce

\* A step of p leaves the memory of the others alone.
LEMMA StepIsLocalToo ==
  ASSUME TypeOK, NEW p \in Procs, Start(p) \/ Step(p) \/ Crashes(p),
         NEW q \in Procs, q # p
  PROVE  job'[q] = job[q] /\ doc'[q] = doc[q] /\ todo'[q] = todo[q] /\ now'[q] = now[q]
  <1>1. CASE Start(p)
    BY <1>1 DEF Start, TypeOK
  <1>2. CASE DiscoveryFails(p) \/ Ends(p) \/ Crashes(p)
    BY <1>2 DEF DiscoveryFails, Ends, Crashes, Exit, TypeOK
  <1>3. CASE Resolve(p) \/ ProbeTimesOut(p) \/ ProbeConfirms(p) \/ ProbeDiffers(p) \/ TouchReads(p)
    BY <1>3 DEF Resolve, Adopt, ProbeTimesOut, ProbeConfirms, ProbeDiffers, TouchReads, TypeOK
  <1>4. CASE DiscoveryStarts(p) \/ DiscoveryEnds(p)
    BY <1>4 DEF DiscoveryStarts, DiscoveryEnds, TypeOK
  <1>5. CASE OpensLock(p) \/ Acquires(p) \/ WritesIndex(p) \/ WriteFails(p)
    BY <1>5 DEF OpensLock, Acquires, WritesIndex, WriteFails, TypeOK
  <1>6. CASE OpenFails(p) \/ LockTimesOut(p) \/ Releases(p)
    BY <1>6 DEF OpenFails, LockTimesOut, Releases, AfterWrite, TypeOK
  <1>7. CASE \E e \in Entities : WritesShard(p, e) \/ Serves(p, e)
    BY <1>7 DEF WritesShard, Serves, TypeOK
  <1>8. CASE Answers(p) \/ MemoReads(p) \/ Sweeps(p) \/ Trashes(p)
    BY <1>8 DEF Answers, MemoReads, Sweeps, Trashes, TypeOK
  <1>9. CASE OfflineReads(p) \/ OfflineReadsAgain(p)
    BY <1>9 DEF OfflineReads, OfflineReadsAgain, TypeOK
  <1> QED BY <1>1, <1>2, <1>3, <1>4, <1>5, <1>6, <1>7, <1>8, <1>9 DEF Step

\* The index and the minted generations after a step.
LEMMA IndexIsMinted ==
  ASSUME TypeOK, RunInv, [Next]_vars
  PROVE  minted' \in Nat /\ minted <= minted' /\ index'.gen <= minted'
  <1> USE BoundAssumption DEF TypeOK, Gens, Index, RunInv, server, disk
  <1>1. CASE Tick \/ Deploy \/ UNCHANGED vars BY <1>1 DEF Tick, Deploy, vars
  <1>2. ASSUME NEW p \in Procs, DiscoveryStarts(p) PROVE minted' = minted + 1 /\ index' = index
    BY <1>2 DEF DiscoveryStarts
  <1>3. ASSUME NEW p \in Procs, WritesIndex(p) PROVE minted' = minted /\ index'.gen <= minted
    <2>1. minted' = minted /\ index' = doc[p] BY <1>3 DEF WritesIndex
    <2> QED BY <2>1 DEF Minted
  <1>4. ASSUME NEW p \in Procs, Trashes(p) PROVE minted' = minted /\ index'.gen = 0
    BY <1>4 DEF Trashes, NoIndex
  <1>5. ASSUME NEW p \in Procs, Start(p) \/ Step(p) \/ Crashes(p),
               ~DiscoveryStarts(p), ~WritesIndex(p), ~Trashes(p)
        PROVE minted' = minted /\ index' = index
    BY <1>5 DEF Start, Step, Crashes, Resolve, ProbeTimesOut, ProbeConfirms, ProbeDiffers, TouchReads,
       DiscoveryEnds, DiscoveryFails, OpensLock, OpenFails, AfterWrite, Acquires, LockTimesOut,
       WritesShard, WriteFails, Releases, Serves, Answers, Ends, MemoReads, OfflineReads,
       OfflineReadsAgain, Sweeps
  <1>6. ASSUME NEW p \in Procs, Start(p) \/ Step(p) \/ Crashes(p)
        PROVE minted' \in Nat /\ minted <= minted' /\ index'.gen <= minted'
    <2>1. minted \in Nat /\ index.gen \in Nat /\ index.gen <= minted OBVIOUS
    <2> HIDE DEF TypeOK, Gens, Index, RunInv, server, disk
    <2>2. CASE DiscoveryStarts(p) BY <1>2, <2>1, <2>2
    <2>3. CASE WritesIndex(p) BY <1>3, <2>1, <2>3
    <2>4. CASE Trashes(p) BY <1>4, <2>1, <2>4
    <2> QED BY <1>5, <1>6, <2>1, <2>2, <2>3, <2>4
  <1> QED BY <1>1, <1>6 DEF Next

\* A step of p keeps p's part of the invariant.
LEMMA RunStep ==
  ASSUME TypeOK, RunInv, NEW p \in Procs, Coherent(p), Start(p) \/ Step(p) \/ Crashes(p)
  PROVE  Minted(p)' /\ ServedOnce(p)'
  <1>0. Minted(p) /\ ServedOnce(p) /\ index.gen <= minted BY DEF RunInv
  <1>t. /\ minted \in Nat /\ man[p].gen \in Nat /\ doc[p].gen \in Nat /\ index.gen \in Nat
    BY BoundAssumption DEF TypeOK, Index, Gens
  <1> USE <1>0, <1>t DEF Goto
  <1>1. CASE Start(p)
    BY <1>1, CommandsAssumption DEF Start, TypeOK, Minted, ServedOnce, Coherent, Early, AllCommands, Online
  <1>2. CASE DiscoveryFails(p) \/ Ends(p) \/ Crashes(p)
    BY <1>2 DEF DiscoveryFails, Ends, Crashes, Exit, TypeOK, Minted, ServedOnce, NoIndex
  <1>3. CASE Resolve(p)
    <2>1. UNCHANGED <<minted, doc, ran, cmd, job, view>> BY <1>3 DEF Resolve
    <2>2. view[p] = [e \in Entities |-> 0] BY <1>3 DEF Resolve, Coherent, Early
    <2>3. man'[p].gen <= minted
      BY <1>3 DEF Resolve, Adopt, TypeOK, Minted
    <2>4. ran[p] => man'[p].gen # 0
      BY <1>3 DEF Resolve, Adopt, TypeOK, Minted, Missing
    <2>5. pc'[p] \in {"serve", "probe", "discover"} BY <1>3 DEF Resolve, TypeOK
    <2>6. todo'[p] \subseteq Entities BY <1>3 DEF Resolve, Adopt, TypeOK
    <2> QED BY <2>1, <2>2, <2>3, <2>4, <2>5, <2>6 DEF Minted, ServedOnce
  <1>4. CASE ProbeTimesOut(p) \/ ProbeConfirms(p) \/ ProbeDiffers(p)
    BY <1>4 DEF ProbeTimesOut, ProbeConfirms, ProbeDiffers, TypeOK, Minted, ServedOnce, Coherent, Early
  <1>5. CASE TouchReads(p)
    <2>1. UNCHANGED <<minted, man, ran, cmd, todo, view>> BY <1>5 DEF TouchReads
    <2>2. view[p] = [e \in Entities |-> 0] BY <1>5 DEF TouchReads, Coherent, Early
    <2>3. doc'[p].gen \in {doc[p].gen, index.gen} BY <1>5 DEF TouchReads, TypeOK, Index
    <2>4. pc'[p] \in {"serve", "open"} BY <1>5 DEF TouchReads, TypeOK
    <2> QED BY <2>1, <2>2, <2>3, <2>4 DEF Minted, ServedOnce, TypeOK
  <1>6. CASE DiscoveryStarts(p)
    <2>1. UNCHANGED <<man, ran, cmd, job, todo, view>> /\ minted' = minted + 1
      BY <1>6 DEF DiscoveryStarts
    <2>2. [NoIndex EXCEPT !.gen = minted', !.conf = clock].gen = minted'
      BY NoIndexType DEF Index
    <2>3. doc'[p].gen = minted' BY <1>6, <2>2 DEF DiscoveryStarts, TypeOK
    <2>4. pc'[p] = "stage0" BY <1>6 DEF DiscoveryStarts, TypeOK
    <2> QED BY <2>1, <2>3, <2>4 DEF Minted, ServedOnce
  <1>7. CASE DiscoveryEnds(p)
    <2>1. UNCHANGED <<minted, cmd, view>> BY <1>7 DEF DiscoveryEnds
    <2>2. view[p] = [e \in Entities |-> 0] BY <1>7 DEF DiscoveryEnds, Coherent, Early
    <2>3. [doc[p] EXCEPT !.topo = topo].gen = doc[p].gen BY DEF TypeOK, Index
    <2>4. man'[p].gen = doc[p].gen BY <1>7, <2>3 DEF DiscoveryEnds, TypeOK
    <2>5. doc'[p].gen = doc[p].gen BY <1>7, <2>3 DEF DiscoveryEnds, TypeOK
    <2>6. todo'[p] = Entities BY <1>7 DEF DiscoveryEnds, TypeOK
    <2>7. pc[p] = "stage0" /\ pc'[p] \in {"open", "serve"} BY <1>7 DEF DiscoveryEnds, TypeOK
    <2> QED BY <2>1, <2>2, <2>4, <2>5, <2>6, <2>7 DEF Minted, ServedOnce
  <1>8. CASE OpensLock(p) \/ WritesIndex(p) \/ WriteFails(p)
    BY <1>8 DEF OpensLock, WritesIndex, WriteFails, TypeOK, Minted, ServedOnce
  <1>9. CASE Acquires(p)
    BY <1>9 DEF Acquires, TypeOK, Minted, ServedOnce
  <1>10. CASE OpenFails(p) \/ LockTimesOut(p) \/ Releases(p)
    BY <1>10 DEF OpenFails, LockTimesOut, Releases, AfterWrite, TypeOK, Minted, ServedOnce, NoIndex
  <1>11. ASSUME NEW e \in Entities, WritesShard(p, e) PROVE Minted(p)' /\ ServedOnce(p)'
    BY <1>11 DEF WritesShard, TypeOK, Minted, ServedOnce
  <1>12. ASSUME NEW e \in Entities, Serves(p, e) PROVE Minted(p)' /\ ServedOnce(p)'
    <2>1. /\ UNCHANGED <<minted, man, doc, ran, cmd, job, pc>>
          /\ pc[p] = "serve"
          /\ todo'[p] = todo[p] \ {e}
      BY <1>12 DEF Serves, TypeOK
    <2>2. \A f \in Entities \ {e} : view'[p][f] = view[p][f]
      BY <1>12 DEF Serves, TypeOK
    <2> QED BY <2>1, <2>2 DEF Minted, ServedOnce, TypeOK
  <1>13. CASE Answers(p) \/ Sweeps(p) \/ Trashes(p)
    <2>1. UNCHANGED <<minted, man, doc, ran, cmd, job, todo, view>>
      BY <1>13 DEF Answers, Sweeps, Trashes
    <2>2. pc'[p] \in {"end", "memo", "trash"}
      BY <1>13 DEF Answers, Sweeps, Trashes, TypeOK
    <2> QED BY <2>1, <2>2 DEF Minted, ServedOnce
  <1>14. CASE MemoReads(p)
    <2>1. UNCHANGED <<minted, man, ran, cmd, view>> BY <1>14 DEF MemoReads
    <2>2. doc'[p].gen \in {doc[p].gen, index.gen} BY <1>14 DEF MemoReads, TypeOK, Index
    <2>3. pc'[p] = "end" \/ (pc'[p] = "open" /\ job'[p] = "memo")
      BY <1>14 DEF MemoReads, TypeOK
    <2> QED BY <2>1, <2>2, <2>3 DEF Minted, ServedOnce
  <1>15. CASE OfflineReads(p)
    <2>1. UNCHANGED <<minted, doc, ran, cmd, job, view>> BY <1>15 DEF OfflineReads
    <2>2. pc[p] = "offline" /\ pc'[p] \in {"serve", "end"} BY <1>15 DEF OfflineReads, TypeOK
    <2>3. man'[p].gen <= minted BY <1>15 DEF OfflineReads, TypeOK, Minted
    <2>4. ran[p] => man'[p].gen # 0 BY <1>15 DEF OfflineReads, TypeOK, Minted, Missing
    <2>5. view[p] = [e \in Entities |-> 0] BY <1>0, <2>2 DEF ServedOnce
    <2>6. todo'[p] \subseteq Entities BY <1>15 DEF OfflineReads, TypeOK
    <2> QED BY <2>1, <2>2, <2>3, <2>4, <2>5, <2>6 DEF Minted, ServedOnce
  <1>16. CASE OfflineReadsAgain(p)
    BY <1>16 DEF OfflineReadsAgain, TypeOK, Minted, ServedOnce
  <1> QED BY <1>1, <1>2, <1>3, <1>4, <1>5, <1>6, <1>7, <1>8, <1>9, <1>10, <1>11, <1>12,
             <1>13, <1>14, <1>15, <1>16 DEF Step

LEMMA RunNext == TypeOK /\ ReadersCoherent /\ RunInv /\ [Next]_vars => RunInv'
  <1> SUFFICES ASSUME TypeOK, ReadersCoherent, RunInv, [Next]_vars PROVE RunInv' OBVIOUS
  <1>1. minted' \in Nat /\ minted <= minted' /\ index'.gen <= minted' BY IndexIsMinted
  <1>2. ASSUME NEW q \in Procs PROVE Minted(q)' /\ ServedOnce(q)'
    <2>1. CASE Tick \/ Deploy \/ UNCHANGED vars
      BY <1>1, <2>1, RunOther DEF Tick, Deploy, vars, proc
    <2>2. ASSUME NEW p \in Procs, Start(p) \/ Step(p) \/ Crashes(p)
          PROVE Minted(q)' /\ ServedOnce(q)'
      <3>1. CASE q = p BY <2>2, <3>1, RunStep DEF ReadersCoherent
      <3>2. CASE q # p BY <1>1, <2>2, <3>2, StepIsLocal, StepIsLocalToo, RunOther
      <3> QED BY <3>1, <3>2
    <2> QED BY <2>1, <2>2 DEF Next
  <1> QED BY <1>1, <1>2 DEF RunInv

\* Where the abstraction's readers stand.
RunBase(p) == IF cmd[p] \in Online THEN man[p].gen ELSE 0
RunView(p) == IF cmd[p] \in Online THEN view[p] ELSE [e \in Entities |-> 0]

\* A step that moves no reader.
LEMMA ReaderStutters ==
  ASSUME TypeOK, NEW q \in Procs, cmd'[q] = cmd[q], man'[q] = man[q], view'[q] = view[q]
  PROVE  RunBase(q)' = RunBase(q) /\ RunView(q)' = RunView(q)
  BY DEF RunBase, RunView

\* What a step of p is to its reader: it settles, is given a schema, leaves, or
\* does nothing; and no run is added, but by the start of a discovery.
LEMMA ReaderStep ==
  ASSUME TypeOK, RunInv, NEW p \in Procs, Coherent(p), Start(p) \/ Step(p) \/ Crashes(p),
         ~DiscoveryStarts(p)
  PROVE  /\ minted' = minted
         /\ \/ RunBase(p)' = RunBase(p) /\ RunView(p)' = RunView(p)
            \/ /\ RunView(p) = [e \in Entities |-> 0] /\ RunView(p)' = RunView(p)
               /\ RunBase(p)' \in 1 .. minted
            \/ /\ RunBase(p) # 0 /\ RunBase(p)' = RunBase(p)
               /\ \E e \in Entities : RunView(p)' = [RunView(p) EXCEPT ![e] = RunBase(p)]
            \/ RunBase(p)' = 0 /\ RunView(p)' = [e \in Entities |-> 0]
  <1>0. Minted(p) /\ ServedOnce(p) /\ index.gen <= minted BY DEF RunInv
  <1>t. /\ minted \in Nat /\ man[p].gen \in Nat /\ doc[p].gen \in Nat /\ index.gen \in Nat
    BY BoundAssumption DEF TypeOK, Index, Gens
  <1> USE <1>0, <1>t DEF Goto, RunBase, RunView
  <1>1. CASE Start(p)
    BY <1>1, CommandsAssumption DEF Start, TypeOK, Minted, Coherent, Early, Online, AllCommands
  <1>2. CASE DiscoveryFails(p) \/ Ends(p) \/ Crashes(p)
    BY <1>2 DEF DiscoveryFails, Ends, Crashes, Exit, TypeOK, Online
  <1>3. CASE Resolve(p)
    <2>1. UNCHANGED <<minted, cmd, view>> BY <1>3 DEF Resolve
    <2>2. view[p] = [e \in Entities |-> 0] BY <1>3 DEF Resolve, Coherent, Early
    <2>3. man'[p] = man[p] \/ man'[p].gen \in 1 .. minted
      BY <1>3 DEF Resolve, Adopt, TypeOK, Missing
    <2> QED BY <2>1, <2>2, <2>3
  <1>4. CASE DiscoveryEnds(p)
    <2>1. UNCHANGED <<minted, cmd, view>> BY <1>4 DEF DiscoveryEnds
    <2>2. view[p] = [e \in Entities |-> 0] BY <1>4 DEF DiscoveryEnds, Coherent, Early
    <2>3. man'[p].gen = doc[p].gen BY <1>4 DEF DiscoveryEnds, TypeOK, Index
    <2>4. doc[p].gen \in 1 .. minted BY <1>4 DEF DiscoveryEnds, Minted
    <2> QED BY <2>1, <2>2, <2>3, <2>4
  <1>5. ASSUME NEW e \in Entities, Serves(p, e)
        PROVE  /\ minted' = minted
               /\ \/ RunBase(p)' = RunBase(p) /\ RunView(p)' = RunView(p)
                  \/ /\ RunBase(p) # 0 /\ RunBase(p)' = RunBase(p)
                     /\ RunView(p)' = [RunView(p) EXCEPT ![e] = RunBase(p)]
    <2> DEFINE v == IF ran[p] THEN man[p].gen ELSE ReadShard(ref[p], e)
    <2>1. UNCHANGED <<minted, cmd, man>> /\ pc[p] = "serve" /\ e \in todo[p]
      BY <1>5 DEF Serves
    <2>2. view'[p] = [view[p] EXCEPT ![e] = v] BY <1>5 DEF Serves, TypeOK
    <2>3. view[p] \in [Entities -> Gens] /\ view[p][e] = 0
      BY <2>1 DEF TypeOK, ServedOnce
    <2>4. CASE cmd[p] \notin Online BY <2>1, <2>4
    <2>5. CASE cmd[p] \in Online
      <3>1. v \in {0, man[p].gen}
        BY <2>1, <2>5 DEF Coherent, Settled, ReadShard
      <3>2. man[p].gen # 0 BY <2>1, <2>5 DEF Coherent, Settled, Minted, TypeOK
      <3>3. CASE v = 0
        <4>1. view'[p] = view[p] BY <2>2, <2>3, <3>3
        <4> QED BY <2>1, <4>1
      <3>4. CASE v = man[p].gen
        BY <2>1, <2>2, <2>5, <3>2, <3>4
      <3> QED BY <3>1, <3>3, <3>4
    <2> QED BY <2>4, <2>5
  <1>6. CASE OfflineReads(p)
    BY <1>6 DEF OfflineReads, Coherent
  <1>7. CASE ProbeTimesOut(p) \/ ProbeConfirms(p) \/ ProbeDiffers(p) \/ TouchReads(p)
    BY <1>7 DEF ProbeTimesOut, ProbeConfirms, ProbeDiffers, TouchReads
  <1>8. CASE OpensLock(p) \/ Acquires(p) \/ WritesIndex(p) \/ WriteFails(p)
    BY <1>8 DEF OpensLock, Acquires, WritesIndex, WriteFails
  <1>9. CASE OpenFails(p) \/ LockTimesOut(p) \/ Releases(p)
    BY <1>9 DEF OpenFails, LockTimesOut, Releases, AfterWrite
  <1>10. CASE \E e \in Entities : WritesShard(p, e)
    BY <1>10 DEF WritesShard
  <1>11. CASE Answers(p) \/ MemoReads(p) \/ Sweeps(p) \/ Trashes(p) \/ OfflineReadsAgain(p)
    BY <1>11 DEF Answers, MemoReads, Sweeps, Trashes, OfflineReadsAgain
  <1> QED BY <1>1, <1>2, <1>3, <1>4, <1>5, <1>6, <1>7, <1>8, <1>9, <1>10, <1>11 DEF Step

\* The abstract variables.
Bases == [p \in Procs |-> RunBase(p)]
Views == [p \in Procs |-> RunView(p)]

LEMMA RunsNext ==
  TypeOK /\ ReadersCoherent /\ RunInv /\ [Next]_vars => [Runs!Next]_<<minted, Bases, Views>>
  <1> SUFFICES ASSUME TypeOK, ReadersCoherent, RunInv, [Next]_vars
               PROVE  [Runs!Next]_<<minted, Bases, Views>>
    OBVIOUS
  <1>1. CASE Tick \/ Deploy \/ UNCHANGED vars
    BY <1>1 DEF Tick, Deploy, vars, proc, Bases, Views, RunBase, RunView
  <1>2. ASSUME NEW p \in Procs, DiscoveryStarts(p) PROVE Runs!Next
    <2>1. minted' = minted + 1 /\ UNCHANGED <<cmd, man, view>> BY <1>2 DEF DiscoveryStarts
    <2> QED BY <2>1 DEF Runs!Next, Runs!Discover
  <1>3. ASSUME NEW p \in Procs, Start(p) \/ Step(p) \/ Crashes(p), ~DiscoveryStarts(p)
        PROVE [Runs!Next]_<<minted, Bases, Views>>
    <2>1. \A q \in Procs \ {p} : RunBase(q)' = RunBase(q) /\ RunView(q)' = RunView(q)
      BY <1>3, StepIsLocal, ReaderStutters
    <2>2. /\ Bases' = [Bases EXCEPT ![p] = RunBase(p)']
          /\ Views' = [Views EXCEPT ![p] = RunView(p)']
      BY <2>1 DEF Bases, Views
    <2>3. Bases[p] = RunBase(p) /\ Views[p] = RunView(p) BY DEF Bases, Views
    <2>4. minted' = minted BY <1>3, ReaderStep DEF ReadersCoherent
    <2>5. CASE RunBase(p)' = RunBase(p) /\ RunView(p)' = RunView(p)
      BY <2>1, <2>4, <2>5 DEF Bases, Views
    <2>6. CASE /\ RunView(p) = [e \in Entities |-> 0] /\ RunView(p)' = RunView(p)
               /\ RunBase(p)' \in 1 .. minted
      <3>1. Views' = Views BY <2>1, <2>6 DEF Views
      <3> QED BY <2>2, <2>3, <2>4, <2>6, <3>1 DEF Bases, Views, RunBase, RunView, Runs!Next, Runs!Settle, Runs!Blank
    <2>7. CASE /\ RunBase(p) # 0 /\ RunBase(p)' = RunBase(p)
               /\ \E e \in Entities : RunView(p)' = [RunView(p) EXCEPT ![e] = RunBase(p)]
      <3>1. Bases' = Bases BY <2>1, <2>7 DEF Bases
      <3>2. PICK e \in Entities : RunView(p)' = [RunView(p) EXCEPT ![e] = RunBase(p)]
        BY <2>7
      <3>3. Views' = [Views EXCEPT ![p][e] = Bases[p]] BY <2>2, <2>3, <3>2
      <3>4. Bases[p] # 0 BY <2>3, <2>7
      <3>5. Runs!Give(p, e)
        BY <2>4, <3>1, <3>3, <3>4 DEF Bases, Views, RunBase, RunView, Runs!Give
      <3> QED BY <3>5 DEF Runs!Next
    <2>8. CASE RunBase(p)' = 0 /\ RunView(p)' = [e \in Entities |-> 0]
      BY <2>2, <2>4, <2>8 DEF Bases, Views, RunBase, RunView, Runs!Next, Runs!Leave, Runs!Blank
    <2> QED BY <1>3, <2>5, <2>6, <2>7, <2>8, ReaderStep DEF ReadersCoherent
  <1> QED BY <1>1, <1>2, <1>3 DEF Next, Step

LEMMA RunsInit == Init => Runs!Init
  BY DEF Init, Runs!Init, Runs!Blank, Online

LEMMA RunInvariant == Spec => [](TypeOK /\ ReadersCoherent /\ RunInv)
  <1>1. Init => ReadersCoherent
    BY DEF Init, ReadersCoherent, Coherent, Early, Settled, Online
  <1> QED BY <1>1, CoherentNext, RunInit, RunNext, TypeCorrect, PTL DEF Spec

\* The cache implements AtomicRuns: with any number of processes, crashing
\* anywhere, a command is given the schemas of one discovery run, or none.
THEOREM ImplementsRuns == Spec => ImplementsAtomicRuns
  <1>1. <<minted, Bases, Views>> = <<minted,
           [p \in Procs |-> IF cmd[p] \in Online THEN man[p].gen ELSE 0],
           [p \in Procs |-> IF cmd[p] \in Online THEN view[p] ELSE [e \in Entities |-> 0]]>>
    BY DEF Bases, Views, RunBase, RunView
  <1>2. TypeOK /\ ReadersCoherent /\ RunInv /\ [Next]_vars
        => [Runs!Next]_<<minted,
             [p \in Procs |-> IF cmd[p] \in Online THEN man[p].gen ELSE 0],
             [p \in Procs |-> IF cmd[p] \in Online THEN view[p] ELSE [e \in Entities |-> 0]]>>
    BY RunsNext DEF Bases, Views, RunBase, RunView
  <1> QED BY <1>2, RunsInit, RunInvariant, PTL DEF Spec, ImplementsAtomicRuns, Runs!Spec


-----------------------------------------------------------------------------
(* How old an answer may be.  Of two processes, one that is about to touch  *)
(* the index has the other alone to look out for: what that one has written *)
(* or is about to write is no older than what the probe confirmed.  Topo-   *)
(* logy hashes only grow where the server never goes back.                  *)

\* The server had the topology h at the instant n or later.
Since(h, n) == \E t \in n .. clock : h \in seen[t]

\* A process has a document to write: during stage 0 it names no topology yet.
Drafted(p) == pc[p] # "stage0" /\ ~Missing(doc[p])

\* Where a command knows what it answers from.
Answering == {"probe", "touch", "open", "wait", "write", "unlock", "serve", "memo", "end"}

\* What a process knows is of the past.
Dated(p) ==
  /\ now[p] <= clock
  /\ pc[p] = "stage0" => doc[p].conf <= clock
  /\ Drafted(p) => doc[p].topo <= topo /\ Since(doc[p].topo, doc[p].conf)
  /\ pc[p] = "probe" => man[p].topo <= topo
  /\ pc[p] \in {"offline", "sweep", "trash"} => cmd[p] \notin Online

Bounded(p) ==
  cmd[p] \in Online /\ pc[p] \in Answering =>
    \E t \in 0 .. clock : now[p] - t < HardMax /\ man[p].topo \in seen[t]

IndexDated == ~Missing(index) => index.topo <= topo /\ Since(index.topo, index.conf)

\* The index is no older than what a process probes with, nor, once the probe has
\* confirmed that, than the command.
Confirms(p) ==
  ~Missing(index) =>
    /\ pc[p] = "probe" => man[p].topo <= index.topo
    /\ pc[p] = "touch" => Since(index.topo, now[p])

\* Nor is what another process is about to write.
Clear(p, q) ==
  Drafted(q) =>
    /\ pc[p] \in {"idle", "resolve"} /\ ~Missing(index) => index.topo <= doc[q].topo
    /\ pc[p] = "probe" => man[p].topo <= doc[q].topo
    /\ pc[p] = "touch" => Since(doc[q].topo, now[p])

FreshInv ==
  /\ topo \in seen[clock] /\ IndexDated
  /\ \A p \in Procs : Dated(p) /\ Bounded(p) /\ Confirms(p)
  /\ \A p, q \in Procs : p # q => Clear(p, q)

Two == \A p, q, r \in Procs : p = q \/ p = r \/ q = r

\* The numbers a step compares.
LEMMA Dates ==
  ASSUME TypeOK
  PROVE  /\ clock \in Nat /\ topo \in Nat /\ index.conf \in Nat /\ index.topo \in Nat
         /\ \A p \in Procs : /\ now[p] \in Nat /\ doc[p].conf \in Nat
                             /\ doc[p].topo \in Nat /\ man[p].topo \in Nat
  <1>1. \A m \in Index : m.conf \in 0 .. MaxClock /\ m.topo \in Topos BY DEF Index
  <1>2. Topos \subseteq Nat /\ 0 .. MaxClock \subseteq Nat
    BY ToposAssumption, BoundAssumption
  <1>3. \A m \in Index : m.conf \in Nat /\ m.topo \in Nat BY <1>1, <1>2
  <1> QED BY <1>2, <1>3 DEF TypeOK

LEMMA FreshInit == Init => FreshInv
  <1> SUFFICES ASSUME Init PROVE FreshInv OBVIOUS
  <1>1. clock = 0 /\ topo \in Nat /\ seen[0] = {topo}
    BY ToposAssumption, BoundAssumption DEF Init
  <1>2. \A p \in Procs : pc[p] = "idle" /\ now[p] = 0 /\ Missing(doc[p])
    BY NoIndexType DEF Init
  <1>3. ~Missing(index) => index.topo = topo /\ index.conf = 0
    BY NoIndexType DEF Init
  <1>4. 0 \in 0 .. 0 OBVIOUS
  <1> QED
    BY <1>1, <1>2, <1>3, <1>4
       DEF FreshInv, IndexDated, Since, Dated, Drafted, Bounded, Answering, Confirms, Clear

\* What the server had it will have had, and it does not go back.
LEMMA FreshServer ==
  ASSUME ~Rollbacks, TypeOK, FreshInv, Tick \/ Deploy
  PROVE  FreshInv'
  <1>1. UNCHANGED <<index, pc, cmd, now, man, doc>> BY DEF Tick, Deploy, disk, proc
  <1>t. /\ clock \in Nat /\ topo \in Nat /\ topo \in Topos /\ clock \in 0 .. MaxClock
        /\ MaxClock \in Nat /\ seen \in [0 .. MaxClock -> SUBSET Topos] /\ topo \in seen[clock]
    BY ToposAssumption, BoundAssumption DEF TypeOK, FreshInv
  <1>2. /\ clock' \in Nat /\ clock <= clock' /\ topo' \in Nat /\ topo <= topo'
        /\ \A t \in 0 .. clock : seen[t] \subseteq seen'[t]
        /\ topo' \in seen'[clock']
    <2>1. CASE Tick
      <3>1. /\ clock' = clock + 1 /\ topo' = topo /\ clock + 1 \in 0 .. MaxClock
            /\ seen' = [seen EXCEPT ![clock + 1] = {topo}]
        BY <1>t, <2>1 DEF Tick
      <3>2. seen'[clock + 1] = {topo} /\ \A t \in 0 .. clock : seen'[t] = seen[t]
        BY <1>t, <3>1
      <3> QED BY <1>t, <3>1, <3>2
    <2>2. CASE Deploy
      <3>1. /\ clock' = clock /\ topo' \in Topos /\ topo' > topo
            /\ seen' = [seen EXCEPT ![clock] = @ \cup {topo'}]
        BY <2>2 DEF Deploy
      <3>2. \A t \in 0 .. clock : seen[t] \subseteq seen'[t] BY <1>t, <3>1
      <3> QED BY <1>t, <3>1, <3>2, ToposAssumption
    <2> QED BY <2>1, <2>2
  <1>5. ASSUME NEW h, NEW n \in Nat, Since(h, n)
        PROVE  \E t \in n .. clock' : h \in seen'[t]
    BY <1>t, <1>2, <1>5 DEF Since
  <1>6. /\ index.conf \in Nat /\ index.topo \in Nat
        /\ \A p \in Procs : /\ now[p] \in Nat /\ doc[p].conf \in Nat
                            /\ doc[p].topo \in Nat /\ man[p].topo \in Nat
    BY Dates
  <1>7. IndexDated' BY <1>t, <1>1, <1>2, <1>5, <1>6 DEF FreshInv, IndexDated, Since
  <1>8. ASSUME NEW p \in Procs PROVE Dated(p)' /\ Bounded(p)' /\ Confirms(p)'
    <2>1. Dated(p) /\ Bounded(p) /\ Confirms(p) BY DEF FreshInv
    <2>2. now[p]' <= clock' /\ (pc'[p] = "stage0" => doc'[p].conf <= clock')
      BY <1>t, <1>1, <1>2, <1>6, <2>1 DEF Dated
    <2>3. pc'[p] = "probe" => man'[p].topo <= topo'
      BY <1>t, <1>1, <1>2, <1>6, <2>1 DEF Dated
    <2>4. Drafted(p)' => doc'[p].topo <= topo' /\ Since(doc[p].topo, doc[p].conf)'
      <3>1. Drafted(p)' <=> Drafted(p) BY <1>1 DEF Drafted
      <3>2. Drafted(p) => doc'[p].topo <= topo' BY <1>t, <1>1, <1>2, <1>6, <2>1 DEF Dated
      <3>3. Drafted(p) => Since(doc[p].topo, doc[p].conf)'
        BY <1>1, <1>5, <1>6, <2>1 DEF Dated, Since
      <3> QED BY <3>1, <3>2, <3>3
    <2>5. Dated(p)' BY <1>1, <2>1, <2>2, <2>3, <2>4 DEF Dated
    <2>6. Bounded(p)' BY <1>t, <1>1, <1>2, <2>1 DEF Bounded
    <2>7. Confirms(p)' BY <1>1, <1>5, <1>6, <2>1 DEF Confirms, Since
    <2> QED BY <2>5, <2>6, <2>7
  <1>9. ASSUME NEW p \in Procs, NEW q \in Procs, p # q PROVE Clear(p, q)'
    <2>1. Clear(p, q) BY <1>9 DEF FreshInv
    <2> QED BY <1>1, <1>5, <1>6, <2>1 DEF Clear, Drafted, Since
  <1> QED BY <1>2, <1>7, <1>8, <1>9 DEF FreshInv

\* A step of p: what is left to show of it, when there is one other process at most.
LEMMA FreshOne ==
  ASSUME TypeOK, FreshInv, Two, NEW p \in Procs, Start(p) \/ Step(p) \/ Crashes(p),
         IndexDated', Dated(p)', Bounded(p)', Confirms(p)',
         index' = index \/ Missing(index') \/ (index' = doc[p] /\ Drafted(p)),
         \A q \in Procs \ {p} : Clear(p, q)' /\ Clear(q, p)'
  PROVE  FreshInv'
  <1>1. UNCHANGED server
    BY DEF Start, Step, Crashes, Resolve, ProbeTimesOut, ProbeConfirms, ProbeDiffers, TouchReads,
       DiscoveryStarts, DiscoveryEnds, DiscoveryFails, OpensLock, OpenFails, AfterWrite, Acquires,
       LockTimesOut, WritesShard, WritesIndex, WriteFails, Releases, Serves, Answers, Ends,
       MemoReads, OfflineReads, OfflineReadsAgain, Sweeps, Trashes
  <1>2. UNCHANGED <<clock, topo, seen>> BY <1>1 DEF server
  <1>3. ASSUME NEW q \in Procs, q # p PROVE Dated(q)' /\ Bounded(q)' /\ Confirms(q)'
    <2>1. Dated(q) /\ Bounded(q) /\ Confirms(q) /\ Clear(q, p) BY <1>3 DEF FreshInv
    <2>2. /\ pc'[q] = pc[q] /\ cmd'[q] = cmd[q] /\ man'[q] = man[q]
          /\ now'[q] = now[q] /\ doc'[q] = doc[q]
      BY <1>3, StepIsLocal, StepIsLocalToo
    <2>3. Dated(q)' BY <1>2, <2>1, <2>2 DEF Dated, Drafted, Since
    <2>4. Bounded(q)' BY <1>2, <2>1, <2>2 DEF Bounded
    <2>5. Confirms(q)' BY <1>2, <2>1, <2>2 DEF Confirms, Clear, Drafted, Since
    <2> QED BY <2>3, <2>4, <2>5
  <1>4. ASSUME NEW q \in Procs, NEW r \in Procs, q # r PROVE Clear(q, r)'
    <2>1. q = p \/ r = p BY <1>4 DEF Two
    <2> QED BY <1>4, <2>1
  <1> QED BY <1>2, <1>3, <1>4 DEF FreshInv


\* A step of p that reads nothing of the index: p does not come to write it.
LEMMA FreshQuiet ==
  ASSUME TypeOK, FreshInv, Two, NEW p \in Procs, Start(p) \/ Step(p) \/ Crashes(p),
         UNCHANGED server, index' = index \/ Missing(index'),
         Drafted(p)' => Drafted(p) /\ doc'[p] = doc[p],
         pc'[p] = "stage0" => doc'[p].conf <= clock,
         pc'[p] \notin {"idle", "resolve", "probe", "touch"},
         now'[p] \in {0, now[p]},
         pc'[p] \in {"offline", "sweep", "trash"} => cmd'[p] \notin Online,
         Bounded(p)'
  PROVE  FreshInv'
  <1>1. UNCHANGED <<clock, topo, seen>> BY DEF server
  <1>2. Dated(p) BY DEF FreshInv
  <1>3. Dated(p)' BY <1>1, <1>2, Dates DEF Dated, Drafted, Since
  <1>4. IndexDated' BY <1>1 DEF FreshInv, IndexDated, Since
  <1>5. Confirms(p)' BY DEF Confirms
  <1>6. ASSUME NEW q \in Procs \ {p} PROVE Clear(p, q)' /\ Clear(q, p)'
    <2>1. Clear(q, p) BY DEF FreshInv
    <2>2. pc'[q] = pc[q] /\ man'[q] = man[q] /\ now'[q] = now[q]
      BY StepIsLocal, StepIsLocalToo
    <2>3. Clear(q, p)' BY <1>1, <2>1, <2>2 DEF Clear, Since
    <2>4. Clear(p, q)' BY DEF Clear
    <2> QED BY <2>3, <2>4
  <1> QED BY <1>3, <1>4, <1>5, <1>6, FreshOne

\* Most steps are quiet.
LEMMA FreshRest ==
  ASSUME TypeOK, FreshInv, Two, NEW p \in Procs,
         \/ ProbeTimesOut(p) \/ ProbeDiffers(p) \/ DiscoveryFails(p)
         \/ OpensLock(p) \/ OpenFails(p) \/ Acquires(p) \/ LockTimesOut(p)
         \/ \E e \in Entities : WritesShard(p, e) \/ Serves(p, e)
         \/ WriteFails(p) \/ Releases(p) \/ Answers(p) \/ OfflineReads(p) \/ OfflineReadsAgain(p)
         \/ Sweeps(p) \/ Trashes(p) \/ Ends(p) \/ Crashes(p)
  PROVE  FreshInv'
  <1> USE DEF Goto
  <1>0. Step(p) \/ Crashes(p) BY DEF Step
  <1>i. Dated(p) /\ Bounded(p) BY DEF FreshInv
  <1>1. CASE DiscoveryFails(p) \/ Ends(p) \/ Crashes(p)
    <2>1. /\ pc'[p] = "exited" /\ cmd'[p] = "none" /\ now'[p] = 0 /\ doc'[p] = NoIndex
          /\ index' = index /\ UNCHANGED server
      BY <1>1 DEF DiscoveryFails, Ends, Crashes, Exit, TypeOK, disk
    <2>2. Bounded(p)' BY <2>1 DEF Bounded, Online
    <2>3. ~Drafted(p)' BY <2>1, NoIndexType DEF Drafted
    <2> QED BY <1>0, <2>1, <2>2, <2>3, FreshQuiet
  <1>2. CASE \/ OpensLock(p) \/ OpenFails(p) \/ Acquires(p) \/ LockTimesOut(p)
             \/ WriteFails(p) \/ Releases(p)
             \/ \E e \in Entities : WritesShard(p, e) \/ Serves(p, e)
             \/ Answers(p) \/ OfflineReadsAgain(p) \/ ProbeTimesOut(p)
    <2>1. /\ pc[p] \in Answering \ {"touch"}
          /\ pc'[p] \in Answering \ {"probe", "touch"}
          /\ UNCHANGED <<server, cmd, now, man>> /\ index' = index
      BY <1>2 DEF OpensLock, OpenFails, Acquires, LockTimesOut, WriteFails, Releases,
         AfterWrite, WritesShard, Serves, Answers, OfflineReadsAgain, ProbeTimesOut,
         TypeOK, Answering, disk
    <2>2. doc'[p] = doc[p] \/ doc'[p] = NoIndex
      BY <1>2 DEF OpensLock, OpenFails, Acquires, LockTimesOut, WriteFails, Releases,
         AfterWrite, WritesShard, Serves, Answers, OfflineReadsAgain, ProbeTimesOut, TypeOK
    <2>3. Drafted(p)' => Drafted(p) /\ doc'[p] = doc[p]
      BY <2>1, <2>2, NoIndexType DEF Drafted, Answering
    <2>4. Bounded(p)' BY <1>i, <2>1 DEF Bounded, server
    <2> QED BY <1>0, <2>1, <2>3, <2>4, FreshQuiet DEF Answering
  <1>3. CASE ProbeDiffers(p)
    <2>1. /\ pc[p] = "probe" /\ pc'[p] = "discover"
          /\ UNCHANGED <<server, cmd, now, man, doc>> /\ index' = index
      BY <1>3 DEF ProbeDiffers, TypeOK, disk
    <2>2. Bounded(p)' BY <2>1 DEF Bounded, Answering
    <2>3. Drafted(p)' => Drafted(p) /\ doc'[p] = doc[p] BY <2>1 DEF Drafted
    <2> QED BY <1>0, <2>1, <2>2, <2>3, FreshQuiet
  <1>4. CASE OfflineReads(p) \/ Sweeps(p) \/ Trashes(p)
    <2>1. /\ pc[p] \in {"offline", "sweep", "trash"} /\ pc'[p] \in {"end", "serve", "trash"}
          /\ UNCHANGED <<server, cmd, now, doc>>
      BY <1>4 DEF OfflineReads, Sweeps, Trashes, TypeOK
    <2>2. index' = index \/ Missing(index')
      BY <1>4, NoIndexType DEF OfflineReads, Sweeps, Trashes, disk
    <2>3. cmd'[p] \notin Online BY <1>i, <2>1 DEF Dated
    <2>4. Bounded(p)' BY <2>3 DEF Bounded
    <2>5. Drafted(p)' => Drafted(p) /\ doc'[p] = doc[p] BY <2>1 DEF Drafted
    <2> QED BY <1>0, <2>1, <2>2, <2>3, <2>4, <2>5, FreshQuiet
  <1> QED BY <1>1, <1>2, <1>3, <1>4


\* A step of p that neither writes the index nor drafts a document.
LEMMA FreshReads ==
  ASSUME TypeOK, FreshInv, Two, FreshFor <= HardMax, NEW p \in Procs,
         Start(p) \/ Resolve(p) \/ ProbeConfirms(p) \/ DiscoveryStarts(p)
  PROVE  FreshInv'
  <1> USE DEF Goto
  <1>0. Start(p) \/ Step(p) BY DEF Step
  <1>i. Dated(p) /\ Bounded(p) /\ Confirms(p) /\ IndexDated BY DEF FreshInv
  <1>j. topo \in seen[clock] BY DEF FreshInv
  <1>k. \A q \in Procs \ {p} : Clear(p, q) /\ Clear(q, p) BY DEF FreshInv
  <1>s. UNCHANGED <<clock, topo, seen, index>>
    BY DEF Start, Resolve, ProbeConfirms, DiscoveryStarts, server, disk
  <1>l. ASSUME NEW q \in Procs \ {p}
        PROVE  /\ pc'[q] = pc[q] /\ man'[q] = man[q] /\ now'[q] = now[q] /\ doc'[q] = doc[q]
               /\ Drafted(q)' <=> Drafted(q)
    BY <1>0, StepIsLocal, StepIsLocalToo DEF Drafted
  <1>x. IndexDated' BY <1>i, <1>s DEF IndexDated, Since
  <1>1. CASE Start(p)
    <2>1. /\ pc[p] = "idle" /\ now'[p] = clock /\ UNCHANGED <<man, doc>>
          /\ pc'[p] \in {"resolve", "discover", "offline", "trash", "sweep"}
          /\ pc'[p] \in {"offline", "sweep", "trash"} => cmd'[p] \notin Online
      BY <1>1, CommandsAssumption DEF Start, TypeOK, AllCommands, Online
    <2>2. Dated(p)' BY <1>i, <1>s, <2>1, Dates DEF Dated, Drafted, Since
    <2>3. Bounded(p)' BY <2>1 DEF Bounded, Answering
    <2>4. Confirms(p)' BY <2>1 DEF Confirms
    <2>5. ASSUME NEW q \in Procs \ {p} PROVE Clear(p, q)' /\ Clear(q, p)'
      BY <1>k, <1>l, <1>s, <2>1 DEF Clear, Since, Drafted
    <2> QED BY <1>0, <1>s, <1>x, <2>2, <2>3, <2>4, <2>5, FreshOne
  <1>2. CASE Resolve(p)
    <2>1. pc[p] = "resolve" /\ UNCHANGED <<cmd, now, doc>> BY <1>2 DEF Resolve
    <2>2. \/ /\ pc'[p] \in {"serve", "probe"} /\ man'[p] = index /\ ~Missing(index)
             /\ Freshness(index, now[p]) # "expired"
          \/ pc'[p] = "discover"
      BY <1>2 DEF Resolve, Adopt, TypeOK
    <2>3. Dated(p)'
      <3>1. pc'[p] = "probe" => man'[p].topo <= topo BY <1>i, <2>2 DEF IndexDated
      <3> QED BY <1>i, <1>s, <2>1, <2>2, <3>1 DEF Dated, Drafted, Since
    <2>4. Bounded(p)'
      <3>1. CASE pc'[p] = "discover" BY <3>1 DEF Bounded, Answering
      <3>2. CASE man'[p] = index /\ ~Missing(index) /\ Freshness(index, now[p]) # "expired"
        <4>1. now[p] - index.conf < HardMax
          BY <3>2, Dates, TtlAssumption DEF Freshness, Age
        <4>2. PICK t \in index.conf .. clock : index.topo \in seen[t]
          BY <1>i, <3>2 DEF IndexDated, Since
        <4>3. t \in 0 .. clock /\ now[p] - t < HardMax BY <4>1, <4>2, Dates, TtlAssumption
        <4> QED BY <1>s, <2>1, <3>2, <4>2, <4>3 DEF Bounded
      <3> QED BY <2>2, <3>1, <3>2
    <2>5. Confirms(p)' BY <1>s, <2>2, Dates DEF Confirms
    <2>6. ASSUME NEW q \in Procs \ {p} PROVE Clear(p, q)' /\ Clear(q, p)'
      <3>1. Clear(q, p)' BY <1>k, <1>l, <1>s, <2>1, <2>2 DEF Clear, Since, Drafted
      <3>2. Clear(p, q)' BY <1>k, <1>l, <1>s, <2>1, <2>2 DEF Clear
      <3> QED BY <3>1, <3>2
    <2> QED BY <1>0, <1>s, <1>x, <2>3, <2>4, <2>5, <2>6, FreshOne
  <1>3. CASE ProbeConfirms(p)
    <2>1. /\ pc[p] = "probe" /\ pc'[p] = "touch" /\ UNCHANGED <<cmd, now, doc, man>>
          /\ topo = man[p].topo
      BY <1>3 DEF ProbeConfirms, TypeOK
    <2>2. clock \in now[p] .. clock BY <1>i, Dates DEF Dated
    <2>3. Since(topo, now[p]) BY <1>j, <2>2 DEF Since
    <2>4. Dated(p)' BY <1>i, <1>s, <2>1 DEF Dated, Drafted, Since
    <2>5. Bounded(p)' BY <1>i, <1>s, <2>1 DEF Bounded, Answering
    <2>6. ~Missing(index) => index.topo = topo
      BY <1>i, <2>1, Dates DEF Confirms, IndexDated
    <2>7. Confirms(p)' BY <1>s, <2>1, <2>3, <2>6 DEF Confirms, Since
    <2>8. ASSUME NEW q \in Procs \ {p} PROVE Clear(p, q)' /\ Clear(q, p)'
      <3>1. Clear(q, p)' BY <1>k, <1>l, <1>s, <2>1 DEF Clear, Since, Drafted
      <3>2. Dated(q) BY DEF FreshInv
      <3>3. Drafted(q) => doc[q].topo = topo
        BY <1>k, <2>1, <3>2, Dates DEF Clear, Dated
      <3>4. Clear(p, q)' BY <1>l, <1>s, <2>1, <2>3, <3>3 DEF Clear, Since
      <3> QED BY <3>1, <3>4
    <2> QED BY <1>0, <1>s, <1>x, <2>4, <2>5, <2>7, <2>8, FreshOne
  <1>4. CASE DiscoveryStarts(p)
    <2>1. /\ UNCHANGED <<cmd, now, man>> /\ pc'[p] = "stage0"
          /\ doc'[p] = [NoIndex EXCEPT !.gen = minted', !.conf = clock]
      BY <1>4 DEF DiscoveryStarts, TypeOK
    <2>2. doc'[p].conf = clock BY <2>1, NoIndexType DEF Index
    <2>3. Bounded(p)' BY <2>1 DEF Bounded, Answering
    <2>4. ~Drafted(p)' BY <2>1 DEF Drafted
    <2>5. Drafted(p)' => Drafted(p) /\ doc'[p] = doc[p] BY <2>4
    <2>6. UNCHANGED server /\ index' = index BY <1>s DEF server
    <2>7. doc'[p].conf <= clock BY <2>2, Dates
    <2>8. /\ pc'[p] \notin {"idle", "resolve", "probe", "touch"}
          /\ pc'[p] \notin {"offline", "sweep", "trash"}
          /\ now'[p] \in {0, now[p]}
      BY <2>1
    <2> QED BY <1>0, <2>3, <2>5, <2>6, <2>7, <2>8, FreshQuiet
  <1> QED BY <1>1, <1>2, <1>3, <1>4

\* A step of p that drafts a document.
LEMMA FreshDrafts ==
  ASSUME TypeOK, FreshInv, Two, HardMax > 0, NEW p \in Procs,
         TouchReads(p) \/ MemoReads(p) \/ DiscoveryEnds(p)
  PROVE  FreshInv'
  <1> USE DEF Goto
  <1>0. Step(p) BY DEF Step
  <1>i. Dated(p) /\ Bounded(p) /\ Confirms(p) /\ IndexDated BY DEF FreshInv
  <1>j. topo \in seen[clock] BY DEF FreshInv
  <1>k. \A q \in Procs \ {p} : Clear(q, p) /\ Confirms(q) /\ Dated(q) BY DEF FreshInv
  <1>s. UNCHANGED <<clock, topo, seen, index>>
    BY DEF TouchReads, MemoReads, DiscoveryEnds, server, disk
  <1>l. ASSUME NEW q \in Procs \ {p}
        PROVE  pc'[q] = pc[q] /\ man'[q] = man[q] /\ now'[q] = now[q]
    BY <1>0, StepIsLocal, StepIsLocalToo
  <1>x. IndexDated' BY <1>i, <1>s DEF IndexDated, Since
  <1>y. pc'[p] \in {"serve", "open", "end"} /\ UNCHANGED <<cmd, now>>
    BY DEF TouchReads, MemoReads, DiscoveryEnds, TypeOK
  <1>z. Confirms(p)' /\ \A q \in Procs \ {p} : Clear(p, q)' BY <1>y DEF Confirms, Clear
  <1>1. CASE TouchReads(p) \/ MemoReads(p)
    <2>1. UNCHANGED man /\ pc[p] \in {"touch", "memo"}
      BY <1>1 DEF TouchReads, MemoReads
    <2>2. \/ doc'[p] = doc[p]
          \/ /\ ~Missing(index) /\ doc'[p].topo = index.topo
             /\ \/ doc'[p].conf = index.conf
                \/ pc[p] = "touch" /\ doc'[p].conf = now[p]
      BY <1>1 DEF TouchReads, MemoReads, TypeOK, Index
    <2>3. Bounded(p)' BY <1>i, <1>s, <1>y, <2>1 DEF Bounded, Answering
    <2>4. Dated(p)'
      <3>1. CASE doc'[p] = doc[p]
        BY <1>i, <1>s, <1>y, <2>1, <3>1 DEF Dated, Drafted, Since
      <3>2. CASE ~Missing(index) /\ doc'[p].topo = index.topo
        <4>1. doc'[p].topo <= topo BY <1>i, <3>2 DEF IndexDated
        <4>2. Since(doc[p].topo, doc[p].conf)' \/ doc'[p] = doc[p]
          BY <1>i, <1>s, <2>2, <3>2 DEF IndexDated, Confirms, Since
        <4> QED BY <1>i, <1>s, <1>y, <3>1, <4>1, <4>2 DEF Dated
      <3> QED BY <2>2, <3>1, <3>2
    <2>5. ASSUME NEW q \in Procs \ {p} PROVE Clear(q, p)'
      <3>1. CASE doc'[p] = doc[p]
        BY <1>k, <1>l, <1>s, <2>1, <3>1 DEF Clear, Drafted, Since
      <3>2. CASE ~Missing(index) /\ doc'[p].topo = index.topo
        BY <1>k, <1>l, <1>s, <3>2, Dates DEF Clear, Confirms, Since
      <3> QED BY <2>2, <3>1, <3>2
    <2> QED BY <1>0, <1>s, <1>x, <1>z, <2>3, <2>4, <2>5, FreshOne
  <1>2. CASE DiscoveryEnds(p)
    <2>1. /\ pc[p] = "stage0" /\ man'[p].topo = topo
          /\ doc'[p].topo = topo /\ doc'[p].conf = doc[p].conf
      BY <1>2 DEF DiscoveryEnds, TypeOK, Index
    <2>2. clock \in 0 .. clock /\ now[p] - clock < HardMax
      BY <1>i, Dates, TtlAssumption DEF Dated
    <2>3. Bounded(p)' BY <1>j, <1>s, <1>y, <2>1, <2>2 DEF Bounded
    <2>4. clock \in doc[p].conf .. clock BY <1>i, <2>1, Dates DEF Dated
    <2>5. Dated(p)' BY <1>i, <1>j, <1>s, <1>y, <2>1, <2>4, Dates DEF Dated, Since
    <2>6. ASSUME NEW q \in Procs \ {p} PROVE Clear(q, p)'
      <3>1. clock \in now[q] .. clock BY <1>k, Dates DEF Dated
      <3>2. pc[q] = "probe" => man[q].topo <= topo BY <1>k DEF Dated
      <3> QED BY <1>i, <1>j, <1>l, <1>s, <2>1, <3>1, <3>2 DEF Clear, IndexDated, Since
    <2> QED BY <1>0, <1>s, <1>x, <1>z, <2>3, <2>5, <2>6, FreshOne
  <1> QED BY <1>1, <1>2

\* The document of p becomes the index.
LEMMA FreshWrites ==
  ASSUME TypeOK, FreshInv, Two, NEW p \in Procs, WritesIndex(p)
  PROVE  FreshInv'
  <1> USE DEF Goto
  <1>0. Step(p) BY DEF Step
  <1>i. Dated(p) /\ Bounded(p) BY DEF FreshInv
  <1>k. \A q \in Procs \ {p} : Clear(q, p) BY DEF FreshInv
  <1>1. /\ UNCHANGED <<clock, topo, seen, cmd, now, man, doc>> /\ index' = doc[p]
        /\ pc[p] = "write" /\ pc'[p] = "unlock"
    BY DEF WritesIndex, server, TypeOK
  <1>l. ASSUME NEW q \in Procs \ {p} PROVE pc'[q] = pc[q]
    BY <1>0, StepIsLocal
  <1>2. IndexDated' BY <1>i, <1>1 DEF IndexDated, Dated, Drafted, Since
  <1>3. Dated(p)' BY <1>i, <1>1 DEF Dated, Drafted, Since
  <1>4. Bounded(p)' BY <1>i, <1>1 DEF Bounded, Answering
  <1>5. Confirms(p)' BY <1>1 DEF Confirms
  <1>6. ASSUME NEW q \in Procs \ {p} PROVE Clear(p, q)' /\ Clear(q, p)'
    <2>1. Clear(p, q)' BY <1>1 DEF Clear
    <2>2. Clear(q, p)' BY <1>k, <1>l, <1>1, Dates DEF Clear, Drafted, Since
    <2> QED BY <2>1, <2>2
  <1>7. Missing(index') \/ (index' = doc[p] /\ Drafted(p)) BY <1>1 DEF Drafted
  <1> QED BY <1>0, <1>2, <1>3, <1>4, <1>5, <1>6, <1>7, FreshOne

LEMMA FreshNext ==
  ASSUME ~Rollbacks, FreshFor <= HardMax, HardMax > 0, Two, TypeOK, FreshInv, [Next]_vars
  PROVE  FreshInv'
  <1>1. CASE Tick \/ Deploy BY <1>1, FreshServer
  <1>2. ASSUME NEW p \in Procs, Start(p) \/ Step(p) \/ Crashes(p) PROVE FreshInv'
    BY <1>2, FreshRest, FreshReads, FreshDrafts, FreshWrites DEF Step
  <1>3. CASE UNCHANGED vars
    BY <1>3 DEF vars, server, disk, proc, FreshInv, IndexDated, Dated, Drafted, Bounded, Confirms,
       Clear, Since
  <1> QED BY <1>1, <1>2, <1>3 DEF Next

\* Of two processes neither makes the index look younger than the last time it was
\* compared with the server, and no online command answers from a schema the server
\* has not had within the hard maximum before it began: whatever the instants at
\* which they start, stall, write, fail or die, as long as the server never goes back.
THEOREM FreshnessOfTwo ==
  ASSUME NEW a, NEW b, Procs = {a, b}, ~Rollbacks, FreshFor <= HardMax, HardMax > 0
  PROVE  Spec => []FreshnessTrue
  <1>1. Two BY DEF Two
  <1>2. TypeOK /\ FreshInv /\ [Next]_vars => FreshInv' BY <1>1, FreshNext
  <1>3. FreshInv => FreshnessTrue
    BY DEF FreshInv, IndexDated, Since, Bounded, Answering, FreshnessTrue, ConfirmedAtIsTrue,
       BoundedStaleness
  <1> QED BY <1>2, <1>3, FreshInit, TypeCorrect, PTL DEF Spec
=============================================================================
