--------------------------- MODULE DiscoveryCache ---------------------------
(***************************************************************************)
(* The discovery cache of one scope, $CACHE/v1/<scope>/, shared by every   *)
(* `pay` process of one user (internal/cache, and internal/cli's use of    *)
(* it): manifest.json (the index), fields/<slug>.json (the shards) and     *)
(* .lock.  Each process runs one command.  A step is one file operation,   *)
(* one lock operation or one network exchange, so that any two commands    *)
(* interleave, and a process may crash between any two steps.              *)
(*                                                                         *)
(* External: the Payload server is its topology hash, which a deployment   *)
(* may change, and the kernel drops the flock of a process that dies.      *)
(***************************************************************************)
EXTENDS Integers, FiniteSets

CONSTANTS
  Procs,        \* the processes
  Entities,     \* the collections and globals of the project
  Topos,        \* the topology hashes the server may answer with, in deployment order
  Rollbacks,    \* whether the server may go back to an earlier topology
  Commands,     \* the kinds of command the processes run
  FlockWorks,   \* FALSE on a filesystem without flock
  FreshFor,     \* ttlTable's Fresh of the discovery manifest, in ticks
  HardMax,      \* its HardMax
  GCMaxAge,     \* GC's 30 days
  Scheduled,    \* the processes that are not left to hang (FairSpec)
  MaxClock,     \* bound: the clock stops here
  MaxGen,       \* bound: generations minted
  MaxDir        \* bound: incarnations of the scope directory

Online      == {"use", "query", "refresh", "nocache"}
AllCommands == Online \cup {"offline", "clear", "sweep"}

ASSUME CommandsAssumption == Commands \subseteq AllCommands
ASSUME ToposAssumption == Topos \subseteq Nat /\ Topos # {}
ASSUME SwitchAssumption == FlockWorks \in BOOLEAN /\ Rollbacks \in BOOLEAN
ASSUME ScheduledAssumption == Scheduled \subseteq Procs
ASSUME TtlAssumption ==
  FreshFor \in Nat /\ HardMax \in Nat /\ GCMaxAge \in Nat
ASSUME BoundAssumption ==
  MaxClock \in Nat /\ MaxGen \in Nat \ {0} /\ MaxDir \in Nat \ {0}

VARIABLES
  clock,   \* the wall clock
  topo,    \* the server's topology hash now
  seen,    \* history: the hashes the server had at each tick
  minted,  \* how many generations have been minted
  dirs,    \* how many incarnations of the scope directory there have been
  dir,     \* the incarnation the scope key resolves to, 0 if there is none
  born,    \* when that incarnation was created, its mtime until an index is in it
  index,   \* manifest.json in it
  shard,   \* fields/<slug>.json in it: the generation, 0 if there is no file
  pc, cmd, \* per process: where it is, and the command it runs
  now,     \* per process: the instant its discovery step read off the clock
  man,     \* per process: rt.disc.manifest, the manifest the command answers from
  ref,     \* per process: rt.disc.cacheManifest, the index its shards are held to
  ran,     \* per process: rt.disc.ran, whether it discovered
  job,     \* per process: which writer it is in
  doc,     \* per process: the index document it is about to write
  todo,    \* per process: the shards still to write or to read
  inode,   \* per process: the incarnation whose .lock it has open, 0 if none
  held,    \* per process: whether it holds the flock on that file
  view     \* per process: the generation of each shard it was served, 0 if none

server == <<clock, topo, seen>>
disk   == <<dirs, dir, born, index, shard>>
proc   == <<pc, cmd, now, man, ref, ran, job, doc, todo, inode, held, view>>
vars   == <<server, minted, disk, proc>>

-----------------------------------------------------------------------------
(* The index.  Its body is abstracted to its generation, the topology hash  *)
(* of its fingerprint, meta.confirmed_at, and whether it records an         *)
(* operator failure.                                                        *)

Gens  == 0 .. MaxGen
Index == [gen : Gens, topo : Topos, conf : 0 .. MaxClock, memo : BOOLEAN]

NoIndex == [gen |-> 0, topo |-> CHOOSE t \in Topos : TRUE, conf |-> 0, memo |-> FALSE]

\* A read that ends in "no such file", or in a rejected document, is a miss.
Missing(m) == m.gen = 0

Age(m, t) == IF t > m.conf THEN t - m.conf ELSE 0

\* Mutant: the hard maximum is not looked at.
FreshnessWithoutMaximum(m, t) == IF Age(m, t) < FreshFor THEN "fresh" ELSE "stale"

Freshness(m, t) ==
  IF Age(m, t) < FreshFor THEN "fresh"
  ELSE IF Age(m, t) < HardMax THEN "stale" ELSE "expired"

\* Mutant: the generation is not compared.
ReadShardUnverified(m, e) == shard[e]

\* ReadShard: a shard of another generation is a miss for that entity.
ReadShard(m, e) == IF shard[e] = m.gen THEN shard[e] ELSE 0

\* MkdirAll of the scope directory: it brings back one that was cleared.
MkdirAll ==
  IF dir = 0 THEN dir' = dirs + 1 /\ dirs' = dirs + 1 /\ born' = clock
             ELSE UNCHANGED <<dir, dirs, born>>

-----------------------------------------------------------------------------
Init ==
  /\ clock = 0
  /\ topo \in Topos
  /\ seen = [t \in 0 .. MaxClock |-> IF t = 0 THEN {topo} ELSE {}]
  /\ \/ /\ minted = 0 /\ dirs = 0 /\ dir = 0 /\ born = 0
        /\ index = NoIndex
        /\ shard = [e \in Entities |-> 0]
     \/ /\ minted = 1 /\ dirs = 1 /\ dir = 1 /\ born = 0
        /\ index = [gen |-> 1, topo |-> topo, conf |-> 0, memo |-> FALSE]
        /\ shard = [e \in Entities |-> 1]
  /\ pc    = [p \in Procs |-> "idle"]
  /\ cmd   = [p \in Procs |-> "none"]
  /\ now   = [p \in Procs |-> 0]
  /\ man   = [p \in Procs |-> NoIndex]
  /\ ref   = [p \in Procs |-> NoIndex]
  /\ ran   = [p \in Procs |-> FALSE]
  /\ job   = [p \in Procs |-> "none"]
  /\ doc   = [p \in Procs |-> NoIndex]
  /\ todo  = [p \in Procs |-> {}]
  /\ inode = [p \in Procs |-> 0]
  /\ held  = [p \in Procs |-> FALSE]
  /\ view  = [p \in Procs |-> [e \in Entities |-> 0]]

\* The process is gone, with its memory, its open files and its flock.
Exit(p) ==
  /\ pc'    = [pc EXCEPT ![p] = "exited"]
  /\ cmd'   = [cmd EXCEPT ![p] = "none"]
  /\ now'   = [now EXCEPT ![p] = 0]
  /\ man'   = [man EXCEPT ![p] = NoIndex]
  /\ ref'   = [ref EXCEPT ![p] = NoIndex]
  /\ ran'   = [ran EXCEPT ![p] = FALSE]
  /\ job'   = [job EXCEPT ![p] = "none"]
  /\ doc'   = [doc EXCEPT ![p] = NoIndex]
  /\ todo'  = [todo EXCEPT ![p] = {}]
  /\ inode' = [inode EXCEPT ![p] = 0]
  /\ held'  = [held EXCEPT ![p] = FALSE]
  /\ view'  = [view EXCEPT ![p] = [e \in Entities |-> 0]]

Goto(p, from, to) == pc[p] = from /\ pc' = [pc EXCEPT ![p] = to]

-----------------------------------------------------------------------------
(* The surroundings.                                                        *)

Tick ==
  /\ clock < MaxClock
  /\ clock' = clock + 1
  /\ seen' = [seen EXCEPT ![clock + 1] = {topo}]
  /\ UNCHANGED <<topo, minted, disk, proc>>

Deploy ==
  /\ topo' \in Topos \ {topo}
  /\ Rollbacks \/ topo' > topo
  /\ seen' = [seen EXCEPT ![clock] = @ \cup {topo'}]
  /\ UNCHANGED <<clock, minted, disk, proc>>

-----------------------------------------------------------------------------
(* resolveDiscovery: the freshness ladder.                                  *)

\* A command starts; a discovery command reads the clock.
Start(p) ==
  /\ pc[p] = "idle"
  /\ \E c \in Commands :
       /\ cmd' = [cmd EXCEPT ![p] = c]
       /\ pc' = [pc EXCEPT ![p] =
                   CASE c \in {"use", "query"}       -> "resolve"
                     [] c \in {"refresh", "nocache"} -> "discover"
                     [] c = "offline"                -> "offline"
                     [] c = "clear"                  -> "trash"
                     [] c = "sweep"                  -> "sweep"]
  /\ now' = [now EXCEPT ![p] = clock]
  /\ UNCHANGED <<server, minted, disk, man, ref, ran, job, doc, todo, inode, held, view>>

\* The command answers from m, and will load the shard of every entity.
Adopt(p, m) ==
  /\ man'  = [man EXCEPT ![p] = m]
  /\ ref'  = [ref EXCEPT ![p] = m]
  /\ todo' = [todo EXCEPT ![p] = Entities]

\* ReadManifest, then the ladder's first decision.
Resolve(p) ==
  /\ pc[p] = "resolve"
  /\ \/ /\ ~Missing(index)
        /\ \/ Freshness(index, now[p]) = "fresh" /\ pc' = [pc EXCEPT ![p] = "serve"]
           \/ Freshness(index, now[p]) = "stale" /\ pc' = [pc EXCEPT ![p] = "probe"]
        /\ Adopt(p, index)
     \/ /\ Missing(index) \/ Freshness(index, now[p]) = "expired"
        /\ pc' = [pc EXCEPT ![p] = "discover"]
        /\ UNCHANGED <<man, ref, todo>>
  /\ UNCHANGED <<server, minted, disk, cmd, now, ran, job, doc, inode, held, view>>

\* The probe of Revalidate fails or takes longer than 250 ms.
ProbeTimesOut(p) ==
  /\ Goto(p, "probe", "serve")
  /\ UNCHANGED <<server, minted, disk, cmd, now, man, ref, ran, job, doc, todo, inode, held, view>>

ProbeConfirms(p) ==
  /\ topo = man[p].topo
  /\ Goto(p, "probe", "touch")
  /\ UNCHANGED <<server, minted, disk, cmd, now, man, ref, ran, job, doc, todo, inode, held, view>>

ProbeDiffers(p) ==
  /\ topo # man[p].topo
  /\ Goto(p, "probe", "discover")
  /\ UNCHANGED <<server, minted, disk, cmd, now, man, ref, ran, job, doc, todo, inode, held, view>>

\* Mutant: the instant is rounded up to the next tick.
TouchReadsRoundingUp(p) ==
  /\ pc[p] = "touch"
  /\ IF Missing(index)
       THEN pc' = [pc EXCEPT ![p] = "serve"] /\ UNCHANGED <<job, doc>>
       ELSE /\ pc'  = [pc EXCEPT ![p] = "open"]
            /\ job' = [job EXCEPT ![p] = "touch"]
            /\ doc' = [doc EXCEPT ![p] = [index EXCEPT !.conf = now[p] + 1]]
  /\ UNCHANGED <<server, minted, disk, cmd, now, man, ref, ran, todo, inode, held, view>>

\* Touch: the index is read, and edited, before the lock is taken.
TouchReads(p) ==
  /\ pc[p] = "touch"
  /\ IF Missing(index)
       THEN pc' = [pc EXCEPT ![p] = "serve"] /\ UNCHANGED <<job, doc>>
       ELSE /\ pc'  = [pc EXCEPT ![p] = "open"]
            /\ job' = [job EXCEPT ![p] = "touch"]
            /\ doc' = [doc EXCEPT ![p] = [index EXCEPT !.conf = now[p]]]
  /\ UNCHANGED <<server, minted, disk, cmd, now, man, ref, ran, todo, inode, held, view>>

-----------------------------------------------------------------------------
(* RunDiscovery.                                                            *)

\* The generation is minted, and confirmed_at fixed, before the first request.
DiscoveryStarts(p) ==
  /\ minted < MaxGen
  /\ Goto(p, "discover", "stage0")
  /\ minted' = minted + 1
  /\ doc' = [doc EXCEPT ![p] = [NoIndex EXCEPT !.gen = minted', !.conf = clock]]
  /\ UNCHANGED <<server, disk, cmd, now, man, ref, ran, job, todo, inode, held, view>>

\* Stage 0 reads the topology; the later stages fill in shards of that run.
\* --no-cache discovers in process and persists nothing.
DiscoveryEnds(p) ==
  LET found == [doc[p] EXCEPT !.topo = topo]
      saves == cmd[p] # "nocache" IN
  /\ Goto(p, "stage0", IF saves THEN "open" ELSE "serve")
  /\ doc'  = [doc EXCEPT ![p] = found]
  /\ man'  = [man EXCEPT ![p] = found]
  /\ ref'  = [ref EXCEPT ![p] = NoIndex]
  /\ ran'  = [ran EXCEPT ![p] = TRUE]
  /\ job'  = [job EXCEPT ![p] = IF saves THEN "set" ELSE @]
  /\ todo' = [todo EXCEPT ![p] = Entities]
  /\ UNCHANGED <<server, minted, disk, cmd, now, inode, held, view>>

\* discovery_failed: the command ends with exit 10.
DiscoveryFails(p) ==
  /\ pc[p] = "stage0"
  /\ Exit(p)
  /\ UNCHANGED <<server, minted, disk>>

-----------------------------------------------------------------------------
(* The writers: WriteSet, for a discovery run and for the operator memo,    *)
(* and Touch.                                                               *)

\* The write is done, skipped or failed, and the command goes on: a cache
\* problem never fails a command.
AfterWrite(p) ==
  /\ pc'    = [pc EXCEPT ![p] = IF job[p] = "memo" THEN "end" ELSE "serve"]
  /\ todo'  = [todo EXCEPT ![p] = IF job[p] = "memo" THEN {} ELSE Entities]
  /\ job'   = [job EXCEPT ![p] = "none"]
  /\ doc'   = [doc EXCEPT ![p] = NoIndex]
  /\ inode' = [inode EXCEPT ![p] = 0]
  /\ held'  = [held EXCEPT ![p] = FALSE]
  /\ UNCHANGED <<server, minted, disk, cmd, now, man, ref, ran, view>>

\* .lock is opened; only WriteSet creates the directory it is in.
OpensLock(p) ==
  /\ Goto(p, "open", "wait")
  /\ dir # 0 \/ job[p] # "touch"
  /\ MkdirAll
  /\ inode' = [inode EXCEPT ![p] = dir']
  /\ UNCHANGED <<server, minted, index, shard, cmd, now, man, ref, ran, job, doc, todo, held, view>>

\* The directory or the lock file cannot be opened.
OpenFails(p) ==
  /\ pc[p] = "open"
  /\ AfterWrite(p)

\* Mutant: the answer of flock is not looked at.
AcquiresRegardless(p) ==
  /\ Goto(p, "wait", "write")
  /\ held' = [held EXCEPT ![p] = TRUE]
  /\ todo' = [todo EXCEPT ![p] = IF job[p] = "set" THEN Entities ELSE {}]
  /\ UNCHANGED <<server, minted, disk, cmd, now, man, ref, ran, job, doc, inode, view>>

\* flock(LOCK_EX | LOCK_NB) succeeds: nobody holds it on the same file.
Acquires(p) ==
  /\ FlockWorks => \A q \in Procs : ~(held[q] /\ inode[q] = inode[p])
  /\ Goto(p, "wait", "write")
  /\ held' = [held EXCEPT ![p] = TRUE]
  /\ todo' = [todo EXCEPT ![p] = IF job[p] = "set" THEN Entities ELSE {}]
  /\ UNCHANGED <<server, minted, disk, cmd, now, man, ref, ran, job, doc, inode, view>>

\* Mutant: after 5 s the writer goes on without the lock.
LockTimeoutIgnored(p) ==
  /\ Goto(p, "wait", "write")
  /\ todo' = [todo EXCEPT ![p] = IF job[p] = "set" THEN Entities ELSE {}]
  /\ UNCHANGED <<server, minted, disk, cmd, now, man, ref, ran, job, doc, inode, held, view>>

\* Mutant: there is no timeout.
LockNeverTimesOut(p) == pc[p] = "wait" /\ FALSE /\ UNCHANGED vars

\* The 5 s are over, or flock failed: the write is skipped.
LockTimesOut(p) ==
  /\ pc[p] = "wait"
  /\ AfterWrite(p)

WritesShard(p, e) ==
  /\ pc[p] = "write" /\ e \in todo[p]
  /\ MkdirAll
  /\ shard' = [shard EXCEPT ![e] = doc[p].gen]
  /\ todo' = [todo EXCEPT ![p] = @ \ {e}]
  /\ UNCHANGED <<server, minted, index, pc, cmd, now, man, ref, ran, job, doc, inode, held, view>>

\* The index is renamed into place after every shard.
WritesIndex(p) ==
  /\ todo[p] = {}
  /\ Goto(p, "write", "unlock")
  /\ MkdirAll
  /\ index' = doc[p]
  /\ UNCHANGED <<server, minted, shard, cmd, now, man, ref, ran, job, doc, todo, inode, held, view>>

\* A write fails: what was written before it stays.
WriteFails(p) ==
  /\ Goto(p, "write", "unlock")
  /\ UNCHANGED <<server, minted, disk, cmd, now, man, ref, ran, job, doc, todo, inode, held, view>>

Releases(p) ==
  /\ pc[p] = "unlock"
  /\ AfterWrite(p)

-----------------------------------------------------------------------------
(* The readers.                                                             *)

\* shardFromState: from memory after a discovery, else from the cache.
Serves(p, e) ==
  /\ pc[p] = "serve" /\ e \in todo[p]
  /\ ran[p] \/ ~Missing(ref[p])
  /\ view' = [view EXCEPT ![p][e] = IF ran[p] THEN man[p].gen ELSE ReadShard(ref[p], e)]
  /\ todo' = [todo EXCEPT ![p] = @ \ {e}]
  /\ UNCHANGED <<server, minted, disk, pc, cmd, now, man, ref, ran, job, doc, inode, held>>

\* The command has its answer; a query may have failed on an operator.
Answers(p) ==
  /\ pc[p] = "serve" /\ todo[p] = {}
  /\ \/ pc' = [pc EXCEPT ![p] = "end"]
     \/ cmd[p] = "query" /\ pc' = [pc EXCEPT ![p] = "memo"]
  /\ UNCHANGED <<server, minted, disk, cmd, now, man, ref, ran, job, doc, todo, inode, held, view>>

\* rememberOperatorFailure: the index is read, and edited, before WriteSet.
MemoReads(p) ==
  /\ pc[p] = "memo"
  /\ IF Missing(index) \/ index.memo
       THEN pc' = [pc EXCEPT ![p] = "end"] /\ UNCHANGED <<job, doc>>
       ELSE /\ pc'  = [pc EXCEPT ![p] = "open"]
            /\ job' = [job EXCEPT ![p] = "memo"]
            /\ doc' = [doc EXCEPT ![p] = [index EXCEPT !.memo = TRUE]]
  /\ UNCHANGED <<server, minted, disk, cmd, now, man, ref, ran, todo, inode, held, view>>

\* CachedManifest: the index at any age, or nothing to complete from.
OfflineReads(p) ==
  /\ pc[p] = "offline"
  /\ IF Missing(index)
       THEN pc' = [pc EXCEPT ![p] = "end"] /\ UNCHANGED <<man, todo>>
       ELSE /\ pc'   = [pc EXCEPT ![p] = "serve"]
            /\ man'  = [man EXCEPT ![p] = index]
            /\ todo' = [todo EXCEPT ![p] = Entities]
  /\ UNCHANGED <<server, minted, disk, cmd, now, ref, ran, job, doc, inode, held, view>>

\* CachedShard: the index is read a second time, to hold the shard to it.
OfflineReadsAgain(p) ==
  /\ pc[p] = "serve" /\ ~ran[p] /\ Missing(ref[p]) /\ todo[p] # {}
  /\ IF Missing(index)
       THEN /\ \E e \in todo[p] : todo' = [todo EXCEPT ![p] = @ \ {e}]
            /\ UNCHANGED ref
       ELSE ref' = [ref EXCEPT ![p] = index] /\ UNCHANGED todo
  /\ UNCHANGED <<server, minted, disk, pc, cmd, now, man, ran, job, doc, inode, held, view>>

-----------------------------------------------------------------------------
(* Clear, and GC run by a process that wrote another scope: neither takes   *)
(* the lock.                                                                *)

\* scopeExpired: by confirmed_at, or by the mtime when there is no index.
Sweeps(p) ==
  /\ pc[p] = "sweep"
  /\ pc' = [pc EXCEPT ![p] =
              IF dir # 0 /\ clock - (IF Missing(index) THEN born ELSE index.conf) > GCMaxAge
                THEN "trash" ELSE "end"]
  /\ UNCHANGED <<server, minted, disk, cmd, now, man, ref, ran, job, doc, todo, inode, held, view>>

\* trash: the directory is renamed away, with the .lock in it.
Trashes(p) ==
  /\ dirs < MaxDir
  /\ Goto(p, "trash", "end")
  /\ dir' = 0
  /\ index' = NoIndex
  /\ shard' = [e \in Entities |-> 0]
  /\ UNCHANGED <<server, minted, dirs, born, cmd, now, man, ref, ran, job, doc, todo, inode, held, view>>

-----------------------------------------------------------------------------
Ends(p) ==
  /\ pc[p] = "end"
  /\ Exit(p)
  /\ UNCHANGED <<server, minted, disk>>

\* The process dies.
Crashes(p) ==
  /\ pc[p] \notin {"idle", "exited"}
  /\ Exit(p)
  /\ UNCHANGED <<server, minted, disk>>

Step(p) ==
  \/ Resolve(p) \/ ProbeTimesOut(p) \/ ProbeConfirms(p) \/ ProbeDiffers(p)
  \/ TouchReads(p)
  \/ DiscoveryStarts(p) \/ DiscoveryEnds(p) \/ DiscoveryFails(p)
  \/ OpensLock(p) \/ OpenFails(p) \/ Acquires(p) \/ LockTimesOut(p)
  \/ \E e \in Entities : WritesShard(p, e) \/ Serves(p, e)
  \/ WritesIndex(p) \/ WriteFails(p) \/ Releases(p)
  \/ Answers(p) \/ MemoReads(p) \/ OfflineReads(p) \/ OfflineReadsAgain(p)
  \/ Sweeps(p) \/ Trashes(p) \/ Ends(p)

Next ==
  \/ Tick \/ Deploy
  \/ \E p \in Procs : Start(p) \/ Step(p) \/ Crashes(p)

Spec == Init /\ [][Next]_vars

\* The operating system runs every process of Scheduled that has started and is
\* not killed; another may stall anywhere, in the middle of a write too.
FairSpec == Spec /\ \A p \in Scheduled : WF_vars(Step(p))

-----------------------------------------------------------------------------
(* Properties.                                                              *)

PCs == {"idle", "resolve", "probe", "touch", "discover", "stage0", "open", "wait",
        "write", "unlock", "serve", "memo", "offline", "sweep", "trash",
        "end", "exited"}

\* The types of the variables.
TypeOK ==
  /\ clock \in 0 .. MaxClock
  /\ topo \in Topos
  /\ seen \in [0 .. MaxClock -> SUBSET Topos]
  /\ minted \in Gens
  /\ dirs \in 0 .. MaxDir /\ dir \in 0 .. MaxDir /\ born \in 0 .. MaxClock
  /\ dir = 0 => dirs < MaxDir
  /\ index \in Index
  /\ shard \in [Entities -> Gens]
  /\ pc \in [Procs -> PCs]
  /\ cmd \in [Procs -> Commands \cup {"none"}]
  /\ now \in [Procs -> 0 .. MaxClock]
  /\ man \in [Procs -> Index] /\ ref \in [Procs -> Index] /\ doc \in [Procs -> Index]
  /\ ran \in [Procs -> BOOLEAN]
  /\ job \in [Procs -> {"none", "set", "touch", "memo"}]
  /\ todo \in [Procs -> SUBSET Entities]
  /\ inode \in [Procs -> 0 .. MaxDir]
  /\ held \in [Procs -> BOOLEAN]
  /\ view \in [Procs -> [Entities -> Gens]]

\* Lock-free reads never mix two discovery runs (ARCHITECTURE 8.7: "a shard
\* from writer A and an index from writer B ... a miss"): an online command is
\* served only shards of the generation of the manifest it answers from,
\* whatever is written, cleared or left half-written under it.
NoMixedRuns ==
  \A p \in Procs : cmd[p] \in Online =>
    \A e \in Entities : view[p][e] \in {0, man[p].gen}

\* The flock excludes: two processes that hold .lock hold different files.
WritersExclude ==
  FlockWorks =>
    \A p, q \in Procs : p # q /\ held[p] /\ held[q] => inode[p] # inode[q]

\* "The index only becomes visible after everything it points at exists"
\* (WriteSet): what a discovery run has written of its set is still there when
\* it writes the next file, so the index is published over a complete set.
SetComplete ==
  \A p \in Procs : pc[p] = "write" /\ job[p] = "set" =>
    \A e \in Entities \ todo[p] : shard[e] = doc[p].gen

\* meta.confirmed_at is true: the server did have the index's topology at
\* that instant or later, so no rewrite of the index makes it look younger
\* than the last time anybody compared it with the server.
ConfirmedAtIsTrue ==
  ~Missing(index) => \E t \in index.conf .. clock : index.topo \in seen[t]

\* The freshness ladder end to end: no online command answers from a schema
\* the server has not had within the hard maximum before the command began.
BoundedStaleness ==
  \A p \in Procs : pc[p] \in {"serve", "end"} /\ cmd[p] \in Online =>
    \E t \in 0 .. clock : now[p] - t < HardMax /\ man[p].topo \in seen[t]

\* How old an answer may be is known: what the index says of its age, and what a command
\* answers from by it.
FreshnessTrue == ConfirmedAtIsTrue /\ BoundedStaleness

\* "A stale lock from a crashed process must never wedge the CLI": a command of
\* a scheduled process ends, though the others crash or hang holding the lock.
CommandsEnd == \A p \in Scheduled : pc[p] # "idle" ~> pc[p] = "exited"

\* The cache implements AtomicRuns for the online commands: the run a command
\* answers from is its manifest's, and only shards of it are ever served.
Runs == INSTANCE AtomicRuns WITH
  Readers <- Procs,
  runs <- minted,
  base <- [p \in Procs |-> IF cmd[p] \in Online THEN man[p].gen ELSE 0],
  view <- [p \in Procs |-> IF cmd[p] \in Online THEN view[p]
                           ELSE [e \in Entities |-> 0]]

ImplementsAtomicRuns == Runs!Spec
=============================================================================
