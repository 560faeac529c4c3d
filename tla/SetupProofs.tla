----------------------------- MODULE SetupProofs -----------------------------
(* Theorems about Discovery and Configuration, for every value of their      *)
(* constants.                                                               *)
EXTENDS MCSetup, TLAPS, FiniteSetTheorems

-----------------------------------------------------------------------------
(* The inductive invariant of Discovery.                                    *)

Bootstrap == {"anonymous", "widen", "init", "try"}
Known     == {"stage1", "stage2", "probe", "project", "assemble"}
Phases    == Bootstrap \cup {"paths0", "paths", "me"} \cup Known \cup {"done"}

\* The run is in one of these phases, or over with an index: what was found out
\* before stays as it is.
Since(phases) == phase \in phases \/ Published

PathJobs  == IF set.pinned THEN {1} ELSE 1 .. Paths
ProbeJobs == {s \in Rows : Need(s) # {}}

\* The pool: a job waits, is at work or has its answer; outside the pool's phases
\* there is none.
PoolInv ==
  /\ server \in Servers /\ set \in Settings /\ phase \in Phases
  /\ IsFiniteSet(busy) /\ issued \in Nat
  /\ todo \cap busy = {} /\ (todo \cup busy) \cap DOMAIN got = {}
  /\ phase \notin {"init", "paths", "probe", "project"} => todo = {} /\ busy = {}

\* The bootstrap of the auth collection: of a run that lost nothing, the collection
\* the credential belongs to is still among the candidates.
HomeShows == C(server.home).anon \/ (server.graphql /\ C(server.home).graphql)

HomeKept ==
  /\ phase = "widen" /\ C(server.home).anon => server.home \in candidates
  /\ phase = "init" => server.home \in todo \cup busy \cup {s \in DOMAIN got : got[s]}
  /\ phase = "try"  => server.home \in candidates

BootInv ==
  /\ phase \in Bootstrap => set.auth = None /\ ~set.anonymous /\ auth = None
  /\ phase \in Bootstrap \cup {"paths0", "paths"} => path = 1
  /\ phase \in {"anonymous", "widen"} => schema = None
  /\ candidates \subseteq Slugs
  /\ phase = "init" => todo \cup busy \cup DOMAIN got \subseteq Slugs
  /\ phase = "try"  => candidates # {}
  /\ (failed = {} /\ server.home # None /\ 1 \in server.serves /\ HomeShows) => HomeKept

\* The API path: an answer tells whether the path is one, but a lost one says no.
PathInv ==
  /\ phase = "paths" =>
       /\ PathJobs = todo \cup busy \cup DOMAIN got
       /\ \A p \in DOMAIN got : IF got[p] THEN p \in server.serves
                                ELSE p \in server.serves => Lost("access", p)
  /\ Since({"me"} \cup Known) =>
       /\ path \in server.serves
       /\ \A p \in 1 .. path - 1 : p \in server.serves => Lost("access", p)

\* The identity.
IdentityInv ==
  /\ auth = set.auth \/ (set.auth = None /\ auth = server.home)
  /\ Since({"paths0", "paths", "me"} \cup Known) => set.anonymous \/ auth # None
  /\ phase = "me" => ~set.anonymous
  /\ Since({"me"} \cup Known) => viewer = As(auth) /\ view = ViewOf(viewer)
  /\ Since(Known) /\ ~set.anonymous => As(auth) # None /\ identity = auth

\* The probes: an answer is of a probe whose lost requests are on record.
ProbedTruly(s, answer) ==
  \E lost \in SUBSET ({"guard"} \cup Need(s)) :
    answer = Probed(s, lost) /\ \A f \in lost : Lost(f, s)

ProbeInv ==
  /\ phase = "probe" =>
       /\ ProbeJobs = todo \cup busy \cup DOMAIN got
       /\ \A s \in DOMAIN got : ProbedTruly(s, got[s])
  /\ Since({"project", "assemble"}) =>
       /\ ProbeJobs = DOMAIN probes
       /\ \A s \in DOMAIN probes : ProbedTruly(s, probes[s])

\* The project-wide routes: each is asked once.
RouteTold(r, answer) ==
  IF Lost("route", r) THEN answer = None ELSE answer = (r \in server.routes)

RouteInv ==
  /\ ~Since({"project", "assemble"}) /\ phase # "done" => \A r \in Routes : ~Lost("route", r)
  /\ phase = "project" =>
       /\ todo = {} /\ Routes = busy \cup DOMAIN got
       /\ \A r \in busy : ~Lost("route", r)
       /\ \A r \in DOMAIN got : RouteTold(r, got[r])
  /\ Since({"assemble"}) => \A r \in Routes : RouteTold(r, project[r])

\* What is said of the locales, but for the codes themselves.
LocalesKnown ==
  /\ localization.enabled = FALSE => server.locales = {}
  /\ localization.enabled = TRUE => server.locales # {} \/ localization.source = "unverified"

LocaleInv == Since({"assemble"}) => LocalesKnown

IndexInv ==
  /\ phase # "done" => index = None
  /\ Published => index = [s \in Rows |-> Row(s)]

DiscoveryInv ==
  /\ PoolInv /\ BootInv /\ PathInv /\ IdentityInv /\ ProbeInv /\ RouteInv
  /\ LocaleInv /\ IndexInv /\ ErrorsTrue /\ Budget

-----------------------------------------------------------------------------
(* Lemmas about the operators.                                              *)

\* A set of numbers has a least element, and Min is it.
LEMMA MinIsLeast ==
  ASSUME NEW S, S \subseteq Nat, S # {}
  PROVE  Min(S) \in S /\ \A y \in S : Min(S) <= y
  <1>1. PICK x \in S : \A y \in S : ~(<<y, x>> \in OpToRel(<, Nat))
    <2> DEFINE R == OpToRel(<, Nat)
    <2>1. IsWellFoundedOn(R, Nat) BY NatLessThanWellFounded
    <2> HIDE DEF R
    <2>2. \E x \in S : \A y \in S : ~(<<y, x>> \in R) BY <2>1, WFMin, Zenon
    <2> QED BY <2>2 DEF R
  <1>2. \A y \in S : x <= y
    <2> SUFFICES ASSUME NEW y \in S PROVE x <= y OBVIOUS
    <2>1. ~(y < x) BY <1>1 DEF OpToRel
    <2> QED BY <2>1
  <1> QED BY <1>2 DEF Min

\* The pool is empty at first.
LEMMA NoAnswers == DOMAIN <<>> = {}
  OBVIOUS

LEMMA Enqueues ==
  ASSUME NEW jobs, Enqueue(jobs)
  PROVE  todo' = jobs /\ busy' = {} /\ DOMAIN got' = {} /\ IsFiniteSet(busy')
  BY NoAnswers, FS_EmptySet DEF Enqueue

\* An answer is added to the others, and its worker is free again.
LEMMA GivesOne ==
  ASSUME PoolInv, NEW j \in busy, NEW answer, Gives(j, answer)
  PROVE  /\ todo' = todo /\ busy' = busy \ {j} /\ IsFiniteSet(busy')
         /\ DOMAIN got' = DOMAIN got \cup {j}
         /\ got'[j] = answer /\ \A x \in DOMAIN got : got'[x] = got[x]
         /\ j \notin DOMAIN got /\ j \notin todo
  <1>1. j \notin DOMAIN got /\ j \notin todo BY DEF PoolInv
  <1>2. IsFiniteSet(busy \ {j}) BY FS_RemoveElement DEF PoolInv
  <1> QED BY <1>1, <1>2 DEF Gives, Answers

\* A worker takes a job that nobody has.
LEMMA TakesOne ==
  ASSUME PoolInv, Takes
  PROVE  \E j \in todo : /\ todo' = todo \ {j} /\ busy' = busy \cup {j} /\ IsFiniteSet(busy')
                         /\ j \notin busy /\ j \notin DOMAIN got /\ got' = got
                         /\ Cardinality(busy') <= Width
  <1>1. PICK j \in todo : Cardinality(busy) < Width /\ todo' = todo \ {j} /\ busy' = busy \cup {j}
    BY DEF Takes
  <1>2. j \notin busy /\ j \notin DOMAIN got BY DEF PoolInv
  <1>3. IsFiniteSet(busy') /\ Cardinality(busy') = Cardinality(busy) + 1 /\ Cardinality(busy) \in Nat
    BY <1>1, <1>2, FS_AddElement, FS_CardinalityType DEF PoolInv
  <1> QED BY <1>1, <1>2, <1>3, BoundsAssumption DEF Takes

-----------------------------------------------------------------------------
(* The pool and its budget.                                                 *)

LEMMA DiscoveryInit == Init => DiscoveryInv
  <1> SUFFICES ASSUME Init PROVE DiscoveryInv OBVIOUS
  <1> USE FS_EmptySet, NoAnswers, BoundsAssumption
  <1>1. index = None /\ phase \in {"anonymous", "paths0"} /\ ~Published
    BY DEF Init, Published
  <1>2. PoolInv BY DEF Init, PoolInv, Phases, Bootstrap
  <1>3. BootInv BY DEF Init, BootInv, HomeKept, Bootstrap
  <1>4. PathInv /\ ProbeInv /\ LocaleInv /\ IndexInv
    BY <1>1 DEF PathInv, ProbeInv, LocaleInv, IndexInv, Since, Known
  <1>5. IdentityInv BY <1>1 DEF Init, IdentityInv, Since, Known
  <1>6. RouteInv BY <1>1 DEF Init, RouteInv, Since, Known, Lost
  <1>7. ErrorsTrue
    <2>1. error = None BY DEF Init
    <2> QED BY <2>1, NoneAssumption DEF ErrorsTrue
  <1>8. Budget BY DEF Init, Budget
  <1> QED BY <1>2, <1>3, <1>4, <1>5, <1>6, <1>7, <1>8 DEF DiscoveryInv

LEMMA PoolNext ==
  ASSUME PoolInv, Budget, [Next]_vars
  PROVE  PoolInv' /\ Budget'
  <1> USE BoundsAssumption DEF Phases, Bootstrap, Known, pool, given, who, seen, stage2, stage3, result, Ends
  <1>1. CASE AsksAnonymously \/ Tries \/ Identifies \/ Assembles \/ Cancels \/ UNCHANGED vars
    BY <1>1 DEF PoolInv, Budget, AsksAnonymously, Tries, Identifies, Assembles, Cancels, vars
  <1>2. CASE AsksSchema \/ AsksTypes
    <2>1. UNCHANGED <<given, pool>> /\ phase' \in Phases /\ phase \in {"stage1", "stage2"} /\ phase' = "stage2"
      BY <1>2 DEF AsksSchema, AsksTypes
    <2>2. issued' = issued \/ issued' = 0 \/ (issued < MaxBatches /\ issued' = issued + 1)
      BY <1>2 DEF AsksSchema, AsksTypes
    <2> QED BY <2>1, <2>2 DEF PoolInv, Budget
  <1>3. CASE Widens \/ Filtered \/ AsksPaths \/ Resolves \/ StartsProbes \/ Localizes
    <2>1. /\ \/ UNCHANGED pool
             \/ DOMAIN got' = {} /\ busy' = {} /\ IsFiniteSet(busy') /\ Cardinality(busy') = 0
          /\ UNCHANGED <<given, issued>>
      <3>1. CASE UNCHANGED pool BY <1>3, <3>1 DEF Widens, Filtered, AsksPaths, Resolves, StartsProbes, Localizes
      <3>2. CASE \E jobs : Enqueue(jobs)
        BY <1>3, <3>2, Enqueues, FS_EmptySet DEF Widens, Filtered, AsksPaths, Resolves, StartsProbes, Localizes
      <3> QED BY <1>3, <3>1, <3>2 DEF Widens, Filtered, AsksPaths, Resolves, StartsProbes, Localizes
    <2>2. phase' \in Phases /\ (phase' \in {"init", "paths", "probe", "project"} \/ (todo' = {} /\ busy' = {}))
      BY <1>3 DEF PoolInv, Widens, Filtered, AsksPaths, Resolves, StartsProbes, Localizes, Enqueue, Waited
    <2>3. phase # "project" \/ busy = {}
      BY <1>3 DEF Widens, Filtered, AsksPaths, Resolves, StartsProbes, Localizes, Waited
    <2> QED BY <2>1, <2>2, <2>3, FS_EmptySet DEF PoolInv, Budget
  <1>4. CASE Inits \/ Accesses \/ Probes \/ AsksProject
    <2>0. PICK j \in busy : \E answer : Gives(j, answer)
      BY <1>4 DEF Inits, Accesses, Probes, AsksProject
    <2>1. PICK answer : Gives(j, answer) BY <2>0
    <2>2. UNCHANGED <<given, issued, phase>> /\ phase \in {"init", "paths", "probe", "project"}
      BY <1>4 DEF Inits, Accesses, Probes, AsksProject
    <2>3. Cardinality(busy') = Cardinality(busy) - 1 /\ Cardinality(busy) \in Nat
      BY <2>1, GivesOne, FS_RemoveElement, FS_CardinalityType DEF PoolInv
    <2>4. /\ todo' = todo /\ busy' = busy \ {j} /\ IsFiniteSet(busy')
          /\ DOMAIN got' = DOMAIN got \cup {j} /\ j \notin todo
      BY <2>1, GivesOne
    <2> QED BY <2>2, <2>3, <2>4 DEF PoolInv, Budget
  <1>5. CASE Takes
    <2>1. UNCHANGED <<given, issued, phase>> BY <1>5 DEF Takes
    <2> QED BY <1>5, <2>1, TakesOne DEF PoolInv, Budget
  <1>6. CASE StartsProject
    <2>1. IsFiniteSet(Routes)
      <3>1. IsFiniteSet({} \cup {"reorder"}) BY FS_EmptySet, FS_AddElement
      <3>2. IsFiniteSet(({} \cup {"reorder"}) \cup {"og"}) BY <3>1, FS_AddElement
      <3>3. IsFiniteSet((({} \cup {"reorder"}) \cup {"og"}) \cup {"preferences"}) BY <3>2, FS_AddElement
      <3>4. Routes = (({} \cup {"reorder"}) \cup {"og"}) \cup {"preferences"} BY DEF Routes
      <3> QED BY <3>3, <3>4
    <2>2. /\ todo' = {} /\ busy' = Routes /\ DOMAIN got' = {} /\ phase' = "project"
          /\ UNCHANGED <<given, issued>>
      BY <1>6, NoAnswers DEF StartsProject
    <2> QED BY <2>1, <2>2 DEF PoolInv, Budget
  <1> QED BY <1>1, <1>2, <1>3, <1>4, <1>5, <1>6 DEF Next, Step

-----------------------------------------------------------------------------
(* What never changes, and what is never forgotten.                         *)

LEMMA GivenNext ==
  ASSUME [Next]_vars
  PROVE  server' = server /\ set' = set /\ failed \subseteq failed'
  <1> USE DEF given, Fails, Answered
  <1>1. CASE AsksAnonymously \/ Inits \/ Tries \/ Accesses \/ Identifies \/ AsksTypes \/ Probes \/ AsksProject
    BY <1>1 DEF AsksAnonymously, Inits, Tries, Accesses, Identifies, AsksTypes, Probes, AsksProject
  <1>2. CASE Widens \/ AsksSchema BY <1>2 DEF Widens, AsksSchema, Schema
  <1>3. CASE Localizes BY <1>3 DEF Localizes
  <1>4. CASE Filtered \/ Takes \/ AsksPaths \/ Resolves \/ StartsProbes \/ StartsProject \/ Assembles \/ Cancels
    BY <1>4 DEF Filtered, Takes, AsksPaths, Resolves, StartsProbes, StartsProject, Assembles, Cancels
  <1>5. CASE UNCHANGED vars BY <1>5 DEF vars
  <1> QED BY <1>1, <1>2, <1>3, <1>4, <1>5 DEF Next, Step

LEMMA LostStays ==
  ASSUME [Next]_vars, NEW f, NEW s, Lost(f, s)
  PROVE  Lost(f, s)'
  BY GivenNext DEF Lost

\* A step outside the bootstrap leaves the candidates and the path of its first
\* phases alone.
LEMMA BootNext ==
  ASSUME PoolInv, BootInv, [Next]_vars
  PROVE  BootInv'
  <1>0. server' = server /\ set' = set /\ failed \subseteq failed' BY GivenNext
  <1>s. /\ Slugs' = Slugs /\ Slugs \subseteq Nat
        /\ (server.home # None => server.home \in Slugs /\ C(server.home).auth /\ C(server.home).endpoints)
        /\ (failed' = {} => failed = {})
    BY <1>0, ServersAssumption DEF Slugs, C, PoolInv
  <1>h. HomeShows' = HomeShows BY <1>0 DEF HomeShows, C
  <1> USE <1>0, <1>s, <1>h DEF Bootstrap
  <1>1. CASE AsksAnonymously
    <2>1. candidates' \subseteq Slugs BY <1>1, <1>s DEF AsksAnonymously, BootInv, ViewOf
    <2>2. phase = "anonymous" /\ phase' = "widen" /\ path' = path /\ schema' = schema /\ auth' = auth
      BY <1>1 DEF AsksAnonymously
    <2>3. ASSUME failed' = {}, server.home # None, 1 \in server.serves, C(server.home).anon
          PROVE  server.home \in candidates'
      <3>1. candidates' = ViewOf(None)
        BY <1>1, <2>3 DEF AsksAnonymously, Fails, BootInv
      <3> QED BY <3>1, <2>3 DEF ViewOf
    <2> QED BY <2>1, <2>2, <2>3 DEF BootInv, HomeKept, C
  <1>2. CASE Widens
    <2> DEFINE all == candidates \cup IF schema' = "ok" THEN {s \in InSchema : C(s).auth} ELSE {}
    <2>1. phase = "widen" /\ UNCHANGED <<candidates, auth, path>> /\ Schema BY <1>2 DEF Widens, who
    <2>2. \/ all = {} /\ phase' = "done"
          \/ phase' = "init" /\ Enqueue(all)
      BY <1>2 DEF Widens, Ends
    <2>3. all \subseteq Slugs BY DEF BootInv, InSchema
    <2>4. ASSUME failed' = {}, server.home # None, 1 \in server.serves, HomeShows, HomeKept
          PROVE  server.home \in all
      <3>1. schema = None /\ path = 1 BY <2>1 DEF BootInv
      <3>2. CASE C(server.home).anon BY <3>2, <2>1, <2>4 DEF HomeKept
      <3>3. CASE server.graphql /\ C(server.home).graphql
        <4>1. schema' = "ok" BY <2>1, <2>4, <3>1, <3>3 DEF Schema, Fails
        <4> QED BY <4>1, <3>3, <2>4 DEF InSchema
      <3> QED BY <2>4, <3>2, <3>3 DEF HomeShows
    <2>5. CASE phase' = "done" BY <2>1, <2>5 DEF BootInv, HomeKept
    <2>6. CASE phase' = "init" /\ Enqueue(all)
      <3> HIDE DEF all
      <3>1. todo' = all /\ busy' = {} /\ DOMAIN got' = {} BY <2>6, Enqueues
      <3> QED BY <2>1, <2>3, <2>4, <2>6, <3>1 DEF BootInv, HomeKept
    <2> QED BY <2>2, <2>5, <2>6
  <1>3. CASE Inits
    <2>1. PICK s \in busy : \/ Fails(<<"init", s>>) /\ Gives(s, FALSE)
                            \/ Answered /\ Gives(s, path \in server.serves /\ C(s).auth /\ C(s).endpoints)
      BY <1>3 DEF Inits
    <2>2. phase = "init" /\ UNCHANGED <<phase, candidates, auth, path, schema>> BY <1>3 DEF Inits, who
    <2>3. /\ todo' = todo /\ busy' = busy \ {s} /\ DOMAIN got' = DOMAIN got \cup {s}
          /\ \A x \in DOMAIN got : got'[x] = got[x]
      BY <2>1, GivesOne
    <2>4. ASSUME failed' = {}, server.home # None, 1 \in server.serves, HomeShows, s = server.home
          PROVE  got'[s]
      <3>1. path = 1 BY <2>2 DEF BootInv
      <3>2. Gives(s, path \in server.serves /\ C(s).auth /\ C(s).endpoints)
        BY <2>1, <2>4 DEF Fails
      <3>3. got'[s] = (path \in server.serves /\ C(s).auth /\ C(s).endpoints) BY <3>2, GivesOne
      <3> QED BY <2>4, <3>1, <3>3
    <2> QED BY <2>2, <2>3, <2>4 DEF BootInv, HomeKept
  <1>4. CASE Filtered
    <2> DEFINE survivors == {s \in DOMAIN got : got[s]}
    <2>1. /\ phase = "init" /\ todo = {} /\ busy = {} /\ UNCHANGED <<auth, path, schema, failed>>
          /\ candidates' = survivors
          /\ phase' = "done" \/ (survivors # {} /\ phase' = "try")
      BY <1>4 DEF Filtered, Waited, Ends
    <2> QED BY <2>1 DEF BootInv, HomeKept
  <1>5. CASE Tries
    <2>1. phase = "try" /\ candidates # {} /\ candidates \subseteq Nat BY <1>5 DEF Tries, BootInv
    <2>2. Min(candidates) \in candidates BY <2>1, MinIsLeast
    <2>3. UNCHANGED <<path, schema>> /\ candidates' = candidates \ {Min(candidates)} BY <1>5 DEF Tries
    <2>4. \/ phase' = "paths0"
          \/ candidates' = {} /\ phase' = "done"
          \/ candidates' # {} /\ phase' = "try" /\ auth' = auth /\ (failed' = {} => Min(candidates) # server.home)
      BY <1>5 DEF Tries, Fails, Ends
    <2> HIDE <1>5
    <2> QED BY <2>1, <2>2, <2>3, <2>4 DEF BootInv, HomeKept
  <1>6. CASE Takes
    <2>1. UNCHANGED <<phase, candidates, auth, path, schema, failed>> BY <1>6 DEF Takes, who
    <2>2. PICK j \in todo : todo' = todo \ {j} /\ busy' = busy \cup {j} /\ got' = got BY <1>6, TakesOne
    <2>3. todo' \cup busy' = todo \cup busy BY <2>2
    <2>4. HomeKept => HomeKept' BY <2>1, <2>2, <2>3 DEF HomeKept, C
    <2> QED BY <2>1, <2>2, <2>3, <2>4 DEF BootInv
  <1>7. CASE AsksPaths \/ Accesses \/ Resolves \/ Identifies
    BY <1>7 DEF AsksPaths, Accesses, Resolves, Identifies, who, Ends, BootInv, HomeKept
  <1>8. CASE AsksSchema \/ AsksTypes \/ StartsProbes \/ Probes \/ StartsProject \/ AsksProject \/ Localizes \/ Assembles
    BY <1>8 DEF AsksSchema, AsksTypes, StartsProbes, Probes, StartsProject, AsksProject, Localizes, Assembles,
       who, BootInv, HomeKept
  <1>9. CASE Cancels \/ UNCHANGED vars BY <1>9 DEF Cancels, vars, who, pool, BootInv, HomeKept, C, Slugs
  <1> QED BY <1>1, <1>2, <1>3, <1>4, <1>5, <1>6, <1>7, <1>8, <1>9 DEF Next, Step

-----------------------------------------------------------------------------
(* The end of a run: nothing changes any more, and only Assembles publishes. *)

LEMMA DoneStays ==
  ASSUME PoolInv, phase = "done", [Next]_vars
  PROVE  UNCHANGED vars
  BY DEF PoolInv, Next, Step, AsksAnonymously, Widens, Inits, Filtered, Tries, Takes, AsksPaths, Accesses,
     Resolves, Identifies, AsksSchema, AsksTypes, StartsProbes, Probes, StartsProject, AsksProject,
     Localizes, Assembles, Cancels

LEMMA IndexStays ==
  ASSUME Step \/ Cancels, ~Assembles
  PROVE  index' = index
  BY DEF Step, AsksAnonymously, Widens, Inits, Filtered, Tries, Takes, AsksPaths, Accesses,
     Resolves, Identifies, AsksSchema, AsksTypes, StartsProbes, Probes, StartsProject, AsksProject,
     Localizes, Cancels, result

\* Since(S) begins with a phase of S, unless nothing changes.
LEMMA SinceBegins ==
  ASSUME PoolInv, IndexInv, [Next]_vars, NEW S, "assemble" \in S, Since(S)'
  PROVE  UNCHANGED vars \/ (phase # "done" /\ (phase' \in S \/ Assembles))
  <1>1. CASE phase = "done" BY <1>1, DoneStays
  <1>2. CASE phase # "done" /\ ~Assembles /\ ~UNCHANGED vars
    <2>1. index' = None BY <1>2, IndexStays DEF Next, IndexInv
    <2> QED BY <2>1, <1>2 DEF Since, Published
  <1> QED BY <1>1, <1>2

LEMMA AssemblesKeeps ==
  ASSUME Assembles
  PROVE  /\ phase = "assemble" /\ phase' = "done" /\ index' = [s \in Rows |-> Row(s)]
         /\ UNCHANGED <<server, set, todo, busy, got, candidates, auth, path, schema, view, viewer, identity,
                        queue, issued, types, probes, project, localization, failed, cancelled, error>>
  BY DEF Assembles, given, pool, who, seen, stage2, stage3

-----------------------------------------------------------------------------
(* The API path and the identity.                                           *)

LEMMA PathNext ==
  ASSUME PoolInv, BootInv, IndexInv, PathInv, [Next]_vars
  PROVE  PathInv'
  <1>0. server' = server /\ set' = set /\ failed \subseteq failed' BY GivenNext
  <1>j. PathJobs' = PathJobs BY <1>0 DEF PathJobs
  <1>1. phase' = "paths" => /\ PathJobs = (todo \cup busy \cup DOMAIN got)'
                            /\ \A p \in (DOMAIN got)' :
                                 IF got'[p] THEN p \in server.serves
                                 ELSE p \in server.serves => Lost("access", p)'
    <2>1. CASE AsksPaths
      <3>1. Enqueue(PathJobs) BY <2>1 DEF AsksPaths, PathJobs
      <3> QED BY <3>1, Enqueues
    <2>2. CASE Accesses
      <3>1. PICK p \in busy : \/ Fails(<<"access", p>>) /\ Gives(p, FALSE)
                              \/ Answered /\ Gives(p, p \in server.serves)
        BY <2>2 DEF Accesses
      <3>2. phase = "paths" BY <2>2 DEF Accesses
      <3>3. /\ todo' = todo /\ busy' = busy \ {p} /\ DOMAIN got' = DOMAIN got \cup {p}
            /\ \A x \in DOMAIN got : got'[x] = got[x]
        BY <3>1, GivesOne
      <3>4. \/ got'[p] = FALSE /\ Lost("access", p)'
            \/ got'[p] = (p \in server.serves)
        BY <3>1, GivesOne DEF Fails, Lost
      <3>5. \A x \in DOMAIN got : Lost("access", x) => Lost("access", x)' BY LostStays
      <3> QED BY <3>2, <3>3, <3>4, <3>5 DEF PathInv
    <2>3. CASE Takes
      <3>1. UNCHANGED <<phase, got>> BY <2>3 DEF Takes
      <3>2. PICK j \in todo : todo' = todo \ {j} /\ busy' = busy \cup {j} /\ got' = got BY <2>3, TakesOne
      <3>3. todo' \cup busy' = todo \cup busy BY <3>2
      <3>4. \A x \in DOMAIN got : Lost("access", x) => Lost("access", x)' BY LostStays
      <3> QED BY <3>1, <3>3, <3>4 DEF PathInv
    <2>4. CASE UNCHANGED vars \/ Cancels BY <2>4 DEF vars, Cancels, pool, given, PathInv, Lost
    <2>5. CASE phase' # "paths" BY <2>5
    <2>6. AsksPaths \/ Accesses \/ Takes \/ UNCHANGED vars \/ Cancels \/ phase' # "paths"
      BY DEF Next, Step, AsksAnonymously, Widens, Inits, Filtered, Tries, Resolves, Identifies, AsksSchema,
         AsksTypes, StartsProbes, Probes, StartsProject, AsksProject, Localizes, Assembles, Ends
    <2> QED BY <2>1, <2>2, <2>3, <2>4, <2>5, <2>6
  <1>2. ASSUME Since({"me"} \cup Known)'
        PROVE  /\ path' \in server.serves
               /\ \A p \in 1 .. path' - 1 : p \in server.serves => Lost("access", p)'
    <2>l. \A p : Lost("access", p) => Lost("access", p)' BY LostStays
    <2>1. CASE Resolves
      <3> DEFINE found == {p \in DOMAIN got : got[p]}
      <3>1. phase = "paths" /\ todo = {} /\ busy = {} BY <2>1 DEF Resolves, Waited
      <3>2. CASE found # {} /\ path' = Chosen(found)
        <4>1. DOMAIN got = PathJobs /\ found \subseteq Nat BY <3>1, BoundsAssumption DEF PathInv, PathJobs
        <4>2. path' \in found /\ \A y \in found : path' <= y BY <3>2, <4>1, MinIsLeast DEF Chosen
        <4>3. ASSUME NEW p \in 1 .. path' - 1, p \in server.serves PROVE Lost("access", p)
          <5>1. p \in DOMAIN got BY <4>1, <4>2, BoundsAssumption DEF PathJobs
          <5>2. p \notin found BY <4>1, <4>2
          <5> QED BY <3>1, <4>3, <5>1, <5>2 DEF PathInv
        <4>4. path' \in server.serves BY <3>1, <4>2 DEF PathInv
        <4> QED BY <2>l, <4>3, <4>4
      <3>3. CASE phase' = "done"
        <4>1. index' = None BY <2>1 DEF Resolves, IndexInv, result
        <4> QED BY <1>2, <3>3, <4>1 DEF Since, Published, Known
      <3> QED BY <2>1, <3>2, <3>3 DEF Resolves, Ends
    <2>2. CASE ~Resolves
      <3>1. Since({"me"} \cup Known) /\ path' = path
        <4>1. CASE UNCHANGED vars BY <1>2, <4>1 DEF vars, Since, Published
        <4>2. CASE Assembles BY <4>2, AssemblesKeeps DEF Since, Known
        <4>3. CASE phase' \in {"me"} \cup Known /\ ~UNCHANGED vars
          BY <2>2, <4>3 DEF Next, Step, AsksAnonymously, Widens, Inits, Filtered, Tries, Takes, AsksPaths, Accesses,
             Identifies, AsksSchema, AsksTypes, StartsProbes, Probes, StartsProject, AsksProject, Localizes,
             Assembles, Cancels, Since, Known, who, Ends
        <4> QED BY <1>2, <4>1, <4>2, <4>3, SinceBegins DEF Known
      <3> QED BY <2>l, <3>1 DEF PathInv
    <2> QED BY <2>1, <2>2
  <1> QED BY <1>0, <1>j, <1>1, <1>2 DEF PathInv

LEMMA SlugsAreNumbers ==
  ASSUME PoolInv
  PROVE  /\ Slugs \subseteq Nat /\ None \notin Slugs
         /\ server.home # None => server.home \in Slugs
         /\ \A s \in Slugs : C(s).endpoints \in BOOLEAN /\ C(s).upload \in BOOLEAN /\ C(s).versions \in BOOLEAN
  BY ServersAssumption, NoneAssumption DEF PoolInv, Slugs, C

\* Whose identity it is and what that sees depend on the server, the settings and
\* the auth collection only.
LEMMA ViewStays ==
  ASSUME server' = server, set' = set, auth' = auth
  PROVE  As(auth)' = As(auth) /\ \A id : ViewOf(id)' = ViewOf(id)
  BY DEF As, ViewOf, Slugs, C

LEMMA IdentityNext ==
  ASSUME PoolInv, BootInv, IndexInv, IdentityInv, [Next]_vars
  PROVE  IdentityInv'
  <1>0. server' = server /\ set' = set BY GivenNext
  <1>1. CASE Tries
    <2>1. /\ phase = "try" /\ candidates # {} /\ candidates \subseteq Nat /\ None \notin candidates
          /\ set.auth = None /\ ~set.anonymous /\ auth = None
      BY <1>1, SlugsAreNumbers DEF Tries, BootInv, Bootstrap
    <2>2. Min(candidates) \in candidates BY <2>1, MinIsLeast
    <2>3. /\ UNCHANGED index
          /\ \/ auth' = Min(candidates) /\ auth' = server.home /\ phase' = "paths0"
             \/ auth' = auth /\ phase' \in {"try", "done"}
      BY <1>1, <2>1 DEF Tries, Ends
    <2>4. index = None BY <2>1 DEF IndexInv
    <2> QED BY <1>0, <2>1, <2>2, <2>3, <2>4 DEF IdentityInv, Since, Published, Known
  <1>2. CASE Resolves
    <2>1. phase = "paths" /\ auth' = auth /\ index' = None
      BY <1>2 DEF Resolves, IndexInv
    <2>2. \/ phase' = "done"
          \/ /\ viewer' = As(auth) /\ view' = ViewOf(As(auth))
             /\ phase' = IF set.anonymous \/ auth = None THEN "stage1" ELSE "me"
      BY <1>2 DEF Resolves, Ends
    <2>3. set.anonymous \/ auth # None BY <2>1 DEF IdentityInv, Since
    <2> HIDE <1>2
    <2> QED BY <1>0, <2>1, <2>2, <2>3, ViewStays DEF IdentityInv, Since, Published, Known
  <1>3. CASE Identifies
    <2>1. phase = "me" /\ UNCHANGED <<auth, view, viewer, index>> /\ index = None
      BY <1>3 DEF Identifies, IndexInv, who
    <2>2. phase' = "done" \/ (phase' = "stage1" /\ As(auth) # None /\ identity' = auth)
      BY <1>3 DEF Identifies, Ends
    <2> HIDE <1>3
    <2> QED BY <1>0, <2>1, <2>2, ViewStays DEF IdentityInv, Since, Published, Known
  <1>4. CASE ~Tries /\ ~Resolves /\ ~Identifies
    <2>1. UNCHANGED <<auth, view, viewer, identity>>
      BY <1>4 DEF Next, Step, AsksAnonymously, Widens, Inits, Filtered, Takes, AsksPaths, Accesses, AsksSchema,
         AsksTypes, StartsProbes, Probes, StartsProject, AsksProject, Localizes, Assembles, Cancels, vars, who, seen
    <2>2. Since(Known)' => Since(Known)
      <3>1. CASE UNCHANGED vars BY <3>1 DEF vars, Since, Published
      <3>2. CASE Assembles BY <3>2, AssemblesKeeps DEF Since, Known
      <3>3. CASE phase' \in Known /\ ~UNCHANGED vars
        BY <1>4, <3>3 DEF Next, Step, AsksAnonymously, Widens, Inits, Filtered, Takes, AsksPaths, Accesses,
           AsksSchema, AsksTypes, StartsProbes, Probes, StartsProject, AsksProject, Localizes,
           Assembles, Cancels, Since, Known, Ends
      <3> QED BY <3>1, <3>2, <3>3, SinceBegins DEF Known
    <2>3. phase' = "me" => phase = "me"
      BY <1>4 DEF Next, Step, AsksAnonymously, Widens, Inits, Filtered, Takes, AsksPaths, Accesses,
           AsksSchema, AsksTypes, StartsProbes, Probes, StartsProject, AsksProject, Localizes,
           Assembles, Cancels, Ends, vars
    <2>4. phase' \in {"paths0", "paths"} => phase \in {"paths0", "paths"}
      BY <1>4 DEF Next, Step, AsksAnonymously, Widens, Inits, Filtered, Takes, AsksPaths, Accesses,
           AsksSchema, AsksTypes, StartsProbes, Probes, StartsProject, AsksProject, Localizes,
           Assembles, Cancels, Ends, vars
    <2> HIDE <1>4
    <2> QED BY <1>0, <2>1, <2>2, <2>3, <2>4, ViewStays DEF IdentityInv, Since
  <1> QED BY <1>1, <1>2, <1>3, <1>4

-----------------------------------------------------------------------------
(* The errors.                                                              *)

\* An error keeps its cause: what got lost stays lost.
LEMMA ErrorsStay ==
  ASSUME ErrorsTrue, [Next]_vars, error' = error
  PROVE  ErrorsTrue'
  BY GivenNext DEF ErrorsTrue, Lost, C

LEMMA ErrorsNext ==
  ASSUME PoolInv, BootInv, PathInv, IdentityInv, ErrorsTrue, [Next]_vars
  PROVE  ErrorsTrue'
  <1>0. server' = server /\ set' = set /\ failed \subseteq failed' BY GivenNext
  <1>c. (C(server.home)' = C(server.home)) /\ (HomeShows' = HomeShows) BY <1>0 DEF C, HomeShows
  <1>1. CASE error' = error BY <1>1, ErrorsStay
  <1>2. CASE error' = "auth_collection_unknown" /\ (Widens \/ Filtered \/ Tries)
    <2>1. phase \in {"widen", "init", "try"} BY <1>2 DEF Widens, Filtered, Tries
    <2>2. phase' = "done" \/ error' = error BY <1>2 DEF Widens, Filtered, Tries, Ends
    <2>3. set.auth = None BY <2>1 DEF BootInv, Bootstrap
    <2>4. ASSUME failed' = {}, server.home # None, 1 \in server.serves, HomeShows, phase' = "done" PROVE FALSE
      <3>0. failed = {} /\ HomeKept BY <1>0, <2>4 DEF BootInv
      <3>h. server.home \in Slugs BY <2>4, SlugsAreNumbers
      <3>a. C(server.home).auth BY <2>4, ServersAssumption DEF PoolInv, C
      <3>1. CASE Widens
        <4>1. /\ phase = "widen" /\ Schema
              /\ candidates \cup (IF schema' = "ok" THEN {s \in InSchema : C(s).auth} ELSE {}) = {}
          BY <2>4, <3>1 DEF Widens
        <4>2. ~C(server.home).anon BY <3>0, <4>1 DEF HomeKept
        <4>3. schema = None /\ path = 1 BY <4>1 DEF BootInv, Bootstrap
        <4>4. schema' = "ok" BY <2>4, <4>1, <4>2, <4>3 DEF Schema, Fails, HomeShows
        <4>5. server.home \in {s \in InSchema : C(s).auth} BY <2>4, <3>h, <3>a, <4>2 DEF HomeShows, InSchema
        <4> QED BY <4>1, <4>4, <4>5
      <3>2. CASE Filtered
        <4>1. phase = "init" /\ todo = {} /\ busy = {} /\ {s \in DOMAIN got : got[s]} = {}
          BY <2>4, <3>2 DEF Filtered, Waited
        <4> QED BY <3>0, <4>1 DEF HomeKept
      <3>3. CASE Tries
        <4>1. phase = "try" /\ candidates \ {Min(candidates)} = {} BY <2>4, <3>3 DEF Tries
        <4>2. server.home \in candidates BY <3>0, <4>1 DEF HomeKept
        <4>3. Min(candidates) = server.home BY <4>1, <4>2
        <4>4. failed' # {} BY <2>4, <3>3, <4>3 DEF Tries, Fails
        <4> QED BY <2>4, <4>4
      <3> QED BY <1>2, <3>1, <3>2, <3>3
    <2>5. CASE phase' = "done"
      BY <1>0, <1>2, <1>c, <2>3, <2>4, <2>5 DEF ErrorsTrue, HomeShows
    <2> QED BY <1>1, <2>2, <2>5
  <1>3. CASE error' = "endpoint_not_payload" /\ Resolves
    <2>1. phase = "paths" /\ todo = {} /\ busy = {} /\ (error' = error \/ {p \in DOMAIN got : got[p]} = {})
      BY <1>3 DEF Resolves, Waited
    <2>2. CASE {p \in DOMAIN got : got[p]} = {}
      <3>1. \A p \in PathJobs \cap server.serves : Lost("access", p) BY <2>1, <2>2 DEF PathInv
      <3>2. \A p : Lost("access", p) => Lost("access", p)' BY LostStays
      <3> QED BY <1>0, <1>3, <3>1, <3>2 DEF ErrorsTrue, PathJobs
    <2> QED BY <1>1, <2>1, <2>2
  <1>4. CASE error' = "auth_invalid" /\ Identifies
    <2>1. phase = "me" /\ (error' = error \/ Fails(<<"me", 0>>) \/ As(auth) = None)
      BY <1>4 DEF Identifies
    <2>2. CASE Fails(<<"me", 0>>) BY <1>0, <1>4, <2>2 DEF Fails, ErrorsTrue, Lost
    <2>3. CASE As(auth) = None
      <3>1. auth # server.home \/ server.home = None
        BY <2>1, <2>3 DEF As, IdentityInv, Since
      <3>2. (auth # None /\ auth = set.auth) \/ server.home = None
        BY <2>1, <3>1 DEF IdentityInv, Since
      <3> QED BY <1>0, <1>4, <3>1, <3>2 DEF ErrorsTrue
    <2> QED BY <1>1, <2>1, <2>2, <2>3
  <1>5. \/ error' = error
        \/ error' = "auth_collection_unknown" /\ (Widens \/ Filtered \/ Tries)
        \/ error' = "endpoint_not_payload" /\ Resolves
        \/ error' = "auth_invalid" /\ Identifies
    BY DEF Next, Step, AsksAnonymously, Widens, Inits, Filtered, Tries, Takes, AsksPaths, Accesses,
       Resolves, Identifies, AsksSchema, AsksTypes, StartsProbes, Probes, StartsProject, AsksProject,
       Localizes, Assembles, Cancels, result, vars, Ends
  <1> QED BY <1>1, <1>2, <1>3, <1>4, <1>5

-----------------------------------------------------------------------------
(* The probes.                                                              *)

\* What is asked of a collection, and what its answers say, depend on these only.
LEMMA NeedStays ==
  ASSUME UNCHANGED <<server, set, auth, view, schema, types>>
  PROVE  /\ ProbeJobs' = ProbeJobs /\ Rows' = Rows
         /\ \A s : Need(s)' = Need(s)
         /\ \A s, lost : Probed(s, lost)' = Probed(s, lost)
  BY DEF ProbeJobs, Rows, Entities, InSchema, Slugs, C, Need, Probed, Unprobed, Open, ViewOf, As

\* TrulyAfter is ProbedTruly of the state a step leads to.
TrulyAfter(s, answer) ==
  \E lost \in SUBSET ({"guard"} \cup Need(s)') :
    answer = Probed(s, lost)' /\ \A f \in lost : Lost(f, s)'

LEMMA ProbedStays ==
  ASSUME [Next]_vars, UNCHANGED <<auth, view, schema, types>>
  PROVE  \A s, answer : ProbedTruly(s, answer) => TrulyAfter(s, answer)
  <1> SUFFICES ASSUME NEW s, NEW answer, ProbedTruly(s, answer) PROVE TrulyAfter(s, answer)
    OBVIOUS
  <1>1. PICK lost \in SUBSET ({"guard"} \cup Need(s)) :
          answer = Probed(s, lost) /\ \A f \in lost : Lost(f, s)
    BY DEF ProbedTruly
  <1>2. Need(s)' = Need(s) /\ Probed(s, lost)' = Probed(s, lost) BY NeedStays, GivenNext
  <1>3. \A f \in lost : Lost(f, s)' BY <1>1, LostStays
  <1> QED BY <1>1, <1>2, <1>3 DEF TrulyAfter

\* What ProbeInv says of the state a step leads to.
LEMMA ProbeAfter ==
  ASSUME phase' = "probe" => /\ ProbeJobs' = todo' \cup busy' \cup DOMAIN got'
                             /\ \A s \in DOMAIN got' : TrulyAfter(s, got'[s]),
         Since({"project", "assemble"})' => /\ ProbeJobs' = DOMAIN probes'
                                            /\ \A s \in DOMAIN probes' : TrulyAfter(s, probes'[s])
  PROVE  ProbeInv'
  BY DEF ProbeInv, ProbedTruly, TrulyAfter

LEMMA ProbeNext ==
  ASSUME PoolInv, IndexInv, ProbeInv, [Next]_vars
  PROVE  ProbeInv'
  <1>1. CASE StartsProbes
    <2>1. UNCHANGED <<server, set, auth, view, schema, types>> /\ Enqueue(ProbeJobs) /\ phase' = "probe"
      BY <1>1 DEF StartsProbes, given, who, seen, stage2, ProbeJobs
    <2>2. index' = None BY <1>1 DEF StartsProbes, IndexInv, result
    <2> QED BY <2>1, <2>2, NeedStays, Enqueues, ProbeAfter DEF ProbeInv, Since, Published
  <1>2. CASE Probes
    <2>1. /\ phase = "probe" /\ phase' = "probe" /\ index' = None
          /\ UNCHANGED <<server, set, auth, view, schema, types, probes>>
      BY <1>2 DEF Probes, given, who, seen, stage2, stage3, result, IndexInv
    <2>s. PICK s \in busy : \E lost \in SUBSET ({"guard"} \cup Need(s)) :
            failed' = failed \cup {<<f, s>> : f \in lost} /\ Gives(s, Probed(s, lost))
      BY <1>2 DEF Probes
    <2>2. PICK lost \in SUBSET ({"guard"} \cup Need(s)) :
            failed' = failed \cup {<<f, s>> : f \in lost} /\ Gives(s, Probed(s, lost))
      BY <2>s
    <2>3. /\ todo' = todo /\ busy' = busy \ {s} /\ DOMAIN got' = DOMAIN got \cup {s}
          /\ got'[s] = Probed(s, lost) /\ \A x \in DOMAIN got : got'[x] = got[x]
      BY <2>2, GivesOne
    <2>4. \A f \in lost : Lost(f, s)' BY <2>2 DEF Lost
    <2>5. TrulyAfter(s, got'[s])
      <3>1. Need(s)' = Need(s) /\ Probed(s, lost)' = Probed(s, lost) BY <2>1, NeedStays
      <3> QED BY <2>2, <2>3, <2>4, <3>1 DEF TrulyAfter
    <2>6. \A x \in DOMAIN got : TrulyAfter(x, got'[x]) BY <2>1, <2>3, ProbedStays DEF ProbeInv
    <2>7. ProbeJobs' = (todo \cup busy \cup DOMAIN got)' BY <2>1, <2>3, NeedStays DEF ProbeInv
    <2>8. \A x \in (DOMAIN got)' : TrulyAfter(x, got'[x]) BY <2>3, <2>5, <2>6
    <2> QED BY <2>1, <2>7, <2>8, ProbeAfter DEF ProbeInv, Since, Published
  <1>3. CASE Takes
    <2>1. UNCHANGED <<server, set, auth, view, schema, types, probes, phase, got, index>>
      BY <1>3 DEF Takes, given, who, seen, stage2, stage3, result
    <2>2. PICK j \in todo : todo' = todo \ {j} /\ busy' = busy \cup {j} BY <1>3, TakesOne
    <2>3. todo' \cup busy' = todo \cup busy BY <2>2
    <2> QED BY <2>1, <2>3, NeedStays, ProbedStays, ProbeAfter DEF ProbeInv, Since, Published
  <1>4. CASE StartsProject
    <2>1. /\ phase = "probe" /\ phase' = "project" /\ probes' = got /\ todo = {} /\ busy = {}
          /\ UNCHANGED <<server, set, auth, view, schema, types>>
      BY <1>4 DEF StartsProject, Waited, given, who, seen, stage2
    <2>2. ProbeJobs' = DOMAIN probes' BY <2>1, NeedStays DEF ProbeInv
    <2>3. \A s \in DOMAIN probes' : TrulyAfter(s, probes'[s]) BY <2>1, ProbedStays DEF ProbeInv
    <2> QED BY <2>1, <2>2, <2>3, ProbeAfter DEF ProbeInv
  <1>5. CASE ~StartsProbes /\ ~Probes /\ ~Takes /\ ~StartsProject
    <2>1. CASE UNCHANGED vars BY <2>1, NeedStays, ProbedStays, ProbeAfter DEF vars, ProbeInv, Since, Published
    <2>2. CASE Cancels
      <3>1. UNCHANGED <<server, set, auth, view, schema, types, probes, phase, todo, busy, got, index>>
        BY <2>2 DEF Cancels, given, pool, who, seen, stage2, stage3, result
      <3> QED BY <3>1, NeedStays, ProbedStays, ProbeAfter DEF ProbeInv, Since, Published
    <2>3. CASE AsksProject \/ Localizes \/ Assembles
      <3>1. /\ phase \in {"project", "assemble"} /\ phase' # "probe"
            /\ UNCHANGED <<server, set, auth, view, schema, types, probes>>
        BY <2>3 DEF AsksProject, Localizes, Assembles, given, who, seen, stage2, stage3
      <3> QED BY <3>1, NeedStays, ProbedStays, ProbeAfter DEF ProbeInv, Since
    <2>4. CASE ~UNCHANGED vars /\ ~Cancels /\ ~AsksProject /\ ~Localizes /\ ~Assembles
      <3>1. phase' # "probe" /\ phase' \notin {"project", "assemble"}
        BY <1>5, <2>4 DEF Next, Step, AsksAnonymously, Widens, Inits, Filtered, Tries, AsksPaths, Accesses,
           Resolves, Identifies, AsksSchema, AsksTypes, Ends
      <3>2. ~Since({"project", "assemble"})' BY <2>4, <3>1, SinceBegins
      <3> QED BY <3>1, <3>2 DEF ProbeInv
    <2> QED BY <2>1, <2>2, <2>3, <2>4
  <1> QED BY <1>1, <1>2, <1>3, <1>4, <1>5

-----------------------------------------------------------------------------
(* The project-wide routes.                                                 *)

\* RouteInv of the state a step leads to.
ToldAfter(r, answer) ==
  IF Lost("route", r)' THEN answer = None ELSE answer = (r \in server'.routes)

RouteAfter ==
  /\ ~Since({"project", "assemble"})' /\ phase' # "done" => \A r \in Routes : ~Lost("route", r)'
  /\ phase' = "project" =>
       /\ todo' = {} /\ Routes = busy' \cup DOMAIN got'
       /\ \A r \in busy' : ~Lost("route", r)'
       /\ \A r \in DOMAIN got' : ToldAfter(r, got'[r])
  /\ Since({"assemble"})' => \A r \in Routes : ToldAfter(r, project'[r])

\* A request that is not for a route loses none.
LEMMA RoutesStay ==
  ASSUME PoolInv, [Next]_vars, ~AsksProject, NEW r
  PROVE  Lost("route", r)' <=> Lost("route", r)
  <1>1. CASE Localizes \/ Probes
    <2>1. CASE Localizes
      <3>1. failed' = failed \/ \E S : failed' = failed \cup {<<"sample", s>> : s \in S}
        BY <2>1 DEF Localizes
      <3> QED BY <3>1 DEF Lost
    <2>2. CASE Probes
      <3>1. PICK s \in busy : \E lost \in SUBSET ({"guard"} \cup Need(s)) : failed' = failed \cup {<<f, s>> : f \in lost}
        BY <2>2 DEF Probes
      <3>2. PICK lost \in SUBSET ({"guard"} \cup Need(s)) : failed' = failed \cup {<<f, s>> : f \in lost}
        BY <3>1
      <3>3. "route" \notin lost BY <3>2 DEF Need
      <3> QED BY <3>2, <3>3 DEF Lost
    <2> QED BY <1>1, <2>1, <2>2
  <1>2. CASE ~Localizes /\ ~Probes
    <2>1. failed' = failed \/ \E f, s : f # "route" /\ failed' = failed \cup {<<f, s>>}
      BY <1>2 DEF Next, Step, AsksAnonymously, Widens, Inits, Filtered, Tries, Takes, AsksPaths, Accesses,
         Resolves, Identifies, AsksSchema, AsksTypes, StartsProbes, StartsProject, Assembles, Cancels,
         Fails, Answered, Schema, vars
    <2> QED BY <2>1 DEF Lost
  <1> QED BY <1>1, <1>2

LEMMA RouteNext ==
  ASSUME PoolInv, IndexInv, RouteInv, [Next]_vars
  PROVE  RouteInv'
  <1> SUFFICES RouteAfter BY DEF RouteAfter, RouteInv, RouteTold, ToldAfter
  <1>0. server' = server BY GivenNext
  <1>1. CASE StartsProject
    <2>1. phase = "probe" /\ phase' = "project" /\ todo' = {} /\ busy' = Routes /\ DOMAIN got' = {} /\ index' = None
      BY <1>1, NoAnswers DEF StartsProject, IndexInv, result
    <2>2. \A r \in Routes : ~Lost("route", r)' BY <1>1, <2>1, RoutesStay DEF RouteInv, Since, Published, AsksProject
    <2> QED BY <2>1, <2>2 DEF RouteAfter, RouteInv, Since, Published
  <1>2. CASE AsksProject
    <2>1. PICK r \in busy : \/ Fails(<<"route", r>>) /\ Gives(r, None)
                            \/ Answered /\ Gives(r, r \in server.routes)
      BY <1>2 DEF AsksProject
    <2>2. phase = "project" /\ phase' = "project" /\ index' = None BY <1>2 DEF AsksProject, IndexInv, result
    <2>3. /\ todo' = todo /\ busy' = busy \ {r} /\ DOMAIN got' = DOMAIN got \cup {r}
          /\ \A x \in DOMAIN got : got'[x] = got[x]
          /\ r \notin DOMAIN got
      BY <2>1, GivesOne
    <2>4. \A x : x # r => (Lost("route", x)' <=> Lost("route", x)) BY <2>1 DEF Fails, Answered, Lost
    <2>5. ToldAfter(r, got'[r])
      <3>1. ~Lost("route", r) BY <2>2 DEF RouteInv
      <3> QED BY <1>0, <2>1, <3>1, GivesOne DEF Fails, Answered, Lost, ToldAfter
    <2>6. \A x \in DOMAIN got : ToldAfter(x, got'[x]) BY <1>0, <2>2, <2>3, <2>4 DEF RouteInv, RouteTold, ToldAfter
    <2>7. \A x \in busy' : ~Lost("route", x)' BY <2>2, <2>3, <2>4 DEF RouteInv
    <2>8. todo' = {} /\ Routes = busy' \cup DOMAIN got' BY <2>2, <2>3 DEF RouteInv
    <2> QED BY <2>2, <2>3, <2>5, <2>6, <2>7, <2>8 DEF RouteAfter, RouteInv, Since, Published
  <1>3. CASE Takes
    <2>1. UNCHANGED <<server, project, phase, got, index, failed>> BY <1>3 DEF Takes, given, stage3, result
    <2>2. todo # {} BY <1>3, TakesOne
    <2>4. phase # "project" BY <2>2 DEF RouteInv
    <2> QED BY <2>1, <2>4 DEF RouteAfter, RouteInv, Since, Published, RouteTold, ToldAfter, Lost
  <1>4. CASE Localizes
    <2>1. /\ phase = "project" /\ phase' = "assemble" /\ project' = got /\ todo = {} /\ busy = {}
      BY <1>4 DEF Localizes, Waited
    <2>2. \A r : Lost("route", r)' <=> Lost("route", r) BY <1>4, <2>1, RoutesStay DEF AsksProject, Localizes
    <2> QED BY <1>0, <2>1, <2>2 DEF RouteAfter, RouteInv, RouteTold, ToldAfter, Since
  <1>5. CASE ~StartsProject /\ ~AsksProject /\ ~Takes /\ ~Localizes
    <2>1. \A r : Lost("route", r)' <=> Lost("route", r) BY <1>5, RoutesStay
    <2>2. CASE UNCHANGED vars BY <2>2 DEF vars, RouteAfter, RouteInv, Since, Published, RouteTold, ToldAfter, Lost
    <2>3. CASE Cancels
      BY <2>1, <2>3, <1>0 DEF Cancels, pool, stage3, result, RouteAfter, RouteInv, Since, Published, RouteTold, ToldAfter
    <2>4. CASE Assembles
      BY <2>1, <2>4, <1>0, AssemblesKeeps DEF RouteAfter, RouteInv, Since, Published, RouteTold, ToldAfter
    <2>5. CASE ~UNCHANGED vars /\ ~Cancels /\ ~Assembles
      <3>1. phase' \notin {"project", "assemble"} /\ phase \notin {"project", "assemble", "done"}
        BY <1>5, <2>5 DEF Next, Step, AsksAnonymously, Widens, Inits, Filtered, Tries, AsksPaths, Accesses,
           Resolves, Identifies, AsksSchema, AsksTypes, StartsProbes, Probes, Ends
      <3>2. ~Since({"project", "assemble"})' /\ ~Since({"assemble"})' BY <2>5, <3>1, SinceBegins
      <3>3. ~Since({"project", "assemble"}) BY <3>1 DEF Since, Published
      <3> QED BY <2>1, <3>1, <3>2, <3>3 DEF RouteAfter, RouteInv
    <2> QED BY <2>2, <2>3, <2>4, <2>5
  <1> QED BY <1>1, <1>2, <1>3, <1>4, <1>5

-----------------------------------------------------------------------------
(* The locales.                                                             *)

LEMMA EnabledIs ==
  Enabled = None \/ (Enabled = TRUE /\ server.locales # {}) \/ (Enabled = FALSE /\ server.locales = {})
  <1>1. CASE schema # "ok" \/ InSchema = {} BY <1>1 DEF Enabled
  <1>2. CASE ~(schema # "ok" \/ InSchema = {}) /\ server.locales = {} BY <1>2 DEF Enabled
  <1>3. CASE ~(schema # "ok" \/ InSchema = {}) /\ server.locales # {} BY <1>3 DEF Enabled
  <1> QED BY <1>1, <1>2, <1>3

LEMMA LocalizationKnown ==
  ASSUME NEW codes
  PROVE  /\ Localization(codes).enabled = FALSE => server.locales = {}
         /\ Localization(codes).enabled = TRUE =>
              server.locales # {} \/ Localization(codes).source = "unverified"
  <1> DEFINE r == ResolvedLocales(codes)
  <1>1. /\ Localization(codes).source = r.source
        /\ Enabled = None /\ r.source \in {"locale_all", "unverified"} => Localization(codes).enabled = TRUE
        /\ ~(Enabled = None /\ r.source \in {"locale_all", "unverified"}) => Localization(codes).enabled = Enabled
    BY DEF Localization
  <1>2. r.source = "locale_all" => server.locales # {}
    <2>1. r.source = "locale_all" => CrossValidated(codes) BY DEF ResolvedLocales
    <2>2. EnumNames # {} => server.locales # {} BY DEF EnumNames
    <2> QED BY <2>1, <2>2 DEF CrossValidated
  <1>3. Enabled = None \/ (Enabled = TRUE /\ server.locales # {}) \/ (Enabled = FALSE /\ server.locales = {})
    BY EnabledIs
  <1>4. None # TRUE /\ None # FALSE BY NoneAssumption
  <1> HIDE DEF r
  <1>5. CASE Enabled = None
    <2>1. CASE r.source \in {"locale_all", "unverified"} BY <1>1, <1>2, <1>5, <2>1
    <2>2. CASE r.source \notin {"locale_all", "unverified"}
      <3>1. Localization(codes).enabled = None BY <1>1, <1>5, <2>2
      <3> QED BY <1>4, <3>1
    <2> QED BY <2>1, <2>2
  <1>6. CASE Enabled = TRUE /\ server.locales # {} BY <1>1, <1>4, <1>6
  <1>7. CASE Enabled = FALSE /\ server.locales = {} BY <1>1, <1>4, <1>7
  <1> QED BY <1>3, <1>5, <1>6, <1>7

LEMMA LocaleNext ==
  ASSUME PoolInv, IndexInv, LocaleInv, [Next]_vars
  PROVE  LocaleInv'
  <1>0. server' = server BY GivenNext
  <1>1. CASE Localizes
    <2>1. \/ Enabled = FALSE /\ localization' = Unlocalized
          \/ \E codes : localization' = Localization(codes)
      BY <1>1 DEF Localizes
    <2>2. None # FALSE BY NoneAssumption
    <2>3. CASE Enabled = FALSE /\ localization' = Unlocalized
      <3>1. server.locales = {} /\ localization'.enabled = FALSE BY <2>2, <2>3, EnabledIs DEF Unlocalized
      <3> QED BY <1>0, <3>1 DEF LocaleInv, LocalesKnown
    <2>4. CASE \E codes : localization' = Localization(codes)
      <3>1. PICK codes : localization' = Localization(codes) BY <2>4
      <3>2. /\ localization'.enabled = FALSE => server.locales = {}
            /\ localization'.enabled = TRUE => server.locales # {} \/ localization'.source = "unverified"
        BY <3>1, LocalizationKnown
      <3> QED BY <1>0, <3>2 DEF LocaleInv, LocalesKnown
    <2> QED BY <2>1, <2>3, <2>4
  <1>2. CASE ~Localizes
    <2>1. CASE UNCHANGED vars BY <2>1 DEF vars, LocaleInv, LocalesKnown, Since, Published
    <2>2. CASE Assembles BY <2>2, AssemblesKeeps DEF LocaleInv, LocalesKnown, Since
    <2>3. CASE Cancels BY <2>3, <1>0 DEF Cancels, stage3, result, LocaleInv, LocalesKnown, Since, Published
    <2>4. CASE Takes BY <2>4, <1>0 DEF Takes, stage3, result, LocaleInv, LocalesKnown, Since, Published
    <2>5. CASE ~UNCHANGED vars /\ ~Assembles /\ ~Cancels /\ ~Takes
      <3>1. phase' # "assemble"
        BY <1>2, <2>5 DEF Next, Step, AsksAnonymously, Widens, Inits, Filtered, Tries, AsksPaths, Accesses,
           Resolves, Identifies, AsksSchema, AsksTypes, StartsProbes, Probes, StartsProject, AsksProject, Ends
      <3>2. ~Since({"assemble"})' BY <2>5, <3>1, SinceBegins
      <3> QED BY <3>2 DEF LocaleInv
    <2> QED BY <2>1, <2>2, <2>3, <2>4, <2>5
  <1> QED BY <1>1, <1>2

-----------------------------------------------------------------------------
(* The index.                                                               *)

LEMMA RowStays ==
  ASSUME UNCHANGED <<server, schema, view, types, probes>>
  PROVE  Rows' = Rows /\ \A s : Row(s)' = Row(s)
  BY DEF Rows, Row, Entities, InSchema, Slugs, C, Reachability

LEMMA IndexNext ==
  ASSUME PoolInv, IndexInv, [Next]_vars
  PROVE  IndexInv'
  <1>1. CASE UNCHANGED vars BY <1>1, RowStays DEF vars, IndexInv, Published
  <1>2. CASE Assembles BY <1>2, AssemblesKeeps, RowStays DEF IndexInv, Published
  <1>3. CASE ~UNCHANGED vars /\ ~Assembles
    <2>1. phase # "done" BY <1>3, DoneStays
    <2>2. index' = None BY <1>3, <2>1, IndexStays DEF IndexInv, Next
    <2> QED BY <2>2 DEF IndexInv, Published
  <1> QED BY <1>1, <1>2, <1>3

LEMMA DiscoveryNext ==
  ASSUME DiscoveryInv, [Next]_vars
  PROVE  DiscoveryInv'
  BY PoolNext, BootNext, PathNext, IdentityNext, ErrorsNext, ProbeNext, RouteNext, LocaleNext, IndexNext
     DEF DiscoveryInv

LEMMA DiscoveryInvariant == Spec => []DiscoveryInv
  BY DiscoveryInit, DiscoveryNext, PTL DEF Spec

-----------------------------------------------------------------------------
(* What the invariant says of an index.                                     *)

\* A flag that a published row has wrong has lost the request that tells it.
LEMMA RowTrue ==
  ASSUME DiscoveryInv, Published, NEW s \in Rows \cap view
  PROVE  LET r == Row(s)
         IN  /\ r.off = TRUE => ~C(s).endpoints
             /\ r.upload # C(s).upload => (r.upload = None /\ ~C(s).endpoints) \/ Lost("upload", s)
             /\ r.versions # C(s).versions => (r.versions = None /\ ~C(s).endpoints) \/ Lost("versions", s)
  <1>1. /\ s \in Slugs /\ Open(s)
    <2>1. view = ViewOf(As(auth)) BY DEF DiscoveryInv, IdentityInv, Since
    <2> QED BY <2>1 DEF ViewOf, Open
  <1>2. C(s).endpoints \in BOOLEAN /\ C(s).upload \in BOOLEAN /\ C(s).versions \in BOOLEAN
    BY <1>1, SlugsAreNumbers DEF DiscoveryInv
  <1>n. C(s).endpoints # None /\ C(s).upload # None /\ C(s).versions # None /\ None # TRUE /\ None # FALSE
    BY <1>2, NoneAssumption
  <1>3. s \in DOMAIN probes <=> Need(s) # {}
    BY DEF DiscoveryInv, ProbeInv, Since, ProbeJobs
  <1>4. s \in DOMAIN probes => ProbedTruly(s, probes[s])
    BY DEF DiscoveryInv, ProbeInv, Since
  <1> DEFINE probe == IF s \in DOMAIN probes THEN probes[s] ELSE Unprobed
  <1>5. /\ probe.off = TRUE => ~C(s).endpoints
        /\ "upload" \in Need(s) => \/ probe.upload = C(s).upload
                                   \/ probe.upload = None /\ ~C(s).endpoints
                                   \/ Lost("upload", s)
        /\ "versions" \in Need(s) => \/ probe.versions = C(s).versions
                                     \/ probe.versions = None /\ ~C(s).endpoints
                                     \/ Lost("versions", s)
    <2>1. CASE Need(s) = {}
      <3>1. probe = Unprobed BY <1>3, <2>1
      <3> HIDE DEF probe
      <3> QED BY <2>1, <3>1, <1>n DEF Unprobed
    <2>2. CASE Need(s) # {}
      <3>1. probe = probes[s] /\ ProbedTruly(s, probes[s]) BY <1>3, <1>4, <2>2
      <3>2. PICK lost \in SUBSET ({"guard"} \cup Need(s)) : probe = Probed(s, lost) /\ \A f \in lost : Lost(f, s)
        BY <3>1 DEF ProbedTruly
      <3> HIDE DEF probe
      <3>3. CASE "guard" \notin lost /\ ~C(s).endpoints
        <4>1. probe = [Unprobed EXCEPT !.off = TRUE] BY <3>2, <3>3 DEF Probed
        <4> QED BY <4>1, <3>3 DEF Unprobed
      <3>4. CASE ~("guard" \notin lost /\ ~C(s).endpoints) /\ ~C(s).endpoints /\ Need(s) \ lost # {}
        <4>1. probe = [Unprobed EXCEPT !.off = TRUE,
                         !.upload = IF "upload" \in Need(s) /\ "upload" \in lost THEN TRUE ELSE None]
          BY <3>2, <3>4 DEF Probed
        <4>2. probe.versions = None /\ (probe.upload = None \/ "upload" \in lost) BY <4>1 DEF Unprobed
        <4> QED BY <3>2, <3>4, <4>2
      <3>5. CASE ~("guard" \notin lost /\ ~C(s).endpoints) /\ ~(~C(s).endpoints /\ Need(s) \ lost # {})
        <4>1. probe = [off      |-> FALSE,
                       upload   |-> IF "upload" \notin Need(s) THEN None
                                    ELSE IF "upload" \in lost THEN TRUE ELSE C(s).upload,
                       versions |-> IF "versions" \notin Need(s) THEN None
                                    ELSE IF "versions" \in lost THEN FALSE ELSE C(s).versions /\ Open(s)]
          BY <3>2, <3>5 DEF Probed
        <4>2. (C(s).versions /\ Open(s)) = C(s).versions BY <1>1, <1>2
        <4>3. probe.off = FALSE BY <4>1
        <4>4. "upload" \in Need(s) => probe.upload = C(s).upload \/ "upload" \in lost BY <4>1
        <4>5. "versions" \in Need(s) => probe.versions = C(s).versions \/ "versions" \in lost BY <4>1, <4>2
        <4> QED BY <3>2, <4>3, <4>4, <4>5
      <3> QED BY <3>3, <3>4, <3>5
    <2> QED BY <2>1, <2>2
  <1>6. Row(s).off = probe.off BY DEF Row
  <1>7. Row(s).upload = IF s \in types THEN C(s).upload ELSE probe.upload BY <1>n DEF Row, Taken
  <1>8. Row(s).versions = IF s \in Entities THEN C(s).versions
                          ELSE IF probe.versions = None /\ s \in view /\ C(s).versions THEN TRUE ELSE probe.versions
    BY <1>n, <1>2 DEF Row, Taken
  <1>9. (s \notin types => "upload" \in Need(s)) /\ (s \notin Entities => "versions" \in Need(s)) BY DEF Need
  <1> HIDE DEF probe
  <1> QED BY <1>2, <1>n, <1>5, <1>6, <1>7, <1>8, <1>9

LEMMA IndexHolds ==
  ASSUME DiscoveryInv
  PROVE  RoutesTrue /\ FirstPath /\ OwnView /\ FlagsTrue /\ ErrorsTrue /\ Budget
  <1>1. RoutesTrue BY DEF DiscoveryInv, RouteInv, RoutesTrue, RouteTold, Since
  <1>2. FirstPath BY DEF DiscoveryInv, PathInv, FirstPath, Since
  <1>3. OwnView
    <2> SUFFICES ASSUME Published PROVE /\ ~set.anonymous => viewer = server.home /\ identity = server.home /\ identity # None
                                        /\ ViewOf(viewer) \subseteq DOMAIN index
                                        /\ \A s \in DOMAIN index : s \in ViewOf(viewer) \/ C(s).graphql
      BY DEF OwnView
    <2>1. viewer = As(auth) /\ view = ViewOf(viewer) /\ (~set.anonymous => As(auth) # None /\ identity = auth)
      BY DEF DiscoveryInv, IdentityInv, Since
    <2>2. DOMAIN index = Rows BY DEF DiscoveryInv, IndexInv
    <2>3. \A s \in Rows : s \in view \/ C(s).graphql BY DEF Rows, Entities, InSchema
    <2>4. As(auth) # None => As(auth) = server.home /\ auth = server.home BY DEF As
    <2>5. view \subseteq Rows BY DEF Rows
    <2> QED BY <2>1, <2>2, <2>3, <2>4, <2>5
  <1>4. FlagsTrue
    <2> SUFFICES ASSUME Published, NEW s \in DOMAIN index \cap view
                 PROVE  LET r == index[s]
                        IN  /\ r.off = TRUE => ~C(s).endpoints
                            /\ r.upload # C(s).upload => (r.upload = None /\ ~C(s).endpoints) \/ Lost("upload", s)
                            /\ r.versions # C(s).versions => (r.versions = None /\ ~C(s).endpoints) \/ Lost("versions", s)
      BY DEF FlagsTrue
    <2>1. s \in Rows \cap view /\ index[s] = Row(s) BY DEF DiscoveryInv, IndexInv
    <2> QED BY <2>1, RowTrue
  <1> QED BY <1>1, <1>2, <1>3, <1>4 DEF DiscoveryInv

-----------------------------------------------------------------------------
(* The codes of the locales.                                                *)

\* A finite set with a number for each member has one whose number is largest.
LEMMA HasLargest ==
  ASSUME NEW S, IsFiniteSet(S), S # {}, NEW f \in [S -> Nat]
  PROVE  \E x \in S : \A y \in S : f[y] <= f[x]
  <1> DEFINE Largest(T) == \E x \in T : \A y \in T : f[y] <= f[x]
             Bad == {n \in Nat : \E T \in SUBSET S : T # {} /\ Cardinality(T) = n /\ ~Largest(T)}
  <1> SUFFICES ASSUME ~Largest(S) PROVE FALSE OBVIOUS
  <1>1. Cardinality(S) \in Bad BY FS_CardinalityType
  <1>2. Min(Bad) \in Bad /\ \A n \in Bad : Min(Bad) <= n
    <2>1. Bad \subseteq Nat /\ Bad # {} BY <1>1
    <2> HIDE DEF Bad
    <2> QED BY <2>1, MinIsLeast
  <1>3. PICK T \in SUBSET S : T # {} /\ Cardinality(T) = Min(Bad) /\ ~Largest(T) BY <1>2
  <1>4. PICK x \in T : TRUE BY <1>3
  <1>5. /\ IsFiniteSet(T) /\ Cardinality(T \ {x}) = Cardinality(T) - 1
        /\ Cardinality(T) \in Nat /\ Cardinality(T \ {x}) \in Nat
    BY <1>3, <1>4, FS_Subset, FS_RemoveElement, FS_CardinalityType
  <1>6. T \ {x} # {} BY <1>3, <1>4
  <1>7. Cardinality(T \ {x}) \notin Bad
    <2> HIDE DEF Bad
    <2>1. Cardinality(T \ {x}) < Min(Bad) /\ Min(Bad) \in Nat BY <1>3, <1>5
    <2> QED BY <1>2, <1>5, <2>1
  <1>8. Largest(T \ {x})
    <2>1. T \ {x} \in SUBSET S BY <1>3
    <2> QED BY <1>5, <1>6, <1>7, <2>1
  <1>9. PICK z \in T \ {x} : \A y \in T \ {x} : f[y] <= f[z] BY <1>8
  <1>10. f[x] \in Nat /\ f[z] \in Nat /\ \A y \in T : f[y] \in Nat BY <1>3, <1>4, <1>9
  <1>11. CASE f[x] <= f[z] BY <1>3, <1>9, <1>10, <1>11
  <1>12. CASE f[z] <= f[x]
    <2>1. \A y \in T : f[y] <= f[x] BY <1>9, <1>10, <1>12
    <2> QED BY <1>3, <1>4, <2>1
  <1> QED BY <1>10, <1>11, <1>12

\* The sample is of a collection of the server.
LEMMA SampledIsOne ==
  ASSUME PoolInv, IdentityInv, phase \in Known, NEW lost, Sampled(lost) # None
  PROVE  Sampled(lost) \in Slugs
  <1> DEFINE readable == {s \in Rows \ lost : Open(s) /\ C(s).endpoints /\ C(s).docs # "none"}
             most == {s \in readable : \A t \in readable : Cardinality(C(t).groups) <= Cardinality(C(s).groups)}
             f == [s \in readable |-> Cardinality(C(s).groups)]
  <1>1. readable \subseteq Slugs /\ readable # {}
    BY DEF Sampled, Open, ViewOf
  <1>2. IsFiniteSet(Slugs) /\ (\A s \in Slugs : IsFiniteSet(C(s).groups)) /\ Slugs \subseteq Nat
    BY ServersAssumption DEF PoolInv, Slugs, C
  <1>3. IsFiniteSet(readable) BY <1>1, <1>2, FS_Subset
  <1>4. f \in [readable -> Nat] BY <1>1, <1>2, FS_CardinalityType
  <1>5. most # {}
    <2> HIDE DEF readable
    <2>1. PICK x \in readable : \A y \in readable : f[y] <= f[x] BY <1>1, <1>3, <1>4, HasLargest
    <2> QED BY <2>1
  <1>6. most \subseteq Nat /\ most \subseteq Slugs BY <1>1, <1>2
  <1>7. Sampled(lost) = Min(most) BY <1>1 DEF Sampled
  <1> HIDE DEF most
  <1> QED BY <1>5, <1>6, <1>7, MinIsLeast

\* What GraphQL calls the locales tells them apart, and calls no other short key of a
\* group by the name of one.
Unambiguous(sv) ==
  /\ \A k, l \in sv.locales : FormatName(k) = FormatName(l) => k = l
  /\ \A s \in DOMAIN sv.colls : \A o \in sv.colls[s].groups : \A k \in o :
       (k < Long /\ \E l \in sv.locales : FormatName(k) = FormatName(l)) => k \in sv.locales

\* Keys that agree with GraphQL in number and in name are then the locales.
LEMMA CodesAreLocales ==
  ASSUME PoolInv, Unambiguous(server), NEW s \in Slugs, CrossValidated(Candidates(s))
  PROVE  Candidates(s) = server.locales
  <1>1. /\ EnumNames # {} /\ Cardinality(Candidates(s)) = Cardinality(EnumNames)
        /\ \A k \in Candidates(s) : FormatName(k) \in EnumNames
    BY DEF CrossValidated
  <1>2. EnumNames = {FormatName(l) : l \in server.locales} BY <1>1 DEF EnumNames
  <1>3. Candidates(s) \subseteq server.locales
    <2> SUFFICES ASSUME NEW k \in Candidates(s) PROVE k \in server.locales OBVIOUS
    <2>1. PICK o \in C(s).groups \cup {server.locales} : LooksLikeCodes(o) /\ k \in o
      BY DEF Candidates
    <2>2. \E l \in server.locales : FormatName(k) = FormatName(l) BY <1>1, <1>2
    <2> QED BY <2>1, <2>2 DEF Unambiguous, LooksLikeCodes, Slugs, C
  <1>4. IsFiniteSet(server.locales) BY ServersAssumption DEF PoolInv
  <1>5. Cardinality(EnumNames) = Cardinality(server.locales)
    <2> DEFINE f == [l \in server.locales |-> FormatName(l)]
    <2>1. f \in Bijection(server.locales, EnumNames)
      <3>1. f \in [server.locales -> EnumNames] BY <1>2
      <3>2. \A k, l \in server.locales : f[k] = f[l] => k = l BY DEF Unambiguous
      <3>3. \A n \in EnumNames : \E l \in server.locales : f[l] = n BY <1>2
      <3> HIDE DEF f
      <3> QED BY <3>1, <3>2, <3>3 DEF Bijection, Injection, Surjection, IsInjective
    <2> HIDE DEF f
    <2> QED BY <2>1, <1>4, FS_Bijection DEF ExistsBijection
  <1> QED BY <1>1, <1>3, <1>4, <1>5, FS_Subset

CodesInv ==
  Since({"assemble"}) => (localization.source = "locale_all" => localization.locales = server.locales)

LEMMA CodesNext ==
  ASSUME DiscoveryInv, CodesInv, Unambiguous(server), [Next]_vars
  PROVE  CodesInv'
  <1>0. server' = server BY GivenNext
  <1>i. PoolInv /\ IndexInv /\ IdentityInv BY DEF DiscoveryInv
  <1>1. CASE Localizes
    <2>1. phase \in Known BY <1>1 DEF Localizes, Known
    <2>2. \/ localization' = Unlocalized
          \/ \E lost : localization' = Localization(IF Sampled(lost) = None \/ WholeSample \in lost THEN {}
                                                    ELSE Candidates(Sampled(lost)))
      BY <1>1 DEF Localizes
    <2>3. ASSUME NEW codes, codes = {} \/ (\E s \in Slugs : codes = Candidates(s)),
                 Localization(codes).source = "locale_all"
          PROVE  Localization(codes).locales = server.locales
      <3>1. CrossValidated(codes) /\ Localization(codes).locales = codes
        BY <2>3 DEF Localization, ResolvedLocales
      <3>2. codes # {} BY <3>1 DEF CrossValidated
      <3> QED BY <2>3, <3>1, <3>2, <1>i, CodesAreLocales
    <2>4. CASE localization' = Unlocalized BY <2>4 DEF CodesInv, Unlocalized
    <2>5. CASE \E codes : localization' = Localization(codes) /\ (codes = {} \/ \E s \in Slugs : codes = Candidates(s))
      BY <1>0, <2>3, <2>5 DEF CodesInv
    <2> QED BY <1>i, <2>1, <2>2, <2>4, <2>5, SampledIsOne
  <1>2. CASE ~Localizes
    <2>1. CASE UNCHANGED vars BY <2>1 DEF vars, CodesInv, Since, Published
    <2>2. CASE Assembles BY <2>2, AssemblesKeeps DEF CodesInv, Since
    <2>3. CASE Cancels BY <2>3, <1>0 DEF Cancels, stage3, result, CodesInv, Since, Published
    <2>4. CASE Takes BY <2>4, <1>0 DEF Takes, stage3, result, CodesInv, Since, Published
    <2>5. CASE ~UNCHANGED vars /\ ~Assembles /\ ~Cancels /\ ~Takes
      <3>1. phase' # "assemble"
        BY <1>2, <2>5 DEF Next, Step, AsksAnonymously, Widens, Inits, Filtered, Tries, AsksPaths, Accesses,
           Resolves, Identifies, AsksSchema, AsksTypes, StartsProbes, Probes, StartsProject, AsksProject, Ends
      <3>2. ~Since({"assemble"})' BY <1>i, <2>5, <3>1, SinceBegins
      <3> QED BY <3>2 DEF CodesInv
    <2> QED BY <2>1, <2>2, <2>3, <2>4, <2>5
  <1> QED BY <1>1, <1>2

-----------------------------------------------------------------------------
(* The theorems about Discovery.                                            *)

\* Whatever goroutine finishes first, whatever is lost and whenever the deadline
\* passes: the path in use is the first that serves, the index is of the identity
\* whose key it is, every flag, route and error in it is the server's or unknown for a
\* reason, and neither the pool nor the GraphQL rounds exceed their bounds.
THEOREM DiscoveryTells ==
  Spec => [](RoutesTrue /\ FirstPath /\ OwnView /\ FlagsTrue /\ ErrorsTrue /\ Budget)
  BY DiscoveryInvariant, IndexHolds, PTL

\* The codes --locale is checked against are the server's too, if GraphQL's names tell
\* the locales apart, from each other and from short keys that are none.
THEOREM IndexIsTrue ==
  ASSUME \A sv \in Servers : Unambiguous(sv)
  PROVE  Spec => []IndexTrue
  <1>1. Init => CodesInv BY DEF Init, CodesInv, Since, Published
  <1>2. DiscoveryInv /\ CodesInv /\ [Next]_vars => CodesInv'
    BY CodesNext DEF DiscoveryInv, PoolInv
  <1>3. DiscoveryInv /\ CodesInv => IndexTrue
    <2> SUFFICES ASSUME DiscoveryInv, CodesInv PROVE LocalesTrue
      BY IndexHolds DEF IndexTrue
    <2> QED BY DEF DiscoveryInv, LocaleInv, LocalesKnown, CodesInv, LocalesTrue, Since
  <1> QED BY <1>1, <1>2, <1>3, DiscoveryInvariant, PTL DEF Spec


-----------------------------------------------------------------------------
(* Configuration.  A file has the keys it may have, set or not.              *)

IsFile(f) ==
  /\ {"default", "profiles", "unknown", "keys"} \subseteq DOMAIN f
  /\ Conf!FileKeys \subseteq DOMAIN f.keys
  /\ \A p \in DOMAIN f.profiles : Conf!ProfileKeys \subseteq DOMAIN f.profiles[p]

\* What a file says of a setting, to a run with profile p.
Says(f, p, k) == IF k \in Conf!ProfileKeys THEN Conf!Profile(f, p)[k] ELSE f.keys[k]

LEMMA KeysAre ==
  /\ Conf!ProfileKeys = {"base_url", "api_path", "graphql_path", "auth_mode", "id_type", "site_url",
                         "header_a", "header_b"}
  /\ Conf!FileKeys = {"output", "limit", "max_bulk", "concurrency", "timeout", "redact",
                      "discovery_ttl", "log_level", "update_auto", "backup_dir"}
  /\ Conf!RunKeys = {"max_docs", "cache_ttl", "verbose", "no_update"}
  /\ Conf!Keys = Conf!ProfileKeys \cup Conf!FileKeys \cup Conf!RunKeys
BY DEF Conf!ProfileKeys, Conf!FileKeys, Conf!RunKeys, Conf!Keys, Conf!Headers, Conf!DefaultsKeys, Conf!SectionKeys

LEMMA ProfileHas ==
  ASSUME NEW f, IsFile(f), NEW p PROVE Conf!ProfileKeys \subseteq DOMAIN Conf!Profile(f, p)
BY DEF IsFile, Conf!Profile, Conf!Unset

LEMMA WithIs ==
  ASSUME NEW f, NEW k, NEW v
  PROVE  /\ DOMAIN Conf!With(f, k, v) = DOMAIN f \cup {k}
         /\ Conf!With(f, k, v)[k] = v
         /\ \A j \in DOMAIN f \ {k} : Conf!With(f, k, v)[j] = f[j]
BY DEF Conf!With

\* g is f with another profile.
Replaced(g, f, p, new) ==
  /\ Conf!ProfileKeys \subseteq DOMAIN new
  /\ DOMAIN g = DOMAIN f /\ g.keys = f.keys /\ g.profiles = Conf!With(f.profiles, p, new)

LEMMA OneProfile ==
  ASSUME NEW f, IsFile(f), NEW p, NEW new, NEW g, Replaced(g, f, p, new)
  PROVE  /\ IsFile(g)
         /\ \A q : Conf!Profile(g, q) = IF q = p THEN new ELSE Conf!Profile(f, q)
         /\ DOMAIN g.profiles = DOMAIN f.profiles \cup {p}
<1>1. /\ DOMAIN g.profiles = DOMAIN f.profiles \cup {p} /\ g.profiles[p] = new
      /\ \A q \in DOMAIN f.profiles \ {p} : g.profiles[q] = f.profiles[q]
  BY DEF Conf!With, Replaced
<1>2. \A q \in DOMAIN g.profiles : Conf!ProfileKeys \subseteq DOMAIN g.profiles[q] BY <1>1 DEF IsFile, Replaced
<1>3. IsFile(g) BY <1>1, <1>2 DEF IsFile, Replaced
<1>4. \A q : Conf!Profile(g, q) = IF q = p THEN new ELSE Conf!Profile(f, q)
  BY <1>1 DEF Conf!Profile
<1> QED BY <1>1, <1>3, <1>4

FileSettings == Conf!FileKeys \cup Conf!ProfileKeys

\* g is f but for the key k of profile p.
SetTo(g, f, p, k, v) ==
  /\ IsFile(g)
  /\ \A q : \A j \in FileSettings :
       Says(g, q, j) = IF j = k /\ (q = p \/ k \in Conf!FileKeys) THEN v ELSE Says(f, q, j)
  /\ g.default = IF k = "default_profile" THEN v ELSE f.default
  /\ k \notin Conf!ProfileKeys => DOMAIN g.profiles = DOMAIN f.profiles
  /\ k \in Conf!ProfileKeys => DOMAIN g.profiles = DOMAIN f.profiles \cup {p}

\* tomlSet sets a key, and no other.
LEMMA TomlSets ==
  ASSUME NEW f, IsFile(f), NEW p, NEW k, k \in FileSettings \cup {"default_profile"}, NEW v
  PROVE  SetTo(Conf!TomlSet(f, p, k, v), f, p, k, v)
<1> DEFINE g == Conf!TomlSet(f, p, k, v)
<1>0. /\ "default_profile" \notin Conf!FileKeys \cup Conf!ProfileKeys
      /\ Conf!FileKeys \cap Conf!ProfileKeys = {}
  BY KeysAre
<1>1. CASE k = "default_profile"
  <2>1. g = [f EXCEPT !.default = v] BY <1>0, <1>1 DEF Conf!TomlSet
  <2> HIDE DEF g
  <2>2. DOMAIN g = DOMAIN f /\ g.default = v /\ g.keys = f.keys /\ g.profiles = f.profiles
    BY <2>1 DEF IsFile
  <2>3. IsFile(g) /\ \A q, j : Says(g, q, j) = Says(f, q, j) BY <2>2 DEF IsFile, Says, Conf!Profile
  <2> QED BY <1>0, <1>1, <2>2, <2>3 DEF g, SetTo, FileSettings
<1>2. CASE k \in Conf!FileKeys
  <2>1. g = [f EXCEPT !.keys[k] = v] BY <1>0, <1>2 DEF Conf!TomlSet
  <2> HIDE DEF g
  <2>2. /\ DOMAIN g = DOMAIN f /\ g.default = f.default /\ g.profiles = f.profiles
        /\ DOMAIN g.keys = DOMAIN f.keys /\ g.keys[k] = v /\ \A j \in DOMAIN f.keys \ {k} : g.keys[j] = f.keys[j]
    BY <1>2, <2>1 DEF IsFile
  <2>3. IsFile(g) BY <2>2 DEF IsFile
  <2>4. \A q : \A j \in Conf!FileKeys \cup Conf!ProfileKeys : Says(g, q, j) = IF j = k THEN v ELSE Says(f, q, j)
    BY <1>0, <1>2, <2>2 DEF IsFile, Says, Conf!Profile
  <2> QED BY <1>0, <1>2, <2>2, <2>3, <2>4 DEF g, SetTo, FileSettings
<1>3. CASE k \in Conf!ProfileKeys
  <2> DEFINE new == [Conf!Profile(f, p) EXCEPT ![k] = v]
  <2>1. g = [f EXCEPT !.profiles = Conf!With(@, p, new)] BY <1>0, <1>3 DEF Conf!TomlSet
  <2>2. /\ Conf!ProfileKeys \subseteq DOMAIN new /\ new[k] = v
        /\ \A j \in Conf!ProfileKeys \ {k} : new[j] = Conf!Profile(f, p)[j]
    BY <1>3, ProfileHas
  <2> HIDE DEF g, new
  <2>3. /\ DOMAIN g = DOMAIN f /\ g.default = f.default /\ g.keys = f.keys
        /\ g.profiles = Conf!With(f.profiles, p, new)
    BY <2>1 DEF IsFile
  <2> HIDE <2>1
  <2>4. /\ IsFile(g) /\ DOMAIN g.profiles = DOMAIN f.profiles \cup {p}
        /\ \A q : Conf!Profile(g, q) = IF q = p THEN new ELSE Conf!Profile(f, q)
    <3>1. Replaced(g, f, p, new) BY <2>2, <2>3 DEF Replaced
    <3> QED BY <3>1, OneProfile
  <2>5. \A q : \A j \in Conf!FileKeys \cup Conf!ProfileKeys :
          Says(g, q, j) = IF j = k /\ q = p THEN v ELSE Says(f, q, j)
    BY <1>0, <1>3, <2>2, <2>3, <2>4 DEF Says
  <2> QED BY <1>0, <1>3, <2>3, <2>4, <2>5 DEF g, SetTo, FileSettings
<1> QED BY <1>1, <1>2, <1>3 DEF FileSettings


-----------------------------------------------------------------------------
(* What a setting comes from.                                                *)

\* The first of the flag, the variable, the project and the user to say something.
Chain(c, k, key, default) ==
  Conf!OfRun(c, k, Conf!Or(Conf!Told(Says(c.project, c.profile, key), "project"),
                   Conf!Or(Conf!Told(Says(c.user, c.profile, key), "user"), Conf!Told(default, "default"))))

\* The settings that are what is said first, and their defaults.
Straight == {"base_url", "api_path", "auth_mode", "output", "limit", "max_bulk", "timeout", "redact", "id_type"}
Else(k) ==
  CASE k = "api_path" -> "/api" [] k = "auth_mode" -> "auto" [] k = "output" -> "json" [] k = "limit" -> "20"
    [] k = "max_bulk" -> "100" [] k = "timeout" -> "30s" [] k = "redact" -> "true"
    [] OTHER -> None

LEMMA Chains ==
  ASSUME NEW c, NEW k, NEW default
  PROVE  /\ k \in Conf!ProfileKeys => Conf!ProfileString(c, k, default) = Chain(c, k, k, default)
         /\ \A key \in Conf!FileKeys : Conf!DefaultsString(c, k, key, default) = Chain(c, k, key, default)
         /\ k \in Conf!FileKeys => Conf!FileString(c, k, default) = Chain(c, k, k, default)
<1>1. Conf!FileKeys \cap Conf!ProfileKeys = {} BY KeysAre
<1>2. k \in Conf!ProfileKeys => Conf!ProfileString(c, k, default) = Chain(c, k, k, default)
  BY DEF Conf!ProfileString, Chain, Says
<1>3. \A key \in Conf!FileKeys : Conf!DefaultsString(c, k, key, default) = Chain(c, k, key, default)
  BY <1>1 DEF Conf!DefaultsString, Chain, Says
<1> QED BY <1>2, <1>3 DEF Conf!FileString

LEMMA ChainIs ==
  ASSUME NEW c, NEW k, NEW key, NEW default
  PROVE  LET said == Chain(c, k, key, default)
             flag == Conf!FlagFor(c, k)
             env  == Conf!EnvFor(c, k)
             pr   == Says(c.project, c.profile, key)
             us   == Says(c.user, c.profile, key)
         IN  /\ DOMAIN said = {"value", "source"}
             /\ flag # None => said.value = flag /\ said.source = "flag"
             /\ flag = None /\ env # None => said.value = env /\ said.source = "env"
             /\ flag = None /\ env = None /\ pr # None => said.value = pr /\ said.source = "project"
             /\ flag = None /\ env = None /\ pr = None /\ us # None => said.value = us /\ said.source = "user"
             /\ flag = None /\ env = None /\ pr = None /\ us = None =>
                  said.value = default /\ said.source = "default"
BY DEF Chain, Conf!OfRun, Conf!Or, Conf!Told

\* What each setting is.
LEMMA StraightIs ==
  ASSUME NEW c, NEW k \in Straight PROVE Conf!Effective(c, k) = Chain(c, k, k, Else(k))
<1>1. CASE k \in {"base_url", "api_path"}
  <2>1. Conf!Effective(c, k) = Conf!ProfileString(c, k, Else(k))
    BY <1>1 DEF Else, Conf!Effective, Conf!Connection, Conf!Headers
  <2> QED BY <1>1, <2>1, Chains, KeysAre
<1>2. CASE k = "auth_mode"
  BY <1>2, Chains, KeysAre DEF Else, Conf!Effective, Conf!Auth, Conf!Headers
<1>3. CASE k = "id_type"
  BY <1>3, Chains, KeysAre DEF Else, Conf!Effective, Conf!Pins, Conf!Headers
<1>4. CASE k = "output"
  BY <1>4, Chains, KeysAre DEF Else, Conf!Effective, Conf!Headers
<1>5. CASE k \in {"limit", "max_bulk", "timeout"}
  BY <1>5, Chains, KeysAre DEF Else, Conf!Effective, Conf!Limits, Conf!Headers
<1>6. CASE k = "redact"
  BY <1>6, Chains, KeysAre DEF Else, Conf!Effective, Conf!Toggles, Conf!Headers
<1> QED BY <1>1, <1>2, <1>3, <1>4, <1>5, <1>6 DEF Straight

LEMMA OthersAre ==
  ASSUME NEW c
  PROVE  /\ Conf!Effective(c, "graphql_path") =
              LET said == Chain(c, "graphql_path", "graphql_path", None)
              IN  IF said.value # None THEN said
                  ELSE Conf!Told(Chain(c, "api_path", "api_path", "/api").value, "api_path")
         /\ \A k \in Conf!Headers : Conf!Effective(c, k) = Conf!ResolvedHeaders(c, k)
         /\ Conf!Effective(c, "max_docs") =
              Chain(c, "max_docs", "max_bulk", Chain(c, "max_bulk", "max_bulk", "100").value)
         /\ Conf!Effective(c, "concurrency") =
              [Chain(c, "concurrency", "concurrency", "8") EXCEPT !.value = Conf!Clamped(@)]
         /\ Conf!Effective(c, "verbose") = Conf!RunOnly(c, "verbose", "false")
         /\ Conf!Effective(c, "cache_ttl") = Conf!RunOnly(c, "cache_ttl", None)
         /\ Conf!Effective(c, "no_update") = Conf!Told(Conf!EnvFor(c, "no_update"), "env")
<1>1. Conf!Effective(c, "graphql_path") =
              LET said == Chain(c, "graphql_path", "graphql_path", None)
              IN  IF said.value # None THEN said
                  ELSE Conf!Told(Chain(c, "api_path", "api_path", "/api").value, "api_path")
  <2>1. Conf!Effective(c, "graphql_path") = Conf!Connection(c, "graphql_path") BY DEF Conf!Effective, Conf!Headers
  <2>2. /\ Conf!ProfileString(c, "graphql_path", None) = Chain(c, "graphql_path", "graphql_path", None)
        /\ Conf!ProfileString(c, "api_path", "/api") = Chain(c, "api_path", "api_path", "/api")
    BY Chains, KeysAre
  <2> QED BY <2>1, <2>2 DEF Conf!Connection
<1>2. \A k \in Conf!Headers : Conf!Effective(c, k) = Conf!ResolvedHeaders(c, k)
  BY DEF Conf!Effective, Conf!Headers
<1>3. Conf!Effective(c, "max_docs") =
              Chain(c, "max_docs", "max_bulk", Chain(c, "max_bulk", "max_bulk", "100").value)
  BY Chains, KeysAre DEF Conf!Effective, Conf!Limits, Conf!Headers
<1>4. Conf!Effective(c, "concurrency") =
              [Chain(c, "concurrency", "concurrency", "8") EXCEPT !.value = Conf!Clamped(@)]
  <2>1. "concurrency" \in Conf!FileKeys BY KeysAre
  <2>2. Conf!DefaultsString(c, "concurrency", "concurrency", "8") = Chain(c, "concurrency", "concurrency", "8")
    BY <2>1, Chains
  <2> QED BY <2>2 DEF Conf!Effective, Conf!Limits, Conf!Headers
<1>5. /\ Conf!Effective(c, "verbose") = Conf!RunOnly(c, "verbose", "false")
      /\ Conf!Effective(c, "cache_ttl") = Conf!RunOnly(c, "cache_ttl", None)
      /\ Conf!Effective(c, "no_update") = Conf!Told(Conf!EnvFor(c, "no_update"), "env")
  BY DEF Conf!Effective, Conf!Toggles, Conf!Headers
<1> QED BY <1>1, <1>2, <1>3, <1>4, <1>5

LEMMA OthersToo ==
  ASSUME NEW c
  PROVE  /\ Conf!Effective(c, "discovery_ttl") =
              LET inFile == Chain(c, "discovery_ttl", "discovery_ttl", "24h")
                  ttl    == Conf!RunOnly(c, "cache_ttl", None).value
              IN  IF ttl = None THEN inFile ELSE [inFile EXCEPT !.value = ttl]
         /\ Conf!Effective(c, "log_level") =
              LET level == Chain(c, "log_level", "log_level", "info")
              IN  IF level.source = "default" /\ Conf!RunOnly(c, "verbose", "false").value = "true"
                  THEN Conf!Told("debug", "verbose") ELSE level
         /\ Conf!Effective(c, "update_auto") =
              IF Conf!EnvFor(c, "no_update") # None THEN Conf!Told("false", "env")
              ELSE Chain(c, "update_auto", "update_auto", "false")
         /\ Conf!Effective(c, "backup_dir") =
              LET said == Chain(c, "backup_dir", "backup_dir", None)
                  anchor == CASE said.source = "project" -> "under project" [] said.source = "user" -> "under user"
                              [] OTHER -> "under work"
              IN  IF said.value = "relative" THEN [said EXCEPT !.value = anchor] ELSE said
         /\ Conf!Effective(c, "site_url") =
              LET said == Chain(c, "site_url", "site_url", None)
                  base == Chain(c, "base_url", "base_url", None).value
              IN  IF said.value = None /\ base # None THEN Conf!Told(base, "base_url") ELSE said
<1>1. /\ Conf!FileString(c, "discovery_ttl", "24h") = Chain(c, "discovery_ttl", "discovery_ttl", "24h")
      /\ Conf!FileString(c, "log_level", "info") = Chain(c, "log_level", "log_level", "info")
      /\ Conf!FileString(c, "update_auto", "false") = Chain(c, "update_auto", "update_auto", "false")
      /\ Conf!FileString(c, "backup_dir", None) = Chain(c, "backup_dir", "backup_dir", None)
      /\ Conf!ProfileString(c, "site_url", None) = Chain(c, "site_url", "site_url", None)
      /\ Conf!ProfileString(c, "base_url", None) = Chain(c, "base_url", "base_url", None)
  BY Chains, KeysAre
<1>2. /\ Conf!Effective(c, "discovery_ttl") = Conf!Cache(c)
      /\ Conf!Effective(c, "log_level") = Conf!LoggingAndUpdate(c, "log_level")
      /\ Conf!Effective(c, "update_auto") = Conf!LoggingAndUpdate(c, "update_auto")
      /\ Conf!Effective(c, "backup_dir") = Conf!Backups(c)
      /\ Conf!Effective(c, "site_url") = Conf!Site(c)
  BY DEF Conf!Effective, Conf!Headers
<1> QED BY <1>1, <1>2 DEF Conf!Cache, Conf!LoggingAndUpdate, Conf!Backups, Conf!Site


-----------------------------------------------------------------------------
(* What it is when a source says otherwise.                                  *)

IsContext(c) ==
  /\ {"run", "user", "project", "profile"} \subseteq DOMAIN c
  /\ {"flags", "env"} \subseteq DOMAIN c.run
  /\ IsFile(c.user) /\ IsFile(c.project)

Key(k) == IF k = "max_docs" THEN "max_bulk" ELSE k

LEMMA RunSaid ==
  ASSUME NEW c, IsContext(c), NEW k, NEW v
  PROVE  /\ LET e == Conf!Said(c, "flag", k, v)
            IN  /\ e.user = c.user /\ e.project = c.project /\ e.profile = c.profile
                /\ Conf!FlagFor(e, k) = v
                /\ \A j : Conf!EnvFor(e, j) = Conf!EnvFor(c, j) /\ (j # k => Conf!FlagFor(e, j) = Conf!FlagFor(c, j))
         /\ LET e == Conf!Said(c, "env", k, v)
            IN  /\ e.user = c.user /\ e.project = c.project /\ e.profile = c.profile
                /\ Conf!EnvFor(e, k) = v
                /\ \A j : Conf!FlagFor(e, j) = Conf!FlagFor(c, j) /\ (j # k => Conf!EnvFor(e, j) = Conf!EnvFor(c, j))
<1>1. ASSUME NEW e, e = Conf!Said(c, "flag", k, v)
      PROVE  /\ e.user = c.user /\ e.project = c.project /\ e.profile = c.profile
             /\ Conf!FlagFor(e, k) = v
             /\ \A j : Conf!EnvFor(e, j) = Conf!EnvFor(c, j) /\ (j # k => Conf!FlagFor(e, j) = Conf!FlagFor(c, j))
  <2>1. e = [c EXCEPT !.run.flags = Conf!With(@, k, v)] BY <1>1 DEF Conf!Said
  <2>2. /\ e.user = c.user /\ e.project = c.project /\ e.profile = c.profile
        /\ e.run.env = c.run.env /\ e.run.flags = Conf!With(c.run.flags, k, v)
    BY <2>1 DEF IsContext
  <2> QED BY <2>2 DEF Conf!FlagFor, Conf!EnvFor, Conf!Given, Conf!With
<1>2. ASSUME NEW e, e = Conf!Said(c, "env", k, v)
      PROVE  /\ e.user = c.user /\ e.project = c.project /\ e.profile = c.profile
             /\ Conf!EnvFor(e, k) = v
             /\ \A j : Conf!FlagFor(e, j) = Conf!FlagFor(c, j) /\ (j # k => Conf!EnvFor(e, j) = Conf!EnvFor(c, j))
  <2>1. e = [c EXCEPT !.run.env = Conf!With(@, k, v)] BY <1>2 DEF Conf!Said
  <2>2. /\ e.user = c.user /\ e.project = c.project /\ e.profile = c.profile
        /\ e.run.flags = c.run.flags /\ e.run.env = Conf!With(c.run.env, k, v)
    BY <2>1 DEF IsContext
  <2> QED BY <2>2 DEF Conf!FlagFor, Conf!EnvFor, Conf!Given, Conf!With
<1> QED BY <1>1, <1>2

\* What each source says of j, where a source but the run says v of k.
SaysNow(e, c, source, k, v) ==
  /\ e.profile = c.profile
  /\ \A j : Conf!EnvFor(e, j) = Conf!EnvFor(c, j) /\ Conf!FlagFor(e, j) = Conf!FlagFor(c, j)
  /\ \A j \in FileSettings :
       /\ Says(e.project, e.profile, j) = IF source = "project" /\ j = k THEN v ELSE Says(c.project, c.profile, j)
       /\ Says(e.user, e.profile, j) = IF source # "project" /\ j = k THEN v ELSE Says(c.user, c.profile, j)

LEMMA TomlSay ==
  ASSUME NEW f, IsFile(f), NEW p, NEW k \in FileSettings, NEW v, NEW j \in FileSettings
  PROVE  Says(Conf!TomlSet(f, p, k, v), p, j) = IF j = k THEN v ELSE Says(f, p, j)
<1>1. SetTo(Conf!TomlSet(f, p, k, v), f, p, k, v) BY TomlSets
<1> QED BY <1>1 DEF SetTo

LEMMA FileSaid ==
  ASSUME NEW c, IsContext(c), NEW k, Key(k) \in FileSettings, NEW v, NEW s \in {"project", "user", "default"}
  PROVE  SaysNow(Conf!Said(c, s, k, v), c, s, Key(k), v)
<1> DEFINE key == Key(k)
<1>0. \A f : IsFile(f) => \A j \in FileSettings :
        Says(Conf!TomlSet(f, c.profile, key, v), c.profile, j) = IF j = key THEN v ELSE Says(f, c.profile, j)
  BY TomlSay DEF FileSettings
<1>1. ASSUME NEW e, e = Conf!Said(c, s, k, v) PROVE SaysNow(e, c, s, key, v)
  <2>1. CASE s = "project"
    <3>1. e = [c EXCEPT !.project = Conf!TomlSet(@, c.profile, key, v)] BY <1>1, <2>1 DEF Conf!Said, Key
    <3> HIDE DEF key
    <3>2. /\ e.user = c.user /\ e.project = Conf!TomlSet(c.project, c.profile, key, v) /\ e.profile = c.profile
          /\ e.run = c.run
      BY <3>1 DEF IsContext
    <3> QED BY <1>0, <2>1, <3>2 DEF SaysNow, IsContext, Conf!FlagFor, Conf!EnvFor
  <2>2. CASE s # "project"
    <3>1. e = [c EXCEPT !.user = Conf!TomlSet(@, c.profile, key, v)] BY <1>1, <2>2 DEF Conf!Said, Key
    <3> HIDE DEF key
    <3>2. /\ e.project = c.project /\ e.user = Conf!TomlSet(c.user, c.profile, key, v) /\ e.profile = c.profile
          /\ e.run = c.run
      BY <3>1 DEF IsContext
    <3> QED BY <1>0, <2>2, <3>2 DEF SaysNow, IsContext, Conf!FlagFor, Conf!EnvFor
  <2> QED BY <2>1, <2>2
<1> QED BY <1>1


\* Where the value of a chain comes from, another value becomes the chain's; and where it
\* comes from nowhere, each file would be heard.
ChainTells(c, k, v, default, after) ==
  LET now(s) == Chain(Conf!Said(c, s, k, v), k, Key(k), after)
      source == Chain(c, k, Key(k), default).source
  IN  /\ source \in {"flag", "env", "project", "user"} => now(source).value = v /\ now(source).source = source
      /\ source = "default" => /\ now("project").value = v /\ now("project").source = "project"
                               /\ now("user").value = v /\ now("user").source = "user"
                               /\ now("default").value = v /\ now("default").source = "user"

LEMMA SourcesAre ==
  ASSUME NEW c, NEW k, NEW key, NEW default
  PROVE  Chain(c, k, key, default).source \in {"flag", "env", "project", "user", "default"}
BY ChainIs

LEMMA ChainTold ==
  ASSUME NEW c, IsContext(c), NEW k, Key(k) \in FileSettings, NEW v, v # None, NEW default, NEW after
  PROVE  ChainTells(c, k, v, default, after)
<1> DEFINE now(s) == Chain(Conf!Said(c, s, k, v), k, Key(k), after)
           source == Chain(c, k, Key(k), default).source
<1>1. CASE source = "flag"
  <2>1. Conf!FlagFor(Conf!Said(c, "flag", k, v), k) = v BY RunSaid
  <2> QED BY <1>1, <2>1, ChainIs DEF ChainTells
<1>2. CASE source = "env"
  <2>1. Conf!EnvFor(Conf!Said(c, "env", k, v), k) = v /\ Conf!FlagFor(Conf!Said(c, "env", k, v), k) = Conf!FlagFor(c, k)
    BY RunSaid
  <2>2. Conf!FlagFor(c, k) = None BY <1>2, ChainIs
  <2> QED BY <1>2, <2>1, <2>2, ChainIs DEF ChainTells
<1>3. CASE source \in {"project", "user", "default"}
  <2>1. Conf!FlagFor(c, k) = None /\ Conf!EnvFor(c, k) = None
    BY <1>3, ChainIs
  <2>2. ASSUME NEW s \in {"project", "user", "default"},
               s = "project" \/ Says(c.project, c.profile, Key(k)) = None
        PROVE  now(s).value = v /\ now(s).source = IF s = "project" THEN "project" ELSE "user"
    <3> DEFINE e == Conf!Said(c, s, k, v)
    <3>1. SaysNow(e, c, s, Key(k), v) BY FileSaid
    <3> HIDE DEF e
    <3>2. /\ Conf!FlagFor(e, k) = None /\ Conf!EnvFor(e, k) = None
          /\ Says(e.project, e.profile, Key(k)) = IF s = "project" THEN v ELSE None
          /\ s # "project" => Says(e.user, e.profile, Key(k)) = v
      BY <2>1, <2>2, <3>1 DEF SaysNow
    <3>3. Chain(e, k, Key(k), after).value = v /\ Chain(e, k, Key(k), after).source = IF s = "project" THEN "project" ELSE "user"
      BY <2>2, <3>2, ChainIs
    <3> QED BY <3>3 DEF e
  <2>3. source # "project" => Says(c.project, c.profile, Key(k)) = None
    BY <1>3, <2>1, ChainIs
  <2> QED BY <1>3, <2>2, <2>3 DEF ChainTells
<1> QED BY <1>1, <1>2, <1>3, SourcesAre

LEMMA NotKeys == {"flag", "env", "project", "user", "default", "verbose"} \cap Conf!Keys = {"verbose"}
BY KeysAre

\* A value that was derived is changed where what it comes from is.
LEMMA ChangedIs ==
  ASSUME NEW c, NEW k, NEW v
  PROVE  /\ \A s \in {"flag", "env", "project", "user", "default"} :
              Conf!Changed(c, s, k, v) = Conf!Said(c, s, k, v)
         /\ \A j \in Conf!Keys : Conf!Changed(c, j, k, v) = Conf!Said(c, Conf!Effective(c, j).source, j, v)
  BY NotKeys DEF Conf!Changed

\* What config explain tells of k is so, in a run with c.
Tells(c, k) ==
  LET told == Conf!Effective(c, k)
      becomes == Conf!Effective(Conf!Changed(c, told.source, k, "another"), k).value
  IN  /\ told.source = "default" /\ k \in FileSettings =>
           \A s \in {"user", "project"} : Conf!Effective(Conf!Said(c, s, k, "another"), k).source = s
      /\ told.source = "verbose" => becomes # told.value
      /\ k = "update_auto" /\ told.source = "env" =>
           Conf!Effective([c EXCEPT !.run.env = <<>>], k).source # "env"
      /\ told.source \notin {"default", "verbose"} /\ ~(k = "update_auto" /\ told.source = "env") =>
           becomes = "another"

LEMMA StraightTells ==
  ASSUME NEW c, IsContext(c), NEW k \in Straight, None # "another" PROVE Tells(c, k)
<1>1. Key(k) = k /\ k \in FileSettings /\ k # "update_auto" BY KeysAre DEF Key, Straight, FileSettings
<1>2. ChainTells(c, k, "another", Else(k), Else(k)) BY <1>1, ChainTold
<1>3. \A e : Conf!Effective(e, k) = Chain(e, k, k, Else(k)) BY StraightIs
<1>4. Conf!Effective(c, k).source \in {"flag", "env", "project", "user", "default"} BY <1>3, SourcesAre
<1>5. \A s \in {"flag", "env", "project", "user", "default"} : Conf!Changed(c, s, k, "another") = Conf!Said(c, s, k, "another")
  BY ChangedIs
<1> QED BY <1>1, <1>2, <1>3, <1>4, <1>5 DEF ChainTells, Tells


\* The number of workers, and where backups go, are worked out of what is said.
LEMMA ConcurrencyTells ==
  ASSUME NEW c, IsContext(c), None # "another" PROVE Tells(c, "concurrency")
<1> DEFINE k == "concurrency"
<1>1. Key(k) = k /\ k \in FileSettings BY KeysAre DEF Key, FileSettings
<1>2. ChainTells(c, k, "another", "8", "8") BY <1>1, ChainTold
<1>3. \A e : /\ Conf!Effective(e, k).source = Chain(e, k, k, "8").source
             /\ Chain(e, k, k, "8").value = "another" => Conf!Effective(e, k).value = "another"
  <2> SUFFICES ASSUME NEW e
               PROVE  /\ Conf!Effective(e, k).source = Chain(e, k, k, "8").source
                      /\ Chain(e, k, k, "8").value = "another" => Conf!Effective(e, k).value = "another"
    OBVIOUS
  <2>1. Conf!Effective(e, k) = [Chain(e, k, k, "8") EXCEPT !.value = Conf!Clamped(@)] BY OthersAre
  <2>2. DOMAIN Chain(e, k, k, "8") = {"value", "source"} BY ChainIs
  <2> QED BY <2>1, <2>2 DEF Conf!Clamped
<1>4. Conf!Effective(c, k).source \in {"flag", "env", "project", "user", "default"} BY <1>3, SourcesAre
<1> QED BY <1>1, <1>2, <1>3, <1>4, ChangedIs DEF ChainTells, Tells

LEMMA BackupsTell ==
  ASSUME NEW c, IsContext(c), None # "another" PROVE Tells(c, "backup_dir")
<1> DEFINE k == "backup_dir"
<1>1. Key(k) = k /\ k \in FileSettings BY KeysAre DEF Key, FileSettings
<1>2. ChainTells(c, k, "another", None, None) BY <1>1, ChainTold
<1>3. \A e : /\ Conf!Effective(e, k).source = Chain(e, k, k, None).source
             /\ Chain(e, k, k, None).value = "another" => Conf!Effective(e, k).value = "another"
  <2> SUFFICES ASSUME NEW e
               PROVE  /\ Conf!Effective(e, k).source = Chain(e, k, k, None).source
                      /\ Chain(e, k, k, None).value = "another" => Conf!Effective(e, k).value = "another"
    OBVIOUS
  <2>1. DOMAIN Chain(e, k, k, None) = {"value", "source"} BY ChainIs
  <2> QED BY <2>1, OthersToo
<1>4. Conf!Effective(c, k).source \in {"flag", "env", "project", "user", "default"} BY <1>3, SourcesAre
<1> QED BY <1>1, <1>2, <1>3, <1>4, ChangedIs DEF ChainTells, Tells

\* max_docs is what max_bulk is, if it is not said itself.
LEMMA MaxDocsTells ==
  ASSUME NEW c, IsContext(c), None # "another" PROVE Tells(c, "max_docs")
<1> DEFINE k == "max_docs"
           bulk(e) == Chain(e, "max_bulk", "max_bulk", "100").value
<1>1. Key(k) = "max_bulk" /\ Key(k) \in FileSettings /\ k \notin FileSettings BY KeysAre DEF Key, FileSettings
<1>2. \A after : ChainTells(c, k, "another", bulk(c), after) BY <1>1, ChainTold
<1>3. \A e : Conf!Effective(e, k) = Chain(e, k, "max_bulk", bulk(e)) BY OthersAre
<1>4. Conf!Effective(c, k).source \in {"flag", "env", "project", "user", "default"} BY <1>3, SourcesAre
<1> QED BY <1>1, <1>2, <1>3, <1>4, ChangedIs DEF ChainTells, Tells

\* --cache-ttl, which would take the place of the TTL, is not given.
LEMMA TTLTells ==
  ASSUME NEW c, IsContext(c), None # "another",
         Conf!FlagFor(c, "cache_ttl") = None, Conf!EnvFor(c, "cache_ttl") = None
  PROVE  Tells(c, "discovery_ttl")
<1> DEFINE k == "discovery_ttl"
<1>1. Key(k) = k /\ k \in FileSettings BY KeysAre DEF Key, FileSettings
<1>2. ChainTells(c, k, "another", "24h", "24h") BY <1>1, ChainTold
<1>3. \A e : Conf!FlagFor(e, "cache_ttl") = None /\ Conf!EnvFor(e, "cache_ttl") = None =>
               Conf!Effective(e, k) = Chain(e, k, k, "24h")
  BY OthersToo DEF Conf!RunOnly, Conf!OfRun, Conf!Or, Conf!Told
<1>4. Conf!Effective(c, k).source \in {"flag", "env", "project", "user", "default"} BY <1>3, SourcesAre
<1>5. \A s \in {"flag", "env", "project", "user", "default"} :
        Conf!FlagFor(Conf!Said(c, s, k, "another"), "cache_ttl") = None /\ Conf!EnvFor(Conf!Said(c, s, k, "another"), "cache_ttl") = None
  BY <1>1, RunSaid, FileSaid DEF SaysNow
<1> QED BY <1>1, <1>2, <1>3, <1>4, <1>5, ChangedIs DEF ChainTells, Tells


LEMMA RunOnlyIs ==
  ASSUME NEW c, NEW k, NEW default
  PROVE  LET said == Conf!RunOnly(c, k, default)
             flag == Conf!FlagFor(c, k)
             env  == Conf!EnvFor(c, k)
         IN  /\ flag # None => said.value = flag /\ said.source = "flag"
             /\ flag = None /\ env # None => said.value = env /\ said.source = "env"
             /\ flag = None /\ env = None => said.value = default /\ said.source = "default"
BY DEF Conf!RunOnly, Conf!OfRun, Conf!Or, Conf!Told

LEMMA VerboseTells ==
  ASSUME NEW c, IsContext(c), None # "another" PROVE Tells(c, "verbose")
<1> DEFINE k == "verbose"
           told(e) == Conf!RunOnly(e, k, "false")
<1>1. k \notin FileSettings BY KeysAre DEF FileSettings
<1>2. \A e : Conf!Effective(e, k) = told(e) BY OthersAre
<1>3. told(c).source \in {"flag", "env", "default"} BY RunOnlyIs
<1>4. told(c).source = "flag" => told(Conf!Said(c, "flag", k, "another")).value = "another"
  <2>1. Conf!FlagFor(Conf!Said(c, "flag", k, "another"), k) = "another" BY RunSaid
  <2> QED BY <2>1, RunOnlyIs
<1>5. told(c).source = "env" => told(Conf!Said(c, "env", k, "another")).value = "another"
  <2>1. /\ Conf!EnvFor(Conf!Said(c, "env", k, "another"), k) = "another"
        /\ Conf!FlagFor(Conf!Said(c, "env", k, "another"), k) = Conf!FlagFor(c, k)
    BY RunSaid
  <2>2. told(c).source = "env" => Conf!FlagFor(c, k) = None BY RunOnlyIs
  <2> QED BY <2>1, <2>2, RunOnlyIs
<1> QED BY <1>1, <1>2, <1>3, <1>4, <1>5, ChangedIs DEF Tells

\* The level is what is said of it, or "debug" if --verbose is; said otherwise, it is not.
LEMMA LevelTells ==
  ASSUME NEW c, IsContext(c), None # "another" PROVE Tells(c, "log_level")
<1> DEFINE k == "log_level"
           verbose(e) == Conf!RunOnly(e, "verbose", "false")
           level(e) == Chain(e, k, k, "info")
<1>1. Key(k) = k /\ k \in FileSettings BY KeysAre DEF Key, FileSettings
<1>2. ChainTells(c, k, "another", "info", "info") BY <1>1, ChainTold
<1>3. \A e : Conf!Effective(e, k) = IF level(e).source = "default" /\ verbose(e).value = "true"
                                    THEN Conf!Told("debug", "verbose") ELSE level(e)
  BY OthersToo
<1>4. level(c).source \in {"flag", "env", "project", "user", "default"} BY SourcesAre
<1>5. CASE ~(level(c).source = "default" /\ verbose(c).value = "true")
  <2>1. Conf!Effective(c, k) = level(c) BY <1>3, <1>5
  <2> QED BY <1>1, <1>2, <1>3, <1>4, <2>1, ChangedIs DEF ChainTells, Tells
<1>6. CASE level(c).source = "default" /\ verbose(c).value = "true"
  <2>1. Conf!Effective(c, k).value = "debug" /\ Conf!Effective(c, k).source = "verbose"
    BY <1>3, <1>6 DEF Conf!Told
  <2>2. "verbose" \in Conf!Keys /\ Conf!Effective(c, "verbose") = verbose(c) BY KeysAre, OthersAre
  <2>3. PICK s : s = verbose(c).source OBVIOUS
  <2>4. s \in {"flag", "env"} /\ (s = "env" => Conf!FlagFor(c, "verbose") = None)
    BY <1>6, <2>3, RunOnlyIs
  <2> DEFINE e == Conf!Said(c, s, "verbose", "another")
  <2>5. Conf!Changed(c, "verbose", k, "another") = e BY <2>2, <2>3, ChangedIs
  <2>6. /\ \/ Conf!FlagFor(e, "verbose") = "another"
           \/ Conf!FlagFor(e, "verbose") = None /\ Conf!EnvFor(e, "verbose") = "another"
        /\ e.user = c.user /\ e.project = c.project /\ e.profile = c.profile
        /\ Conf!FlagFor(e, k) = Conf!FlagFor(c, k) /\ Conf!EnvFor(e, k) = Conf!EnvFor(c, k)
    BY <2>4, RunSaid
  <2> HIDE DEF e
  <2>7. verbose(e).value # "true" BY <2>6, RunOnlyIs
  <2>8. level(e).value = "info"
    <3>1. level(e) = level(c) BY <2>6 DEF Chain, Conf!OfRun
    <3> QED BY <1>6, <3>1, ChainIs
  <2>9. Conf!Effective(e, k).value = "info" BY <1>3, <2>7, <2>8
  <2> QED BY <2>1, <2>5, <2>9 DEF Tells
<1> QED BY <1>5, <1>6

LEMMA UpdateTells ==
  ASSUME NEW c, IsContext(c), None # "another" PROVE Tells(c, "update_auto")
<1> DEFINE k == "update_auto"
           said(e) == Chain(e, k, k, "false")
<1>1. Key(k) = k /\ k \in FileSettings BY KeysAre DEF Key, FileSettings
<1>2. ChainTells(c, k, "another", "false", "false") BY <1>1, ChainTold
<1>3. \A e : Conf!Effective(e, k) = IF Conf!EnvFor(e, "no_update") # None THEN Conf!Told("false", "env") ELSE said(e)
  BY OthersToo
<1>4. said(c).source \in {"flag", "env", "project", "user", "default"} BY SourcesAre
<1>5. Conf!Effective([c EXCEPT !.run.env = <<>>], k).source # "env"
  <2> DEFINE e == [c EXCEPT !.run.env = <<>>]
  <2>1. e.run.env = <<>> BY DEF IsContext
  <2>2. \A j : Conf!EnvFor(e, j) = None BY <2>1 DEF Conf!EnvFor, Conf!Given
  <2> HIDE DEF e
  <2>3. Conf!Effective(e, k).source # "env" BY <1>3, <2>2, ChainIs
  <2> QED BY <2>3 DEF e
<1>6. CASE Conf!EnvFor(c, "no_update") # None
  <2>1. Conf!Effective(c, k).source = "env" BY <1>3, <1>6 DEF Conf!Told
  <2> QED BY <1>5, <2>1 DEF Tells
<1>7. CASE Conf!EnvFor(c, "no_update") = None
  <2>1. \A s \in {"flag", "env", "project", "user", "default"} :
          Conf!EnvFor(Conf!Said(c, s, k, "another"), "no_update") = None
    BY <1>1, <1>7, RunSaid, FileSaid DEF SaysNow
  <2>2. Conf!Effective(c, k) = said(c) BY <1>3, <1>7
  <2> QED BY <1>1, <1>2, <1>3, <1>4, <1>5, <2>1, <2>2, ChangedIs DEF ChainTells, Tells
<1> QED BY <1>6, <1>7

\* What is said of a setting says nothing of another.
LEMMA Unmoved ==
  ASSUME NEW c, IsContext(c), NEW k, Key(k) \in FileSettings, NEW v, NEW default,
         NEW j \in FileSettings, j # k, j # Key(k), NEW s \in {"flag", "env", "project", "user", "default"}
  PROVE  Chain(Conf!Said(c, s, k, v), j, j, default) = Chain(c, j, j, default)
<1> DEFINE e == Conf!Said(c, s, k, v)
<1>1. /\ Conf!FlagFor(e, j) = Conf!FlagFor(c, j) /\ Conf!EnvFor(e, j) = Conf!EnvFor(c, j)
      /\ Says(e.project, e.profile, j) = Says(c.project, c.profile, j)
      /\ Says(e.user, e.profile, j) = Says(c.user, c.profile, j)
  <2>1. CASE s \in {"flag", "env"} BY <2>1, RunSaid
  <2>2. CASE s \in {"project", "user", "default"}
    <3>1. SaysNow(e, c, s, Key(k), v) BY <2>2, FileSaid
    <3> QED BY <3>1 DEF SaysNow
  <2> QED BY <2>1, <2>2
<1> QED BY <1>1 DEF Chain, Conf!OfRun

\* The site's address is the API's, if it is not said itself.
LEMMA SiteTells ==
  ASSUME NEW c, IsContext(c), None # "another" PROVE Tells(c, "site_url")
<1> DEFINE k == "site_url"
           said(e) == Chain(e, k, k, None)
           base(e) == Chain(e, "base_url", "base_url", None)
<1>1. /\ Key(k) = k /\ k \in FileSettings /\ Key("base_url") = "base_url" /\ "base_url" \in FileSettings
      /\ "base_url" \in Conf!Keys /\ "base_url" \in Straight
  BY KeysAre DEF Key, FileSettings, Straight
<1>2. ChainTells(c, k, "another", None, None) /\ ChainTells(c, "base_url", "another", None, None)
  BY <1>1, ChainTold
<1>3. \A e : Conf!Effective(e, k) = IF said(e).value = None /\ base(e).value # None
                                    THEN Conf!Told(base(e).value, "base_url") ELSE said(e)
  BY OthersToo
<1>4. /\ said(c).source \in {"flag", "env", "project", "user", "default"}
      /\ base(c).source \in {"flag", "env", "project", "user", "default"}
  BY SourcesAre
<1>5. CASE ~(said(c).value = None /\ base(c).value # None)
  <2>1. Conf!Effective(c, k) = said(c) BY <1>3, <1>5
  <2>2. \A e : said(e).value = "another" => Conf!Effective(e, k) = said(e) BY <1>3
  <2> QED BY <1>1, <1>2, <1>4, <2>1, <2>2, ChangedIs DEF ChainTells, Tells
<1>6. CASE said(c).value = None /\ base(c).value # None
  <2>1. Conf!Effective(c, k).source = "base_url" BY <1>3, <1>6 DEF Conf!Told
  <2>2. Conf!Effective(c, "base_url") = base(c) BY <1>1, StraightIs DEF Else
  <2> DEFINE e == Conf!Said(c, base(c).source, "base_url", "another")
  <2>3. Conf!Changed(c, "base_url", k, "another") = e BY <1>1, <2>2, ChangedIs
  <2>4. said(e) = said(c) BY <1>1, <1>4, Unmoved
  <2>5. base(e).value = "another" BY <1>1, <1>2, <1>4 DEF ChainTells
  <2> HIDE DEF e
  <2>6. Conf!Effective(e, k).value = "another" BY <1>3, <1>6, <2>4, <2>5 DEF Conf!Told
  <2> QED BY <2>1, <2>3, <2>6 DEF Tells
<1> QED BY <1>5, <1>6

\* GraphQL's path is under the API's, if it is not said itself.
LEMMA GraphQLTells ==
  ASSUME NEW c, IsContext(c), None # "another" PROVE Tells(c, "graphql_path")
<1> DEFINE k == "graphql_path"
           said(e) == Chain(e, k, k, None)
           api(e) == Chain(e, "api_path", "api_path", "/api")
<1>1. /\ Key(k) = k /\ k \in FileSettings /\ Key("api_path") = "api_path" /\ "api_path" \in FileSettings
      /\ "api_path" \in Conf!Keys /\ "api_path" \in Straight
  BY KeysAre DEF Key, FileSettings, Straight
<1>2. ChainTells(c, k, "another", None, None) /\ ChainTells(c, "api_path", "another", "/api", "/api")
  BY <1>1, ChainTold
<1>3. \A e : Conf!Effective(e, k) = IF said(e).value # None THEN said(e) ELSE Conf!Told(api(e).value, "api_path")
  BY OthersAre
<1>4. /\ said(c).source \in {"flag", "env", "project", "user", "default"}
      /\ api(c).source \in {"flag", "env", "project", "user", "default"}
  BY SourcesAre
<1>5. CASE said(c).value # None
  <2>1. Conf!Effective(c, k) = said(c) BY <1>3, <1>5
  <2>2. \A e : said(e).value = "another" => Conf!Effective(e, k) = said(e) BY <1>3
  <2> QED BY <1>1, <1>2, <1>4, <2>1, <2>2, ChangedIs DEF ChainTells, Tells
<1>6. CASE said(c).value = None
  <2>1. Conf!Effective(c, k).source = "api_path" BY <1>3, <1>6 DEF Conf!Told
  <2>2. Conf!Effective(c, "api_path") = api(c) BY <1>1, StraightIs DEF Else
  <2> DEFINE e == Conf!Said(c, api(c).source, "api_path", "another")
  <2>3. Conf!Changed(c, "api_path", k, "another") = e BY <1>1, <2>2, ChangedIs
  <2>4. said(e) = said(c) BY <1>1, <1>4, Unmoved
  <2>5. api(e).value = "another" BY <1>1, <1>2, <1>4 DEF ChainTells
  <2> HIDE DEF e
  <2>6. Conf!Effective(e, k).value = "another" BY <1>3, <1>6, <2>4, <2>5 DEF Conf!Told
  <2> QED BY <2>1, <2>3, <2>6 DEF Tells
<1> QED BY <1>5, <1>6

\* The headers have one source, and each is what the project says first.
LEMMA HeadersTell ==
  ASSUME NEW c, IsContext(c), NEW k \in Conf!Headers, None # "another" PROVE Tells(c, k)
<1>1. /\ Key(k) = k /\ k \in FileSettings /\ k \in Conf!ProfileKeys /\ Conf!Headers \subseteq Conf!ProfileKeys
      /\ Conf!Headers \subseteq FileSettings
  BY KeysAre DEF Key, FileSettings, Conf!Headers
<1>2. ASSUME NEW e
      PROVE  /\ Conf!Effective(e, k).value = IF Says(e.project, e.profile, k) # None THEN Says(e.project, e.profile, k)
                                             ELSE Says(e.user, e.profile, k)
             /\ Conf!Effective(e, k).source =
                  IF \E h \in Conf!Headers : Says(e.project, e.profile, h) # None THEN "project"
                  ELSE IF \E h \in Conf!Headers : Says(e.user, e.profile, h) # None THEN "user" ELSE "default"
  <2>1. Conf!Effective(e, k) = Conf!ResolvedHeaders(e, k) BY OthersAre
  <2> QED BY <1>1, <2>1 DEF Conf!ResolvedHeaders, Says, Conf!Told
<1>3. \A s \in {"project", "user", "default"} : SaysNow(Conf!Said(c, s, k, "another"), c, s, k, "another")
  BY <1>1, FileSaid
<1> DEFINE source == Conf!Effective(c, k).source
<1>4. CASE source = "project"
  <2> DEFINE e == Conf!Said(c, "project", k, "another")
  <2>1. Says(e.project, e.profile, k) = "another" BY <1>1, <1>3 DEF SaysNow
  <2>2. Conf!Effective(e, k).value = "another" BY <1>2, <2>1
  <2> QED BY <1>4, <2>2, ChangedIs DEF Tells
<1>5. CASE source = "user"
  <2> DEFINE e == Conf!Said(c, "user", k, "another")
  <2>1. Says(c.project, c.profile, k) = None BY <1>2, <1>5
  <2>2. Says(e.user, e.profile, k) = "another" /\ Says(e.project, e.profile, k) = None
    BY <1>1, <1>3, <2>1 DEF SaysNow
  <2>3. Conf!Effective(e, k).value = "another" BY <1>2, <2>2
  <2> QED BY <1>5, <2>3, ChangedIs DEF Tells
<1>6. CASE source = "default"
  <2>1. \A h \in Conf!Headers : Says(c.project, c.profile, h) = None BY <1>2, <1>6
  <2>2. Conf!Effective(Conf!Said(c, "project", k, "another"), k).source = "project"
    <3> DEFINE e == Conf!Said(c, "project", k, "another")
    <3>1. Says(e.project, e.profile, k) = "another" BY <1>1, <1>3 DEF SaysNow
    <3> QED BY <1>2, <3>1
  <2>3. Conf!Effective(Conf!Said(c, "user", k, "another"), k).source = "user"
    <3> DEFINE e == Conf!Said(c, "user", k, "another")
    <3>1. Says(e.user, e.profile, k) = "another" /\ \A h \in Conf!Headers : Says(e.project, e.profile, h) = None
      BY <1>1, <1>3, <2>1 DEF SaysNow
    <3> QED BY <1>2, <3>1
  <2> QED BY <1>6, <2>2, <2>3 DEF Tells
<1> QED BY <1>2, <1>4, <1>5, <1>6


LEMMA AboutRun ==
  ASSUME NEW k \in Conf!Explained, NEW p, NEW r \in Conf!RunsAbout(k, p), NEW u, NEW pr, IsFile(u), IsFile(pr)
  PROVE  LET c == Conf!Context(r, u, pr)
         IN  /\ IsContext(c)
             /\ k = "discovery_ttl" => Conf!FlagFor(c, "cache_ttl") = None /\ Conf!EnvFor(c, "cache_ttl") = None
<1> DEFINE c == Conf!Context(r, u, pr)
<1>1. PICK flags, env : r = Conf!Run(p, None, flags, env) BY DEF Conf!RunsAbout
<1>2. IsContext(c) BY <1>1 DEF Conf!Context, Conf!Run, IsContext
<1>3. ASSUME k = "discovery_ttl" PROVE Conf!FlagFor(c, "cache_ttl") = None /\ Conf!EnvFor(c, "cache_ttl") = None
  <2>1. Conf!Other(k) = k /\ k \notin Conf!FlagKeys /\ k \notin Conf!EnvKeys
    BY <1>3 DEF Conf!Other, Conf!FlagKeys, Conf!EnvKeys
  <2>2. r = Conf!Run(p, None, <<>>, <<>>) BY <2>1 DEF Conf!RunsAbout
  <2> QED BY <2>2 DEF Conf!Context, Conf!Run, Conf!FlagFor, Conf!EnvFor, Conf!Given
<1> QED BY <1>2, <1>3

\* What config explain tells is so, of files that have the keys they may.
LEMMA FilesTell ==
  ASSUME IsFile(sUser), IsFile(sProject), None # "another" PROVE Conf!SourceTrue
<1> SUFFICES ASSUME NEW k \in Conf!Explained, NEW r \in Conf!RunsAbout(k, Conf!Default(sUser))
             PROVE  LET c == Conf!Context(r, sUser, sProject)
                        told == Conf!Effective(c, k)
                        new == "another"
                        becomes == Conf!Effective(Conf!Changed(c, told.source, k, new), k).value
                    IN  CASE told.source = "default" ->
                               k \in Conf!FileKeys \cup Conf!ProfileKeys =>
                                 \A s \in {"user", "project"} : Conf!Effective(Conf!Said(c, s, k, new), k).source = s
                          [] told.source = "verbose" -> becomes # told.value
                          [] k = "update_auto" /\ told.source = "env" ->
                               Conf!Effective([c EXCEPT !.run.env = <<>>], k).source # "env"
                          [] OTHER -> becomes = new
  BY DEF Conf!SourceTrue
<1> DEFINE c == Conf!Context(r, sUser, sProject)
<1>1. IsContext(c) /\ (k = "discovery_ttl" => Conf!FlagFor(c, "cache_ttl") = None /\ Conf!EnvFor(c, "cache_ttl") = None)
  BY AboutRun
<1> HIDE DEF c
<1>2. k \in Straight \cup Conf!Headers \cup {"concurrency", "backup_dir", "max_docs", "discovery_ttl", "verbose",
        "log_level", "update_auto", "site_url", "graphql_path"}
  BY KeysAre DEF Conf!Explained, Straight, Conf!Headers
<1>3. Tells(c, k)
  BY <1>1, <1>2, StraightTells, HeadersTell, ConcurrencyTells, BackupsTell, MaxDocsTells, TTLTells, VerboseTells,
     LevelTells, UpdateTells, SiteTells, GraphQLTells
<1> QED BY <1>3 DEF c, Tells, FileSettings


-----------------------------------------------------------------------------
(* The commands.                                                             *)

\* Profiles have names, and what a key is set to is something.
Proper ==
  /\ None \notin Names \cup {Fallback, "under work"}
  /\ \A k \in FileSettings : None \notin Words[k]
  /\ \A l \in Files : IsFile(l.user) /\ IsFile(l.project)

\* A command leaves a file, and what it is not about.
LeavesRest ==
  /\ IsFile(sUser') /\ sProject' = sProject
  /\ \A p \in Names : \A j \in FileSettings \ Conf!About(sDone', p) : Says(sUser', p, j) = Says(sUser, p, j)

LEMMA SetLeaves ==
  ASSUME Proper, IsFile(sUser), NEW p, NEW k, NEW v, Conf!ConfigSet(p, k, v),
         (p = None /\ k \in Conf!FileKeys \cup {"default_profile"}) \/ (p \in Names /\ k \in Conf!ProfileKeys)
  PROVE  LeavesRest /\ SetTo(sUser', sUser, p, k, Conf!Stored(k, v))
<1>1. /\ sUser' = Conf!TomlSet(sUser, p, k, Conf!Stored(k, v)) /\ sProject' = sProject
      /\ sDone' = [cmd |-> "set", profile |-> p, key |-> k, value |-> v]
  BY DEF Conf!ConfigSet, Conf!Ends, Conf!Done
<1>2. SetTo(sUser', sUser, p, k, Conf!Stored(k, v)) BY <1>1, TomlSets DEF FileSettings
<1>3. \A q : Conf!About(sDone', q) = IF p \in {None, q} THEN {k} ELSE {} BY <1>1 DEF Conf!About
<1>4. Conf!FileKeys \cap Conf!ProfileKeys = {} /\ "default_profile" \notin FileSettings BY KeysAre DEF FileSettings
<1> QED BY <1>1, <1>2, <1>3, <1>4 DEF LeavesRest, SetTo, Proper

LEMMA UnsetLeaves ==
  ASSUME Proper, IsFile(sUser), NEW p, NEW k, Conf!ConfigUnset(p, k),
         (p = None /\ k \in Conf!FileKeys \cup {"default_profile"}) \/ (p \in Names /\ k \in Conf!ProfileKeys)
  PROVE  LeavesRest
<1>1. /\ sUser' = Conf!TomlDelete(sUser, p, k) /\ sProject' = sProject
      /\ sDone' = [cmd |-> "unset", profile |-> p, key |-> k, value |-> None]
  BY DEF Conf!ConfigUnset, Conf!Ends, Conf!Done
<1>2. sUser' = sUser \/ SetTo(sUser', sUser, p, k, None) BY <1>1, TomlSets DEF FileSettings, Conf!TomlDelete
<1>3. \A q : Conf!About(sDone', q) = IF p \in {None, q} THEN {k} ELSE {} BY <1>1 DEF Conf!About
<1>4. Conf!FileKeys \cap Conf!ProfileKeys = {} /\ "default_profile" \notin FileSettings BY KeysAre DEF FileSettings
<1> QED BY <1>1, <1>2, <1>3, <1>4 DEF LeavesRest, SetTo, Proper

LEMMA DropLeaves ==
  ASSUME IsFile(sUser), NEW p, Conf!ConfigDrops(p) PROVE LeavesRest
<1>1. /\ sUser' = [sUser EXCEPT !.profiles = [q \in DOMAIN @ \ {p} |-> @[q]]] /\ sProject' = sProject
      /\ sDone' = [cmd |-> "drop", profile |-> p, key |-> None, value |-> None]
  BY DEF Conf!ConfigDrops, Conf!Ends, Conf!Done
<1>2. /\ DOMAIN sUser' = DOMAIN sUser /\ sUser'.keys = sUser.keys
      /\ sUser'.profiles = [q \in DOMAIN sUser.profiles \ {p} |-> sUser.profiles[q]]
  BY <1>1 DEF IsFile
<1>3. IsFile(sUser') BY <1>2 DEF IsFile
<1>4. \A q : q # p => Conf!Profile(sUser', q) = Conf!Profile(sUser, q) BY <1>2 DEF Conf!Profile
<1>5. Conf!About(sDone', p) = Conf!ProfileKeys BY <1>1 DEF Conf!About
<1> QED BY <1>1, <1>2, <1>3, <1>4, <1>5 DEF LeavesRest, Says

LEMMA UseLeaves ==
  ASSUME IsFile(sUser), NEW p, Conf!AuthUse(p)
  PROVE  LeavesRest /\ sUser'.default = p /\ sUser'.profiles = sUser.profiles
<1>1. /\ sUser' = [[sUser EXCEPT !.default = p] EXCEPT !.unknown = FALSE] /\ sProject' = sProject
  BY DEF Conf!AuthUse, Conf!Ends, Conf!Done, Conf!Save
<1>2. /\ DOMAIN sUser' = DOMAIN sUser /\ sUser'.keys = sUser.keys /\ sUser'.profiles = sUser.profiles
      /\ sUser'.default = p
  BY <1>1 DEF IsFile
<1>3. IsFile(sUser') BY <1>2 DEF IsFile
<1> QED BY <1>1, <1>2, <1>3 DEF LeavesRest, Says, Conf!Profile

LEMMA RenameLeaves ==
  ASSUME IsFile(sUser), NEW old, NEW new, Conf!AuthRename(old, new)
  PROVE  /\ LeavesRest /\ Conf!Profile(sUser', new) = Conf!Profile(sUser, old) /\ sUser'.keys = sUser.keys
         /\ DOMAIN sUser'.profiles = (DOMAIN sUser.profiles \ {old}) \cup {new}
         /\ sUser'.default = IF sUser.default = old THEN new ELSE sUser.default
<1>1. /\ sUser' = [[sUser EXCEPT
             !.profiles = [q \in (DOMAIN @ \ {old}) \cup {new} |-> IF q = new THEN @[old] ELSE @[q]],
             !.default  = IF @ = old THEN new ELSE @] EXCEPT !.unknown = FALSE]
      /\ sProject' = sProject
      /\ sDone' = [cmd |-> "rename", profile |-> old, key |-> new, value |-> None]
      /\ old # new /\ old \in DOMAIN sUser.profiles /\ new \notin DOMAIN sUser.profiles
  BY DEF Conf!AuthRename, Conf!Ends, Conf!Done, Conf!Save
<1>2. /\ DOMAIN sUser' = DOMAIN sUser /\ sUser'.keys = sUser.keys
      /\ sUser'.profiles = [q \in (DOMAIN sUser.profiles \ {old}) \cup {new} |->
                             IF q = new THEN sUser.profiles[old] ELSE sUser.profiles[q]]
      /\ sUser'.default = IF sUser.default = old THEN new ELSE sUser.default
  BY <1>1 DEF IsFile
<1>3. IsFile(sUser') BY <1>1, <1>2 DEF IsFile
<1>4. /\ \A q : q \notin {old, new} => Conf!Profile(sUser', q) = Conf!Profile(sUser, q)
      /\ Conf!Profile(sUser', new) = Conf!Profile(sUser, old)
  BY <1>1, <1>2 DEF Conf!Profile
<1>5. Conf!About(sDone', old) = Conf!ProfileKeys /\ Conf!About(sDone', new) = Conf!ProfileKeys
  BY <1>1 DEF Conf!About
<1>6. \A p \in Names : \A j \in FileSettings \ Conf!About(sDone', p) : Says(sUser', p, j) = Says(sUser, p, j)
  <2> SUFFICES ASSUME NEW p \in Names, NEW j \in FileSettings \ Conf!About(sDone', p)
               PROVE  Says(sUser', p, j) = Says(sUser, p, j)
    OBVIOUS
  <2>1. CASE p \in {old, new} BY <1>2, <1>5, <2>1 DEF Says
  <2>2. CASE p \notin {old, new} BY <1>2, <1>4, <2>2 DEF Says
  <2> QED BY <2>1, <2>2
<1> QED BY <1>1, <1>2, <1>3, <1>4, <1>6 DEF LeavesRest


LEMMA LoginLeaves ==
  ASSUME IsFile(sUser), NEW r, NEW mode, Conf!PersistProfile(r, mode)
  PROVE  LET p == Conf!Here(r).profile
         IN  /\ LeavesRest
             /\ sDone' = [cmd |-> "login", profile |-> p, key |-> "base_url", value |-> Says(sUser', p, "base_url")]
             /\ Says(sUser', p, "base_url") # None
<1> DEFINE c == Conf!Here(r)
           p == c.profile
           old == Conf!Profile(sUser, p)
           address == Conf!Effective(c, "base_url").value
           prefix == Conf!Effective(c, "api_path").value
           asked(k) == Conf!Given(r.flags, k) # None
           new == [old EXCEPT !.base_url = address,
                              !.api_path  = IF asked("api_path") THEN prefix ELSE @,
                              !.auth_mode = IF @ = None \/ asked("auth_mode") THEN mode ELSE @]
           g == [sUser EXCEPT !.profiles = Conf!With(@, p, new), !.default  = IF @ = None THEN p ELSE @]
<1>1. /\ new.base_url # None /\ Conf!Save(g) /\ sProject' = sProject
      /\ sDone' = [cmd |-> "login", profile |-> p, key |-> "base_url", value |-> new.base_url]
  BY DEF Conf!PersistProfile, Conf!Ends, Conf!Done
<1>2. Conf!ProfileKeys \subseteq DOMAIN old BY ProfileHas
<1> HIDE DEF address, prefix, asked, old, p
<1>3. /\ DOMAIN new = DOMAIN old
      /\ \A k \in Conf!ProfileKeys \ {"base_url", "api_path", "auth_mode"} : new[k] = old[k]
  BY <1>2
<1> HIDE DEF new
<1>4. /\ DOMAIN g = DOMAIN sUser /\ g.keys = sUser.keys
      /\ g.profiles = Conf!With(sUser.profiles, p, new)
  BY DEF IsFile
<1>5. sUser' = [g EXCEPT !.unknown = FALSE] BY <1>1 DEF Conf!Save
<1> HIDE DEF g
<1>6. /\ DOMAIN sUser' = DOMAIN sUser /\ sUser'.keys = sUser.keys
      /\ sUser'.profiles = Conf!With(sUser.profiles, p, new)
  BY <1>4, <1>5 DEF IsFile
<1>7. Replaced(sUser', sUser, p, new) BY <1>2, <1>3, <1>6 DEF Replaced
<1>8. IsFile(sUser') /\ \A q : Conf!Profile(sUser', q) = IF q = p THEN new ELSE Conf!Profile(sUser, q)
  BY <1>7, OneProfile
<1>9. Conf!About(sDone', p) = {"base_url", "api_path", "auth_mode"} BY <1>1 DEF Conf!About
<1>10. \A q \in Names : \A j \in FileSettings \ Conf!About(sDone', q) : Says(sUser', q, j) = Says(sUser, q, j)
  <2> SUFFICES ASSUME NEW q \in Names, NEW j \in FileSettings \ Conf!About(sDone', q)
               PROVE  Says(sUser', q, j) = Says(sUser, q, j)
    OBVIOUS
  <2>1. CASE q = p BY <1>3, <1>6, <1>8, <1>9, <2>1 DEF Says, old
  <2>2. CASE q # p BY <1>6, <1>8, <2>2 DEF Says
  <2> QED BY <2>1, <2>2
<1>11. Says(sUser', p, "base_url") = new.base_url BY <1>8, KeysAre DEF Says
<1> QED BY <1>1, <1>8, <1>10, <1>11 DEF LeavesRest, p


\* A run that says nothing but its profile.
Quiet(c) == \A k : Conf!FlagFor(c, k) = None /\ Conf!EnvFor(c, k) = None

LEMMA QuietAt ==
  ASSUME NEW u, NEW pr, NEW p, p # None
  PROVE  LET c == Conf!Context(Conf!At(p), u, pr)
         IN  Quiet(c) /\ c.user = u /\ c.project = pr /\ c.profile = p
<1> DEFINE r == Conf!At(p)
           c == Conf!Context(r, u, pr)
<1>1. r.profile = p /\ r.flags = <<>> /\ r.env = <<>> BY DEF Conf!At, Conf!Plain, Conf!Run
<1> HIDE DEF r
<1>2. c.run = r /\ c.user = u /\ c.project = pr /\ c.profile = p
  BY <1>1 DEF Conf!Context, Conf!Selected
<1>3. Quiet(c) BY <1>1, <1>2 DEF Quiet, Conf!FlagFor, Conf!EnvFor, Conf!Given
<1> QED BY <1>2, <1>3 DEF r

\* Those that a flag of the run would change.
LEMMA Plainly ==
  ASSUME NEW c, Quiet(c)
  PROVE  /\ Conf!Effective(c, "discovery_ttl") = Chain(c, "discovery_ttl", "discovery_ttl", "24h")
         /\ Conf!Effective(c, "log_level") = Chain(c, "log_level", "log_level", "info")
         /\ Conf!Effective(c, "update_auto") = Chain(c, "update_auto", "update_auto", "false")
         /\ Chain(c, "backup_dir", "backup_dir", None).value # "relative" =>
              Conf!Effective(c, "backup_dir") = Chain(c, "backup_dir", "backup_dir", None)
         /\ Chain(c, "site_url", "site_url", None).value # None =>
              Conf!Effective(c, "site_url") = Chain(c, "site_url", "site_url", None)
<1>1. Conf!Effective(c, "discovery_ttl") = Chain(c, "discovery_ttl", "discovery_ttl", "24h")
  <2>1. Conf!RunOnly(c, "cache_ttl", None).value = None BY RunOnlyIs DEF Quiet
  <2>2. Conf!RunOnly(c, "cache_ttl", None).value = None =>
          Conf!Effective(c, "discovery_ttl") = Chain(c, "discovery_ttl", "discovery_ttl", "24h")
    BY OthersToo
  <2> QED BY <2>1, <2>2
<1>2. Conf!Effective(c, "log_level") = Chain(c, "log_level", "log_level", "info")
  <2>1. Conf!RunOnly(c, "verbose", "false").value = "false" BY RunOnlyIs DEF Quiet
  <2>2. Conf!RunOnly(c, "verbose", "false").value # "true" =>
          Conf!Effective(c, "log_level") = Chain(c, "log_level", "log_level", "info")
    BY OthersToo
  <2> QED BY <2>1, <2>2
<1>3. Conf!Effective(c, "update_auto") = Chain(c, "update_auto", "update_auto", "false")
  <2>1. Conf!EnvFor(c, "no_update") = None BY DEF Quiet
  <2>2. Conf!EnvFor(c, "no_update") = None =>
          Conf!Effective(c, "update_auto") = Chain(c, "update_auto", "update_auto", "false")
    BY OthersToo
  <2> QED BY <2>1, <2>2
<1>4. Chain(c, "backup_dir", "backup_dir", None).value # "relative" =>
        Conf!Effective(c, "backup_dir") = Chain(c, "backup_dir", "backup_dir", None)
  BY OthersToo
<1>5. Chain(c, "site_url", "site_url", None).value # None =>
        Conf!Effective(c, "site_url") = Chain(c, "site_url", "site_url", None)
  BY OthersToo
<1> QED BY <1>1, <1>2, <1>3, <1>4, <1>5

\* What a setting is worked out of, in the files.
Sources(k) ==
  CASE k = "site_url" -> {"site_url", "base_url"}
    [] k = "graphql_path" -> {"graphql_path", "api_path"}
    [] k = "max_docs" -> {"max_bulk"}
    [] k \in {"cache_ttl", "verbose", "no_update"} -> {}
    [] OTHER -> {k}

LEMMA SourcesFollow ==
  ASSUME NEW k \in Conf!Keys, NEW j \in Sources(k)
  PROVE  j \in FileSettings /\ k \in Conf!Follows(j)
BY KeysAre DEF Sources, Conf!Follows, FileSettings

\* Two runs for which the files say the same of that.
SameSaid(c, e, k) ==
  \A j \in Sources(k) : /\ Says(c.project, c.profile, j) = Says(e.project, e.profile, j)
                        /\ Says(c.user, c.profile, j) = Says(e.user, e.profile, j)

LEMMA SameChain ==
  ASSUME NEW c, NEW e, Quiet(c), Quiet(e), NEW k, SameSaid(c, e, k), NEW key \in Sources(k), NEW j, NEW default
  PROVE  Chain(c, j, key, default) = Chain(e, j, key, default)
BY DEF SameSaid, Quiet, Chain, Conf!OfRun

LEMMA SameValue ==
  ASSUME NEW c, NEW e, Quiet(c), Quiet(e), NEW k \in Conf!Keys, SameSaid(c, e, k)
  PROVE  Conf!Effective(c, k).value = Conf!Effective(e, k).value
<1>1. CASE k \in Straight
  <2>1. k \in Sources(k) BY <1>1 DEF Straight, Sources
  <2> QED BY <1>1, <2>1, StraightIs, SameChain
<1>2. CASE k \in Conf!Headers
  <2>1. k \in Sources(k) /\ k \in Conf!ProfileKeys BY <1>2, KeysAre DEF Conf!Headers, Sources
  <2>2. /\ Conf!Profile(c.project, c.profile)[k] = Conf!Profile(e.project, e.profile)[k]
        /\ Conf!Profile(c.user, c.profile)[k] = Conf!Profile(e.user, e.profile)[k]
    BY <2>1 DEF SameSaid, Says
  <2>3. Conf!Effective(c, k) = Conf!ResolvedHeaders(c, k) /\ Conf!Effective(e, k) = Conf!ResolvedHeaders(e, k)
    BY <1>2, OthersAre
  <2> QED BY <2>2, <2>3 DEF Conf!ResolvedHeaders, Conf!Told
<1>3. CASE k = "graphql_path"
  <2>1. {"graphql_path", "api_path"} \subseteq Sources(k) BY <1>3 DEF Sources
  <2>2. /\ Chain(c, "graphql_path", "graphql_path", None) = Chain(e, "graphql_path", "graphql_path", None)
        /\ Chain(c, "api_path", "api_path", "/api") = Chain(e, "api_path", "api_path", "/api")
    BY <2>1, SameChain
  <2> QED BY <1>3, <2>2, OthersAre
<1>4. CASE k = "max_docs"
  <2>1. "max_bulk" \in Sources(k) BY <1>4 DEF Sources
  <2>2. \A j, default : Chain(c, j, "max_bulk", default) = Chain(e, j, "max_bulk", default)
    BY <2>1, SameChain
  <2> QED BY <1>4, <2>2, OthersAre
<1>5. CASE k = "concurrency"
  <2>1. Chain(c, k, k, "8") = Chain(e, k, k, "8") BY <1>5, SameChain DEF Sources
  <2> QED BY <1>5, <2>1, OthersAre
<1>6. CASE k \in {"cache_ttl", "verbose", "no_update"}
  BY <1>6, OthersAre, RunOnlyIs DEF Quiet, Conf!Told
<1>7. CASE k = "discovery_ttl"
  <2>1. Chain(c, k, k, "24h") = Chain(e, k, k, "24h") BY <1>7, SameChain DEF Sources
  <2> QED BY <1>7, <2>1, Plainly
<1>8. CASE k = "log_level"
  <2>1. Chain(c, k, k, "info") = Chain(e, k, k, "info") BY <1>8, SameChain DEF Sources
  <2> QED BY <1>8, <2>1, Plainly
<1>9. CASE k = "update_auto"
  <2>1. Chain(c, k, k, "false") = Chain(e, k, k, "false") BY <1>9, SameChain DEF Sources
  <2> QED BY <1>9, <2>1, Plainly
<1>10. CASE k = "backup_dir"
  <2>1. Chain(c, k, k, None) = Chain(e, k, k, None) BY <1>10, SameChain DEF Sources
  <2> DEFINE anchor(said) == CASE said.source = "project" -> "under project" [] said.source = "user" -> "under user"
                               [] OTHER -> "under work"
             anchored(said) == IF said.value = "relative" THEN [said EXCEPT !.value = anchor(said)] ELSE said
  <2>2. \A x : Conf!Effective(x, "backup_dir") = anchored(Chain(x, "backup_dir", "backup_dir", None))
    BY OthersToo
  <2> HIDE DEF anchored
  <2> QED BY <1>10, <2>1, <2>2
<1>11. CASE k = "site_url"
  <2>1. {"site_url", "base_url"} \subseteq Sources(k) BY <1>11 DEF Sources
  <2>2. /\ Chain(c, "site_url", "site_url", None) = Chain(e, "site_url", "site_url", None)
        /\ Chain(c, "base_url", "base_url", None) = Chain(e, "base_url", "base_url", None)
    BY <2>1, SameChain
  <2> DEFINE site(said, base) == IF said.value = None /\ base.value # None THEN Conf!Told(base.value, "base_url") ELSE said
  <2>3. \A x : Conf!Effective(x, "site_url")
                 = site(Chain(x, "site_url", "site_url", None), Chain(x, "base_url", "base_url", None))
    BY OthersToo
  <2> HIDE DEF site
  <2> QED BY <1>11, <2>2, <2>3
<1>12. k \in Straight \cup Conf!Headers \cup {"graphql_path", "max_docs", "concurrency", "cache_ttl", "verbose",
         "no_update", "discovery_ttl", "log_level", "update_auto", "backup_dir", "site_url"}
  BY KeysAre DEF Straight, Conf!Headers
<1> QED BY <1>1, <1>2, <1>3, <1>4, <1>5, <1>6, <1>7, <1>8, <1>9, <1>10, <1>11, <1>12


\* What the user's file alone says of a setting is its value, but for how many workers there
\* are at most.
LEMMA UserSays ==
  ASSUME NEW c, Quiet(c), NEW k \in FileSettings, Says(c.project, c.profile, k) = None,
         NEW v, v = Says(c.user, c.profile, k), v # None, k # "backup_dir" \/ v # "relative"
  PROVE  Conf!Effective(c, k).value = IF k = "concurrency" THEN Conf!Clamped(v) ELSE v
<1>1. \A default : Chain(c, k, k, default).value = v /\ Chain(c, k, k, default).source = "user"
  BY ChainIs DEF Quiet
<1>2. \A default : DOMAIN Chain(c, k, k, default) = {"value", "source"} BY ChainIs
<1>3. CASE k \in Straight BY <1>1, <1>3, StraightIs DEF Straight
<1>4. CASE k \in Conf!Headers
  <2>1. k \in Conf!ProfileKeys BY <1>4, KeysAre DEF Conf!Headers
  <2>2. Conf!Effective(c, k) = Conf!ResolvedHeaders(c, k) BY <1>4, OthersAre
  <2> QED BY <1>4, <2>1, <2>2 DEF Conf!ResolvedHeaders, Conf!Told, Says, Conf!Headers
<1>5. CASE k = "graphql_path" BY <1>1, <1>5, OthersAre
<1>6. CASE k = "concurrency" BY <1>1, <1>2, <1>6, OthersAre
<1>7. CASE k \in {"discovery_ttl", "log_level", "update_auto", "backup_dir", "site_url"} BY <1>1, <1>7, Plainly
<1> QED BY <1>3, <1>4, <1>5, <1>6, <1>7, KeysAre
        DEF Straight, Conf!Headers, FileSettings

\* What the project says is the value whatever the user's file says.
LEMMA ProjectSays ==
  ASSUME NEW c, NEW e, Quiet(c), Quiet(e), c.project = e.project, c.profile = e.profile,
         NEW k \in FileSettings, Says(c.project, c.profile, k) # None
  PROVE  Conf!Effective(c, k).value = Conf!Effective(e, k).value
<1>1. \A default : /\ Chain(c, k, k, default) = Chain(e, k, k, default)
                   /\ Chain(c, k, k, default).source = "project"
                   /\ Chain(c, k, k, default).value # None
  <2>1. \A default : Chain(c, k, k, default).source = "project" /\ Chain(c, k, k, default).value # None
    BY ChainIs DEF Quiet
  <2>2. \A default : Chain(c, k, k, default) = Chain(e, k, k, default)
    BY DEF Quiet, Chain, Conf!OfRun, Conf!Or, Conf!Told
  <2> QED BY <2>1, <2>2
<1>3. CASE k \in Straight BY <1>1, <1>3, StraightIs
<1>4. CASE k \in Conf!Headers
  <2>1. k \in Conf!ProfileKeys BY <1>4, KeysAre DEF Conf!Headers
  <2>2. Conf!Effective(c, k) = Conf!ResolvedHeaders(c, k) /\ Conf!Effective(e, k) = Conf!ResolvedHeaders(e, k)
    BY <1>4, OthersAre
  <2> QED BY <2>1, <2>2 DEF Conf!ResolvedHeaders, Conf!Told, Says
<1>5. CASE k = "graphql_path" BY <1>1, <1>5, OthersAre
<1>6. CASE k = "concurrency" BY <1>1, <1>6, OthersAre
<1>7. CASE k \in {"discovery_ttl", "log_level", "update_auto"} BY <1>1, <1>7, Plainly
<1>8. CASE k = "backup_dir"
  <2> DEFINE anchor(said) == CASE said.source = "project" -> "under project" [] said.source = "user" -> "under user"
                               [] OTHER -> "under work"
             anchored(said) == IF said.value = "relative" THEN [said EXCEPT !.value = anchor(said)] ELSE said
  <2>1. \A x : Conf!Effective(x, "backup_dir") = anchored(Chain(x, "backup_dir", "backup_dir", None))
    BY OthersToo
  <2> HIDE DEF anchored
  <2> QED BY <1>1, <1>8, <2>1
<1>9. CASE k = "site_url"
  <2>1. \A x : Chain(x, "site_url", "site_url", None).value # None =>
          Conf!Effective(x, "site_url") = Chain(x, "site_url", "site_url", None)
    BY OthersToo
  <2> QED BY <1>1, <1>9, <2>1
<1> QED BY <1>3, <1>4, <1>5, <1>6, <1>7, <1>8, <1>9, KeysAre
        DEF Straight, Conf!Headers, FileSettings


-----------------------------------------------------------------------------
(* What a command keeps, part by part.                                       *)

RestKept ==
  \A p \in Names :
    LET now == Conf!Context(Conf!At(p), sUser', sProject)
        was == Conf!Context(Conf!At(p), sUser, sProject)
    IN  \A k \in Conf!Keys \ Conf!Touched(sDone', p) : Conf!Effective(now, k).value = Conf!Effective(was, k).value

SetKept ==
  sDone'.cmd \in {"set", "login"} /\ sDone'.key # "default_profile" =>
    \A p \in Names : sDone'.profile \in {None, p} =>
      Conf!Value(sUser', p, sDone'.key) =
        IF Conf!InProject(p, sDone'.key) # None THEN Conf!Value(sUser, p, sDone'.key)
        ELSE Conf!Means(sDone'.key, sDone'.value)

MovedKept ==
  sDone'.cmd = "rename" /\ DOMAIN sProject.profiles = {} =>
    \A k \in Conf!Keys : Conf!Value(sUser', sDone'.key, k) = Conf!Value(sUser, sDone'.profile, k)

DefaultMoves ==
  sDone'.cmd = "rename" /\ sProject.default = None /\ sDone'.profile \in {sUser.default, Conf!Default(sUser)}
      /\ (sUser.default # None \/ Conf!Default(sUser) \notin {Fallback} \cup DOMAIN sProject.profiles) =>
    Conf!Default(sUser') = IF Conf!Default(sUser) = sDone'.profile THEN sDone'.key ELSE Conf!Default(sUser)

DefaultUsed == sDone'.cmd = "use" /\ sProject.default = None => Conf!Default(sUser') = sDone'.profile

DefaultStays ==
  Conf!Default(sUser') # Conf!Default(sUser) =>
    sUser'.default # sUser.default \/ DOMAIN sUser'.profiles # DOMAIN sUser.profiles

Kept == RestKept /\ SetKept /\ MovedKept /\ DefaultMoves /\ DefaultUsed /\ DefaultStays

LEMMA KeptIs == Kept <=> Conf!KeepsSettings
BY DEF Kept, Conf!KeepsSettings, RestKept, SetKept, MovedKept, DefaultMoves, DefaultUsed, DefaultStays

\* What is not touched is what it was.
LEMMA RestIsKept ==
  ASSUME Proper, LeavesRest PROVE RestKept
<1> SUFFICES ASSUME NEW p \in Names, NEW k \in Conf!Keys \ Conf!Touched(sDone', p)
             PROVE  Conf!Effective(Conf!Context(Conf!At(p), sUser', sProject), k).value
                      = Conf!Effective(Conf!Context(Conf!At(p), sUser, sProject), k).value
  BY DEF RestKept
<1> DEFINE now == Conf!Context(Conf!At(p), sUser', sProject)
           was == Conf!Context(Conf!At(p), sUser, sProject)
<1>1. p # None BY DEF Proper
<1>2. /\ Quiet(now) /\ now.user = sUser' /\ now.project = sProject /\ now.profile = p
      /\ Quiet(was) /\ was.user = sUser /\ was.project = sProject /\ was.profile = p
  BY <1>1, QuietAt
<1> HIDE DEF now, was
<1>3. ASSUME NEW j \in Sources(k) PROVE Says(sUser', p, j) = Says(sUser, p, j)
  <2>1. j \in FileSettings /\ k \in Conf!Follows(j) BY SourcesFollow
  <2>2. j \notin Conf!About(sDone', p) BY <2>1 DEF Conf!Touched
  <2> QED BY <2>1, <2>2 DEF LeavesRest
<1>4. SameSaid(now, was, k) BY <1>2, <1>3 DEF SameSaid
<1>5. Conf!Effective(now, k).value = Conf!Effective(was, k).value BY <1>2, <1>4, SameValue
<1> QED BY <1>5 DEF now, was

\* Which profile is the default depends on which one the file says and which there are.
LEMMA DefaultIs ==
  ASSUME NEW u
  PROVE  Conf!Default(u) =
           IF sProject.default # None THEN sProject.default
           ELSE IF u.default # None THEN u.default
           ELSE IF \E n \in Names : Conf!ProfileNames(u, sProject) = {n}
                THEN CHOOSE n \in Names : Conf!ProfileNames(u, sProject) = {n}
                ELSE Fallback
BY DEF Conf!Default, Conf!Selected, Conf!Plain, Conf!Run

LEMMA DefaultStaysSo == DefaultStays
<1> SUFFICES ASSUME sUser'.default = sUser.default, DOMAIN sUser'.profiles = DOMAIN sUser.profiles
             PROVE  Conf!Default(sUser') = Conf!Default(sUser)
  BY DEF DefaultStays
<1>1. Conf!ProfileNames(sUser', sProject) = Conf!ProfileNames(sUser, sProject) BY DEF Conf!ProfileNames
<1> QED BY <1>1, DefaultIs


\* What the next run works with, of a key that the user's file says v of.
LEMMA NextRunHas ==
  ASSUME Proper, NEW p \in Names, NEW k \in FileSettings, NEW v, v = Says(sUser', p, k), v # None,
         k # "backup_dir" \/ v # "relative"
  PROVE  Conf!Value(sUser', p, k) = IF Conf!InProject(p, k) # None THEN Conf!Value(sUser, p, k)
                                    ELSE IF k = "concurrency" THEN Conf!Clamped(v) ELSE v
<1> DEFINE now == Conf!Context(Conf!At(p), sUser', sProject)
           was == Conf!Context(Conf!At(p), sUser, sProject)
<1>1. p # None BY DEF Proper
<1>2. /\ Quiet(now) /\ now.user = sUser' /\ now.project = sProject /\ now.profile = p
      /\ Quiet(was) /\ was.user = sUser /\ was.project = sProject /\ was.profile = p
  BY <1>1, QuietAt
<1>3. /\ Conf!Value(sUser', p, k) = Conf!Effective(now, k).value
      /\ Conf!Value(sUser, p, k) = Conf!Effective(was, k).value
  BY DEF Conf!Value
<1>4. Conf!InProject(p, k) = Says(sProject, p, k) BY DEF Conf!InProject, Says, FileSettings
<1> HIDE DEF now, was
<1>5. CASE Conf!InProject(p, k) # None
  <2>1. Conf!Effective(now, k).value = Conf!Effective(was, k).value BY <1>2, <1>4, <1>5, ProjectSays
  <2> QED BY <1>3, <1>5, <2>1
<1>6. CASE Conf!InProject(p, k) = None
  <2>1. Conf!Effective(now, k).value = IF k = "concurrency" THEN Conf!Clamped(v) ELSE v
    BY <1>2, <1>4, <1>6, UserSays
  <2> QED BY <1>3, <1>6, <2>1
<1> QED BY <1>5, <1>6

LEMMA SetKeeps ==
  ASSUME Proper, IsFile(sUser), NEW p, NEW k, NEW v, Conf!ConfigSet(p, k, v),
         \/ p = None /\ k \in Conf!FileKeys /\ v \in Words[k]
         \/ p \in Names /\ k \in Conf!ProfileKeys /\ v \in Words[k]
         \/ p = None /\ k = "default_profile"
  PROVE  LeavesRest /\ SetKept /\ sDone'.cmd = "set"
<1>1. LeavesRest /\ SetTo(sUser', sUser, p, k, Conf!Stored(k, v)) BY SetLeaves
<1>2. sDone' = [cmd |-> "set", profile |-> p, key |-> k, value |-> v]
  BY DEF Conf!ConfigSet, Conf!Ends, Conf!Done
<1>3. ASSUME k # "default_profile", NEW q \in Names, p \in {None, q}
      PROVE  Conf!Value(sUser', q, k) = IF Conf!InProject(q, k) # None THEN Conf!Value(sUser, q, k)
                                        ELSE Conf!Means(k, v)
  <2>1. k \in FileSettings /\ v # None /\ (p = q \/ k \in Conf!FileKeys)
    BY <1>3 DEF Proper, FileSettings
  <2>2. Says(sUser', q, k) = Conf!Stored(k, v) BY <1>1, <2>1 DEF SetTo
  <2>3. Conf!Stored(k, v) # None /\ (k # "backup_dir" \/ Conf!Stored(k, v) # "relative")
    BY <2>1 DEF Conf!Stored, Proper
  <2>4. Conf!Means(k, v) = IF k = "concurrency" THEN Conf!Clamped(Conf!Stored(k, v)) ELSE Conf!Stored(k, v)
    BY DEF Conf!Means, Conf!Stored
  <2> QED BY <2>1, <2>2, <2>3, <2>4, NextRunHas
<1>4. SetKept BY <1>2, <1>3 DEF SetKept
<1> QED BY <1>1, <1>2, <1>4

LEMMA LoginKeeps ==
  ASSUME Proper, IsFile(sUser), NEW r, NEW mode, Conf!PersistProfile(r, mode)
  PROVE  LeavesRest /\ SetKept /\ sDone'.cmd = "login"
<1> DEFINE p == Conf!Here(r).profile
           v == Says(sUser', p, "base_url")
<1>1. LeavesRest /\ sDone' = [cmd |-> "login", profile |-> p, key |-> "base_url", value |-> v] /\ v # None
  BY LoginLeaves
<1>2. p # None BY DEF Conf!Here, Conf!Context, Conf!Selected, Proper
<1> HIDE DEF p
<1>3. ASSUME NEW q \in Names, p \in {None, q}
      PROVE  Conf!Value(sUser', q, "base_url") = IF Conf!InProject(q, "base_url") # None THEN Conf!Value(sUser, q, "base_url")
                                                 ELSE v
  <2>1. q = p /\ "base_url" \in FileSettings BY <1>2, <1>3, KeysAre DEF FileSettings
  <2> QED BY <1>1, <2>1, NextRunHas
<1>4. SetKept
  <2>1. Conf!Means("base_url", v) = v BY DEF Conf!Means
  <2> QED BY <1>1, <1>3, <2>1 DEF SetKept
<1> QED BY <1>1, <1>4


LEMMA RenameKeeps ==
  ASSUME Proper, IsFile(sUser), NEW old \in Names, NEW new \in Names, Conf!AuthRename(old, new)
  PROVE  LeavesRest /\ MovedKept /\ DefaultMoves /\ sDone'.cmd = "rename"
<1>1. /\ LeavesRest /\ Conf!Profile(sUser', new) = Conf!Profile(sUser, old) /\ sUser'.keys = sUser.keys
      /\ DOMAIN sUser'.profiles = (DOMAIN sUser.profiles \ {old}) \cup {new}
      /\ sUser'.default = IF sUser.default = old THEN new ELSE sUser.default
  BY RenameLeaves
<1>2. /\ sDone' = [cmd |-> "rename", profile |-> old, key |-> new, value |-> None]
      /\ old \in DOMAIN sUser.profiles /\ new \notin DOMAIN sUser.profiles
  BY DEF Conf!AuthRename, Conf!Ends, Conf!Done
<1>3. old # None /\ new # None BY DEF Proper
<1>4. MovedKept
  <2> SUFFICES ASSUME DOMAIN sProject.profiles = {}, NEW k \in Conf!Keys
               PROVE  Conf!Value(sUser', new, k) = Conf!Value(sUser, old, k)
    BY <1>2 DEF MovedKept
  <2> DEFINE now == Conf!Context(Conf!At(new), sUser', sProject)
             was == Conf!Context(Conf!At(old), sUser, sProject)
  <2>1. /\ Quiet(now) /\ now.user = sUser' /\ now.project = sProject /\ now.profile = new
        /\ Quiet(was) /\ was.user = sUser /\ was.project = sProject /\ was.profile = old
    BY <1>3, QuietAt
  <2>2. /\ Conf!Value(sUser', new, k) = Conf!Effective(now, k).value
        /\ Conf!Value(sUser, old, k) = Conf!Effective(was, k).value
    BY DEF Conf!Value
  <2> HIDE DEF now, was
  <2>3. Conf!Profile(sProject, new) = Conf!Profile(sProject, old) BY DEF Conf!Profile
  <2>4. SameSaid(now, was, k) BY <1>1, <2>1, <2>3 DEF SameSaid, Says
  <2> QED BY <2>1, <2>2, <2>4, SameValue
<1>5. DefaultMoves
  <2> SUFFICES ASSUME sProject.default = None, old \in {sUser.default, Conf!Default(sUser)},
                      sUser.default # None \/ Conf!Default(sUser) \notin {Fallback} \cup DOMAIN sProject.profiles
               PROVE  Conf!Default(sUser') = IF Conf!Default(sUser) = old THEN new ELSE Conf!Default(sUser)
    BY <1>2 DEF DefaultMoves
  <2>1. CASE sUser.default # None
    <3>1. Conf!Default(sUser) = sUser.default BY <2>1, DefaultIs
    <3>2. sUser'.default # None BY <1>1, <1>3, <2>1
    <3>3. Conf!Default(sUser') = sUser'.default BY <3>2, DefaultIs
    <3> QED BY <1>1, <3>1, <3>3
  <2>2. CASE sUser.default = None
    <3>1. PICK n \in Names : Conf!ProfileNames(sUser, sProject) = {n} BY <2>2, DefaultIs
    <3>2. Conf!Default(sUser) = n BY <2>2, <3>1, DefaultIs
    <3>3. n = old BY <1>3, <2>2, <3>2
    <3>4. DOMAIN sProject.profiles = {} BY <2>2, <3>1, <3>2 DEF Conf!ProfileNames
    <3>5. DOMAIN sUser.profiles = {old} BY <3>1, <3>3, <3>4 DEF Conf!ProfileNames
    <3>6. Conf!ProfileNames(sUser', sProject) = {new} BY <1>1, <3>4, <3>5 DEF Conf!ProfileNames
    <3>7. sUser'.default = None BY <1>1, <1>3, <2>2
    <3>8. Conf!Default(sUser') = new BY <3>6, <3>7, DefaultIs
    <3> QED BY <3>2, <3>3, <3>8
  <2> QED BY <2>1, <2>2
<1> QED BY <1>1, <1>2, <1>4, <1>5

LEMMA UseKeeps ==
  ASSUME Proper, IsFile(sUser), NEW p \in Names, Conf!AuthUse(p)
  PROVE  LeavesRest /\ DefaultUsed /\ sDone'.cmd = "use"
<1>1. LeavesRest /\ sUser'.default = p BY UseLeaves
<1>2. sDone' = [cmd |-> "use", profile |-> p, key |-> None, value |-> None]
  BY DEF Conf!AuthUse, Conf!Ends, Conf!Done
<1>3. sProject.default = None => Conf!Default(sUser') = p BY <1>1, DefaultIs DEF Proper
<1> QED BY <1>1, <1>2, <1>3 DEF DefaultUsed

LEMMA CommandsKeep ==
  ASSUME Proper, IsFile(sUser), IsFile(sProject), Conf!Next
  PROVE  LeavesRest /\ Conf!KeepsSettings
<1>1. ASSUME LeavesRest, SetKept \/ sDone'.cmd \notin {"set", "login"},
             (MovedKept /\ DefaultMoves) \/ sDone'.cmd # "rename", DefaultUsed \/ sDone'.cmd # "use"
      PROVE  LeavesRest /\ Conf!KeepsSettings
  BY <1>1, RestIsKept, DefaultStaysSo, KeptIs DEF Kept, SetKept, MovedKept, DefaultMoves, DefaultUsed
<1>2. CASE \E r \in Conf!LoginRuns, mode \in {"api-key", "jwt"} : Conf!PersistProfile(r, mode)
  BY <1>1, <1>2, LoginKeeps
<1>3. ASSUME NEW p, NEW k, NEW v, Conf!ConfigSet(p, k, v),
             \/ p = None /\ k \in Conf!FileKeys /\ v \in Words[k]
             \/ p \in Names /\ k \in Conf!ProfileKeys /\ v \in Words[k]
             \/ p = None /\ k = "default_profile"
      PROVE  LeavesRest /\ Conf!KeepsSettings
  BY <1>1, <1>3, SetKeeps
<1>4. ASSUME NEW p, NEW k, Conf!ConfigUnset(p, k),
             (p = None /\ k \in Conf!FileKeys \cup {"default_profile"}) \/ (p \in Names /\ k \in Conf!ProfileKeys)
      PROVE  LeavesRest /\ Conf!KeepsSettings
  <2>1. LeavesRest BY <1>4, UnsetLeaves
  <2>2. sDone'.cmd = "unset" BY <1>4 DEF Conf!ConfigUnset, Conf!Ends, Conf!Done
  <2> QED BY <1>1, <2>1, <2>2
<1>5. ASSUME NEW p, Conf!ConfigDrops(p) PROVE LeavesRest /\ Conf!KeepsSettings
  <2>1. LeavesRest BY <1>5, DropLeaves
  <2>2. sDone'.cmd = "drop" BY <1>5 DEF Conf!ConfigDrops, Conf!Ends, Conf!Done
  <2> QED BY <1>1, <2>1, <2>2
<1>6. ASSUME NEW p \in Names, Conf!AuthUse(p) PROVE LeavesRest /\ Conf!KeepsSettings
  BY <1>1, <1>6, UseKeeps
<1>7. ASSUME NEW old \in Names, NEW new \in Names, Conf!AuthRename(old, new) PROVE LeavesRest /\ Conf!KeepsSettings
  BY <1>1, <1>7, RenameKeeps
<1>8. CASE Conf!Commands
  <2>1. CASE \E k \in Conf!FileKeys : \E v \in Words[k] : Conf!ConfigSet(None, k, v) BY <1>3, <2>1
  <2>2. CASE \E k \in Conf!ProfileKeys, p \in Names : \E v \in Words[k] : Conf!ConfigSet(p, k, v) BY <1>3, <2>2
  <2>3. CASE \E p \in Names : Conf!ConfigSet(None, "default_profile", p) BY <1>3, <2>3
  <2>4. CASE \E k \in Conf!FileKeys \cup {"default_profile"} : Conf!ConfigUnset(None, k) BY <1>4, <2>4
  <2>5. CASE \E k \in Conf!ProfileKeys, p \in Names : Conf!ConfigUnset(p, k) BY <1>4, <2>5
  <2>6. CASE \E p \in Names : Conf!ConfigDrops(p) \/ Conf!AuthUse(p) BY <1>5, <1>6, <2>6
  <2>7. CASE \E old, new \in Names : Conf!AuthRename(old, new) BY <1>7, <2>7
  <2> QED BY <1>8, <2>1, <2>2, <2>3, <2>4, <2>5, <2>6, <2>7 DEF Conf!Commands
<1> QED BY <1>2, <1>8 DEF Conf!Next

FilesInv == IsFile(sUser) /\ IsFile(sProject)

LEMMA FilesStay ==
  ASSUME Proper, FilesInv, [SetupNext]_<<part, vars, settingsVars>>
  PROVE  FilesInv' /\ [part = "settings" => Conf!KeepsSettings]_settingsVars
<1>1. CASE Discovers /\ Next BY <1>1 DEF Discovers, settingsVars, FilesInv, IsFile
<1>2. CASE UNCHANGED <<part, vars, settingsVars>> BY <1>2 DEF settingsVars, FilesInv, IsFile
<1>3. CASE Conf!Next
  <2>1. LeavesRest /\ Conf!KeepsSettings BY <1>3, CommandsKeep DEF FilesInv
  <2> QED BY <2>1 DEF LeavesRest, FilesInv
<1> QED BY <1>1, <1>2, <1>3 DEF SetupNext

\* The source config explain names is the one to change, in every state of the two files that
\* commands can lead to (resolve.go:1212 Explain).
THEOREM SourcesAreTold ==
  ASSUME Proper, None # "another" PROVE SetupSpec => []SourceTrue
<1>1. SetupInit => FilesInv BY DEF SetupInit, Conf!Init, Proper, FilesInv
<1>2. FilesInv /\ [SetupNext]_<<part, vars, settingsVars>> => FilesInv' BY FilesStay
<1>3. FilesInv => SourceTrue BY FilesTell DEF SourceTrue, FilesInv
<1> QED BY <1>1, <1>2, <1>3, PTL DEF SetupSpec

\* A command that changes config.toml changes what it names and nothing else; what it sets is
\* what the next run works with, unless the project says otherwise; and a profile that gets
\* another name keeps its settings (config.go:351 editConfig, auth.go:380 persistProfile).
THEOREM SettingsStay ==
  ASSUME Proper PROVE SetupSpec => SettingsKept
<1>1. SetupInit => FilesInv BY DEF SetupInit, Conf!Init, Proper, FilesInv
<1>2. FilesInv /\ [SetupNext]_<<part, vars, settingsVars>> => FilesInv' BY FilesStay
<1>3. FilesInv /\ [SetupNext]_<<part, vars, settingsVars>> => [part = "settings" => Conf!KeepsSettings]_settingsVars
  BY FilesStay
<1> QED BY <1>1, <1>2, <1>3, PTL DEF SetupSpec, SettingsKept
=============================================================================
