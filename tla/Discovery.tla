------------------------------ MODULE Discovery ------------------------------
(***************************************************************************)
(* One discovery run (internal/discovery, Discoverer.Run): the auth        *)
(* collection is found (stage -1), then the API path and the identity      *)
(* (stage 0), the GraphQL schema (stages 1 and 2), and what GraphQL does   *)
(* not tell is probed over REST by a pool of workers (stage 3).  The index *)
(* is assembled from whatever came back; requests may fail, and the        *)
(* command's deadline may pass at any time.                                *)
(*                                                                         *)
(* Of a collection's flags two stand for all: "upload", which the type     *)
(* fetched in stage 2 tells and a probe takes as true unless the route is  *)
(* missing (drafts, trash and folders are told the same way), and          *)
(* "versions", which stage 1 tells and a probe takes as false unless the   *)
(* answer has documents (so are auth and the labels).                      *)
(***************************************************************************)
EXTENDS Integers, FiniteSets, Sequences, SequencesExt

CONSTANTS
  Servers,      \* the servers considered, see Server
  Settings,     \* what the command was configured with, see Setting
  Paths,        \* how many API paths are probed, the configured one first
  Width,        \* --concurrency
  MaxBatches,   \* the GraphQL requests of one round of stage 2
  MaxFailures,  \* bound on the requests that fail
  None

\* A collection: who sees it in /access, whether GraphQL has it, whether its REST
\* endpoints are on, whether credentials are kept in it, its flags, what documents it has
\* ("none", some with "plain" or some with "localized" text), and the keys of each of its
\* group fields.
Coll(seen, anon, graphql, endpoints, auth, upload, versions, docs, groups) ==
  [seen |-> seen, anon |-> anon, graphql |-> graphql, endpoints |-> endpoints,
   auth |-> auth, upload |-> upload, versions |-> versions, docs |-> docs, groups |-> groups]

\* A server: its collections, the paths that answer as Payload, the auth collection that
\* accepts the credential, whether introspection works, how many aliases one GraphQL
\* query may have, its locales, and which of the project-wide routes it has.
Server(colls, serves, home, graphql, aliases, locales, routes) ==
  [colls |-> colls, serves |-> serves, home |-> home, graphql |-> graphql,
   aliases |-> aliases, locales |-> locales, routes |-> routes]

\* Settings: the auth collection, if it was set or cached; no credential; the API path
\* was configured; --deep.
Setting(auth, anonymous, pinned, deep) ==
  [auth |-> auth, anonymous |-> anonymous, pinned |-> pinned, deep |-> deep]

\* Collections are numbered; the one a credential belongs to keeps credentials and can be
\* asked, over REST, who that is.
ASSUME ServersAssumption ==
  \A sv \in Servers :
    /\ DOMAIN sv.colls \subseteq Nat /\ IsFiniteSet(DOMAIN sv.colls)
    /\ \A s \in DOMAIN sv.colls :
         LET c == sv.colls[s]
         IN  /\ c.endpoints \in BOOLEAN /\ c.upload \in BOOLEAN /\ c.versions \in BOOLEAN
             /\ IsFiniteSet(c.groups)
    /\ sv.home # None =>
         sv.home \in DOMAIN sv.colls /\ sv.colls[sv.home].auth /\ sv.colls[sv.home].endpoints
    /\ sv.locales \subseteq Nat /\ IsFiniteSet(sv.locales)
ASSUME BoundsAssumption == Paths \in Nat \ {0} /\ Width \in Nat /\ MaxBatches \in Nat
ASSUME NoneAssumption ==
  None \notin Nat \cup BOOLEAN \cup {"endpoint_not_payload", "auth_invalid", "auth_collection_unknown"}

VARIABLES
  server, set,
  phase,
  todo, busy,      \* the jobs of the pool: waiting for a worker, and at work
  got,             \* the answers of the pool's jobs
  candidates,      \* the auth collections still to be tried
  auth, path,      \* the auth collection and the API path in use
  schema,          \* the memo of stage 1: None, "ok" or "failed"
  view, viewer,    \* the slugs /access showed, and whose view that is
  identity,        \* the auth collection /me confirmed
  queue, issued,   \* stage 2: the batches to ask, and how many were asked
  types,           \* the collections whose GraphQL type is known, and LocaleInputType
  probes,          \* the answers of the collections' probes, kept
  project,         \* the project-wide routes, by name
  localization,
  failed,          \* the jobs and requests that got no answer
  cancelled,       \* the deadline has passed
  index, error     \* what the run returns

vars == <<server, set, phase, todo, busy, got, candidates, auth, path, schema, view, viewer, identity,
          queue, issued, types, probes, project, localization, failed, cancelled, index, error>>
given  == <<server, set>>
pool   == <<todo, busy, got>>
who    == <<candidates, auth, path>>
seen   == <<view, viewer, identity>>
stage2 == <<queue, issued, types>>
stage3 == <<probes, project, localization>>
result == <<index, error>>

Slugs == DOMAIN server.colls
C(s)  == server.colls[s]

-----------------------------------------------------------------------------
(* The server.                                                              *)

\* The identity a request with the header of auth collection a has.
As(a) == IF ~set.anonymous /\ a # None /\ a = server.home THEN server.home ELSE None

ViewOf(id) == {s \in Slugs : IF id = None THEN C(s).anon ELSE C(s).seen}
InSchema   == {s \in Slugs : C(s).graphql}

\* A request fails when the network does, or when the deadline has passed; MaxFailures
\* bounds the former.
Fails(what)  == (cancelled \/ Cardinality(failed) < MaxFailures) /\ failed' = failed \cup {what}
Answered     == ~cancelled /\ UNCHANGED failed

Cancels ==
  /\ phase # "done" /\ ~cancelled /\ cancelled' = TRUE
  /\ UNCHANGED <<given, phase, pool, who, schema, seen, stage2, stage3, failed, result>>

-----------------------------------------------------------------------------
(* The pool: every job waits for one of Width workers.                      *)

Enqueue(jobs) == todo' = jobs /\ busy' = {} /\ got' = <<>>

Takes ==
  /\ \E j \in todo : Cardinality(busy) < Width /\ todo' = todo \ {j} /\ busy' = busy \cup {j}
  /\ UNCHANGED <<given, phase, got, who, schema, seen, stage2, stage3, failed, cancelled, result>>

Answers(j, answer) == got' = [k \in DOMAIN got \cup {j} |-> IF k = j THEN answer ELSE got[k]]

\* Mutant: the worker's slot is not given back.
GivesAndKeeps(j, answer) == Answers(j, answer) /\ UNCHANGED <<todo, busy>>

\* A worker is done with job j.
Gives(j, answer) == busy' = busy \ {j} /\ Answers(j, answer) /\ UNCHANGED todo

Waited == todo = {} /\ busy = {}

Ends(e) == phase' = "done" /\ error' = e

-----------------------------------------------------------------------------
Init ==
  /\ server \in Servers /\ set \in Settings
  /\ auth = set.auth /\ path = 1
  /\ phase = IF set.auth = None /\ ~set.anonymous THEN "anonymous" ELSE "paths0"
  /\ todo = {} /\ busy = {} /\ got = <<>> /\ candidates = {}
  /\ schema = None /\ view = {} /\ viewer = None /\ identity = None
  /\ queue = <<>> /\ issued = 0 /\ types = {}
  /\ probes = <<>> /\ project = <<>> /\ localization = None
  /\ failed = {} /\ cancelled = FALSE /\ index = None /\ error = None

-----------------------------------------------------------------------------
(* Stage -1 (runAuthBootstrap), which asks at the configured API path.       *)

\* The anonymous view gives candidates.
AsksAnonymously ==
  /\ phase = "anonymous" /\ phase' = "widen"
  /\ \/ Fails(<<"anonymous", 0>>) /\ UNCHANGED candidates
     \/ Answered /\ candidates' = IF path \in server.serves THEN ViewOf(None) ELSE {}
  /\ UNCHANGED <<given, pool, auth, path, schema, seen, stage2, stage3, cancelled, result>>

\* gqlOnce: asked once per run, and a failure is remembered like an answer.
Schema ==
  IF schema # None THEN UNCHANGED <<schema, failed>>
  ELSE \/ Fails(<<"schema", 0>>) /\ schema' = "failed"
       \/ Answered /\ schema' = IF server.graphql /\ path \in server.serves THEN "ok" ELSE "failed"

\* GraphQL tells of every auth collection; the candidates are then asked in parallel.
Widens ==
  /\ phase = "widen" /\ Schema
  /\ LET all == candidates \cup IF schema' = "ok" THEN {s \in InSchema : C(s).auth} ELSE {}
     IN  \/ all = {} /\ Ends("auth_collection_unknown") /\ UNCHANGED pool
         \/ all # {} /\ phase' = "init" /\ Enqueue(all) /\ UNCHANGED error
  /\ UNCHANGED <<given, who, seen, stage2, stage3, cancelled, index>>

\* probeInit: a collection that keeps credentials says whether it has users.
Inits ==
  /\ phase = "init"
  /\ \E s \in busy : \/ Fails(<<"init", s>>) /\ Gives(s, FALSE)
                     \/ Answered /\ Gives(s, path \in server.serves /\ C(s).auth /\ C(s).endpoints)
  /\ UNCHANGED <<given, phase, who, schema, seen, stage2, stage3, cancelled, result>>

Filtered ==
  /\ phase = "init" /\ Waited
  /\ LET survivors == {s \in DOMAIN got : got[s]}
     IN  /\ candidates' = survivors
         /\ \/ survivors = {} /\ Ends("auth_collection_unknown")
            \/ survivors # {} /\ phase' = "try" /\ UNCHANGED error
  /\ Enqueue({}) /\ UNCHANGED <<given, auth, path, schema, seen, stage2, stage3, failed, cancelled, index>>

\* Mutant: the anonymous view counts as accepted.
TriesByStatus ==
  /\ phase = "try"
  /\ LET s == Min(candidates)
     IN  /\ candidates' = candidates \ {s}
         /\ \/ Answered /\ auth' = s /\ phase' = "paths0" /\ UNCHANGED error
            \/ /\ Fails(<<"try", s>>)
               /\ UNCHANGED auth
               /\ IF candidates' = {} THEN Ends("auth_collection_unknown") ELSE UNCHANGED <<phase, error>>
  /\ UNCHANGED <<given, pool, path, schema, seen, stage2, stage3, cancelled, index>>

\* The candidates are tried in order; a user in the answer, never its status, accepts one.
Tries ==
  /\ phase = "try"
  /\ LET s == Min(candidates)
     IN  /\ candidates' = candidates \ {s}
         /\ \/ Answered /\ s = server.home /\ auth' = s /\ phase' = "paths0" /\ UNCHANGED error
            \/ /\ Fails(<<"try", s>>) \/ (Answered /\ s # server.home)
               /\ UNCHANGED auth
               /\ IF candidates' = {} THEN Ends("auth_collection_unknown") ELSE UNCHANGED <<phase, error>>
  /\ UNCHANGED <<given, pool, path, schema, seen, stage2, stage3, cancelled, index>>

-----------------------------------------------------------------------------
(* Stage 0.                                                                 *)

\* resolveAPIPath: a configured path is asked alone, otherwise every candidate is.
AsksPaths ==
  /\ phase = "paths0" /\ phase' = "paths" /\ Enqueue(IF set.pinned THEN {1} ELSE 1 .. Paths)
  /\ UNCHANGED <<given, who, schema, seen, stage2, stage3, failed, cancelled, result>>

Accesses ==
  /\ phase = "paths"
  /\ \E p \in busy : \/ Fails(<<"access", p>>) /\ Gives(p, FALSE)
                     \/ Answered /\ Gives(p, p \in server.serves)
  /\ UNCHANGED <<given, phase, who, schema, seen, stage2, stage3, cancelled, result>>

\* The first acceptance in list order wins, whichever request came back first.
Chosen(found) == Min(found)

\* /me is not asked without a credential.
Resolves ==
  /\ phase = "paths" /\ Waited
  /\ LET found == {p \in DOMAIN got : got[p]}
     IN  \/ found = {} /\ Ends("endpoint_not_payload") /\ UNCHANGED <<path, view, viewer>>
         \/ /\ found # {} /\ path' = Chosen(found) /\ view' = ViewOf(As(auth)) /\ viewer' = As(auth)
            /\ phase' = IF set.anonymous \/ auth = None THEN "stage1" ELSE "me"
            /\ UNCHANGED error
  /\ Enqueue({}) /\ UNCHANGED <<given, candidates, auth, schema, identity, stage2, stage3, failed, cancelled, index>>

\* decodeIdentity: a wrong slug or key answers 200 and no user.
Identifies ==
  /\ phase = "me"
  /\ \/ (Fails(<<"me", 0>>) \/ (Answered /\ As(auth) = None)) /\ Ends("auth_invalid") /\ UNCHANGED identity
     \/ Answered /\ As(auth) # None /\ identity' = auth /\ phase' = "stage1" /\ UNCHANGED error
  /\ UNCHANGED <<given, pool, who, schema, view, viewer, stage2, stage3, cancelled, index>>

-----------------------------------------------------------------------------
(* Stages 1 and 2.                                                          *)

\* The entities of GraphQL.
Entities == IF schema = "ok" THEN InSchema ELSE {}

\* The type whose values are the locales, mangled by formatName.
LocaleInputType == 0

AsksSchema ==
  /\ phase = "stage1" /\ Schema /\ issued' = 0 /\ phase' = "stage2"
  /\ queue' = IF schema' = "ok" THEN <<SetToSortSeq({LocaleInputType} \cup InSchema, <)>> ELSE <<>>
  /\ UNCHANGED <<given, pool, who, seen, types, stage3, cancelled, result>>

\* fetchTypes: a batch the server refuses is halved, until MaxBatches were asked.
AsksTypes ==
  /\ phase = "stage2" /\ queue # <<>>
  /\ LET batch == Head(queue)
         half  == Len(batch) \div 2
         rest  == Tail(queue)
         names == {batch[n] : n \in DOMAIN batch}
         split == IF Len(batch) = 1 THEN rest
                  ELSE rest \o <<SubSeq(batch, 1, half), SubSeq(batch, half + 1, Len(batch))>>
     IN  \/ issued >= MaxBatches /\ queue' = rest /\ UNCHANGED <<issued, types, failed>>
         \/ /\ issued < MaxBatches /\ issued' = issued + 1
            /\ \/ Fails(<<"types", names>>) /\ queue' = split /\ UNCHANGED types
               \/ Answered /\ Len(batch) > server.aliases /\ queue' = split /\ UNCHANGED types
               \/ Answered /\ Len(batch) <= server.aliases /\ queue' = rest /\ types' = types \cup names
  /\ UNCHANGED <<given, phase, pool, who, schema, seen, stage3, cancelled, result>>

\* unite: neither /access nor GraphQL alone is complete.
Rows == view \cup Entities

\* probeNeedFor: what GraphQL told is not probed, unless --deep.
Need(s) == (IF set.deep \/ s \notin types THEN {"upload"} ELSE {})
           \cup (IF set.deep \/ s \notin types \/ s \notin Entities THEN {"versions"} ELSE {})

StartsProbes ==
  /\ phase = "stage2" /\ queue = <<>> /\ phase' = "probe"
  /\ Enqueue({s \in Rows : Need(s) # {}})
  /\ UNCHANGED <<given, who, schema, seen, stage2, stage3, failed, cancelled, result>>

-----------------------------------------------------------------------------
(* Stage 3.                                                                 *)

Unprobed == [off |-> None, upload |-> None, versions |-> None]

\* What the identity's requests to a collection's own routes are answered with.
Open(s) == s \in ViewOf(As(auth))

\* probeCollection: the guard first, which ends it; then the probes still needed.
\* lost are the requests of it that get no answer.
Probed(s, lost) ==
  LET guard == "guard" \notin lost /\ ~C(s).endpoints
      flag(f, unanswered, truth) ==
        IF f \notin Need(s) THEN None ELSE IF f \in lost THEN unanswered ELSE truth
  IN  IF guard THEN [Unprobed EXCEPT !.off = TRUE]
      ELSE IF ~C(s).endpoints /\ Need(s) \ lost # {} THEN
             [Unprobed EXCEPT !.off = TRUE,
                              !.upload = IF "upload" \in Need(s) /\ "upload" \in lost THEN TRUE ELSE None]
      ELSE [off      |-> FALSE,
            upload   |-> flag("upload", TRUE, C(s).upload),
            versions |-> flag("versions", FALSE, C(s).versions /\ Open(s))]

Probes ==
  /\ phase = "probe"
  /\ \E s \in busy :
       \E lost \in IF cancelled THEN {{"guard"} \cup Need(s)} ELSE SUBSET ({"guard"} \cup Need(s)) :
         /\ Cardinality(failed) + Cardinality(lost) <= MaxFailures \/ cancelled
         /\ failed' = failed \cup {<<f, s>> : f \in lost}
         /\ Gives(s, Probed(s, lost))
  /\ UNCHANGED <<given, phase, who, schema, seen, stage2, stage3, cancelled, result>>

\* mergeFlags: a GraphQL fact beats a probe.
Taken(graphql, probed) == IF graphql # None THEN graphql ELSE probed

\* reachabilityFor: without GraphQL its silence says nothing.
Reachability(s) ==
  CASE s \in view /\ (s \in Entities \/ schema # "ok") -> "ok"
    [] s \in view /\ s \notin Entities /\ schema = "ok" -> "graphql_disabled"
    [] s \notin view                                   -> "access_denied"

Routes == {"reorder", "og", "preferences"}

\* runProjectProbes: three requests at once.
StartsProject ==
  /\ phase = "probe" /\ Waited /\ phase' = "project" /\ probes' = got
  /\ todo' = {} /\ busy' = Routes /\ got' = <<>>
  /\ UNCHANGED <<given, who, schema, seen, stage2, project, localization, failed, cancelled, result>>

\* A request that failed teaches nothing.
AsksProject ==
  /\ phase = "project"
  /\ \E r \in busy : \/ Fails(<<"route", r>>) /\ Gives(r, None)
                     \/ Answered /\ Gives(r, r \in server.routes)
  /\ UNCHANGED <<given, phase, who, schema, seen, stage2, stage3, cancelled, result>>

-----------------------------------------------------------------------------
(* Locales (resolveLocalization).                                           *)

\* Keys are numbers; from here on they are longer than a locale code may be.
Long == 100

\* formatName: what GraphQL calls a locale; two locales may share a name.
FormatName(k) == k % 10

Enabled == IF schema # "ok" \/ InSchema = {} THEN None ELSE server.locales # {}
EnumNames == IF LocaleInputType \in types THEN {FormatName(l) : l \in server.locales} ELSE {}

\* pickLocaleSampleCollection: of the collections that show a document the one with most
\* groups, the first of several.
Sampled(lost) ==
  LET readable == {s \in Rows \ lost : Open(s) /\ C(s).endpoints /\ C(s).docs # "none"}
      most     == {s \in readable : \A t \in readable : Cardinality(C(t).groups) <= Cardinality(C(s).groups)}
  IN  IF readable = {} THEN None ELSE Min(most)

\* looksLikeLocaleKeys: codes are short.
LooksLikeCodes(keys) == \A k \in keys : k < Long

\* AnalyzeLocaleAll: the keys that the objects of collection s have in common when every
\* locale is asked for (the sample has several documents, so each of them occurs twice).
Candidates(s) ==
  LET objects == {o \in C(s).groups \cup (IF C(s).docs = "localized" THEN {server.locales} ELSE {}) : LooksLikeCodes(o)}
  IN  {k \in UNION objects : \A o \in objects : k \in o}

\* CrossValidateLocales.
CrossValidated(codes) ==
  /\ codes # {} /\ EnumNames # {} /\ Cardinality(codes) = Cardinality(EnumNames)
  /\ \A k \in codes : FormatName(k) \in EnumNames

\* ResolveLocales: mangled names are never given out as codes.
ResolvedLocales(codes) ==
  CASE codes # {} /\ types # {} /\ CrossValidated(codes) -> [locales |-> codes, source |-> "locale_all"]
    [] codes # {} /\ types = {}                         -> [locales |-> codes, source |-> "unverified"]
    [] OTHER -> [locales |-> {}, source |-> IF EnumNames # {} THEN "mangled" ELSE "unknown"]

\* What GraphQL leaves open, codes that were found settle.
Localization(codes) ==
  LET r == ResolvedLocales(codes)
  IN  [enabled |-> IF Enabled = None /\ r.source \in {"locale_all", "unverified"} THEN TRUE ELSE Enabled,
       locales |-> r.locales, source |-> r.source]

Unlocalized == [enabled |-> FALSE, locales |-> {}, source |-> "graphql_arg_absent"]

\* The sample of the picked collection, with every locale.
WholeSample == 0

\* Samples are taken one collection after the other, then that one; any may be lost.
Localizes ==
  /\ phase = "project" /\ Waited /\ phase' = "assemble" /\ project' = got /\ Enqueue({})
  /\ \/ Enabled = FALSE /\ EnumNames = {} /\ localization' = Unlocalized /\ UNCHANGED failed
     \/ /\ ~(Enabled = FALSE /\ EnumNames = {})
        /\ \E lost \in IF cancelled THEN {Rows} ELSE SUBSET (Rows \cup {WholeSample}) :
             /\ Cardinality(failed) + Cardinality(lost) <= MaxFailures \/ cancelled
             /\ failed' = failed \cup {<<"sample", s>> : s \in lost}
             /\ LET s == Sampled(lost)
                IN  localization' = Localization(IF s = None \/ WholeSample \in lost THEN {} ELSE Candidates(s))
  /\ UNCHANGED <<given, who, schema, seen, stage2, probes, cancelled, result>>

-----------------------------------------------------------------------------
\* buildCollection: readVersions in /access is evidence of its own.
Row(s) ==
  LET probe    == IF s \in DOMAIN probes THEN probes[s] ELSE Unprobed
      versions == Taken(IF s \in Entities THEN C(s).versions ELSE None, probe.versions)
  IN  [reach    |-> Reachability(s),
       off      |-> probe.off,
       upload   |-> Taken(IF s \in types THEN C(s).upload ELSE None, probe.upload),
       versions |-> IF versions = None /\ s \in view /\ C(s).versions THEN TRUE ELSE versions]

\* Run returns: what came back is the index.
Assembles ==
  /\ phase = "assemble" /\ index' = [s \in Rows |-> Row(s)] /\ phase' = "done"
  /\ UNCHANGED <<given, pool, who, schema, seen, stage2, stage3, failed, cancelled, error>>

-----------------------------------------------------------------------------
Step ==
  \/ AsksAnonymously \/ Widens \/ Inits \/ Filtered \/ Tries \/ Takes
  \/ AsksPaths \/ Accesses \/ Resolves \/ Identifies
  \/ AsksSchema \/ AsksTypes \/ StartsProbes \/ Probes
  \/ StartsProject \/ AsksProject \/ Localizes \/ Assembles

Next == Step \/ Cancels

Spec == Init /\ [][Next]_vars

\* The goroutines of the run are scheduled, and every request ends: it is answered, or
\* its own timeout fails it.
FairSpec == Spec /\ WF_vars(Step)

-----------------------------------------------------------------------------
(* Properties.                                                              *)

Published == phase = "done" /\ index # None
Lost(f, s) == <<f, s>> \in failed

\* "The answer does not depend on which goroutine finished first": the path in use is the
\* first of the list that is a Payload API, but for the ones that were not answered.
FirstPath ==
  Published => /\ path \in server.serves
               /\ \A p \in 1 .. path - 1 : p \in server.serves => Lost("access", p)

\* The index is of the identity whose key it is: never the anonymous view under a
\* credential, and of everything this identity may see or GraphQL shows.
OwnView ==
  Published =>
    /\ ~set.anonymous => viewer = server.home /\ identity = server.home /\ identity # None
    /\ ViewOf(viewer) \subseteq DOMAIN index
    /\ \A s \in DOMAIN index : s \in ViewOf(viewer) \/ C(s).graphql

\* A flag is published as the server has it or as unknown, unless the one probe that tells
\* it was not answered; and without such a loss only closed endpoints leave it unknown.
FlagsTrue ==
  Published => \A s \in DOMAIN index \cap view :
    LET r == index[s]
    IN  /\ r.off = TRUE => ~C(s).endpoints
        /\ r.upload # C(s).upload => (r.upload = None /\ ~C(s).endpoints) \/ Lost("upload", s)
        /\ r.versions # C(s).versions => (r.versions = None /\ ~C(s).endpoints) \/ Lost("versions", s)

\* GraphQL refusing never fails a run whose auth collection is known, and every error of a
\* run that lost no request has its cause in the server or the settings.
ErrorsTrue ==
  /\ error = "endpoint_not_payload" => \A p \in (IF set.pinned THEN {1} ELSE 1 .. Paths) \cap server.serves : Lost("access", p)
  /\ error = "auth_invalid" => set.auth \notin {None, server.home} \/ Lost("me", 0) \/ server.home = None
  /\ error = "auth_collection_unknown" =>
       \/ set.auth = None /\ failed # {}
       \/ server.home = None \/ 1 \notin server.serves
       \/ ~C(server.home).anon /\ ~(server.graphql /\ C(server.home).graphql)

\* At no time are more of a pool's requests under way than --concurrency allows (the three
\* project-wide ones are outside any pool), nor more GraphQL queries made than a round's budget.
Budget == (phase # "project" => Cardinality(busy) <= Width) /\ issued <= MaxBatches

\* Codes that --locale is checked against are the server's, never mangled names nor the keys
\* of some group; and localization is denied only where GraphQL says so.
LocalesTrue ==
  Published =>
    /\ localization.source = "locale_all" => localization.locales = server.locales
    /\ localization.enabled = FALSE => server.locales = {}
    /\ localization.enabled = TRUE => server.locales # {} \/ localization.source = "unverified"

\* A project-wide route that was not answered for stays unknown.
RoutesTrue ==
  Published => \A r \in Routes : IF Lost("route", r) THEN project[r] = None ELSE project[r] = (r \in server.routes)

IndexTrue == LocalesTrue /\ RoutesTrue /\ FirstPath /\ OwnView /\ FlagsTrue /\ ErrorsTrue /\ Budget

\* Every run ends: no worker waits for one that is not coming back.
RunEnds == <>(phase = "done")
=============================================================================
