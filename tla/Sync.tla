-------------------------------- MODULE Sync --------------------------------
(***************************************************************************)
(* pay sync (internal/cli/sync.go) and the plan engine it shares with pay  *)
(* plan and pay upsert (internal/cli/plan.go, internal/manifest): every    *)
(* item of a manifest names one document by its match value; the items are *)
(* read, ordered so that a document is created before those that refer to  *)
(* it, compared with what is stored and, where they differ, written.  The  *)
(* command is run again and again while other editors work, requests fail, *)
(* answers are lost and the process is interrupted or killed.              *)
(*                                                                         *)
(* A body is the ids it holds for the items it refers to; a document keeps *)
(* the body each item last gave it, which is None once somebody changed    *)
(* what the item declares.                                                 *)
(***************************************************************************)
EXTENDS Integers, FiniteSets, Sequences

CONSTANTS
  Manifests,   \* the manifests considered, sequences of items
  Hooks,       \* the sets of keys a slug hook of the server may rewrite
  MaxRuns,     \* how often the command is run
  MaxEdits,    \* bound on what other editors do
  MaxDocs,     \* bound on the documents ever created
  None

\* An item: the value it is matched on, its locale, its status and the items its
\* references name.
Item(key, locale, status, links) ==
  [key |-> key, locale |-> locale, status |-> status, links |-> links]

\* What stands for the id of a document the sync has yet to create.
Placeholder == 0

\* A match value as a hook of the server stores it: no item is matched on it.
Rewritten == 0

Bodies(m) == [DOMAIN m -> Nat \cup {None}]
Status    == {"none", "draft", "published"}
Modes     == {"publish", "draft", "save"}
Doc(m) ==
  [key : Nat, origin : Nat \cup {None}, stored : Status, newest : Status,
   bodies : [DOMAIN m -> Bodies(m) \cup {None}]]
Creates(m) == [item : DOMAIN m, mode : Modes, body : Bodies(m)]
Outcome == {"ok", "partial", "nothing", "unconfirmed", "interrupted", "planned", "declined", "problem", "killed"}
Result  == {"created", "updated", "unchanged", "failed", "not_attempted"}
PlanItem(m) ==
  [found : Nat \cup {None}, current : Doc(m) \cup {None}, err : BOOLEAN,
   action : {"none", "create", "update", "unchanged"}, mode : Modes \cup {None}, body : Bodies(m) \cup {None},
   result : Result \cup {None}, unsure : BOOLEAN]

ASSUME ManifestsAssumption ==
  \A m \in Manifests :
    /\ Len(m) \in Nat /\ DOMAIN m = 1 .. Len(m)
    /\ \A i \in DOMAIN m : /\ m[i].key \in Nat \ {Rewritten} /\ m[i].status \in {"keep", "draft", "published"}
                          /\ m[i].links \subseteq DOMAIN m

ASSUME BoundsAssumption == MaxRuns \in Nat /\ MaxEdits \in Nat /\ MaxDocs \in Nat

\* No value is none of the values.
ASSUME NoneAssumption ==
  /\ None \notin Nat \cup Modes \cup Outcome \cup Result
  /\ \A m \in Manifests : None \notin Bodies(m) \cup Doc(m) \cup Creates(m)

VARIABLES
  manifest, hooked, drafts,   \* the manifest, the keys rewritten on save, whether the collection has drafts
  docs,        \* the documents of the server, by id
  made,        \* how many ids were given out
  pc, at,      \* the command's place, and the item it has got to
  failFast, cancelled,
  it,          \* what the plan knows of each item (planItem)
  order,       \* the order of execution
  outcome,     \* what the last run's envelope says
  stray,       \* a create the command gave up, which the server may still execute
  runs, edits,
  calm,        \* nobody else changed anything since this run started
  settled,     \* the last run was ok, and nothing has happened since it started
  warned,      \* the keys match_value_normalized was said of
  unanswered,  \* the keys of creates whose answer did not arrive
  late,        \* the keys of creates executed after they were given up
  wrote        \* the items this run's requests wrote

vars == <<manifest, hooked, drafts, docs, made, pc, at, failFast, cancelled, it, order, outcome, stray,
          runs, edits, calm, settled, warned, unanswered, late, wrote>>
server == <<docs, made, stray, late>>
given  == <<manifest, hooked, drafts>>
plan   == <<it, order>>
told   == <<warned, unanswered>>

Items == DOMAIN manifest
Keys  == {manifest[i].key : i \in Items}
Ids   == DOMAIN docs

-----------------------------------------------------------------------------
(* The server: a lookup by a match value, a create, an update.              *)

Matches(key) == {d \in Ids : docs[d] # None /\ docs[d].key = key}

\* The statuses of the stored row and of the newest version after a write.
Statuses(mode, doc) ==
  CASE mode = "publish" -> [stored |-> "published", newest |-> "published"]
    [] mode = "draft"   -> [stored |-> IF doc = None THEN "draft" ELSE doc.stored, newest |-> "draft"]
    [] mode = "save"    -> IF doc = None THEN [stored |-> "none", newest |-> "none"]
                           ELSE [stored |-> doc.stored, newest |-> doc.newest]

\* The document after a write.  A hook may store another match value than was sent.
Written(doc, i, mode, body) ==
  LET key == manifest[i].key
      st  == Statuses(mode, doc)
  IN  [key    |-> IF doc = None /\ key \in hooked THEN Rewritten ELSE IF doc = None THEN key ELSE doc.key,
       origin |-> IF doc # None THEN doc.origin ELSE key,
       stored |-> st.stored, newest |-> st.newest,
       bodies |-> IF doc = None THEN [j \in Items |-> IF j = i THEN body ELSE None]
                  ELSE [doc.bodies EXCEPT ![i] = body]]

Fresh(key, status) ==
  [key |-> key, origin |-> None, stored |-> status, newest |-> status, bodies |-> [i \in Items |-> None]]

-----------------------------------------------------------------------------
(* The plan engine.                                                         *)

Unplanned == [found |-> None, current |-> None, err |-> FALSE, action |-> "none", mode |-> None, body |-> None,
              result |-> None, unsure |-> FALSE]

\* finish: keys are unique, and so are a document and a locale.
WellFormed == \A i, j \in Items : i # j => manifest[i].key # manifest[j].key \/ manifest[i].locale # manifest[j].locale

Exists(i) == it[i].current # None

\* link: the items that must be created before i.
Deps(i) == {j \in manifest[i].links : ~Exists(j)}

\* Order: Kahn's algorithm; of the items that are ready the one of lowest index is placed
\* next, until none is ready.
Placed(o, n)  == {o[m] : m \in 1 .. n}
Ready(placed) == {i \in Items \ placed : Deps(i) \subseteq placed}
Order(o) ==
  /\ \A n \in DOMAIN o : o[n] \in Ready(Placed(o, n - 1)) /\ \A i \in Ready(Placed(o, n - 1)) : o[n] <= i
  /\ Ready(Placed(o, Len(o))) = {}
Orders == {o \in UNION {[1 .. n -> Items] : n \in 0 .. Len(manifest)} : Order(o)}

\* decideMode: the default status keeps what the newest version has.
Mode(i) ==
  CASE ~drafts                             -> "save"
    [] drafts /\ manifest[i].status = "published" -> "publish"
    [] drafts /\ manifest[i].status = "draft"     -> "draft"
    [] drafts /\ manifest[i].status = "keep"      ->
         IF Exists(i) /\ it[i].current.newest = "published" THEN "save" ELSE "draft"

\* The body of an item, its references resolved.
Resolved(i) ==
  [j \in Items |-> IF j \notin manifest[i].links THEN None
                  ELSE IF it[j].found = None THEN Placeholder ELSE it[j].found]

\* decide and pendingDraft: nothing differs, and a draft need not be published.
InPlace(i) ==
  /\ Exists(i) /\ it[i].current.bodies[i] = Resolved(i)
  /\ Mode(i) = "publish" => it[i].current.newest = "published"

\* decideItem.
Decided(i) ==
  [it[i] EXCEPT !.action = IF ~Exists(i) THEN "create" ELSE IF InPlace(i) THEN "unchanged" ELSE "update",
                !.mode = Mode(i), !.body = Resolved(i)]

-----------------------------------------------------------------------------
Init ==
  /\ manifest \in Manifests /\ hooked \in Hooks /\ drafts \in BOOLEAN
  /\ \E keys \in UNION {[1 .. n -> Keys] : n \in 0 .. MaxDocs}, status \in {"published", "draft"} :
       /\ \A d, e \in DOMAIN keys : d < e => keys[d] < keys[e]
       /\ made = Len(keys)
       /\ docs = [d \in 1 .. MaxDocs |->
                    IF d <= made THEN Fresh(keys[d], IF drafts THEN status ELSE "none") ELSE None]
  /\ pc = "idle" /\ at = 0 /\ failFast = FALSE /\ cancelled = FALSE
  /\ it = [i \in Items |-> Unplanned] /\ order = <<>> /\ outcome = None /\ stray = None
  /\ runs = 0 /\ edits = 0 /\ calm = TRUE /\ settled = FALSE
  /\ warned = {} /\ unanswered = {} /\ late = {} /\ wrote = {}

-----------------------------------------------------------------------------
(* Others.                                                                  *)

\* Once the runs of the bound are over, what others do is of no interest.
Open == pc # "idle" \/ runs < MaxRuns

\* Another editor creates a document, deletes one, saves a draft or publishes.
Others ==
  /\ edits < MaxEdits /\ Open /\ edits' = edits + 1 /\ calm' = FALSE /\ settled' = FALSE
  /\ \/ /\ made < MaxDocs
        /\ \E k \in Keys : docs' = [docs EXCEPT ![made + 1] = Fresh(k, IF drafts THEN "draft" ELSE "none")]
        /\ made' = made + 1
     \/ /\ made' = made
        /\ \E d \in Ids : docs[d] # None /\
             \/ docs' = [docs EXCEPT ![d] = None]
             \/ \E mode \in IF drafts THEN {"publish", "draft"} ELSE {"save"} :
                  LET st == Statuses(mode, docs[d])
                  IN  docs' = [docs EXCEPT ![d].stored = st.stored, ![d].newest = st.newest,
                                           ![d].bodies = [i \in Items |-> None]]
  /\ UNCHANGED <<given, pc, at, failFast, cancelled, plan, outcome, stray, late, runs, told, wrote>>

\* A create that was given up is executed after all.
ExecutesStray ==
  /\ stray # None /\ made < MaxDocs /\ Open
  /\ docs' = [docs EXCEPT ![made + 1] = Written(None, stray.item, stray.mode, stray.body)]
  /\ made' = made + 1 /\ stray' = None /\ late' = late \cup {manifest[stray.item].key}
  /\ settled' = FALSE
  /\ UNCHANGED <<given, pc, at, failFast, cancelled, plan, outcome, runs, edits, calm, told, wrote>>

\* Ctrl-C, or the command's deadline.
Cancels ==
  /\ pc \notin {"idle"} /\ ~cancelled /\ cancelled' = TRUE
  /\ UNCHANGED <<given, server, pc, at, failFast, plan, outcome, runs, edits, calm, settled, told, wrote>>

Over(o) == pc' = "idle" /\ at' = 0 /\ outcome' = o /\ settled' = (o = "ok" /\ calm) /\ cancelled' = FALSE /\ failFast' = FALSE

\* The command ends before it wrote anything; with the process goes what it knew.
Ends(o) == Over(o) /\ it' = [i \in Items |-> Unplanned] /\ order' = <<>>

Crashes ==
  /\ pc # "idle" /\ Ends("killed")
  /\ UNCHANGED <<given, server, runs, edits, calm, told, wrote>>

-----------------------------------------------------------------------------
(* buildPlan.                                                               *)

\* Load and target: a manifest that describes a document twice is refused, and an item
\* whose status needs drafts cannot be planned where there are none.
Start ==
  /\ pc = "idle" /\ runs < MaxRuns /\ runs' = runs + 1
  /\ calm' = TRUE /\ wrote' = {}
  /\ \/ ~WellFormed /\ Ends("problem")
     \/ /\ WellFormed /\ pc' = "read" /\ at' = 1 /\ outcome' = None
        /\ it' = [i \in Items |-> [Unplanned EXCEPT !.err = ~drafts /\ manifest[i].status # "keep"]]
        /\ UNCHANGED <<order, settled, cancelled, failFast>>
  /\ UNCHANGED <<given, server, edits, told>>

\* An item could not be planned: what the others read no longer matters.
Broken == \E i \in Items : it[i].err

\* read: one bounded lookup per item; none, one or several documents match.
Reads ==
  /\ pc = "read" /\ at \in Items /\ at' = at + 1
  /\ \/ Broken /\ UNCHANGED it
     \/ ~Broken /\ it' = [it EXCEPT ![at].err = TRUE]
     \/ /\ ~Broken /\ ~cancelled
        /\ LET found == Matches(manifest[at].key)
           IN  it' = IF found = {} THEN it
                     ELSE IF Cardinality(found) > 1 THEN [it EXCEPT ![at].err = TRUE]
                     ELSE LET d == CHOOSE d \in found : TRUE
                          IN  [it EXCEPT ![at].found = d, ![at].current = docs[d]]
  /\ UNCHANGED <<given, server, pc, failFast, cancelled, order, outcome, runs, edits, calm, settled, told, wrote>>

\* link, sort and plan: a cycle of documents that do not exist, or an item that could
\* not be planned, and nothing is written.
Plans ==
  /\ pc = "read" /\ at > Len(manifest)
  /\ \E o \in Orders :
       LET broken == Placed(o, Len(o)) # Items \/ Broken
       IN  \/ broken /\ Ends("problem")
           \/ /\ ~broken /\ pc' = "planned" /\ it' = [i \in Items |-> Decided(i)] /\ order' = o
              /\ UNCHANGED <<at, outcome, settled, cancelled, failFast>>
  /\ UNCHANGED <<given, server, runs, edits, calm, told, wrote>>

-----------------------------------------------------------------------------
(* runSync.                                                                 *)

\* A dry run ends; a sync that has something to write asks.
Confirms ==
  /\ pc = "planned"
  /\ \/ Ends("planned")
     \/ (\E i \in Items : it[i].action # "unchanged") /\ Ends("declined")
     \/ pc' = "execute" /\ at' = 1 /\ failFast' \in BOOLEAN /\ UNCHANGED <<outcome, settled, cancelled, plan>>
  /\ UNCHANGED <<given, server, runs, edits, calm, told, wrote>>

Current == order[at]

\* Mutant: only what failed itself blocks an item.
BlockedByFailed(i) == \E j \in Deps(i) : it[j].result = "failed"

\* blockedBy: an item it refers to was to be created and was not.
BlockedBy(i) == \E j \in Deps(i) : it[j].result \in {"failed", "not_attempted"} \/ it[j].found = None

Stopped == failFast /\ \E i \in Items : it[i].result = "failed"

\* execute: the item is in place, or is passed over.
Passes ==
  /\ pc = "execute" /\ at <= Len(order) /\ at' = at + 1
  /\ LET i == Current
     IN  it' = [it EXCEPT ![i].result = IF it[i].action = "unchanged" THEN "unchanged" ELSE "not_attempted"]
  /\ it[Current].action = "unchanged" \/ Stopped \/ cancelled \/ BlockedBy(Current)
  /\ UNCHANGED <<given, server, pc, failFast, cancelled, order, outcome, runs, edits, calm, settled, told, wrote>>

\* What is written of an item: its references are resolved again once the documents it
\* waited for have their ids.
Final(i) == IF Deps(i) = {} THEN it[i] ELSE Decided(i)

Attempts ==
  /\ pc = "execute" /\ at <= Len(order) /\ at' = at + 1
  /\ it[Current].action # "unchanged" /\ ~Stopped /\ ~BlockedBy(Current)

\* The document an update finds now: it may be gone, and the publication guard
\* refuses to take a published one offline.
CanWrite(w) ==
  w.action = "update" =>
    /\ docs[w.found] # None
    /\ ~(w.mode = "save" /\ docs[w.found].stored = "published" /\ docs[w.found].newest = "draft")

\* The server executes the write of item i.
Executes(i, w) ==
  LET d == IF w.action = "create" THEN made + 1 ELSE w.found
  IN  /\ CanWrite(w) /\ d <= MaxDocs
      /\ docs' = [docs EXCEPT ![d] = Written(docs[d], i, w.mode, w.body)]
      /\ made' = IF w.action = "create" THEN made + 1 ELSE made
      /\ wrote' = wrote \cup {i}

\* The write is made and answered.
Writes ==
  LET i == Current
      w == Final(i)
      d == IF w.action = "create" THEN made + 1 ELSE w.found
  IN  /\ Attempts /\ ~cancelled /\ Executes(i, w)
      /\ it' = [it EXCEPT ![i] = [w EXCEPT !.found = d, !.result = IF w.action = "create" THEN "created" ELSE "updated"]]
      /\ warned' = IF docs'[d].key # manifest[i].key THEN warned \cup {manifest[i].key} ELSE warned
      /\ UNCHANGED <<given, pc, failFast, cancelled, order, outcome, stray, late, runs, edits, calm, settled, unanswered>>

\* The write fails before it is sent, or the server rejects it.
Fails ==
  /\ Attempts /\ ~cancelled
  /\ it' = [it EXCEPT ![Current] = [Final(Current) EXCEPT !.result = "failed"]]
  /\ UNCHANGED <<given, server, pc, failFast, cancelled, order, outcome, runs, edits, calm, settled, told, wrote>>

\* No answer within the deadline, or an answer 500: the write was executed, was not, or
\* will be.
Loses ==
  LET i == Current
      w == Final(i)
  IN  /\ Attempts
      /\ it' = [it EXCEPT ![i] = [w EXCEPT !.result = "failed", !.unsure = TRUE]]
      /\ unanswered' = IF w.action = "create" THEN unanswered \cup {manifest[i].key} ELSE unanswered
      /\ \/ ~cancelled /\ Executes(i, w) /\ UNCHANGED stray
         \/ UNCHANGED <<docs, made, stray, wrote>>
         \/ /\ ~cancelled /\ w.action = "create" /\ stray = None
            /\ stray' = [item |-> i, mode |-> w.mode, body |-> w.body]
            /\ UNCHANGED <<docs, made, wrote>>
      /\ UNCHANGED <<given, pc, failFast, cancelled, order, outcome, late, runs, edits, calm, settled, warned>>

Results(r) == {i \in Items : it[i].result = r}

Complete == Results("failed") \cup Results("not_attempted") = {}
Some     == Results("created") \cup Results("updated") # {}

\* Mutant: a failed write wrote nothing.
VerdictByResults ==
  IF Complete THEN "ok" ELSE IF Some THEN "partial"
  ELSE IF Results("failed") # {} THEN "nothing" ELSE "interrupted"

\* syncEnvelope: what the run says it wrote.
Verdict ==
  IF Complete THEN "ok" ELSE IF Some THEN "partial"
  ELSE IF Results("failed") = {} THEN "interrupted"
  ELSE IF \E i \in Results("failed") : it[i].unsure THEN "unconfirmed" ELSE "nothing"

Reports ==
  /\ pc = "execute" /\ at > Len(order) /\ Over(Verdict)
  /\ UNCHANGED <<given, server, plan, runs, edits, calm, told, wrote>>

-----------------------------------------------------------------------------
Step == Start \/ Reads \/ Plans \/ Confirms \/ Passes \/ Writes \/ Fails \/ Loses \/ Reports

Next == Step \/ Others \/ ExecutesStray \/ Cancels \/ Crashes

Spec == Init /\ [][Next]_vars

-----------------------------------------------------------------------------
(* Properties.                                                              *)

TypeOK ==
  /\ manifest \in Manifests /\ hooked \in Hooks /\ drafts \in BOOLEAN
  /\ docs \in [1 .. MaxDocs -> Doc(manifest) \cup {None}] /\ made \in 0 .. MaxDocs
  /\ pc \in {"idle", "read", "planned", "execute"} /\ at \in Nat
  /\ failFast \in BOOLEAN /\ cancelled \in BOOLEAN
  /\ it \in [Items -> PlanItem(manifest)]
  /\ order \in Seq(Items) /\ outcome \in Outcome \cup {None}
  /\ stray \in Creates(manifest) \cup {None}
  /\ runs \in Nat /\ edits \in Nat /\ calm \in BOOLEAN /\ settled \in BOOLEAN
  /\ warned \subseteq Keys /\ unanswered \subseteq Keys /\ late \subseteq Keys /\ wrote \subseteq Items

Twins == {k \in Keys : \E i, j \in Items : i # j /\ manifest[i].key = k /\ manifest[j].key = k}

\* A document is created before the items that point at it: what a body holds for a
\* reference is the id of a document made for the item it names, never the placeholder
\* a plan shows; and a plan whose references form a cycle writes nothing.
RefsFirst ==
  \A d \in Ids : docs[d] # None => \A i \in Items : docs[d].bodies[i] # None =>
    \A j \in manifest[i].links :
      LET r == docs[d].bodies[i][j]
      IN  r # Placeholder /\ (docs[r] # None => manifest[j].key \in {docs[r].key, docs[r].origin})

\* "Re-running a sync is safe": run after run creates no second document for a match
\* value, unless the manifest holds it in two locales, the server executed a create it had not
\* answered in time, or a hook stores another value, which the command has said.
NoDuplicates ==
  pc = "idle" => \A k \in Keys \ (Twins \cup late) :
    \/ Cardinality({d \in Ids : docs[d] # None /\ docs[d].origin = k}) <= 1
    \/ k \in hooked \cap (warned \cup unanswered)

\* Items that describe one document, in several locales, and disagree on its status.
Disputed == {i \in Items : \E j \in Items : manifest[j].key = manifest[i].key /\ manifest[j].status # manifest[i].status}

\* "An item already in place is unchanged and is not written again": after a run that was
\* ok, the next one finds nothing to do, unless a hook stored another match value or the
\* items of one document want it published and not.
SecondRunQuiet ==
  pc = "planned" /\ settled /\ (\A d \in Ids : docs[d] # None => docs[d].key # Rewritten) =>
    \A i \in Items \ Disputed : it[i].action = "unchanged"

\* What the envelope says happened: written items are stored as they were declared,
\* everything is in place after ok, and no item but the written ones, and those a lost
\* answer leaves open, was touched; after "sync wrote nothing" none was.
ReportTrue ==
  pc = "idle" =>
    /\ \A i \in Results("created") \cup Results("updated") : i \in wrote
    /\ \A i \in Items : i \in wrote /\ outcome # "killed" => it[i].result \in {"created", "updated"} \/ it[i].unsure
    /\ outcome \in {"nothing", "interrupted", "planned", "declined", "problem"} => wrote = {}
    /\ outcome = "ok" /\ calm => \A i \in Items : docs[it[i].found].bodies[i] = Resolved(i)

\* The default status and "draft" never publish, and nothing a sync writes takes a
\* published document offline.
StatusAsDeclared ==
  \A d \in Ids : docs[d] # None /\ docs'[d] # None /\ docs'[d].stored # docs[d].stored =>
    \/ edits' # edits
    \/ docs'[d].stored = "published" /\ manifest[Current].status = "published"

\* The order of one run, and what the next one finds done.
RunsInOrder == TypeOK /\ RefsFirst /\ NoDuplicates /\ SecondRunQuiet

\* A sync writes what the manifest declares, and says what it wrote.
WritesAsTold == [][ReportTrue' /\ StatusAsDeclared]_vars
=============================================================================
