--------------------------- MODULE DocumentsProofs ---------------------------
(***************************************************************************)
(* Theorems about Sync, for any manifests and hooks, any number of runs,   *)
(* of edits by others and of documents; and about EditPipeline, for any    *)
(* documents, selectors, destinations and changes, pipes and arrays of any *)
(* length, and any number of edits by the other editor.                    *)
(***************************************************************************)
EXTENDS DocumentWrites, FiniteSetTheorems, SequenceTheorems, TLAPS

-----------------------------------------------------------------------------
(* The inductive invariant.                                                 *)

\* r is, or was, the id of a document made for the item j.
Naming(r, j) ==
  r \in Ids /\ r <= made /\ (docs[r] # None => manifest[j].key \in {docs[r].key, docs[r].origin})
Names(b, i) == \A j \in manifest[i].links : Naming(b[j], j)

\* Every reference at the server names what it should.
Served ==
  /\ \A d \in Ids : d > made => docs[d] = None
  /\ \A d \in Ids : docs[d] # None => \A i \in Items : docs[d].bodies[i] # None => Names(docs[d].bodies[i], i)
  /\ stray # None => Names(stray.body, stray.item)

\* What the command knows of an item.
FoundOf(i) ==
  /\ it[i].found # None => Naming(it[i].found, i)
  /\ Exists(i) => it[i].found # None /\ (it[i].current.bodies[i] # None => Names(it[i].current.bodies[i], i))
  /\ ~Exists(i) /\ it[i].result = None => it[i].found = None
  /\ it[i].unsure => it[i].result = "failed"
  /\ pc \in {"read", "planned"} => it[i].result = None
Found == \A i \in Items : FoundOf(i)

\* What the plan decided of an item.
Decision(i) ==
  /\ it[i].action \in {"create", "update", "unchanged"} /\ (it[i].action = "create" <=> ~Exists(i))
  /\ it[i].mode \in Modes /\ (it[i].mode = "publish" <=> drafts /\ manifest[i].status = "published")
  /\ it[i].body \in Bodies(manifest)
  /\ \A j \in Items : IF j \in manifest[i].links THEN Exists(j) => it[i].body[j] = it[j].found
                      ELSE it[i].body[j] = None
  /\ Exists(i) /\ it[i].current.bodies[i] # None =>
       \A j \in Deps(i) : it[j].found # it[i].current.bodies[i][j]

\* The order is complete and without repetition.
Planned ==
  pc \in {"planned", "execute"} =>
    /\ \A n, m \in DOMAIN order : order[n] = order[m] => n = m
    /\ \A i \in Items : \E n \in DOMAIN order : order[n] = i
    /\ \A i \in Items : Decision(i)

\* The items with a result are those the run has got to.
Attempted ==
  pc = "execute" =>
    /\ at > 0
    /\ \A n \in DOMAIN order : n < at <=> it[order[n]].result # None
    /\ \A i \in Items : it[i].result = "unchanged" => it[i].action = "unchanged"

\* The documents a key has.
Excused(k) == k \in Twins \cup late \cup hooked
Lookup(i) ==
  \/ pc = "read" /\ i < at /\ ~Broken
  \/ pc \in {"planned", "execute"} /\ it[i].result = None
Unique ==
  /\ \A d \in Ids : docs[d] # None /\ docs[d].origin # None =>
       IF docs[d].origin \in hooked THEN docs[d].origin \in warned \cup unanswered \cup late
       ELSE docs[d].key = docs[d].origin
  /\ \A d, e \in Ids : docs[d] # None /\ docs[e] # None /\ docs[d].origin = docs[e].origin /\ docs[d].origin # None =>
       d = e \/ Excused(docs[d].origin)
  /\ \A i \in Items : Lookup(i) /\ ~Exists(i) /\ ~Excused(manifest[i].key) =>
       \A d \in Ids : docs[d] # None => docs[d].origin # manifest[i].key

-----------------------------------------------------------------------------
\* d is the document of item i.
Stands(d, i) ==
  /\ d \in Ids /\ docs[d] # None
  /\ docs[d].key = manifest[i].key \/ (docs[d].key = Rewritten /\ docs[d].origin = manifest[i].key)

Public(i) == drafts /\ manifest[i].status = "published" /\ i \notin Disputed

\* Item i is in place.
Done(i) ==
  /\ it[i].found # None /\ \A j \in manifest[i].links : it[j].found # None
  /\ docs[it[i].found].bodies[i] = Resolved(i)
  /\ Public(i) => docs[it[i].found].newest = "published"

\* While nobody else acts, the plan knows the documents as they are.
Calm ==
  calm =>
    /\ pc # "idle" \/ outcome = "ok" => \A i \in Items : it[i].found # None => Stands(it[i].found, i)
    /\ pc \in {"read", "planned"} => \A i \in Items : Exists(i) => it[i].current = docs[it[i].found]
    /\ pc \in {"planned", "execute"} =>
         \A i \in Items : it[i].action = "unchanged" \/ it[i].result \in {"created", "updated"} => Done(i)
    /\ pc = "idle" /\ outcome = "ok" => \A i \in Items : Done(i)

\* What the next run finds after one that left everything in place.
InPlaceAs(fn, i) ==
  /\ fn[i] \in Ids /\ docs[fn[i]] # None /\ docs[fn[i]].key = manifest[i].key
  /\ docs[fn[i]].bodies[i] = [j \in Items |-> IF j \in manifest[i].links THEN fn[j] ELSE None]
  /\ Public(i) => docs[fn[i]].newest = "published"
  /\ pc = "read" /\ ~Broken /\ i < at => it[i].found = fn[i] /\ it[i].current = docs[fn[i]]
  /\ pc = "planned" => i \in Disputed \/ it[i].action = "unchanged"
Settled ==
  settled /\ pc # "execute" /\ (\A d \in Ids : docs[d] # None => docs[d].key # Rewritten) =>
    \E fn \in [Items -> Ids] : \A i \in Items : InPlaceAs(fn, i)

\* What the run wrote.
Wrote ==
  /\ \A i \in Items : it[i].result \in {"created", "updated"} => i \in wrote
  /\ pc \in {"read", "planned"} => wrote = {}
  /\ pc = "execute" \/ (pc = "idle" /\ outcome # "killed") =>
       \A i \in wrote : it[i].result \in {"created", "updated"} \/ it[i].unsure
  /\ pc = "idle" /\ outcome \in {"nothing", "interrupted", "planned", "declined", "problem"} => wrote = {}

IInv == TypeOK /\ Served /\ Found /\ Planned /\ Attempted /\ Unique /\ Calm /\ Settled /\ Wrote

-----------------------------------------------------------------------------
(* What the types say.                                                      *)

LEMMA Given ==
  ASSUME TypeOK
  PROVE  /\ manifest \in Manifests
         /\ Len(manifest) \in Nat /\ Items = 1 .. Len(manifest)
         /\ \A i \in Items : /\ manifest[i].key \in Nat /\ manifest[i].key # 0 /\ manifest[i].key \in Keys
                             /\ manifest[i].status \in {"keep", "draft", "published"}
                             /\ manifest[i].links \subseteq Items
         /\ \A k \in Keys : k \in Nat /\ k # 0
  BY ManifestsAssumption DEF TypeOK, Items, Keys, Rewritten

LEMMA NoneIsNone ==
  /\ None \notin Nat /\ None \notin Modes /\ None \notin Outcome /\ None \notin Result
  /\ TypeOK => None \notin Bodies(manifest) /\ None \notin Doc(manifest) /\ None \notin Creates(manifest)
  BY NoneAssumption DEF TypeOK

LEMMA DocIs ==
  ASSUME NEW x \in Doc(manifest)
  PROVE  /\ x.key \in Nat /\ x.origin \in Nat \cup {None} /\ x.stored \in Status /\ x.newest \in Status
         /\ x.bodies \in [Items -> Bodies(manifest) \cup {None}]
  BY DEF Doc, Items

LEMMA DocsAre ==
  ASSUME TypeOK, NEW d \in Ids, docs[d] # None
  PROVE  docs[d] \in Doc(manifest)
  BY DEF TypeOK, Ids

LEMMA ItemIs ==
  ASSUME TypeOK, NEW i \in Items
  PROVE  /\ it[i] \in PlanItem(manifest)
         /\ it[i].found \in Nat \cup {None} /\ it[i].current \in Doc(manifest) \cup {None} /\ it[i].err \in BOOLEAN
         /\ it[i].body \in Bodies(manifest) \cup {None} /\ it[i].mode \in Modes \cup {None}
         /\ it[i].action \in {"none", "create", "update", "unchanged"}
         /\ it[i].result \in Result \cup {None} /\ it[i].unsure \in BOOLEAN
<1>1. it[i] \in PlanItem(manifest)
  BY DEF TypeOK
<1> QED BY <1>1 DEF PlanItem

LEMMA ResolvedIs ==
  ASSUME TypeOK, NEW i \in Items
  PROVE  /\ Resolved(i) \in Bodies(manifest)
         /\ \A j \in Items : Resolved(i)[j] = IF j \notin manifest[i].links THEN None
                                              ELSE IF it[j].found = None THEN 0 ELSE it[j].found
<1>1. \A j \in Items : it[j].found \in Nat \cup {None}
  BY ItemIs
<1> QED BY <1>1 DEF Resolved, Bodies, Items, Placeholder

LEMMA ModeIs ==
  ASSUME TypeOK, NEW i \in Items
  PROVE  Mode(i) \in Modes /\ (Mode(i) = "publish" <=> drafts /\ manifest[i].status = "published")
<1>1. manifest[i].status \in {"keep", "draft", "published"}
  BY Given
<1>2. CASE ~drafts
  BY <1>2 DEF Mode, Modes
<1>3. CASE drafts /\ manifest[i].status = "published"
  BY <1>3 DEF Mode, Modes
<1>4. CASE drafts /\ manifest[i].status = "draft"
  BY <1>4 DEF Mode, Modes
<1>5. CASE drafts /\ manifest[i].status = "keep"
  BY <1>5 DEF Mode, Modes
<1> QED BY <1>1, <1>2, <1>3, <1>4, <1>5

LEMMA DecidedIs ==
  ASSUME TypeOK, NEW i \in Items
  PROVE  /\ Decided(i) \in PlanItem(manifest)
         /\ Decided(i).found = it[i].found /\ Decided(i).current = it[i].current /\ Decided(i).err = it[i].err
         /\ Decided(i).result = it[i].result /\ Decided(i).unsure = it[i].unsure
         /\ Decided(i).action = IF ~Exists(i) THEN "create" ELSE IF InPlace(i) THEN "unchanged" ELSE "update"
         /\ Decided(i).mode = Mode(i) /\ Decided(i).body = Resolved(i)
<1>1. it[i] \in PlanItem(manifest)
  BY ItemIs
<1>2. Mode(i) \in Modes /\ Resolved(i) \in Bodies(manifest)
  BY ModeIs, ResolvedIs
<1> QED BY <1>1, <1>2 DEF Decided, PlanItem

LEMMA StatusesAre ==
  ASSUME TypeOK, NEW mode \in Modes, NEW x \in Doc(manifest) \cup {None}
  PROVE  LET st == Statuses(mode, x)
         IN  /\ st.stored \in Status /\ st.newest \in Status
             /\ mode = "publish" => st.newest = "published" /\ st.stored = "published"
             /\ x # None /\ mode # "publish" => st.stored = x.stored
             /\ x # None /\ mode = "save" => st.newest = x.newest
<1>1. x # None => x.stored \in Status /\ x.newest \in Status
  BY DocIs
<1>2. CASE mode = "publish"
  BY <1>2 DEF Statuses, Status
<1>3. CASE mode = "draft"
  BY <1>1, <1>3 DEF Statuses, Status
<1>4. CASE mode = "save"
  BY <1>1, <1>4 DEF Statuses, Status
<1> QED BY <1>2, <1>3, <1>4 DEF Modes

\* What a create makes of a body of item i.
LEMMA Created ==
  ASSUME TypeOK, NEW i \in Items, NEW mode \in Modes, NEW b \in Bodies(manifest)
  PROVE  LET x == Written(None, i, mode, b)
         IN  /\ x \in Doc(manifest) /\ x.origin = manifest[i].key
             /\ x.key = IF manifest[i].key \in hooked THEN Rewritten ELSE manifest[i].key
             /\ x.bodies = [j \in Items |-> IF j = i THEN b ELSE None]
             /\ mode = "publish" => x.newest = "published"
<1> DEFINE st == Statuses(mode, None)
<1>1. st.stored \in Status /\ st.newest \in Status /\ (mode = "publish" => st.newest = "published")
  BY StatusesAre
<1>2. manifest[i].key \in Nat
  BY Given
<1> HIDE DEF st
<1>3. Written(None, i, mode, b) =
        [key |-> IF manifest[i].key \in hooked THEN Rewritten ELSE manifest[i].key,
         origin |-> manifest[i].key, stored |-> st.stored, newest |-> st.newest,
         bodies |-> [j \in Items |-> IF j = i THEN b ELSE None]]
  BY DEF Written, st
<1> DEFINE key == IF manifest[i].key \in hooked THEN Rewritten ELSE manifest[i].key
           bodies == [j \in Items |-> IF j = i THEN b ELSE None]
<1>4. key \in Nat /\ bodies \in [Items -> Bodies(manifest) \cup {None}]
  BY <1>2 DEF Rewritten
<1> HIDE DEF key, bodies
<1>5. Written(None, i, mode, b) =
        [key |-> key, origin |-> manifest[i].key, stored |-> st.stored, newest |-> st.newest, bodies |-> bodies]
  BY <1>3 DEF key, bodies
<1>6. [key |-> key, origin |-> manifest[i].key, stored |-> st.stored, newest |-> st.newest, bodies |-> bodies]
        \in Doc(manifest)
  BY <1>1, <1>2, <1>4 DEF Doc, Items
<1> DEFINE x == Written(None, i, mode, b)
<1>7. x \in Doc(manifest)
  BY <1>5, <1>6
<1>8. x = [key |-> key, origin |-> manifest[i].key, stored |-> st.stored, newest |-> st.newest, bodies |-> bodies]
  BY <1>5
<1> HIDE DEF x
<1>9. x.key = key /\ x.origin = manifest[i].key /\ x.newest = st.newest /\ x.bodies = bodies
  BY <1>8
<1> QED BY <1>1, <1>7, <1>9 DEF key, bodies, x

\* What an update makes of a document.
LEMMA Updated ==
  ASSUME TypeOK, NEW i \in Items, NEW mode \in Modes, NEW b \in Bodies(manifest), NEW o \in Doc(manifest)
  PROVE  LET x == Written(o, i, mode, b)
         IN  /\ x \in Doc(manifest) /\ x.origin = o.origin /\ x.key = o.key
             /\ x.bodies = [o.bodies EXCEPT ![i] = b]
             /\ mode = "publish" => x.newest = "published" /\ x.stored = "published"
             /\ mode # "publish" => x.stored = o.stored
<1> DEFINE st == Statuses(mode, o)
<1>0. o # None
  BY NoneIsNone
<1>1. /\ st.stored \in Status /\ st.newest \in Status
      /\ mode = "publish" => st.newest = "published" /\ st.stored = "published"
      /\ mode # "publish" => st.stored = o.stored
  BY <1>0, StatusesAre
<1> HIDE DEF st
<1>2. Written(o, i, mode, b) =
        [key |-> o.key, origin |-> o.origin, stored |-> st.stored, newest |-> st.newest,
         bodies |-> [o.bodies EXCEPT ![i] = b]]
  BY <1>0 DEF Written, st
<1> DEFINE bodies == [o.bodies EXCEPT ![i] = b]
<1>3. bodies \in [Items -> Bodies(manifest) \cup {None}]
  BY DocIs
<1> HIDE DEF bodies
<1>4. Written(o, i, mode, b) =
        [key |-> o.key, origin |-> o.origin, stored |-> st.stored, newest |-> st.newest, bodies |-> bodies]
  BY <1>2 DEF bodies
<1>5. [key |-> o.key, origin |-> o.origin, stored |-> st.stored, newest |-> st.newest, bodies |-> bodies]
        \in Doc(manifest)
  BY <1>1, <1>3, DocIs DEF Doc, Items
<1> DEFINE x == Written(o, i, mode, b)
<1>6. x \in Doc(manifest)
  BY <1>4, <1>5
<1>7. x = [key |-> o.key, origin |-> o.origin, stored |-> st.stored, newest |-> st.newest, bodies |-> bodies]
  BY <1>4
<1> HIDE DEF x
<1>8. x.key = o.key /\ x.origin = o.origin /\ x.stored = st.stored /\ x.newest = st.newest /\ x.bodies = bodies
  BY <1>7
<1> QED BY <1>1, <1>6, <1>8 DEF bodies, x

LEMMA FreshIs ==
  ASSUME TypeOK, NEW k \in Keys, NEW status \in Status
  PROVE  /\ Fresh(k, status) \in Doc(manifest) /\ Fresh(k, status).origin = None
         /\ \A i \in Items : Fresh(k, status).bodies[i] = None
  BY Given DEF Fresh, Doc, Items

-----------------------------------------------------------------------------
(* The steps.                                                               *)

\* Nothing changes at the server.
Idle == docs' = docs /\ made' = made /\ stray' = stray /\ late' = late

\* A document is made, or changed.
Adds(x) == made < MaxDocs /\ made' = made + 1 /\ docs' = [docs EXCEPT ![made + 1] = x] /\ x \in Doc(manifest)
Alters(d, x) ==
  /\ d \in Ids /\ docs[d] # None /\ made' = made /\ docs' = [docs EXCEPT ![d] = x]
  /\ x \in Doc(manifest) /\ x.key = docs[d].key /\ x.origin = docs[d].origin

CreatedAs(x, i, mode, b) ==
  /\ x.origin = manifest[i].key
  /\ x.key = IF manifest[i].key \in hooked THEN Rewritten ELSE manifest[i].key
  /\ x.bodies = [j \in Items |-> IF j = i THEN b ELSE None]
  /\ mode = "publish" => x.newest = "published"
UpdatedAs(x, o, i, mode, b) ==
  /\ x.bodies = [o.bodies EXCEPT ![i] = b]
  /\ mode = "publish" => x.newest = "published" /\ x.stored = "published"
  /\ mode # "publish" => x.stored = o.stored

\* What is about to be written, and of what.
LEMMA FinalIs ==
  ASSUME IInv, Attempts
  PROVE  LET i == Current
             w == Final(i)
         IN  /\ i \in Items /\ pc = "execute" /\ at \in DOMAIN order /\ it[i].result = None
             /\ w \in PlanItem(manifest) /\ w.action \in {"create", "update"} /\ (w.action = "create" <=> ~Exists(i))
             /\ w.found = it[i].found /\ w.current = it[i].current /\ w.err = it[i].err
             /\ w.result = None /\ w.unsure = FALSE
             /\ w.mode \in Modes /\ (w.mode = "publish" <=> drafts /\ manifest[i].status = "published")
             /\ w.body = Resolved(i) /\ w.body \in Bodies(manifest)
             /\ \A j \in manifest[i].links : it[j].found # None
<1> DEFINE i == Current
           w == Final(i)
<1>0. TypeOK /\ Found /\ Planned /\ Attempted
  BY DEF IInv
<1>1. pc = "execute" /\ at \in Nat /\ at > 0 /\ at <= Len(order) /\ order \in Seq(Items)
  BY <1>0 DEF Attempts, Attempted, TypeOK
<1>2. at \in DOMAIN order /\ i \in Items
  BY <1>1 DEF Current
<1>3. it[i].result = None /\ Decision(i)
  BY <1>0, <1>1, <1>2 DEF Attempted, Planned, Current
<1>4. it[i].unsure = FALSE
  <2>1. it[i].unsure \in BOOLEAN /\ (it[i].unsure => it[i].result = "failed")
    BY <1>0, <1>2, ItemIs DEF Found, FoundOf
  <2>2. None # "failed"
    BY NoneIsNone DEF Result
  <2> QED BY <1>3, <2>1, <2>2
<1>5. it[i].action # "unchanged" /\ \A j \in Deps(i) : it[j].found # None
  BY <1>2 DEF Attempts, BlockedBy
<1>6. \A j \in manifest[i].links : j \in Items /\ it[j].found # None
  <2>1. \A j \in manifest[i].links : j \in Items
    BY <1>0, <1>2, Given
  <2> QED BY <1>0, <1>5, <2>1 DEF Deps, Found, FoundOf
<1>7. \A j \in Items : it[j].found \in Nat \cup {None}
  BY <1>0, ItemIs
<1> HIDE DEF i
<1>8. CASE Deps(i) = {}
  <2>1. w = it[i]
    BY <1>8 DEF Final
  <2>2. \A j \in manifest[i].links : Exists(j)
    BY <1>8 DEF Deps
  <2>3. \A j \in Items : it[i].body[j] = Resolved(i)[j]
    BY <1>0, <1>2, <1>3, <1>6, <2>2, ResolvedIs DEF Decision
  <2>4. it[i].body = Resolved(i)
    BY <1>0, <1>2, <1>3, <2>3, ResolvedIs DEF Decision, Bodies, Items
  <2> QED BY <1>0, <1>1, <1>2, <1>3, <1>4, <1>5, <1>6, <2>1, <2>4, ItemIs DEF Decision, i
<1>9. CASE Deps(i) # {}
  <2>1. w = Decided(i)
    BY <1>9 DEF Final
  <2>2. ~InPlace(i)
    <3>1. SUFFICES ASSUME InPlace(i) PROVE FALSE
      OBVIOUS
    <3>2. PICK j \in Deps(i) : TRUE
      BY <1>9
    <3>3. j \in manifest[i].links /\ j \in Items /\ it[j].found # None
      BY <1>5, <1>6, <3>2 DEF Deps, i
    <3>4. Resolved(i)[j] = it[j].found
      BY <1>0, <1>2, <3>3, ResolvedIs
    <3>5. Exists(i) /\ it[i].current.bodies[i] = Resolved(i)
      BY <3>1 DEF InPlace
    <3>6. it[i].current.bodies[i] # None
      BY <1>0, <1>2, <3>5, ResolvedIs, NoneIsNone
    <3> QED BY <1>3, <3>2, <3>4, <3>5, <3>6 DEF Decision
  <2> QED BY <1>0, <1>1, <1>2, <1>3, <1>4, <1>6, <2>1, <2>2, DecidedIs, ModeIs, ResolvedIs DEF i
<1> QED BY <1>8, <1>9

\* What the server makes of it.
LEMMA Executed ==
  ASSUME IInv, Attempts, Executes(Current, Final(Current))
  PROVE  LET w == Final(Current)
         IN  /\ wrote' = wrote \cup {Current}
             /\ \/ w.action = "create" /\ \E x : Adds(x) /\ CreatedAs(x, Current, w.mode, w.body)
                \/ w.action = "update" /\ \E x : Alters(w.found, x) /\ UpdatedAs(x, docs[w.found], Current, w.mode, w.body)
<1> DEFINE i == Current
           w == Final(i)
<1>0. TypeOK /\ Served /\ IInv
  BY DEF IInv
<1>1. /\ i \in Items /\ w \in PlanItem(manifest) /\ w.action \in {"create", "update"}
      /\ w.mode \in Modes /\ w.body \in Bodies(manifest)
  BY <1>0, FinalIs
<1>2. wrote' = wrote \cup {i} /\ CanWrite(w)
  BY DEF Executes
<1>3. docs \in [1 .. MaxDocs -> Doc(manifest) \cup {None}] /\ made \in 0 .. MaxDocs /\ MaxDocs \in Nat
  BY <1>0, BoundsAssumption DEF TypeOK
<1> HIDE DEF i, w
<1>4. Executes(i, w)
  BY DEF i, w
<1>5. CASE w.action = "create"
  <2>1. /\ made + 1 <= MaxDocs /\ made' = made + 1
        /\ docs' = [docs EXCEPT ![made + 1] = Written(docs[made + 1], i, w.mode, w.body)]
    BY <1>4, <1>5 DEF Executes
  <2>2. docs[made + 1] = None
    BY <1>0, <1>3, <2>1 DEF Served, Ids
  <2> DEFINE x == Written(None, i, w.mode, w.body)
  <2>3. x \in Doc(manifest) /\ CreatedAs(x, i, w.mode, w.body)
    BY <1>0, <1>1, Created DEF CreatedAs
  <2>4. docs' = [docs EXCEPT ![made + 1] = x]
    BY <2>1, <2>2
  <2> HIDE DEF x
  <2>5. Adds(x)
    <3>1. made < MaxDocs /\ made' = made + 1
      BY <1>3, <2>1
    <3> QED BY <3>1, <2>3, <2>4 DEF Adds
  <2> QED BY <1>2, <1>5, <2>3, <2>5 DEF i, w
<1>6. CASE w.action = "update"
  <2>1. /\ w.found <= MaxDocs /\ made' = made /\ docs[w.found] # None
        /\ docs' = [docs EXCEPT ![w.found] = Written(docs[w.found], i, w.mode, w.body)]
    BY <1>2, <1>4, <1>6 DEF Executes, CanWrite
  <2>2. w.found \in Ids
    <3>1. w.found = it[i].found /\ Exists(i)
      BY <1>0, <1>1, <1>6, FinalIs DEF i, w
    <3> QED BY <1>0, <1>1, <3>1 DEF IInv, Found, FoundOf, Naming
  <2> DEFINE o == docs[w.found]
             x == Written(o, i, w.mode, w.body)
  <2>3. o \in Doc(manifest)
    BY <1>0, <2>1, <2>2, DocsAre
  <2> HIDE DEF o
  <2>4. x \in Doc(manifest) /\ x.key = o.key /\ x.origin = o.origin /\ UpdatedAs(x, o, i, w.mode, w.body)
    <3>1. i \in Items /\ w.mode \in Modes /\ w.body \in Bodies(manifest)
      BY <1>1
    <3>2. /\ x \in Doc(manifest) /\ x.origin = o.origin /\ x.key = o.key
          /\ x.bodies = [o.bodies EXCEPT ![i] = w.body]
          /\ w.mode = "publish" => x.newest = "published" /\ x.stored = "published"
          /\ w.mode # "publish" => x.stored = o.stored
      BY ONLY <1>0, <3>1, <2>3, Updated
    <3> QED BY <3>2 DEF UpdatedAs
  <2>5. Alters(w.found, x)
    BY <2>1, <2>2, <2>4 DEF Alters, o
  <2> QED BY <1>2, <1>6, <2>4, <2>5 DEF i, w, o
<1> QED BY <1>1, <1>5, <1>6

\* What another editor does.
LEMMA Othered ==
  ASSUME TypeOK, Others
  PROVE  \/ \E x : Adds(x) /\ x.origin = None /\ \A i \in Items : x.bodies[i] = None
         \/ \E d \in Ids : docs[d] # None /\ made' = made /\ docs' = [docs EXCEPT ![d] = None]
         \/ \E d, x : Alters(d, x) /\ \A i \in Items : x.bodies[i] = None
<1>1. docs \in [1 .. MaxDocs -> Doc(manifest) \cup {None}] /\ made \in 0 .. MaxDocs /\ MaxDocs \in Nat
  BY BoundsAssumption DEF TypeOK
<1>2. CASE /\ made < MaxDocs /\ made' = made + 1
           /\ \E k \in Keys : docs' = [docs EXCEPT ![made + 1] = Fresh(k, IF drafts THEN "draft" ELSE "none")]
  <2> DEFINE status == IF drafts THEN "draft" ELSE "none"
  <2>1. PICK k \in Keys : docs' = [docs EXCEPT ![made + 1] = Fresh(k, status)]
    BY <1>2
  <2>2. status \in Status
    BY DEF Status
  <2> HIDE DEF status
  <2>3. /\ Fresh(k, status) \in Doc(manifest) /\ Fresh(k, status).origin = None
        /\ \A i \in Items : Fresh(k, status).bodies[i] = None
    BY <2>2, FreshIs
  <2>4. Adds(Fresh(k, status))
    BY <1>2, <2>1, <2>3 DEF Adds
  <2> QED BY <2>3, <2>4
<1>3. CASE made' = made /\ \E d \in Ids : docs[d] # None /\ docs' = [docs EXCEPT ![d] = None]
  BY <1>3
<1>4. CASE /\ made' = made
           /\ \E d \in Ids : docs[d] # None /\
                \E mode \in IF drafts THEN {"publish", "draft"} ELSE {"save"} :
                  LET st == Statuses(mode, docs[d])
                  IN  docs' = [docs EXCEPT ![d].stored = st.stored, ![d].newest = st.newest,
                                           ![d].bodies = [i \in Items |-> None]]
  <2>1. PICK d \in Ids, mode \in Modes :
          docs[d] # None /\ docs' = [docs EXCEPT ![d].stored = Statuses(mode, docs[d]).stored,
                                                 ![d].newest = Statuses(mode, docs[d]).newest,
                                                 ![d].bodies = [i \in Items |-> None]]
    BY <1>4 DEF Modes
  <2> DEFINE o == docs[d]
             stored == Statuses(mode, o).stored
             newest == Statuses(mode, o).newest
             nothing == [i \in Items |-> None]
             x == [o EXCEPT !.stored = stored, !.newest = newest, !.bodies = nothing]
  <2>2. o \in Doc(manifest)
    BY <2>1, DocsAre
  <2>3. stored \in Status /\ newest \in Status
    BY <2>2, StatusesAre
  <2>4. nothing \in [Items -> Bodies(manifest) \cup {None}] /\ \A i \in Items : nothing[i] = None
    OBVIOUS
  <2>5. docs' = [docs EXCEPT ![d] = x]
    BY <1>1, <2>1
  <2> HIDE DEF o, stored, newest, nothing
  <2>6. x \in Doc(manifest) /\ x.key = o.key /\ x.origin = o.origin /\ x.bodies = nothing
    BY <2>2, <2>3, <2>4 DEF Doc, Items
  <2> HIDE DEF x
  <2>7. Alters(d, x)
    BY <1>4, <2>1, <2>5, <2>6 DEF Alters, o
  <2> QED BY <2>4, <2>6, <2>7
<1> QED BY <1>2, <1>3, <1>4 DEF Others

LEMMA Strayed ==
  ASSUME TypeOK, Served, ExecutesStray
  PROVE  /\ stray.item \in Items /\ stray.body \in Bodies(manifest) /\ Names(stray.body, stray.item)
         /\ \E x : Adds(x) /\ CreatedAs(x, stray.item, stray.mode, stray.body)
<1>1. docs \in [1 .. MaxDocs -> Doc(manifest) \cup {None}] /\ made \in 0 .. MaxDocs /\ MaxDocs \in Nat
  BY BoundsAssumption DEF TypeOK
<1>2. stray \in Creates(manifest)
  BY DEF ExecutesStray, TypeOK
<1>3. stray.item \in Items /\ stray.body \in Bodies(manifest) /\ stray.mode \in Modes
  BY <1>2 DEF Creates, Items
<1> DEFINE x == Written(None, stray.item, stray.mode, stray.body)
<1>4. x \in Doc(manifest) /\ CreatedAs(x, stray.item, stray.mode, stray.body)
  BY <1>3, Created DEF CreatedAs
<1>5. made < MaxDocs /\ made' = made + 1 /\ docs' = [docs EXCEPT ![made + 1] = x]
  BY DEF ExecutesStray
<1> HIDE DEF x
<1>6. Adds(x)
  BY <1>4, <1>5 DEF Adds
<1> QED BY <1>3, <1>4, <1>6 DEF ExecutesStray, Served

LEMMA Constant ==
  [Next]_vars => manifest' = manifest /\ hooked' = hooked /\ drafts' = drafts
  BY Zenon DEF Next, Step, Start, Reads, Plans, Confirms, Passes, Writes, Fails, Loses, Reports, Others,
               ExecutesStray, Cancels, Crashes, vars, given

LEMMA Same ==
  ASSUME manifest' = manifest
  PROVE  Items' = Items /\ Keys' = Keys /\ Twins' = Twins /\ Disputed' = Disputed /\ Modes' = Modes
  BY DEF Items, Keys, Twins, Disputed

\* What a step may make of the documents.
Evolves ==
  /\ docs' \in [1 .. MaxDocs -> Doc(manifest) \cup {None}] /\ made' \in 0 .. MaxDocs /\ made <= made'
  /\ \A d \in Ids : d <= made /\ docs'[d] # None => /\ docs[d] # None
                                                   /\ docs'[d].key = docs[d].key /\ docs'[d].origin = docs[d].origin
  /\ \A d \in Ids : d > made' => docs'[d] = None

\* Ids are given out once; only a write, another editor or a stray create changes a document.
LEMMA Evolution ==
  ASSUME IInv, [Next]_vars
  PROVE  /\ Evolves
         /\ \/ docs' = docs /\ made' = made
            \/ Attempts /\ Executes(Current, Final(Current)) /\ (Writes \/ Loses)
            \/ Others
            \/ ExecutesStray
<1>0. TypeOK /\ Served
  BY DEF IInv
<1>1. /\ docs \in [1 .. MaxDocs -> Doc(manifest) \cup {None}] /\ made \in 0 .. MaxDocs /\ MaxDocs \in Nat
      /\ \A d \in Ids : d > made => docs[d] = None
  BY <1>0, BoundsAssumption DEF TypeOK, Served
<1>2. \/ docs' = docs /\ made' = made
      \/ Attempts /\ Executes(Current, Final(Current)) /\ (Writes \/ Loses)
      \/ Others
      \/ ExecutesStray
  <2>1. CASE Step
    <3>1. CASE Writes
      BY <3>1 DEF Writes
    <3>2. CASE Loses
      BY <3>2 DEF Loses
    <3>3. CASE ~Writes /\ ~Loses
      BY <2>1, <3>3 DEF Step, Start, Reads, Plans, Confirms, Passes, Fails, Reports, server
    <3> QED BY <3>1, <3>2, <3>3
  <2>2. CASE Cancels \/ Crashes \/ UNCHANGED vars
    BY <2>2 DEF Cancels, Crashes, vars, server
  <2> QED BY <2>1, <2>2 DEF Next
<1>3. ASSUME NEW x, Adds(x) PROVE Evolves
  <2>1. docs'[made + 1] = x /\ (\A d \in Ids : d # made + 1 => docs'[d] = docs[d]) /\ made' = made + 1
    BY <1>1, <1>3 DEF Adds, Ids
  <2>2. docs' \in [1 .. MaxDocs -> Doc(manifest) \cup {None}] /\ made' \in 0 .. MaxDocs
    BY <1>1, <1>3 DEF Adds
  <2> QED BY <1>1, <2>1, <2>2 DEF Evolves, Ids
<1>4. ASSUME NEW d, NEW x, Alters(d, x) PROVE Evolves
  <2>1. docs'[d] = x /\ (\A e \in Ids : e # d => docs'[e] = docs[e]) /\ made' = made
    BY <1>1, <1>4 DEF Alters, Ids
  <2>2. docs' \in [1 .. MaxDocs -> Doc(manifest) \cup {None}]
    BY <1>1, <1>4 DEF Alters
  <2>3. x.key = docs[d].key /\ x.origin = docs[d].origin /\ docs[d] # None /\ d \in Ids
    BY <1>4 DEF Alters
  <2> QED BY <1>1, <2>1, <2>2, <2>3 DEF Evolves, Ids
<1>5. ASSUME NEW d \in Ids, made' = made, docs' = [docs EXCEPT ![d] = None] PROVE Evolves
  <2>1. docs'[d] = None /\ (\A e \in Ids : e # d => docs'[e] = docs[e])
    BY <1>1, <1>5 DEF Ids
  <2>2. docs' \in [1 .. MaxDocs -> Doc(manifest) \cup {None}]
    BY <1>1, <1>5
  <2> QED BY <1>1, <1>5, <2>1, <2>2 DEF Evolves, Ids
<1>6. CASE docs' = docs /\ made' = made
  BY <1>1, <1>2, <1>6 DEF Evolves
<1>7. CASE Attempts /\ Executes(Current, Final(Current))
  BY <1>2, <1>3, <1>4, <1>7, Executed
<1>8. CASE Others
  BY <1>0, <1>2, <1>3, <1>4, <1>5, <1>8, Othered
<1>9. CASE ExecutesStray
  BY <1>0, <1>2, <1>3, <1>9, Strayed
<1> QED BY <1>2, <1>6, <1>7, <1>8, <1>9

\* What an id was made for does not change, whatever becomes of its document.
LEMMA NamingKeeps ==
  ASSUME IInv, [Next]_vars, NEW r, NEW j \in Items, Naming(r, j)
  PROVE  Naming(r, j)'
<1>1. Evolves /\ manifest' = manifest /\ TypeOK
  BY Evolution, Constant DEF IInv
<1>2. docs \in [1 .. MaxDocs -> Doc(manifest) \cup {None}] /\ made \in Nat /\ MaxDocs \in Nat
  BY <1>1, BoundsAssumption DEF TypeOK
<1> QED BY <1>1, <1>2 DEF Naming, Evolves, Ids

LEMMA NamesKeeps ==
  ASSUME IInv, [Next]_vars, NEW b, NEW i \in Items, Names(b, i)
  PROVE  Names(b, i)'
<1>1. manifest' = manifest /\ manifest[i].links \subseteq Items
  BY Constant, Given DEF IInv
<1>2. \A j \in manifest[i].links : Naming(b[j], j)'
  BY <1>1, NamingKeeps DEF Names
<1> QED BY <1>1, <1>2 DEF Names

-----------------------------------------------------------------------------
(* Types.                                                                   *)

\* What the plan knows, with one item changed.
LEMMA ItemSet ==
  ASSUME TypeOK, NEW i \in Items, NEW w \in PlanItem(manifest)
  PROVE  [it EXCEPT ![i] = w] \in [Items -> PlanItem(manifest)]
  BY DEF TypeOK

LEMMA UnplannedIs ==
  [Unplanned EXCEPT !.err = TRUE] \in PlanItem(manifest) /\ [Unplanned EXCEPT !.err = FALSE] \in PlanItem(manifest)
  /\ Unplanned \in PlanItem(manifest)
  BY DEF Unplanned, PlanItem

\* The result an attempt or its omission gives an item.
LEMMA ResultSet ==
  ASSUME NEW w \in PlanItem(manifest), NEW r \in Result
  PROVE  /\ [w EXCEPT !.result = r] \in PlanItem(manifest)
         /\ [w EXCEPT !.result = r, !.unsure = TRUE] \in PlanItem(manifest)
         /\ \A d \in Nat : [w EXCEPT !.found = d, !.result = r] \in PlanItem(manifest)
  BY DEF PlanItem

LEMMA PlanTyped ==
  ASSUME IInv, [Next]_vars
  PROVE  it' \in [Items -> PlanItem(manifest)]
<1>0. TypeOK /\ it \in [Items -> PlanItem(manifest)]
  BY DEF IInv, TypeOK
<1>1. ASSUME NEW o, Ends(o) PROVE it' \in [Items -> PlanItem(manifest)]
  BY <1>1, UnplannedIs DEF Ends
<1>2. CASE Start
  <2>1. CASE ~WellFormed /\ Ends("problem")
    BY <1>1, <2>1
  <2>2. CASE it' = [i \in Items |-> [Unplanned EXCEPT !.err = ~drafts /\ manifest[i].status # "keep"]]
    <3>1. \A b \in BOOLEAN : [Unplanned EXCEPT !.err = b] \in PlanItem(manifest)
      BY UnplannedIs
    <3>2. \A i \in Items : (~drafts /\ manifest[i].status # "keep") \in BOOLEAN
      OBVIOUS
    <3> QED BY <2>2, <3>1, <3>2
  <2> QED BY <1>2, <2>1, <2>2 DEF Start
<1>3. CASE Reads
  <2>1. at \in Items
    BY <1>3 DEF Reads
  <2>2. \A w \in PlanItem(manifest) : [w EXCEPT !.err = TRUE] \in PlanItem(manifest)
    BY DEF PlanItem
  <2>3. [it EXCEPT ![at].err = TRUE] \in [Items -> PlanItem(manifest)]
    BY <1>0, <2>1, <2>2
  <2>4. \A d \in Matches(manifest[at].key) :
          [it EXCEPT ![at].found = d, ![at].current = docs[d]] \in [Items -> PlanItem(manifest)]
    <3>1. \A w \in PlanItem(manifest), d \in Nat, x \in Doc(manifest) :
            [w EXCEPT !.found = d, !.current = x] \in PlanItem(manifest)
      BY DEF PlanItem
    <3>2. \A d \in Matches(manifest[at].key) : d \in Nat /\ docs[d] \in Doc(manifest)
      BY <1>0, DocsAre, BoundsAssumption DEF Matches, TypeOK, Ids
    <3>3. \A d \in Matches(manifest[at].key) :
            [it EXCEPT ![at].found = d, ![at].current = docs[d]]
              = [it EXCEPT ![at] = [it[at] EXCEPT !.found = d, !.current = docs[d]]]
      BY <1>0, <2>1
    <3> QED BY <1>0, <2>1, <3>1, <3>2, <3>3, ItemSet
  <2>5. \/ it' = it \/ it' = [it EXCEPT ![at].err = TRUE]
        \/ \E d \in Matches(manifest[at].key) : it' = [it EXCEPT ![at].found = d, ![at].current = docs[d]]
    <3> DEFINE found == Matches(manifest[at].key)
    <3>1. CASE it' = IF found = {} THEN it
                     ELSE IF Cardinality(found) > 1 THEN [it EXCEPT ![at].err = TRUE]
                     ELSE LET d == CHOOSE d \in found : TRUE
                          IN  [it EXCEPT ![at].found = d, ![at].current = docs[d]]
      <4>1. found # {} => (CHOOSE d \in found : TRUE) \in found
        OBVIOUS
      <4> HIDE DEF found
      <4>2. CASE found = {} \/ Cardinality(found) > 1
        BY <3>1, <4>2
      <4>3. CASE found # {} /\ ~(Cardinality(found) > 1)
        BY <3>1, <4>1, <4>3 DEF found
      <4> QED BY <4>2, <4>3
    <3> QED BY <1>3, <3>1 DEF Reads
  <2> QED BY <1>0, <2>3, <2>4, <2>5
<1>4. CASE Plans
  <2>1. CASE Ends("problem")
    BY <1>1, <2>1
  <2>2. CASE it' = [i \in Items |-> Decided(i)]
    BY <1>0, <2>2, DecidedIs
  <2> QED BY <1>4, <2>1, <2>2 DEF Plans
<1>5. CASE Confirms
  BY <1>0, <1>1, <1>5 DEF Confirms, plan
<1>6. CASE Passes
  <2>1. Current \in Items
    BY <1>0, <1>6 DEF Passes, Current, TypeOK, IInv, Attempted
  <2>2. \A r \in Result : [it[Current] EXCEPT !.result = r] \in PlanItem(manifest)
    BY <1>0, <2>1, ResultSet
  <2>3. it' = [it EXCEPT ![Current] = [it[Current] EXCEPT
                 !.result = IF it[Current].action = "unchanged" THEN "unchanged" ELSE "not_attempted"]]
    BY <1>0, <1>6, <2>1 DEF Passes
  <2> QED BY <1>0, <2>1, <2>2, <2>3, ItemSet DEF Result
<1>7. ASSUME Attempts PROVE Current \in Items /\ Final(Current) \in PlanItem(manifest)
  BY <1>7, FinalIs
<1>8. CASE Writes
  <2> DEFINE w == Final(Current)
             d == IF w.action = "create" THEN made + 1 ELSE w.found
             r == IF w.action = "create" THEN "created" ELSE "updated"
  <2>1. Attempts /\ it' = [it EXCEPT ![Current] = [w EXCEPT !.found = d, !.result = r]]
    BY <1>8 DEF Writes
  <2>2. d \in Nat
    <3>1. CASE w.action = "create"
      BY <1>0, <3>1, BoundsAssumption DEF TypeOK
    <3>2. CASE w.action # "create"
      <4>1. Exists(Current) /\ w.found = it[Current].found /\ Current \in Items
        BY <2>1, <3>2, FinalIs
      <4>2. w.found \in Ids
        BY <4>1 DEF IInv, Found, FoundOf, Naming
      <4> QED BY <1>0, <3>2, <4>2 DEF Ids, TypeOK
    <3> QED BY <3>1, <3>2
  <2>3. r \in Result
    BY DEF Result
  <2> QED BY <1>0, <1>7, <2>1, <2>2, <2>3, ResultSet, ItemSet
<1>9. CASE Fails
  <2>1. Attempts /\ it' = [it EXCEPT ![Current] = [Final(Current) EXCEPT !.result = "failed"]]
    BY <1>9 DEF Fails
  <2> QED BY <1>0, <1>7, <2>1, ResultSet, ItemSet DEF Result
<1>10. CASE Loses
  <2>1. Attempts /\ it' = [it EXCEPT ![Current] = [Final(Current) EXCEPT !.result = "failed", !.unsure = TRUE]]
    BY <1>10 DEF Loses
  <2> QED BY <1>0, <1>7, <2>1, ResultSet, ItemSet DEF Result
<1>11. CASE Crashes
  BY <1>1, <1>11 DEF Crashes
<1>12. CASE Reports \/ Others \/ ExecutesStray \/ Cancels \/ UNCHANGED vars
  BY <1>0, <1>12 DEF Reports, Others, ExecutesStray, Cancels, vars, plan
<1> QED BY <1>2, <1>3, <1>4, <1>5, <1>6, <1>8, <1>9, <1>10, <1>11, <1>12 DEF Next, Step

\* The rest of the types.
Flags ==
  /\ pc \in {"idle", "read", "planned", "execute"} /\ at \in Nat
  /\ failFast \in BOOLEAN /\ cancelled \in BOOLEAN
  /\ outcome \in Outcome \cup {None}
  /\ runs \in Nat /\ edits \in Nat /\ calm \in BOOLEAN /\ settled \in BOOLEAN
Sets ==
  /\ order \in Seq(Items) /\ stray \in Creates(manifest) \cup {None}
  /\ warned \subseteq Keys /\ unanswered \subseteq Keys /\ late \subseteq Keys /\ wrote \subseteq Items

LEMMA VerdictIs == Verdict \in Outcome
  BY DEF Verdict, Outcome

\* The types of the simple variables, and of the sets.
LEMMA FlagsTyped ==
  ASSUME TypeOK, [Next]_vars
  PROVE  Flags'
<1>0. Flags
  BY DEF TypeOK, Flags
<1>1. ASSUME NEW o \in Outcome, Over(o), UNCHANGED <<runs, edits>>, calm' \in BOOLEAN PROVE Flags'
  BY <1>0, <1>1 DEF Over, Flags
<1>2. CASE Start
  <2>1. runs' \in Nat /\ edits' = edits /\ calm' = TRUE
    BY <1>0, <1>2 DEF Start, Flags
  <2>2. CASE Ends("problem")
    BY <1>0, <2>1, <2>2 DEF Ends, Over, Flags, Outcome
  <2>3. CASE pc' = "read" /\ at' = 1 /\ outcome' = None /\ UNCHANGED <<order, settled, cancelled, failFast>>
    BY <1>0, <2>1, <2>3 DEF Flags
  <2> QED BY <1>2, <2>2, <2>3 DEF Start
<1>3. CASE Reads \/ Passes \/ Writes \/ Fails \/ Loses \/ Cancels \/ Others \/ ExecutesStray \/ UNCHANGED vars
  <2>1. CASE Reads \/ Passes
    BY <1>0, <2>1 DEF Reads, Passes, Flags
  <2>2. CASE Writes \/ Fails
    BY <1>0, <2>2 DEF Writes, Fails, Attempts, Flags
  <2>3. CASE Loses
    BY <1>0, <2>3 DEF Loses, Attempts, Flags
  <2>4. CASE Cancels \/ UNCHANGED vars
    BY <1>0, <2>4 DEF Cancels, vars, Flags
  <2>5. CASE Others \/ ExecutesStray
    <3>1. /\ edits' = edits + 1 \/ edits' = edits
          /\ calm' = FALSE \/ calm' = calm
          /\ settled' = FALSE
          /\ UNCHANGED <<pc, at, failFast, cancelled, outcome, runs>>
      BY <2>5, Zenon DEF Others, ExecutesStray
    <3>2. calm' \in BOOLEAN /\ settled' \in BOOLEAN
      BY <1>0, <3>1, Zenon DEF Flags
    <3>3. edits' \in Nat
      BY <1>0, <3>1 DEF Flags
    <3> QED BY <1>0, <3>1, <3>2, <3>3, Zenon DEF Flags
  <2> QED BY <1>3, <2>1, <2>2, <2>3, <2>4, <2>5
<1>4. CASE Plans
  BY <1>0, <1>1, <1>4 DEF Plans, Ends, Flags, Outcome
<1>5. CASE Confirms
  <2>1. CASE pc' = "execute"
    BY <1>0, <1>5, <2>1 DEF Confirms, Ends, Over, Flags
  <2>2. CASE Ends("planned") \/ Ends("declined")
    BY <1>0, <1>1, <1>5, <2>2 DEF Confirms, Ends, Flags, Outcome
  <2> QED BY <1>5, <2>1, <2>2 DEF Confirms
<1>6. CASE Reports
  BY <1>0, <1>1, <1>6, VerdictIs DEF Reports, Flags
<1>7. CASE Crashes
  BY <1>0, <1>1, <1>7 DEF Crashes, Ends, Flags, Outcome
<1> QED BY <1>2, <1>3, <1>4, <1>5, <1>6, <1>7 DEF Next, Step

LEMMA SetsTyped ==
  ASSUME IInv, [Next]_vars
  PROVE  Sets'
<1>0. Sets /\ TypeOK /\ manifest' = manifest
  BY Constant DEF IInv, TypeOK, Sets
<1>1. Items' = Items /\ Keys' = Keys /\ Creates(manifest)' = Creates(manifest)
  BY <1>0, Same
<1>2. <<>> \in Seq(Items)
  OBVIOUS
<1>3. CASE Start \/ Confirms \/ Crashes \/ Reads \/ Passes \/ Reports \/ Cancels \/ Fails \/ Others \/ UNCHANGED vars
  BY <1>0, <1>1, <1>2, <1>3
     DEF Start, Confirms, Crashes, Reads, Passes, Reports, Cancels, Fails, Others, Ends, server, told, plan, vars, Sets
<1>4. CASE Plans
  <2>1. \A o \in Orders : o \in Seq(Items)
    BY <1>0, Given DEF Orders
  <2> QED BY <1>0, <1>1, <1>2, <1>4, <2>1 DEF Plans, Ends, server, told, Sets
<1>5. CASE ExecutesStray
  <2>1. manifest[stray.item].key \in Keys
    BY <1>0, <1>5, Strayed, Given DEF IInv
  <2> QED BY <1>0, <1>1, <1>5, <2>1 DEF ExecutesStray, told, plan, Sets
<1>6. ASSUME Attempts PROVE Current \in Items /\ manifest[Current].key \in Keys
  BY <1>0, <1>6, FinalIs, Given
<1>7. CASE Writes
  BY <1>0, <1>1, <1>6, <1>7 DEF Writes, Executes, Sets
<1>8. CASE Loses
  <2>1. [item |-> Current, mode |-> Final(Current).mode, body |-> Final(Current).body] \in Creates(manifest)
    BY <1>8, FinalIs DEF Loses, Creates, Items
  <2> QED BY <1>0, <1>1, <1>6, <1>8, <2>1 DEF Loses, Executes, Sets
<1> QED BY <1>3, <1>4, <1>5, <1>7, <1>8 DEF Next, Step

LEMMA TypeNext == IInv /\ [Next]_vars => TypeOK'
<1> SUFFICES ASSUME IInv, [Next]_vars PROVE TypeOK'
  OBVIOUS
<1>1. manifest' = manifest /\ hooked' = hooked /\ drafts' = drafts /\ Items' = Items /\ Evolves /\ TypeOK
  BY Constant, Same, Evolution DEF IInv
<1>2. Flags' /\ Sets' /\ it' \in [Items -> PlanItem(manifest)]
  BY <1>1, FlagsTyped, SetsTyped, PlanTyped
<1> QED BY <1>1, <1>2 DEF TypeOK, Flags, Sets, Evolves

-----------------------------------------------------------------------------
(* What a step makes of the items.                                          *)

\* An item that was attempted.
LEMMA Tried ==
  ASSUME IInv, Writes \/ Fails \/ Loses
  PROVE  LET i == Current
             w == Final(i)
         IN  /\ Attempts /\ i \in Items
             /\ \A j \in Items : j # i => it'[j] = it[j]
             /\ it'[i].current = it[i].current /\ it'[i].err = it[i].err
             /\ it'[i].action = w.action /\ it'[i].mode = w.mode /\ it'[i].body = w.body
             /\ Writes => /\ it'[i].found = IF w.action = "create" THEN made + 1 ELSE it[i].found
                          /\ it'[i].result = IF w.action = "create" THEN "created" ELSE "updated"
                          /\ it'[i].unsure = FALSE
             /\ ~Writes => it'[i].found = it[i].found /\ it'[i].result = "failed"
<1> DEFINE i == Current
           w == Final(i)
<1>1. Attempts
  BY DEF Writes, Fails, Loses
<1>2. /\ i \in Items /\ w \in PlanItem(manifest) /\ w.found = it[i].found /\ w.current = it[i].current
      /\ w.err = it[i].err /\ w.unsure = FALSE
  BY <1>1, FinalIs
<1>3. it \in [Items -> PlanItem(manifest)]
  BY DEF IInv, TypeOK
<1> HIDE DEF i, w
<1>4. CASE Writes
  <2> DEFINE d == IF w.action = "create" THEN made + 1 ELSE w.found
             r == IF w.action = "create" THEN "created" ELSE "updated"
  <2>1. it' = [it EXCEPT ![i] = [w EXCEPT !.found = d, !.result = r]]
    BY <1>4 DEF Writes, i, w
  <2> DEFINE x == [w EXCEPT !.found = d, !.result = r]
  <2> HIDE DEF d, r
  <2>2. /\ x.found = d /\ x.result = r /\ x.current = w.current /\ x.err = w.err /\ x.action = w.action
        /\ x.mode = w.mode /\ x.body = w.body /\ x.unsure = w.unsure
    BY <1>2 DEF PlanItem
  <2> HIDE DEF x
  <2>3. it'[i] = x /\ \A j \in Items : j # i => it'[j] = it[j]
    BY <1>2, <1>3, <2>1 DEF x
  <2> QED BY <1>1, <1>2, <1>4, <2>2, <2>3 DEF d, r, i, w
<1>5. CASE ~Writes
  <2> DEFINE x == [w EXCEPT !.result = "failed"]
             y == [w EXCEPT !.result = "failed", !.unsure = TRUE]
  <2>1. it' = [it EXCEPT ![i] = x] \/ it' = [it EXCEPT ![i] = y]
    BY <1>5 DEF Fails, Loses, i, w
  <2>2. /\ x.found = w.found /\ x.result = "failed" /\ x.current = w.current /\ x.err = w.err
        /\ x.action = w.action /\ x.mode = w.mode /\ x.body = w.body
    BY <1>2 DEF PlanItem
  <2>3. /\ y.found = w.found /\ y.result = "failed" /\ y.current = w.current /\ y.err = w.err
        /\ y.action = w.action /\ y.mode = w.mode /\ y.body = w.body
    BY <1>2 DEF PlanItem
  <2> HIDE DEF x, y
  <2>4. (it'[i] = x \/ it'[i] = y) /\ \A j \in Items : j # i => it'[j] = it[j]
    BY <1>2, <1>3, <2>1
  <2> QED BY <1>1, <1>2, <1>5, <2>2, <2>3, <2>4 DEF i, w
<1> QED BY <1>4, <1>5

\* An item that is passed over.
LEMMA Passed ==
  ASSUME IInv, Passes
  PROVE  LET i == Current
         IN  /\ i \in Items /\ pc = "execute" /\ at \in DOMAIN order /\ it[i].result = None
             /\ \A j \in Items : j # i => it'[j] = it[j]
             /\ it'[i].current = it[i].current /\ it'[i].err = it[i].err /\ it'[i].found = it[i].found
             /\ it'[i].action = it[i].action /\ it'[i].mode = it[i].mode /\ it'[i].body = it[i].body
             /\ it'[i].unsure = it[i].unsure
             /\ it'[i].result = IF it[i].action = "unchanged" THEN "unchanged" ELSE "not_attempted"
<1> DEFINE i == Current
           r == IF it[i].action = "unchanged" THEN "unchanged" ELSE "not_attempted"
<1>1. it \in [Items -> PlanItem(manifest)] /\ pc = "execute" /\ at \in Nat /\ at > 0 /\ at <= Len(order) /\ order \in Seq(Items)
  BY DEF Passes, IInv, TypeOK, Attempted
<1>2. i \in Items /\ at \in DOMAIN order
  BY <1>1 DEF Current
<1>3. it[i].result = None
  BY <1>1, <1>2 DEF IInv, Attempted, Current
<1>4. it[i] \in PlanItem(manifest) /\ it' = [it EXCEPT ![i].result = r]
  BY <1>1, <1>2 DEF Passes
<1> HIDE DEF i, r
<1> DEFINE x == [it[i] EXCEPT !.result = r]
<1>5. /\ x.found = it[i].found /\ x.result = r /\ x.current = it[i].current /\ x.err = it[i].err
      /\ x.action = it[i].action /\ x.mode = it[i].mode /\ x.body = it[i].body /\ x.unsure = it[i].unsure
  BY <1>4 DEF PlanItem
<1>6. it'[i] = x /\ \A j \in Items : j # i => it'[j] = it[j]
  BY <1>1, <1>2, <1>4
<1> HIDE DEF x
<1> QED BY <1>1, <1>2, <1>3, <1>5, <1>6 DEF i, r

\* What a lookup finds.
LEMMA Looked ==
  ASSUME IInv, Reads
  PROVE  /\ at \in Items /\ pc = "read"
         /\ \A j \in Items : j # at => it'[j] = it[j]
         /\ \A j \in Items : it'[j].result = it[j].result /\ it'[j].unsure = it[j].unsure
         /\ \A j \in Items : it[j].err => it'[j].err
         /\ \/ it'[at].err /\ it'[at].found = it[at].found /\ it'[at].current = it[at].current
            \/ Broken /\ it' = it
            \/ it' = it /\ Matches(manifest[at].key) = {}
            \/ /\ Matches(manifest[at].key) = {it'[at].found} /\ it'[at].err = it[at].err
               /\ it'[at].found \in Ids /\ it'[at].current = docs[it'[at].found]
<1>0. TypeOK /\ it \in [Items -> PlanItem(manifest)] /\ at \in Items /\ pc = "read"
  BY DEF IInv, TypeOK, Reads
<1>1. it[at] \in PlanItem(manifest)
  BY <1>0
<1>2. CASE Broken /\ it' = it
  BY <1>0, <1>2
<1>3. CASE it' = [it EXCEPT ![at].err = TRUE]
  <2> DEFINE x == [it[at] EXCEPT !.err = TRUE]
  <2>1. /\ x.err = TRUE /\ x.found = it[at].found /\ x.current = it[at].current
        /\ x.result = it[at].result /\ x.unsure = it[at].unsure
    BY <1>1 DEF PlanItem
  <2>2. it'[at] = x /\ \A j \in Items : j # at => it'[j] = it[j]
    BY <1>0, <1>3
  <2> HIDE DEF x
  <2> QED BY <1>0, <2>1, <2>2
<1> DEFINE found == Matches(manifest[at].key)
           d == CHOOSE d \in found : TRUE
<1>4. CASE it' = it /\ found = {}
  BY <1>0, <1>4
<1>5. CASE found # {} /\ ~(Cardinality(found) > 1) /\ it' = [it EXCEPT ![at].found = d, ![at].current = docs[d]]
  <2>1. d \in found
    BY <1>5
  <2>2. found \subseteq Ids /\ Ids = 1 .. MaxDocs /\ IsFiniteSet(Ids)
    <3>1. found \subseteq Ids
      BY DEF Matches
    <3>2. Ids = 1 .. MaxDocs /\ MaxDocs \in Int /\ 1 \in Int
      BY <1>0, BoundsAssumption DEF TypeOK, Ids
    <3>3. IsFiniteSet(1 .. MaxDocs)
      BY <3>2, FS_Interval
    <3> QED BY <3>1, <3>2, <3>3
  <2> HIDE DEF found, d
  <2>3. IsFiniteSet(found) /\ Cardinality(found) \in Nat
    BY <2>2, FS_Subset, FS_CardinalityType
  <2>4. found = {d}
    <3>1. SUFFICES ASSUME NEW e \in found, e # d PROVE FALSE
      BY <2>1
    <3>2. IsFiniteSet(found \ {d}) /\ Cardinality(found \ {d}) = Cardinality(found) - 1
      BY <2>1, <2>3, FS_RemoveElement
    <3>3. Cardinality(found \ {d}) \in Nat
      BY <3>2, FS_CardinalityType
    <3>4. Cardinality(found \ {d}) = 0
      BY <1>5, <2>3, <3>2, <3>3
    <3>5. found \ {d} = {}
      BY <3>2, <3>4, FS_EmptySet
    <3> QED BY <3>1, <3>5
  <2> DEFINE x == [it[at] EXCEPT !.found = d, !.current = docs[d]]
  <2>5. /\ x.err = it[at].err /\ x.found = d /\ x.current = docs[d]
        /\ x.result = it[at].result /\ x.unsure = it[at].unsure
    BY <1>1 DEF PlanItem
  <2>6. it'[at] = x /\ \A j \in Items : j # at => it'[j] = it[j]
    BY <1>0, <1>5
  <2> HIDE DEF x
  <2> QED BY <1>0, <2>1, <2>2, <2>4, <2>5, <2>6 DEF found
<1>6. CASE it' = IF found = {} THEN it
                 ELSE IF Cardinality(found) > 1 THEN [it EXCEPT ![at].err = TRUE]
                 ELSE [it EXCEPT ![at].found = d, ![at].current = docs[d]]
  <2> HIDE DEF found, d
  <2>1. CASE found = {}
    BY <1>4, <1>6, <2>1
  <2>2. CASE found # {} /\ Cardinality(found) > 1
    BY <1>3, <1>6, <2>2
  <2>3. CASE found # {} /\ ~(Cardinality(found) > 1)
    BY <1>5, <1>6, <2>3
  <2> QED BY <2>1, <2>2, <2>3
<1> QED BY <1>2, <1>3, <1>6 DEF Reads

-----------------------------------------------------------------------------
(* What is served.                                                          *)

LEMMA ServedNext == IInv /\ [Next]_vars => Served'
<1> SUFFICES ASSUME IInv, [Next]_vars PROVE Served'
  OBVIOUS
<1> DEFINE Bodied(x) == \A i \in Items : x.bodies[i] # None => Names(x.bodies[i], i)
<1>0. TypeOK /\ Served /\ Found /\ Evolves /\ Items' = Items /\ manifest' = manifest
  BY Constant, Same, Evolution DEF IInv
<1>1. docs \in [1 .. MaxDocs -> Doc(manifest) \cup {None}] /\ made \in 0 .. MaxDocs /\ MaxDocs \in Nat
  BY <1>0, BoundsAssumption DEF TypeOK
<1>2. Ids' = Ids /\ Ids = 1 .. MaxDocs
  BY <1>0, <1>1 DEF Evolves, Ids
<1>3. \A d \in Ids : docs[d] # None => Bodied(docs[d])
  BY <1>0 DEF Served
<1>4. \A b : \A i \in Items : Names(b, i) => Names(b, i)'
  BY NamesKeeps
<1>5. ASSUME \A d \in Ids : docs'[d] # None => Bodied(docs'[d])
      PROVE  \A d \in Ids : docs'[d] # None => \A i \in Items : docs'[d].bodies[i] # None => Names(docs[d].bodies[i], i)'
  BY <1>4, <1>5
<1>6. ASSUME NEW x, Adds(x), Bodied(x) PROVE \A d \in Ids : docs'[d] # None => Bodied(docs'[d])
  BY <1>1, <1>2, <1>3, <1>6 DEF Adds
<1>7. ASSUME NEW e, NEW x, Alters(e, x), Bodied(x) PROVE \A d \in Ids : docs'[d] # None => Bodied(docs'[d])
  BY <1>1, <1>2, <1>3, <1>7 DEF Alters
<1>8. ASSUME Attempts
      PROVE  /\ Current \in Items /\ Final(Current).body \in Bodies(manifest)
             /\ Names(Final(Current).body, Current)
  <2> DEFINE i == Current
  <2>1. /\ i \in Items /\ Final(i).body = Resolved(i) /\ Final(i).body \in Bodies(manifest)
        /\ \A j \in manifest[i].links : it[j].found # None
    BY <1>8, FinalIs
  <2> HIDE DEF i
  <2>2. \A j \in manifest[i].links : j \in Items /\ Resolved(i)[j] = it[j].found /\ Naming(it[j].found, j)
    BY <1>0, <2>1, Given, ResolvedIs DEF Found, FoundOf
  <2> QED BY <2>1, <2>2 DEF Names, i
<1>9. \A d \in Ids : docs'[d] # None => Bodied(docs'[d])
  <2>1. CASE docs' = docs
    BY <1>3, <2>1
  <2>2. CASE Attempts /\ Executes(Current, Final(Current))
    <3> DEFINE w == Final(Current)
               i == Current
    <3>1. i \in Items /\ w.body \in Bodies(manifest) /\ Names(w.body, i)
      BY <1>8, <2>2
    <3>2. \/ \E x : Adds(x) /\ CreatedAs(x, i, w.mode, w.body)
          \/ \E x : Alters(w.found, x) /\ UpdatedAs(x, docs[w.found], i, w.mode, w.body)
      BY <2>2, Executed
    <3> HIDE DEF i, w
    <3>3. CASE \E x : Adds(x) /\ CreatedAs(x, i, w.mode, w.body)
      <4>1. PICK x : Adds(x) /\ CreatedAs(x, i, w.mode, w.body)
        BY <3>3
      <4>2. Bodied(x)
        BY <3>1, <4>1 DEF CreatedAs
      <4> QED BY <1>6, <4>1, <4>2
    <3>4. CASE \E x : Alters(w.found, x) /\ UpdatedAs(x, docs[w.found], i, w.mode, w.body)
      <4>1. PICK x : Alters(w.found, x) /\ UpdatedAs(x, docs[w.found], i, w.mode, w.body)
        BY <3>4
      <4>2. docs[w.found] # None /\ w.found \in Ids
        BY <4>1 DEF Alters
      <4>3. docs[w.found].bodies \in [Items -> Bodies(manifest) \cup {None}]
        BY <1>0, <4>2, DocsAre, DocIs
      <4>4. Bodied(x)
        BY <1>3, <3>1, <4>1, <4>2, <4>3 DEF UpdatedAs
      <4> QED BY <1>7, <4>1, <4>4
    <3> QED BY <3>2, <3>3, <3>4
  <2>3. CASE Others
    <3>1. CASE \E x : Adds(x) /\ x.origin = None /\ \A i \in Items : x.bodies[i] = None
      BY <1>6, <3>1
    <3>2. CASE \E d \in Ids : docs[d] # None /\ made' = made /\ docs' = [docs EXCEPT ![d] = None]
      BY <1>1, <1>2, <1>3, <3>2
    <3>3. CASE \E d, x : Alters(d, x) /\ \A i \in Items : x.bodies[i] = None
      BY <1>7, <3>3
    <3> QED BY <1>0, <2>3, <3>1, <3>2, <3>3, Othered
  <2>4. CASE ExecutesStray
    <3>1. PICK x : Adds(x) /\ CreatedAs(x, stray.item, stray.mode, stray.body)
      BY <1>0, <2>4, Strayed
    <3>2. stray.item \in Items /\ Names(stray.body, stray.item)
      BY <1>0, <2>4, Strayed
    <3>3. Bodied(x)
      BY <3>1, <3>2 DEF CreatedAs
    <3> QED BY <1>6, <3>1, <3>3
  <2> QED BY <2>1, <2>2, <2>3, <2>4, Evolution
<1>10. stray' # None => Names(stray.body, stray.item)'
  <2>1. CASE stray' = stray
    <3>1. stray # None => stray.item \in Items /\ Names(stray.body, stray.item)
      <4>1. stray # None => stray \in Creates(manifest)
        BY <1>0 DEF TypeOK
      <4> QED BY <1>0, <4>1 DEF Creates, Items, Served
    <3> QED BY <1>4, <2>1, <3>1
  <2>2. CASE stray' # stray
    <3>1. \/ stray' = None
          \/ Attempts /\ stray' = [item |-> Current, mode |-> Final(Current).mode, body |-> Final(Current).body]
      BY <2>2, Zenon DEF Next, Step, Start, Reads, Plans, Confirms, Passes, Writes, Fails, Loses, Reports, Others,
                         ExecutesStray, Cancels, Crashes, vars, server
    <3>2. CASE Attempts /\ stray' = [item |-> Current, mode |-> Final(Current).mode, body |-> Final(Current).body]
      <4>1. stray'.item = Current /\ stray'.body = Final(Current).body
        BY <3>2
      <4>2. Names(stray'.body, stray'.item) /\ stray'.item \in Items
        BY <1>8, <3>2, <4>1
      <4> QED BY <1>4, <4>2
    <3> QED BY <3>1, <3>2
  <2> QED BY <2>1, <2>2
<1> QED BY <1>0, <1>2, <1>5, <1>9, <1>10 DEF Served, Evolves

-----------------------------------------------------------------------------
(* What the command knows of an item.                                       *)

\* A plan that is given up.
LEMMA Ended ==
  ASSUME NEW o, Ends(o)
  PROVE  /\ \A i \in Items : /\ it'[i].found = None /\ it'[i].current = None /\ it'[i].result = None
                             /\ it'[i].unsure = FALSE /\ it'[i].err = FALSE
         /\ pc' = "idle" /\ outcome' = o /\ order' = <<>> /\ settled' = (o = "ok" /\ calm)
  BY DEF Ends, Over, Unplanned

LEMMA Started ==
  ASSUME Start, ~Ends("problem")
  PROVE  /\ \A i \in Items : /\ it'[i].found = None /\ it'[i].current = None /\ it'[i].result = None
                             /\ it'[i].unsure = FALSE
         /\ pc = "idle" /\ pc' = "read" /\ at' = 1 /\ outcome' = None /\ settled' = settled /\ order' = order
  BY DEF Start, Unplanned

LEMMA Drawn ==
  ASSUME IInv, Plans, ~Ends("problem")
  PROVE  /\ \A i \in Items : /\ it'[i] = Decided(i) /\ it'[i].found = it[i].found /\ it'[i].current = it[i].current
                             /\ it'[i].result = it[i].result /\ it'[i].unsure = it[i].unsure /\ it'[i].err = it[i].err
         /\ pc = "read" /\ pc' = "planned" /\ at > Len(manifest) /\ ~Broken /\ settled' = settled
         /\ order' \in Orders /\ Placed(order', Len(order')) = Items
<1>1. \A i \in Items : it'[i] = Decided(i)
  BY DEF Plans
<1> QED BY <1>1, DecidedIs DEF Plans, IInv

\* The steps that leave the plan as it is.
Still == Reports \/ Others \/ ExecutesStray \/ Cancels \/ (Confirms /\ pc' = "execute") \/ UNCHANGED vars

LEMMA StillIs ==
  ASSUME Still
  PROVE  it' = it /\ order' = order
  BY Zenon DEF Still, Reports, Others, ExecutesStray, Cancels, Confirms, Ends, Over, vars, plan

\* The steps by what they do to the plan: leave it, give it up, make it, carry it out.
LEMMA Steps ==
  ASSUME [Next]_vars
  PROVE  \/ Still
         \/ \E o \in {"problem", "planned", "declined", "killed"} : Ends(o)
         \/ Start /\ ~Ends("problem")
         \/ Plans /\ ~Ends("problem")
         \/ Reads \/ Passes \/ Writes \/ Fails \/ Loses
<1>1. CASE Confirms
  BY <1>1 DEF Confirms, Still
<1>2. CASE Start \/ Plans \/ Crashes
  BY <1>2 DEF Crashes
<1> QED BY <1>1, <1>2 DEF Next, Step, Still

LEMMA FoundNext == IInv /\ [Next]_vars => Found'
<1> SUFFICES ASSUME IInv, [Next]_vars, NEW i \in Items PROVE FoundOf(i)'
  BY Constant, Same DEF Found
<1>0. TypeOK /\ Found /\ FoundOf(i) /\ manifest' = manifest
  BY Constant DEF IInv, Found
<1>1. (\A r : Naming(r, i) => Naming(r, i)') /\ (\A b : Names(b, i) => Names(b, i)')
  BY NamingKeeps, NamesKeeps
<1>2. CASE Still
  <2>1. it' = it
    BY <1>2, StillIs
  <2>2. pc' \in {"read", "planned"} => pc' = pc
    BY <1>2 DEF Still, Reports, Over, Others, ExecutesStray, Cancels, vars
  <2> QED BY <1>0, <1>1, <2>1, <2>2 DEF FoundOf, Exists
<1>3. CASE (\E o : Ends(o)) \/ (Start /\ ~Ends("problem"))
  BY <1>3, Ended, Started DEF FoundOf, Exists
<1>4. CASE Plans /\ ~Ends("problem")
  BY <1>0, <1>1, <1>4, Drawn DEF FoundOf, Exists
<1>5. CASE Reads
  <2>1. pc' = pc
    BY <1>5 DEF Reads
  <2>2. CASE it'[i] = it[i] \/ (it'[i].found = it[i].found /\ it'[i].current = it[i].current)
    BY <1>0, <1>1, <1>5, <2>1, <2>2, Looked DEF FoundOf, Exists
  <2>3. CASE /\ i = at /\ Matches(manifest[i].key) = {it'[i].found} /\ it'[i].found \in Ids
             /\ it'[i].current = docs[it'[i].found]
    <3> DEFINE d == it'[i].found
    <3>1. d \in Ids /\ docs[d] # None /\ docs[d].key = manifest[i].key /\ it'[i].current = docs[d]
      BY <2>3 DEF Matches
    <3> HIDE DEF d
    <3>2. d <= made /\ (docs[d].bodies[i] # None => Names(docs[d].bodies[i], i))
      <4>1. made \in Nat /\ d \in Nat
        BY <1>0, <3>1, BoundsAssumption DEF TypeOK, Ids
      <4> QED BY <3>1, <4>1 DEF IInv, Served
    <3>3. Naming(d, i)
      BY <3>1, <3>2 DEF Naming
    <3>4. d # None
      BY <1>0, <3>1, NoneIsNone, BoundsAssumption DEF TypeOK, Ids
    <3>5. it'[i].unsure = it[i].unsure /\ it'[i].result = it[i].result
      BY <1>5, Looked
    <3> QED BY <1>0, <1>1, <2>1, <3>1, <3>2, <3>3, <3>4, <3>5 DEF FoundOf, Exists, d
  <2> QED BY <1>5, <2>2, <2>3, Looked
<1>6. CASE Passes
  <2>1. pc' = "execute"
    BY <1>6 DEF Passes
  <2>2. CASE i # Current
    BY <1>0, <1>1, <1>6, <2>1, <2>2, Passed DEF FoundOf, Exists
  <2>3. CASE i = Current
    <3>1. it[i].result = None /\ it'[i].unsure = it[i].unsure /\ it'[i].found = it[i].found /\ it'[i].current = it[i].current
      BY <1>6, <2>3, Passed
    <3>2. ~it[i].unsure /\ it'[i].result # None
      <4>1. None # "failed" /\ None # "unchanged" /\ None # "not_attempted"
        BY NoneIsNone DEF Result
      <4> QED BY <1>0, <1>6, <2>3, <3>1, <4>1, Passed DEF FoundOf
    <3> QED BY <1>0, <1>1, <2>1, <3>1, <3>2 DEF FoundOf, Exists
  <2> QED BY <2>2, <2>3
<1>7. CASE Writes \/ Fails \/ Loses
  <2>1. pc' = "execute"
    BY <1>7 DEF Writes, Fails, Loses, Attempts
  <2>2. CASE i # Current
    <3>1. it'[i] = it[i]
      BY <1>7, <2>2, Tried
    <3> QED BY <1>0, <1>1, <2>1, <3>1 DEF FoundOf, Exists
  <2>3. CASE i = Current
    <3>0. None # "failed" /\ None # "created" /\ None # "updated"
      BY NoneIsNone DEF Result
    <3>1. it'[i].current = it[i].current /\ Attempts
      BY <1>7, <2>3, Tried
    <3>2. CASE Writes
      <4>1. /\ it'[i].found = IF Final(i).action = "create" THEN made + 1 ELSE it[i].found
            /\ it'[i].result \in {"created", "updated"} /\ it'[i].unsure = FALSE
        BY <1>7, <2>3, <3>2, Tried
      <4>2. Final(i).action = "create" <=> ~Exists(i)
        BY <2>3, <3>1, FinalIs
      <4>3. CASE Exists(i)
        BY <1>0, <1>1, <2>1, <3>0, <3>1, <4>1, <4>2, <4>3 DEF FoundOf, Exists
      <4>4. CASE ~Exists(i)
        <5>1. PICK x : Adds(x) /\ x.origin = manifest[i].key
          BY <2>3, <3>1, <3>2, <4>2, <4>4, Executed DEF Writes, CreatedAs
        <5>2. docs \in [1 .. MaxDocs -> Doc(manifest) \cup {None}] /\ made \in Nat /\ MaxDocs \in Nat
          BY <1>0, BoundsAssumption DEF TypeOK
        <5>3. made + 1 \in Ids' /\ docs'[made + 1] = x /\ made' = made + 1 /\ it'[i].found = made + 1
          BY <4>1, <4>2, <4>4, <5>1, <5>2 DEF Adds, Ids
        <5>4. Naming(it[i].found, i)'
          BY <1>0, <5>1, <5>2, <5>3 DEF Naming
        <5>5. it'[i].current = None
          BY <3>1, <4>4 DEF Exists
        <5> QED BY <2>1, <3>0, <4>1, <5>4, <5>5 DEF FoundOf, Exists
      <4> QED BY <4>3, <4>4
    <3>3. CASE ~Writes
      <4>1. it'[i].found = it[i].found /\ it'[i].result = "failed"
        BY <1>7, <2>3, <3>3, Tried
      <4> QED BY <1>0, <1>1, <2>1, <3>0, <3>1, <4>1 DEF FoundOf, Exists
    <3> QED BY <3>2, <3>3
  <2> QED BY <2>2, <2>3
<1> QED BY <1>2, <1>3, <1>4, <1>5, <1>6, <1>7, Steps

-----------------------------------------------------------------------------
(* The plan and its execution.                                              *)

LEMMA StillPlaces ==
  ASSUME Still, pc' \in {"planned", "execute"}
  PROVE  \/ pc' = pc /\ at' = at
         \/ pc = "planned" /\ pc' = "execute" /\ at' = 1
  BY DEF Still, Reports, Over, Others, ExecutesStray, Cancels, Confirms, Ends, vars

\* A step of a run that leaves the run where it was planned, or is executing.
LEMMA Places ==
  ASSUME [Next]_vars, pc' \in {"planned", "execute"}
  PROVE  \/ Still
         \/ Plans /\ ~Ends("problem")
         \/ pc = "execute" /\ pc' = "execute" /\ at' = at + 1 /\ order' = order /\ (Passes \/ Writes \/ Fails \/ Loses)
<1>1. CASE \E o : Ends(o)
  BY <1>1, Ended
<1>2. CASE Start /\ ~Ends("problem")
  BY <1>2, Started
<1>3. CASE Reads
  BY <1>3 DEF Reads
<1>4. CASE Passes \/ Writes \/ Fails \/ Loses
  BY <1>4 DEF Passes, Writes, Fails, Loses, Attempts
<1> QED BY <1>1, <1>2, <1>3, <1>4, Steps

\* A complete order holds each item once, after all it depends on.
LEMMA OrderIs ==
  ASSUME TypeOK, NEW o \in Orders, Placed(o, Len(o)) = Items
  PROVE  /\ \A n, m \in DOMAIN o : o[n] = o[m] => n = m
         /\ \A i \in Items : \E n \in DOMAIN o : o[n] = i
<1>1. PICK l \in 0 .. Len(manifest) : o \in [1 .. l -> Items]
  BY DEF Orders
<1>2. DOMAIN o = 1 .. Len(o) /\ Len(o) \in Nat
  BY <1>1, Given
<1>3. \A n \in DOMAIN o : o[n] \notin Placed(o, n - 1)
  BY DEF Orders, Order, Ready
<1>4. ASSUME NEW n \in DOMAIN o, NEW m \in DOMAIN o, m < n PROVE o[n] # o[m]
  BY <1>2, <1>3, <1>4 DEF Placed
<1>5. \A n, m \in DOMAIN o : o[n] = o[m] => n = m
  <2>1. \A n, m \in DOMAIN o : n < m \/ m < n \/ n = m
    BY <1>2
  <2> QED BY <1>4, <2>1
<1> QED BY <1>2, <1>5 DEF Placed

LEMMA PlannedNext == IInv /\ [Next]_vars => Planned'
<1> SUFFICES ASSUME IInv, [Next]_vars, pc' \in {"planned", "execute"} PROVE Planned'
  BY DEF Planned
<1>0. /\ TypeOK /\ Found /\ Planned /\ manifest' = manifest /\ Items' = Items /\ drafts' = drafts
      /\ Bodies(manifest)' = Bodies(manifest)
  BY Constant, Same DEF IInv
<1>1. CASE Still
  <2>1. it' = it /\ order' = order /\ pc \in {"planned", "execute"}
    BY <1>1, StillIs, StillPlaces
  <2>2. \A i \in Items : Decision(i) => Decision(i)'
    BY <1>0, <2>1 DEF Decision, Exists, Deps
  <2> QED BY <1>0, <2>1, <2>2 DEF Planned
<1>2. CASE Plans /\ ~Ends("problem")
  <2>1. /\ \A n, m \in DOMAIN order' : order'[n] = order'[m] => n = m
        /\ \A i \in Items : \E n \in DOMAIN order' : order'[n] = i
    BY <1>0, <1>2, Drawn, OrderIs
  <2>2. ASSUME NEW i \in Items PROVE Decision(i)'
    <3>1. /\ it'[i].current = it[i].current
          /\ it'[i].action = IF ~Exists(i) THEN "create" ELSE IF InPlace(i) THEN "unchanged" ELSE "update"
          /\ it'[i].mode = Mode(i) /\ it'[i].body = Resolved(i)
      BY <1>0, <1>2, Drawn, DecidedIs
    <3>2. /\ pc = "read"
          /\ \A j \in Items : it'[j].found = it[j].found /\ it'[j].current = it[j].current
      BY <1>2, Drawn
    <3>3. ASSUME NEW j \in Items, j \in manifest[i].links, it[j].current # None PROVE Resolved(i)[j] = it[j].found
      <4>1. it[j].found # None
        BY <1>0, <3>3 DEF Found, FoundOf, Exists
      <4> QED BY <1>0, <3>3, <4>1, ResolvedIs
    <3>4. \A j \in Items : j \notin manifest[i].links => Resolved(i)[j] = None
      BY <1>0, ResolvedIs
    <3>5. ASSUME it[i].current # None, it[i].current.bodies[i] # None, NEW j \in Deps(i)
          PROVE  it[j].found # it[i].current.bodies[i][j]
      <4>1. j \in manifest[i].links /\ j \in Items /\ it[j].current = None
        BY <1>0, Given DEF Deps, Exists
      <4>2. it[j].found = None
        BY <1>0, <3>2, <4>1 DEF Found, FoundOf, Exists
      <4>3. Naming(it[i].current.bodies[i][j], j)
        BY <1>0, <3>5, <4>1 DEF Found, FoundOf, Exists, Names
      <4>4. it[i].current.bodies[i][j] \in Nat
        BY <1>0, <4>3, BoundsAssumption DEF Naming, TypeOK, Ids
      <4> QED BY <4>2, <4>4, NoneIsNone
    <3>6. Mode(i) \in Modes /\ (Mode(i) = "publish" <=> drafts /\ manifest[i].status = "published")
      BY <1>0, ModeIs
    <3>7. Resolved(i) \in Bodies(manifest) /\ manifest[i].links \subseteq Items
      BY <1>0, ResolvedIs, Given
    <3>8. Deps(i)' = Deps(i)
      BY <1>0, <3>2, <3>7 DEF Deps, Exists
    <3>9. \A j \in Deps(i) : j \in Items
      BY <3>7 DEF Deps
    <3>10. \A j \in Items : IF j \in manifest[i].links THEN it[j].current # None => Resolved(i)[j] = it[j].found
                            ELSE Resolved(i)[j] = None
      BY <3>3, <3>4
    <3> HIDE DEF Mode, Resolved
    <3> QED BY <1>0, <3>1, <3>2, <3>5, <3>6, <3>7, <3>8, <3>9, <3>10 DEF Decision, Exists, Modes
  <2> QED BY <1>0, <2>1, <2>2 DEF Planned
<1>3. CASE pc = "execute" /\ pc' = "execute" /\ at' = at + 1 /\ order' = order /\ (Passes \/ Writes \/ Fails \/ Loses)
  <2>1. \A i \in Items : Decision(i) /\ FoundOf(i) /\ manifest[i].links \subseteq Items
    BY <1>0, <1>3, Given DEF Planned, Found
  <2>2. ASSUME NEW i \in Items PROVE Decision(i)'
    <3>0. Decision(i)
      BY <2>1
    <3>1. CASE Passes
      <4>1. \A j \in Items : /\ it'[j].found = it[j].found /\ it'[j].current = it[j].current /\ it'[j].action = it[j].action
                             /\ it'[j].mode = it[j].mode /\ it'[j].body = it[j].body
        BY <1>0, <3>1, Passed
      <4>2. Deps(i)' = Deps(i) /\ \A j \in Deps(i) : j \in Items
        BY <1>0, <2>1, <4>1 DEF Deps, Exists
      <4> QED BY <1>0, <3>0, <4>1, <4>2 DEF Decision, Exists
    <3>2. CASE Writes \/ Fails \/ Loses
      <4>1. /\ \A j \in Items : it'[j].current = it[j].current
            /\ \A j \in Items : j # Current => it'[j] = it[j]
            /\ Current \in Items /\ Attempts
        BY <1>0, <3>2, Tried
      <4>2. \A j \in Items : it'[j].found = it[j].found \/ (~Exists(j) /\ it'[j].found = made + 1)
        BY <1>0, <3>2, <4>1, Tried, FinalIs
      <4>3. Deps(i)' = Deps(i) /\ \A j \in Deps(i) : j \in Items /\ j \in manifest[i].links
        BY <1>0, <2>1, <4>1 DEF Deps, Exists
      <4>4. Decision(i) =>
              (Exists(i) /\ it[i].current.bodies[i] # None => \A j \in Deps(i) : it'[j].found # it[i].current.bodies[i][j])
        <5>1. ASSUME Exists(i), it[i].current.bodies[i] # None, NEW j \in Deps(i)
              PROVE  it[i].current.bodies[i][j] # made + 1
          <6>1. Naming(it[i].current.bodies[i][j], j)
            BY <2>1, <4>3, <5>1 DEF FoundOf, Names
          <6>2. it[i].current.bodies[i][j] \in Nat /\ it[i].current.bodies[i][j] <= made /\ made \in Nat
            BY <1>0, <6>1, BoundsAssumption DEF Naming, TypeOK, Ids
          <6> QED BY <6>2
        <5> QED BY <4>2, <4>3, <5>1 DEF Decision
      <4>5. CASE i # Current
        <5>1. it'[i] = it[i]
          BY <4>1, <4>5
        <5>2. \A j \in Items : Exists(j) => it'[j].found = it[j].found
          BY <4>2
        <5> QED BY <1>0, <3>0, <4>1, <4>3, <4>4, <5>1, <5>2 DEF Decision, Exists
      <4>6. CASE i = Current
        <5>1. /\ it'[i].action \in {"create", "update"} /\ (it'[i].action = "create" <=> ~Exists(i))
              /\ it'[i].mode \in Modes /\ (it'[i].mode = "publish" <=> drafts /\ manifest[i].status = "published")
              /\ it'[i].body = Resolved(i) /\ it'[i].body \in Bodies(manifest)
          BY <1>0, <3>2, <4>1, <4>6, Tried, FinalIs
        <5>2. \A j \in Items : IF j \in manifest[i].links THEN Exists(j) => Resolved(i)[j] = it'[j].found
                               ELSE Resolved(i)[j] = None
          <6>1. \A j \in Items : Exists(j) => it'[j].found = it[j].found /\ it[j].found # None
            BY <2>1, <4>2 DEF FoundOf
          <6> QED BY <1>0, <6>1, ResolvedIs
        <5> QED BY <1>0, <3>0, <4>1, <4>3, <4>4, <5>1, <5>2 DEF Decision, Exists
      <4> QED BY <4>5, <4>6
    <3> QED BY <1>3, <3>1, <3>2
  <2> QED BY <1>0, <1>3, <2>2 DEF Planned
<1> QED BY <1>1, <1>2, <1>3, Places

LEMMA AttemptedNext == IInv /\ [Next]_vars => Attempted'
<1> SUFFICES ASSUME IInv, [Next]_vars, pc' = "execute" PROVE Attempted'
  BY DEF Attempted
<1>0. /\ TypeOK /\ Found /\ Planned /\ Attempted /\ Items' = Items /\ at \in Nat /\ order \in Seq(Items)
  BY Constant, Same DEF IInv, TypeOK
<1>1. CASE Still
  <2>1. it' = it /\ order' = order
    BY <1>1, StillIs
  <2>2. CASE pc' = pc /\ at' = at
    BY <1>0, <2>1, <2>2 DEF Attempted
  <2>3. CASE pc = "planned" /\ at' = 1
    <3>1. \A i \in Items : it[i].result = None
      BY <1>0, <2>3 DEF Found, FoundOf
    <3>2. \A n \in DOMAIN order : n \in Nat /\ n >= 1 /\ order[n] \in Items
      BY <1>0
    <3> QED BY <1>0, <2>1, <2>3, <3>1, <3>2, NoneIsNone DEF Attempted, Result
  <2> QED BY <1>1, <2>2, <2>3, StillPlaces
<1>2. CASE Plans /\ ~Ends("problem")
  BY <1>2, Drawn
<1>3. CASE pc = "execute" /\ at' = at + 1 /\ order' = order /\ (Passes \/ Writes \/ Fails \/ Loses)
  <2>1. /\ Current \in Items /\ at \in DOMAIN order /\ it'[Current].result \in Result
        /\ \A j \in Items : j # Current => it'[j] = it[j]
        /\ it'[Current].result = "unchanged" => it'[Current].action = "unchanged"
    <3>1. CASE Passes
      BY <1>0, <3>1, Passed DEF Result
    <3>2. CASE Writes \/ Fails \/ Loses
      BY <1>0, <3>2, Tried, FinalIs DEF Result
    <3> QED BY <1>3, <3>1, <3>2
  <2>2. \A n \in DOMAIN order : n \in Nat /\ order[n] \in Items /\ (n # at => order[n] # Current)
    BY <1>0, <1>3, <2>1 DEF Planned, Current
  <2>3. ASSUME NEW n \in DOMAIN order PROVE n < at' <=> it'[order[n]].result # None
    <3>1. CASE n = at
      BY <1>0, <1>3, <2>1, <2>2, <3>1, NoneIsNone DEF Current
    <3>2. CASE n # at
      <4>1. it'[order[n]] = it[order[n]] /\ n \in Nat
        BY <2>1, <2>2, <3>2
      <4>2. n < at' <=> n < at
        BY <1>0, <1>3, <3>2, <4>1
      <4> QED BY <1>0, <1>3, <4>1, <4>2 DEF Attempted
    <3> QED BY <3>1, <3>2
  <2>4. \A i \in Items : it'[i].result = "unchanged" => it'[i].action = "unchanged"
    BY <1>0, <1>3, <2>1 DEF Attempted
  <2> QED BY <1>0, <1>3, <2>3, <2>4 DEF Attempted
<1> QED BY <1>1, <1>2, <1>3, Places

-----------------------------------------------------------------------------
(* The documents a key has.                                                 *)

\* What was told, unanswered or late stays so.
LEMMA Grow ==
  ASSUME [Next]_vars
  PROVE  warned \subseteq warned' /\ unanswered \subseteq unanswered' /\ late \subseteq late'
<1>1. CASE Writes
  BY <1>1 DEF Writes
<1>2. CASE Loses
  BY <1>2 DEF Loses
<1>3. CASE ExecutesStray
  BY <1>3 DEF ExecutesStray, told
<1>4. CASE ~Writes /\ ~Loses /\ ~ExecutesStray
  BY <1>4, Zenon DEF Next, Step, Start, Reads, Plans, Confirms, Passes, Fails, Reports, Others, Cancels, Crashes,
                     vars, server, told
<1> QED BY <1>1, <1>2, <1>3, <1>4

\* A document with an origin comes of a create, answered, unanswered or late.
LEMMA Made ==
  ASSUME IInv, [Next]_vars, NEW d \in Ids, d > made, docs'[d] # None, docs'[d].origin # None
  PROVE  LET k == docs'[d].origin
         IN  /\ d = made + 1 /\ docs'[d].key = IF k \in hooked THEN Rewritten ELSE k
             /\ \/ /\ Writes \/ Loses
                   /\ Attempts /\ ~Exists(Current) /\ Current \in Items /\ k = manifest[Current].key
                   /\ k \in hooked => k \in warned' \cup unanswered'
                \/ k \in late'
<1>0. TypeOK /\ Served
  BY DEF IInv
<1>1. /\ docs \in [1 .. MaxDocs -> Doc(manifest) \cup {None}] /\ made \in Nat /\ MaxDocs \in Nat
      /\ docs[d] = None /\ d \in Nat
  BY <1>0, BoundsAssumption DEF TypeOK, Served, Ids
<1>2. ASSUME NEW x, Adds(x) PROVE d = made + 1 /\ docs'[d] = x
  BY <1>1, <1>2 DEF Adds, Ids
<1>3. ASSUME NEW e, NEW x, Alters(e, x) PROVE FALSE
  BY <1>1, <1>3 DEF Alters, Ids
<1>4. CASE docs' = docs
  BY <1>1, <1>4
<1>5. CASE Attempts /\ Executes(Current, Final(Current)) /\ (Writes \/ Loses)
  <2> DEFINE i == Current
             w == Final(i)
  <2>1. i \in Items /\ (w.action = "create" <=> ~Exists(i))
    BY <1>5, FinalIs
  <2>2. PICK x : w.action = "create" /\ Adds(x) /\ CreatedAs(x, i, w.mode, w.body)
    BY <1>3, <1>5, Executed
  <2>3. d = made + 1 /\ docs'[d] = x
    BY <1>2, <2>2
  <2> DEFINE k == manifest[i].key
  <2>4. k = docs'[d].origin /\ docs'[d].key = IF k \in hooked THEN Rewritten ELSE k
    BY <2>2, <2>3 DEF CreatedAs
  <2>5. k \in hooked => k \in warned' \cup unanswered'
    <3>1. CASE Writes
      <4>1. warned' = IF docs'[made + 1].key # k THEN warned \cup {k} ELSE warned
        BY <2>2, <3>1 DEF Writes
      <4>2. k # Rewritten
        BY <1>0, <2>1, Given DEF Rewritten
      <4> QED BY <2>3, <2>4, <4>1, <4>2
    <3>2. CASE Loses
      BY <2>2, <3>2 DEF Loses
    <3> QED BY <1>5, <3>1, <3>2
  <2> QED BY <1>5, <2>1, <2>2, <2>3, <2>4, <2>5
<1>6. CASE Others
  <2>1. CASE \E x : Adds(x) /\ x.origin = None
    BY <1>2, <2>1
  <2>2. CASE \E e \in Ids : docs' = [docs EXCEPT ![e] = None]
    BY <1>1, <2>2 DEF Ids
  <2> QED BY <1>0, <1>3, <1>6, <2>1, <2>2, Othered
<1>7. CASE ExecutesStray
  <2>1. PICK x : Adds(x) /\ CreatedAs(x, stray.item, stray.mode, stray.body)
    BY <1>0, <1>7, Strayed
  <2>2. d = made + 1 /\ docs'[d] = x
    BY <1>2, <2>1
  <2>3. manifest[stray.item].key \in late'
    BY <1>7 DEF ExecutesStray
  <2> QED BY <2>1, <2>2, <2>3 DEF CreatedAs
<1> QED BY <1>4, <1>5, <1>6, <1>7, Evolution

\* The items that were looked up, and for which nothing was found.
LEMMA Lookups ==
  ASSUME IInv, [Next]_vars, NEW i \in Items, Lookup(i)', ~Exists(i)'
  PROVE  \/ Lookup(i) /\ ~Exists(i)
         \/ Reads /\ Matches(manifest[i].key) = {}
<1>0. TypeOK /\ manifest' = manifest /\ Items' = Items
  BY Constant, Same DEF IInv
<1>1. \A o : ~Ends(o)
  BY Ended DEF Lookup
<1>2. CASE Still
  <2>1. it' = it
    BY <1>2, StillIs
  <2>2. \/ pc' = pc /\ at' = at
        \/ pc = "planned" /\ pc' = "execute"
        \/ pc' = "idle"
    <3>1. CASE Reports
      BY <3>1 DEF Reports, Over
    <3>2. CASE Others \/ ExecutesStray \/ Cancels \/ UNCHANGED vars
      BY <3>2 DEF Others, ExecutesStray, Cancels, vars
    <3>3. CASE Confirms /\ pc' = "execute"
      BY <3>3 DEF Confirms
    <3> QED BY <1>2, <3>1, <3>2, <3>3 DEF Still
  <2> QED BY <1>0, <2>1, <2>2 DEF Lookup, Exists, Broken
<1>3. CASE Start /\ ~Ends("problem")
  <2>1. pc' = "read" /\ at' = 1
    BY <1>3, Started
  <2> QED BY <1>0, <2>1, Given DEF Lookup
<1>4. CASE Plans /\ ~Ends("problem")
  <2>1. pc = "read" /\ at > Len(manifest) /\ ~Broken /\ it'[i].current = it[i].current
    BY <1>0, <1>4, Drawn
  <2>2. i < at
    BY <1>0, <2>1, Given DEF TypeOK
  <2> QED BY <2>1, <2>2 DEF Lookup, Exists
<1>5. CASE Reads
  <2>1. pc = "read" /\ pc' = "read" /\ at' = at + 1 /\ at \in Items
    BY <1>5 DEF Reads
  <2>2. i < at' /\ ~Broken'
    BY <2>1 DEF Lookup
  <2>3. \A j \in Items : ~it'[j].err
    BY <1>0, <2>2 DEF Broken
  <2>4. ~Broken
    BY <1>0, <1>5, <2>3, Looked DEF Broken
  <2>5. CASE i # at
    <3>1. it'[i] = it[i]
      BY <1>5, <2>5, Looked
    <3>2. i < at
      BY <1>0, <2>1, <2>2, <2>5, Given
    <3> QED BY <2>1, <2>4, <3>1, <3>2 DEF Lookup, Exists
  <2>6. CASE i = at
    <3>1. CASE it'[at].current = docs[it'[at].found] /\ Matches(manifest[at].key) = {it'[at].found}
      <4>1. it'[at].found \in Matches(manifest[at].key)
        BY <3>1
      <4> QED BY <2>6, <3>1, <4>1 DEF Exists, Matches
    <3>2. CASE Matches(manifest[at].key) = {}
      BY <1>5, <2>6, <3>2
    <3> QED BY <1>5, <2>1, <2>3, <2>4, <3>1, <3>2, Looked
  <2> QED BY <2>5, <2>6
<1>6. CASE Passes \/ Writes \/ Fails \/ Loses
  <2>1. pc = "execute" /\ pc' = "execute"
    BY <1>6 DEF Passes, Writes, Fails, Loses, Attempts
  <2>2. i # Current
    <3>1. it'[i].result = None
      BY <2>1 DEF Lookup
    <3> QED BY <1>6, <3>1, Passed, Tried, NoneIsNone DEF Result
  <2>3. it'[i] = it[i]
    BY <1>6, <2>2, Passed, Tried
  <2> QED BY <2>1, <2>3 DEF Lookup, Exists
<1> QED BY <1>1, <1>2, <1>3, <1>4, <1>5, <1>6, Steps

LEMMA UniqueNext == IInv /\ [Next]_vars => Unique'
<1> SUFFICES ASSUME IInv, [Next]_vars PROVE Unique'
  OBVIOUS
<1>0. /\ TypeOK /\ Unique /\ Evolves /\ Items' = Items /\ manifest' = manifest /\ hooked' = hooked /\ Twins' = Twins
      /\ Ids' = Ids /\ Ids = 1 .. MaxDocs /\ made \in Nat /\ MaxDocs \in Nat
  <2>1. TypeOK /\ Unique /\ Evolves /\ manifest' = manifest /\ hooked' = hooked
    BY Constant, Evolution DEF IInv
  <2>2. Ids' = Ids /\ Ids = 1 .. MaxDocs /\ made \in Nat /\ MaxDocs \in Nat
    BY <2>1, BoundsAssumption DEF TypeOK, Evolves, Ids
  <2> QED BY <2>1, <2>2, Same
<1>1. \A d \in Ids : docs'[d] # None =>
        \/ d <= made /\ docs[d] # None /\ docs'[d].key = docs[d].key /\ docs'[d].origin = docs[d].origin
        \/ d > made
  BY <1>0 DEF Evolves
<1> DEFINE Excuses(k) == k \in Twins \cup late' \cup hooked
<1>2. \A k : (Excused(k) => Excuses(k)) /\ (Excused(k)' <=> Excuses(k))
  BY <1>0, Grow DEF Excused
<1>3. ASSUME NEW d \in Ids, docs'[d] # None, docs'[d].origin # None
      PROVE  IF docs'[d].origin \in hooked THEN docs'[d].origin \in warned' \cup unanswered' \cup late'
             ELSE docs'[d].key = docs'[d].origin
  <2>1. CASE d > made
    BY <1>3, <2>1, Made
  <2>2. CASE ~(d > made)
    <3>1. docs[d] # None /\ docs'[d].key = docs[d].key /\ docs'[d].origin = docs[d].origin
      BY <1>1, <1>3, <2>2
    <3> QED BY <1>0, <1>3, <3>1, Grow DEF Unique
  <2> QED BY <2>1, <2>2
<1>4. ASSUME Attempts, ~Exists(Current), Current \in Items, ~Excused(manifest[Current].key)
      PROVE  \A d \in Ids : docs[d] # None => docs[d].origin # manifest[Current].key
  <2>1. Lookup(Current)
    BY <1>4, FinalIs DEF Lookup
  <2> QED BY <1>0, <1>4, <2>1 DEF Unique
<1>5. ASSUME NEW d \in Ids, NEW e \in Ids, docs'[d] # None, docs'[e] # None, docs'[d].origin # None,
             docs'[d].origin = docs'[e].origin, ~Excuses(docs'[d].origin), d < e
      PROVE  FALSE
  <2>1. d <= made /\ docs[d] # None /\ docs'[d].origin = docs[d].origin
    <3>1. CASE d > made
      BY <1>0, <1>5, <3>1, Made
    <3> QED BY <1>0, <1>1, <1>5, <3>1
  <2>2. CASE e > made
    <3>1. docs'[e].origin \notin late'
      BY <1>5
    <3>2. Attempts /\ ~Exists(Current) /\ Current \in Items /\ docs'[e].origin = manifest[Current].key
      BY <1>5, <2>2, <3>1, Made
    <3>3. ~Excused(manifest[Current].key)
      BY <1>2, <1>5, <3>2
    <3> QED BY <1>4, <1>5, <2>1, <3>2, <3>3
  <2>3. CASE ~(e > made)
    <3>1. docs[e] # None /\ docs'[e].origin = docs[e].origin
      BY <1>1, <1>5, <2>3
    <3>2. ~Excused(docs[d].origin)
      BY <1>2, <1>5, <2>1
    <3>3. d = e
      BY <1>0, <1>5, <2>1, <3>1, <3>2 DEF Unique
    <3> QED BY <1>0, <1>5, <3>3
  <2> QED BY <2>2, <2>3
<1>6. ASSUME NEW d \in Ids, NEW e \in Ids, docs'[d] # None, docs'[e] # None, docs'[d].origin # None,
             docs'[d].origin = docs'[e].origin, ~Excuses(docs'[d].origin)
      PROVE  d = e
  <2>1. d < e \/ e < d \/ d = e
    BY <1>0
  <2> QED BY <1>5, <1>6, <2>1
<1>7. ASSUME NEW i \in Items, Lookup(i)', ~Exists(i)', ~Excused(manifest[i].key)',
             NEW d \in Ids, docs'[d] # None
      PROVE  docs'[d].origin # manifest[i].key
  <2> DEFINE k == manifest[i].key
  <2>0. k # None /\ ~Excused(k) /\ k' = k
    BY <1>0, <1>2, <1>7, Given, NoneIsNone
  <2>1. SUFFICES ASSUME docs'[d].origin = k PROVE FALSE
    OBVIOUS
  <2>2. CASE d > made
    <3>1. k \notin late'
      BY <1>7, <2>0 DEF Excused
    <3>2. (Writes \/ Loses) /\ Current \in Items /\ k = manifest[Current].key
      BY <1>7, <2>0, <2>1, <2>2, <3>1, Made
    <3>3. CASE i # Current
      <4>1. k \in Twins
        BY <1>0, <3>2, <3>3, Given DEF Twins
      <4> QED BY <2>0, <4>1 DEF Excused
    <3>4. CASE i = Current
      <4>1. pc' = "execute" /\ it'[i].result \in Result
        BY <3>2, <3>4, Tried DEF Writes, Loses, Attempts, Result
      <4> QED BY <1>7, <4>1, NoneIsNone DEF Lookup
    <3> QED BY <3>3, <3>4
  <2>3. CASE ~(d > made)
    <3>1. docs[d] # None /\ docs[d].origin = k
      BY <1>1, <1>7, <2>1, <2>3
    <3>2. CASE Lookup(i) /\ ~Exists(i)
      BY <1>0, <2>0, <3>1, <3>2 DEF Unique
    <3>3. CASE Matches(k) = {}
      <4>1. docs[d].key = k
        BY <1>0, <2>0, <3>1 DEF Unique, Excused
      <4> QED BY <3>1, <3>3, <4>1 DEF Matches
    <3> QED BY <1>7, <3>2, <3>3, Lookups
  <2> QED BY <2>2, <2>3
<1>8. \A d, e \in Ids : docs'[d] # None /\ docs'[e] # None /\ docs'[d].origin = docs'[e].origin /\ docs'[d].origin # None =>
        d = e \/ Excuses(docs'[d].origin)
  BY <1>6
<1>9. \A i \in Items : Lookup(i)' /\ ~Exists(i)' /\ ~Excused(manifest[i].key)' =>
        \A d \in Ids : docs'[d] # None => docs'[d].origin # manifest[i].key
  BY <1>7
<1>10. \A d, e \in Ids : docs'[d] # None /\ docs'[e] # None /\ docs'[d].origin = docs'[e].origin /\ docs'[d].origin # None =>
         d = e \/ Excused(docs[d].origin)'
  BY <1>0, <1>8 DEF Excused
<1> QED BY <1>0, <1>3, <1>9, <1>10 DEF Unique

-----------------------------------------------------------------------------
(* A run nobody disturbs.                                                   *)

\* What the server holds is changed by the item that is written, and by nothing else.
LEMMA Undisturbed ==
  ASSUME IInv, [Next]_vars, ~Others, NEW d \in Ids, docs[d] # None
  PROVE  /\ docs'[d] # None /\ docs'[d].key = docs[d].key /\ docs'[d].origin = docs[d].origin
         /\ \/ docs'[d] = docs[d]
            \/ LET w == Final(Current)
               IN  /\ Attempts /\ (Writes \/ Loses) /\ w.action = "update" /\ d = it[Current].found
                   /\ UpdatedAs(docs'[d], docs[d], Current, w.mode, w.body)
<1>0. TypeOK /\ Served
  BY DEF IInv
<1>1. docs \in [1 .. MaxDocs -> Doc(manifest) \cup {None}] /\ Ids = 1 .. MaxDocs /\ made \in Nat /\ MaxDocs \in Nat
  BY <1>0, BoundsAssumption DEF TypeOK, Ids
<1>2. d # made + 1
  BY <1>0, <1>1 DEF Served
<1>3. ASSUME NEW x, Adds(x) PROVE docs'[d] = docs[d]
  BY <1>1, <1>2, <1>3 DEF Adds
<1>4. CASE docs' = docs
  BY <1>4
<1>5. CASE Attempts /\ Executes(Current, Final(Current)) /\ (Writes \/ Loses)
  <2> DEFINE w == Final(Current)
  <2>1. w.found = it[Current].found
    BY <1>5, FinalIs
  <2>2. CASE \E x : Adds(x)
    BY <1>3, <2>2
  <2>3. CASE w.action = "update" /\ \E x : Alters(w.found, x) /\ UpdatedAs(x, docs[w.found], Current, w.mode, w.body)
    <3>1. PICK x : Alters(w.found, x) /\ UpdatedAs(x, docs[w.found], Current, w.mode, w.body)
      BY <2>3
    <3>2. CASE d # w.found
      BY <1>1, <3>1, <3>2 DEF Alters
    <3>3. CASE d = w.found
      <4>1. docs'[d] = x /\ x \in Doc(manifest) /\ x.key = docs[d].key /\ x.origin = docs[d].origin
        BY <1>1, <3>1, <3>3 DEF Alters
      <4>2. x # None
        BY <1>0, <4>1, NoneIsNone
      <4> QED BY <1>5, <2>1, <2>3, <3>1, <3>3, <4>1, <4>2
    <3> QED BY <3>2, <3>3
  <2> QED BY <1>5, <2>2, <2>3, Executed
<1>6. CASE ExecutesStray
  BY <1>0, <1>3, <1>6, Strayed
<1> QED BY <1>4, <1>5, <1>6, Evolution

\* An item's document stays its own unless somebody else acts.
LEMMA StandsKeeps ==
  ASSUME IInv, [Next]_vars, ~Others, NEW i \in Items
  PROVE  \A d : Stands(d, i) => Stands(d, i)'
<1>1. manifest' = manifest /\ Ids' = Ids
  <2>1. Evolves /\ TypeOK
    BY Evolution DEF IInv
  <2> QED BY <2>1, Constant DEF Evolves, TypeOK, Ids
<1> QED BY <1>1, Undisturbed DEF Stands

\* Of two items with one document the keys are one.
LEMMA OneKey ==
  ASSUME TypeOK, NEW i \in Items, NEW j \in Items, NEW d, Stands(d, i), Stands(d, j)
  PROVE  manifest[i].key = manifest[j].key
  BY Given DEF Stands, Rewritten

\* The steps that add to what is known of the items.
Adding == it' = it \/ (Plans /\ ~Ends("problem")) \/ Passes \/ Writes \/ Fails \/ Loses

\* The ids an item's references have, once they are there, stay.
LEMMA FoundStays ==
  ASSUME IInv, [Next]_vars, NEW j \in Items, it[j].found # None, Adding
  PROVE  it'[j].found = it[j].found
<1>1. CASE it' = it
  BY <1>1
<1>2. CASE Plans /\ ~Ends("problem")
  BY <1>2, Drawn
<1>3. CASE Passes
  BY <1>3, Passed
<1>4. CASE Writes \/ Fails \/ Loses
  <2>1. CASE j # Current
    BY <1>4, <2>1, Tried
  <2>2. CASE j = Current
    <3>1. Attempts /\ it[j].result = None /\ (Final(j).action = "create" <=> ~Exists(j))
      BY <1>4, <2>2, Tried, FinalIs
    <3>2. Exists(j)
      BY <3>1 DEF IInv, Found, FoundOf
    <3> QED BY <1>4, <2>2, <3>1, <3>2, Tried
  <2> QED BY <2>1, <2>2
<1> QED BY <1>1, <1>2, <1>3, <1>4 DEF Adding

LEMMA ResolvedStays ==
  ASSUME IInv, [Next]_vars, NEW i \in Items, \A j \in manifest[i].links : it[j].found # None,
         Adding
  PROVE  Resolved(i)' = Resolved(i) /\ \A j \in manifest[i].links : it'[j].found # None
<1>1. manifest' = manifest /\ Items' = Items /\ manifest[i].links \subseteq Items
  BY Constant, Same, Given DEF IInv
<1>2. \A j \in manifest[i].links : it'[j].found = it[j].found
  BY <1>1, FoundStays
<1> QED BY <1>1, <1>2 DEF Resolved

\* An item in place stays in place.
LEMMA DoneKeeps ==
  ASSUME IInv, [Next]_vars, ~Others, NEW i \in Items, Done(i), \A j \in Items : it[j].found # None => Stands(it[j].found, j),
         it' = it \/ Passes \/ ((Writes \/ Fails \/ Loses) /\ i # Current)
  PROVE  Done(i)'
<1> DEFINE d == it[i].found
<1>0. TypeOK /\ manifest' = manifest /\ drafts' = drafts /\ Disputed' = Disputed /\ Public(i)' = Public(i)
  <2>1. manifest' = manifest /\ drafts' = drafts /\ Disputed' = Disputed
    BY Constant, Same
  <2> QED BY <2>1 DEF Public, IInv
<1>1. /\ d # None /\ Stands(d, i) /\ docs[d].bodies[i] = Resolved(i) /\ (Public(i) => docs[d].newest = "published")
      /\ d \in Ids /\ docs[d] # None /\ \A j \in manifest[i].links : it[j].found # None
  BY DEF Done, Stands
<1>2. it'[i].found = d /\ Adding
  BY <1>1, FoundStays DEF Adding
<1>3. Resolved(i)' = Resolved(i) /\ \A j \in manifest[i].links : it'[j].found # None
  BY <1>1, <1>2, ResolvedStays
<1>4. docs'[d].bodies[i] = docs[d].bodies[i] /\ (Public(i) => docs'[d].newest = "published")
  <2>1. CASE docs'[d] = docs[d]
    BY <1>1, <2>1
  <2>2. CASE /\ Attempts /\ (Writes \/ Loses) /\ Final(Current).action = "update" /\ d = it[Current].found
             /\ UpdatedAs(docs'[d], docs[d], Current, Final(Current).mode, Final(Current).body)
    <3>1. /\ Current \in Items /\ it[Current].result = None /\ pc = "execute"
          /\ Final(Current).mode = "publish" <=> drafts /\ manifest[Current].status = "published"
      BY <2>2, FinalIs
    <3>2. i # Current
      <4>1. CASE it' = it
        <5>1. it'[Current].result \in Result
          BY <2>2, Tried DEF Result
        <5> QED BY <3>1, <4>1, <5>1, NoneIsNone
      <4>2. CASE Passes
        <5>2. it'[Current].result \in {"unchanged", "not_attempted"} /\ it'[Current].result \notin {"unchanged", "not_attempted"}
          BY <2>2, <4>2, Passed, Tried
        <5> QED BY <5>2
      <4> QED BY <4>1, <4>2
    <3>3. docs[d].bodies \in [Items -> Bodies(manifest) \cup {None}]
      BY <1>0, <1>1, DocsAre, DocIs
    <3>4. docs'[d].bodies[i] = docs[d].bodies[i]
      BY <2>2, <3>1, <3>2, <3>3 DEF UpdatedAs
    <3>5. ASSUME Public(i) PROVE Final(Current).mode = "publish"
      <4>1. manifest[i].key = manifest[Current].key
        BY <1>0, <1>1, <2>2, <3>1, OneKey
      <4>2. manifest[i].status = manifest[Current].status
        BY <3>1, <3>5, <4>1 DEF Public, Disputed
      <4> QED BY <3>1, <3>5, <4>2 DEF Public
    <3> QED BY <2>2, <3>4, <3>5 DEF UpdatedAs
  <2> QED BY <1>1, <2>1, <2>2, Undisturbed
<1> QED BY <1>0, <1>1, <1>2, <1>3, <1>4 DEF Done

LEMMA CalmNext == IInv /\ [Next]_vars => Calm'
<1> SUFFICES ASSUME IInv, [Next]_vars, calm' PROVE Calm'
  BY DEF Calm
<1>0. /\ TypeOK /\ Served /\ Found /\ Planned /\ Attempted /\ Calm
      /\ manifest' = manifest /\ Items' = Items /\ drafts' = drafts
  BY Constant, Same DEF IInv
<1>1. CASE \E o \in {"problem", "planned", "declined", "killed"} : Ends(o)
  <2>1. pc' = "idle" /\ outcome' # "ok"
    BY <1>1, Ended
  <2> QED BY <2>1 DEF Calm
<1>2. CASE Start /\ ~Ends("problem")
  <2>1. pc' = "read" /\ \A i \in Items : it'[i].found = None /\ it'[i].current = None
    BY <1>2, Started
  <2> QED BY <1>0, <2>1 DEF Calm, Exists
<1>3. ~Others
  BY DEF Others
<1>4. ASSUME ~Start, ~\E o \in {"problem", "planned", "declined", "killed"} : Ends(o) PROVE calm
  BY <1>4, <1>3, Steps DEF Still, Reports, Over, ExecutesStray, Cancels, Confirms, Plans, Reads, Passes, Writes, Fails, Loses, vars
<1>5. ASSUME NEW i \in Items PROVE \A d : Stands(d, i) => Stands(d, i)'
  BY <1>3, StandsKeeps
<1>6. CASE Still /\ ~Start /\ ~\E o \in {"problem", "planned", "declined", "killed"} : Ends(o)
  <2>1. it' = it /\ calm
    BY <1>4, <1>6, StillIs
  <2>2. \/ pc' = pc /\ outcome' = outcome
        \/ pc = "planned" /\ pc' = "execute"
        \/ Reports
    <3>1. CASE ExecutesStray \/ Cancels \/ UNCHANGED vars
      BY <3>1 DEF ExecutesStray, Cancels, vars
    <3>2. CASE Confirms /\ pc' = "execute"
      BY <3>2 DEF Confirms
    <3> QED BY <1>3, <1>6, <3>1, <3>2 DEF Still
  <2>3. CASE Reports
    <3>1. pc = "execute" /\ pc' = "idle" /\ docs' = docs /\ outcome' = Verdict /\ at > Len(order)
      BY <2>3 DEF Reports, Over, server
    <3>2. SUFFICES ASSUME Verdict = "ok" PROVE Calm'
      BY <3>1 DEF Calm
    <3>3. \A i \in Items : it[i].result \notin {"failed", "not_attempted"}
      <4>1. Complete
        BY <3>2 DEF Verdict
      <4> QED BY <4>1 DEF Complete, Results
    <3>4. \A i \in Items : it[i].result # None
      <4>1. \A n \in DOMAIN order : n < at
        BY <1>0, <3>1 DEF TypeOK
      <4> QED BY <1>0, <3>1, <4>1 DEF Attempted, Planned
    <3>5. \A i \in Items : it[i].result \in {"created", "updated", "unchanged"}
      BY <1>0, <3>3, <3>4, ItemIs DEF Result
    <3>6. \A i \in Items : Done(i)
      BY <1>0, <2>1, <3>1, <3>5 DEF Calm, Attempted
    <3>7. \A i \in Items : Done(i)'
      <4>1. ASSUME NEW i \in Items PROVE Done(i)'
        <5>1. Resolved(i)' = Resolved(i) /\ Public(i)' = Public(i)
          <6>1. manifest' = manifest /\ Disputed' = Disputed
            BY <1>0, Same
          <6> QED BY <1>0, <2>1, <6>1 DEF Resolved, Public
        <5> QED BY <1>0, <2>1, <3>1, <3>6, <5>1 DEF Done
      <4> QED BY <4>1
    <3>8. \A i \in Items : it[i].found # None => Stands(it[i].found, i)'
      BY <1>0, <1>5, <2>1, <3>1 DEF Calm
    <3> QED BY <1>0, <2>1, <3>1, <3>7, <3>8 DEF Calm
  <2>4. CASE ~Reports
    <3>0. pc' # "idle" \/ outcome' = "ok" => pc # "idle" \/ outcome = "ok"
      BY <2>2, <2>4
    <3>1. pc' # "idle" \/ outcome' = "ok" => \A i \in Items : it[i].found # None => Stands(it[i].found, i)
      BY <1>0, <2>1, <3>0 DEF Calm
    <3>2. pc' # "idle" \/ outcome' = "ok" => \A i \in Items : it[i].found # None => Stands(it[i].found, i)'
      BY <1>5, <2>1, <3>1
    <3>3. pc' \in {"read", "planned"} => \A i \in Items : Exists(i) => it[i].current = docs'[it[i].found]
      <4>1. SUFFICES ASSUME pc' \in {"read", "planned"}, NEW i \in Items, Exists(i) PROVE it[i].current = docs'[it[i].found]
        OBVIOUS
      <4>2. it[i].current = docs[it[i].found] /\ Stands(it[i].found, i) /\ pc # "execute"
        BY <1>0, <2>1, <2>2, <2>4, <3>1, <4>1 DEF Calm, Found, FoundOf
      <4>3. ~Attempts
        BY <4>2 DEF Attempts
      <4> QED BY <1>3, <4>2, <4>3, Undisturbed DEF Stands
    <3>4. ASSUME NEW i \in Items, Done(i), pc' # "idle" \/ outcome' = "ok" PROVE Done(i)'
      BY <1>3, <2>1, <3>1, <3>4, DoneKeeps
    <3>5. pc' \in {"planned", "execute"} => pc \in {"planned", "execute"}
      BY <2>2, <2>4
    <3>6. pc' = "idle" => pc = "idle" /\ outcome' = outcome
      BY <2>2, <2>4
    <3> QED BY <1>0, <2>1, <3>2, <3>3, <3>4, <3>5, <3>6 DEF Calm, Exists
  <2> QED BY <2>3, <2>4
<1>7. CASE Plans /\ ~Ends("problem")
  <2>1. /\ calm /\ docs' = docs /\ pc = "read" /\ pc' = "planned"
        /\ \A i \in Items : it'[i] = Decided(i) /\ it'[i].found = it[i].found /\ it'[i].current = it[i].current
                            /\ it'[i].result = it[i].result
    BY <1>7, Drawn DEF Plans, server
  <2>2. \A i \in Items : it[i].result = None /\ (it[i].found # None => Stands(it[i].found, i))
                         /\ (Exists(i) => it[i].current = docs[it[i].found])
    BY <1>0, <2>1 DEF Calm, Found, FoundOf
  <2>3. ASSUME NEW i \in Items, it'[i].action = "unchanged" PROVE Done(i)'
    <3>1. InPlace(i) /\ Exists(i)
      BY <1>0, <2>1, <2>3, DecidedIs
    <3> DEFINE d == it[i].found
    <3>2. d # None /\ Stands(d, i) /\ it[i].current = docs[d] /\ docs[d].bodies[i] = Resolved(i)
      BY <1>0, <2>2, <3>1 DEF InPlace, Found, FoundOf
    <3>3. Resolved(i) # None /\ d \in Ids /\ docs[d] # None
      BY <1>0, <3>2, ResolvedIs, NoneIsNone DEF Stands
    <3>4. \A j \in manifest[i].links : it[j].found # None
      <4>1. ASSUME NEW j \in manifest[i].links, it[j].found = None PROVE FALSE
        <5>1. j \in Items /\ Resolved(i)[j] = 0
          BY <1>0, <4>1, Given, ResolvedIs
        <5>2. Naming(Resolved(i)[j], j)
          BY <1>0, <3>2, <3>3, <4>1 DEF Served, Names
        <5> QED BY <1>0, <5>1, <5>2, BoundsAssumption DEF Naming, TypeOK, Ids
      <4> QED BY <4>1
    <3>5. Resolved(i)' = Resolved(i) /\ \A j \in manifest[i].links : it'[j].found # None
      BY <1>7, <3>4, ResolvedStays DEF Adding
    <3>6. Public(i)' = Public(i) /\ (Public(i) => docs[d].newest = "published")
      <4>1. Disputed' = Disputed
        BY <1>0, Same
      <4>2. Public(i) => Mode(i) = "publish"
        BY <1>0, ModeIs DEF Public
      <4> QED BY <1>0, <3>1, <3>2, <4>1, <4>2 DEF Public, InPlace
    <3> QED BY <1>0, <2>1, <3>2, <3>5, <3>6 DEF Done
  <2>4. \A i \in Items : it'[i].result \notin {"created", "updated"}
    BY <2>1, <2>2, NoneIsNone DEF Result
  <2> QED BY <1>0, <1>5, <2>1, <2>2, <2>3, <2>4 DEF Calm, Exists
<1>8. CASE Reads
  <2>1. calm /\ docs' = docs /\ pc = "read" /\ pc' = "read"
    BY <1>8 DEF Reads, server
  <2>2. ASSUME NEW i \in Items
        PROVE  /\ it'[i].found # None => Stands(it'[i].found, i)
               /\ it'[i].current # None => it'[i].current = docs[it'[i].found]
    <3>1. CASE it'[i].found = it[i].found /\ it'[i].current = it[i].current
      BY <1>0, <2>1, <3>1 DEF Calm, Exists
    <3>2. CASE /\ i = at /\ Matches(manifest[at].key) = {it'[at].found}
               /\ it'[at].found \in Ids /\ it'[at].current = docs[it'[at].found]
      <4>1. it'[i].found \in Matches(manifest[i].key)
        BY <3>2
      <4> QED BY <3>2, <4>1 DEF Matches, Stands
    <3> QED BY <1>8, <3>1, <3>2, Looked
  <2> QED BY <1>0, <1>5, <2>1, <2>2 DEF Calm, Exists
<1>9. CASE Passes \/ Writes \/ Fails \/ Loses
  <2>1. calm /\ pc = "execute" /\ pc' = "execute"
    BY <1>9 DEF Passes, Writes, Fails, Loses, Attempts
  <2>2. \A j \in Items : it[j].found # None => Stands(it[j].found, j)
    BY <1>0, <2>1 DEF Calm
  <2>3. \A i \in Items : it[i].action = "unchanged" \/ it[i].result \in {"created", "updated"} => Done(i)
    BY <1>0, <2>1 DEF Calm
  <2>4. CASE Passes
    <3>1. ASSUME NEW i \in Items, it'[i].action = "unchanged" \/ it'[i].result \in {"created", "updated"} PROVE Done(i)'
      <4>1. it[i].action = "unchanged" \/ it[i].result \in {"created", "updated"}
        BY <2>4, <3>1, Passed
      <4> QED BY <1>3, <2>2, <2>3, <2>4, <4>1, DoneKeeps
    <3>2. \A i \in Items : it'[i].found = it[i].found
      BY <2>4, Passed
    <3> QED BY <1>0, <1>5, <2>1, <2>2, <3>1, <3>2 DEF Calm
  <2>5. CASE Writes \/ Fails \/ Loses
    <3>0. PICK c \in Items : c = Current
      BY <2>5, Tried
    <3> DEFINE w == Final(c)
    <3>1. /\ c \in Items /\ Attempts /\ w.action \in {"create", "update"} /\ (w.action = "create" <=> ~Exists(c))
          /\ it[c].result = None /\ w.found = it[c].found /\ w.body = Resolved(c) /\ w.body \in Bodies(manifest)
          /\ (w.mode = "publish" <=> drafts /\ manifest[c].status = "published")
          /\ \A j \in manifest[c].links : it[j].found # None
      BY <2>5, <3>0, Tried, FinalIs
    <3>2. /\ \A j \in Items : j # c => it'[j] = it[j]
          /\ it'[c].action = w.action
          /\ Writes => it'[c].found = IF w.action = "create" THEN made + 1 ELSE it[c].found
          /\ ~Writes => it'[c].found = it[c].found /\ it'[c].result = "failed"
      BY <2>5, <3>0, Tried
    <3>3. \A i \in Items : i # c /\ Done(i) => Done(i)'
      BY <1>3, <2>2, <2>5, <3>0, DoneKeeps
    <3> HIDE DEF w
    <3>4. CASE ~Writes
      <4>1. \A i \in Items : it'[i].found = it[i].found
        BY <3>1, <3>2, <3>4
      <4>2. it'[c].action # "unchanged" /\ it'[c].result \notin {"created", "updated"}
        BY <3>1, <3>2, <3>4
      <4>3. \A i \in Items : it'[i].action = "unchanged" \/ it'[i].result \in {"created", "updated"} => Done(i)'
        BY <2>3, <3>2, <3>3, <4>2
      <4> QED BY <1>0, <1>5, <2>1, <2>2, <4>1, <4>3 DEF Calm
    <3>5. CASE Writes
      <4>0. docs \in [1 .. MaxDocs -> Doc(manifest) \cup {None}] /\ made \in Nat /\ MaxDocs \in Nat /\ Ids = 1 .. MaxDocs
        BY <1>0, BoundsAssumption DEF TypeOK, Ids
      <4>1. Resolved(c)' = Resolved(c) /\ \A j \in manifest[c].links : it'[j].found # None
        BY <2>5, <3>1, ResolvedStays DEF Adding
      <4>2. Public(c)' = Public(c) /\ (Public(c) => w.mode = "publish")
        <5>1. Disputed' = Disputed
          BY <1>0, Same
        <5> QED BY <1>0, <3>1, <5>1 DEF Public
      <4>d. PICK d : d = it'[c].found
        OBVIOUS
      <4>3. CASE w.action = "create"
        <5>1. PICK x : Adds(x) /\ CreatedAs(x, c, w.mode, w.body)
          BY <3>0, <3>1, <3>5, <4>3, Executed DEF Writes, w
        <5>2. d = made + 1 /\ docs'[d] = x /\ x # None /\ d \in Ids' /\ d # None
          <6>1. d = made + 1 /\ made + 1 \in 1 .. MaxDocs /\ docs'[made + 1] = x
            BY <3>2, <3>5, <4>0, <4>d, <4>3, <5>1 DEF Adds
          <6>2. x # None /\ made + 1 # None
            BY <1>0, <4>0, <5>1, NoneIsNone DEF Adds
          <6>3. Ids' = 1 .. MaxDocs
            BY <4>0, <5>1 DEF Adds, Ids
          <6> QED BY <6>1, <6>2, <6>3
        <5>3. Stands(d, c)'
          BY <1>0, <3>1, <5>1, <5>2, Given DEF Stands, CreatedAs
        <5>4. Done(c)'
          BY <1>0, <3>1, <4>1, <4>2, <4>d, <5>1, <5>2 DEF Done, CreatedAs
        <5> QED BY <1>0, <1>5, <2>1, <2>2, <2>3, <3>2, <3>3, <4>d, <5>3, <5>4 DEF Calm
      <4>4. CASE w.action = "update"
        <5>1. PICK x : Alters(w.found, x) /\ UpdatedAs(x, docs[w.found], c, w.mode, w.body)
          BY <3>0, <3>1, <3>5, <4>4, Executed DEF Writes, w
        <5>2. d = w.found /\ d \in Ids /\ docs[d] # None
          BY <3>1, <3>2, <3>5, <4>d, <4>4, <5>1 DEF Alters
        <5>3. docs'[d] = x /\ docs[d].bodies \in [Items -> Bodies(manifest) \cup {None}]
          <6>1. docs'[w.found] = x
            BY <4>0, <5>1 DEF Alters
          <6> QED BY <1>0, <5>2, <6>1, DocsAre, DocIs
        <5>4. d # None
          BY <4>0, <5>2, NoneIsNone
        <5>5. Stands(d, c)'
          BY <1>5, <2>2, <3>1, <5>2, <5>4
        <5>6. Done(c)'
          BY <1>0, <3>1, <4>1, <4>2, <4>d, <5>1, <5>2, <5>3, <5>4 DEF Done, UpdatedAs
        <5> QED BY <1>0, <1>5, <2>1, <2>2, <2>3, <3>2, <3>3, <4>d, <5>5, <5>6 DEF Calm
      <4> QED BY <3>1, <4>3, <4>4
    <3> QED BY <3>4, <3>5
  <2> QED BY <1>9, <2>4, <2>5
<1> QED BY <1>1, <1>2, <1>3, <1>6, <1>7, <1>8, <1>9, Steps

-----------------------------------------------------------------------------
(* The run after one that left everything in place.                         *)

Faithful == \A d \in Ids : docs[d] # None => docs[d].key # Rewritten

\* A run that finds everything in place reads it so, and plans no write of it.
LEMMA SettledNext == IInv /\ [Next]_vars => Settled'
<1> SUFFICES ASSUME IInv, [Next]_vars, settled', pc' # "execute", Faithful'
             PROVE  (\E fn \in [Items -> Ids] : \A i \in Items : InPlaceAs(fn, i))'
  BY DEF Settled, Faithful
<1>0. /\ TypeOK /\ Settled /\ Found /\ manifest' = manifest /\ drafts' = drafts /\ Items' = Items /\ Ids' = Ids
      /\ Disputed' = Disputed /\ Ids \subseteq Nat
  <2>1. Evolves /\ TypeOK /\ MaxDocs \in Nat
    BY Evolution, BoundsAssumption DEF IInv
  <2>2. Ids' = Ids /\ Ids \subseteq Nat
    BY <2>1 DEF Evolves, TypeOK, Ids
  <2> QED BY <2>2, Constant, Same DEF IInv
<1>p. \A i \in Items : Public(i)' = Public(i)
  BY <1>0 DEF Public
<1>1. ASSUME NEW o, Ends(o), o # "ok" PROVE FALSE
  BY <1>1, Ended
<1>2. CASE Reports
  <2>1. pc' = "idle" /\ outcome' = "ok" /\ calm' /\ it' = it /\ docs' = docs
    BY <1>2 DEF Reports, Over, plan, server
  <2>2. \A i \in Items : Done(i)' /\ (it[i].found # None => Stands(it[i].found, i)')
    BY <1>0, <2>1, CalmNext DEF Calm
  <2>3. \A i \in Items : it[i].found # None
    BY <1>0, <2>1, <2>2 DEF Done
  <2>4. PICK fn : fn = [i \in Items |-> it[i].found]
    OBVIOUS
  <2>5. fn \in [Items -> Ids]
    <3>1. \A i \in Items : it[i].found \in Ids
      BY <1>0, <2>1, <2>2, <2>3 DEF Stands
    <3> QED BY <2>4, <3>1
  <2>6. ASSUME NEW i \in Items PROVE InPlaceAs(fn, i)'
    <3>1. fn[i] \in Ids /\ docs[fn[i]] # None /\ docs[fn[i]].key = manifest[i].key
      BY <1>0, <2>1, <2>2, <2>3, <2>4 DEF Stands, Faithful
    <3>2. docs[fn[i]].bodies[i] = Resolved(i)' /\ (Public(i) => docs[fn[i]].newest = "published")
      BY <1>0, <1>p, <2>1, <2>2, <2>4 DEF Done
    <3>3. Resolved(i)' = [j \in Items |-> IF j \in manifest[i].links THEN fn[j] ELSE None]
      <4>1. Resolved(i)' = [j \in Items |-> IF j \notin manifest[i].links THEN None
                                           ELSE IF it[j].found = None THEN Placeholder ELSE it[j].found]
        BY <1>0, <2>1 DEF Resolved
      <4> QED BY <2>3, <2>4, <4>1
    <3> QED BY <1>0, <1>p, <2>1, <3>1, <3>2, <3>3 DEF InPlaceAs
  <2> QED BY <1>0, <2>5, <2>6
<1>3. CASE (Start /\ ~Ends("problem")) \/ Reads \/ (Plans /\ ~Ends("problem")) \/ Cancels \/ UNCHANGED vars
  <2>1. docs' = docs /\ settled /\ pc # "execute"
    <3>1. CASE Start /\ ~Ends("problem")
      BY <3>1, Started DEF Start, server
    <3>2. CASE Reads
      BY <3>2 DEF Reads, server
    <3>3. CASE Plans /\ ~Ends("problem")
      BY <3>3, Drawn DEF Plans, server
    <3>4. CASE Cancels \/ UNCHANGED vars
      BY <3>4 DEF Cancels, server, vars
    <3> QED BY <1>3, <3>1, <3>2, <3>3, <3>4
  <2>2. PICK fn \in [Items -> Ids] : \A i \in Items : InPlaceAs(fn, i)
    BY <1>0, <2>1 DEF Settled, Faithful
  <2>3. \A i \in Items : /\ fn[i] \in Ids /\ docs[fn[i]] # None /\ docs[fn[i]].key = manifest[i].key
                         /\ docs[fn[i]].bodies[i] = [j \in Items |-> IF j \in manifest[i].links THEN fn[j] ELSE None]
                         /\ Public(i) => docs[fn[i]].newest = "published"
    BY <2>2 DEF InPlaceAs
  <2>4. ASSUME NEW i \in Items
        PROVE  /\ pc' = "read" /\ ~Broken' /\ i < at' => it'[i].found = fn[i] /\ it'[i].current = docs[fn[i]]
               /\ pc' = "planned" => i \in Disputed \/ it'[i].action = "unchanged"
    <3>1. CASE Start /\ ~Ends("problem")
      BY <1>0, <3>1, Started, Given
    <3>2. CASE Reads
      <4>0. pc = "read" /\ pc' = "read" /\ at' = at + 1 /\ at \in Items
        BY <3>2 DEF Reads
      <4>1. SUFFICES ASSUME ~Broken', i < at' PROVE it'[i].found = fn[i] /\ it'[i].current = docs[fn[i]]
        BY <4>0
      <4>2. \A j \in Items : ~it'[j].err
        BY <1>0, <4>1 DEF Broken
      <4>3. ~Broken
        BY <3>2, <4>2, Looked DEF Broken
      <4>4. CASE i # at
        <5>1. i < at /\ it'[i] = it[i]
          BY <1>0, <3>2, <4>0, <4>1, <4>4, Given, Looked
        <5> QED BY <2>2, <4>0, <4>3, <5>1 DEF InPlaceAs
      <4>5. CASE i = at
        <5>1. fn[i] \in Matches(manifest[i].key)
          BY <2>3 DEF Matches
        <5>2. Matches(manifest[at].key) = {it'[at].found} /\ it'[at].current = docs[it'[at].found]
          BY <3>2, <4>0, <4>2, <4>3, <4>5, <5>1, Looked
        <5> QED BY <4>5, <5>1, <5>2
      <4> QED BY <4>4, <4>5
    <3>3. CASE Plans /\ ~Ends("problem")
      <4>0. pc = "read" /\ pc' = "planned" /\ at > Len(manifest) /\ ~Broken /\ it'[i] = Decided(i)
        BY <3>3, Drawn
      <4>1. \A j \in Items : j < at
        BY <1>0, <4>0, Given DEF TypeOK
      <4>2. \A j \in Items : it[j].found = fn[j] /\ it[j].current = docs[fn[j]]
        BY <2>2, <4>0, <4>1 DEF InPlaceAs
      <4>3. SUFFICES ASSUME i \notin Disputed PROVE InPlace(i) /\ Exists(i)
        BY <1>0, <4>0, DecidedIs
      <4>4. Exists(i)
        BY <2>3, <4>2 DEF Exists
      <4>5. \A j \in Items : it[j].found # None
        BY <1>0, <2>3, <4>2, NoneIsNone
      <4>6. Resolved(i) = [j \in Items |-> IF j \in manifest[i].links THEN fn[j] ELSE None]
        <5>1. Resolved(i) = [j \in Items |-> IF j \notin manifest[i].links THEN None ELSE it[j].found]
          BY <4>5 DEF Resolved
        <5> QED BY <4>2, <5>1
      <4>7. Mode(i) = "publish" => Public(i)
        BY <1>0, <4>3, ModeIs DEF Public
      <4> QED BY <2>3, <4>2, <4>4, <4>6, <4>7 DEF InPlace
    <3>4. CASE Cancels \/ UNCHANGED vars
      <4>1. pc' = pc /\ at' = at /\ it' = it
        BY <3>4 DEF Cancels, plan, vars
      <4>2. Broken' = Broken
        BY <1>0, <4>1 DEF Broken
      <4> QED BY <2>2, <4>1, <4>2 DEF InPlaceAs
    <3> QED BY <1>3, <3>1, <3>2, <3>3, <3>4
  <2>5. \A i \in Items : InPlaceAs(fn, i)'
    BY <1>0, <1>p, <2>1, <2>3, <2>4 DEF InPlaceAs
  <2> QED BY <1>0, <2>2, <2>5
<1>4. CASE Others \/ ExecutesStray
  BY <1>4 DEF Others, ExecutesStray
<1>5. CASE Passes \/ Writes \/ Fails \/ Loses
  BY <1>5 DEF Passes, Writes, Fails, Loses, Attempts
<1> QED BY <1>1, <1>2, <1>3, <1>4, <1>5, Steps DEF Still

-----------------------------------------------------------------------------
(* What the run wrote.                                                      *)

\* A write without an answer is a failure the run is unsure of.
LEMMA Lost ==
  ASSUME IInv, Loses
  PROVE  it'[Current].result = "failed" /\ it'[Current].unsure = TRUE
<1> DEFINE i == Current
           w == Final(i)
<1>1. i \in Items /\ w \in PlanItem(manifest)
  BY FinalIs DEF Loses
<1>2. it \in [Items -> PlanItem(manifest)]
  BY DEF IInv, TypeOK
<1> HIDE DEF i, w
<1>3. it' = [it EXCEPT ![i] = [w EXCEPT !.result = "failed", !.unsure = TRUE]]
  BY DEF Loses, i, w
<1>4. it'[i] = [w EXCEPT !.result = "failed", !.unsure = TRUE]
  BY <1>1, <1>2, <1>3
<1>5. it'[i].result = "failed" /\ it'[i].unsure = TRUE
  BY <1>1, <1>4 DEF PlanItem
<1> QED BY <1>5 DEF i

LEMMA Failed ==
  ASSUME IInv, Fails
  PROVE  it'[Current].result = "failed"
<1> DEFINE i == Current
           w == Final(i)
<1>1. i \in Items /\ w \in PlanItem(manifest)
  BY FinalIs DEF Fails
<1>2. it \in [Items -> PlanItem(manifest)]
  BY DEF IInv, TypeOK
<1> HIDE DEF i, w
<1>3. it' = [it EXCEPT ![i] = [w EXCEPT !.result = "failed"]]
  BY DEF Fails, i, w
<1>4. it'[i] = [w EXCEPT !.result = "failed"]
  BY <1>1, <1>2, <1>3
<1> QED BY <1>1, <1>4 DEF PlanItem, i

\* The results of the items cover what was written.
LEMMA WroteNext == IInv /\ [Next]_vars => Wrote'
<1> SUFFICES ASSUME IInv, [Next]_vars PROVE Wrote'
  OBVIOUS
<1>0. TypeOK /\ Found /\ Wrote /\ Attempted /\ manifest' = manifest /\ Items' = Items
  BY Constant, Same DEF IInv
<1>1. CASE Start
  <2>1. wrote' = {} /\ \A i \in Items : it'[i].result = None
    BY <1>1, Started, Ended DEF Start
  <2> QED BY <1>0, <2>1, NoneIsNone DEF Wrote, Result
<1>2. CASE Crashes
  <2>1. pc' = "idle" /\ outcome' = "killed" /\ \A i \in Items : it'[i].result = None
    BY <1>2, Ended DEF Crashes
  <2> QED BY <1>0, <2>1, NoneIsNone DEF Wrote, Result
<1>3. CASE Plans
  <2>1. wrote' = wrote /\ wrote = {}
    BY <1>0, <1>3 DEF Plans, Wrote
  <2>2. \A i \in Items : it'[i].result = None
    <3>1. \A i \in Items : it[i].result = None
      BY <1>0, <1>3 DEF Plans, Found, FoundOf
    <3>2. CASE Ends("problem")
      BY <3>2, Ended
    <3>3. CASE ~Ends("problem")
      BY <1>3, <3>1, <3>3, Drawn
    <3> QED BY <3>2, <3>3
  <2> QED BY <1>0, <2>1, <2>2, NoneIsNone DEF Wrote, Result
<1>4. CASE Confirms
  <2>1. wrote' = wrote /\ wrote = {}
    BY <1>0, <1>4 DEF Confirms, Wrote
  <2>2. \A i \in Items : it'[i].result = None
    <3>1. \A i \in Items : it[i].result = None
      BY <1>0, <1>4 DEF Confirms, Found, FoundOf
    <3>2. (\E o : Ends(o)) \/ it' = it
      BY <1>4 DEF Confirms, plan
    <3> QED BY <3>1, <3>2, Ended
  <2> QED BY <1>0, <2>1, <2>2, NoneIsNone DEF Wrote, Result
<1>5. CASE Reads
  <2>1. wrote' = wrote /\ wrote = {} /\ pc' = "read"
    BY <1>0, <1>5 DEF Reads, Wrote
  <2>2. \A i \in Items : it'[i].result = None
    BY <1>0, <1>5, Looked DEF Found, FoundOf
  <2> QED BY <1>0, <2>1, <2>2, NoneIsNone DEF Wrote, Result
<1>6. CASE Passes
  <2>1. wrote' = wrote /\ pc = "execute" /\ pc' = "execute"
    BY <1>6 DEF Passes
  <2>2. /\ Current \in Items /\ Current \notin wrote /\ it'[Current].result \notin {"created", "updated"}
        /\ \A j \in Items : j # Current => it'[j] = it[j]
    <3>1. /\ it[Current].result = None /\ it'[Current].result \in {"unchanged", "not_attempted"} /\ Current \in Items
          /\ \A j \in Items : j # Current => it'[j] = it[j]
      BY <1>6, Passed
    <3>2. Current \notin wrote
      BY <1>0, <2>1, <3>1, NoneIsNone DEF Wrote, Found, FoundOf, Result
    <3> QED BY <3>1, <3>2
  <2>3. wrote \subseteq Items
    BY <1>0 DEF TypeOK
  <2> QED BY <1>0, <2>1, <2>2, <2>3 DEF Wrote
<1>7. CASE Writes \/ Fails \/ Loses
  <2>0. PICK c \in Items : c = Current
    BY <1>7, Tried
  <2>1. /\ pc = "execute" /\ pc' = "execute" /\ it[c].result = None /\ it[c].unsure = FALSE
        /\ \A j \in Items : j # c => it'[j] = it[j]
    <3>1. pc = "execute" /\ it[c].result = None /\ \A j \in Items : j # c => it'[j] = it[j]
      BY <1>7, <2>0, Tried, FinalIs
    <3>2. pc' = pc /\ (it[c].unsure => it[c].result = "failed") /\ it[c].unsure \in BOOLEAN
      BY <1>0, <1>7, ItemIs DEF Writes, Fails, Loses, Found, FoundOf
    <3> QED BY <3>1, <3>2, NoneIsNone DEF Result
  <2>2. c \notin wrote /\ wrote \subseteq Items
    BY <1>0, <2>1, NoneIsNone DEF Wrote, Result, TypeOK
  <2>3. CASE Writes
    <3>1. wrote' = wrote \cup {c} /\ it'[c].result \in {"created", "updated"}
      BY <2>0, <2>3, Tried DEF Writes, Executes
    <3> QED BY <1>0, <2>1, <2>2, <3>1 DEF Wrote
  <2>4. CASE Fails
    <3>1. wrote' = wrote /\ it'[c].result = "failed"
      BY <2>0, <2>4, Failed DEF Fails, told
    <3> QED BY <1>0, <2>1, <2>2, <3>1 DEF Wrote
  <2>5. CASE Loses
    <3>1. it'[c].result = "failed" /\ it'[c].unsure = TRUE
      BY <2>0, <2>5, Lost
    <3>2. wrote' = wrote \/ wrote' = wrote \cup {c}
      BY <2>0, <2>5 DEF Loses, Executes
    <3> QED BY <1>0, <2>1, <2>2, <3>1, <3>2 DEF Wrote
  <2> QED BY <1>7, <2>3, <2>4, <2>5
<1>8. CASE Reports
  <2>1. pc = "execute" /\ pc' = "idle" /\ it' = it /\ wrote' = wrote /\ outcome' = Verdict
    BY <1>8 DEF Reports, Over, plan
  <2>2. \A i \in wrote : i \in Items /\ (it[i].result \in {"created", "updated"} \/ it[i].unsure)
    BY <1>0, <2>1 DEF Wrote, TypeOK
  <2>3. \A i \in wrote : it[i].unsure => it[i].result = "failed"
    BY <1>0, <2>2 DEF Found, FoundOf
  <2>4. ASSUME Verdict \in {"nothing", "interrupted", "planned", "declined", "problem"}, NEW i \in wrote PROVE FALSE
    <3>1. ~Some /\ (Results("failed") = {} \/ \A j \in Results("failed") : ~it[j].unsure)
      BY <2>4 DEF Verdict
    <3>2. it[i].result \notin {"created", "updated"}
      BY <2>2, <3>1 DEF Some, Results
    <3>3. i \in Results("failed") /\ it[i].unsure
      BY <2>2, <2>3, <3>2 DEF Results
    <3> QED BY <3>1, <3>3
  <2> QED BY <1>0, <2>1, <2>2, <2>4 DEF Wrote
<1>9. CASE Others \/ ExecutesStray \/ Cancels \/ UNCHANGED vars
  BY <1>0, <1>9 DEF Others, ExecutesStray, Cancels, plan, vars, Wrote
<1> QED BY <1>1, <1>2, <1>3, <1>4, <1>5, <1>6, <1>7, <1>8, <1>9 DEF Next, Step

-----------------------------------------------------------------------------
(* The theorems.                                                            *)

LEMMA InitOK == Init => IInv
<1> SUFFICES ASSUME Init PROVE IInv
  OBVIOUS
<1>0. /\ manifest \in Manifests /\ hooked \in Hooks /\ drafts \in BOOLEAN
      /\ pc = "idle" /\ at = 0 /\ failFast = FALSE /\ cancelled = FALSE
      /\ it = [i \in Items |-> Unplanned] /\ order = <<>> /\ outcome = None /\ stray = None
      /\ runs = 0 /\ edits = 0 /\ calm = TRUE /\ settled = FALSE
      /\ warned = {} /\ unanswered = {} /\ late = {} /\ wrote = {}
  BY DEF Init
<1>1. PICK n \in 0 .. MaxDocs : \E keys \in [1 .. n -> Keys], status \in {"published", "draft"} :
        /\ made = Len(keys)
        /\ docs = [d \in 1 .. MaxDocs |->
                     IF d <= made THEN Fresh(keys[d], IF drafts THEN status ELSE "none") ELSE None]
  BY <1>0 DEF Init
<1>a. PICK keys \in [1 .. n -> Keys], status \in {"published", "draft"} :
        /\ made = Len(keys)
        /\ docs = [d \in 1 .. MaxDocs |->
                     IF d <= made THEN Fresh(keys[d], IF drafts THEN status ELSE "none") ELSE None]
  BY <1>1
<1>2. made = n /\ made \in Nat /\ MaxDocs \in Nat /\ made \in 0 .. MaxDocs
  BY <1>a, BoundsAssumption
<1>3. /\ \A i \in Items : manifest[i].key \in Nat
      /\ \A k \in Keys : k \in Nat
  BY <1>0, ManifestsAssumption DEF Items, Keys
<1>4. ASSUME NEW d \in 1 .. MaxDocs
      PROVE  docs[d] = None \/ (/\ d <= made /\ docs[d] \in Doc(manifest) /\ docs[d].origin = None
                                /\ \A i \in Items : docs[d].bodies[i] = None)
  <2>1. CASE d <= made
    <3>1. keys[d] \in Keys
      BY <1>a, <1>2, <2>1
    <3>2. docs[d] = Fresh(keys[d], IF drafts THEN status ELSE "none")
      BY <1>a, <2>1
    <3> DEFINE st == IF drafts THEN status ELSE "none"
    <3>3. st \in Status
      BY DEF Status
    <3> HIDE DEF st
    <3>4. Fresh(keys[d], st) \in Doc(manifest) /\ Fresh(keys[d], st).origin = None
          /\ \A i \in Items : Fresh(keys[d], st).bodies[i] = None
      BY <1>3, <3>1, <3>3 DEF Fresh, Doc, Items
    <3> QED BY <2>1, <3>2, <3>4 DEF st
  <2>2. CASE ~(d <= made)
    BY <1>a, <2>2
  <2> QED BY <2>1, <2>2
<1>5. docs \in [1 .. MaxDocs -> Doc(manifest) \cup {None}] /\ Ids = 1 .. MaxDocs
  BY <1>a, <1>4 DEF Ids
<1>6. TypeOK
  <2>1. it \in [Items -> PlanItem(manifest)]
    BY <1>0, UnplannedIs
  <2>2. order \in Seq(Items)
    BY <1>0
  <2> QED BY <1>0, <1>2, <1>5, <2>1, <2>2 DEF TypeOK
<1>7. Served
  BY <1>0, <1>a, <1>2, <1>4, <1>5 DEF Served
<1>8. \A i \in Items : it[i].found = None /\ it[i].current = None /\ it[i].result = None /\ it[i].unsure = FALSE
  BY <1>0 DEF Unplanned
<1>9. Found
  BY <1>8, NoneIsNone DEF Found, FoundOf, Exists
<1>10. Planned /\ Attempted /\ Settled
  BY <1>0 DEF Planned, Attempted, Settled
<1>11. Unique
  BY <1>0, <1>4, <1>5 DEF Unique, Lookup
<1>12. Calm
  BY <1>0, NoneIsNone DEF Calm, Outcome
<1>13. Wrote
  BY <1>0, <1>8, NoneIsNone DEF Wrote, Result
<1> QED BY <1>6, <1>7, <1>9, <1>10, <1>11, <1>12, <1>13 DEF IInv

\* The inductive invariant holds, and with it each of the properties below.
LEMMA Inductive == Spec => []IInv
<1>1. IInv /\ [Next]_vars => IInv'
  BY TypeNext, ServedNext, FoundNext, PlannedNext, AttemptedNext, UniqueNext, CalmNext, SettledNext, WroteNext DEF IInv
<1> QED BY <1>1, InitOK, PTL DEF Spec

\* What the inductive invariant says of the references of a document.
LEMMA RefsAreFirst == IInv => RefsFirst
<1> SUFFICES ASSUME IInv, NEW d \in Ids, docs[d] # None, NEW i \in Items, docs[d].bodies[i] # None,
                    NEW j \in manifest[i].links
             PROVE  LET r == docs[d].bodies[i][j]
                    IN  r # Placeholder /\ (docs[r] # None => manifest[j].key \in {docs[r].key, docs[r].origin})
  BY DEF RefsFirst
<1>1. Naming(docs[d].bodies[i][j], j)
  BY DEF IInv, Served, Names
<1>2. 0 \notin Ids
  BY BoundsAssumption DEF IInv, TypeOK, Ids
<1> QED BY <1>1, <1>2 DEF Naming, Placeholder

\* Two documents of one key, but for the excuses, are one.
LEMMA KeysAreOnce == IInv => NoDuplicates
<1> SUFFICES ASSUME IInv, NEW k \in Keys, k \notin Twins, k \notin late, ~(k \in hooked \cap (warned \cup unanswered))
             PROVE  Cardinality({d \in Ids : docs[d] # None /\ docs[d].origin = k}) <= 1
  BY DEF NoDuplicates
<1> DEFINE S == {d \in Ids : docs[d] # None /\ docs[d].origin = k}
<1>0. Unique /\ TypeOK /\ k # None
  BY Given, NoneIsNone DEF IInv
<1>1. ASSUME NEW d \in S PROVE k \notin hooked
  BY <1>0, <1>1 DEF Unique
<1>2. ASSUME NEW d \in S, NEW e \in S PROVE d = e
  <2>1. ~Excused(k)
    BY <1>1, <1>2 DEF Excused
  <2> QED BY <1>0, <1>2, <2>1 DEF Unique
<1>3. CASE S = {}
  <2>1. Cardinality({}) = 0
    BY FS_EmptySet, Zenon
  <2>2. Cardinality(S) = 0
    BY <1>3, <2>1, Zenon
  <2> QED BY <2>2
<1>4. CASE S # {}
  <2>1. PICK d \in S : TRUE
    BY <1>4
  <2>2. S = {d}
    BY <1>2, <2>1
  <2>3. Cardinality({d}) = 1
    BY FS_Singleton, Zenon
  <2>4. Cardinality(S) = 1
    BY <2>2, <2>3, Zenon
  <2> QED BY <2>4
<1> QED BY <1>3, <1>4

\* What the second run plans follows from what the first left.
LEMMA NextRunIsQuiet == IInv => SecondRunQuiet
<1> SUFFICES ASSUME IInv, pc = "planned", settled, \A d \in Ids : docs[d] # None => docs[d].key # Rewritten,
                    NEW i \in Items \ Disputed
             PROVE  it[i].action = "unchanged"
  BY DEF SecondRunQuiet
<1> QED BY DEF IInv, Settled, InPlaceAs

\* The envelope follows from the results, and they from what was written.
LEMMA EnvelopeTells == IInv => ReportTrue
<1> SUFFICES ASSUME IInv, pc = "idle" PROVE ReportTrue
  BY DEF ReportTrue
<1>1. Wrote /\ Calm
  BY DEF IInv
<1>2. \A i \in Results("created") \cup Results("updated") : i \in wrote
  BY <1>1 DEF Wrote, Results
<1>3. \A i \in Items : i \in wrote /\ outcome # "killed" => it[i].result \in {"created", "updated"} \/ it[i].unsure
  BY <1>1 DEF Wrote
<1>4. outcome \in {"nothing", "interrupted", "planned", "declined", "problem"} => wrote = {}
  BY <1>1 DEF Wrote
<1>5. outcome = "ok" /\ calm => \A i \in Items : docs[it[i].found].bodies[i] = Resolved(i)
  BY <1>1 DEF Calm, Done
<1> QED BY <1>2, <1>3, <1>4, <1>5 DEF ReportTrue

\* Only the write of an item declared published changes the stored status.
LEMMA StatusIsKept == IInv /\ [Next]_vars => StatusAsDeclared
<1> SUFFICES ASSUME IInv, [Next]_vars, NEW d \in Ids, docs[d] # None, docs'[d] # None, docs'[d].stored # docs[d].stored,
                    edits' = edits
             PROVE  docs'[d].stored = "published" /\ manifest[Current].status = "published"
  BY DEF StatusAsDeclared
<1>1. ~Others
  <2>1. edits \in Nat
    BY DEF IInv, TypeOK
  <2>2. Others => edits' = edits + 1
    BY DEF Others
  <2> QED BY <2>1, <2>2
<1>2. /\ Attempts
      /\ UpdatedAs(docs'[d], docs[d], Current, Final(Current).mode, Final(Current).body)
  BY <1>1, Undisturbed
<1>3. Final(Current).mode = "publish"
  BY <1>2 DEF UpdatedAs
<1>4. manifest[Current].status = "published"
  BY <1>2, <1>3, FinalIs
<1> QED BY <1>2, <1>3, <1>4 DEF UpdatedAs

\* For any manifests, hooks and number of runs: no document is written before those it
\* refers to and none refers to a placeholder; no run creates a second document for a match
\* value, but for the named excuses; and after a run that was ok the next one leaves every
\* item but the disputed ones alone.
THEOREM RunsAreInOrder == Spec => []RunsInOrder
<1>1. IInv => RunsInOrder
  BY RefsAreFirst, KeysAreOnce, NextRunIsQuiet DEF IInv, RunsInOrder
<1> QED BY <1>1, Inductive, PTL

\* What the envelope of a sync says it wrote is what it wrote, whatever fails, is lost or
\* interrupted; and no write publishes what was not declared published or takes a published
\* document offline.
THEOREM WritesAreTold == Spec => WritesAsTold
<1>1. IInv /\ IInv' /\ [Next]_vars => [ReportTrue' /\ StatusAsDeclared]_vars
  <2>1. IInv' => ReportTrue'
    BY EnvelopeTells, PTL
  <2> QED BY <2>1, StatusIsKept
<1> QED BY <1>1, Inductive, PTL DEF Spec, WritesAsTold

-----------------------------------------------------------------------------
(* Lists of rows.                                                            *)

\* A row put in place n + 1.
LEMMA InsertIs ==
  ASSUME NEW T, NEW list \in Seq(T), NEW n \in 0 .. Len(list), NEW row \in T
  PROVE  /\ Edit!Insert(list, n, row) \in Seq(T) /\ Len(Edit!Insert(list, n, row)) = Len(list) + 1
         /\ Edit!Insert(list, n, row)[n + 1] = row
         /\ \A k \in 1 .. n : Edit!Insert(list, n, row)[k] = list[k]
         /\ \A k \in n + 1 .. Len(list) : Edit!Insert(list, n, row)[k + 1] = list[k]
<1> DEFINE a == SubSeq(list, 1, n)
           b == SubSeq(list, n + 1, Len(list))
           c == a \o <<row>>
           out == Edit!Insert(list, n, row)
<1>1. out = c \o b
  <2>1. (n + 1) - 1 = n OBVIOUS
  <2> QED BY <2>1 DEF Edit!Insert, Edit!InsertAt
<1>2. /\ a \in Seq(T) /\ Len(a) = n /\ \A k \in 1 .. n : a[k] = list[k]
  BY SubSeqProperties
<1>3. /\ b \in Seq(T) /\ Len(b) = Len(list) - n /\ \A k \in 1 .. Len(list) - n : b[k] = list[n + k]
  BY SubSeqProperties
<1> HIDE DEF a, b
<1>4. /\ <<row>> \in Seq(T) /\ Len(<<row>>) = 1 /\ <<row>>[1] = row OBVIOUS
<1>5. /\ c \in Seq(T) /\ Len(c) = n + 1
      /\ \A k \in 1 .. n + 1 : c[k] = IF k <= n THEN a[k] ELSE <<row>>[k - n]
  BY <1>2, <1>4, ConcatProperties
<1>5a. c[n + 1] = row
  <2>1. n + 1 \in 1 .. n + 1 /\ ~(n + 1 <= n) /\ (n + 1) - n = 1 OBVIOUS
  <2>2. c[n + 1] = <<row>>[(n + 1) - n] BY <2>1, <1>5
  <2> QED BY <2>1, <2>2, <1>4
<1>5b. \A k \in 1 .. n : c[k] = list[k] BY <1>2, <1>5
<1> HIDE DEF c
<1>6. /\ c \o b \in Seq(T) /\ Len(c \o b) = Len(list) + 1
      /\ \A k \in 1 .. Len(list) + 1 : (c \o b)[k] = IF k <= n + 1 THEN c[k] ELSE b[k - (n + 1)]
  <2>1. /\ c \o b \in Seq(T) /\ Len(c \o b) = Len(c) + Len(b)
        /\ \A k \in 1 .. Len(c) + Len(b) : (c \o b)[k] = IF k <= Len(c) THEN c[k] ELSE b[k - Len(c)]
    BY <1>3, <1>5, ConcatProperties
  <2>2. Len(c) + Len(b) = Len(list) + 1 BY <1>3, <1>5
  <2> QED BY <2>1, <2>2, <1>5
<1> HIDE DEF out
<1>8. out[n + 1] = row BY <1>5a, <1>6, <1>1
<1>9. \A k \in 1 .. n : out[k] = list[k] BY <1>5b, <1>6, <1>1
<1>10. ASSUME NEW k \in n + 1 .. Len(list) PROVE out[k + 1] = list[k]
  <2>1. k + 1 \in 1 .. Len(list) + 1 /\ ~(k + 1 <= n + 1) /\ k - n \in 1 .. Len(list) - n OBVIOUS
  <2>2. out[k + 1] = b[(k + 1) - (n + 1)] BY <2>1, <1>6, <1>1
  <2>3. (k + 1) - (n + 1) = k - n /\ n + (k - n) = k OBVIOUS
  <2> QED BY <2>1, <2>2, <2>3, <1>3
<1> QED BY <1>6, <1>1, <1>8, <1>9, <1>10 DEF out

\* A row taken out of place n.
LEMMA RemoveIs ==
  ASSUME NEW T, NEW list \in Seq(T), NEW n \in 1 .. Len(list)
  PROVE  /\ Edit!RemoveAt(list, n) \in Seq(T) /\ Len(Edit!RemoveAt(list, n)) = Len(list) - 1
         /\ \A k \in 1 .. n - 1 : Edit!RemoveAt(list, n)[k] = list[k]
         /\ \A k \in n .. Len(list) - 1 : Edit!RemoveAt(list, n)[k] = list[k + 1]
<1> DEFINE a == SubSeq(list, 1, n - 1)
           b == SubSeq(list, n + 1, Len(list))
<1>1. Edit!RemoveAt(list, n) = a \o b BY DEF Edit!RemoveAt
<1>2. /\ a \in Seq(T) /\ Len(a) = n - 1 /\ \A k \in 1 .. n - 1 : a[k] = list[k]
  BY SubSeqProperties
<1>3. /\ b \in Seq(T) /\ Len(b) = Len(list) - n /\ \A k \in 1 .. Len(list) - n : b[k] = list[n + k]
  BY SubSeqProperties
<1> HIDE DEF a, b
<1>4. /\ a \o b \in Seq(T) /\ Len(a \o b) = Len(list) - 1
      /\ \A k \in 1 .. Len(list) - 1 : (a \o b)[k] = IF k <= n - 1 THEN a[k] ELSE b[k - (n - 1)]
  <2>1. /\ a \o b \in Seq(T) /\ Len(a \o b) = Len(a) + Len(b)
        /\ \A k \in 1 .. Len(a) + Len(b) : (a \o b)[k] = IF k <= Len(a) THEN a[k] ELSE b[k - Len(a)]
    BY <1>2, <1>3, ConcatProperties
  <2>2. Len(a) + Len(b) = Len(list) - 1 BY <1>2, <1>3
  <2> QED BY <2>1, <2>2, <1>2
<1>5. \A k \in 1 .. n - 1 : (a \o b)[k] = list[k] BY <1>2, <1>4
<1>6. ASSUME NEW k \in n .. Len(list) - 1 PROVE (a \o b)[k] = list[k + 1]
  <2>1. k \in 1 .. Len(list) - 1 /\ ~(k <= n - 1) /\ k - (n - 1) \in 1 .. Len(list) - n OBVIOUS
  <2>2. (a \o b)[k] = b[k - (n - 1)] BY <2>1, <1>4
  <2>3. n + (k - (n - 1)) = k + 1 OBVIOUS
  <2> QED BY <2>1, <2>2, <2>3, <1>3
<1> QED BY <1>1, <1>4, <1>5, <1>6

\* What was put in is all that is to be taken out.
LEMMA InsertedOut ==
  ASSUME NEW T, NEW list \in Seq(T), NEW n \in 0 .. Len(list), NEW row \in T
  PROVE  Edit!RemoveAt(Edit!Insert(list, n, row), n + 1) = list
<1> DEFINE put == Edit!Insert(list, n, row)
           out == Edit!RemoveAt(put, n + 1)
<1>1. /\ put \in Seq(T) /\ Len(put) = Len(list) + 1
      /\ put[n + 1] = row
      /\ \A k \in 1 .. n : put[k] = list[k]
      /\ \A k \in n + 1 .. Len(list) : put[k + 1] = list[k]
  <2>1. put \in Seq(T) /\ Len(put) = Len(list) + 1 BY InsertIs
  <2>2. put[n + 1] = row BY InsertIs
  <2>3. \A k \in 1 .. n : put[k] = list[k] BY InsertIs
  <2>4. \A k \in n + 1 .. Len(list) : put[k + 1] = list[k] BY InsertIs
  <2> QED BY <2>1, <2>2, <2>3, <2>4
<1> HIDE DEF put
<1>2. n + 1 \in 1 .. Len(put) /\ (n + 1) - 1 = n /\ Len(put) - 1 = Len(list) BY <1>1
<1>3. /\ out \in Seq(T) /\ Len(out) = Len(put) - 1
      /\ \A k \in 1 .. (n + 1) - 1 : out[k] = put[k]
      /\ \A k \in n + 1 .. Len(put) - 1 : out[k] = put[k + 1]
  BY <1>1, <1>2, RemoveIs
<1> HIDE DEF out
<1>4. ASSUME NEW k \in 1 .. Len(out) PROVE out[k] = list[k]
  <2>1. CASE k <= n
    <3>1. k \in 1 .. n BY <2>1, <1>2, <1>3
    <3> QED BY <3>1, <1>1, <1>2, <1>3
  <2>2. CASE ~(k <= n)
    <3>1. k \in n + 1 .. Len(list) BY <2>2, <1>2, <1>3
    <3> QED BY <3>1, <1>1, <1>2, <1>3
  <2> QED BY <2>1, <2>2
<1>5. Len(out) = Len(list) BY <1>2, <1>3
<1>6. out = list BY <1>3, <1>4, <1>5, SeqEqual
<1> QED BY <1>6 DEF put, out

\* A set counted here is a set counted there.
LEMMA CardIs == \A A : Edit!Cardinality(A) = Cardinality(A)
BY DEF Edit!Cardinality, Cardinality

\* The numbers of a finite set, counted in their order.
Below(S, i) == Edit!Cardinality({j \in S : j < i})

LEMMA Ranks ==
  ASSUME NEW S, IsFiniteSet(S), S \subseteq Int
  PROVE  /\ Edit!Cardinality(S) \in Nat
         /\ \A i \in S : Below(S, i) \in Nat /\ Below(S, i) < Edit!Cardinality(S)
         /\ \A i, j \in S : i < j => Below(S, i) < Below(S, j)
         /\ \A k \in 1 .. Edit!Cardinality(S) : \E i \in S : Below(S, i) = k - 1
<1>1. Cardinality(S) \in Nat /\ Edit!Cardinality(S) = Cardinality(S) BY FS_CardinalityType, CardIs
<1>c. \A i : Below(S, i) = Cardinality({j \in S : j < i}) BY CardIs DEF Below
<1>2. ASSUME NEW i \in S
      PROVE  /\ IsFiniteSet({j \in S : j < i}) /\ Below(S, i) \in Nat
             /\ Cardinality({j \in S : j < i} \cup {i}) = Below(S, i) + 1
  <2> DEFINE B == {j \in S : j < i}
  <2>1. B \in SUBSET S /\ i \notin B OBVIOUS
  <2>2. IsFiniteSet(B) BY <2>1, FS_Subset
  <2>3. Below(S, i) = Cardinality(B) BY <1>c
  <2> HIDE DEF B
  <2>4. Cardinality(B \cup {i}) = Cardinality(B) + 1 BY <2>1, <2>2, FS_AddElement
  <2>5. Cardinality(B) \in Nat BY <2>2, FS_CardinalityType
  <2> QED BY <2>2, <2>3, <2>4, <2>5 DEF B
<1>3. ASSUME NEW i \in S PROVE Below(S, i) \in Nat /\ Below(S, i) < Cardinality(S)
  <2> DEFINE B == {j \in S : j < i} \cup {i}
  <2>1. B \in SUBSET S OBVIOUS
  <2>2. Cardinality(B) = Below(S, i) + 1 /\ Below(S, i) \in Nat BY <1>2
  <2> HIDE DEF B
  <2>3. Cardinality(B) <= Cardinality(S) BY <2>1, FS_Subset
  <2> QED BY <2>2, <2>3, <1>1
<1>4. ASSUME NEW i \in S, NEW j \in S, i < j PROVE Below(S, i) < Below(S, j)
  <2> DEFINE B == {k \in S : k < i} \cup {i}
             C == {k \in S : k < j}
  <2>1. B \in SUBSET C
    <3>1. ASSUME NEW k \in S, k < i PROVE k < j
      <4>1. k \in Int /\ i \in Int /\ j \in Int OBVIOUS
      <4> QED BY <4>1, <3>1, <1>4
    <3> QED BY <3>1, <1>4
  <2>2. IsFiniteSet(C) BY <1>2
  <2>4. Cardinality(B) = Below(S, i) + 1 /\ Below(S, i) \in Nat BY <1>2
  <2>5. Cardinality(C) = Below(S, j) BY <1>c
  <2>6. Below(S, j) \in Nat BY <1>2
  <2> HIDE DEF B, C
  <2>3. Cardinality(B) <= Cardinality(C) BY <2>1, <2>2, FS_Subset
  <2> QED BY <2>3, <2>4, <2>5, <2>6
<1> DEFINE f == [i \in S |-> Below(S, i)]
           R == 0 .. Cardinality(S) - 1
<1>5. f \in Injection(S, R)
  <2>1. f \in [S -> R] BY <1>1, <1>3
  <2>2. ASSUME NEW i \in S, NEW j \in S, f[i] = f[j] PROVE i = j
    <3>1. Below(S, i) = Below(S, j) /\ Below(S, i) \in Nat BY <2>2, <1>2
    <3>2. ~(i < j) /\ ~(j < i) BY <3>1, <1>2, <1>4
    <3> QED BY <3>2
  <2> QED BY <2>1, <2>2 DEF Injection, IsInjective
<1>6. IsFiniteSet(R) /\ Cardinality(R) = Cardinality(S) BY <1>1, FS_Interval
<1>7. f \in Surjection(S, R) BY <1>5, <1>6, FS_Injection
<1>8. ASSUME NEW k \in 1 .. Cardinality(S) PROVE \E i \in S : Below(S, i) = k - 1
  <2>1. k - 1 \in R BY <1>1
  <2>2. \E i \in S : f[i] = k - 1 BY <2>1, <1>7 DEF Surjection
  <2> QED BY <2>2
<1>9. \A i, j \in S : i < j => Below(S, i) < Below(S, j) BY <1>4
<1> QED BY <1>1, <1>3, <1>8, <1>9

\* A finite set of numbers has one of each rank.
LEMMA RanksDiffer ==
  ASSUME NEW S, IsFiniteSet(S), S \subseteq Int, NEW i \in S, NEW j \in S, Below(S, i) = Below(S, j)
  PROVE  i = j
<1>1. Below(S, i) \in Nat /\ Below(S, j) \in Nat BY Ranks
<1>2. i < j => Below(S, i) < Below(S, j) BY Ranks
<1>3. j < i => Below(S, j) < Below(S, i) BY Ranks
<1>4. i \in Int /\ j \in Int OBVIOUS
<1> QED BY <1>1, <1>2, <1>3, <1>4

\* What is left of an array is the rows that were not taken out, in their order.
Picks(list, idx, out, f) ==
  /\ f \in [DOMAIN out -> DOMAIN list \ idx]
  /\ \A j, k \in DOMAIN out : j < k => f[j] < f[k]
  /\ {f[j] : j \in DOMAIN out} = DOMAIN list \ idx
  /\ \A j \in DOMAIN out : out[j] = list[f[j]]

LEMMA RemoveAllIs ==
  ASSUME NEW T, NEW list \in Seq(T), NEW idx
  PROVE  /\ Edit!RemoveAll(list, idx) \in Seq(T)
         /\ \E f : Picks(list, idx, Edit!RemoveAll(list, idx), f)
<1> DEFINE S == DOMAIN list \ idx
           out == Edit!RemoveAll(list, idx)
           n == Edit!Cardinality(S)
           f == [k \in 1 .. n |-> CHOOSE i \in S : Below(S, i) = k - 1]
<1>1. IsFiniteSet(S) /\ S \subseteq Int
  <2>1. IsFiniteSet(1 .. Len(list)) BY FS_Interval
  <2>2. S \in SUBSET (1 .. Len(list)) OBVIOUS
  <2>3. Len(list) \in Nat OBVIOUS
  <2>4. S \subseteq Int BY <2>2, <2>3
  <2> HIDE DEF S
  <2> QED BY <2>1, <2>2, <2>4, FS_Subset
<1>2. out = [k \in 1 .. n |-> list[f[k]]]
  BY DEF Edit!RemoveAll, Below
<1>s. S \subseteq DOMAIN list /\ S = DOMAIN list \ idx OBVIOUS
<1>f. DOMAIN f = 1 .. n OBVIOUS
<1> HIDE DEF out, S
<1>0. n \in Nat BY <1>1, Ranks
<1>3. \A k \in 1 .. n : f[k] \in S /\ Below(S, f[k]) = k - 1
  <2>1. \A k \in 1 .. n : \E i \in S : Below(S, i) = k - 1 BY <1>1, Ranks
  <2> QED BY <2>1
<1> HIDE DEF f
<1>r. \A i \in S : Below(S, i) \in Nat /\ Below(S, i) < n BY <1>1, Ranks
<1>o. \A i, j \in S : i < j => Below(S, i) < Below(S, j) BY <1>1, Ranks
<1> HIDE DEF n
<1>4. out \in Seq(T) /\ DOMAIN out = 1 .. n
  <2>1. \A k \in 1 .. n : list[f[k]] \in T BY <1>3, <1>s, ElementOfSeq
  <2> QED BY <2>1, <1>0, <1>2
<1>5. ASSUME NEW j \in DOMAIN out, NEW k \in DOMAIN out, j < k PROVE f[j] < f[k]
  <2>1. /\ f[j] \in S /\ f[k] \in S /\ Below(S, f[j]) = j - 1 /\ Below(S, f[k]) = k - 1
        /\ j \in Int /\ k \in Int
    BY <1>3, <1>4
  <2>2. f[k] < f[j] => k - 1 < j - 1 BY <2>1, <1>o
  <2>3. f[j] # f[k] BY <2>1, <1>5
  <2>4. ~(k - 1 < j - 1) BY <2>1, <1>5
  <2>5. f[j] \in Int /\ f[k] \in Int BY <2>1, <1>1
  <2> QED BY <2>2, <2>3, <2>4, <2>5
<1>6. {f[j] : j \in DOMAIN out} = S
  <2>1. ASSUME NEW i \in S PROVE \E k \in 1 .. n : f[k] = i
    <3>1. Below(S, i) \in Nat /\ Below(S, i) < n BY <1>r
    <3> DEFINE k == Below(S, i) + 1
    <3>2. k \in 1 .. n /\ k - 1 = Below(S, i) BY <1>0, <3>1
    <3> HIDE DEF k
    <3>3. f[k] \in S /\ Below(S, f[k]) = Below(S, i) BY <3>2, <1>3
    <3>4. f[k] = i BY <3>3, <1>1, RanksDiffer
    <3> QED BY <3>2, <3>4
  <2> QED BY <2>1, <1>3, <1>4
<1>7. Picks(list, idx, out, f)
  <2>1. f = [k \in DOMAIN out |-> f[k]] BY <1>4, <1>f DEF f
  <2>2. f \in [DOMAIN out -> S] BY <2>1, <1>3, <1>4
  <2>3. \A j \in DOMAIN out : out[j] = list[f[j]] BY <1>2, <1>4
  <2>4. \A j, k \in DOMAIN out : j < k => f[j] < f[k] BY <1>5
  <2> QED BY <2>2, <2>3, <2>4, <1>6, <1>s DEF Picks
<1> QED BY <1>4, <1>7 DEF out

\* A selector addresses one row at most.
LEMMA OneIs ==
  ASSUME NEW list, NEW sel, NEW i \in Edit!One(list, sel)
  PROVE  i \in DOMAIN list /\ \A j \in Edit!One(list, sel) : j = i
BY DEF Edit!One

\* Every row of out is a row of list, none of them twice, or the row new.
Shuffle(out, list, g, new) ==
  /\ g \in [DOMAIN out -> DOMAIN list \cup {0}]
  /\ \A j, k \in DOMAIN out : g[j] = g[k] /\ g[j] # 0 => j = k
  /\ \A k \in DOMAIN out : out[k] = IF g[k] = 0 THEN new ELSE list[g[k]]

\* A row inserted where an anchor says: nothing else changes, and it lands there.
LEMMA InsertExact ==
  ASSUME NEW T, NEW rows \in Seq(T), NEW a, NEW n \in Edit!InsertPoint(rows, a), NEW row \in T,
         a.mode \in {"append", "index", "before", "after"}, a.n \in Int,
         NEW l, l.at = n + 1, l.anchor = a
  PROVE  /\ Edit!Insert(rows, n, row) \in Seq(T)
         /\ Edit!RemoveAt(Edit!Insert(rows, n, row), l.at) = rows
         /\ Edit!Insert(rows, n, row)[l.at] = row
         /\ Edit!Lands(rows, Edit!Insert(rows, n, row), l)
         /\ \E g : Shuffle(Edit!Insert(rows, n, row), rows, g, row)
<1> DEFINE out == Edit!Insert(rows, n, row)
<1>0. n \in 0 .. Len(rows) /\ Len(rows) \in Nat /\ DOMAIN rows = 1 .. Len(rows) BY DEF Edit!InsertPoint
<1>1. out \in Seq(T) /\ Len(out) = Len(rows) + 1 BY <1>0, InsertIs
<1>2. out[n + 1] = row BY <1>0, InsertIs
<1>3. \A k \in 1 .. n : out[k] = rows[k] BY <1>0, InsertIs
<1>4. \A k \in n + 1 .. Len(rows) : out[k + 1] = rows[k] BY <1>0, InsertIs
<1>5. Edit!RemoveAt(out, n + 1) = rows BY <1>0, InsertedOut
<1> HIDE DEF out
<1>6. Edit!Lands(rows, out, l)
  <2>1. CASE a.mode = "append"
    <3>1. n = Len(rows) BY <2>1 DEF Edit!InsertPoint
    <3> QED BY <3>1, <2>1, <1>0, <1>1 DEF Edit!Lands
  <2>2. CASE a.mode = "index"
    <3>1. n = (IF a.n < 0 THEN a.n + Len(rows) + 1 ELSE a.n) BY <2>2 DEF Edit!InsertPoint
    <3>2. a.n = (IF a.n >= 0 THEN l.at - 1 ELSE l.at - 1 - Len(out)) BY <3>1, <1>0, <1>1
    <3> QED BY <3>2, <2>2 DEF Edit!Lands
  <2>3. CASE a.mode = "before"
    <3>1. n + 1 \in Edit!One(rows, a.sel) BY <2>3 DEF Edit!InsertPoint
    <3>2. n + 1 \in 1 .. Len(rows) BY <3>1, <1>0, OneIs
    <3>3. n + 1 \in n + 1 .. Len(rows) /\ l.at + 1 = (n + 1) + 1 BY <3>2, <1>0
    <3>4. out[l.at + 1] = rows[n + 1] BY <3>3, <1>4
    <3>5. \A j \in Edit!One(rows, a.sel) : j = n + 1 BY <3>1, OneIs
    <3> QED BY <3>4, <3>5, <2>3 DEF Edit!Lands
  <2>4. CASE a.mode = "after"
    <3>1. n \in Edit!One(rows, a.sel) BY <2>4 DEF Edit!InsertPoint
    <3>2. n \in 1 .. n /\ l.at - 1 = n /\ l.at > 1 BY <3>1, <1>0, OneIs
    <3>4. out[l.at - 1] = rows[n] BY <3>2, <1>3
    <3>5. \A j \in Edit!One(rows, a.sel) : j = n BY <3>1, OneIs
    <3> QED BY <3>2, <3>4, <3>5, <2>4 DEF Edit!Lands
  <2> QED BY <2>1, <2>2, <2>3, <2>4
<1>7. \E g : Shuffle(out, rows, g, row)
  <2> DEFINE g == [k \in DOMAIN out |-> IF k <= n THEN k ELSE IF k = n + 1 THEN 0 ELSE k - 1]
  <2>0. DOMAIN out = 1 .. Len(rows) + 1 BY <1>1
  <2>1. g \in [DOMAIN out -> DOMAIN rows \cup {0}] BY <2>0, <1>0
  <2>2. \A j, k \in DOMAIN out : g[j] = g[k] /\ g[j] # 0 => j = k BY <2>0, <1>0
  <2>3. ASSUME NEW k \in DOMAIN out PROVE out[k] = IF g[k] = 0 THEN row ELSE rows[g[k]]
    <3>1. CASE k <= n
      <4>1. k \in 1 .. n /\ g[k] = k /\ k # 0 BY <3>1, <2>0, <1>0
      <4> QED BY <4>1, <1>3
    <3>2. CASE k = n + 1
      <4>1. g[k] = 0 BY <3>2, <2>0, <1>0
      <4> QED BY <4>1, <3>2, <1>2
    <3>3. CASE ~(k <= n) /\ k # n + 1
      <4>1. k - 1 \in n + 1 .. Len(rows) /\ (k - 1) + 1 = k BY <3>3, <2>0, <1>0
      <4>2. g[k] = k - 1 /\ g[k] # 0 BY <3>3, <2>0, <1>0
      <4>3. out[(k - 1) + 1] = rows[k - 1] BY <4>1, <1>4
      <4> QED BY <4>1, <4>2, <4>3
    <3> QED BY <3>1, <3>2, <3>3
  <2> HIDE DEF g
  <2> QED BY <2>1, <2>2, <2>3 DEF Shuffle
<1>8. l.at = n + 1 OBVIOUS
<1> QED BY <1>1, <1>2, <1>5, <1>6, <1>7, <1>8 DEF out

\* Where a move puts a row is a place of the other rows.
LEMMA MovePointIs ==
  ASSUME NEW T, NEW rows \in Seq(T), NEW src \in DOMAIN rows, NEW a, a.n \in Int,
         a.mode \in {"append", "index", "before", "after"},
         NEW n \in Edit!MovePoint(rows, src, a)
  PROVE  /\ n \in 0 .. Len(rows) - 1
         /\ a.mode = "append" => n = Len(rows) - 1
         /\ a.mode = "index" => n = IF a.n < 0 THEN a.n + Len(rows) ELSE a.n
         /\ a.mode = "before" => \E i \in Edit!One(rows, a.sel) \ {src} : n = Edit!ShiftForRemoval(i, src) - 1
         /\ a.mode = "after" => \E i \in Edit!One(rows, a.sel) \ {src} : n = Edit!ShiftForRemoval(i, src)
<1>0. DOMAIN rows = 1 .. Len(rows) /\ Len(rows) \in Nat /\ src \in 1 .. Len(rows) OBVIOUS
<1>1. CASE Edit!Relative(a)
  <2>1. a.mode \in {"before", "after"} BY <1>1 DEF Edit!Relative
  <2>2. PICK i \in Edit!One(rows, a.sel) \ {src} :
          n = IF a.mode = "before" THEN Edit!ShiftForRemoval(i, src) - 1 ELSE Edit!ShiftForRemoval(i, src)
    BY <1>1 DEF Edit!MovePoint
  <2>3. i \in 1 .. Len(rows) /\ i # src BY <1>0, <2>2, OneIs
  <2>4. n \in 0 .. Len(rows) - 1 BY <2>2, <2>3, <1>0 DEF Edit!ShiftForRemoval
  <2> QED BY <2>1, <2>2, <2>4
<1>2. CASE ~Edit!Relative(a)
  <2> DEFINE rest == Edit!RemoveAt(rows, src)
  <2>1. a.mode \in {"append", "index"} BY <1>2 DEF Edit!Relative
  <2>2. n \in Edit!InsertPoint(rest, a) BY <1>2 DEF Edit!MovePoint
  <2>3. Len(rest) = Len(rows) - 1 BY <1>0, RemoveIs
  <2> HIDE DEF rest
  <2>4. n \in 0 .. Len(rest) BY <2>2 DEF Edit!InsertPoint
  <2>5. a.mode = "append" => n = Len(rest) BY <2>2 DEF Edit!InsertPoint
  <2>6. a.mode = "index" => n = IF a.n < 0 THEN a.n + Len(rest) + 1 ELSE a.n BY <2>2 DEF Edit!InsertPoint
  <2> QED BY <2>1, <2>3, <2>4, <2>5, <2>6, <1>0
<1> QED BY <1>1, <1>2

\* A row moved: the others stay in their order, and it lands where the anchor says.
LEMMA MoveExact ==
  ASSUME NEW T, NEW rows \in Seq(T), NEW src \in DOMAIN rows, NEW a, a.n \in Int,
         a.mode \in {"append", "index", "before", "after"},
         NEW n \in Edit!MovePoint(rows, src, a),
         NEW l, l.at = n + 1, l.anchor = a
  PROVE  /\ Edit!Move(rows, src, n) \in Seq(T)
         /\ Edit!RemoveAt(Edit!Move(rows, src, n), l.at) = Edit!RemoveAt(rows, src)
         /\ Edit!Move(rows, src, n)[l.at] = rows[src]
         /\ Edit!Lands(rows, Edit!Move(rows, src, n), l)
         /\ \E g : /\ Shuffle(Edit!Move(rows, src, n), rows, g, rows[src])
                   /\ \A k \in DOMAIN Edit!Move(rows, src, n) : g[k] # 0
<1> DEFINE rest == Edit!RemoveAt(rows, src)
           row  == rows[src]
           out  == Edit!Insert(rest, n, row)
<1>0. DOMAIN rows = 1 .. Len(rows) /\ Len(rows) \in Nat /\ src \in 1 .. Len(rows) /\ rows[src] \in T
  BY ElementOfSeq
<1>m. Edit!Move(rows, src, n) = out BY DEF Edit!Move
<1>r. rest \in Seq(T) /\ Len(rest) = Len(rows) - 1 BY <1>0, RemoveIs
<1>s. \A k \in 1 .. src - 1 : rest[k] = rows[k] BY <1>0, RemoveIs
<1>t. \A k \in src .. Len(rows) - 1 : rest[k] = rows[k + 1] BY <1>0, RemoveIs
<1> HIDE DEF rest
<1>n. n \in 0 .. Len(rest) /\ n \in 0 .. Len(rows) - 1 BY MovePointIs, <1>r
<1>w. row \in T BY <1>0
<1>q. n \in 0 .. Len(rest) /\ rest \in Seq(T) BY <1>n, <1>r
<1> HIDE DEF row
<1>1. out \in Seq(T) /\ Len(out) = Len(rest) + 1 BY <1>q, <1>w, InsertIs
<1>2. out[n + 1] = row BY <1>q, <1>w, InsertIs
<1>3. \A k \in 1 .. n : out[k] = rest[k] BY <1>q, <1>w, InsertIs
<1>4. \A k \in n + 1 .. Len(rest) : out[k + 1] = rest[k] BY <1>q, <1>w, InsertIs
<1>5. Edit!RemoveAt(out, n + 1) = rest BY <1>q, <1>w, InsertedOut
<1> HIDE DEF out
<1>x. \A i \in DOMAIN rows \ {src} : /\ Edit!ShiftForRemoval(i, src) \in 1 .. Len(rest)
                                      /\ rest[Edit!ShiftForRemoval(i, src)] = rows[i]
  <2> SUFFICES ASSUME NEW i \in DOMAIN rows \ {src}
               PROVE  /\ Edit!ShiftForRemoval(i, src) \in 1 .. Len(rest)
                      /\ rest[Edit!ShiftForRemoval(i, src)] = rows[i]
    OBVIOUS
  <2>1. CASE i > src
    <3>1. Edit!ShiftForRemoval(i, src) = i - 1 BY <2>1 DEF Edit!ShiftForRemoval
    <3>2. i - 1 \in src .. Len(rows) - 1 /\ (i - 1) + 1 = i /\ i - 1 \in 1 .. Len(rest) BY <2>1, <1>0, <1>r
    <3>3. rest[i - 1] = rows[(i - 1) + 1] BY <3>2, <1>t
    <3> QED BY <3>1, <3>2, <3>3
  <2>2. CASE ~(i > src)
    <3>1. Edit!ShiftForRemoval(i, src) = i BY <2>2 DEF Edit!ShiftForRemoval
    <3>2. i \in 1 .. src - 1 /\ i \in 1 .. Len(rest) BY <2>2, <1>0, <1>r
    <3> QED BY <3>1, <3>2, <1>s
  <2> QED BY <2>1, <2>2
<1>6. Edit!Lands(rows, out, l)
  <2>1. CASE a.mode = "append"
    <3>1. n = Len(rows) - 1 BY <2>1, MovePointIs
    <3> QED BY <3>1, <2>1, <1>0, <1>1, <1>r DEF Edit!Lands
  <2>2. CASE a.mode = "index"
    <3>1. n = (IF a.n < 0 THEN a.n + Len(rows) ELSE a.n) BY <2>2, MovePointIs
    <3>2. a.n = (IF a.n >= 0 THEN l.at - 1 ELSE l.at - 1 - Len(out)) BY <3>1, <1>0, <1>1, <1>n, <1>r
    <3> QED BY <3>2, <2>2 DEF Edit!Lands
  <2>3. CASE a.mode = "before"
    <3>1. PICK i \in Edit!One(rows, a.sel) \ {src} : n = Edit!ShiftForRemoval(i, src) - 1
      BY <2>3, MovePointIs
    <3>2. i \in DOMAIN rows \ {src} BY <3>1, OneIs
    <3>3. Edit!ShiftForRemoval(i, src) \in 1 .. Len(rest) /\ rest[Edit!ShiftForRemoval(i, src)] = rows[i]
      BY <3>2, <1>x
    <3>4. n + 1 = Edit!ShiftForRemoval(i, src) BY <3>1, <3>3
    <3>5. n + 1 \in n + 1 .. Len(rest) /\ l.at + 1 = (n + 1) + 1 BY <3>3, <3>4, <1>n, <1>r
    <3>6. out[l.at + 1] = rows[i] BY <3>3, <3>4, <3>5, <1>4
    <3>7. \A j \in Edit!One(rows, a.sel) : j = i BY <3>1, OneIs
    <3> QED BY <3>6, <3>7, <2>3 DEF Edit!Lands
  <2>4. CASE a.mode = "after"
    <3>1. PICK i \in Edit!One(rows, a.sel) \ {src} : n = Edit!ShiftForRemoval(i, src)
      BY <2>4, MovePointIs
    <3>2. i \in DOMAIN rows \ {src} BY <3>1, OneIs
    <3>3. n \in 1 .. Len(rest) /\ rest[n] = rows[i] BY <3>1, <3>2, <1>x
    <3>5. n \in 1 .. n /\ l.at - 1 = n /\ l.at > 1 BY <3>3, <1>n
    <3>6. out[l.at - 1] = rows[i] BY <3>3, <3>5, <1>3
    <3>7. \A j \in Edit!One(rows, a.sel) : j = i BY <3>1, OneIs
    <3> QED BY <3>5, <3>6, <3>7, <2>4 DEF Edit!Lands
  <2> QED BY <2>1, <2>2, <2>3, <2>4
<1>7. \E g : Shuffle(out, rows, g, row) /\ \A k \in DOMAIN out : g[k] # 0
  <2> DEFINE up(k) == IF k < src THEN k ELSE k + 1
             g == [k \in DOMAIN out |-> IF k <= n THEN up(k) ELSE IF k = n + 1 THEN src ELSE up(k - 1)]
  <2>0. DOMAIN out = 1 .. Len(rows) BY <1>1, <1>r, <1>0
  <2>1. g \in [DOMAIN out -> DOMAIN rows \cup {0}] BY <2>0, <1>0, <1>n
  <2>2. \A j, k \in DOMAIN out : g[j] = g[k] /\ g[j] # 0 => j = k BY <2>0, <1>0, <1>n
  <2>u. \A k \in 1 .. Len(rest) : rest[k] = rows[up(k)]
    <3> SUFFICES ASSUME NEW k \in 1 .. Len(rest) PROVE rest[k] = rows[up(k)] OBVIOUS
    <3>1. CASE k < src
      <4>1. k \in 1 .. src - 1 /\ up(k) = k BY <3>1, <1>0
      <4> QED BY <4>1, <1>s
    <3>2. CASE ~(k < src)
      <4>1. k \in src .. Len(rows) - 1 /\ up(k) = k + 1 BY <3>2, <1>0, <1>r
      <4> QED BY <4>1, <1>t
    <3> QED BY <3>1, <3>2
  <2>3. ASSUME NEW k \in DOMAIN out PROVE out[k] = IF g[k] = 0 THEN row ELSE rows[g[k]]
    <3>1. CASE k <= n
      <4>1. k \in 1 .. n /\ k \in 1 .. Len(rest) BY <3>1, <2>0, <1>n, <1>r
      <4>2. g[k] = up(k) BY <3>1
      <4>3. up(k) # 0 BY <4>1, <1>0
      <4>4. out[k] = rest[k] /\ rest[k] = rows[up(k)] BY <4>1, <1>3, <2>u
      <4> QED BY <4>2, <4>3, <4>4
    <3>2. CASE k = n + 1
      <4>1. g[k] = src /\ src # 0 BY <3>2, <2>0, <1>0, <1>n
      <4> QED BY <4>1, <3>2, <1>2 DEF row
    <3>3. CASE ~(k <= n) /\ k # n + 1
      <4>1. k - 1 \in n + 1 .. Len(rest) /\ k - 1 \in 1 .. Len(rest) /\ (k - 1) + 1 = k
        BY <3>3, <2>0, <1>n, <1>r, <1>0
      <4>2. g[k] = up(k - 1) BY <3>3
      <4>3. out[(k - 1) + 1] = rest[k - 1] BY <4>1, <1>4
      <4>4. rest[k - 1] = rows[up(k - 1)] BY <4>1, <2>u
      <4>5. up(k - 1) # 0 BY <4>1, <1>0
      <4> HIDE DEF up, g
      <4> QED BY <4>1, <4>2, <4>3, <4>4, <4>5
    <3> QED BY <3>1, <3>2, <3>3
  <2>4. \A k \in DOMAIN out : g[k] # 0 BY <2>0, <1>0, <1>n
  <2> HIDE DEF g
  <2> QED BY <2>1, <2>2, <2>3, <2>4 DEF Shuffle
<1>8. l.at = n + 1 OBVIOUS
<1> QED BY <1>1, <1>2, <1>5, <1>6, <1>7, <1>8, <1>m DEF out, rest, row

-----------------------------------------------------------------------------
(* Rows, and what their ids say.                                             *)

\* A list whose ids differ is one a listing can address: its selectors lead back to the rows.
LEMMA Addressable ==
  ASSUME NEW T, NEW list \in Seq(T), Edit!Distinct(list), NEW i \in DOMAIN list
  PROVE  Edit!One(list, Edit!Selector(list, i)) = {i}
<1> DEFINE t == list[i].type
           S == Edit!OfType(list, t)
           sel == Edit!Selector(list, i)
<1>0. DOMAIN list = 1 .. Len(list) /\ Len(list) \in Nat /\ i \in 1 .. Len(list) OBVIOUS
<1>1. Edit!Match(list, sel) = {i}
  <2>1. CASE list[i].id # Edit!NoId
    <3>1. sel = Edit!ById(list[i].id) BY <2>1 DEF Edit!Selector
    <3> HIDE DEF sel
    <3>2. sel.kind = "id" /\ sel.n = list[i].id BY <3>1 DEF Edit!ById
    <3>3. Edit!Match(list, sel) = {j \in DOMAIN list : list[j].id = list[i].id}
      BY <3>2 DEF Edit!Match
    <3>4. \A j \in DOMAIN list : list[j].id = list[i].id => j = i BY <2>1 DEF Edit!Distinct
    <3> QED BY <3>3, <3>4
  <2>2. CASE list[i].id = Edit!NoId /\ t # "" /\ S = {i}
    <3>1. sel = Edit!ByType(t) BY <2>2 DEF Edit!Selector
    <3> HIDE DEF sel
    <3>2. sel.kind = "type" /\ sel.type = t BY <3>1 DEF Edit!ByType
    <3>3. Edit!Match(list, sel) = Edit!OfType(list, t) BY <3>2 DEF Edit!Match
    <3> QED BY <3>3, <2>2
  <2>3. CASE list[i].id = Edit!NoId /\ t # "" /\ S # {i}
    <3>1. sel = Edit!ByNth(t, Below(S, i)) BY <2>3 DEF Edit!Selector, Below
    <3> HIDE DEF sel
    <3>2. sel.kind = "nth" /\ sel.type = t /\ sel.n = Below(S, i) BY <3>1 DEF Edit!ByNth
    <3>3. Edit!Match(list, sel) = {k \in S : Below(S, k) = Below(S, i)}
      BY <3>2 DEF Edit!Match, Below
    <3>4. i \in S /\ S \subseteq DOMAIN list BY DEF Edit!OfType
    <3>5. IsFiniteSet(S) /\ S \subseteq Int
      <4> HIDE DEF S
      <4>1. IsFiniteSet(1 .. Len(list)) BY FS_Interval
      <4>2. S \in SUBSET (1 .. Len(list)) BY <3>4, <1>0
      <4>3. S \subseteq Int BY <4>2, <1>0
      <4> QED BY <4>1, <4>2, <4>3, FS_Subset
    <3> HIDE DEF S
    <3>6. \A k \in S : Below(S, k) = Below(S, i) => k = i BY <3>4, <3>5, RanksDiffer
    <3> QED BY <3>3, <3>4, <3>6
  <2>4. CASE list[i].id = Edit!NoId /\ t = ""
    <3>1. sel = Edit!ByIndex(i - 1) BY <2>4 DEF Edit!Selector
    <3> HIDE DEF sel
    <3>2. sel.kind = "index" /\ sel.n = i - 1 BY <3>1 DEF Edit!ByIndex
    <3>3. Edit!Match(list, sel) = {(IF sel.n < 0 THEN sel.n + Len(list) ELSE sel.n) + 1} \cap DOMAIN list
      BY <3>2 DEF Edit!Match
    <3>4. (IF sel.n < 0 THEN sel.n + Len(list) ELSE sel.n) + 1 = i BY <3>2, <1>0
    <3> QED BY <3>3, <3>4
  <2> QED BY <2>1, <2>2, <2>3, <2>4
<1> HIDE DEF sel
<1>2. \A j \in DOMAIN list : Edit!Match(list, sel) = {j} <=> j = i BY <1>1
<1> QED BY <1>2 DEF Edit!One, sel

\* A new row of a list: no ids, and nothing a write would not replace.
Blank(row) ==
  /\ row \in Edit!OuterRow
  /\ row.id = Edit!NoId /\ row.secret \in {Edit!Mask, Edit!Default} /\ row.rich \in {Edit!Mask, Edit!Default}
  /\ row.inner # Absent => \A j \in DOMAIN row.inner : row.inner[j].id = Edit!NoId

\* A row that is an earlier one but for its text, its type, and what it says of its inner rows.
Alike(new, old) ==
  /\ new \in Edit!OuterRow
  /\ new.id = old.id /\ new.secret = old.secret /\ new.rich = old.rich
  /\ new.inner = Absent <=> old.inner = Absent
  /\ new.inner # Absent =>
       \/ new.inner = <<>>
       \/ /\ DOMAIN new.inner = DOMAIN old.inner
          /\ \A j \in DOMAIN old.inner : new.inner[j].id = old.inner[j].id

\* A list whose rows are rows of another, each at most once, or new.
Stems(out, list, g) ==
  /\ out \in Seq(Edit!OuterRow)
  /\ g \in [DOMAIN out -> DOMAIN list \cup {0}]
  /\ \A j, k \in DOMAIN out : g[j] = g[k] /\ g[j] # 0 => j = k
  /\ \A k \in DOMAIN out : IF g[k] = 0 THEN Blank(out[k]) ELSE Alike(out[k], list[g[k]])

\* The same of inner rows.
InnerStems(out, list, g) ==
  /\ out \in Seq(Edit!InnerRow)
  /\ g \in [DOMAIN out -> DOMAIN list \cup {0}]
  /\ \A j, k \in DOMAIN out : g[j] = g[k] /\ g[j] # 0 => j = k
  /\ \A k \in DOMAIN out : out[k].id = IF g[k] = 0 THEN Edit!NoId ELSE list[g[k]].id

LEMMA AlikeItself == ASSUME NEW row \in Edit!OuterRow PROVE Alike(row, row)
BY DEF Alike

LEMMA ShuffleStems ==
  ASSUME NEW list \in Seq(Edit!OuterRow), NEW out \in Seq(Edit!OuterRow), NEW new, NEW g,
         Shuffle(out, list, g, new), Blank(new) \/ \A k \in DOMAIN out : g[k] # 0
  PROVE  Stems(out, list, g)
<1>1. ASSUME NEW k \in DOMAIN out
      PROVE  IF g[k] = 0 THEN Blank(out[k]) ELSE Alike(out[k], list[g[k]])
  <2>1. CASE g[k] = 0
    <3>1. out[k] = new /\ Blank(new) BY <2>1 DEF Shuffle
    <3> QED BY <2>1, <3>1
  <2>2. CASE g[k] # 0
    <3>1. g[k] \in DOMAIN list /\ out[k] = list[g[k]] BY <2>2 DEF Shuffle
    <3>2. list[g[k]] \in Edit!OuterRow BY <3>1, ElementOfSeq
    <3> QED BY <2>2, <3>1, <3>2, AlikeItself
  <2> QED BY <2>1, <2>2
<1> QED BY <1>1 DEF Stems, Shuffle

LEMMA ShuffleInnerStems ==
  ASSUME NEW list \in Seq(Edit!InnerRow), NEW out \in Seq(Edit!InnerRow), NEW new, NEW g,
         Shuffle(out, list, g, new), new.id = Edit!NoId \/ \A k \in DOMAIN out : g[k] # 0
  PROVE  InnerStems(out, list, g)
<1>1. ASSUME NEW k \in DOMAIN out
      PROVE  out[k].id = IF g[k] = 0 THEN Edit!NoId ELSE list[g[k]].id
  BY DEF Shuffle
<1> QED BY <1>1 DEF InnerStems, Shuffle

LEMMA InnerStemsKeep ==
  ASSUME NEW list, NEW out, NEW g, InnerStems(out, list, g), Edit!Distinct(list)
  PROVE  /\ Edit!Distinct(out)
         /\ \A k \in DOMAIN out : out[k].id = Edit!NoId \/ \E j \in DOMAIN list : out[k].id = list[j].id
<1>1. \A k \in DOMAIN out : out[k].id # Edit!NoId => g[k] \in DOMAIN list /\ g[k] # 0 /\ out[k].id = list[g[k]].id
  BY DEF InnerStems
<1>2. ASSUME NEW i \in DOMAIN out, NEW j \in DOMAIN out, out[i].id = out[j].id, out[i].id # Edit!NoId PROVE i = j
  <2>1. g[i] = g[j] BY <1>1, <1>2 DEF Edit!Distinct
  <2> QED BY <2>1, <1>1, <1>2 DEF InnerStems
<1>3. Edit!Distinct(out) BY <1>2 DEF Edit!Distinct
<1> QED BY <1>1, <1>3

\* A row of a pipe: what a read makes of a stored row, or a new one.
RowOk(row) ==
  /\ row.id < 100 /\ row.secret \in {Edit!Mask, Edit!Default} /\ row.rich \in {Edit!Mask, Edit!Default}
  /\ row.id # Edit!NoId => row.secret = Edit!Mask /\ row.rich = Edit!Mask
  /\ row.inner # Absent => Edit!Distinct(row.inner)

RowsOk(list) ==
  list \in Seq(Edit!OuterRow) /\ (\A i \in DOMAIN list : RowOk(list[i])) /\ Edit!Distinct(list) /\ Edit!Apart(list)

LEMMA BlankOk == ASSUME NEW row, Blank(row) PROVE RowOk(row)
BY DEF Blank, RowOk, Edit!Distinct, Edit!OuterRow, Edit!NoId

LEMMA AlikeOk == ASSUME NEW new, NEW row, row \in Edit!OuterRow, RowOk(row), Alike(new, row) PROVE RowOk(new)
<1>1. ASSUME new.inner # Absent PROVE Edit!Distinct(new.inner)
  <2>1. row.inner # Absent /\ Edit!Distinct(row.inner) BY <1>1 DEF Alike, RowOk
  <2>2. CASE new.inner = <<>> BY <2>2 DEF Edit!Distinct
  <2>3. CASE /\ DOMAIN new.inner = DOMAIN row.inner
             /\ \A j \in DOMAIN row.inner : new.inner[j].id = row.inner[j].id
    BY <2>1, <2>3 DEF Edit!Distinct
  <2> QED BY <1>1, <2>2, <2>3 DEF Alike
<1> QED BY <1>1 DEF Alike, RowOk

\* The rows of a pipe stay what they are when they are shuffled, copied, added to or changed.
LEMMA StemsKeep ==
  ASSUME NEW list, NEW out, NEW g, RowsOk(list), Stems(out, list, g)
  PROVE  RowsOk(out)
<1>1. out \in Seq(Edit!OuterRow) BY DEF Stems
<1>2. ASSUME NEW k \in DOMAIN out, g[k] = 0 PROVE Blank(out[k]) BY <1>2 DEF Stems
<1>3. ASSUME NEW k \in DOMAIN out, g[k] # 0
      PROVE  g[k] \in DOMAIN list /\ list[g[k]] \in Edit!OuterRow /\ Alike(out[k], list[g[k]])
  <2>1. g[k] \in DOMAIN list BY <1>3 DEF Stems
  <2>2. list[g[k]] \in Edit!OuterRow BY <2>1, ElementOfSeq DEF RowsOk
  <2> QED BY <1>3, <2>1, <2>2 DEF Stems
<1>4. ASSUME NEW k \in DOMAIN out PROVE RowOk(out[k])
  <2>1. CASE g[k] = 0 BY <2>1, <1>2, BlankOk
  <2>2. CASE g[k] # 0
    <3>1. RowOk(list[g[k]]) BY <2>2, <1>3 DEF RowsOk
    <3> QED BY <3>1, <2>2, <1>3, AlikeOk
  <2> QED BY <2>1, <2>2
<1>5. ASSUME NEW k \in DOMAIN out, out[k].id # Edit!NoId
      PROVE  g[k] # 0 /\ g[k] \in DOMAIN list /\ list[g[k]].id = out[k].id
  <2>1. g[k] # 0 BY <1>2, <1>5 DEF Blank
  <2> QED BY <2>1, <1>3 DEF Alike
<1>6. Edit!Distinct(out)
  <2>1. ASSUME NEW i \in DOMAIN out, NEW j \in DOMAIN out, out[i].id = out[j].id, out[i].id # Edit!NoId PROVE i = j
    <3>1. g[i] = g[j] /\ g[i] # 0 BY <1>5, <2>1 DEF RowsOk, Edit!Distinct
    <3> QED BY <3>1 DEF Stems
  <2> QED BY <2>1 DEF Edit!Distinct
<1>7. ASSUME NEW i \in DOMAIN out, NEW k \in DOMAIN out, out[k].inner # Absent, out[i].id # Edit!NoId,
             NEW n \in DOMAIN out[k].inner
      PROVE  out[k].inner[n].id # out[i].id
  <2>1. CASE g[k] = 0
    <3>1. out[k].inner[n].id = Edit!NoId BY <2>1, <1>2, <1>7 DEF Blank
    <3> QED BY <3>1, <1>7
  <2>2. CASE g[k] # 0
    <3>1. list[g[k]].inner # Absent BY <2>2, <1>3, <1>7 DEF Alike
    <3>2. CASE out[k].inner = <<>> BY <3>2
    <3>3. CASE /\ DOMAIN out[k].inner = DOMAIN list[g[k]].inner
               /\ \A j \in DOMAIN list[g[k]].inner : out[k].inner[j].id = list[g[k]].inner[j].id
      <4>1. list[g[k]].inner[n].id # list[g[i]].id BY <3>1, <3>3, <2>2, <1>3, <1>5, <1>7 DEF RowsOk, Edit!Apart
      <4> QED BY <4>1, <3>3, <1>5, <1>7
    <3> QED BY <3>2, <3>3, <2>2, <1>3, <1>7 DEF Alike
  <2> QED BY <2>1, <2>2
<1> QED BY <1>1, <1>4, <1>6, <1>7 DEF RowsOk, Edit!Apart

\* The inner rows of a place, none where a row has no inner array.
InnerOf(row) == IF row.inner = Absent THEN <<>> ELSE row.inner

\* They stay so when the inner rows of one of them are.
LEMMA EnterKeeps ==
  ASSUME NEW list, RowsOk(list), NEW i \in DOMAIN list, NEW out, NEW g,
         InnerStems(out, InnerOf(list[i]), g), Absent \notin Seq(Edit!InnerRow)
  PROVE  RowsOk([list EXCEPT ![i].inner = out])
<1> DEFINE new == [list EXCEPT ![i].inner = out]
<1>0. /\ list \in Seq(Edit!OuterRow) /\ \A k \in DOMAIN list : list[k] \in Edit!OuterRow
      /\ DOMAIN list = 1 .. Len(list) /\ Len(list) \in Nat
  BY ElementOfSeq DEF RowsOk
<1>1. out \in Seq(Edit!InnerRow) BY DEF InnerStems
<1>2. [list[i] EXCEPT !.inner = out] \in Edit!OuterRow BY <1>0, <1>1 DEF Edit!OuterRow
<1>3. DOMAIN new = DOMAIN list OBVIOUS
<1>4. \A k \in DOMAIN list : new[k] = IF k = i THEN [list[i] EXCEPT !.inner = out] ELSE list[k] BY <1>0
<1>5. new \in Seq(Edit!OuterRow)
  <2>1. \A k \in DOMAIN list : new[k] \in Edit!OuterRow BY <1>0, <1>2, <1>4
  <2>2. new \in [1 .. Len(list) -> Edit!OuterRow] BY <2>1, <1>0
  <2> QED BY <2>2, <1>0
<1>6. /\ \A k \in DOMAIN list : new[k].id = list[k].id /\ new[k].secret = list[k].secret /\ new[k].rich = list[k].rich
      /\ \A k \in DOMAIN list : new[k].inner = IF k = i THEN out ELSE list[k].inner
  BY <1>0, <1>4 DEF Edit!OuterRow
<1> HIDE DEF new
<1>7. Edit!Distinct(InnerOf(list[i])) BY DEF InnerOf, RowsOk, RowOk, Edit!Distinct
<1>8. Edit!Distinct(out) /\ \A k \in DOMAIN out : out[k].id = Edit!NoId \/ \E j \in DOMAIN InnerOf(list[i]) : out[k].id = InnerOf(list[i])[j].id
  BY <1>7, InnerStemsKeep
<1>9. \A k \in DOMAIN new : RowOk(new[k]) BY <1>3, <1>6, <1>8 DEF RowsOk, RowOk
<1>10. Edit!Distinct(new) BY <1>3, <1>6 DEF RowsOk, Edit!Distinct
<1>11. ASSUME NEW m \in DOMAIN new, NEW k \in DOMAIN new, new[k].inner # Absent, new[m].id # Edit!NoId,
              NEW n \in DOMAIN new[k].inner
       PROVE  new[k].inner[n].id # new[m].id
  <2>1. CASE k # i BY <2>1, <1>3, <1>6, <1>11 DEF RowsOk, Edit!Apart
  <2>2. CASE k = i
    <3>1. new[k].inner = out BY <2>2, <1>3, <1>6
    <3>2. CASE out[n].id = Edit!NoId BY <3>1, <3>2, <1>11
    <3>3. CASE out[n].id # Edit!NoId
      <4>1. PICK j \in DOMAIN InnerOf(list[i]) : out[n].id = InnerOf(list[i])[j].id BY <3>1, <3>3, <1>8, <1>11
      <4>2. list[i].inner # Absent /\ InnerOf(list[i]) = list[i].inner BY <4>1 DEF InnerOf
      <4>3. list[i].inner[j].id # list[m].id BY <4>1, <4>2, <1>3, <1>6, <1>11 DEF RowsOk, Edit!Apart
      <4> QED BY <4>1, <4>2, <4>3, <3>1, <1>3, <1>6
    <3> QED BY <3>2, <3>3
  <2> QED BY <2>1, <2>2
<1>12. RowsOk(new) BY <1>5, <1>9, <1>10, <1>11 DEF RowsOk, Edit!Apart
<1> QED BY <1>12 DEF new

\* The new rows of blocks add and blocks cp.
LEMMA NewRows ==
  ASSUME NEW t \in Types
  PROVE  /\ Blank(Edit!NewRow(t)) /\ Edit!NoIds(Edit!NewRow(t))
         /\ Edit!NewInnerRow(t) \in Edit!InnerRow /\ Edit!NewInnerRow(t).id = Edit!NoId /\ Edit!NoIds(Edit!NewInnerRow(t))
<1>1. Blank(Edit!NewRow(t))
  BY DEF Blank, Edit!OuterRow, Edit!NewRow, Edit!NoId, Edit!Default
<1>2. Edit!IdsOf(Edit!NewRow(t)) = {Edit!NoId} /\ Edit!NewRow(t).id = Edit!NoId BY DEF Edit!NewRow, Edit!IdsOf
<1>3. Edit!NewInnerRow(t) \in Edit!InnerRow /\ Edit!NewInnerRow(t).id = Edit!NoId
  BY DEF Edit!InnerRow, Edit!NewInnerRow, Edit!NoId
<1>4. "inner" \notin DOMAIN Edit!NewInnerRow(t) BY DEF Edit!NewInnerRow
<1> QED BY <1>1, <1>2, <1>3, <1>4 DEF Edit!NoIds

LEMMA CopyIs ==
  ASSUME NEW row \in Edit!OuterRow, RowOk(row)
  PROVE  /\ Blank(Edit!StripIDs(row)) /\ Edit!NoIds(Edit!StripIDs(row))
         /\ Edit!StripIDs(row).text = row.text /\ Edit!StripIDs(row).type = row.type
<1> DEFINE copy == Edit!StripIDs(row)
           bare == [row EXCEPT !.id = Edit!NoId]
           in   == [i \in DOMAIN row.inner |-> [row.inner[i] EXCEPT !.id = Edit!NoId]]
<1>0. DOMAIN row = {"id", "type", "text", "secret", "rich", "inner"} BY DEF Edit!OuterRow
<1>1. CASE row.inner = Absent
  <2>1. copy = bare BY <1>1 DEF Edit!StripIDs
  <2>2. /\ copy \in Edit!OuterRow /\ copy.id = Edit!NoId /\ copy.secret = row.secret /\ copy.rich = row.rich
        /\ copy.inner = Absent /\ copy.text = row.text /\ copy.type = row.type
    BY <2>1, <1>1 DEF Edit!OuterRow, Edit!NoId
  <2> HIDE DEF copy
  <2>3. Edit!IdsOf(copy) = {Edit!NoId} BY <2>2 DEF Edit!IdsOf
  <2>4. Blank(copy) /\ Edit!NoIds(copy) BY <2>2, <2>3 DEF Blank, RowOk, Edit!NoIds
  <2> QED BY <2>2, <2>4 DEF copy
<1>2. CASE row.inner # Absent
  <2>1. copy = [bare EXCEPT !.inner = in] BY <1>0, <1>2 DEF Edit!StripIDs
  <2>2. row.inner \in Seq(Edit!InnerRow) BY <1>2 DEF Edit!OuterRow
  <2>3. in \in Seq(Edit!InnerRow)
    <3>1. \A i \in DOMAIN row.inner : row.inner[i] \in Edit!InnerRow BY <2>2, ElementOfSeq
    <3>2. \A i \in DOMAIN row.inner : [row.inner[i] EXCEPT !.id = Edit!NoId] \in Edit!InnerRow
      BY <3>1 DEF Edit!InnerRow, Edit!NoId
    <3>3. DOMAIN row.inner = 1 .. Len(row.inner) /\ Len(row.inner) \in Nat BY <2>2
    <3> QED BY <3>2, <3>3
  <2>4. \A j \in DOMAIN in : in[j].id = Edit!NoId
    <3>1. \A i \in DOMAIN row.inner : row.inner[i] \in Edit!InnerRow BY <2>2, ElementOfSeq
    <3> QED BY <3>1 DEF Edit!InnerRow
  <2> HIDE DEF in
  <2>5. /\ copy \in Edit!OuterRow /\ copy.id = Edit!NoId /\ copy.secret = row.secret /\ copy.rich = row.rich
        /\ copy.inner = in /\ copy.text = row.text /\ copy.type = row.type
    <3>1. /\ bare \in Edit!OuterRow /\ bare.id = Edit!NoId /\ bare.secret = row.secret /\ bare.rich = row.rich
          /\ bare.text = row.text /\ bare.type = row.type
      BY DEF Edit!OuterRow, Edit!NoId
    <3> HIDE DEF bare, copy
    <3> QED BY <3>1, <2>1, <2>3 DEF Edit!OuterRow
  <2> HIDE DEF copy
  <2>6. Edit!IdsOf(copy) = {Edit!NoId} BY <2>4, <2>5 DEF Edit!IdsOf
  <2>7. Blank(copy) /\ Edit!NoIds(copy) BY <2>4, <2>5, <2>6 DEF Blank, RowOk, Edit!NoIds
  <2> QED BY <2>5, <2>7 DEF copy
<1> QED BY <1>1, <1>2

LEMMA InnerCopyIs ==
  ASSUME NEW row \in Edit!InnerRow
  PROVE  /\ Edit!StripIDs(row) \in Edit!InnerRow /\ Edit!StripIDs(row).id = Edit!NoId /\ Edit!NoIds(Edit!StripIDs(row))
         /\ Edit!StripIDs(row).text = row.text /\ Edit!StripIDs(row).type = row.type
<1>0. "inner" \notin DOMAIN row BY DEF Edit!InnerRow
<1>1. Edit!StripIDs(row) = [row EXCEPT !.id = Edit!NoId] BY <1>0 DEF Edit!StripIDs
<1> QED BY <1>0, <1>1 DEF Edit!InnerRow, Edit!NoId, Edit!NoIds

-----------------------------------------------------------------------------
(* What each command makes of the rows of a place.                           *)

LEMMA ChangedIs ==
  ASSUME NEW row \in Edit!OuterRow, NEW c, Edit!ChangeOk(c), NEW new \in Edit!Changed(row, c), Absent \notin Seq(Edit!InnerRow)
  PROVE  Alike(new, row)
<1>0. DOMAIN row = {"id", "type", "text", "secret", "rich", "inner"} BY DEF Edit!OuterRow
<1>1. CASE c.at # Absent /\ c.value \in Int
  <2>1. row.inner # Absent BY <1>0, <1>1 DEF Edit!Changed
  <2>2. new \in {[row EXCEPT !.inner[i].text = c.value] : i \in Edit!One(row.inner, c.at)}
    BY <1>0, <1>1, <2>1 DEF Edit!Changed
  <2>3. PICK i \in Edit!One(row.inner, c.at) : new = [row EXCEPT !.inner[i].text = c.value] BY <2>2
  <2>4. i \in DOMAIN row.inner /\ row.inner \in Seq(Edit!InnerRow) BY <2>1, OneIs DEF Edit!OuterRow
  <2> DEFINE in == [row.inner EXCEPT ![i].text = c.value]
  <2>5. new = [row EXCEPT !.inner = in] BY <2>3
  <2>6. /\ in \in Seq(Edit!InnerRow) /\ DOMAIN in = DOMAIN row.inner
        /\ \A j \in DOMAIN row.inner : in[j].id = row.inner[j].id
    <3>1. \A j \in DOMAIN row.inner : row.inner[j] \in Edit!InnerRow BY <2>4, ElementOfSeq
    <3>2. [row.inner[i] EXCEPT !.text = c.value] \in Edit!InnerRow BY <3>1, <2>4, <1>1 DEF Edit!InnerRow
    <3>3. \A j \in DOMAIN row.inner : in[j] = IF j = i THEN [row.inner[i] EXCEPT !.text = c.value] ELSE row.inner[j]
      BY <2>4
    <3>4. DOMAIN in = DOMAIN row.inner OBVIOUS
    <3>5. DOMAIN row.inner = 1 .. Len(row.inner) /\ Len(row.inner) \in Nat BY <2>4
    <3>6. \A j \in DOMAIN row.inner : in[j] \in Edit!InnerRow BY <3>1, <3>2, <3>3
    <3>7. in \in [1 .. Len(row.inner) -> Edit!InnerRow] BY <3>4, <3>5, <3>6
    <3>8. \A j \in DOMAIN row.inner : in[j].id = row.inner[j].id BY <3>1, <3>3 DEF Edit!InnerRow
    <3> HIDE DEF in
    <3>9. in \in Seq(Edit!InnerRow) BY <3>5, <3>7
    <3> QED BY <3>4, <3>8, <3>9
  <2> HIDE DEF in
  <2>7. new.inner = in /\ new \in Edit!OuterRow /\ new.id = row.id /\ new.secret = row.secret /\ new.rich = row.rich
    BY <2>5, <2>6 DEF Edit!OuterRow
  <2>8. new.inner # Absent BY <2>6, <2>7
  <2> QED BY <2>1, <2>6, <2>7, <2>8 DEF Alike
<1>2. CASE c.at = Absent /\ c.clear = FALSE
  <2>1. new = [row EXCEPT ![c.key] = c.value] BY <1>2 DEF Edit!Changed
  <2>2. CASE c.key = "text" /\ c.value \in Int
    <3>1. new = [row EXCEPT !.text = c.value] BY <2>1, <2>2
    <3>2. /\ new \in Edit!OuterRow /\ new.id = row.id /\ new.secret = row.secret /\ new.rich = row.rich
          /\ new.inner = row.inner
      BY <3>1, <2>2 DEF Edit!OuterRow
    <3> QED BY <3>2 DEF Alike
  <2>3. CASE c.key = "type" /\ c.value \in Types
    <3>1. new = [row EXCEPT !.type = c.value] BY <2>1, <2>3
    <3>2. /\ new \in Edit!OuterRow /\ new.id = row.id /\ new.secret = row.secret /\ new.rich = row.rich
          /\ new.inner = row.inner
      BY <3>1, <2>3 DEF Edit!OuterRow
    <3> QED BY <3>2 DEF Alike
  <2> QED BY <1>2, <2>2, <2>3 DEF Edit!ChangeOk
<1>3. CASE c.at = Absent /\ c.clear = TRUE /\ c.key = "text"
  <2>1. new = [row EXCEPT ![c.key] = Edit!Null] BY <1>3 DEF Edit!Changed
  <2>2. new = [row EXCEPT !.text = Edit!Null] BY <1>3, <2>1
  <2>3. /\ new \in Edit!OuterRow /\ new.id = row.id /\ new.secret = row.secret /\ new.rich = row.rich
        /\ new.inner = row.inner
    BY <2>2 DEF Edit!OuterRow, Edit!Null
  <2> QED BY <2>3 DEF Alike
<1>4. CASE c.at = Absent /\ c.clear = TRUE /\ c.key = "inner"
  <2>1. CASE row.inner = Absent
    <3>1. new = row BY <1>0, <1>4, <2>1 DEF Edit!Changed
    <3> QED BY <3>1, AlikeItself
  <2>2. CASE row.inner # Absent
    <3>1. new = [row EXCEPT !.inner = <<>>] BY <1>0, <1>4, <2>2 DEF Edit!Changed
    <3>a. <<>> \in Seq(Edit!InnerRow) OBVIOUS
    <3>2. <<>> \in Seq(Edit!InnerRow) /\ <<>> # Absent BY <3>a, Zenon
    <3>3. /\ new \in Edit!OuterRow /\ new.id = row.id /\ new.secret = row.secret /\ new.rich = row.rich
          /\ new.inner = <<>>
      BY <3>1, <3>2 DEF Edit!OuterRow
    <3> QED BY <3>2, <3>3, <2>2 DEF Alike
  <2> QED BY <2>1, <2>2
<1> QED BY <1>1, <1>2, <1>3, <1>4 DEF Edit!ChangeOk

LEMMA InnerChangedIs ==
  ASSUME NEW row \in Edit!InnerRow, NEW c, Edit!ChangeOk(c), NEW new \in Edit!Changed(row, c)
  PROVE  new \in Edit!InnerRow /\ new.id = row.id
<1>0. "inner" \notin DOMAIN row BY DEF Edit!InnerRow
<1>1. c.at = Absent BY <1>0 DEF Edit!Changed
<1>2. CASE c.clear = FALSE
  <2>1. new = [row EXCEPT ![c.key] = c.value] BY <1>1, <1>2 DEF Edit!Changed
  <2>2. CASE c.key = "text" /\ c.value \in Int BY <2>1, <2>2 DEF Edit!InnerRow
  <2>3. CASE c.key = "type" /\ c.value \in Types BY <2>1, <2>3 DEF Edit!InnerRow
  <2> QED BY <1>1, <1>2, <2>2, <2>3 DEF Edit!ChangeOk
<1>3. CASE c.clear = TRUE /\ c.key = "text"
  <2>1. new = [row EXCEPT ![c.key] = Edit!Null] BY <1>1, <1>3 DEF Edit!Changed
  <2> QED BY <1>3, <2>1 DEF Edit!InnerRow, Edit!Null
<1>4. CASE c.clear = TRUE /\ c.key = "inner"
  <2>1. new = row BY <1>0, <1>1, <1>4 DEF Edit!Changed
  <2> QED BY <2>1
<1> QED BY <1>1, <1>2, <1>3, <1>4 DEF Edit!ChangeOk

LEMMA SetIs ==
  ASSUME NEW T, NEW rows \in Seq(T), NEW i \in DOMAIN rows, NEW row \in T
  PROVE  /\ [rows EXCEPT ![i] = row] \in Seq(T)
         /\ DOMAIN [rows EXCEPT ![i] = row] = DOMAIN rows
         /\ Len([rows EXCEPT ![i] = row]) = Len(rows)
         /\ [rows EXCEPT ![i] = row][i] = row
         /\ \A j \in DOMAIN rows \ {i} : [rows EXCEPT ![i] = row][j] = rows[j]
<1>1. \A j \in DOMAIN rows : rows[j] \in T BY ElementOfSeq
<1>2. DOMAIN rows = 1 .. Len(rows) /\ Len(rows) \in Nat OBVIOUS
<1>3. [rows EXCEPT ![i] = row] \in [1 .. Len(rows) -> T] BY <1>1, <1>2
<1>4. [rows EXCEPT ![i] = row] \in Seq(T) BY <1>2, <1>3
<1>5. DOMAIN [rows EXCEPT ![i] = row] = DOMAIN rows OBVIOUS
<1>6. Len([rows EXCEPT ![i] = row]) = Len(rows) BY <1>2, <1>4, <1>5, LenProperties
<1> QED BY <1>4, <1>5, <1>6

Agrees(l, op) == l.verb = op.verb /\ l.src = op.src /\ l.at = op.at /\ l.anchor = op.anchor

\* The rows a stage may be given, and what it may hand on for them.
Offered(p) ==
  \/ p.row = 0 /\ RowsOk(p.rows)
  \/ p.row # 0 /\ p.rows \in Seq(Edit!InnerRow)

Fits(p, list) ==
  \/ p.row = 0 /\ \E g : Stems(list, p.rows, g)
  \/ p.row # 0 /\ \E g : InnerStems(list, p.rows, g)

\* A stage fails, or hands on rows that fit, having done what its entry says.
Handed(p) ==
  \/ \E code : Edit!Fails(code)
  \/ \E list, op : /\ Edit!Emits(p, list, op) /\ Fits(p, list)
                   /\ op.verb \in {"mv", "add", "cp", "rm", "set"} /\ DOMAIN op = DOMAIN Edit!NoOp
                   /\ \A l : Agrees(l, op) => Edit!Does(p.rows, list, l)

LEMMA ShuffleFits ==
  ASSUME NEW p, Offered(p), NEW list, list \in Seq(IF p.row = 0 THEN Edit!OuterRow ELSE Edit!InnerRow),
         NEW g, NEW new, Shuffle(list, p.rows, g, new),
         \/ \A k \in DOMAIN list : g[k] # 0
         \/ p.row = 0 /\ Blank(new)
         \/ p.row # 0 /\ new.id = Edit!NoId
  PROVE  Fits(p, list)
<1>1. CASE p.row = 0
  <2>1. p.rows \in Seq(Edit!OuterRow) /\ list \in Seq(Edit!OuterRow) BY <1>1 DEF Offered, RowsOk
  <2>2. Stems(list, p.rows, g) BY <2>1, <1>1, ShuffleStems
  <2> QED BY <2>2, <1>1 DEF Fits
<1>2. CASE p.row # 0
  <2>1. p.rows \in Seq(Edit!InnerRow) /\ list \in Seq(Edit!InnerRow) BY <1>2 DEF Offered
  <2>2. InnerStems(list, p.rows, g) BY <2>1, <1>2, ShuffleInnerStems
  <2> QED BY <2>2, <1>2 DEF Fits
<1> QED BY <1>1, <1>2

LEMMA MovesHand ==
  ASSUME NEW p, Offered(p), Edit!Asked, Edit!Moves(p), Absent \notin Seq(Edit!InnerRow)
  PROVE  Handed(p)
<1> DEFINE rows == p.rows
           T == IF p.row = 0 THEN Edit!OuterRow ELSE Edit!InnerRow
<1>t. rows \in Seq(T) BY DEF Offered, RowsOk
<1>1. PICK sel \in Selectors, a \in Anchors \ {Edit!AtEnd} :
        IF Edit!One(rows, sel) = {} THEN Edit!Fails(Edit!Missed(rows, sel))
        ELSE \E src \in Edit!One(rows, sel) :
          \/ Edit!MovePoint(rows, src, a) = {} /\ Edit!Fails("invalid_args")
          \/ \E n \in Edit!MovePoint(rows, src, a) :
               Edit!Emits(p, Edit!Move(rows, src, n),
                          [Edit!NoOp EXCEPT !.verb = "mv", !.src = {src}, !.at = n + 1, !.anchor = a])
  BY DEF Edit!Moves
<1>2. CASE Edit!Fails(Edit!Missed(rows, sel)) BY <1>2 DEF Handed
<1>3. ASSUME NEW src \in Edit!One(rows, sel), Edit!Fails("invalid_args") PROVE Handed(p)
  BY <1>3 DEF Handed
<1>4. ASSUME NEW src \in Edit!One(rows, sel), NEW n \in Edit!MovePoint(rows, src, a),
             Edit!Emits(p, Edit!Move(rows, src, n),
                        [Edit!NoOp EXCEPT !.verb = "mv", !.src = {src}, !.at = n + 1, !.anchor = a])
      PROVE  Handed(p)
  <2> DEFINE out == Edit!Move(rows, src, n)
             op  == [Edit!NoOp EXCEPT !.verb = "mv", !.src = {src}, !.at = n + 1, !.anchor = a]
  <2>0. src \in DOMAIN rows BY OneIs
  <2>1. a.mode \in {"append", "index", "before", "after"} /\ a.n \in Int BY DEF Edit!Asked
  <2>2. op.verb = "mv" /\ op.src = {src} /\ op.at = n + 1 /\ op.anchor = a /\ DOMAIN op = DOMAIN Edit!NoOp BY DEF Edit!NoOp
  <2>3. Edit!Emits(p, out, op) BY <1>4
  <2> HIDE DEF op, T, rows
  <2>4. ASSUME NEW l, Agrees(l, op) PROVE Edit!Does(rows, out, l)
    <3>1. l.verb = "mv" /\ l.src = {src} /\ l.at = n + 1 /\ l.anchor = a BY <2>2, <2>4 DEF Agrees
    <3>2. Edit!RemoveAt(out, l.at) = Edit!RemoveAt(rows, src) BY <1>t, <2>0, <2>1, <3>1, MoveExact
    <3>3. out[l.at] = rows[src] BY <1>t, <2>0, <2>1, <3>1, MoveExact
    <3>4. Edit!Lands(rows, out, l) BY <1>t, <2>0, <2>1, <3>1, MoveExact
    <3> HIDE DEF out
    <3> QED BY <3>1, <3>2, <3>3, <3>4 DEF Edit!Does
  <2> DEFINE l0 == [at |-> n + 1, anchor |-> a]
  <2>5. l0.at = n + 1 /\ l0.anchor = a OBVIOUS
  <2> HIDE DEF l0
  <2>6. out \in Seq(T) BY <1>t, <2>0, <2>1, <2>5, MoveExact
  <2>7. \E g : Shuffle(out, rows, g, rows[src]) /\ \A k \in DOMAIN out : g[k] # 0
    BY <1>t, <2>0, <2>1, <2>5, MoveExact
  <2> HIDE DEF out
  <2>10. Fits(p, out) BY <1>t, <2>6, <2>7, ShuffleFits DEF rows, T
  <2> QED BY <2>2, <2>3, <2>4, <2>10 DEF Handed, rows
<1> QED BY <1>1, <1>2, <1>3, <1>4

LEMMA RemovesHand ==
  ASSUME NEW p, Offered(p), Edit!Removes(p)
  PROVE  Handed(p)
<1> DEFINE rows == p.rows
           T == IF p.row = 0 THEN Edit!OuterRow ELSE Edit!InnerRow
           hits(all, sel) == IF all THEN Edit!Match(rows, sel) ELSE Edit!One(rows, sel)
           idx(all, sels) == UNION {hits(all, sel) : sel \in sels}
<1>t. rows \in Seq(T) BY DEF Offered, RowsOk
<1>1. PICK sels \in {s \in SUBSET Selectors : Edit!Cardinality(s) \in 1 .. 2}, all \in BOOLEAN :
        IF \E sel \in sels : hits(all, sel) = {}
        THEN \E sel \in sels : hits(all, sel) = {} /\ Edit!Fails(Edit!Missed(rows, sel))
        ELSE Edit!Emits(p, Edit!RemoveAll(rows, idx(all, sels)),
                        [Edit!NoOp EXCEPT !.verb = "rm", !.src = idx(all, sels)])
  BY DEF Edit!Removes
<1>2. CASE \E sel \in sels : hits(all, sel) = {} /\ Edit!Fails(Edit!Missed(rows, sel)) BY <1>2 DEF Handed
<1>3. CASE /\ ~ \E sel \in sels : hits(all, sel) = {}
           /\ Edit!Emits(p, Edit!RemoveAll(rows, idx(all, sels)),
                         [Edit!NoOp EXCEPT !.verb = "rm", !.src = idx(all, sels)])
  <2> DEFINE src == idx(all, sels)
             out == Edit!RemoveAll(rows, src)
             op  == [Edit!NoOp EXCEPT !.verb = "rm", !.src = src]
  <2>0. src # {}
    <3>1. sels # {}
      <4>1. Edit!Cardinality({}) = 0 BY CardIs, FS_EmptySet
      <4> QED BY <4>1
    <3> QED BY <3>1, <1>3
  <2>3. Edit!Emits(p, out, op) BY <1>3
  <2> HIDE DEF hits, idx, src
  <2>2. op.verb = "rm" /\ op.src = src /\ DOMAIN op = DOMAIN Edit!NoOp BY DEF Edit!NoOp
  <2> HIDE DEF op, T, rows
  <2>4. out \in Seq(T) BY <1>t, RemoveAllIs
  <2>5. PICK f : Picks(rows, src, out, f) BY <1>t, RemoveAllIs
  <2> HIDE DEF out
  <2>6. Edit!Without(rows, out, src) BY <2>5 DEF Picks, Edit!Without
  <2>7. ASSUME NEW l, Agrees(l, op) PROVE Edit!Does(rows, out, l)
    <3>1. l.verb = "rm" /\ l.src = src BY <2>2, <2>7 DEF Agrees
    <3> QED BY <3>1, <2>0, <2>6 DEF Edit!Does
  <2>8. Shuffle(out, rows, f, 0) /\ \A k \in DOMAIN out : f[k] # 0
    <3>1. DOMAIN rows = 1 .. Len(rows) /\ Len(rows) \in Nat /\ DOMAIN out = 1 .. Len(out) /\ Len(out) \in Nat
      BY <1>t, <2>4
    <3>2. \A k \in DOMAIN out : f[k] \in DOMAIN rows /\ f[k] # 0 BY <2>5, <3>1 DEF Picks
    <3>3. f \in [DOMAIN out -> DOMAIN rows \cup {0}] BY <2>5 DEF Picks
    <3>4. ASSUME NEW j \in DOMAIN out, NEW k \in DOMAIN out, f[j] = f[k] PROVE j = k
      <4>1. ~(j < k) /\ ~(k < j) BY <2>5, <3>1, <3>2, <3>4 DEF Picks
      <4> QED BY <4>1, <3>1
    <3>5. \A k \in DOMAIN out : out[k] = rows[f[k]] BY <2>5 DEF Picks
    <3> QED BY <3>2, <3>3, <3>4, <3>5 DEF Shuffle
  <2>9. Fits(p, out) BY <2>4, <2>8, ShuffleFits DEF rows, T
  <2> QED BY <2>2, <2>3, <2>7, <2>9 DEF Handed, rows
<1> QED BY <1>1, <1>2, <1>3

LEMMA AddsHand ==
  ASSUME NEW p, Offered(p), Edit!Asked, Edit!Adds(p)
  PROVE  Handed(p)
<1> DEFINE rows == p.rows
           T == IF p.row = 0 THEN Edit!OuterRow ELSE Edit!InnerRow
           type(slug) == IF slug = "-" \/ Edit!Kinds(p) = "array" THEN "" ELSE slug
           new(slug) == IF p.row = 0 THEN Edit!NewRow(type(slug)) ELSE Edit!NewInnerRow(type(slug))
<1>t. rows \in Seq(T) BY DEF Offered, RowsOk
<1>1. PICK slug \in Slugs, a \in Anchors :
        \/ \E code : Edit!Fails(code)
        \/ \E n \in Edit!InsertPoint(rows, a) :
             Edit!Emits(p, Edit!Insert(rows, n, new(slug)),
                        [Edit!NoOp EXCEPT !.verb = "add", !.at = n + 1, !.anchor = a])
  BY DEF Edit!Adds
<1>2. CASE \E code : Edit!Fails(code) BY <1>2 DEF Handed
<1>3. ASSUME NEW n \in Edit!InsertPoint(rows, a),
             Edit!Emits(p, Edit!Insert(rows, n, new(slug)),
                        [Edit!NoOp EXCEPT !.verb = "add", !.at = n + 1, !.anchor = a])
      PROVE  Handed(p)
  <2> DEFINE row == new(slug)
             out == Edit!Insert(rows, n, row)
             op  == [Edit!NoOp EXCEPT !.verb = "add", !.at = n + 1, !.anchor = a]
             l0  == [at |-> n + 1, anchor |-> a]
  <2>1. a.mode \in {"append", "index", "before", "after"} /\ a.n \in Int BY DEF Edit!Asked
  <2>2. op.verb = "add" /\ op.at = n + 1 /\ op.anchor = a /\ DOMAIN op = DOMAIN Edit!NoOp BY DEF Edit!NoOp
  <2>3. Edit!Emits(p, out, op) BY <1>3
  <2>4. type(slug) \in Types BY DEF Edit!Asked
  <2> HIDE DEF type
  <2>5. /\ row \in T /\ Edit!NoIds(row)
        /\ \/ p.row = 0 /\ Blank(row)
           \/ p.row # 0 /\ row.id = Edit!NoId
    BY <2>4, NewRows DEF Blank
  <2>6. l0.at = n + 1 /\ l0.anchor = a OBVIOUS
  <2> HIDE DEF op, T, rows, row, l0
  <2>7. ASSUME NEW l, Agrees(l, op) PROVE Edit!Does(rows, out, l)
    <3>1. l.verb = "add" /\ l.at = n + 1 /\ l.anchor = a BY <2>2, <2>7 DEF Agrees
    <3>2. Edit!RemoveAt(out, l.at) = rows BY <1>t, <2>1, <2>5, <3>1, InsertExact
    <3>3. out[l.at] = row BY <1>t, <2>1, <2>5, <3>1, InsertExact
    <3>4. Edit!Lands(rows, out, l) BY <1>t, <2>1, <2>5, <3>1, InsertExact
    <3> HIDE DEF out
    <3> QED BY <3>1, <3>2, <3>3, <3>4, <2>5 DEF Edit!Does
  <2>8. out \in Seq(T) BY <1>t, <2>1, <2>5, <2>6, InsertExact
  <2>9. \E g : Shuffle(out, rows, g, row) BY <1>t, <2>1, <2>5, <2>6, InsertExact
  <2> HIDE DEF out
  <2>10. Fits(p, out) BY <2>5, <2>8, <2>9, ShuffleFits DEF rows, T
  <2> QED BY <2>2, <2>3, <2>7, <2>10 DEF Handed, rows
<1> QED BY <1>1, <1>2, <1>3

LEMMA CopiesHand ==
  ASSUME NEW p, Offered(p), Edit!Asked, Edit!Copies(p)
  PROVE  Handed(p)
<1> DEFINE rows == p.rows
           T == IF p.row = 0 THEN Edit!OuterRow ELSE Edit!InnerRow
<1>t. rows \in Seq(T) BY DEF Offered, RowsOk
<1>1. PICK sel \in Selectors, a \in Anchors :
        \/ \E code : Edit!Fails(code)
        \/ \E src \in Edit!One(rows, sel), n \in Edit!InsertPoint(rows, a) :
             Edit!Emits(p, Edit!Insert(rows, n, Edit!StripIDs(rows[src])),
                        [Edit!NoOp EXCEPT !.verb = "cp", !.src = {src}, !.at = n + 1, !.anchor = a])
  BY DEF Edit!Copies
<1>2. CASE \E code : Edit!Fails(code) BY <1>2 DEF Handed
<1>3. ASSUME NEW src \in Edit!One(rows, sel), NEW n \in Edit!InsertPoint(rows, a),
             Edit!Emits(p, Edit!Insert(rows, n, Edit!StripIDs(rows[src])),
                        [Edit!NoOp EXCEPT !.verb = "cp", !.src = {src}, !.at = n + 1, !.anchor = a])
      PROVE  Handed(p)
  <2> DEFINE row == Edit!StripIDs(rows[src])
             out == Edit!Insert(rows, n, row)
             op  == [Edit!NoOp EXCEPT !.verb = "cp", !.src = {src}, !.at = n + 1, !.anchor = a]
             l0  == [at |-> n + 1, anchor |-> a]
  <2>0. src \in DOMAIN rows BY OneIs
  <2>1. a.mode \in {"append", "index", "before", "after"} /\ a.n \in Int BY DEF Edit!Asked
  <2>2. op.verb = "cp" /\ op.src = {src} /\ op.at = n + 1 /\ op.anchor = a /\ DOMAIN op = DOMAIN Edit!NoOp BY DEF Edit!NoOp
  <2>3. Edit!Emits(p, out, op) BY <1>3
  <2>5. /\ row \in T /\ Edit!NoIds(row) /\ row.text = rows[src].text /\ row.type = rows[src].type
        /\ \/ p.row = 0 /\ Blank(row)
           \/ p.row # 0 /\ row.id = Edit!NoId
    <3>1. CASE p.row = 0
      <4>1. rows[src] \in Edit!OuterRow /\ RowOk(rows[src]) BY <3>1, <2>0, ElementOfSeq DEF Offered, RowsOk
      <4> QED BY <3>1, <4>1, CopyIs DEF Blank
    <3>2. CASE p.row # 0
      <4>1. rows[src] \in Edit!InnerRow BY <3>2, <2>0, ElementOfSeq DEF Offered
      <4> QED BY <3>2, <4>1, InnerCopyIs
    <3> QED BY <3>1, <3>2
  <2>6. l0.at = n + 1 /\ l0.anchor = a OBVIOUS
  <2> HIDE DEF op, T, rows, row, l0
  <2>7. ASSUME NEW l, Agrees(l, op) PROVE Edit!Does(rows, out, l)
    <3>1. l.verb = "cp" /\ l.src = {src} /\ l.at = n + 1 /\ l.anchor = a BY <2>2, <2>7 DEF Agrees
    <3>2. Edit!RemoveAt(out, l.at) = rows BY <1>t, <2>1, <2>5, <3>1, InsertExact
    <3>3. out[l.at] = row BY <1>t, <2>1, <2>5, <3>1, InsertExact
    <3>4. Edit!Lands(rows, out, l) BY <1>t, <2>1, <2>5, <3>1, InsertExact
    <3> HIDE DEF out
    <3> QED BY <3>1, <3>2, <3>3, <3>4, <2>5 DEF Edit!Does
  <2>8. out \in Seq(T) BY <1>t, <2>1, <2>5, <2>6, InsertExact
  <2>9. \E g : Shuffle(out, rows, g, row) BY <1>t, <2>1, <2>5, <2>6, InsertExact
  <2> HIDE DEF out
  <2>10. Fits(p, out) BY <2>5, <2>8, <2>9, ShuffleFits DEF rows, T
  <2> QED BY <2>2, <2>3, <2>7, <2>10 DEF Handed, rows
<1> QED BY <1>1, <1>2, <1>3

LEMMA SetsHand ==
  ASSUME NEW p, Offered(p), Edit!Asked, Edit!SetsRow(p), Absent \notin Seq(Edit!InnerRow)
  PROVE  Handed(p)
<1> DEFINE rows == p.rows
           T == IF p.row = 0 THEN Edit!OuterRow ELSE Edit!InnerRow
<1>t. rows \in Seq(T) BY DEF Offered, RowsOk
<1>1. PICK sel \in Selectors, c \in Changes :
        \/ \E code : Edit!Fails(code)
        \/ \E i \in Edit!One(rows, sel) : \E row \in Edit!Changed(rows[i], c) :
             Edit!Emits(p, [rows EXCEPT ![i] = row], [Edit!NoOp EXCEPT !.verb = "set", !.src = {i}])
  BY DEF Edit!SetsRow
<1>2. CASE \E code : Edit!Fails(code) BY <1>2 DEF Handed
<1>3. ASSUME NEW i \in Edit!One(rows, sel), NEW row \in Edit!Changed(rows[i], c),
             Edit!Emits(p, [rows EXCEPT ![i] = row], [Edit!NoOp EXCEPT !.verb = "set", !.src = {i}])
      PROVE  Handed(p)
  <2> DEFINE out == [rows EXCEPT ![i] = row]
             op  == [Edit!NoOp EXCEPT !.verb = "set", !.src = {i}]
             g   == [k \in DOMAIN rows |-> k]
  <2>0. i \in DOMAIN rows /\ rows[i] \in T BY <1>t, OneIs, ElementOfSeq
  <2>1. Edit!ChangeOk(c) BY DEF Edit!Asked
  <2>2. op.verb = "set" /\ op.src = {i} /\ DOMAIN op = DOMAIN Edit!NoOp BY DEF Edit!NoOp
  <2>3. Edit!Emits(p, out, op) BY <1>3
  <2>4. row \in T /\ row.id = rows[i].id /\ (p.row = 0 => Alike(row, rows[i]))
    <3>1. CASE p.row = 0
      <4>1. Alike(row, rows[i]) BY <3>1, <2>0, <2>1, ChangedIs
      <4> QED BY <3>1, <4>1 DEF Alike
    <3>2. CASE p.row # 0 BY <3>2, <2>0, <2>1, InnerChangedIs
    <3> QED BY <3>1, <3>2
  <2> HIDE DEF op, T
  <2>5. /\ out \in Seq(T) /\ DOMAIN out = DOMAIN rows /\ Len(out) = Len(rows) /\ out[i] = row
        /\ \A j \in DOMAIN rows \ {i} : out[j] = rows[j]
    BY <1>t, <2>0, <2>4, SetIs
  <2>d. DOMAIN rows = 1 .. Len(rows) /\ Len(rows) \in Nat BY <1>t
  <2> HIDE DEF out, rows
  <2>6. ASSUME NEW l, Agrees(l, op) PROVE Edit!Does(rows, out, l)
    <3>1. l.verb = "set" /\ l.src = {i} BY <2>2, <2>6 DEF Agrees
    <3>2. out[i].id = rows[i].id BY <2>4, <2>5
    <3> QED BY <3>1, <3>2, <2>5 DEF Edit!Does
  <2>7. g \in [DOMAIN out -> DOMAIN rows \cup {0}] /\ \A k \in DOMAIN out : g[k] = k /\ g[k] # 0
    BY <2>5, <2>d
  <2> HIDE DEF g
  <2>8. Fits(p, out)
    <3>1. CASE p.row = 0
      <4>1. \A k \in DOMAIN out : Alike(out[k], rows[k])
        <5>1. \A k \in DOMAIN rows : rows[k] \in Edit!OuterRow BY <3>1, <1>t, ElementOfSeq DEF T
        <5> QED BY <5>1, <3>1, <2>4, <2>5, AlikeItself
      <4>2. Stems(out, rows, g) BY <4>1, <2>5, <2>7, <3>1 DEF Stems, T
      <4> QED BY <4>2, <3>1 DEF Fits, rows
    <3>2. CASE p.row # 0
      <4>1. \A k \in DOMAIN out : out[k].id = rows[k].id BY <2>4, <2>5
      <4>2. InnerStems(out, rows, g) BY <4>1, <2>5, <2>7, <3>2 DEF InnerStems, T
      <4> QED BY <4>2, <3>2 DEF Fits, rows
    <3> QED BY <3>1, <3>2
  <2> QED BY <2>2, <2>3, <2>6, <2>8 DEF Handed, rows
<1> QED BY <1>1, <1>2, <1>3

-----------------------------------------------------------------------------
(* Stages.                                                                   *)

\* A document on a pipe.
PipeOk(d) ==
  /\ d \in [title : Int, layout : Seq(Edit!OuterRow) \cup {Absent}, footer : Seq(Edit!OuterRow) \cup {Absent}]
  /\ \A f \in Edit!Blocks : d[f] # Absent => RowsOk(d[f])

\* The rows of a place of a document.
PlaceOk(d, p) ==
  /\ p.root \in Edit!Blocks
  /\ \/ /\ p.row = 0 /\ p.rows = IF d[p.root] = Absent THEN <<>> ELSE d[p.root]
        /\ d[p.root] = Absent => <<"field_absent", p.root>> \in p.warned
     \/ /\ p.row # 0 /\ d[p.root] # Absent /\ p.row \in DOMAIN d[p.root]
        /\ p.rows = InnerOf(d[p.root][p.row])
        /\ d[p.root][p.row].inner = Absent => <<"field_absent", p.root>> \in p.warned

\* A place is found, or is the error it is instead.
Located(p) == p.code = ""

LEMMA PlaceIs ==
  ASSUME NEW f, NEW i, NEW list, NEW w, NEW p, p = Edit!Place(f, i, list, w)
  PROVE  /\ p.root = f /\ p.row = i /\ p.rows = list /\ p.warned = w
         /\ DOMAIN p = {"code", "root", "row", "rows", "warned"}
BY Zenon DEF Edit!Place

LEMMA NowhereIs ==
  ASSUME NEW code, NEW p, p = Edit!Nowhere(code)
  PROVE  p.code = code
BY Zenon DEF Edit!Nowhere

\* p stands for q: a name for the value of an operator.
Is(p, q) == p = q

LEMMA LocateOk ==
  ASSUME NEW d, PipeOk(d), NEW f, f.root \in Edit!Blocks, NEW p, Is(p, Edit!Locate(d, f)), Located(p)
  PROVE  PlaceOk(d, p)
<1>1. CASE f.row = Absent /\ d[f.root] = Absent
  <2>1. p = Edit!Place(f.root, 0, <<>>, {<<"field_absent", f.root>>}) BY <1>1 DEF Edit!Locate, Is
  <2> QED BY <2>1, <1>1, PlaceIs DEF PlaceOk
<1>2. CASE f.row = Absent /\ d[f.root] # Absent
  <2>1. p = Edit!Place(f.root, 0, d[f.root], {}) BY <1>2 DEF Edit!Locate, Is
  <2> QED BY <2>1, <1>2, PlaceIs DEF PlaceOk
<1>3. CASE f.row # Absent /\ d[f.root] = Absent
  <2>1. p = Edit!Nowhere("selector_no_match") BY <1>3 DEF Edit!Locate, Is
  <2>2. p.code = "selector_no_match" BY <2>1, NowhereIs
  <2> QED BY <2>2, Zenon DEF Located
<1>4. CASE f.row # Absent /\ d[f.root] # Absent
  <2>0. PICK list : Is(list, d[f.root]) BY DEF Is
  <2>i. PICK i : i = CHOOSE k \in Edit!One(list, f.row) : TRUE OBVIOUS
  <2>1. p = IF Edit!One(list, f.row) = {} THEN Edit!Nowhere(Edit!Missed(list, f.row))
            ELSE IF list[i].inner # Absent THEN Edit!Place(f.root, i, list[i].inner, {})
            ELSE IF Edit!KnownRowArray(d, list[i].type) THEN Edit!Place(f.root, i, <<>>, {<<"field_absent", f.root>>})
            ELSE Edit!Nowhere("unknown_field")
    BY <1>4, <2>0, <2>i DEF Edit!Locate, Is
  <2>2. CASE Edit!One(list, f.row) = {}
    <3>0. PICK c : Is(c, Edit!Missed(list, f.row)) BY DEF Is
    <3>1. p = Edit!Nowhere(c) BY <2>1, <2>2, <3>0 DEF Is
    <3>2. p.code = c BY <3>1, NowhereIs
    <3>3. c # "" BY <3>0, Zenon DEF Edit!Missed, Is
    <3> QED BY <3>2, <3>3, Zenon DEF Located
  <2>3. CASE Edit!One(list, f.row) # {}
    <3>1. i \in Edit!One(list, f.row) BY <2>3, <2>i
    <3>2. i \in DOMAIN list BY <3>1, OneIs
    <3>3. list \in Seq(Edit!OuterRow) BY <1>4, <2>0 DEF PipeOk, RowsOk, Is
    <3>4. i # 0
      <4>1. DOMAIN list = 1 .. Len(list) BY <3>3
      <4> QED BY <4>1, <3>2
    <3>5. CASE list[i].inner # Absent
      <4>1. p = Edit!Place(f.root, i, list[i].inner, {}) BY <2>1, <2>3, <3>5
      <4>2. p.root = f.root /\ p.row = i /\ p.rows = list[i].inner BY <4>1, PlaceIs
      <4>3. list = d[f.root] BY <2>0 DEF Is
      <4>4. p.rows = InnerOf(list[i]) BY <4>2, <3>5 DEF InnerOf
      <4> QED BY <4>2, <4>3, <4>4, <3>2, <3>4, <3>5, <1>4 DEF PlaceOk
    <3>6. CASE list[i].inner = Absent /\ Edit!KnownRowArray(d, list[i].type)
      <4>1. p = Edit!Place(f.root, i, <<>>, {<<"field_absent", f.root>>}) BY <2>1, <2>3, <3>6
      <4>2. p.root = f.root /\ p.row = i /\ p.rows = <<>> /\ p.warned = {<<"field_absent", f.root>>} BY <4>1, PlaceIs
      <4>3. list = d[f.root] BY <2>0 DEF Is
      <4>4. p.rows = InnerOf(list[i]) BY <4>2, <3>6 DEF InnerOf
      <4> QED BY <4>2, <4>3, <4>4, <3>2, <3>4, <3>6, <1>4 DEF PlaceOk
    <3>7. CASE list[i].inner = Absent /\ ~Edit!KnownRowArray(d, list[i].type)
      <4>1. p = Edit!Nowhere("unknown_field") BY <2>1, <2>3, <3>7
      <4>2. p.code = "unknown_field" BY <4>1, NowhereIs
      <4> QED BY <4>2, Zenon DEF Located
    <3> QED BY <3>5, <3>6, <3>7
  <2> QED BY <2>2, <2>3
<1> QED BY <1>1, <1>2, <1>3, <1>4

LEMMA LocateShape ==
  ASSUME NEW d, NEW f, f.root \in Edit!Blocks, NEW p, Is(p, Edit!Locate(d, f))
  PROVE  DOMAIN p = {"code", "root", "row", "rows", "warned"}
<1>1. (\E g, i, list, w : p = Edit!Place(g, i, list, w)) \/ (\E code : p = Edit!Nowhere(code))
  BY Zenon DEF Edit!Locate, Is
<1>2. \A code : DOMAIN Edit!Nowhere(code) = {"code", "root", "row", "rows", "warned"}
  BY Zenon DEF Edit!Nowhere
<1> QED BY <1>1, <1>2, PlaceIs

\* What a --field, or none, addresses.
LEMMA ResolveOk ==
  ASSUME pPipe.kind \in {"doc", "bare"}, PipeOk(pPipe.doc),
         pPipe.kind = "bare" => pPipe.doc.layout # Absent,
         NEW f \in Edit!FieldArgs, NEW STATE p, Is(p, Edit!Resolve(f)), Located(p)
  PROVE  PlaceOk(pPipe.doc, p)
<1>1. CASE pPipe.kind = "bare"
  <2>1. CASE f = Edit!NoField
    <3>1. p = Edit!Place("layout", 0, pPipe.doc.layout, {}) BY <1>1, <2>1 DEF Edit!Resolve, Is
    <3> QED BY <3>1, <1>1, PlaceIs DEF PlaceOk, Edit!Blocks
  <2>2. CASE f # Edit!NoField
    <3>1. p = Edit!Nowhere("invalid_args") BY <1>1, <2>2 DEF Edit!Resolve, Is
    <3>2. p.code = "invalid_args" BY <3>1, NowhereIs
    <3> QED BY <3>2, Zenon DEF Located
  <2> QED BY <2>1, <2>2
<1>2. CASE pPipe.kind # "bare" /\ f # Edit!NoField
  <2>0. PICK q : Is(q, Edit!Locate(pPipe.doc, f)) BY DEF Is
  <2>1. p = [q EXCEPT !.warned = @ \cup Edit!Stale(f)] BY <1>2, <2>0 DEF Edit!Resolve, Is
  <2>2. f.root \in Edit!Blocks
    <3>1. ASSUME NEW g \in Edit!Blocks, f = Edit!Top(g) PROVE f.root \in Edit!Blocks
      BY <3>1 DEF Edit!Top
    <3>2. ASSUME NEW s \in Entries, f = Edit!In("layout", s) PROVE f.root \in Edit!Blocks
      BY <3>2 DEF Edit!In, Edit!Blocks
    <3>3. f \in {Edit!Top(g) : g \in Edit!Blocks} \/ f \in {Edit!In("layout", s) : s \in Entries}
      BY <1>2 DEF Edit!FieldArgs
    <3> QED BY <3>1, <3>2, <3>3
  <2>4. DOMAIN q = {"code", "root", "row", "rows", "warned"} BY <2>0, <2>2, LocateShape
  <2>8. p.code = q.code BY <2>1, <2>4
  <2>9. Located(q) BY <2>8 DEF Located
  <2>5. PlaceOk(pPipe.doc, q) BY <2>0, <2>2, <2>9, LocateOk
  <2>6. p.root = q.root /\ p.row = q.row /\ p.rows = q.rows /\ p.warned = q.warned \cup Edit!Stale(f)
    BY <2>1, <2>4
  <2>7. PlaceOk(pPipe.doc, p) BY <2>5, <2>6 DEF PlaceOk
  <2> QED BY <2>7
<1>3. CASE pPipe.kind # "bare" /\ f = Edit!NoField
  <2>1. CASE Edit!PickRowField(pPipe.doc) = {}
    <3>1. p = Edit!Nowhere("field_ambiguous") BY <1>3, <2>1 DEF Edit!Resolve, Is
    <3>2. p.code = "field_ambiguous" BY <3>1, NowhereIs
    <3> QED BY <3>2, Zenon DEF Located
  <2>2. CASE Edit!PickRowField(pPipe.doc) # {}
    <3>0. PICK g : g = CHOOSE h \in Edit!PickRowField(pPipe.doc) : TRUE OBVIOUS
    <3>1. p = Edit!Locate(pPipe.doc, Edit!Top(g)) BY <1>3, <2>2, <3>0 DEF Edit!Resolve, Is
    <3>2. g \in Edit!PickRowField(pPipe.doc) BY <2>2, <3>0
    <3>3. g \in Edit!Blocks BY <3>2 DEF Edit!PickRowField, Edit!Carried
    <3>4. PICK t : Is(t, Edit!Top(g)) BY DEF Is
    <3>5. t.root \in Edit!Blocks BY <3>3, <3>4 DEF Edit!Top, Is
    <3>6. Is(p, Edit!Locate(pPipe.doc, t)) BY <3>1, <3>4 DEF Is
    <3> QED BY <3>5, <3>6, LocateOk
  <2> QED BY <2>1, <2>2
<1> QED BY <1>1, <1>2, <1>3

LEMMA PlaceGives ==
  ASSUME NEW d, PipeOk(d), NEW p, PlaceOk(d, p)
  PROVE  Offered(p)
<1>1. CASE p.row = 0
  <2>1. RowsOk(<<>>)
    <3>1. <<>> \in Seq(Edit!OuterRow) OBVIOUS
    <3> QED BY <3>1 DEF RowsOk, Edit!Distinct, Edit!Apart
  <2>0. p.root \in Edit!Blocks /\ p.rows = IF d[p.root] = Absent THEN <<>> ELSE d[p.root] BY <1>1 DEF PlaceOk
  <2>2. ASSUME d[p.root] = Absent PROVE RowsOk(p.rows)
    <3>1. p.rows = <<>> BY <2>0, <2>2
    <3> QED BY <2>1, <3>1
  <2>4. ASSUME d[p.root] # Absent PROVE RowsOk(p.rows)
    <3>1. p.rows = d[p.root] BY <2>0, <2>4
    <3> QED BY <2>0, <2>4, <3>1 DEF PipeOk
  <2>3. RowsOk(p.rows) BY <2>2, <2>4
  <2> QED BY <1>1, <2>3 DEF Offered
<1>2. CASE p.row # 0
  <2>1. /\ d[p.root] \in Seq(Edit!OuterRow) /\ p.row \in DOMAIN d[p.root]
        /\ p.rows = InnerOf(d[p.root][p.row])
    BY <1>2 DEF PlaceOk, PipeOk, RowsOk
  <2>2. d[p.root][p.row] \in Edit!OuterRow BY <2>1, ElementOfSeq
  <2>3. p.rows \in Seq(Edit!InnerRow)
    <3>1. <<>> \in Seq(Edit!InnerRow) OBVIOUS
    <3> QED BY <2>1, <2>2, <3>1 DEF InnerOf, Edit!OuterRow
  <2> QED BY <1>2, <2>3 DEF Offered
<1> QED BY <1>1, <1>2

\* What is handed on for a place is an array whose rows a listing can address.
LEMMA FitsIs ==
  ASSUME NEW d, PipeOk(d), NEW p, PlaceOk(d, p), NEW list, Fits(p, list), Edit!AbsentApart
  PROVE  /\ list # Absent /\ Edit!Distinct(list)
         /\ p.row = 0 => RowsOk(list)
         /\ p.row # 0 => list \in Seq(Edit!InnerRow)
         /\ \A i \in DOMAIN list : Edit!One(list, Edit!Selector(list, i)) = {i}
<1>0. Offered(p) BY PlaceGives
<1>1. CASE p.row = 0
  <2>1. RowsOk(list) BY <1>0, <1>1, StemsKeep DEF Offered, Fits
  <2>2. list \in Seq(Edit!OuterRow) /\ Edit!Distinct(list) BY <2>1 DEF RowsOk
  <2>3. list # Absent BY <2>2 DEF Edit!AbsentApart
  <2> QED BY <1>1, <2>1, <2>2, <2>3, Addressable
<1>2. CASE p.row # 0
  <2>1. PICK g : InnerStems(list, p.rows, g) BY <1>2 DEF Fits
  <2>2. d[p.root] # Absent /\ p.row \in DOMAIN d[p.root] /\ p.rows = InnerOf(d[p.root][p.row])
    BY <1>2 DEF PlaceOk
  <2>3. RowOk(d[p.root][p.row]) BY <2>2 DEF PipeOk, PlaceOk, RowsOk
  <2>4. Edit!Distinct(p.rows)
    <3>1. CASE d[p.root][p.row].inner = Absent
      <4>1. p.rows = <<>> BY <2>2, <3>1 DEF InnerOf
      <4> QED BY <4>1 DEF Edit!Distinct
    <3>2. CASE d[p.root][p.row].inner # Absent
      <4>1. p.rows = d[p.root][p.row].inner BY <2>2, <3>2 DEF InnerOf
      <4> QED BY <4>1, <3>2, <2>3 DEF RowOk
    <3> QED BY <3>1, <3>2
  <2>5. Edit!Distinct(list) /\ list \in Seq(Edit!InnerRow) BY <2>1, <2>4, InnerStemsKeep DEF InnerStems
  <2>6. list # Absent BY <2>5 DEF Edit!AbsentApart
  <2> QED BY <1>2, <2>5, <2>6, Addressable
<1> QED BY <1>1, <1>2

\* A document with what was handed on for a place.
LEMMA ReplaceIs ==
  ASSUME NEW d, PipeOk(d), NEW p, PlaceOk(d, p), NEW list, Fits(p, list), Edit!AbsentApart
  PROVE  /\ PipeOk(Edit!Replace(d, p, list))
         /\ Edit!Replace(d, p, list).title = d.title
         /\ \A f \in Edit!Blocks \ {p.root} : Edit!Replace(d, p, list)[f] = d[f]
         /\ p.row = 0 => Edit!Replace(d, p, list)[p.root] = list
         /\ p.row # 0 => Edit!Replace(d, p, list)[p.root] = [d[p.root] EXCEPT ![p.row].inner = list]
<1> DEFINE new == Edit!Replace(d, p, list)
           array == IF p.row = 0 THEN list ELSE [d[p.root] EXCEPT ![p.row].inner = list]
<1>0. p.root \in {"layout", "footer"} BY DEF PlaceOk, Edit!Blocks
<1>d. DOMAIN d = {"title", "layout", "footer"} BY DEF PipeOk
<1>1. new = [d EXCEPT ![p.root] = array]
  <2>1. CASE p.row = 0 BY <2>1 DEF Edit!Replace
  <2>2. CASE p.row # 0 BY <2>2 DEF Edit!Replace
  <2> QED BY <2>1, <2>2
<1>2. RowsOk(array)
  <2>1. CASE p.row = 0 BY <2>1, FitsIs
  <2>2. CASE p.row # 0
    <3>1. PICK g : InnerStems(list, p.rows, g) BY <2>2 DEF Fits
    <3>2. d[p.root] # Absent /\ p.row \in DOMAIN d[p.root] /\ p.rows = InnerOf(d[p.root][p.row])
      BY <2>2 DEF PlaceOk
    <3>3. RowsOk(d[p.root]) BY <3>2 DEF PipeOk, PlaceOk
    <3> QED BY <2>2, <3>1, <3>2, <3>3, EnterKeeps DEF Edit!AbsentApart
  <2> QED BY <2>1, <2>2
<1>3. array \in Seq(Edit!OuterRow) BY <1>2 DEF RowsOk
<1>5. p.row = 0 => array = list OBVIOUS
<1>6. p.row # 0 => array = [d[p.root] EXCEPT ![p.row].inner = list] OBVIOUS
<1> HIDE DEF array, new
<1>4. /\ new \in [title : Int, layout : Seq(Edit!OuterRow) \cup {Absent}, footer : Seq(Edit!OuterRow) \cup {Absent}]
      /\ new.title = d.title /\ new[p.root] = array
      /\ \A f \in Edit!Blocks \ {p.root} : new[f] = d[f]
  <2>1. CASE p.root = "layout"
    <3>1. new = [d EXCEPT !.layout = array] BY <1>1, <2>1
    <3> QED BY <3>1, <2>1, <1>3, <1>d DEF PipeOk, Edit!Blocks
  <2>2. CASE p.root = "footer"
    <3>1. new = [d EXCEPT !.footer = array] BY <1>1, <2>2
    <3> QED BY <3>1, <2>2, <1>3, <1>d DEF PipeOk, Edit!Blocks
  <2> QED BY <2>1, <2>2, <1>0
<1>7. PipeOk(new)
  <2>1. \A f \in Edit!Blocks : new[f] # Absent => RowsOk(new[f]) BY <1>2, <1>4 DEF PipeOk
  <2> QED BY <2>1, <1>4 DEF PipeOk
<1> QED BY <1>4, <1>5, <1>6, <1>7 DEF new

\* The ids of rows.
LEMMA OuterIds ==
  ASSUME NEW list \in Seq(Edit!OuterRow), NEW x
  PROVE  x \in Edit!Ids(list) <=>
           /\ x # Edit!NoId
           /\ \E k \in DOMAIN list : \/ x = list[k].id
                                     \/ list[k].inner # Absent /\ \E j \in DOMAIN list[k].inner : x = list[k].inner[j].id
<1>1. \A k \in DOMAIN list : "inner" \in DOMAIN list[k]
  <2>1. \A k \in DOMAIN list : list[k] \in Edit!OuterRow BY ElementOfSeq
  <2> QED BY <2>1 DEF Edit!OuterRow
<1>2. ASSUME NEW k \in DOMAIN list
      PROVE  x \in Edit!IdsOf(list[k]) <=>
               \/ x = list[k].id
               \/ list[k].inner # Absent /\ \E j \in DOMAIN list[k].inner : x = list[k].inner[j].id
  BY <1>1 DEF Edit!IdsOf
<1>3. x \in Edit!Ids(list) <=> x # Edit!NoId /\ \E k \in DOMAIN list : x \in Edit!IdsOf(list[k])
  BY DEF Edit!Ids
<1> QED BY <1>2, <1>3

LEMMA InnerIds ==
  ASSUME NEW list \in Seq(Edit!InnerRow), NEW x
  PROVE  x \in Edit!Ids(list) <=> x # Edit!NoId /\ \E k \in DOMAIN list : x = list[k].id
<1>1. \A k \in DOMAIN list : "inner" \notin DOMAIN list[k]
  <2>1. \A k \in DOMAIN list : list[k] \in Edit!InnerRow BY ElementOfSeq
  <2> QED BY <2>1 DEF Edit!InnerRow
<1>2. \A k \in DOMAIN list : Edit!IdsOf(list[k]) = {list[k].id} BY <1>1 DEF Edit!IdsOf
<1>3. x \in Edit!Ids(list) <=> x # Edit!NoId /\ \E k \in DOMAIN list : x \in Edit!IdsOf(list[k])
  BY DEF Edit!Ids
<1> QED BY <1>2, <1>3

\* A stored row is accounted for: taken out, or warned of, or on the pipe without its inner rows,
\* or with all its ids that were not taken out.
Kept(r, list, f, removed, said) ==
  \/ r.id \in removed
  \/ <<"field_absent", f>> \in said
  \/ \E k \in DOMAIN list : list[k].id = r.id /\ list[k].inner = Absent
  \/ Edit!IdsOf(r) \subseteq Edit!Ids(list) \cup removed

\* No stage loses a row from the account.
LEMMA KeptOn ==
  ASSUME NEW d, PipeOk(d), NEW p, PlaceOk(d, p), NEW list, Fits(p, list), Edit!AbsentApart,
         NEW r, r.id # Edit!NoId, NEW f \in Edit!Blocks, NEW removed, NEW said,
         d[f] # Absent => Kept(r, d[f], f, removed, said),
         Edit!Replace(d, p, list)[f] # Absent
  PROVE  Kept(r, Edit!Replace(d, p, list)[f], f, removed \cup (Edit!Ids(p.rows) \ Edit!Ids(list)), said \cup p.warned)
<1> DEFINE out == removed \cup (Edit!Ids(p.rows) \ Edit!Ids(list))
           named == said \cup p.warned
<1>0. PICK new : Is(new, Edit!Replace(d, p, list)) BY DEF Is
<1>r. /\ PipeOk(Edit!Replace(d, p, list))
      /\ \A h \in Edit!Blocks \ {p.root} : Edit!Replace(d, p, list)[h] = d[h]
      /\ p.row = 0 => Edit!Replace(d, p, list)[p.root] = list
      /\ p.row # 0 => Edit!Replace(d, p, list)[p.root] = [d[p.root] EXCEPT ![p.row].inner = list]
  BY ReplaceIs
<1>n. /\ PipeOk(new)
      /\ \A h \in Edit!Blocks \ {p.root} : new[h] = d[h]
      /\ p.row = 0 => new[p.root] = list
      /\ p.row # 0 => new[p.root] = [d[p.root] EXCEPT ![p.row].inner = list]
  BY <1>0, <1>r DEF Is
<1>1. CASE f # p.root
  <2>1. new[f] = d[f] BY <1>1, <1>n
  <2>2. Kept(r, d[f], f, removed, said) BY <1>0, <2>1 DEF Is
  <2>3. Kept(r, new[f], f, out, named) BY <2>1, <2>2 DEF Kept
  <2> QED BY <2>3, <1>0 DEF Is
<1>2. CASE f = p.root /\ p.row = 0 /\ d[f] = Absent
  <2>1. <<"field_absent", f>> \in named BY <1>2 DEF PlaceOk
  <2> QED BY <2>1 DEF Kept
<1>3. CASE f = p.root /\ p.row = 0 /\ d[f] # Absent
  <2>1. new[f] = list BY <1>3, <1>n
  <2>2. p.rows = d[f] BY <1>3 DEF PlaceOk
  <2>3. RowsOk(p.rows) /\ p.rows \in Seq(Edit!OuterRow) BY <1>3, <2>2 DEF PipeOk, RowsOk
  <2>4. PICK g : Stems(list, p.rows, g) BY <1>3 DEF Fits
  <2>5. list \in Seq(Edit!OuterRow) BY <2>4 DEF Stems
  <2>6. Kept(r, p.rows, f, removed, said) BY <1>3, <2>2
  <2>7. CASE r.id \in removed \/ <<"field_absent", f>> \in said BY <2>7, <2>1, <1>0 DEF Kept, Is
  <2>8. CASE Edit!IdsOf(r) \subseteq Edit!Ids(p.rows) \cup removed
    <3>1. Edit!IdsOf(r) \subseteq Edit!Ids(list) \cup out BY <2>8
    <3> QED BY <3>1, <2>1, <1>0 DEF Kept, Is
  <2>9. ASSUME NEW k \in DOMAIN p.rows, p.rows[k].id = r.id, p.rows[k].inner = Absent
        PROVE  Kept(r, list, f, out, named)
    <3>1. CASE \E m \in DOMAIN list : g[m] = k
      <4>1. PICK m \in DOMAIN list : g[m] = k BY <3>1
      <4>2. k # 0
        <5>1. DOMAIN p.rows = 1 .. Len(p.rows) BY <2>3
        <5> QED BY <5>1
      <4>3. Alike(list[m], p.rows[k]) BY <4>1, <4>2, <2>4 DEF Stems
      <4>4. list[m].id = r.id /\ list[m].inner = Absent BY <4>3, <2>9 DEF Alike
      <4> QED BY <4>4 DEF Kept
    <3>2. CASE ~ \E m \in DOMAIN list : g[m] = k
      <4>1. r.id \in Edit!Ids(p.rows) BY <2>3, <2>9, OuterIds
      <4>2. ASSUME NEW m \in DOMAIN list, r.id = list[m].id PROVE FALSE
        <5>1. g[m] # 0 BY <4>2, <2>4 DEF Stems, Blank
        <5>2. g[m] \in DOMAIN p.rows /\ Alike(list[m], p.rows[g[m]]) BY <5>1, <2>4 DEF Stems
        <5>3. p.rows[g[m]].id = p.rows[k].id BY <5>2, <4>2, <2>9 DEF Alike
        <5>4. g[m] = k BY <5>2, <5>3, <2>9, <2>3 DEF RowsOk, Edit!Distinct
        <5> QED BY <5>4, <3>2
      <4>3. ASSUME NEW m \in DOMAIN list, list[m].inner # Absent, NEW n \in DOMAIN list[m].inner,
                   r.id = list[m].inner[n].id
            PROVE  FALSE
        <5>1. CASE g[m] = 0
          <6>1. Blank(list[m]) BY <5>1, <2>4 DEF Stems
          <6> QED BY <6>1, <4>3 DEF Blank
        <5>2. CASE g[m] # 0
          <6>1. g[m] \in DOMAIN p.rows /\ Alike(list[m], p.rows[g[m]]) BY <5>2, <2>4 DEF Stems
          <6>2. p.rows[g[m]].inner # Absent BY <6>1, <4>3 DEF Alike
          <6>3. CASE list[m].inner = <<>> BY <6>3, <4>3
          <6>4. CASE /\ DOMAIN list[m].inner = DOMAIN p.rows[g[m]].inner
                     /\ \A j \in DOMAIN p.rows[g[m]].inner : list[m].inner[j].id = p.rows[g[m]].inner[j].id
            <7>1. n \in DOMAIN p.rows[g[m]].inner /\ p.rows[g[m]].inner[n].id = p.rows[k].id
              BY <6>4, <4>3, <2>9
            <7> QED BY <7>1, <6>1, <6>2, <2>3, <2>9 DEF RowsOk, Edit!Apart
          <6> QED BY <6>1, <6>3, <6>4, <4>3 DEF Alike
        <5> QED BY <5>1, <5>2
      <4>4. r.id \notin Edit!Ids(list) BY <4>2, <4>3, <2>5, OuterIds
      <4>5. r.id \in out BY <4>1, <4>4
      <4> QED BY <4>5 DEF Kept
    <3> QED BY <3>1, <3>2
  <2>10. CASE \E k \in DOMAIN p.rows : p.rows[k].id = r.id /\ p.rows[k].inner = Absent
    <3>1. Kept(r, list, f, out, named) BY <2>10, <2>9
    <3> QED BY <3>1, <2>1, <1>0 DEF Is
  <2> QED BY <2>6, <2>7, <2>8, <2>10 DEF Kept
<1>4. CASE f = p.root /\ p.row # 0
  <2>1. d[f] # Absent /\ p.row \in DOMAIN d[f] /\ p.rows = InnerOf(d[f][p.row])
    BY <1>4 DEF PlaceOk
  <2>2. new[f] = [d[f] EXCEPT ![p.row].inner = list] BY <1>4, <1>n
  <2>3. d[f] \in Seq(Edit!OuterRow) BY <2>1 DEF PipeOk, RowsOk
  <2>4. \A k \in DOMAIN d[f] : d[f][k] \in Edit!OuterRow BY <2>3, ElementOfSeq
  <2>5. /\ DOMAIN new[f] = DOMAIN d[f]
        /\ \A k \in DOMAIN d[f] : new[f][k].id = d[f][k].id
        /\ \A k \in DOMAIN d[f] : k # p.row => new[f][k] = d[f][k]
        /\ new[f][p.row].inner = list
    <3> HIDE DEF PipeOk
    <3>1. \A k \in DOMAIN d[f] : new[f][k] = IF k = p.row THEN [d[f][k] EXCEPT !.inner = list] ELSE d[f][k]
      BY <2>1, <2>2
    <3>2. DOMAIN new[f] = DOMAIN d[f] BY <2>2
    <3> QED BY <3>1, <3>2, <2>1, <2>4 DEF Edit!OuterRow
  <2>6. PipeOk(new) BY <1>n
  <2>7. new[f] \in Seq(Edit!OuterRow) BY <2>6, <1>0 DEF PipeOk, RowsOk, Is
  <2>8. list \in Seq(Edit!InnerRow) /\ list # Absent BY <1>4, FitsIs
  <2>9. p.rows \in Seq(Edit!InnerRow)
    <3>1. Offered(p) BY PlaceGives
    <3> QED BY <3>1, <1>4 DEF Offered
  <2>10. Kept(r, d[f], f, removed, said) BY <2>1
  <2>11. CASE r.id \in removed \/ <<"field_absent", f>> \in said BY <2>11, <1>0 DEF Kept, Is
  <2>12. ASSUME NEW k \in DOMAIN d[f], d[f][k].id = r.id, d[f][k].inner = Absent
         PROVE  Kept(r, new[f], f, out, named)
    <3>1. CASE k = p.row
      <4>1. <<"field_absent", f>> \in named BY <3>1, <1>4, <2>12 DEF PlaceOk
      <4> QED BY <4>1 DEF Kept
    <3>2. CASE k # p.row
      <4>1. k \in DOMAIN new[f] /\ new[f][k].id = r.id /\ new[f][k].inner = Absent BY <3>2, <2>5, <2>12
      <4> QED BY <4>1 DEF Kept
    <3> QED BY <3>1, <3>2
  <2>13. ASSUME NEW x \in Edit!Ids(d[f]) PROVE x \in Edit!Ids(new[f]) \cup out
    <3>0. x # Edit!NoId BY <2>3, <2>13, OuterIds
    <3>1. PICK k \in DOMAIN d[f] :
            \/ x = d[f][k].id
            \/ d[f][k].inner # Absent /\ \E j \in DOMAIN d[f][k].inner : x = d[f][k].inner[j].id
      BY <2>3, <2>13, OuterIds
    <3>2. CASE x = d[f][k].id
      <4>1. k \in DOMAIN new[f] /\ x = new[f][k].id BY <3>2, <2>5
      <4> QED BY <4>1, <3>0, <2>7, OuterIds
    <3>3. CASE k # p.row
      <4>1. k \in DOMAIN new[f] /\ new[f][k] = d[f][k] BY <3>3, <2>5
      <4> QED BY <4>1, <3>0, <3>1, <2>7, OuterIds
    <3>4. CASE k = p.row /\ d[f][k].inner # Absent /\ \E j \in DOMAIN d[f][k].inner : x = d[f][k].inner[j].id
      <4>1. p.rows = d[f][k].inner BY <3>4, <2>1 DEF InnerOf
      <4>2. x \in Edit!Ids(p.rows) BY <4>1, <3>4, <3>0, <2>9, InnerIds
      <4>3. CASE x \notin Edit!Ids(list) BY <4>2, <4>3
      <4>4. CASE x \in Edit!Ids(list)
        <5>1. \E j \in DOMAIN list : x = list[j].id BY <4>4, <2>8, InnerIds
        <5>2. p.row \in DOMAIN new[f] /\ new[f][p.row].inner # Absent
              /\ \E j \in DOMAIN new[f][p.row].inner : x = new[f][p.row].inner[j].id
          BY <5>1, <2>1, <2>5, <2>8
        <5> QED BY <5>2, <3>0, <2>7, OuterIds
      <4> QED BY <4>3, <4>4
    <3> QED BY <3>1, <3>2, <3>3, <3>4
  <2>14. CASE Edit!IdsOf(r) \subseteq Edit!Ids(d[f]) \cup removed
    <3>1. Edit!IdsOf(r) \subseteq Edit!Ids(new[f]) \cup out BY <2>14, <2>13
    <3>2. Kept(r, new[f], f, out, named) BY <3>1 DEF Kept
    <3> QED BY <3>2, <1>0 DEF Is
  <2>15. CASE \E k \in DOMAIN d[f] : d[f][k].id = r.id /\ d[f][k].inner = Absent
    <3>1. Kept(r, new[f], f, out, named) BY <2>12, <2>15
    <3> QED BY <3>1, <1>0 DEF Is
  <2> QED BY <2>10, <2>11, <2>14, <2>15 DEF Kept
<1> QED BY <1>1, <1>2, <1>3, <1>4

PipeKeys == {"kind", "code", "doc", "rendered", "fields", "reshaped", "warned", "stages"}

LEMMA FailsIs ==
  ASSUME DOMAIN pPipe = PipeKeys, NEW code, Edit!Fails(code)
  PROVE  DOMAIN pPipe' = PipeKeys /\ pPipe'.kind = "failed" /\ pPipe'.stages = pPipe.stages + 1
<1>1. pPipe' = [pPipe EXCEPT !.kind = "failed", !.code = code, !.stages = @ + 1] BY DEF Edit!Fails
<1> QED BY <1>1 DEF PipeKeys

LEMMA EmitsIs ==
  ASSUME DOMAIN pPipe = PipeKeys, NEW p, NEW list, NEW op, DOMAIN op = DOMAIN Edit!NoOp,
         Edit!Emits(p, list, op)
  PROVE  /\ DOMAIN pPipe' = PipeKeys
         /\ pPipe'.kind = IF pPipe.kind = "bare" THEN "list" ELSE pPipe.kind
         /\ pPipe'.doc = Edit!Replace(pPipe.doc, p, list)
         /\ pPipe.kind # "bare" => pPipe'.fields = pPipe.fields \cup {p.root}
         /\ pPipe'.warned = pPipe.warned \cup p.warned
         /\ pPipe'.stages = pPipe.stages + 1
         /\ pRemoved' = pRemoved \cup (Edit!Ids(p.rows) \ Edit!Ids(list))
         /\ pLast'.root = p.root /\ pLast'.row = p.row /\ Agrees(pLast', op)
<1>1. pPipe' = [pPipe EXCEPT
         !.kind = IF @ = "bare" THEN "list" ELSE @,
         !.doc = Edit!Replace(@, p, list),
         !.fields = IF pPipe.kind = "bare" THEN @ ELSE @ \cup {p.root},
         !.reshaped = IF op.verb = "set" THEN @ ELSE @ \cup {<<p.root, p.row>>},
         !.warned = @ \cup p.warned, !.stages = @ + 1]
  BY DEF Edit!Emits
<1>2. /\ DOMAIN pPipe' = PipeKeys
      /\ pPipe'.kind = IF pPipe.kind = "bare" THEN "list" ELSE pPipe.kind
      /\ pPipe'.doc = Edit!Replace(pPipe.doc, p, list)
      /\ pPipe'.fields = IF pPipe.kind = "bare" THEN pPipe.fields ELSE pPipe.fields \cup {p.root}
      /\ pPipe'.warned = pPipe.warned \cup p.warned
      /\ pPipe'.stages = pPipe.stages + 1
  BY <1>1 DEF PipeKeys
<1>3. DOMAIN op = {"verb", "root", "row", "src", "at", "anchor"} BY Zenon DEF Edit!NoOp
<1>4. pLast' = [op EXCEPT !.root = p.root, !.row = p.row] BY DEF Edit!Emits
<1>5. pLast'.root = p.root /\ pLast'.row = p.row /\ Agrees(pLast', op) BY <1>3, <1>4 DEF Agrees
<1> QED BY <1>2, <1>5 DEF Edit!Emits

\* The array an entry names, before its stage and after it.
LEMMA ArrayIs ==
  ASSUME NEW d, PipeOk(d), NEW p, PlaceOk(d, p), NEW list, Fits(p, list), Edit!AbsentApart,
         NEW l, l.root = p.root, l.row = p.row
  PROVE  /\ Edit!ArrayOf(d, l) = p.rows
         /\ Edit!ArrayOf(Edit!Replace(d, p, list), l) = list
<1>1. Edit!ArrayOf(d, l) = p.rows
  <2>1. CASE p.row = 0 BY <2>1 DEF PlaceOk, Edit!ArrayOf
  <2>2. CASE p.row # 0 BY <2>2 DEF PlaceOk, Edit!ArrayOf, InnerOf
  <2> QED BY <2>1, <2>2
<1>2. PICK new : Is(new, Edit!Replace(d, p, list)) BY DEF Is
<1>3. /\ p.row = 0 => Edit!Replace(d, p, list)[p.root] = list
      /\ p.row # 0 => Edit!Replace(d, p, list)[p.root] = [d[p.root] EXCEPT ![p.row].inner = list]
  BY ReplaceIs
<1>4. /\ p.row = 0 => new[p.root] = list
      /\ p.row # 0 => new[p.root] = [d[p.root] EXCEPT ![p.row].inner = list]
  BY <1>2, <1>3 DEF Is
<1>5. list # Absent BY FitsIs
<1>6. Edit!ArrayOf(new, l) = list
  <2>1. CASE p.row = 0 BY <2>1, <1>4, <1>5 DEF Edit!ArrayOf
  <2>2. CASE p.row # 0
    <3>1. d[p.root] \in Seq(Edit!OuterRow) /\ p.row \in DOMAIN d[p.root] BY <2>2 DEF PlaceOk, PipeOk, RowsOk
    <3>2. d[p.root][p.row] \in Edit!OuterRow BY <3>1, ElementOfSeq
    <3>3. "inner" \in DOMAIN d[p.root][p.row] BY <3>2 DEF Edit!OuterRow
    <3>4. new[p.root][p.row].inner = list BY <2>2, <3>1, <3>3, <1>4
    <3> QED BY <2>2, <3>4, <1>5 DEF Edit!ArrayOf
  <2> QED BY <2>1, <2>2
<1> QED BY <1>1, <1>6, <1>2 DEF Is

\* A stage that fails leaves no document; one that does not hands on rows of a place of it.
LEMMA StageIs ==
  ASSUME Edit!Stage, Edit!Asked, Edit!AbsentApart, pPipe.kind \in {"none", "doc", "bare", "list", "failed"},
         pPipe.kind \in {"doc", "bare"} => PipeOk(pPipe.doc),
         pPipe.kind = "bare" => pPipe.doc.layout # Absent
  PROVE  \/ \E code : Edit!Fails(code)
         \/ /\ pPipe.kind \in {"doc", "bare"}
            /\ \E p, list, op :
                 /\ PlaceOk(pPipe.doc, p) /\ Edit!Emits(p, list, op) /\ Fits(p, list)
                 /\ DOMAIN op = DOMAIN Edit!NoOp /\ \A l : Agrees(l, op) => Edit!Does(p.rows, list, l)
<1>0. CASE pPipe.kind = "failed" BY <1>0 DEF Edit!Stage
<1>1. CASE pPipe.kind = "list" BY <1>1 DEF Edit!Stage
<1>3. CASE pPipe.kind \in {"doc", "bare"} /\ pPipe.rendered BY <1>3 DEF Edit!Stage
<1>2. CASE pPipe.kind \in {"doc", "bare"} /\ ~pPipe.rendered
  <2>1. PICK f \in Edit!FieldArgs :
          LET p == Edit!Resolve(f) IN
          IF p.code # "" THEN Edit!Fails(p.code)
          ELSE Edit!Moves(p) \/ Edit!Removes(p) \/ Edit!Adds(p) \/ Edit!Copies(p) \/ Edit!SetsRow(p)
    BY <1>2 DEF Edit!Stage
  <2>2. PICK p : Is(p, Edit!Resolve(f)) BY DEF Is
  <2>3. CASE \E code : Edit!Fails(code) BY <2>3
  <2>4. CASE ~ \E code : Edit!Fails(code)
    <3>1. Located(p) /\ (Edit!Moves(p) \/ Edit!Removes(p) \/ Edit!Adds(p) \/ Edit!Copies(p) \/ Edit!SetsRow(p))
      BY <2>1, <2>2, <2>4, Zenon DEF Is, Located
    <3>2. PlaceOk(pPipe.doc, p) BY <3>1, <2>2, <1>2, ResolveOk
    <3>3. Offered(p) BY <3>2, <1>2, PlaceGives
    <3>4. Handed(p) BY <3>1, <3>3, MovesHand, RemovesHand, AddsHand, CopiesHand, SetsHand DEF Edit!AbsentApart
    <3> QED BY <3>2, <3>4, <2>4, <1>2 DEF Handed
  <2> QED BY <2>3, <2>4
<1>4. pPipe.kind # "none" BY DEF Edit!Stage
<1> QED BY <1>0, <1>1, <1>2, <1>3, <1>4

\* Every stage makes exactly the edit it records.
LEMMA StageMakes ==
  ASSUME Edit!Stage, Edit!Asked, Edit!AbsentApart, pPipe.kind \in {"none", "doc", "bare", "list", "failed"}, DOMAIN pPipe = PipeKeys,
         pPipe.kind \in {"doc", "bare"} => PipeOk(pPipe.doc),
         pPipe.kind = "bare" => pPipe.doc.layout # Absent
  PROVE  Edit!StageExact
<1>1. CASE \E code : Edit!Fails(code)
  <2>1. pPipe'.kind = "failed" BY <1>1, FailsIs
  <2> QED BY <2>1 DEF Edit!StageExact
<1>2. CASE /\ pPipe.kind \in {"doc", "bare"}
           /\ \E p, list, op :
                /\ PlaceOk(pPipe.doc, p) /\ Edit!Emits(p, list, op) /\ Fits(p, list)
                /\ DOMAIN op = DOMAIN Edit!NoOp /\ \A l : Agrees(l, op) => Edit!Does(p.rows, list, l)
  <2>1. PICK p, list, op :
          /\ PlaceOk(pPipe.doc, p) /\ Edit!Emits(p, list, op) /\ Fits(p, list)
          /\ DOMAIN op = DOMAIN Edit!NoOp /\ \A l : Agrees(l, op) => Edit!Does(p.rows, list, l)
    BY <1>2
  <2>2. PipeOk(pPipe.doc) BY <1>2
  <2>3. /\ pPipe'.kind = (IF pPipe.kind = "bare" THEN "list" ELSE pPipe.kind)
        /\ pPipe'.doc = Edit!Replace(pPipe.doc, p, list)
        /\ pPipe.kind # "bare" => pPipe'.fields = pPipe.fields \cup {p.root}
        /\ pLast'.root = p.root /\ pLast'.row = p.row /\ Agrees(pLast', op)
    BY <2>1, EmitsIs
  <2>4. Edit!Does(p.rows, list, pLast') BY <2>1, <2>3
  <2>5. Edit!ArrayOf(pPipe.doc, pLast') = p.rows /\ Edit!ArrayOf(pPipe'.doc, pLast') = list
    BY <2>1, <2>2, <2>3, ArrayIs
  <2>6. \A i \in DOMAIN list : Edit!One(list, Edit!Selector(list, i)) = {i}
    BY <2>1, <2>2, FitsIs
  <2>7. \A f \in Edit!Blocks \ {p.root} : pPipe'.doc[f] = pPipe.doc[f]
    <3>0. PICK d : d = pPipe.doc OBVIOUS
    <3>a. PipeOk(d) /\ PlaceOk(d, p) /\ Fits(p, list) BY <3>0, <2>1, <2>2
    <3>b. /\ PipeOk(Edit!Replace(d, p, list))
          /\ \A h \in Edit!Blocks \ {p.root} : Edit!Replace(d, p, list)[h] = d[h]
          /\ p.row = 0 => Edit!Replace(d, p, list)[p.root] = list
          /\ p.row # 0 => Edit!Replace(d, p, list)[p.root] = [d[p.root] EXCEPT ![p.row].inner = list]
      BY <3>a, ReplaceIs
    <3>1. \A f \in Edit!Blocks \ {p.root} : Edit!Replace(pPipe.doc, p, list)[f] = pPipe.doc[f]
      BY <3>0, <3>b
    <3> QED BY <3>1, <2>3
  <2>8. ASSUME p.row # 0
        PROVE  /\ DOMAIN pPipe'.doc[p.root] = DOMAIN pPipe.doc[p.root]
               /\ \A i \in DOMAIN pPipe.doc[p.root] \ {p.row} : pPipe'.doc[p.root][i] = pPipe.doc[p.root][i]
    <3>0. PICK d : d = pPipe.doc OBVIOUS
    <3>a. PipeOk(d) /\ PlaceOk(d, p) /\ Fits(p, list) BY <3>0, <2>1, <2>2
    <3>b. p.row # 0 => Edit!Replace(d, p, list)[p.root] = [d[p.root] EXCEPT ![p.row].inner = list]
      BY <3>a, ReplaceIs
    <3>1. p.row # 0 => Edit!Replace(pPipe.doc, p, list)[p.root] = [pPipe.doc[p.root] EXCEPT ![p.row].inner = list]
      BY <3>0, <3>b
    <3>2. pPipe'.doc[p.root] = [pPipe.doc[p.root] EXCEPT ![p.row].inner = list] BY <3>1, <2>3, <2>8
    <3> QED BY <3>2
  <2>9. pPipe'.kind = "doc" => pPipe.fields \cup {p.root} \subseteq pPipe'.fields BY <2>3
  <2> QED BY <2>3, <2>4, <2>5, <2>6, <2>7, <2>8, <2>9 DEF Edit!StageExact
<1> QED BY <1>1, <1>2, StageIs

-----------------------------------------------------------------------------
(* The write.                                                                *)

\* A row of a body: masked keys are left out of it or put back.
BodyRow == [id : Int, type : Types, text : Int, secret : {Edit!Omitted, Edit!Default}, rich : Nat,
            inner : Seq(Edit!InnerRow) \cup {Absent}]

\* Rich text to restore what was masked from.
Restores(before) == before = Absent \/ \A j \in DOMAIN before : before[j].rich \in Nat

LEMMA PreparedIs ==
  ASSUME NEW row \in Edit!OuterRow, RowOk(row), NEW i, NEW before, Restores(before)
  PROVE  /\ Edit!Prepared(row, i, before) \in BodyRow
         /\ Edit!Prepared(row, i, before).id = row.id /\ Edit!Prepared(row, i, before).type = row.type
         /\ Edit!Prepared(row, i, before).inner = row.inner
         /\ row.secret = Edit!Mask => Edit!Prepared(row, i, before).secret = Edit!Omitted
         /\ row.rich = Edit!Mask /\ before # Absent /\ Edit!Pair(row, i, before) # {} =>
              \E j \in Edit!Pair(row, i, before) : Edit!Prepared(row, i, before).rich = before[j].rich
<1> DEFINE found == CHOOSE j \in Edit!Pair(row, i, before) : TRUE
           rich == IF row.rich # Edit!Mask THEN row.rich
                   ELSE IF before = Absent \/ Edit!Pair(row, i, before) = {} THEN Edit!Default
                   ELSE before[found].rich
           secret == IF row.secret = Edit!Mask THEN Edit!Omitted ELSE row.secret
<1>1. Edit!Pair(row, i, before) # {} => found \in Edit!Pair(row, i, before) OBVIOUS
<1>2. \A j \in Edit!Pair(row, i, before) : j \in DOMAIN before BY DEF Edit!Pair
<1>3. Edit!Prepared(row, i, before) = [row EXCEPT !.secret = secret, !.rich = rich]
  BY DEF Edit!Prepared, Edit!OuterRow
<1> HIDE DEF found
<1>4. rich \in Nat BY <1>1, <1>2 DEF Restores, RowOk, Edit!Default, Edit!Mask
<1>5. secret \in {Edit!Omitted, Edit!Default} BY DEF RowOk
<1>6. row.rich = Edit!Mask /\ before # Absent /\ Edit!Pair(row, i, before) # {} => rich = before[found].rich
  OBVIOUS
<1>7. row.secret = Edit!Mask => secret = Edit!Omitted OBVIOUS
<1> HIDE DEF rich, secret
<1>8. /\ Edit!Prepared(row, i, before) \in BodyRow
      /\ Edit!Prepared(row, i, before).id = row.id /\ Edit!Prepared(row, i, before).type = row.type
      /\ Edit!Prepared(row, i, before).inner = row.inner
      /\ Edit!Prepared(row, i, before).secret = secret /\ Edit!Prepared(row, i, before).rich = rich
  BY <1>3, <1>4, <1>5 DEF Edit!OuterRow, BodyRow
<1> QED BY <1>8, <1>1, <1>6, <1>7

LEMMA StoresIs ==
  ASSUME NEW b \in BodyRow, NEW i \in Nat, NEW list, Edit!Served(list), Edit!AbsentApart
  PROVE  /\ Edit!Stores(b, i, list) \in Edit!OuterRow
         /\ Edit!Stores(b, i, list).secret \in Nat /\ Edit!Stores(b, i, list).rich = b.rich
         /\ Edit!Stores(b, i, list).type = b.type
         /\ Edit!Stores(b, i, list).id = IF b.id = Edit!NoId THEN 100 + 10 * i ELSE b.id
         /\ b.inner # Absent =>
              /\ Edit!Stores(b, i, list).inner # Absent
              /\ DOMAIN Edit!Stores(b, i, list).inner = DOMAIN b.inner
              /\ \A j \in DOMAIN b.inner :
                   b.inner[j].id # Edit!NoId => Edit!Stores(b, i, list).inner[j].id = b.inner[j].id
         /\ \A j \in DOMAIN list :
              b.id # Edit!NoId /\ list[j].id = b.id /\ list[j].type = b.type =>
                /\ b.secret = Edit!Omitted => Edit!Stores(b, i, list).secret = list[j].secret
                /\ b.inner = Absent => Edit!Stores(b, i, list).inner = list[j].inner
<1> DEFINE old == {j \in DOMAIN list : b.id # Edit!NoId /\ list[j].id = b.id /\ list[j].type = b.type}
           found == CHOOSE j \in old : TRUE
           keep == IF old = {} THEN [Edit!NewRow(b.type) EXCEPT !.inner = <<>>] ELSE list[found]
           id(n, j) == IF n = Edit!NoId THEN Edit!Fresh(i, j) ELSE n
           fresh == [j \in DOMAIN b.inner |-> [b.inner[j] EXCEPT !.id = id(b.inner[j].id, j)]]
           secret == IF b.secret = Edit!Omitted THEN keep.secret ELSE b.secret
           inner == IF b.inner = Absent THEN keep.inner ELSE fresh
<1>1. Edit!Stores(b, i, list) = [b EXCEPT !.id = id(b.id, 0), !.secret = secret, !.inner = inner]
  BY DEF Edit!Stores, BodyRow
<1>2. id(b.id, 0) = (IF b.id = Edit!NoId THEN 100 + 10 * i ELSE b.id) /\ id(b.id, 0) \in Int
  BY DEF Edit!Fresh, BodyRow
<1>3. keep \in Edit!OuterRow /\ keep.secret \in Nat
  <2>1. CASE old = {}
    <3>1. keep = [Edit!NewRow(b.type) EXCEPT !.inner = <<>>] BY <2>1
    <3>2. <<>> \in Seq(Edit!InnerRow) OBVIOUS
    <3>3. b.type \in Types BY DEF BodyRow
    <3>4. keep = [id |-> 0, type |-> b.type, text |-> 9, secret |-> 0, rich |-> 0, inner |-> <<>>]
      BY <3>1 DEF Edit!NewRow, Edit!NoId, Edit!Default
    <3> HIDE DEF keep
    <3>5. keep \in Edit!OuterRow BY <3>2, <3>3, <3>4 DEF Edit!OuterRow
    <3> QED BY <3>4, <3>5
  <2>2. CASE old # {}
    <3>1. found \in old BY <2>2
    <3>2. keep = list[found] BY <2>2
    <3> HIDE DEF found
    <3>3. found \in DOMAIN list BY <3>1
    <3>4. list[found] \in Edit!OuterRow BY <3>3, ElementOfSeq DEF Edit!Served
    <3> QED BY <3>2, <3>3, <3>4 DEF Edit!Served
  <2> QED BY <2>1, <2>2
<1>4. \A j \in old : keep = list[j]
  <2>1. SUFFICES ASSUME NEW j \in old PROVE keep = list[j] OBVIOUS
  <2>2. found \in old OBVIOUS
  <2>3. found = j BY <2>2 DEF Edit!Served, Edit!Distinct
  <2>4. old # {} BY <2>1
  <2> QED BY <2>3, <2>4
<1>5. ASSUME b.inner # Absent
      PROVE  /\ fresh \in Seq(Edit!InnerRow) /\ DOMAIN fresh = DOMAIN b.inner
             /\ \A j \in DOMAIN b.inner : b.inner[j].id # Edit!NoId => fresh[j].id = b.inner[j].id
  <2>1. b.inner \in Seq(Edit!InnerRow) BY <1>5 DEF BodyRow
  <2>2. DOMAIN b.inner = 1 .. Len(b.inner) BY <2>1
  <2>3. \A j \in DOMAIN b.inner : b.inner[j] \in Edit!InnerRow BY <2>1, ElementOfSeq
  <2>4. \A j \in DOMAIN b.inner : id(b.inner[j].id, j) \in Int
    BY <2>2, <2>3 DEF Edit!InnerRow, Edit!Fresh
  <2>6. \A j \in DOMAIN b.inner : b.inner[j].id # Edit!NoId => id(b.inner[j].id, j) = b.inner[j].id
    OBVIOUS
  <2> HIDE DEF id
  <2>5. \A j \in DOMAIN b.inner : fresh[j] \in Edit!InnerRow /\ fresh[j].id = id(b.inner[j].id, j)
    BY <2>3, <2>4 DEF Edit!InnerRow
  <2>7. DOMAIN fresh = DOMAIN b.inner OBVIOUS
  <2>8. fresh \in Seq(Edit!InnerRow)
    <3>1. Len(b.inner) \in Nat BY <2>1
    <3>2. fresh = [j \in DOMAIN b.inner |-> [b.inner[j] EXCEPT !.id = id(b.inner[j].id, j)]] OBVIOUS
    <3> HIDE DEF fresh
    <3>3. fresh \in [1 .. Len(b.inner) -> Edit!InnerRow] BY <3>2, <2>5, <2>2
    <3> QED BY <3>1, <3>3, SeqDef
  <2> HIDE DEF fresh
  <2> QED BY <2>5, <2>6, <2>7, <2>8
<1>6. \A j \in DOMAIN list : b.id # Edit!NoId /\ list[j].id = b.id /\ list[j].type = b.type => keep = list[j]
  BY <1>4
<1> HIDE DEF old, found, keep, fresh, id
<1>7. secret \in Nat BY <1>3 DEF BodyRow, Edit!Omitted, Edit!Default
<1>8. inner \in Seq(Edit!InnerRow) \cup {Absent} BY <1>3, <1>5 DEF Edit!OuterRow
<1>9. b.secret = Edit!Omitted => secret = keep.secret OBVIOUS
<1>10. b.inner = Absent => inner = keep.inner OBVIOUS
<1>11. b.inner # Absent => inner = fresh /\ inner # Absent BY <1>5 DEF Edit!AbsentApart
<1> HIDE DEF secret, inner
<1>12. /\ Edit!Stores(b, i, list) \in Edit!OuterRow
       /\ Edit!Stores(b, i, list).secret = secret /\ Edit!Stores(b, i, list).rich = b.rich
       /\ Edit!Stores(b, i, list).type = b.type /\ Edit!Stores(b, i, list).id = id(b.id, 0)
       /\ Edit!Stores(b, i, list).inner = inner
  <2>1. PICK new : new = id(b.id, 0) OBVIOUS
  <2>2. new \in Int BY <2>1, <1>2
  <2>3. PICK s : s = Edit!Stores(b, i, list) OBVIOUS
  <2>4. s = [b EXCEPT !.id = new, !.secret = secret, !.inner = inner] BY <2>1, <2>3, <1>1
  <2>5. DOMAIN b = {"id", "type", "text", "secret", "rich", "inner"} BY DEF BodyRow
  <2>6. /\ DOMAIN s = {"id", "type", "text", "secret", "rich", "inner"}
        /\ s.id = new /\ s.type = b.type /\ s.text = b.text /\ s.secret = secret /\ s.rich = b.rich
        /\ s.inner = inner
    BY <2>4, <2>5
  <2>7. b.type \in Types /\ b.text \in Int /\ b.rich \in Int BY DEF BodyRow
  <2>8. s = [id |-> s.id, type |-> s.type, text |-> s.text, secret |-> s.secret, rich |-> s.rich, inner |-> s.inner]
    BY <2>4, <2>5, <2>6
  <2>9. s \in Edit!OuterRow BY <2>2, <2>6, <2>7, <2>8, <1>7, <1>8 DEF Edit!OuterRow
  <2> QED BY <2>1, <2>3, <2>6, <2>9
<1>13. Edit!Stores(b, i, list).id = IF b.id = Edit!NoId THEN 100 + 10 * i ELSE b.id BY <1>12, <1>2
<1>14. b.inner # Absent =>
         /\ Edit!Stores(b, i, list).inner # Absent
         /\ DOMAIN Edit!Stores(b, i, list).inner = DOMAIN b.inner
         /\ \A j \in DOMAIN b.inner :
              b.inner[j].id # Edit!NoId => Edit!Stores(b, i, list).inner[j].id = b.inner[j].id
  BY <1>12, <1>11, <1>5
<1> QED BY <1>12, <1>13, <1>14, <1>6, <1>7, <1>9, <1>10

\* What a write makes of the rows of a field.
Foreign(list) == {i \in DOMAIN list : list[i].type \notin Known}

\* The rows stored carry what was sent, and what is kept of the rows there were.
Carries(edited, before, list, after) ==
  /\ after \in Seq(Edit!OuterRow)
  /\ \A i \in DOMAIN after : after[i].secret # Edit!Mask /\ after[i].rich # Edit!Mask
  /\ \A i, j \in DOMAIN after : after[i].id = after[j].id => i = j
  /\ \A i \in DOMAIN after, j \in DOMAIN list :
       Edit!Same(after[i], list[j]) =>
         /\ after[i].secret = list[j].secret
         /\ before = list => after[i].rich = list[j].rich
  /\ Foreign(edited) = {} =>
       /\ Edit!Ids(edited) \subseteq Edit!Ids(after)
       /\ \A k \in DOMAIN edited, j \in DOMAIN list :
            edited[k].id = list[j].id /\ edited[k].inner = Absent =>
              \E m \in DOMAIN after :
                /\ after[m].id = list[j].id
                /\ after[m].type = list[j].type => after[m].inner = list[j].inner

LEMMA PatchedIs ==
  ASSUME NEW edited, RowsOk(edited), NEW before, Restores(before), NEW list, Edit!Served(list), Edit!AbsentApart,
         NEW body, body = [i \in DOMAIN edited |-> Edit!Prepared(edited[i], i, before)],
         NEW all, all = [i \in DOMAIN body |-> Edit!Stores(body[i], i, list)],
         NEW after, after = Edit!RemoveAll(all, {i \in DOMAIN body : body[i].type \notin Known})
  PROVE  Carries(edited, before, list, after)
<1>1. edited \in Seq(Edit!OuterRow) /\ DOMAIN edited = 1 .. Len(edited) /\ Len(edited) \in Nat BY DEF RowsOk
<1>2. ASSUME NEW i \in DOMAIN edited
      PROVE  /\ edited[i] \in Edit!OuterRow /\ RowOk(edited[i]) /\ i \in Nat
             /\ body[i] = Edit!Prepared(edited[i], i, before) /\ all[i] = Edit!Stores(body[i], i, list)
  BY <1>1, ElementOfSeq DEF RowsOk
<1>3. ASSUME NEW i \in DOMAIN edited
      PROVE  /\ body[i] \in BodyRow /\ body[i].id = edited[i].id /\ body[i].type = edited[i].type
             /\ body[i].inner = edited[i].inner
             /\ edited[i].secret = Edit!Mask => body[i].secret = Edit!Omitted
             /\ edited[i].rich = Edit!Mask /\ before # Absent /\ Edit!Pair(edited[i], i, before) # {} =>
                  \E j \in Edit!Pair(edited[i], i, before) : body[i].rich = before[j].rich
  BY <1>2, PreparedIs
<1>4. ASSUME NEW i \in DOMAIN edited
      PROVE  /\ all[i] \in Edit!OuterRow /\ all[i].secret \in Nat /\ all[i].rich = body[i].rich
             /\ all[i].type = edited[i].type
             /\ all[i].id = IF edited[i].id = Edit!NoId THEN 100 + 10 * i ELSE edited[i].id
             /\ edited[i].inner # Absent =>
                  /\ all[i].inner # Absent /\ DOMAIN all[i].inner = DOMAIN edited[i].inner
                  /\ \A j \in DOMAIN edited[i].inner :
                       edited[i].inner[j].id # Edit!NoId => all[i].inner[j].id = edited[i].inner[j].id
             /\ \A j \in DOMAIN list :
                  edited[i].id # Edit!NoId /\ list[j].id = edited[i].id /\ list[j].type = edited[i].type =>
                    /\ body[i].secret = Edit!Omitted => all[i].secret = list[j].secret
                    /\ edited[i].inner = Absent => all[i].inner = list[j].inner
  <2>1. PICK b : b = body[i] OBVIOUS
  <2>2. b \in BodyRow /\ i \in Nat BY <2>1, <1>2, <1>3
  <2>3. PICK s : Is(s, Edit!Stores(b, i, list)) BY DEF Is
  <2>4. /\ s \in Edit!OuterRow /\ s.secret \in Nat /\ s.rich = b.rich /\ s.type = b.type
        /\ s.id = IF b.id = Edit!NoId THEN 100 + 10 * i ELSE b.id
        /\ b.inner # Absent =>
              /\ s.inner # Absent /\ DOMAIN s.inner = DOMAIN b.inner
              /\ \A j \in DOMAIN b.inner : b.inner[j].id # Edit!NoId => s.inner[j].id = b.inner[j].id
        /\ \A j \in DOMAIN list :
              b.id # Edit!NoId /\ list[j].id = b.id /\ list[j].type = b.type =>
                /\ b.secret = Edit!Omitted => s.secret = list[j].secret
                /\ b.inner = Absent => s.inner = list[j].inner
    BY <2>2, <2>3, StoresIs DEF Is
  <2>5. s = all[i] BY <2>1, <2>3, <1>2 DEF Is
  <2>6. b.id = edited[i].id /\ b.type = edited[i].type /\ b.inner = edited[i].inner BY <2>1, <1>3
  <2> QED BY <2>1, <2>4, <2>5, <2>6
<1>5. DOMAIN all = DOMAIN edited OBVIOUS
<1>6. all \in Seq(Edit!OuterRow)
  <2>1. all \in [1 .. Len(edited) -> Edit!OuterRow]
    <3>1. all = [i \in 1 .. Len(edited) |-> all[i]] BY <1>1
    <3> QED BY <3>1, <1>1, <1>4
  <2> QED BY <2>1, <1>1, SeqDef
<1>7. {i \in DOMAIN body : body[i].type \notin Known} = Foreign(edited) BY <1>3 DEF Foreign
<1>8. after \in Seq(Edit!OuterRow) /\ \E f : Picks(all, Foreign(edited), after, f)
  BY <1>6, <1>7, RemoveAllIs
<1>9. PICK f : Picks(all, Foreign(edited), after, f) BY <1>8
<1>10. \A i \in DOMAIN after : f[i] \in DOMAIN edited /\ after[i] = all[f[i]] BY <1>5, <1>9 DEF Picks
<1>11. \A i, j \in DOMAIN after : f[i] = f[j] => i = j
  <2>1. DOMAIN after = 1 .. Len(after) /\ Len(after) \in Nat BY <1>8
  <2>2. SUFFICES ASSUME NEW i \in DOMAIN after, NEW j \in DOMAIN after, f[i] = f[j] PROVE i = j OBVIOUS
  <2>3. i \in Int /\ j \in Int BY <2>1
  <2>6. f[i] \in Int
    <3>1. f[i] \in DOMAIN edited BY <1>10
    <3> QED BY <3>1, <1>1
  <2>4. CASE i < j
    <3>1. f[i] < f[j] BY <2>4, <1>9 DEF Picks
    <3> QED BY <3>1, <2>2, <2>6
  <2>5. CASE j < i
    <3>1. f[j] < f[i] BY <2>5, <1>9 DEF Picks
    <3> QED BY <3>1, <2>2, <2>6
  <2> QED BY <2>3, <2>4, <2>5
<1>12. Foreign(edited) = {} => \A k \in DOMAIN edited : \E m \in DOMAIN after : after[m] = all[k]
  <2>1. {f[m] : m \in DOMAIN after} = DOMAIN all \ Foreign(edited) BY <1>9 DEF Picks
  <2>2. SUFFICES ASSUME Foreign(edited) = {}, NEW k \in DOMAIN edited
                 PROVE  \E m \in DOMAIN after : after[m] = all[k]
    OBVIOUS
  <2>3. k \in {f[m] : m \in DOMAIN after} BY <2>1, <2>2, <1>5
  <2>4. PICK m \in DOMAIN after : f[m] = k BY <2>3
  <2> QED BY <2>4, <1>10
<1>13. ASSUME NEW i \in DOMAIN after PROVE after[i].secret # Edit!Mask /\ after[i].rich # Edit!Mask
  <2>1. f[i] \in DOMAIN edited /\ after[i] = all[f[i]] BY <1>10
  <2>2. after[i].secret \in Nat /\ after[i].rich \in Nat BY <2>1, <1>3, <1>4 DEF BodyRow
  <2> QED BY <2>2 DEF Edit!Mask
<1>14. ASSUME NEW i \in DOMAIN after, NEW j \in DOMAIN after, after[i].id = after[j].id PROVE i = j
  <2>1. PICK m, n : m = f[i] /\ n = f[j] OBVIOUS
  <2>2. m \in DOMAIN edited /\ n \in DOMAIN edited /\ all[m].id = all[n].id BY <2>1, <1>10, <1>14
  <2>3. m \in Nat /\ n \in Nat /\ m >= 1 /\ n >= 1 BY <2>2, <1>1
  <2>4. /\ all[m].id = (IF edited[m].id = Edit!NoId THEN 100 + 10 * m ELSE edited[m].id)
        /\ all[n].id = (IF edited[n].id = Edit!NoId THEN 100 + 10 * n ELSE edited[n].id)
        /\ edited[m].id \in Int /\ edited[n].id \in Int /\ edited[m].id < 100 /\ edited[n].id < 100
    BY <2>2, <1>2, <1>4 DEF Edit!OuterRow, RowOk
  <2>5. CASE edited[m].id = edited[n].id /\ edited[m].id # Edit!NoId
    <3>1. m = n BY <2>5, <2>2 DEF RowsOk, Edit!Distinct
    <3> QED BY <3>1, <2>1, <1>11
  <2>6. CASE ~(edited[m].id = edited[n].id /\ edited[m].id # Edit!NoId)
    <3>1. m = n BY <2>2, <2>3, <2>4, <2>6
    <3> QED BY <3>1, <2>1, <1>11
  <2> QED BY <2>5, <2>6
<1>15. ASSUME NEW i \in DOMAIN after, NEW j \in DOMAIN list, Edit!Same(after[i], list[j])
       PROVE  /\ after[i].secret = list[j].secret
              /\ before = list => after[i].rich = list[j].rich
  <2>1. PICK m : m = f[i] OBVIOUS
  <2>2. m \in DOMAIN edited /\ after[i] = all[m] BY <2>1, <1>10
  <2>3. m >= 1 /\ m \in Nat BY <2>2, <1>1
  <2>4. edited[m].id = list[j].id /\ edited[m].id # Edit!NoId
    <3>1. all[m].id = list[j].id BY <2>2, <1>15 DEF Edit!Same
    <3>2. list[j].id < 100 BY DEF Edit!Served
    <3> QED BY <3>1, <3>2, <2>2, <2>3, <1>4
  <2>5. edited[m].type = list[j].type BY <2>2, <1>4, <1>15 DEF Edit!Same
  <2>6. edited[m].secret = Edit!Mask /\ edited[m].rich = Edit!Mask BY <2>2, <2>4, <1>2 DEF RowOk
  <2>7. after[i].secret = list[j].secret BY <2>2, <2>4, <2>5, <2>6, <1>3, <1>4
  <2>8. ASSUME before = list PROVE after[i].rich = list[j].rich
    <3>1. Edit!Pair(edited[m], m, before) = {j}
      <4>1. \A k \in DOMAIN list : list[k].id = list[j].id => k = j BY DEF Edit!Served, Edit!Distinct
      <4> QED BY <4>1, <2>4, <2>5, <2>8 DEF Edit!Pair
    <3>2. before # Absent BY <2>8 DEF Edit!Served, Edit!AbsentApart
    <3>3. \E k \in Edit!Pair(edited[m], m, before) : body[m].rich = before[k].rich
      BY <3>1, <3>2, <2>2, <2>6, <1>3
    <3>4. body[m].rich = list[j].rich BY <3>1, <3>3, <2>8
    <3> QED BY <3>4, <2>2, <1>4
  <2> QED BY <2>7, <2>8
<1>16. ASSUME Foreign(edited) = {}, NEW x \in Edit!Ids(edited) PROVE x \in Edit!Ids(after)
  <2>1. x # Edit!NoId BY <1>1, <1>16, OuterIds
  <2>2. PICK k \in DOMAIN edited :
          \/ x = edited[k].id
          \/ edited[k].inner # Absent /\ \E j \in DOMAIN edited[k].inner : x = edited[k].inner[j].id
    BY <1>1, <1>16, OuterIds
  <2>3. PICK m \in DOMAIN after : after[m] = all[k] BY <1>12, <1>16
  <2>4. CASE x = edited[k].id
    <3>1. x = after[m].id BY <2>1, <2>3, <2>4, <1>4
    <3> QED BY <3>1, <2>1, <1>8, OuterIds
  <2>5. CASE edited[k].inner # Absent /\ \E j \in DOMAIN edited[k].inner : x = edited[k].inner[j].id
    <3>2. PICK j \in DOMAIN edited[k].inner : x = edited[k].inner[j].id BY <2>5
    <3>3. /\ all[k].inner # Absent /\ DOMAIN all[k].inner = DOMAIN edited[k].inner
          /\ all[k].inner[j].id = edited[k].inner[j].id
      BY <3>2, <2>1, <2>5, <1>4
    <3>1. after[m].inner # Absent /\ \E n \in DOMAIN after[m].inner : x = after[m].inner[n].id
      BY <3>2, <3>3, <2>3
    <3> QED BY <3>1, <2>1, <1>8, OuterIds
  <2> QED BY <2>2, <2>4, <2>5
<1>17. ASSUME Foreign(edited) = {}, NEW k \in DOMAIN edited, NEW j \in DOMAIN list,
              edited[k].id = list[j].id, edited[k].inner = Absent
       PROVE  \E m \in DOMAIN after :
                /\ after[m].id = list[j].id
                /\ after[m].type = list[j].type => after[m].inner = list[j].inner
  <2>1. PICK m \in DOMAIN after : after[m] = all[k] BY <1>12, <1>17
  <2>2. edited[k].id # Edit!NoId BY <1>17 DEF Edit!Served
  <2>3. after[m].id = list[j].id BY <2>1, <2>2, <1>17, <1>4
  <2>4. after[m].type = list[j].type => after[m].inner = list[j].inner BY <2>1, <2>2, <1>17, <1>4
  <2> QED BY <2>3, <2>4
<1>18. \A i \in DOMAIN after : after[i].secret # Edit!Mask /\ after[i].rich # Edit!Mask BY <1>13
<1>19. \A i, j \in DOMAIN after : after[i].id = after[j].id => i = j BY <1>14
<1>20. \A i \in DOMAIN after, j \in DOMAIN list :
         Edit!Same(after[i], list[j]) =>
           /\ after[i].secret = list[j].secret
           /\ before = list => after[i].rich = list[j].rich
  BY <1>15
<1>21. Foreign(edited) = {} => Edit!Ids(edited) \subseteq Edit!Ids(after) BY <1>16
<1>22. Foreign(edited) = {} =>
         \A k \in DOMAIN edited, j \in DOMAIN list :
           edited[k].id = list[j].id /\ edited[k].inner = Absent =>
             \E m \in DOMAIN after :
               /\ after[m].id = list[j].id
               /\ after[m].type = list[j].type => after[m].inner = list[j].inner
  BY <1>17
<1> QED BY <1>8, <1>18, <1>19, <1>20, <1>21, <1>22 DEF Carries

-----------------------------------------------------------------------------
(* From the read to the write.                                               *)

\* A document at the server, after n edits by the other editor.
StoredOk(d, n) ==
  /\ d \in Edit!Document
  /\ \A f \in Edit!Blocks : Edit!Served(d[f]) /\ \A i \in DOMAIN d[f] : d[f][i].id >= -n

LEMMA MaskedIs ==
  ASSUME NEW list, Edit!Served(list), Edit!Apart(list), NEW slim \in BOOLEAN, Edit!AbsentApart,
         \A i \in DOMAIN list : list[i].inner # Absent =>
           Edit!Distinct(list[i].inner) /\ \A j \in DOMAIN list[i].inner : list[i].inner[j].id # Edit!NoId,
         NEW out, out = IF slim THEN Edit!Slim(Edit!Masked(list)) ELSE Edit!Masked(list)
  PROVE  RowsOk(out) /\ \A f, i : i \in DOMAIN list => Kept(list[i], out, f, {}, {})
<1>1. list \in Seq(Edit!OuterRow) /\ DOMAIN list = 1 .. Len(list) /\ Len(list) \in Nat BY DEF Edit!Served
<1>2. DOMAIN out = DOMAIN list BY DEF Edit!Slim, Edit!Masked
<1>3. ASSUME NEW i \in DOMAIN list
      PROVE  /\ out[i] \in Edit!OuterRow /\ out[i].id = list[i].id
             /\ out[i].secret = Edit!Mask /\ out[i].rich = Edit!Mask
             /\ out[i].inner = IF slim THEN Absent ELSE list[i].inner
  <2>1. PICK r : r = list[i] OBVIOUS
  <2>5. r \in Edit!OuterRow /\ Edit!Mask \in Int BY <2>1, <1>1, ElementOfSeq DEF Edit!Mask
  <2>6. DOMAIN r = {"id", "type", "text", "secret", "rich", "inner"} BY <2>5 DEF Edit!OuterRow
  <2>2. Edit!Masked(list)[i] = [list[i] EXCEPT !.secret = Edit!Mask, !.rich = Edit!Mask]
    BY DEF Edit!Masked
  <2>3. CASE slim
    <3>1. out[i] = [Edit!Masked(list)[i] EXCEPT !.inner = Absent] BY <2>3 DEF Edit!Slim, Edit!Masked
    <3>2. out[i] = [r EXCEPT !.secret = Edit!Mask, !.rich = Edit!Mask, !.inner = Absent] BY <3>1, <2>1, <2>2, <2>6
    <3>3. out[i] \in Edit!OuterRow BY <3>2, <2>5 DEF Edit!OuterRow
    <3>4. /\ out[i].id = r.id /\ out[i].secret = Edit!Mask /\ out[i].rich = Edit!Mask
          /\ out[i].inner = Absent
      BY <3>2, <2>6
    <3> QED BY <3>3, <3>4, <2>1, <2>3
  <2>4. CASE ~slim
    <3>2. out[i] = [r EXCEPT !.secret = Edit!Mask, !.rich = Edit!Mask] BY <2>1, <2>4, <2>2
    <3>3. out[i] \in Edit!OuterRow BY <3>2, <2>5 DEF Edit!OuterRow
    <3>4. /\ out[i].id = r.id /\ out[i].secret = Edit!Mask /\ out[i].rich = Edit!Mask
          /\ out[i].inner = r.inner
      BY <3>2, <2>6
    <3> QED BY <3>3, <3>4, <2>1, <2>4
  <2> QED BY <2>3, <2>4
<1>4. out \in Seq(Edit!OuterRow)
  <2>1. out = [i \in DOMAIN list |-> out[i]] BY DEF Edit!Slim, Edit!Masked
  <2>2. out \in [1 .. Len(list) -> Edit!OuterRow] BY <2>1, <1>1, <1>3
  <2> QED BY <2>2, <1>1, SeqDef
<1>5. \A i \in DOMAIN out : RowOk(out[i])
  <2>1. SUFFICES ASSUME NEW i \in DOMAIN list PROVE RowOk(out[i]) BY <1>2
  <2>2. out[i].inner # Absent => Edit!Distinct(out[i].inner) BY <1>3
  <2> QED BY <2>2, <1>3 DEF RowOk, Edit!Served
<1>6. Edit!Distinct(out) BY <1>2, <1>3 DEF Edit!Served, Edit!Distinct
<1>7. Edit!Apart(out)
  <2>1. \A k \in DOMAIN list : out[k].inner # Absent => out[k].inner = list[k].inner BY <1>3
  <2> QED BY <2>1, <1>2, <1>3 DEF Edit!Apart
<1>8. ASSUME NEW f, NEW i \in DOMAIN list PROVE Kept(list[i], out, f, {}, {})
  <2>1. CASE out[i].inner = Absent BY <2>1, <1>2, <1>3 DEF Kept
  <2>2. CASE out[i].inner # Absent
    <3>1. out[i].inner = list[i].inner /\ out[i].id = list[i].id BY <2>2, <1>3
    <3>2. ASSUME NEW x \in Edit!IdsOf(list[i]) PROVE x \in Edit!Ids(out)
      <4>1. \/ x = list[i].id
            \/ list[i].inner # Absent /\ \E j \in DOMAIN list[i].inner : x = list[i].inner[j].id
        BY <3>2 DEF Edit!IdsOf
      <4>2. x # Edit!NoId BY <4>1 DEF Edit!Served
      <4>3. i \in DOMAIN out
            /\ \/ x = out[i].id
               \/ out[i].inner # Absent /\ \E j \in DOMAIN out[i].inner : x = out[i].inner[j].id
        BY <4>1, <3>1, <1>2
      <4> QED BY <4>2, <4>3, <1>4, OuterIds
    <3> QED BY <3>2 DEF Kept
  <2> QED BY <2>1, <2>2
<1> QED BY <1>4, <1>5, <1>6, <1>7, <1>8 DEF RowsOk

LEMMA ReadIs ==
  ASSUME NEW d, Edit!DocumentOk(d), Edit!AbsentApart, NEW how
  PROVE  /\ PipeOk(Edit!Read(d, how))
         /\ how = "bare" => Edit!Read(d, how).layout # Absent
         /\ \A f \in Edit!Blocks : Edit!Read(d, how)[f] # Absent =>
              \A i \in DOMAIN d[f] : Kept(d[f][i], Edit!Read(d, how)[f], f, {}, {})
<1> DEFINE whole(f) == Edit!Masked(d[f])
           slim(f)  == Edit!Slim(Edit!Masked(d[f]))
<1>1. ASSUME NEW f \in Edit!Blocks
      PROVE  /\ RowsOk(whole(f)) /\ RowsOk(slim(f))
             /\ \A i \in DOMAIN d[f] : Kept(d[f][i], whole(f), f, {}, {}) /\ Kept(d[f][i], slim(f), f, {}, {})
  <2>1. PICK list : list = d[f] OBVIOUS
  <2>2. /\ Edit!Served(list) /\ Edit!Apart(list)
        /\ \A i \in DOMAIN list : list[i].inner # Absent =>
             Edit!Distinct(list[i].inner) /\ \A j \in DOMAIN list[i].inner : list[i].inner[j].id # Edit!NoId
    BY <2>1 DEF Edit!DocumentOk
  <2>3. PICK a, b : a = Edit!Masked(list) /\ b = Edit!Slim(Edit!Masked(list)) OBVIOUS
  <2>4. RowsOk(a) /\ \A g, i : i \in DOMAIN list => Kept(list[i], a, g, {}, {})
    <3>1. a = IF FALSE THEN Edit!Slim(Edit!Masked(list)) ELSE Edit!Masked(list) BY <2>3
    <3> QED BY <3>1, <2>2, MaskedIs
  <2>5. RowsOk(b) /\ \A g, i : i \in DOMAIN list => Kept(list[i], b, g, {}, {})
    <3>1. b = IF TRUE THEN Edit!Slim(Edit!Masked(list)) ELSE Edit!Masked(list) BY <2>3
    <3> QED BY <3>1, <2>2, MaskedIs
  <2> QED BY <2>1, <2>3, <2>4, <2>5
<1>2. "layout" \in Edit!Blocks /\ "footer" \in Edit!Blocks BY DEF Edit!Blocks
<1>3. \A f \in Edit!Blocks : f = "layout" \/ f = "footer" BY DEF Edit!Blocks
<1> DEFINE layout == CASE how = "footer" -> Absent [] how = "slim" -> slim("layout") [] OTHER -> whole("layout")
           footer == IF how = "bare" THEN Absent ELSE whole("footer")
           new == Edit!Read(d, how)
<1>4. new = [title |-> d.title, layout |-> layout, footer |-> footer]
  BY DEF Edit!Read
<1>5. d["layout"] = d.layout /\ d["footer"] = d.footer OBVIOUS
<1>6. /\ layout # Absent => RowsOk(layout) /\ \A i \in DOMAIN d.layout : Kept(d.layout[i], layout, "layout", {}, {})
      /\ how = "bare" => layout # Absent
  <2>1. CASE how = "footer" BY <2>1
  <2>2. CASE how = "slim"
    <3>1. layout = slim("layout") BY <2>2
    <3> QED BY <3>1, <2>2, <1>1, <1>2
  <2>3. CASE how # "footer" /\ how # "slim"
    <3>1. layout = whole("layout") BY <2>3
    <3>2. layout # Absent
      <4>1. RowsOk(layout) BY <3>1, <1>1, <1>2
      <4> QED BY <4>1 DEF RowsOk, Edit!AbsentApart
    <3> QED BY <3>1, <3>2, <1>1, <1>2
  <2> QED BY <2>1, <2>2, <2>3
<1>7. footer # Absent => RowsOk(footer) /\ \A i \in DOMAIN d.footer : Kept(d.footer[i], footer, "footer", {}, {})
  BY <1>1, <1>2
<1> HIDE DEF layout, footer, whole, slim
<1>8. new.layout = layout /\ new.footer = footer /\ new["layout"] = layout /\ new["footer"] = footer
  BY <1>4
<1>9. PipeOk(new)
  <2>1. d.title \in Int BY DEF Edit!DocumentOk, Edit!Document
  <2>2. layout \in Seq(Edit!OuterRow) \cup {Absent} /\ footer \in Seq(Edit!OuterRow) \cup {Absent} BY <1>6, <1>7 DEF RowsOk
  <2>3. new \in [title : Int, layout : Seq(Edit!OuterRow) \cup {Absent}, footer : Seq(Edit!OuterRow) \cup {Absent}]
    BY <2>1, <2>2, <1>4
  <2>4. \A f \in Edit!Blocks : new[f] # Absent => RowsOk(new[f]) BY <1>3, <1>6, <1>7, <1>8
  <2> QED BY <2>3, <2>4 DEF PipeOk
<1>10. \A f \in Edit!Blocks : new[f] # Absent => \A i \in DOMAIN d[f] : Kept(d[f][i], new[f], f, {}, {})
  BY <1>3, <1>6, <1>7, <1>8
<1> QED BY <1>6, <1>8, <1>9, <1>10

\* What an edit by the other editor leaves true of rows at the server.
LEMMA RewrittenIs ==
  ASSUME NEW r \in Edit!OuterRow, r.secret \in Nat, r.rich \in Nat
  PROVE  Edit!Rewritten(r) \in Edit!OuterRow /\ Edit!Rewritten(r).id = r.id /\ Edit!Rewritten(r).secret \in Nat /\ Edit!Rewritten(r).rich \in Nat
<1>1. PICK m, n : m = r.secret + 20 /\ n = r.rich + 20 OBVIOUS
<1>2. m \in Nat /\ n \in Nat /\ m \in Int /\ n \in Int BY <1>1
<1>3. DOMAIN r = {"id", "type", "text", "secret", "rich", "inner"} BY DEF Edit!OuterRow
<1>4. Edit!Rewritten(r) = [r EXCEPT !.secret = m, !.rich = n] BY <1>1, <1>3 DEF Edit!Rewritten
<1>5. Edit!Rewritten(r) \in Edit!OuterRow BY <1>2, <1>4 DEF Edit!OuterRow
<1>6. Edit!Rewritten(r).id = r.id /\ Edit!Rewritten(r).secret = m /\ Edit!Rewritten(r).rich = n BY <1>3, <1>4
<1> QED BY <1>2, <1>5, <1>6

LEMMA RewrittenOn ==
  ASSUME NEW list, Edit!Served(list), NEW new, new = [i \in DOMAIN list |-> Edit!Rewritten(list[i])]
  PROVE  Edit!Served(new) /\ DOMAIN new = DOMAIN list /\ \A i \in DOMAIN list : new[i].id = list[i].id
<1>a. list \in Seq(Edit!OuterRow) /\ DOMAIN list = 1 .. Len(list) /\ Len(list) \in Nat BY DEF Edit!Served
<1>b. \A i \in DOMAIN list : list[i] \in Edit!OuterRow BY <1>a, ElementOfSeq
<1>1. ASSUME NEW i \in DOMAIN list
      PROVE  /\ new[i] \in Edit!OuterRow /\ new[i].id = list[i].id
             /\ new[i].secret \in Nat /\ new[i].rich \in Nat
  <2>1. list[i] \in Edit!OuterRow /\ list[i].secret \in Nat /\ list[i].rich \in Nat BY <1>b DEF Edit!Served
  <2>2. new[i] = Edit!Rewritten(list[i]) OBVIOUS
  <2> QED BY <2>1, <2>2, RewrittenIs
<1>2. DOMAIN new = DOMAIN list OBVIOUS
<1>3. new \in Seq(Edit!OuterRow)
  <2>1. new = [i \in DOMAIN list |-> new[i]] OBVIOUS
  <2>2. new \in [1 .. Len(list) -> Edit!OuterRow] BY <2>1, <1>a, <1>1
  <2> QED BY <2>2, <1>a, SeqDef
<1>4. Edit!Distinct(new)
  <2>1. \A i, j \in DOMAIN list : list[i].id = list[j].id /\ list[i].id # Edit!NoId => i = j BY DEF Edit!Served, Edit!Distinct
  <2> QED BY <2>1, <1>1, <1>2 DEF Edit!Distinct
<1>5. \A i \in DOMAIN list : list[i].id # Edit!NoId /\ list[i].id < 100 BY DEF Edit!Served
<1>6. \A i \in DOMAIN new : new[i].secret \in Nat /\ new[i].rich \in Nat /\ new[i].id # Edit!NoId /\ new[i].id < 100
  BY <1>1, <1>2, <1>5
<1> QED BY <1>1, <1>2, <1>3, <1>4, <1>6 DEF Edit!Served

LEMMA RemovedOn ==
  ASSUME NEW list, Edit!Served(list), NEW gone \in DOMAIN list
  PROVE  /\ Edit!Served(Edit!RemoveAt(list, gone))
         /\ \A i \in DOMAIN Edit!RemoveAt(list, gone) :
              \E k \in DOMAIN list : Edit!RemoveAt(list, gone)[i].id = list[k].id
<1> DEFINE new == Edit!RemoveAt(list, gone)
<1>a. list \in Seq(Edit!OuterRow) /\ DOMAIN list = 1 .. Len(list) /\ Len(list) \in Nat BY DEF Edit!Served
<1>b. \A i \in DOMAIN list : list[i] \in Edit!OuterRow BY <1>a, ElementOfSeq
<1>c. \A i \in DOMAIN list : list[i].id \in Int BY <1>b DEF Edit!OuterRow
<1>1. PICK n1 \in 1 .. Len(list) : new = Edit!RemoveAt(list, n1) BY <1>a
<1>2. /\ new \in Seq(Edit!OuterRow) /\ Len(new) = Len(list) - 1
      /\ \A k \in 1 .. n1 - 1 : new[k] = list[k]
      /\ \A k \in n1 .. Len(list) - 1 : new[k] = list[k + 1]
  BY <1>1, <1>a, RemoveIs
<1>3. DOMAIN new = 1 .. Len(list) - 1 BY <1>2
<1> DEFINE was(k) == IF k < n1 THEN k ELSE k + 1
<1>4. ASSUME NEW k \in DOMAIN new PROVE was(k) \in DOMAIN list /\ new[k] = list[was(k)]
  <2>1. CASE k < n1
    <3>1. k \in 1 .. n1 - 1 BY <2>1, <1>3
    <3> QED BY <3>1, <2>1, <1>2, <1>a
  <2>2. CASE ~(k < n1)
    <3>1. k \in n1 .. Len(list) - 1 /\ k + 1 \in 1 .. Len(list) BY <2>2, <1>3, <1>a
    <3> QED BY <3>1, <2>2, <1>2, <1>a
  <2> QED BY <2>1, <2>2
<1>5. \A j, k \in DOMAIN new : was(j) = was(k) => j = k
  <2>1. \A k \in DOMAIN new : k \in Int BY <1>3
  <2> QED BY <2>1
<1> HIDE DEF was
<1>6. Edit!Distinct(new) BY <1>4, <1>5 DEF Edit!Served, Edit!Distinct
<1>7. \A k \in DOMAIN new : new[k].secret \in Nat /\ new[k].rich \in Nat /\ new[k].id # Edit!NoId /\ new[k].id < 100
  BY <1>4 DEF Edit!Served
<1> QED BY <1>2, <1>4, <1>6, <1>7, <1>c DEF Edit!Served

LEMMA AppendedOn ==
  ASSUME NEW list, Edit!Served(list), NEW r \in Edit!OuterRow, r.id # Edit!NoId, r.id < 100, r.secret \in Nat, r.rich \in Nat,
         \A i \in DOMAIN list : list[i].id # r.id
  PROVE  /\ Edit!Served(Append(list, r))
         /\ \A i \in DOMAIN Append(list, r) :
              Append(list, r)[i].id = r.id \/ \E k \in DOMAIN list : Append(list, r)[i].id = list[k].id
<1> DEFINE new == Append(list, r)
<1>a. list \in Seq(Edit!OuterRow) /\ DOMAIN list = 1 .. Len(list) /\ Len(list) \in Nat BY DEF Edit!Served
<1>b. \A i \in DOMAIN list : list[i] \in Edit!OuterRow BY <1>a, ElementOfSeq
<1>c. \A i \in DOMAIN list : list[i].id \in Int BY <1>b DEF Edit!OuterRow
<1>5. /\ new \in Seq(Edit!OuterRow) /\ DOMAIN new = 1 .. Len(list) + 1
      /\ \A k \in 1 .. Len(list) : new[k] = list[k]
      /\ new[Len(list) + 1] = r
  BY <1>a, AppendProperties
<1>6. \A k \in DOMAIN new : \/ k \in DOMAIN list /\ new[k] = list[k]
                            \/ k = Len(list) + 1 /\ new[k] = r
  BY <1>5, <1>a
<1> HIDE DEF new
<1>8. Edit!Distinct(new) BY <1>6 DEF Edit!Served, Edit!Distinct
<1>9. \A k \in DOMAIN new : new[k].secret \in Nat /\ new[k].rich \in Nat /\ new[k].id # Edit!NoId /\ new[k].id < 100
  BY <1>6 DEF Edit!Served
<1>10. \A i \in DOMAIN new : new[i].id = r.id \/ \E k \in DOMAIN list : new[i].id = list[k].id BY <1>6
<1> QED BY <1>5, <1>8, <1>9, <1>10 DEF Edit!Served, new

LEMMA OtherStores ==
  ASSUME Edit!OtherEdits, StoredOk(pStored, pEdits), pEdits \in Nat, "t" \in Types
  PROVE  StoredOk(pStored', pEdits + 1)
<1> DEFINE above(list) == Edit!Served(list) /\ \A i \in DOMAIN list : list[i].id >= -(pEdits + 1)
<1>1. pStored \in Edit!Document BY DEF StoredOk
<1>2. pStored.title \in Int /\ DOMAIN pStored = {"title", "layout", "footer"} BY <1>1 DEF Edit!Document
<1>3. /\ Edit!Served(pStored.layout) /\ \A i \in DOMAIN pStored.layout : pStored.layout[i].id >= -pEdits
      /\ Edit!Served(pStored.footer) /\ \A i \in DOMAIN pStored.footer : pStored.footer[i].id >= -pEdits
  BY DEF StoredOk, Edit!Blocks
<1>4. ASSUME NEW list, Edit!Served(list), \A i \in DOMAIN list : list[i].id >= -pEdits
      PROVE  above(list) /\ \A i \in DOMAIN list : list[i].id \in Int
  <2>1. list \in Seq(Edit!OuterRow) BY <1>4 DEF Edit!Served
  <2>2. \A i \in DOMAIN list : list[i] \in Edit!OuterRow BY <2>1, ElementOfSeq
  <2>3. \A i \in DOMAIN list : list[i].id \in Int BY <2>2 DEF Edit!OuterRow
  <2> QED BY <2>3, <1>4
<1>5. above(pStored.layout) /\ above(pStored.footer) BY <1>3, <1>4
<1>6. ASSUME NEW list, above(list), pStored' = [pStored EXCEPT !.layout = list]
      PROVE  StoredOk(pStored', pEdits + 1)
  <2>0. list \in Seq(Edit!OuterRow) BY <1>6 DEF Edit!Served
  <2>1. pStored' \in Edit!Document BY <2>0, <1>1, <1>6 DEF Edit!Document
  <2>2. pStored'.layout = list /\ pStored'.footer = pStored.footer BY <1>2, <1>6
  <2> HIDE DEF above
  <2>3. above(pStored'.layout) /\ above(pStored'.footer) BY <2>2, <1>5, <1>6
  <2>4. \A f \in Edit!Blocks : above(pStored'[f]) BY <2>3 DEF Edit!Blocks
  <2> QED BY <2>1, <2>4 DEF StoredOk, above
<1>7. CASE pStored' = [pStored EXCEPT !.title = @ + 1]
  <2>1. pStored'.layout = pStored.layout /\ pStored'.footer = pStored.footer BY <1>2, <1>7
  <2>2. pStored' \in Edit!Document BY <1>1, <1>2, <1>7 DEF Edit!Document
  <2> HIDE DEF above
  <2>3. above(pStored'.layout) /\ above(pStored'.footer) BY <2>1, <1>5
  <2>4. \A f \in Edit!Blocks : above(pStored'[f]) BY <2>3 DEF Edit!Blocks
  <2> QED BY <2>2, <2>4 DEF StoredOk, above
<1>8. CASE pStored' = [pStored EXCEPT !.layout = [i \in DOMAIN @ |-> Edit!Rewritten(@[i])]]
  <2>1. PICK list, new : /\ list = pStored.layout
                         /\ new = [i \in DOMAIN list |-> Edit!Rewritten(list[i])]
    OBVIOUS
  <2>2. pStored' = [pStored EXCEPT !.layout = new] BY <1>8, <2>1
  <2>5. Edit!Served(list) BY <2>1, <1>3
  <2>3. Edit!Served(new) /\ DOMAIN new = DOMAIN list /\ \A i \in DOMAIN list : new[i].id = list[i].id
    BY <2>1, <2>5, RewrittenOn
  <2>4. above(new) BY <2>1, <2>3, <1>5
  <2> QED BY <2>2, <2>4, <1>6
<1>9. CASE \E i \in DOMAIN pStored.layout : pStored' = [pStored EXCEPT !.layout = Edit!RemoveAt(@, i)]
  <2>1. PICK list : list = pStored.layout OBVIOUS
  <2>2. PICK i \in DOMAIN list : pStored' = [pStored EXCEPT !.layout = Edit!RemoveAt(list, i)] BY <1>9, <2>1
  <2>3. PICK new : new = Edit!RemoveAt(list, i) OBVIOUS
  <2>4. Edit!Served(new) /\ \A j \in DOMAIN new : \E k \in DOMAIN list : new[j].id = list[k].id
    BY <2>1, <2>3, <1>3, RemovedOn
  <2>5. above(new) BY <2>1, <2>4, <1>5
  <2> QED BY <2>2, <2>3, <2>5, <1>6
<1>10. CASE pStored' = [pStored EXCEPT !.layout = Append(@, [Edit!NewRow("t") EXCEPT !.id = Edit!Theirs, !.secret = 50, !.rich = 50, !.inner = <<>>])]
  <2>1. PICK list, r : /\ list = pStored.layout
                       /\ r = [Edit!NewRow("t") EXCEPT !.id = Edit!Theirs, !.secret = 50, !.rich = 50, !.inner = <<>>]
    OBVIOUS
  <2>2. r = [id |-> -1 - pEdits, type |-> "t", text |-> 9, secret |-> 50, rich |-> 50, inner |-> <<>>]
    BY <2>1 DEF Edit!NewRow, Edit!Theirs
  <2>3. r \in Edit!OuterRow
    <3>1. <<>> \in Seq(Edit!InnerRow) OBVIOUS
    <3> QED BY <2>2, <3>1 DEF Edit!OuterRow
  <2>4. r.id = -1 - pEdits /\ r.secret = 50 /\ r.rich = 50 BY <2>2
  <2>5. /\ r.id # Edit!NoId /\ r.id < 100 /\ r.secret \in Nat /\ r.rich \in Nat /\ r.id >= -(pEdits + 1)
    BY <2>4 DEF Edit!NoId
  <2>6. \A i \in DOMAIN list : list[i].id # r.id
    <3>1. \A i \in DOMAIN list : list[i].id >= -pEdits /\ list[i].id \in Int BY <2>1, <1>3, <1>4
    <3> QED BY <3>1, <2>4
  <2>7. PICK new : new = Append(list, r) OBVIOUS
  <2>11. Edit!Served(list) BY <2>1, <1>3
  <2>8. Edit!Served(new) /\ \A i \in DOMAIN new : new[i].id = r.id \/ \E k \in DOMAIN list : new[i].id = list[k].id
    <3>1. Edit!Served(Append(list, r)) /\ \A i \in DOMAIN Append(list, r) :
            Append(list, r)[i].id = r.id \/ \E k \in DOMAIN list : Append(list, r)[i].id = list[k].id
      BY <2>3, <2>5, <2>6, <2>11, AppendedOn
    <3> QED BY <3>1, <2>7
  <2>9. above(new) BY <2>1, <2>5, <2>8, <1>5
  <2>10. pStored' = [pStored EXCEPT !.layout = new] BY <1>10, <2>1, <2>7
  <2> QED BY <2>9, <2>10, <1>6
<1> QED BY <1>7, <1>8, <1>9, <1>10 DEF Edit!OtherEdits

-----------------------------------------------------------------------------
(* The invariant.                                                            *)

PipeTyped ==
  /\ DOMAIN pPipe = PipeKeys /\ pPipe.kind \in {"none", "doc", "bare", "list", "failed"}
  /\ pPipe.stages \in Nat /\ pEdits \in Nat

\* A pipe holds a document a stage can edit exactly.
PipeSound ==
  /\ pPipe.kind \in {"doc", "bare"} => PipeOk(pPipe.doc)
  /\ pPipe.kind = "bare" => pPipe.doc.layout # Absent

\* Until it is written, the document at the server is what the other editor has made of it.
StoreSound ==
  pWriter.at \in {"idle", "ready"} =>
    /\ StoredOk(pStored, pEdits)
    /\ pEdits = 0 \/ pPipe.kind = "none" => pStored \in Documents

\* What is about to be sent is on the pipe, and what it is restored from is a document read.
WriterSound ==
  pWriter.at = "ready" =>
    /\ pPipe.kind = "doc"
    /\ pWriter.sent \in {pPipe.fields, {"layout"}, Edit!Carried(pPipe.doc) \cup {"title"}}
    /\ \A f \in pWriter.sent \cap Edit!Blocks : pPipe.doc[f] # Absent
    /\ pWriter.before # Absent => \A f \in Edit!Blocks : Restores(pWriter.before[f])

\* Unless another edits it, every row of the document is accounted for by the pipe.
RowsKept ==
  pPipe.kind = "doc" /\ pEdits = 0 =>
    \A f \in Edit!Blocks : pPipe.doc[f] # Absent =>
      \A i \in DOMAIN pStored[f] : Kept(pStored[f][i], pPipe.doc[f], f, pRemoved, pPipe.warned)

EditInv == PipeTyped /\ PipeSound /\ StoreSound /\ WriterSound /\ RowsKept

LEMMA NoPipeIs == DOMAIN Edit!NoPipe = PipeKeys /\ Edit!NoPipe.kind = "none" /\ Edit!NoPipe.stages = 0
                  /\ Edit!NoPipe.warned = {}
BY Zenon DEF Edit!NoPipe, PipeKeys

LEMMA FirstStored == ASSUME NEW d, Edit!DocumentOk(d), NEW n \in Nat PROVE StoredOk(d, n)
<1>1. ASSUME NEW f \in Edit!Blocks, NEW i \in DOMAIN d[f] PROVE d[f][i].id >= -n
  <2>1. d[f] \in Seq(Edit!OuterRow) BY DEF Edit!DocumentOk, Edit!Served
  <2>2. d[f][i] \in Edit!OuterRow BY <2>1, ElementOfSeq
  <2>3. d[f][i].id \in Int BY <2>2 DEF Edit!OuterRow
  <2>4. d[f][i].id > 0 BY DEF Edit!DocumentOk
  <2> QED BY <2>3, <2>4
<1> QED BY <1>1 DEF Edit!DocumentOk, StoredOk

LEMMA InitIs == ASSUME Edit!Init, Edit!DocumentsOk PROVE EditInv
<1>1. pPipe = Edit!NoPipe /\ pStored \in Documents /\ pEdits = 0 /\ pWriter = Edit!Idle BY DEF Edit!Init
<1>2. PipeTyped /\ pPipe.kind = "none" BY <1>1, NoPipeIs DEF PipeTyped
<1>3. pWriter.at = "idle" BY <1>1 DEF Edit!Idle
<1>4. StoredOk(pStored, pEdits) BY <1>1, FirstStored DEF Edit!DocumentsOk
<1> QED BY <1>1, <1>2, <1>3, <1>4 DEF EditInv, PipeSound, StoreSound, WriterSound, RowsKept

-----------------------------------------------------------------------------
(* The steps.                                                                *)

\* What every step keeps.
Exactly == EditInv' /\ Edit!StageExact /\ Edit!WriteExact

LEMMA NoWrite ==
  ASSUME ~(pWriter.at = "ready" /\ pWriter'.at = "written") PROVE Edit!WriteExact
BY DEF Edit!WriteExact

LEMMA NoStage ==
  ASSUME pPipe.stages \in Nat, pPipe'.stages = pPipe.stages \/ pPipe'.kind \notin {"doc", "list"} \/ pPipe'.stages = 0
  PROVE  Edit!StageExact
<1>1. ~(pPipe.stages' = pPipe.stages + 1 /\ pPipe'.kind \in {"doc", "list"}) OBVIOUS
<1> QED BY <1>1 DEF Edit!StageExact

LEMMA KeptMore ==
  ASSUME NEW r, NEW list, NEW f, NEW removed, NEW said, Kept(r, list, f, {}, {})
  PROVE  Kept(r, list, f, removed, said)
BY DEF Kept

LEMMA GetsKeep ==
  ASSUME EditInv, Edit!Gets, Edit!DocumentsOk, Edit!AbsentApart
  PROVE  Exactly
<1>0. PipeTyped /\ StoreSound BY DEF EditInv
<1>1. pPipe.kind = "none" /\ pWriter = Edit!Idle BY DEF Edit!Gets
<1>2. pWriter.at = "idle" BY <1>1 DEF Edit!Idle
<1>3. pStored \in Documents /\ StoredOk(pStored, pEdits) BY <1>0, <1>1, <1>2 DEF StoreSound
<1>4. pStored' = pStored /\ pWriter' = pWriter /\ pEdits' = pEdits /\ pRemoved' = pRemoved BY DEF Edit!Gets
<1>5. PICK n : Is(n, Edit!NoPipe) BY DEF Is
<1>6. DOMAIN n = PipeKeys /\ n.stages = 0 BY <1>5, NoPipeIs DEF Is
<1>7. PICK how : pPipe' = [n EXCEPT !.kind = IF how = "bare" THEN "bare" ELSE "doc", !.doc = Edit!Read(pStored, how),
                                    !.rendered = how = "rendered"]
  BY <1>5 DEF Edit!Gets, Is
<1>8. /\ DOMAIN pPipe' = PipeKeys /\ pPipe'.kind = (IF how = "bare" THEN "bare" ELSE "doc")
      /\ pPipe'.doc = Edit!Read(pStored, how) /\ pPipe'.stages = 0
  BY <1>6, <1>7 DEF PipeKeys
<1>9. PICK d, new : Is(d, pStored) /\ Is(new, Edit!Read(d, how)) BY DEF Is
<1>10. Edit!DocumentOk(d) BY <1>3, <1>9 DEF Edit!DocumentsOk, Is
<1>11. /\ PipeOk(new) /\ (how = "bare" => new.layout # Absent)
       /\ \A f \in Edit!Blocks : new[f] # Absent => \A i \in DOMAIN d[f] : Kept(d[f][i], new[f], f, {}, {})
  BY <1>9, <1>10, ReadIs DEF Is
<1>12. pPipe'.doc = new BY <1>8, <1>9 DEF Is
<1>13. PipeTyped' BY <1>0, <1>4, <1>8 DEF PipeTyped
<1>14. PipeSound' BY <1>8, <1>11, <1>12 DEF PipeSound
<1>15. StoreSound' BY <1>3, <1>4 DEF StoreSound
<1>16. WriterSound' BY <1>2, <1>4 DEF WriterSound
<1>17. RowsKept'
  <2>1. \A f \in Edit!Blocks : new[f] # Absent =>
          \A i \in DOMAIN d[f] : Kept(d[f][i], new[f], f, pRemoved', pPipe'.warned)
    BY <1>11, KeptMore
  <2>2. d = pStored' BY <1>4, <1>9 DEF Is
  <2> QED BY <2>1, <2>2, <1>12 DEF RowsKept
<1>18. Edit!StageExact BY <1>0, <1>8, NoStage DEF PipeTyped
<1>19. Edit!WriteExact BY <1>2, <1>4, NoWrite
<1> QED BY <1>13, <1>14, <1>15, <1>16, <1>17, <1>18, <1>19 DEF Exactly, EditInv

LEMMA GetFailsKeep ==
  ASSUME EditInv, Edit!GetFails
  PROVE  Exactly
<1>0. PipeTyped /\ StoreSound BY DEF EditInv
<1>1. pPipe.kind = "none" /\ pWriter = Edit!Idle BY DEF Edit!GetFails
<1>2. pWriter.at = "idle" BY <1>1 DEF Edit!Idle
<1>3. pStored \in Documents /\ StoredOk(pStored, pEdits) BY <1>0, <1>1, <1>2 DEF StoreSound
<1>4. pStored' = pStored /\ pWriter' = pWriter /\ pEdits' = pEdits BY DEF Edit!GetFails
<1>5. PICK n : Is(n, Edit!NoPipe) BY DEF Is
<1>6. DOMAIN n = PipeKeys /\ n.stages = 0 BY <1>5, NoPipeIs DEF Is
<1>7. pPipe' = [n EXCEPT !.kind = "failed", !.code = "server_error"] BY <1>5 DEF Edit!GetFails, Is
<1>8. DOMAIN pPipe' = PipeKeys /\ pPipe'.kind = "failed" /\ pPipe'.stages = 0 BY <1>6, <1>7 DEF PipeKeys
<1>9. PipeTyped' BY <1>0, <1>4, <1>8 DEF PipeTyped
<1>10. PipeSound' /\ RowsKept' BY <1>8 DEF PipeSound, RowsKept
<1>11. StoreSound' BY <1>3, <1>4 DEF StoreSound
<1>12. WriterSound' BY <1>2, <1>4 DEF WriterSound
<1>13. Edit!StageExact BY <1>0, <1>8, NoStage DEF PipeTyped
<1>14. Edit!WriteExact BY <1>2, <1>4, NoWrite
<1> QED BY <1>9, <1>10, <1>11, <1>12, <1>13, <1>14 DEF Exactly, EditInv

LEMMA StageKeeps ==
  ASSUME EditInv, Edit!Stage, Edit!DocumentsOk, Edit!Asked, Edit!AbsentApart
  PROVE  Exactly
<1>0. PipeTyped /\ StoreSound /\ PipeSound /\ RowsKept BY DEF EditInv
<1>1. pPipe.kind # "none" /\ pWriter = Edit!Idle BY DEF Edit!Stage
<1>2. pWriter.at = "idle" BY <1>1 DEF Edit!Idle
<1>3. pStored' = pStored /\ pWriter' = pWriter /\ pEdits' = pEdits BY DEF Edit!Stage
<1>4. Edit!StageExact BY <1>0, StageMakes DEF PipeTyped, PipeSound
<1>5. Edit!WriteExact BY <1>2, <1>3, NoWrite
<1>6. WriterSound' BY <1>2, <1>3 DEF WriterSound
<1>7. pPipe'.kind # "none" => StoreSound' BY <1>0, <1>2, <1>3 DEF StoreSound
<1>8. CASE \E code : Edit!Fails(code)
  <2>1. DOMAIN pPipe' = PipeKeys /\ pPipe'.kind = "failed" /\ pPipe'.stages = pPipe.stages + 1
    BY <1>0, <1>8, FailsIs DEF PipeTyped
  <2>2. PipeTyped' BY <2>1, <1>0, <1>3 DEF PipeTyped
  <2>3. PipeSound' /\ RowsKept' BY <2>1 DEF PipeSound, RowsKept
  <2> QED BY <2>1, <2>2, <2>3, <1>4, <1>5, <1>6, <1>7 DEF Exactly, EditInv
<1>9. CASE /\ pPipe.kind \in {"doc", "bare"}
           /\ \E p, list, op :
                /\ PlaceOk(pPipe.doc, p) /\ Edit!Emits(p, list, op) /\ Fits(p, list)
                /\ DOMAIN op = DOMAIN Edit!NoOp /\ \A l : Agrees(l, op) => Edit!Does(p.rows, list, l)
  <2>1. PICK p, list, op :
          /\ PlaceOk(pPipe.doc, p) /\ Edit!Emits(p, list, op) /\ Fits(p, list)
          /\ DOMAIN op = DOMAIN Edit!NoOp
    BY <1>9
  <2>2. /\ DOMAIN pPipe' = PipeKeys
        /\ pPipe'.kind = (IF pPipe.kind = "bare" THEN "list" ELSE pPipe.kind)
        /\ pPipe'.doc = Edit!Replace(pPipe.doc, p, list)
        /\ pPipe'.warned = pPipe.warned \cup p.warned
        /\ pPipe'.stages = pPipe.stages + 1
        /\ pRemoved' = pRemoved \cup (Edit!Ids(p.rows) \ Edit!Ids(list))
    BY <2>1, <1>0, EmitsIs DEF PipeTyped
  <2>3. PICK d, new : d = pPipe.doc /\ Is(new, Edit!Replace(d, p, list)) BY DEF Is
  <2>4. PipeOk(d) /\ PlaceOk(d, p) BY <2>1, <2>3, <1>9, <1>0 DEF PipeSound
  <2>5. PipeOk(new) BY <2>1, <2>3, <2>4, ReplaceIs DEF Is
  <2>6. pPipe'.doc = new BY <2>2, <2>3 DEF Is
  <2>7. PipeTyped' BY <2>2, <1>0, <1>3 DEF PipeTyped
  <2>8. PipeSound' BY <2>2, <2>5, <2>6, <1>9 DEF PipeSound
  <2>9. RowsKept'
    <3>1. SUFFICES ASSUME pPipe'.kind = "doc", pEdits' = 0, NEW f \in Edit!Blocks, new[f] # Absent,
                          NEW i \in DOMAIN pStored[f]
                   PROVE  Kept(pStored[f][i], new[f], f, pRemoved', pPipe'.warned)
      BY <2>6, <1>3 DEF RowsKept
    <3>2. pPipe.kind = "doc" BY <3>1, <2>2
    <3>3. d[f] # Absent => Kept(pStored[f][i], d[f], f, pRemoved, pPipe.warned)
      BY <3>1, <3>2, <2>3, <1>0, <1>3 DEF RowsKept
    <3>4. pStored[f][i].id # Edit!NoId BY <1>0, <1>2 DEF StoreSound, StoredOk, Edit!Served
    <3>5. PICK r, removed, said : r = pStored[f][i] /\ removed = pRemoved /\ said = pPipe.warned OBVIOUS
    <3>6. d[f] # Absent => Kept(r, d[f], f, removed, said) BY <3>3, <3>5
    <3>7. Edit!Replace(d, p, list)[f] # Absent BY <3>1, <2>3 DEF Is
    <3>8. r.id # Edit!NoId BY <3>4, <3>5
    <3>9. Kept(r, Edit!Replace(d, p, list)[f], f, removed \cup (Edit!Ids(p.rows) \ Edit!Ids(list)), said \cup p.warned)
      BY <3>6, <3>7, <3>8, <2>1, <2>4, KeptOn
    <3>10. Kept(r, new[f], f, removed \cup (Edit!Ids(p.rows) \ Edit!Ids(list)), said \cup p.warned)
      BY <3>9, <2>3 DEF Is
    <3> QED BY <3>5, <3>10, <2>2
  <2>10. pPipe'.kind # "none" BY <2>2, <1>1
  <2> QED BY <2>7, <2>8, <2>9, <2>10, <1>4, <1>5, <1>6, <1>7 DEF Exactly, EditInv
<1> QED BY <1>0, <1>8, <1>9, StageIs DEF PipeTyped, PipeSound

LEMMA DoneIs ==
  ASSUME NEW how, Edit!Done(how)
  PROVE  DOMAIN pPipe' = PipeKeys /\ pPipe'.kind = "none" /\ pPipe'.stages = 0 /\ pWriter'.at = how
<1>1. pPipe' = Edit!NoPipe /\ pWriter' = [Edit!Idle EXCEPT !.at = how] BY DEF Edit!Done
<1>2. DOMAIN pPipe' = PipeKeys /\ pPipe'.kind = "none" /\ pPipe'.stages = 0 BY <1>1, NoPipeIs
<1>3. pWriter'.at = how BY <1>1 DEF Edit!Idle
<1> QED BY <1>2, <1>3

LEMMA PreparesKeep ==
  ASSUME EditInv, Edit!Prepares, Edit!AbsentApart
  PROVE  Exactly
<1>0. PipeTyped /\ StoreSound /\ PipeSound /\ RowsKept BY DEF EditInv
<1>1. pPipe.kind # "none" /\ pWriter = Edit!Idle BY DEF Edit!Prepares
<1>2. pWriter.at = "idle" BY <1>1 DEF Edit!Idle
<1>3. pStored' = pStored /\ pEdits' = pEdits BY DEF Edit!Prepares
<1>4. Edit!WriteExact BY <1>2, NoWrite
<1>5. CASE Edit!Done("refused")
  <2>1. DOMAIN pPipe' = PipeKeys /\ pPipe'.kind = "none" /\ pPipe'.stages = 0 /\ pWriter'.at = "refused"
    BY <1>5, DoneIs
  <2>2. Edit!StageExact BY <1>0, <2>1, NoStage DEF PipeTyped
  <2>3. PipeTyped' BY <2>1, <1>0, <1>3 DEF PipeTyped
  <2>4. PipeSound' /\ RowsKept' /\ StoreSound' /\ WriterSound'
    BY <2>1 DEF PipeSound, RowsKept, StoreSound, WriterSound
  <2> QED BY <2>2, <2>3, <2>4, <1>4 DEF Exactly, EditInv
<1>6. CASE ~Edit!Done("refused")
  <2>1. PICK sent \in Edit!Sendable :
          /\ ~Edit!Refused(sent)
          /\ \E before \in {pStored, Absent} : pWriter' = [at |-> "ready", sent |-> sent, before |-> before]
          /\ pPipe' = pPipe /\ pRemoved' = pRemoved
    BY <1>6 DEF Edit!Prepares
  <2>2. PICK before \in {pStored, Absent} : pWriter' = [at |-> "ready", sent |-> sent, before |-> before]
    BY <2>1
  <2>3. pWriter'.at = "ready" /\ pWriter'.sent = sent /\ pWriter'.before = before BY <2>2
  <2>4. pPipe.kind = "doc" BY <2>1, <1>0, <1>1 DEF Edit!Refused, PipeTyped
  <2>5. \A f \in sent \cap Edit!Blocks : pPipe.doc[f] # Absent BY <2>1 DEF Edit!Refused
  <2>6. sent \in {pPipe.fields, {"layout"}, Edit!Carried(pPipe.doc) \cup {"title"}}
    BY <2>4 DEF Edit!Sendable, Edit!Recorded
  <2>7. before # Absent => \A f \in Edit!Blocks : Restores(before[f])
    <3>1. SUFFICES ASSUME before = pStored, NEW f \in Edit!Blocks PROVE Restores(before[f]) BY <2>2
    <3>2. Edit!Served(pStored[f]) BY <1>0, <1>2 DEF StoreSound, StoredOk
    <3> QED BY <3>1, <3>2 DEF Edit!Served, Restores
  <2>8. WriterSound' BY <2>1, <2>3, <2>4, <2>5, <2>6, <2>7 DEF WriterSound
  <2>9. Edit!StageExact BY <1>0, <2>1, NoStage DEF PipeTyped
  <2>10. PipeTyped' BY <2>1, <1>0, <1>3 DEF PipeTyped
  <2>11. PipeSound' BY <2>1, <1>0 DEF PipeSound
  <2>12. StoreSound' BY <2>1, <1>0, <1>2, <1>3 DEF StoreSound
  <2>13. RowsKept' BY <2>1, <1>0, <1>3 DEF RowsKept
  <2> QED BY <2>8, <2>9, <2>10, <2>11, <2>12, <2>13, <1>4 DEF Exactly, EditInv
<1> QED BY <1>5, <1>6

LEMMA OtherEditsKeep ==
  ASSUME EditInv, Edit!OtherEdits, "t" \in Types
  PROVE  Exactly
<1>0. PipeTyped /\ StoreSound /\ PipeSound /\ WriterSound BY DEF EditInv
<1>1. /\ pPipe.kind = "doc" /\ pWriter.at \in {"idle", "ready"}
      /\ pEdits' = pEdits + 1 /\ pPipe' = pPipe /\ pWriter' = pWriter
  BY DEF Edit!OtherEdits
<1>2. pEdits \in Nat /\ pEdits' \in Nat /\ pEdits' # 0 BY <1>0, <1>1 DEF PipeTyped
<1>3. StoredOk(pStored, pEdits) BY <1>0, <1>1 DEF StoreSound
<1>4. StoredOk(pStored', pEdits') BY <1>1, <1>2, <1>3, OtherStores
<1>5. PipeTyped' BY <1>0, <1>1, <1>2 DEF PipeTyped
<1>6. PipeSound' BY <1>0, <1>1 DEF PipeSound
<1>7. StoreSound' BY <1>1, <1>2, <1>4 DEF StoreSound
<1>8. WriterSound' BY <1>0, <1>1 DEF WriterSound
<1>9. RowsKept' BY <1>2 DEF RowsKept
<1>10. Edit!StageExact BY <1>0, <1>1, NoStage DEF PipeTyped
<1>11. Edit!WriteExact BY <1>1, NoWrite
<1> QED BY <1>5, <1>6, <1>7, <1>8, <1>9, <1>10, <1>11 DEF Exactly, EditInv

\* What a write makes of a field that is sent.
LEMMA FieldWritten ==
  ASSUME EditInv, Edit!AbsentApart, Edit!DocumentsOk, pWriter.at = "ready", NEW f \in Edit!Blocks \cap pWriter.sent,
         NEW after, after = Edit!Patched(f)
  PROVE  /\ Edit!Ids(pPipe.doc[f]) \subseteq Edit!Ids(after) \/ Edit!Told(f)
         /\ \A i \in DOMAIN after : after[i].secret # Edit!Mask /\ after[i].rich # Edit!Mask
         /\ \A i, j \in DOMAIN after : after[i].id = after[j].id => i = j
         /\ \A i \in DOMAIN after, j \in DOMAIN pStored[f] :
              Edit!Same(after[i], pStored[f][j]) =>
                /\ after[i].secret = pStored[f][j].secret
                /\ pWriter.before = pStored => after[i].rich = pStored[f][j].rich
         /\ pEdits = 0 => \A j \in DOMAIN pStored[f] :
              \/ pStored[f][j].id \in pRemoved \/ Edit!IdsOf(pStored[f][j]) \subseteq Edit!Ids(after) \cup pRemoved
              \/ Edit!Told(f)
              \/ \E i \in DOMAIN after : after[i].id = pStored[f][j].id /\ after[i].type # pStored[f][j].type
<1>0. PipeTyped /\ StoreSound /\ PipeSound /\ WriterSound /\ RowsKept BY DEF EditInv
<1>1. pPipe.kind = "doc" /\ pPipe.doc[f] # Absent BY <1>0 DEF WriterSound
<1>2. PICK edited, list, before, removed, said :
        /\ edited = pPipe.doc[f] /\ list = pStored[f]
        /\ before = IF pWriter.before = Absent THEN Absent ELSE pWriter.before[f]
        /\ removed = pRemoved /\ said = pPipe.warned
  OBVIOUS
<1>3. RowsOk(edited) BY <1>0, <1>1, <1>2 DEF PipeSound, PipeOk
<1>4. StoredOk(pStored, pEdits) BY <1>0 DEF StoreSound
<1>5. Edit!Served(list) BY <1>2, <1>4 DEF StoredOk
<1>6. Restores(before)
  <2>1. CASE pWriter.before = Absent BY <2>1, <1>2 DEF Restores
  <2>2. CASE pWriter.before # Absent BY <2>2, <1>0, <1>2 DEF WriterSound
  <2> QED BY <2>1, <2>2
<1>7. PICK body : body = [i \in DOMAIN edited |-> Edit!Prepared(edited[i], i, before)] OBVIOUS
<1>8. PICK all : all = [i \in DOMAIN body |-> Edit!Stores(body[i], i, list)] OBVIOUS
<1>9. Edit!Body(f) = body BY <1>2, <1>7 DEF Edit!Body
<1>10. after = Edit!RemoveAll(all, {i \in DOMAIN body : body[i].type \notin Known})
  BY <1>2, <1>8, <1>9 DEF Edit!Patched
<1>16. Carries(edited, before, list, after)
  BY <1>3, <1>5, <1>6, <1>7, <1>8, <1>10, PatchedIs
<1>11. /\ after \in Seq(Edit!OuterRow)
       /\ \A i \in DOMAIN after : after[i].secret # Edit!Mask /\ after[i].rich # Edit!Mask
       /\ \A i, j \in DOMAIN after : after[i].id = after[j].id => i = j
       /\ \A i \in DOMAIN after, j \in DOMAIN list :
            Edit!Same(after[i], list[j]) =>
              /\ after[i].secret = list[j].secret
              /\ before = list => after[i].rich = list[j].rich
       /\ Foreign(edited) = {} =>
            /\ Edit!Ids(edited) \subseteq Edit!Ids(after)
            /\ \A k \in DOMAIN edited, j \in DOMAIN list :
                 edited[k].id = list[j].id /\ edited[k].inner = Absent =>
                   \E m \in DOMAIN after :
                     /\ after[m].id = list[j].id
                     /\ after[m].type = list[j].type => after[m].inner = list[j].inner
  BY <1>16 DEF Carries
<1>12. Edit!Told(f) <=> <<"field_absent", f>> \in said \/ Foreign(edited) # {}
  BY <1>2 DEF Edit!Told, Foreign
<1>13. pWriter.before = pStored => before = list
  <2>1. pStored # Absent BY <1>4 DEF StoredOk, Edit!AbsentApart
  <2> QED BY <2>1, <1>2
<1>14. ASSUME pEdits = 0, NEW j \in DOMAIN list, ~Edit!Told(f)
       PROVE  \/ list[j].id \in removed
              \/ Edit!IdsOf(list[j]) \subseteq Edit!Ids(after) \cup removed
              \/ \E i \in DOMAIN after : after[i].id = list[j].id /\ after[i].type # list[j].type
  <2>1. Kept(list[j], edited, f, removed, said) BY <1>0, <1>1, <1>2, <1>14 DEF RowsKept
  <2>2. Foreign(edited) = {} /\ <<"field_absent", f>> \notin said BY <1>12, <1>14
  <2>3. CASE Edit!IdsOf(list[j]) \subseteq Edit!Ids(edited) \cup removed BY <2>3, <2>2, <1>11
  <2>4. CASE \E k \in DOMAIN edited : edited[k].id = list[j].id /\ edited[k].inner = Absent
    <3>1. PICK m \in DOMAIN after : /\ after[m].id = list[j].id
                                    /\ after[m].type = list[j].type => after[m].inner = list[j].inner
      BY <2>2, <2>4, <1>11
    <3>2. CASE after[m].type # list[j].type BY <3>1, <3>2
    <3>3. CASE after[m].inner = list[j].inner
      <4>1. ASSUME NEW x \in Edit!IdsOf(list[j]) PROVE x \in Edit!Ids(after)
        <5>1. \/ x = list[j].id
              \/ list[j].inner # Absent /\ \E n \in DOMAIN list[j].inner : x = list[j].inner[n].id
          BY <4>1 DEF Edit!IdsOf
        <5>2. x # Edit!NoId
          <6>1. pStored \in Documents BY <1>0, <1>14 DEF StoreSound
          <6>2. /\ list[j].id > 0
                /\ list[j].inner # Absent => \A n \in DOMAIN list[j].inner : list[j].inner[n].id # Edit!NoId
            BY <6>1, <1>2 DEF Edit!DocumentsOk, Edit!DocumentOk
          <6> QED BY <5>1, <6>2 DEF Edit!NoId
        <5>3. \/ x = after[m].id
              \/ after[m].inner # Absent /\ \E n \in DOMAIN after[m].inner : x = after[m].inner[n].id
          BY <5>1, <3>1, <3>3
        <5> QED BY <5>2, <5>3, <1>11, OuterIds
      <4> QED BY <4>1
    <3> QED BY <3>1, <3>2, <3>3
  <2> QED BY <2>1, <2>2, <2>3, <2>4 DEF Kept
<1>15. Edit!Ids(edited) \subseteq Edit!Ids(after) \/ Edit!Told(f) BY <1>11, <1>12
<1> QED BY <1>2, <1>11, <1>13, <1>14, <1>15

LEMMA WritesKeep ==
  ASSUME EditInv, Edit!Writes, Edit!AbsentApart, Edit!DocumentsOk
  PROVE  Exactly
<1>0. PipeTyped /\ WriterSound BY DEF EditInv
<1>1. pWriter.at = "ready" /\ Edit!Done("written") /\ pEdits' = pEdits BY DEF Edit!Writes
<1>2. DOMAIN pPipe' = PipeKeys /\ pPipe'.kind = "none" /\ pPipe'.stages = 0 /\ pWriter'.at = "written"
  BY <1>1, DoneIs
<1>3. Edit!StageExact BY <1>0, <1>2, NoStage DEF PipeTyped
<1>4. PipeTyped' BY <1>0, <1>1, <1>2 DEF PipeTyped
<1>5. PipeSound' /\ RowsKept' /\ StoreSound' /\ WriterSound'
  BY <1>2 DEF PipeSound, RowsKept, StoreSound, WriterSound
<1>6. ASSUME pStored' # pStored PROVE Edit!WriteExact
  <2>1. pStored' = [title  |-> IF "title" \in pWriter.sent THEN pPipe.doc.title ELSE pStored.title,
                    layout |-> IF "layout" \in pWriter.sent THEN Edit!Patched("layout") ELSE pStored.layout,
                    footer |-> IF "footer" \in pWriter.sent THEN Edit!Patched("footer") ELSE pStored.footer]
    BY <1>6 DEF Edit!Writes
  <2>2. "title" \notin pWriter.sent => pStored'.title = pStored.title BY <2>1
  <2>3. \A f \in Edit!Blocks \ pWriter.sent : pStored'[f] = pStored[f] BY <2>1 DEF Edit!Blocks
  <2>4. \A f \in Edit!Blocks \cap pWriter.sent : pStored'[f] = Edit!Patched(f) BY <2>1 DEF Edit!Blocks
  <2>5. pWriter.sent \in {pPipe.fields, {"layout"}, Edit!Carried(pPipe.doc) \cup {"title"}}
    BY <1>0, <1>1 DEF WriterSound
  <2>6. ASSUME NEW f \in Edit!Blocks \cap pWriter.sent
        PROVE  LET before == pStored[f]  after == pStored'[f]  edited == pPipe.doc[f] IN
               /\ Edit!Ids(edited) \subseteq Edit!Ids(after) \/ Edit!Told(f)
               /\ \A i \in DOMAIN after : after[i].secret # Edit!Mask /\ after[i].rich # Edit!Mask
               /\ \A i, j \in DOMAIN after : after[i].id = after[j].id => i = j
               /\ \A i \in DOMAIN after, j \in DOMAIN before :
                    Edit!Same(after[i], before[j]) =>
                      /\ after[i].secret = before[j].secret
                      /\ pWriter.before = pStored => after[i].rich = before[j].rich
               /\ pEdits = 0 => \A j \in DOMAIN before :
                    \/ before[j].id \in pRemoved \/ Edit!IdsOf(before[j]) \subseteq Edit!Ids(after) \cup pRemoved
                    \/ Edit!Told(f)
                    \/ \E i \in DOMAIN after : after[i].id = before[j].id /\ after[i].type # before[j].type
    <3>1. pStored'[f] = Edit!Patched(f) BY <2>4
    <3> QED BY <3>1, <1>1, FieldWritten
  <2> QED BY <2>2, <2>3, <2>5, <2>6 DEF Edit!WriteExact
<1>7. pStored' = pStored => Edit!WriteExact BY DEF Edit!WriteExact
<1> QED BY <1>3, <1>4, <1>5, <1>6, <1>7 DEF Exactly, EditInv

\* From the read to the write, every stage makes exactly the edit it records, and the write carries
\* exactly those edits: whatever the document and whatever is asked for.
THEOREM EditsAreExact == Edit!Spec => EditsExact
<1>0. Edit!Asked /\ Edit!AbsentApart /\ Edit!DocumentsOk BY DocumentsAssumption DEF Edit!EditAssumption
<1> DEFINE exact == Edit!StageExact /\ Edit!WriteExact
<1>1. Edit!Init => EditInv BY <1>0, InitIs
<1>2. EditInv /\ [Edit!Next]_(Edit!vars) => EditInv' /\ [exact]_pipeVars
  <2>1. CASE Edit!Next
    <3>1. SUFFICES ASSUME EditInv, Edit!Next PROVE Exactly BY <2>1 DEF Exactly
    <3>2. "t" \in Types BY <1>0 DEF Edit!Asked
    <3> QED BY <1>0, <3>1, <3>2, GetsKeep, GetFailsKeep, StageKeeps, PreparesKeep, WritesKeep, OtherEditsKeep DEF Edit!Next
  <2>2. CASE UNCHANGED Edit!vars
    BY <2>2 DEF EditInv, PipeTyped, PipeSound, StoreSound, WriterSound, RowsKept, Edit!vars, pipeVars
  <2> QED BY <2>1, <2>2
<1> QED BY <1>1, <1>2, PTL DEF Edit!Spec, EditsExact, exact
=============================================================================
