----------------------------- MODULE RacesProofs -----------------------------
(***************************************************************************)
(* Theorems about Credentials, for any number of processes, profiles and   *)
(* commands, and about Census.                                             *)
(***************************************************************************)
EXTENDS MCRaces, FiniteSetTheorems, TLAPS

-----------------------------------------------------------------------------
(* Types.                                                                   *)

\* The record and credential constants have their types.
LEMMA Constants ==
  /\ None \in Vals /\ None \in Lates /\ Nothing \in Lates /\ Vals \subseteq Lates
  /\ Empty \in Records /\ NoFile \in Files
  /\ NoConfig \in [Profiles -> AuthModes]
  /\ NoCred \in [kind : AllKinds \cup {"none"}, val : Vals]
  /\ AnyProfile \in Profiles
BY ProfilesAssumption
   DEF AnyProfile, None, Nothing, Vals, Lates, Empty, Records, NoFile, Files, NoConfig, AuthModes,
       NoCred, AllKinds

LEMMA TypeInit == Init => TypeOK
<1> SUFFICES ASSUME Init PROVE TypeOK
  OBVIOUS
<1> USE Constants, BoundAssumption
<1>1. keychain \in [Profiles -> Vals] /\ last \in [Profiles -> Vals]
  BY DEF Init
<1>5. file \in Files /\ config \in [Profiles -> AuthModes]
  BY Zenon DEF Init
<1>6. kmode \in Modes /\ used \in 0 .. MaxCommands
  <2>1. kmode \in Modes /\ used = 0
    BY Zenon DEF Init
  <2>2. 0 \in 0 .. MaxCommands
    BY BoundAssumption
  <2> QED BY <2>1, <2>2
<1>2. /\ pc \in [Procs -> PCs] /\ cmd \in [Procs -> Commands \cup {"none"}]
      /\ flag \in [Procs -> BOOLEAN] /\ failed \in [Procs -> BOOLEAN]
      /\ amode \in [Procs -> AuthModes]
  BY DEF Init, PCs, AuthModes
<1>3. prof \in [Procs -> Profiles] /\ to \in [Procs -> Profiles]
  BY DEF Init
<1>4. /\ ucfg \in [Procs -> [Profiles -> AuthModes]] /\ sec \in [Procs -> Vals]
      /\ rec \in [Procs -> Records] /\ copy \in [Procs -> Files]
      /\ late \in [Procs -> Lates]
      /\ got \in [Procs -> [kind : AllKinds \cup {"none"}, val : Vals]]
  <2>1. Empty \in Records /\ NoFile \in Files /\ None \in Vals /\ Nothing \in Lates
        /\ NoConfig \in [Profiles -> AuthModes]
        /\ NoCred \in [kind : AllKinds \cup {"none"}, val : Vals]
    OBVIOUS
  <2>2. /\ ucfg = [p \in Procs |-> NoConfig] /\ sec = [p \in Procs |-> None]
        /\ rec = [p \in Procs |-> Empty] /\ copy = [p \in Procs |-> NoFile]
        /\ late = [p \in Procs |-> Nothing] /\ got = [p \in Procs |-> NoCred]
    BY DEF Init
  <2>3. \A S, x : x \in S => [p \in Procs |-> x] \in [Procs -> S]
    OBVIOUS
  <2> QED BY <2>1, <2>2, <2>3, Zenon
<1> QED BY <1>1, <1>2, <1>3, <1>4, <1>5, <1>6 DEF TypeOK

LEMMA ExitType ==
  ASSUME TypeOK, NEW p \in Procs, Exit(p), UNCHANGED disk,
         last' \in [Profiles -> Vals]
  PROVE  TypeOK'
BY Constants DEF TypeOK, Exit, disk, PCs, AuthModes

\* What a load-edit-save writes is a credentials file.
LEMMA EditType ==
  ASSUME TypeOK, NEW p \in Procs
  PROVE  Edit(p) \in Files
<1> DEFINE old == copy[p][prof[p]]
<1>1. /\ copy[p] \in [Profiles -> Records] /\ prof[p] \in Profiles /\ to[p] \in Profiles
      /\ rec[p] \in Records /\ old \in Records
  BY DEF TypeOK, Files
<1>2. \A r \in Records, b \in BOOLEAN : [r EXCEPT !.preview = b] \in Records
  BY DEF Records
<1>3. old.preview \in BOOLEAN
  BY <1>1 DEF Records
<1>4. \A r \in Records : [copy[p] EXCEPT ![prof[p]] = r] \in Files
  BY <1>1 DEF Files
<1>5. CASE cmd[p] \in Logins
  BY <1>1, <1>2, <1>3, <1>4, <1>5 DEF Edit
<1>6. CASE cmd[p] \notin Logins /\ cmd[p] = "logout"
  BY <1>4, <1>6, Constants DEF Edit
<1>7. CASE cmd[p] \notin Logins /\ cmd[p] = "preview"
  <2>1. [copy[p] EXCEPT ![prof[p]].preview = TRUE]
          = [copy[p] EXCEPT ![prof[p]] = [old EXCEPT !.preview = TRUE]]
    OBVIOUS
  <2> QED BY <1>1, <1>2, <1>4, <1>7, <2>1 DEF Edit
<1>8. CASE cmd[p] \notin Logins /\ cmd[p] = "clear"
  BY <1>1, <1>2, <1>4, <1>8, Constants DEF Edit
<1>9. CASE cmd[p] \notin Logins \cup {"logout", "preview", "clear"}
  <2>1. [copy[p] EXCEPT ![to[p]] = old, ![prof[p]] = Empty] \in Files
    BY <1>1, Constants DEF Files
  <2> QED BY <2>1, <1>9 DEF Edit
<1> QED BY <1>5, <1>6, <1>7, <1>8, <1>9

LEMMA StepType ==
  ASSUME TypeOK, NEW p \in Procs, Step(p)
  PROVE  TypeOK'
<1> USE Constants
<1>1. CASE Deadlines(p)
  <2>1. CASE RingGetFails(p)
    BY <2>1, ExitType DEF TypeOK, RingGetFails, Fails, Goto, disk, mine, PCs
  <2>2. CASE RingOnlyFails(p)
    BY <2>2 DEF TypeOK, RingOnlyFails, Goto, disk, mine, PCs
  <2>3. CASE RingSetFails(p)
    <3>1. CASE Mandatory(p) /\ Fails(p)
      BY <3>1, ExitType DEF TypeOK, Fails
    <3>2. CASE Goto(p, "ringset", "load") /\ UNCHANGED <<disk, used, last, cmd, prof, to, flag, amode, ucfg, sec, rec, copy, failed, got>>
      <4>1. pc' \in [Procs -> PCs]
        BY <3>2 DEF TypeOK, Goto, PCs
      <4>2. late' \in [Procs -> Lates]
        BY <2>3, <3>2 DEF TypeOK, RingSetFails, Fails, Exit, Lates, Goto
      <4> QED BY <3>2, <4>1, <4>2 DEF TypeOK, disk
    <3> QED BY <2>3, <3>1, <3>2 DEF RingSetFails
  <2>4. CASE RingDeleteFails(p)
    BY <2>4 DEF TypeOK, RingDeleteFails, Goto, disk, mine, PCs
  <2> QED BY <1>1, <2>1, <2>2, <2>3, <2>4 DEF Deadlines
<1>2. CASE LooksUp(p)
  BY <1>2 DEF TypeOK, LooksUp, Goto, disk, PCs, Files
<1>3. CASE PicksKey(p) \/ PicksJWT(p)
  <2>1. rec[p].val \in Vals
    BY DEF TypeOK, Records
  <2>2. pc' \in [Procs -> PCs]
    <3>1. \E next \in PCs : pc' = [pc EXCEPT ![p] = next]
      BY <1>3 DEF PicksKey, PicksJWT, Goto, PCs
    <3> QED BY <3>1 DEF TypeOK
  <2> DEFINE Creds == [kind : AllKinds \cup {"none"}, val : Vals]
  <2>3. got' \in [Procs -> Creds]
    <3>1. \A k \in AllKinds : [kind |-> k, val |-> rec[p].val] \in Creds
      BY <2>1
    <3>2. \A c \in Creds : [got EXCEPT ![p] = c] \in [Procs -> Creds]
      BY DEF TypeOK
    <3>3. \/ got' = got
          \/ \E k \in AllKinds : got' = [got EXCEPT ![p] = [kind |-> k, val |-> rec[p].val]]
      BY <1>3 DEF PicksKey, PicksJWT, Resolves, AllKinds
    <3>4. got \in [Procs -> Creds]
      BY DEF TypeOK
    <3> HIDE DEF Creds
    <3> QED BY <3>1, <3>2, <3>3, <3>4
  <2>4. UNCHANGED <<disk, used, last, cmd, prof, to, flag, amode, ucfg, sec, rec, copy, late, failed>>
    BY <1>3 DEF PicksKey, PicksJWT
  <2> QED BY <2>2, <2>3, <2>4 DEF TypeOK, disk
<1>4. CASE Resolved(p)
  <2>1. got[p].val \in Vals
    BY DEF TypeOK
  <2> QED BY <1>4, <2>1, ExitType DEF TypeOK, Resolved, Fails, Goto, disk, mine, PCs
<1>5. CASE Verifies(p)
  <2>1. InFile(p) \in Records
    BY DEF TypeOK, InFile, LoginKind, Records, AllKinds
  <2> QED BY <1>5, <2>1 DEF TypeOK, Verifies, Goto, disk, PCs
<1>6. CASE VerifyFails(p) \/ LoadFails(p) \/ SaveFails(p) \/ PersistFails(p) \/ RenameRefused(p)
  BY <1>6, ExitType DEF TypeOK, VerifyFails, LoadFails, SaveFails, PersistFails, RenameRefused, Fails
<1>7. CASE Loads(p)
  BY <1>7 DEF TypeOK, Loads, Goto, disk, PCs
<1>8. CASE Saves(p)
  BY <1>8, EditType DEF TypeOK, Saves, Goto, mine, PCs
<1>9. CASE Persists(p) \/ Uses(p)
  <2>1. LoginKind(p) \in AuthModes
    BY DEF LoginKind, AuthModes, AllKinds
  <2>2. ucfg[p] \in [Profiles -> AuthModes] /\ prof[p] \in Profiles
    BY DEF TypeOK
  <2>3. config' \in [Profiles -> AuthModes]
    BY <1>9, <2>1, <2>2 DEF Persists, Uses
  <2>4. pc' \in [Procs -> PCs]
    BY <1>9 DEF TypeOK, Persists, Uses, Goto, PCs
  <2>5. UNCHANGED <<kmode, file, keychain, used, last, mine>>
    BY <1>9 DEF Persists, Uses
  <2> QED BY <2>3, <2>4, <2>5 DEF TypeOK, mine
<1>10. CASE RenamesProfile(p)
  <2>1. config' \in [Profiles -> AuthModes]
    <3>1. /\ ucfg[p] \in [Profiles -> AuthModes] /\ prof[p] \in Profiles
          /\ to[p] \in Profiles /\ "absent" \in AuthModes
      BY DEF TypeOK, AuthModes
    <3>2. [ucfg[p] EXCEPT ![to[p]] = ucfg[p][prof[p]], ![prof[p]] = "absent"]
            \in [Profiles -> AuthModes]
      BY <3>1
    <3> QED BY <1>10, <3>2 DEF RenamesProfile, TypeOK, disk
  <2>2. Goto(p, "rename", "load")
    BY <1>10 DEF RenamesProfile
  <2>4. pc' \in [Procs -> PCs]
    BY <2>2 DEF TypeOK, Goto, PCs
  <2>3. UNCHANGED <<kmode, file, keychain, used, last, mine>>
    BY <1>10 DEF RenamesProfile, disk
  <2> QED BY <2>1, <2>4, <2>3 DEF TypeOK, mine
<1>11. CASE Forgets(p)
  BY <1>11 DEF TypeOK, Forgets, Goto, disk, mine, PCs
<1>12. CASE Ends(p)
  <2>1. last' \in [Profiles -> Vals]
    BY <1>12 DEF TypeOK, Ends
  <2> QED BY <1>12, <2>1, ExitType DEF Ends
<1> QED
  BY <1>1, <1>2, <1>3, <1>4, <1>5, <1>6, <1>7, <1>8, <1>9, <1>10, <1>11, <1>12 DEF Step

LEMMA StartType ==
  ASSUME TypeOK, NEW p \in Procs, Start(p)
  PROVE  TypeOK'
<1> USE Constants
<1>1. PICK c \in Commands, P \in Profiles :
        /\ cmd' = [cmd EXCEPT ![p] = c]
        /\ prof' = [prof EXCEPT ![p] = P]
        /\ \E Q \in Profiles :
             /\ IF c = "rename" THEN Q # P ELSE Q = P
             /\ to' = [to EXCEPT ![p] = Q]
             /\ last' = [R \in Profiles |->
                           IF R \in {P, Q} /\ c \notin {"read", "use"} THEN None ELSE last[R]]
        /\ \E f \in Flags : flag' = [flag EXCEPT ![p] = c \in Logins /\ f]
        /\ \E m \in {config[P], "api-key", "jwt"} :
             /\ c # "read" => m = config[P]
             /\ amode' = [amode EXCEPT ![p] = IF c = "relogin" THEN "api-key" ELSE m]
        /\ IF c = "login"
             THEN \E s \in Secrets : /\ s.of = P /\ s.kind \in Kinds
                                     /\ sec' = [sec EXCEPT ![p] = s]
             ELSE UNCHANGED sec
        /\ pc' = [pc EXCEPT ![p] =
                    CASE c = "login"               -> "verify"
                      [] c \in {"relogin", "read"} -> "lookup"
                      [] c = "logout"              -> "forget"
                      [] c \in {"preview", "clear"} -> "load"
                      [] c = "rename"              -> "rename"
                      [] c = "use"                 -> "use"]
  BY Zenon DEF Start
<1>2. used' \in 0 .. MaxCommands
  BY BoundAssumption DEF Start, TypeOK
<1>3. ucfg' \in [Procs -> [Profiles -> AuthModes]]
  BY DEF Start, TypeOK
<1>4. cmd' \in [Procs -> Commands \cup {"none"}]
  BY <1>1 DEF TypeOK
<1>5. prof' \in [Procs -> Profiles] /\ to' \in [Procs -> Profiles]
  BY <1>1 DEF TypeOK
<1>6. last' \in [Profiles -> Vals]
  BY <1>1 DEF TypeOK
<1>7. flag' \in [Procs -> BOOLEAN]
  BY <1>1, Zenon DEF TypeOK
<1>8. amode' \in [Procs -> AuthModes]
  <2>1. \A m \in {config[P], "api-key", "jwt"} : m \in AuthModes
    BY DEF TypeOK, AuthModes, AllKinds
  <2>2. \E m \in AuthModes : amode' = [amode EXCEPT ![p] = m]
    BY <1>1, <2>1
  <2> QED BY <2>2 DEF TypeOK
<1>9. sec' \in [Procs -> Vals]
  <2>1. sec' = sec \/ \E s \in Vals : sec' = [sec EXCEPT ![p] = s]
    BY <1>1, Zenon DEF Vals
  <2> QED BY <2>1, Zenon DEF TypeOK
<1>10. pc' \in [Procs -> PCs]
  <2>1. c \in {"login", "relogin", "read", "logout", "preview", "clear", "rename", "use"}
    BY CommandsAssumption DEF Logins
  <2>2. \E x \in PCs : pc' = [pc EXCEPT ![p] = x]
    BY <1>1, <2>1 DEF PCs
  <2> QED BY <2>2 DEF TypeOK
<1>11. UNCHANGED <<disk, rec, copy, late, failed, got>>
  BY DEF Start
<1> QED
  BY <1>2, <1>3, <1>4, <1>5, <1>6, <1>7, <1>8, <1>9, <1>10, <1>11 DEF TypeOK, disk

LEMMA KeychainType ==
  ASSUME TypeOK, NEW p \in Procs, Keychain(p)
  PROVE  TypeOK'
<1> USE Constants
<1>1. prof[p] \in Profiles /\ sec[p] \in Vals /\ late[p] \in Lates /\ keychain[prof[p]] \in Vals
  BY DEF TypeOK
<1>2. CASE RingGets(p)
  <2>1. \A v \in Vals : [rec[p] EXCEPT !.val = v] \in Records
    BY DEF TypeOK, Records
  <2>2. rec[p].val \in Vals
    BY DEF TypeOK, Records
  <2>3. \E v \in Vals : rec' = [rec EXCEPT ![p] = [rec[p] EXCEPT !.val = v]]
    BY <1>1, <1>2, <2>2 DEF RingGets, KeyringAccount
  <2>4. rec' \in [Procs -> Records]
    BY <2>1, <2>3 DEF TypeOK
  <2>5. pc' \in [Procs -> PCs]
    BY <1>2 DEF RingGets, Goto, TypeOK, PCs
  <2> QED BY <1>2, <2>4, <2>5 DEF RingGets, TypeOK, disk
<1>3. CASE RingOnlyGets(p)
  <2> DEFINE Creds == [kind : AllKinds \cup {"none"}, val : Vals]
  <2>1. got' \in [Procs -> Creds]
    <3>1. [kind |-> "api-key", val |-> keychain[prof[p]]] \in Creds
      BY <1>1 DEF AllKinds
    <3>2. got' = got \/ got' = [got EXCEPT ![p] = [kind |-> "api-key", val |-> keychain[prof[p]]]]
      BY <1>3, Zenon DEF RingOnlyGets, Resolves, KeyringAccount
    <3>3. \A c \in Creds : [got EXCEPT ![p] = c] \in [Procs -> Creds]
      BY DEF TypeOK
    <3>4. got \in [Procs -> Creds]
      BY DEF TypeOK
    <3> QED BY <3>1, <3>2, <3>3, <3>4, Zenon
  <2>2. pc' \in [Procs -> PCs]
    BY <1>3 DEF RingOnlyGets, Goto, TypeOK, PCs
  <2> QED BY <1>3, <2>1, <2>2 DEF RingOnlyGets, TypeOK, disk
<1>4. CASE RingSets(p)
  <2>1. Pointer(p) \in Records
    BY DEF Pointer, LoginKind, Records, AllKinds
  <2>2. keychain' \in [Profiles -> Vals] /\ rec' \in [Procs -> Records]
    BY <1>1, <1>4, <2>1 DEF RingSets, KeyringAccount, TypeOK
  <2>3. pc' \in [Procs -> PCs]
    BY <1>4 DEF RingSets, Goto, TypeOK, PCs
  <2> QED BY <1>4, <2>2, <2>3 DEF RingSets, TypeOK
<1>5. CASE RingDeletes(p)
  <2>1. pc' \in [Procs -> PCs]
    BY <1>5 DEF RingDeletes, Goto, TypeOK, PCs
  <2> QED BY <1>1, <1>5, <2>1 DEF RingDeletes, KeyringAccount, TypeOK, mine
<1>6. CASE LateCall(p)
  <2>1. late[p] \in Vals
    BY <1>1, <1>6 DEF LateCall, Lates
  <2> QED BY <1>1, <1>6, <2>1 DEF LateCall, KeyringAccount, TypeOK
<1> QED BY <1>2, <1>3, <1>4, <1>5, <1>6 DEF Keychain

LEMMA NextType == TypeOK /\ [Next]_vars => TypeOK'
<1> SUFFICES ASSUME TypeOK, [Next]_vars PROVE TypeOK'
  OBVIOUS
<1>1. CASE UNCHANGED vars
  BY <1>1 DEF TypeOK, vars, disk, mine
<1>2. ASSUME NEW p \in Procs, Crashes(p) PROVE TypeOK'
  BY <1>2, ExitType DEF Crashes, Fails, TypeOK
<1> QED BY <1>1, <1>2, StartType, StepType, KeychainType DEF Next

\* The variables keep their types.
THEOREM TypeCorrect == Spec => []TypeOK
<1>1. Init => TypeOK
  BY TypeInit
<1>2. TypeOK /\ [Next]_vars => TypeOK'
  BY NextType
<1> QED BY <1>1, <1>2, PTL DEF Spec

-----------------------------------------------------------------------------
(* No silent fallback to the file.                                          *)

\* Where a process is in a command that writes credentials.json.
Where(p) ==
  /\ pc[p] \in {"forget", "ringdel"} => cmd[p] = "logout"
  /\ pc[p] = "rename" => cmd[p] = "rename"

\* A forced or flagged login is about to put a pointer, and a forced process
\* loaded no secret that it could write back.
Carries(p) ==
  /\ kmode = "force" => \A P \in Profiles : copy[p][P].val = None
  /\ pc[p] \in {"load", "save"} /\ cmd[p] \in Logins /\ Mandatory(p) =>
       rec[p].ring /\ rec[p].val = None

FileClean == kmode = "force" => \A P \in Profiles : file[P].val = None

FallbackInv == FileClean /\ \A p \in Procs : Where(p) /\ Carries(p)

LEMMA FallbackInit == Init => FallbackInv
<1> SUFFICES ASSUME Init PROVE FallbackInv
  OBVIOUS
<1>1. Empty.val = None
  BY DEF Empty
<1>2. \A P \in Profiles : NoFile[P].val = None
  BY <1>1 DEF NoFile
<1>3. FileClean
  BY <1>2, Zenon DEF Init, FileClean
<1>4. ASSUME NEW p \in Procs PROVE Where(p) /\ Carries(p)
  <2>1. pc[p] = "idle" /\ copy[p] = NoFile
    BY <1>4 DEF Init
  <2> QED BY <1>2, <2>1 DEF Where, Carries
<1> QED BY <1>3, <1>4 DEF FallbackInv

\* What a command writes back holds no secret if what it loaded holds none.
LEMMA EditKeepsClean ==
  ASSUME TypeOK, NEW p \in Procs,
         \A P \in Profiles : copy[p][P].val = None,
         cmd[p] \in Logins => rec[p].val = None
  PROVE  \A P \in Profiles : Edit(p)[P].val = None
<1> DEFINE old == copy[p][prof[p]]
<1>1. /\ copy[p] \in [Profiles -> Records] /\ prof[p] \in Profiles /\ to[p] \in Profiles
      /\ rec[p] \in Records /\ old \in Records
  BY DEF TypeOK, Files
<1>2. \A r \in Records : \A b : [r EXCEPT !.preview = b].val = r.val
  BY DEF Records
<1>3. \A r : r.val = None => \A P \in Profiles : [copy[p] EXCEPT ![prof[p]] = r][P].val = None
  BY <1>1
<1>4. Empty.val = None /\ old.val = None
  BY <1>1 DEF Empty
<1>5. CASE cmd[p] \in Logins
  BY <1>1, <1>2, <1>3, <1>5 DEF Edit
<1>6. CASE cmd[p] \notin Logins /\ cmd[p] = "logout"
  BY <1>3, <1>4, <1>6 DEF Edit
<1>7. CASE cmd[p] \notin Logins /\ cmd[p] = "preview"
  <2>1. [copy[p] EXCEPT ![prof[p]].preview = TRUE]
          = [copy[p] EXCEPT ![prof[p]] = [old EXCEPT !.preview = TRUE]]
    OBVIOUS
  <2> QED BY <1>1, <1>2, <1>3, <1>4, <1>7, <2>1 DEF Edit
<1>8. CASE cmd[p] \notin Logins /\ cmd[p] = "clear"
  BY <1>1, <1>2, <1>3, <1>4, <1>8 DEF Edit
<1>9. CASE cmd[p] \notin Logins \cup {"logout", "preview", "clear"}
  <2>1. \A P \in Profiles :
          [copy[p] EXCEPT ![to[p]] = old, ![prof[p]] = Empty][P].val = None
    BY <1>1, <1>4
  <2> QED BY <2>1, <1>9 DEF Edit
<1> QED BY <1>5, <1>6, <1>7, <1>8, <1>9

\* PAY_KEYRING never changes, and a step of one process leaves the others' state alone.
LEMMA Frame ==
  ASSUME TypeOK, NEW p \in Procs, Start(p) \/ Step(p) \/ Keychain(p) \/ Crashes(p)
  PROVE  /\ kmode' = kmode
         /\ \A q \in Procs \ {p} :
              /\ pc'[q] = pc[q] /\ cmd'[q] = cmd[q] /\ flag'[q] = flag[q]
              /\ rec'[q] = rec[q] /\ copy'[q] = copy[q]
<1> DEFINE Others == \A q \in Procs \ {p} :
              /\ pc'[q] = pc[q] /\ cmd'[q] = cmd[q] /\ flag'[q] = flag[q]
              /\ rec'[q] = rec[q] /\ copy'[q] = copy[q]
<1>1. ASSUME Exit(p) PROVE Others
  <2>1. \A q \in Procs \ {p} : pc'[q] = pc[q] BY <1>1 DEF TypeOK, Exit
  <2>2. \A q \in Procs \ {p} : cmd'[q] = cmd[q] BY <1>1 DEF TypeOK, Exit
  <2>3. \A q \in Procs \ {p} : flag'[q] = flag[q] BY <1>1 DEF TypeOK, Exit
  <2>4. \A q \in Procs \ {p} : rec'[q] = rec[q] BY <1>1 DEF TypeOK, Exit
  <2>5. \A q \in Procs \ {p} : copy'[q] = copy[q] BY <1>1 DEF TypeOK, Exit
  <2> QED BY <2>1, <2>2, <2>3, <2>4, <2>5
<1>2. Fails(p) => kmode' = kmode /\ Others
  BY <1>1, Zenon DEF Fails, disk
<1> HIDE DEF Others
<1>3. Start(p) => kmode' = kmode /\ Others
  BY DEF TypeOK, Start, disk, Others
<1>4. Deadlines(p) => kmode' = kmode /\ Others
  BY <1>2 DEF TypeOK, Deadlines, RingGetFails, RingOnlyFails, RingSetFails, RingDeleteFails,
              Goto, disk, mine, Others
<1>5. LooksUp(p) \/ PicksKey(p) \/ PicksJWT(p) => kmode' = kmode /\ Others
  BY DEF TypeOK, LooksUp, PicksKey, PicksJWT, Goto, disk, Others
<1>6. Resolved(p) => kmode' = kmode /\ Others
  BY <1>2 DEF TypeOK, Resolved, Goto, disk, mine, Others
<1>7. Verifies(p) \/ Loads(p) \/ Saves(p) => kmode' = kmode /\ Others
  BY DEF TypeOK, Verifies, Loads, Saves, Goto, disk, mine, Others
<1>8. VerifyFails(p) \/ LoadFails(p) \/ SaveFails(p) \/ PersistFails(p) \/ RenameRefused(p)
      \/ Crashes(p) => kmode' = kmode /\ Others
  BY <1>2 DEF VerifyFails, LoadFails, SaveFails, PersistFails, RenameRefused, Crashes
<1>9. Persists(p) \/ Uses(p) \/ RenamesProfile(p) \/ Forgets(p) => kmode' = kmode /\ Others
  BY DEF TypeOK, Persists, Uses, RenamesProfile, Forgets, Goto, disk, mine, Others
<1>10. Ends(p) => kmode' = kmode /\ Others
  BY <1>1, Zenon DEF Ends, disk, Others
<1>11. Keychain(p) => kmode' = kmode /\ Others
  BY DEF TypeOK, Keychain, RingGets, RingOnlyGets, RingSets, RingDeletes, LateCall, Goto, disk,
         mine, Others
<1> QED
  BY <1>3, <1>4, <1>5, <1>6, <1>7, <1>8, <1>9, <1>10, <1>11 DEF Step, Others

\* The state a process returns to carries nothing.
LEMMA ExitCarries ==
  ASSUME TypeOK, NEW p \in Procs, Exit(p)
  PROVE  Where(p)' /\ Carries(p)'
<1>1. \A P \in Profiles : NoFile[P].val = None
  BY DEF NoFile, Empty
<1>2. pc'[p] = "idle" /\ copy'[p] = NoFile
  BY DEF Exit, TypeOK
<1> QED BY <1>1, <1>2 DEF Where, Carries

\* The steps that put no pc of interest and change neither record nor copy.
LEMMA QuietCarries ==
  ASSUME TypeOK, NEW p \in Procs, Where(p), Carries(p), kmode' = kmode,
         pc'[p] \in {"pick", "ringonly", "jwt", "resolved", "verify", "persist", "done"},
         copy'[p] = copy[p]
  PROVE  Where(p)' /\ Carries(p)'
BY DEF Where, Carries

LEMMA StepCarries ==
  ASSUME TypeOK, FallbackInv, NEW p \in Procs, Start(p) \/ Step(p) \/ Keychain(p) \/ Crashes(p)
  PROVE  Where(p)' /\ Carries(p)'
<1>1. Where(p) /\ Carries(p) /\ FileClean /\ kmode' = kmode
  BY Frame DEF FallbackInv
<1>2. Fails(p) => Where(p)' /\ Carries(p)'
  BY ExitCarries DEF Fails
<1>3. CASE Start(p)
  <2>1. copy' = copy
    BY <1>3 DEF Start
  <2>2. PICK c \in Commands :
          /\ cmd' = [cmd EXCEPT ![p] = c]
          /\ pc' = [pc EXCEPT ![p] =
                   CASE c = "login"               -> "verify"
                     [] c \in {"relogin", "read"} -> "lookup"
                     [] c = "logout"              -> "forget"
                     [] c \in {"preview", "clear"} -> "load"
                     [] c = "rename"              -> "rename"
                     [] c = "use"                 -> "use"]
    BY <1>3, Zenon DEF Start
  <2>3. c \in {"login", "relogin", "read", "logout", "preview", "clear", "rename", "use"}
    BY CommandsAssumption DEF Logins
  <2>4. /\ cmd'[p] = c
        /\ pc'[p] \in {"forget", "ringdel"} => c = "logout"
        /\ pc'[p] = "rename" => c = "rename"
        /\ pc'[p] \in {"load", "save"} => c \notin Logins
    BY <2>2, <2>3 DEF TypeOK, Logins
  <2> QED BY <1>1, <2>1, <2>4 DEF Where, Carries
<1>4. CASE Deadlines(p)
  <2>1. CASE RingGetFails(p) \/ RingOnlyFails(p)
    BY <1>1, <1>2, <2>1, QuietCarries DEF RingGetFails, RingOnlyFails, Goto, TypeOK, disk, mine
  <2>2. CASE RingSetFails(p)
    <3>1. ASSUME ~Mandatory(p), pc'[p] = "load", UNCHANGED <<cmd, flag, rec, copy>>
          PROVE  Where(p)' /\ Carries(p)'
      BY <1>1, <3>1 DEF Where, Carries, Mandatory
    <3> QED BY <1>2, <2>2, <3>1 DEF RingSetFails, Goto, TypeOK
  <2>3. CASE RingDeleteFails(p)
    <3>1. cmd[p] = "logout" /\ pc'[p] = "load" /\ UNCHANGED <<cmd, copy>>
      BY <1>1, <2>3 DEF RingDeleteFails, Goto, TypeOK, Where
    <3> QED BY <1>1, <3>1 DEF Where, Carries, Logins
  <2> QED BY <1>4, <2>1, <2>2, <2>3 DEF Deadlines
<1>5. CASE LooksUp(p)
  <2>1. pc'[p] \in {"ringget", "pick"} /\ copy' = copy
    BY <1>5 DEF LooksUp, Goto, TypeOK
  <2> QED BY <1>1, <2>1 DEF Where, Carries
<1>6. CASE PicksKey(p) \/ PicksJWT(p)
  <2>1. copy' = copy /\ pc'[p] \in {"resolved", "ringonly", "jwt"}
    BY <1>6 DEF PicksKey, PicksJWT, Goto, TypeOK
  <2> QED BY <1>1, <2>1, QuietCarries
<1>7. CASE Resolved(p)
  BY <1>1, <1>2, <1>7, QuietCarries DEF Resolved, Goto, TypeOK, mine
<1>8. CASE Verifies(p)
  <2>1. /\ copy' = copy /\ flag' = flag
        /\ pc'[p] = "ringset" \/ (pc'[p] = "load" /\ ~WantsKeyring(p))
    BY <1>8 DEF Verifies, Goto, TypeOK
  <2> QED BY <1>1, <2>1 DEF Where, Carries, Mandatory, WantsKeyring
<1>9. CASE Loads(p)
  <2>1. /\ copy'[p] = file /\ pc[p] = "load" /\ pc'[p] = "save"
        /\ UNCHANGED <<cmd, flag, rec>>
    BY <1>9 DEF Loads, Goto, TypeOK
  <2>2. rec[p] = rec'[p] /\ cmd[p] = cmd'[p] /\ (Mandatory(p)' <=> Mandatory(p))
    BY <1>1, <2>1 DEF Mandatory
  <2> QED BY <1>1, <2>1, <2>2 DEF Where, Carries, FileClean
<1>10. CASE Saves(p) \/ Persists(p) \/ Uses(p)
  <2>1. pc'[p] \in {"persist", "done"} /\ copy' = copy
    BY <1>10 DEF Saves, Persists, Uses, Goto, TypeOK, mine
  <2> QED BY <1>1, <2>1, QuietCarries
<1>11. CASE VerifyFails(p) \/ LoadFails(p) \/ SaveFails(p) \/ PersistFails(p)
            \/ RenameRefused(p) \/ Crashes(p)
  BY <1>2, <1>11 DEF VerifyFails, LoadFails, SaveFails, PersistFails, RenameRefused, Crashes
<1>12. CASE RenamesProfile(p)
  <2>1. pc[p] = "rename" /\ pc'[p] = "load" /\ UNCHANGED <<cmd, copy>>
    BY <1>12 DEF RenamesProfile, Goto, TypeOK, mine
  <2> QED BY <1>1, <2>1 DEF Where, Carries, Logins
<1>13. CASE Forgets(p)
  <2>1. pc[p] = "forget" /\ pc'[p] \in {"ringdel", "load"} /\ UNCHANGED <<cmd, copy>>
    BY <1>13 DEF Forgets, Goto, TypeOK, mine
  <2> QED BY <1>1, <2>1 DEF Where, Carries, Logins
<1>14. CASE Ends(p)
  BY <1>14, ExitCarries DEF Ends
<1>15. CASE Keychain(p)
  <2>1. CASE RingGets(p) \/ RingOnlyGets(p)
    <3>1. copy' = copy /\ pc'[p] \in {"pick", "resolved", "jwt"}
      BY <2>1 DEF RingGets, RingOnlyGets, Goto, TypeOK
    <3> QED BY <1>1, <3>1, QuietCarries
  <2>2. CASE RingSets(p)
    <3>1. /\ copy' = copy /\ pc'[p] = "load"
          /\ rec'[p].ring /\ rec'[p].val = None
      BY <2>2 DEF RingSets, Goto, TypeOK, Pointer
    <3> QED BY <1>1, <3>1 DEF Where, Carries
  <2>3. CASE RingDeletes(p)
    <3>1. cmd[p] = "logout" /\ pc'[p] = "load" /\ UNCHANGED <<cmd, copy>>
      BY <1>1, <2>3 DEF RingDeletes, Goto, TypeOK, Where, mine
    <3> QED BY <1>1, <3>1 DEF Where, Carries, Logins
  <2>4. CASE LateCall(p)
    <3>1. UNCHANGED <<pc, cmd, flag, rec, copy>>
      BY <2>4 DEF LateCall
    <3> QED BY <1>1, <3>1 DEF Where, Carries, Mandatory
  <2> QED BY <1>15, <2>1, <2>2, <2>3, <2>4 DEF Keychain
<1> QED
  BY <1>3, <1>4, <1>5, <1>6, <1>7, <1>8, <1>9, <1>10, <1>11, <1>12, <1>13, <1>14, <1>15 DEF Step

\* Only a save changes credentials.json, and a forced one saves no secret.
LEMMA StepClean ==
  ASSUME TypeOK, FallbackInv, NEW p \in Procs, Start(p) \/ Step(p) \/ Keychain(p) \/ Crashes(p)
  PROVE  FileClean'
<1>1. FileClean /\ Carries(p) /\ kmode' = kmode
  BY Frame DEF FallbackInv
<1>2. CASE file' = file
  BY <1>1, <1>2 DEF FileClean
<1>3. CASE Saves(p)
  <2> SUFFICES ASSUME kmode = "force", file' = Edit(p)
               PROVE  \A P \in Profiles : file'[P].val = None
    BY <1>1, <1>2, <1>3 DEF FileClean, Saves
  <2>1. /\ \A P \in Profiles : copy[p][P].val = None
        /\ cmd[p] \in Logins => rec[p].val = None
    BY <1>1, <1>3 DEF Carries, Mandatory, Saves, Goto
  <2> QED BY <2>1, EditKeepsClean
<1>4. CASE ~Saves(p)
  <2>1. Fails(p) => file' = file
    BY Zenon DEF Fails, disk
  <2>2. Start(p) => file' = file
    BY DEF Start, disk
  <2>3. Keychain(p) => file' = file
    BY DEF Keychain, RingGets, RingOnlyGets, RingSets, RingDeletes, LateCall, disk
  <2>4. Deadlines(p) => file' = file
    BY <2>1 DEF Deadlines, RingGetFails, RingOnlyFails, RingSetFails, RingDeleteFails, disk
  <2>5. Step(p) \/ Crashes(p) => file' = file
    BY <1>4, <2>1, <2>4 DEF Step, LooksUp, PicksKey, PicksJWT, Resolved, Verifies, VerifyFails, Loads,
       LoadFails, SaveFails, Persists, PersistFails, Uses, RenamesProfile, RenameRefused, Forgets,
       Ends, Crashes, disk
  <2> QED BY <1>2, <2>2, <2>3, <2>5
<1> QED BY <1>3, <1>4

LEMMA FallbackStep == TypeOK /\ FallbackInv /\ [Next]_vars => FallbackInv'
<1> SUFFICES ASSUME TypeOK, FallbackInv, [Next]_vars PROVE FallbackInv'
  OBVIOUS
<1>1. CASE UNCHANGED vars
  BY <1>1 DEF FallbackInv, FileClean, Where, Carries, Mandatory, vars, disk, mine
<1>2. ASSUME NEW p \in Procs, Start(p) \/ Step(p) \/ Keychain(p) \/ Crashes(p)
      PROVE  FallbackInv'
  <2>1. FileClean'
    BY <1>2, StepClean
  <2>2. ASSUME NEW q \in Procs PROVE Where(q)' /\ Carries(q)'
    <3>1. CASE q = p
      BY <1>2, <3>1, StepCarries
    <3>2. CASE q # p
      <4>1. /\ kmode' = kmode /\ pc'[q] = pc[q] /\ cmd'[q] = cmd[q] /\ flag'[q] = flag[q]
            /\ rec'[q] = rec[q] /\ copy'[q] = copy[q]
        BY <1>2, <2>2, <3>2, Frame
      <4>2. Where(q) /\ Carries(q)
        BY <2>2 DEF FallbackInv
      <4> QED BY <4>1, <4>2 DEF Where, Carries, Mandatory
    <3> QED BY <3>1, <3>2
  <2> QED BY <2>1, <2>2 DEF FallbackInv
<1> QED BY <1>1, <1>2 DEF Next

\* No secret is ever in credentials.json while the keychain is forced, and a login
\* with --keyring never puts its secret there: whatever crashes, fails or interleaves.
THEOREM NoFallback == Spec => []NoSilentFallback
<1>1. Init => TypeOK /\ FallbackInv
  BY TypeInit, FallbackInit
<1>2. TypeOK /\ FallbackInv /\ [Next]_vars => (TypeOK /\ FallbackInv)'
  BY NextType, FallbackStep
<1>3. TypeOK /\ FallbackInv => NoSilentFallback
  BY DEF FallbackInv, FileClean, Carries, Mandatory, NoSilentFallback
<1> QED BY <1>1, <1>2, <1>3, PTL DEF Spec

-----------------------------------------------------------------------------
(* Nobody's secret but the profile's own.                                   *)

\* A secret, if it is one, is a secret of this profile.
Owned(v, P) == v \notin {None, Nothing} => v.of = P

StoresOwned == \A P \in Profiles : Owned(file[P].val, P) /\ Owned(keychain[P], P)

\* Whatever a process holds is its profile's, and an idle one holds nothing: the next
\* command has another profile.
Holds(p) ==
  /\ to[p] = prof[p]
  /\ Owned(sec[p], prof[p]) /\ Owned(rec[p].val, prof[p])
  /\ Owned(late[p], prof[p]) /\ Owned(got[p].val, prof[p])
  /\ \A P \in Profiles : Owned(copy[p][P].val, P)
  /\ pc[p] = "idle" => sec[p] = None /\ rec[p] = Empty /\ late[p] = Nothing /\ got[p] = NoCred

OwnInv == StoresOwned /\ \A p \in Procs : Holds(p)

\* Nothing is nobody's.
LEMMA BlankOwned ==
  \A P \in Profiles : /\ Owned(None, P) /\ Owned(Nothing, P) /\ Owned(Empty.val, P)
                      /\ Owned(NoCred.val, P) /\ Owned(NoFile[P].val, P)
BY DEF Owned, Empty, NoCred, NoFile

LEMMA OwnInit == Init => OwnInv
<1> SUFFICES ASSUME Init PROVE OwnInv
  OBVIOUS
<1>1. StoresOwned
  <2>1. file = NoFile /\ \A P \in Profiles : keychain[P] = None
    BY DEF Init
  <2> QED BY <2>1, BlankOwned DEF StoresOwned
<1>2. ASSUME NEW p \in Procs PROVE Holds(p)
  <2>1. /\ to[p] = prof[p] /\ sec[p] = None /\ rec[p] = Empty /\ late[p] = Nothing
        /\ got[p] = NoCred /\ copy[p] = NoFile /\ prof[p] \in Profiles
    BY Constants DEF Init
  <2> QED BY <2>1, BlankOwned DEF Holds
<1> QED BY <1>1, <1>2 DEF OwnInv

\* A step of one process leaves what the others hold alone.
LEMMA OwnFrame ==
  ASSUME TypeOK, NEW p \in Procs, Start(p) \/ Step(p) \/ Keychain(p) \/ Crashes(p),
         NEW q \in Procs, q # p
  PROVE  /\ prof'[q] = prof[q] /\ to'[q] = to[q] /\ sec'[q] = sec[q]
         /\ late'[q] = late[q] /\ got'[q] = got[q]
<1> DEFINE Others == /\ prof'[q] = prof[q] /\ to'[q] = to[q] /\ sec'[q] = sec[q]
                     /\ late'[q] = late[q] /\ got'[q] = got[q]
<1>1. Exit(p) => Others
  BY DEF TypeOK, Exit
<1>2. Fails(p) => Others
  BY <1>1 DEF Fails
<1> HIDE DEF Others
<1>3. Start(p) => Others
  <2> SUFFICES ASSUME Start(p) PROVE Others
    OBVIOUS
  <2>1. late' = late /\ got' = got
    BY DEF Start
  <2>2. (\E P \in Profiles : prof' = [prof EXCEPT ![p] = P])
        /\ (\E P \in Profiles : to' = [to EXCEPT ![p] = P])
    BY Zenon DEF Start
  <2>3. sec' = sec \/ \E s \in Secrets : sec' = [sec EXCEPT ![p] = s]
    BY Zenon DEF Start
  <2> QED BY <2>1, <2>2, <2>3 DEF TypeOK, Others
<1>4. Deadlines(p) => Others
  BY <1>2 DEF TypeOK, Deadlines, RingGetFails, RingOnlyFails, RingSetFails, RingDeleteFails,
              mine, Others
<1>5. LooksUp(p) \/ PicksKey(p) \/ PicksJWT(p) => Others
  BY DEF TypeOK, LooksUp, PicksKey, PicksJWT, Resolves, Others
<1>6. Resolved(p) => Others
  BY <1>2 DEF TypeOK, Resolved, mine, Others
<1>7. Verifies(p) \/ Loads(p) \/ Saves(p) \/ Persists(p) \/ Uses(p) \/ RenamesProfile(p)
      \/ Forgets(p) => Others
  BY DEF Verifies, Loads, Saves, Persists, Uses, RenamesProfile, Forgets, mine, Others
<1>8. VerifyFails(p) \/ LoadFails(p) \/ SaveFails(p) \/ PersistFails(p) \/ RenameRefused(p)
      \/ Crashes(p) => Others
  BY <1>2 DEF VerifyFails, LoadFails, SaveFails, PersistFails, RenameRefused, Crashes
<1>9. Ends(p) => Others
  BY <1>1 DEF Ends, Others
<1>10. Keychain(p) => Others
  BY DEF TypeOK, Keychain, RingGets, RingOnlyGets, RingSets, RingDeletes, LateCall, Resolves,
         mine, Others
<1> QED BY <1>3, <1>4, <1>5, <1>6, <1>7, <1>8, <1>9, <1>10 DEF Step, Others

LEMMA ExitHolds ==
  ASSUME TypeOK, NEW p \in Procs, Exit(p)
  PROVE  Holds(p)'
<1>1. /\ to'[p] = prof'[p] /\ sec'[p] = None /\ rec'[p] = Empty /\ late'[p] = Nothing
      /\ got'[p] = NoCred /\ copy'[p] = NoFile /\ prof'[p] \in Profiles
  BY Constants DEF TypeOK, Exit
<1> QED BY <1>1, BlankOwned DEF Holds

\* A step in the middle of a command moves secrets between what the process holds and
\* the two stores, and never under another name.
LEMMA BusyHolds ==
  ASSUME TypeOK, NEW p \in Procs, Holds(p), StoresOwned,
         pc'[p] # "idle", prof'[p] = prof[p], to'[p] = to[p],
         sec'[p] \in {sec[p], got[p].val},
         \/ rec'[p] = rec[p]
         \/ rec'[p].val \in {None, sec[p], rec[p].val, file[prof[p]].val, keychain[prof[p]]},
         late'[p] \in {late[p], Nothing, None, sec[p]},
         got'[p] = got[p] \/ got'[p].val \in {rec[p].val, keychain[prof[p]]},
         copy'[p] \in {copy[p], file}
  PROVE  Holds(p)'
<1>1. prof[p] \in Profiles
  BY DEF TypeOK
<1> QED BY <1>1, BlankOwned DEF Holds, StoresOwned

LEMMA StartHolds ==
  ASSUME TypeOK, NEW p \in Procs, Holds(p), Start(p), "rename" \notin Commands
  PROVE  Holds(p)'
<1>1. PICK c \in Commands, P \in Profiles :
        /\ cmd' = [cmd EXCEPT ![p] = c]
        /\ prof' = [prof EXCEPT ![p] = P]
        /\ \E Q \in Profiles :
             /\ IF c = "rename" THEN Q # P ELSE Q = P
             /\ to' = [to EXCEPT ![p] = Q]
             /\ last' = [R \in Profiles |->
                           IF R \in {P, Q} /\ c \notin {"read", "use"} THEN None ELSE last[R]]
        /\ \E f \in Flags : flag' = [flag EXCEPT ![p] = c \in Logins /\ f]
        /\ \E m \in {config[P], "api-key", "jwt"} :
             /\ c # "read" => m = config[P]
             /\ amode' = [amode EXCEPT ![p] = IF c = "relogin" THEN "api-key" ELSE m]
        /\ IF c = "login"
             THEN \E s \in Secrets : /\ s.of = P /\ s.kind \in Kinds
                                     /\ sec' = [sec EXCEPT ![p] = s]
             ELSE UNCHANGED sec
        /\ pc' = [pc EXCEPT ![p] =
                    CASE c = "login"               -> "verify"
                      [] c \in {"relogin", "read"} -> "lookup"
                      [] c = "logout"              -> "forget"
                      [] c \in {"preview", "clear"} -> "load"
                      [] c = "rename"              -> "rename"
                      [] c = "use"                 -> "use"]
  BY Zenon DEF Start
<1>2. c # "rename"
  OBVIOUS
<1>3. to'[p] = P /\ prof'[p] = P
  BY <1>1, <1>2 DEF TypeOK
<1>4. sec[p] = None /\ rec[p] = Empty /\ late[p] = Nothing /\ got[p] = NoCred
  BY DEF Holds, Start
<1>5. Owned(sec'[p], P)
  BY <1>1, <1>4, BlankOwned DEF TypeOK, Owned
<1>6. pc'[p] # "idle"
  <2>1. c \in {"login", "relogin", "read", "logout", "preview", "clear", "rename", "use"}
    BY CommandsAssumption DEF Logins
  <2> QED BY <1>1, <2>1 DEF TypeOK
<1>7. rec' = rec /\ copy' = copy /\ late' = late /\ got' = got
  BY DEF Start
<1> QED BY <1>3, <1>4, <1>5, <1>6, <1>7, BlankOwned DEF Holds

LEMMA StepHolds ==
  ASSUME TypeOK, OwnInv, NEW p \in Procs, Start(p) \/ Step(p) \/ Keychain(p) \/ Crashes(p),
         "rename" \notin Commands
  PROVE  Holds(p)'
<1>1. Holds(p) /\ StoresOwned
  BY DEF OwnInv
<1> DEFINE Kept == /\ prof'[p] = prof[p] /\ to'[p] = to[p] /\ sec'[p] = sec[p]
                   /\ rec'[p] = rec[p] /\ late'[p] = late[p] /\ got'[p] = got[p]
                   /\ copy'[p] = copy[p]
<1>2. Fails(p) => Holds(p)'
  BY ExitHolds DEF Fails
<1>3. Kept /\ pc'[p] # "idle" => Holds(p)'
  BY <1>1, BusyHolds
<1>4. CASE Start(p)
  BY <1>1, <1>4, StartHolds
<1>5. CASE Deadlines(p)
  <2>1. RingGetFails(p) \/ RingOnlyFails(p) => Fails(p) \/ (Kept /\ pc'[p] # "idle")
    BY DEF RingGetFails, RingOnlyFails, Goto, TypeOK, mine
  <2>2. CASE RingSetFails(p) /\ ~Fails(p)
    <3>1. /\ UNCHANGED <<prof, to, sec, rec, copy, got>> /\ pc'[p] = "load"
          /\ late'[p] \in {Nothing, sec[p]}
      BY <2>2 DEF RingSetFails, Goto, TypeOK
    <3> QED BY <1>1, <3>1, BusyHolds
  <2>3. CASE RingDeleteFails(p)
    <3>1. /\ UNCHANGED <<prof, to, sec, rec, copy, got>> /\ pc'[p] = "load"
          /\ late'[p] \in {Nothing, None}
      BY <2>3 DEF RingDeleteFails, Goto, TypeOK
    <3> QED BY <1>1, <3>1, BusyHolds
  <2> QED BY <1>2, <1>3, <1>5, <2>1, <2>2, <2>3 DEF Deadlines
<1>6. CASE LooksUp(p)
  <2>1. /\ UNCHANGED <<prof, to, sec, late, copy, got>> /\ pc'[p] # "idle"
        /\ rec'[p] = file[prof[p]]
    BY <1>6 DEF LooksUp, Goto, TypeOK
  <2> QED BY <1>1, <2>1, BusyHolds
<1>7. CASE PicksKey(p) \/ PicksJWT(p)
  <2>1. /\ UNCHANGED <<prof, to, sec, late, copy, rec>> /\ pc'[p] # "idle"
        /\ got' = got \/ got'[p].val = rec[p].val
    BY <1>7 DEF PicksKey, PicksJWT, Resolves, Goto, TypeOK
  <2> QED BY <1>1, <2>1, BusyHolds
<1>8. CASE Resolved(p) /\ ~Fails(p)
  <2>1. /\ UNCHANGED <<prof, to, late, copy, rec, got>> /\ pc'[p] # "idle"
        /\ sec'[p] \in {sec[p], got[p].val}
    BY <1>8 DEF Resolved, Goto, TypeOK, mine
  <2> QED BY <1>1, <2>1, BusyHolds
<1>9. CASE Verifies(p)
  <2>1. /\ UNCHANGED <<prof, to, sec, late, copy, got>> /\ pc'[p] # "idle"
        /\ rec'[p].val = sec[p]
    BY <1>9 DEF Verifies, InFile, Goto, TypeOK
  <2> QED BY <1>1, <2>1, BusyHolds
<1>10. CASE Loads(p)
  <2>1. /\ UNCHANGED <<prof, to, sec, late, rec, got>> /\ pc'[p] # "idle"
        /\ copy'[p] = file
    BY <1>10 DEF Loads, Goto, TypeOK
  <2> QED BY <1>1, <2>1, BusyHolds
<1>11. CASE Saves(p) \/ Persists(p) \/ Uses(p) \/ RenamesProfile(p) \/ Forgets(p)
  <2>1. Kept /\ pc'[p] # "idle"
    BY <1>11 DEF Saves, Persists, Uses, RenamesProfile, Forgets, Goto, TypeOK, mine
  <2> QED BY <1>3, <2>1
<1>12. CASE VerifyFails(p) \/ LoadFails(p) \/ SaveFails(p) \/ PersistFails(p)
            \/ RenameRefused(p) \/ Crashes(p)
  BY <1>2, <1>12 DEF VerifyFails, LoadFails, SaveFails, PersistFails, RenameRefused, Crashes
<1>13. CASE Ends(p)
  BY <1>13, ExitHolds DEF Ends
<1>14. CASE Keychain(p)
  <2>1. CASE RingGets(p)
    <3>1. /\ UNCHANGED <<prof, to, sec, late, copy, got>> /\ pc'[p] # "idle"
          /\ rec'[p].val \in {rec[p].val, keychain[prof[p]]}
      BY <2>1 DEF RingGets, KeyringAccount, Goto, TypeOK, Records
    <3> QED BY <1>1, <3>1, BusyHolds
  <2>2. CASE RingOnlyGets(p)
    <3>1. /\ UNCHANGED <<prof, to, sec, late, copy, rec>> /\ pc'[p] # "idle"
          /\ got' = got \/ got'[p].val = keychain[prof[p]]
      BY <2>2 DEF RingOnlyGets, Resolves, KeyringAccount, Goto, TypeOK
    <3> QED BY <1>1, <3>1, BusyHolds
  <2>3. CASE RingSets(p)
    <3>1. /\ UNCHANGED <<prof, to, sec, late, copy, got>> /\ pc'[p] # "idle"
          /\ rec'[p].val = None
      BY <2>3 DEF RingSets, Pointer, Goto, TypeOK
    <3> QED BY <1>1, <3>1, BusyHolds
  <2>4. CASE RingDeletes(p)
    BY <1>3, <2>4 DEF RingDeletes, Goto, TypeOK, mine
  <2>5. CASE LateCall(p)
    <3>1. /\ UNCHANGED <<pc, prof, to, sec, rec, copy, got>> /\ late'[p] = Nothing
          /\ pc[p] # "idle"
      BY <1>1, <2>5 DEF LateCall, Holds, TypeOK
    <3> QED BY <1>1, <3>1, BusyHolds
  <2> QED BY <1>14, <2>1, <2>2, <2>3, <2>4, <2>5 DEF Keychain
<1> QED
  BY <1>2, <1>4, <1>5, <1>6, <1>7, <1>8, <1>9, <1>10, <1>11, <1>12, <1>13, <1>14 DEF Step

\* What a command that does not rename writes back is every profile's own.
LEMMA EditOwned ==
  ASSUME TypeOK, NEW p \in Procs, Holds(p)
  PROVE  \A P \in Profiles : Owned(Edit(p)[P].val, P)
<1> DEFINE old == copy[p][prof[p]]
<1>1. /\ copy[p] \in [Profiles -> Records] /\ prof[p] \in Profiles /\ to[p] = prof[p]
      /\ rec[p] \in Records /\ old \in Records
  BY DEF TypeOK, Files, Holds
<1>2. \A r \in Records : \A b : [r EXCEPT !.preview = b].val = r.val
  BY DEF Records
<1>3. \A r : Owned(r.val, prof[p])
        => \A P \in Profiles : Owned([copy[p] EXCEPT ![prof[p]] = r][P].val, P)
  BY <1>1 DEF Holds
<1>4. Owned(Empty.val, prof[p]) /\ Owned(old.val, prof[p]) /\ Owned(rec[p].val, prof[p])
  BY <1>1, BlankOwned DEF Holds
<1>5. CASE cmd[p] \in Logins
  BY <1>1, <1>2, <1>3, <1>4, <1>5 DEF Edit
<1>6. CASE cmd[p] \notin Logins /\ cmd[p] = "logout"
  BY <1>3, <1>4, <1>6 DEF Edit
<1>7. CASE cmd[p] \notin Logins /\ cmd[p] = "preview"
  <2>1. [copy[p] EXCEPT ![prof[p]].preview = TRUE]
          = [copy[p] EXCEPT ![prof[p]] = [old EXCEPT !.preview = TRUE]]
    OBVIOUS
  <2> QED BY <1>1, <1>2, <1>3, <1>4, <1>7, <2>1 DEF Edit
<1>8. CASE cmd[p] \notin Logins /\ cmd[p] = "clear"
  BY <1>1, <1>2, <1>3, <1>4, <1>8 DEF Edit
<1>9. CASE cmd[p] \notin Logins \cup {"logout", "preview", "clear"}
  <2>1. Edit(p) = [copy[p] EXCEPT ![prof[p]] = Empty]
    BY <1>1, <1>9 DEF Edit
  <2> QED BY <1>3, <1>4, <2>1
<1> QED BY <1>5, <1>6, <1>7, <1>8, <1>9

\* The two stores keep each profile's own secret under its name.
LEMMA StoresStay ==
  ASSUME TypeOK, OwnInv, NEW p \in Procs, Start(p) \/ Step(p) \/ Keychain(p) \/ Crashes(p)
  PROVE  StoresOwned'
<1>1. Holds(p) /\ StoresOwned /\ prof[p] \in Profiles
  BY DEF OwnInv, TypeOK
<1>2. UNCHANGED <<file, keychain>> => StoresOwned'
  BY <1>1 DEF StoresOwned
<1>3. Fails(p) => UNCHANGED <<file, keychain>>
  BY DEF Fails, disk
<1>4. CASE Saves(p)
  <2>1. keychain' = keychain /\ (file' = file \/ file' = Edit(p))
    BY <1>4 DEF Saves
  <2> QED BY <1>1, <1>2, <2>1, EditOwned DEF StoresOwned
<1>5. CASE Keychain(p)
  <2>1. file' = file
    BY <1>5 DEF Keychain, RingGets, RingOnlyGets, RingSets, RingDeletes, LateCall, disk
  <2>2. \/ keychain' = keychain
        \/ \E v \in {sec[p], None, late[p]} : keychain' = [keychain EXCEPT ![prof[p]] = v]
    BY <1>5 DEF Keychain, RingGets, RingOnlyGets, RingSets, RingDeletes, LateCall, disk,
                KeyringAccount
  <2>3. \A v \in {sec[p], None, late[p]} : Owned(v, prof[p])
    BY <1>1, BlankOwned DEF Holds
  <2>4. ASSUME NEW P \in Profiles PROVE Owned(keychain'[P], P)
    BY <1>1, <2>2, <2>3 DEF StoresOwned, TypeOK
  <2> QED BY <1>1, <2>1, <2>4 DEF StoresOwned
<1>6. CASE ~Saves(p) /\ ~Keychain(p)
  <2>1. Start(p) => UNCHANGED <<file, keychain>>
    BY DEF Start, disk
  <2>2. Deadlines(p) => UNCHANGED <<file, keychain>>
    BY <1>3 DEF Deadlines, RingGetFails, RingOnlyFails, RingSetFails, RingDeleteFails, disk
  <2>3. Step(p) \/ Crashes(p) => UNCHANGED <<file, keychain>>
    BY <1>3, <1>6, <2>2 DEF Step, LooksUp, PicksKey, PicksJWT, Resolved, Verifies, VerifyFails,
       Loads, LoadFails, SaveFails, Persists, PersistFails, Uses, RenamesProfile, RenameRefused,
       Forgets, Ends, Crashes, disk
  <2> QED BY <1>2, <1>6, <2>1, <2>3
<1> QED BY <1>4, <1>5, <1>6

LEMMA OwnStep ==
  ASSUME "rename" \notin Commands
  PROVE  TypeOK /\ OwnInv /\ [Next]_vars => OwnInv'
<1> SUFFICES ASSUME TypeOK, OwnInv, [Next]_vars PROVE OwnInv'
  OBVIOUS
<1>1. CASE UNCHANGED vars
  BY <1>1 DEF OwnInv, StoresOwned, Holds, vars, disk, mine
<1>2. ASSUME NEW p \in Procs, Start(p) \/ Step(p) \/ Keychain(p) \/ Crashes(p)
      PROVE  OwnInv'
  <2>1. StoresOwned'
    BY <1>2, StoresStay
  <2>2. ASSUME NEW q \in Procs PROVE Holds(q)'
    <3>1. CASE q = p
      BY <1>2, <3>1, StepHolds
    <3>2. CASE q # p
      <4>1. /\ pc'[q] = pc[q] /\ rec'[q] = rec[q] /\ copy'[q] = copy[q]
            /\ prof'[q] = prof[q] /\ to'[q] = to[q] /\ sec'[q] = sec[q]
            /\ late'[q] = late[q] /\ got'[q] = got[q]
        BY <1>2, <2>2, <3>2, Frame, OwnFrame
      <4>2. Holds(q)
        BY <2>2 DEF OwnInv
      <4> QED BY <4>1, <4>2 DEF Holds
    <3> QED BY <3>1, <3>2
  <2> QED BY <2>1, <2>2 DEF OwnInv
<1> QED BY <1>1, <1>2 DEF Next

\* Unless profiles are renamed (a rename gives a name another one's secret, which is
\* what it is for), no command ever authenticates with another profile's secret:
\* however many processes log in and out at once, crash, or leave a keychain call behind.
THEOREM SecretsStayHome ==
  ASSUME "rename" \notin Commands
  PROVE  Spec => []OwnSecretOnly
<1>1. Init => TypeOK /\ OwnInv
  BY TypeInit, OwnInit
<1>2. TypeOK /\ OwnInv /\ [Next]_vars => (TypeOK /\ OwnInv)'
  BY NextType, OwnStep
<1>3. TypeOK /\ OwnInv => OwnSecretOnly
  <2> SUFFICES ASSUME TypeOK, OwnInv, NEW p \in Procs, got[p].val # None
               PROVE  got[p].val.of = prof[p]
    BY DEF OwnSecretOnly
  <2>1. got[p].val \in Vals
    BY DEF TypeOK
  <2>2. Nothing \notin Vals
    BY DEF Vals, Secrets, Nothing, None, AllKinds
  <2> QED BY <2>1, <2>2 DEF OwnInv, Holds, Owned
<1> QED BY <1>1, <1>2, <1>3, PTL DEF Spec

-----------------------------------------------------------------------------
(* One process alone: records and what the next command finds.              *)

\* A record that names a kind has a credential of it: here of an API key.
Whole(r) == IF HasAPICredential(r) THEN r.kind = "api-key" ELSE r.kind = "none"

Stored == \A P \in Profiles : Whole(file[P]) /\ config[P] \in {"absent", "api-key"}

\* Where a command can be.
Placed(p) ==
  /\ pc[p] \in {"lookup", "ringget", "pick", "ringonly", "jwt", "resolved"} =>
       cmd[p] \in {"relogin", "read"}
  /\ pc[p] \in {"verify", "ringset", "persist"} => cmd[p] \in Logins
  /\ pc[p] = "use" => cmd[p] = "use"
  /\ pc[p] \in {"forget", "ringdel"} => cmd[p] = "logout"
  /\ pc[p] = "rename" => cmd[p] = "rename"
  /\ pc[p] \in {"load", "save"} => cmd[p] \in Logins \cup {"logout", "preview", "clear", "rename"}
  /\ pc[p] # "idle" => IF cmd[p] = "rename" THEN to[p] # prof[p] ELSE to[p] = prof[p]
  /\ ~flag[p]

\* What it has read is still so; and nobody claims anything of what it is about.
AsRead(p) ==
  /\ pc[p] \notin {"idle", "done"} /\ (cmd[p] = "rename" => pc[p] = "rename") => ucfg[p] = config
  /\ pc[p] = "save" => copy[p] = file
  /\ pc[p] # "idle" /\ cmd[p] \notin {"read", "use"} => last[prof[p]] = None /\ last[to[p]] = None

\* A call given up belongs to a login that fell back to the file, or to a logout that will say so.
Abandons(p) ==
  late[p] # Nothing =>
    /\ pc[p] \in {"load", "save", "persist", "done"}
    /\ IF cmd[p] = "logout" THEN failed[p] ELSE cmd[p] \in Logins /\ ~rec[p].ring

\* A login has its secret, and has put it where the record says.
Puts(p) ==
  /\ pc[p] \in {"verify", "ringset", "load", "save", "persist", "done"} =>
       sec[p] # None /\ LoginKind(p) = "api-key"
  /\ pc[p] = "ringset" =>
       rec[p].kind = "api-key" /\ ~rec[p].ring /\ rec[p].val = sec[p] /\ kmode # "off"
  /\ pc[p] \in {"load", "save", "persist", "done"} =>
       /\ rec[p].kind = "api-key"
       /\ IF rec[p].ring THEN rec[p].val = None /\ kmode # "off" /\ keychain[prof[p]] = sec[p]
          ELSE rec[p].val = sec[p] /\ kmode # "force"
  /\ pc[p] \in {"persist", "done"} =>
       /\ file[prof[p]].kind = "api-key"
       /\ file[prof[p]].ring = rec[p].ring /\ file[prof[p]].val = rec[p].val

\* A logout that has noted no failure leaves nothing.
Leaves(p) ==
  /\ pc[p] = "done" => file[prof[p]] = Empty
  /\ pc[p] \in {"load", "save", "done"} /\ kmode = "force" /\ ~failed[p] => keychain[prof[p]] = None

Solo(p) ==
  /\ Stored /\ LoginResolves
  /\ Placed(p) /\ AsRead(p) /\ Abandons(p)
  /\ (cmd[p] \in Logins => Puts(p)) /\ (cmd[p] = "logout" => Leaves(p))

Alone(p) == Procs = {p} /\ Kinds \subseteq {"api-key"} /\ Flags \subseteq {FALSE}

LEMMA SoloInit ==
  ASSUME NEW p, Alone(p), Init PROVE Solo(p)
<1>1. /\ file = NoFile /\ config = NoConfig /\ pc[p] = "idle" /\ cmd[p] = "none" /\ ~flag[p]
      /\ late[p] = Nothing /\ last = [P \in Profiles |-> None]
  BY DEF Init, Alone
<1>2. Stored BY <1>1 DEF Stored, NoFile, NoConfig, Whole, HasAPICredential, Empty, None
<1>3. LoginResolves BY <1>1 DEF LoginResolves
<1> QED BY <1>1, <1>2, <1>3 DEF Solo, Placed, AsRead, Abandons, Logins

\* What the next command finds depends on what is stored of its profile.
LEMMA ResolutionStays ==
  ASSUME NEW P \in Profiles, NEW m, file'[P] = file[P], keychain'[P] = keychain[P], UNCHANGED kmode
  PROVE  Resolution(P, m)' = Resolution(P, m)
BY DEF Resolution, Lookup, Enabled, KeyringAccount

LEMMA DiskStays ==
  ASSUME NEW p, Solo(p), UNCHANGED disk PROVE Stored' /\ (UNCHANGED last => LoginResolves')
<1>1. UNCHANGED <<file, config, keychain, kmode>> BY DEF disk
<1>2. Stored' BY <1>1 DEF Solo, Stored, Whole, HasAPICredential
<1>3. ASSUME UNCHANGED last, NEW P \in Profiles, last'[P] # None
      PROVE  Resolution(P, config[P])' = last'[P]
  <2>1. Resolution(P, config[P]) = last[P] BY <1>3 DEF Solo, LoginResolves
  <2> QED BY <1>1, <1>3, <2>1 DEF Resolution, Lookup, Enabled, KeyringAccount
<1> QED BY <1>2, <1>3 DEF LoginResolves

\* A command that is over, with whatever error, leaves what holds between commands.
LEMMA SoloExits ==
  ASSUME NEW p, Alone(p), TypeOK, Solo(p), Fails(p) PROVE Solo(p)'
<1>1. /\ pc'[p] = "idle" /\ cmd'[p] = "none" /\ flag'[p] = FALSE /\ late'[p] = Nothing
      /\ UNCHANGED last /\ UNCHANGED disk
  BY DEF Fails, Exit, TypeOK, Alone
<1>2. Stored' /\ LoginResolves' BY <1>1, DiskStays
<1> QED BY <1>1, <1>2 DEF Solo, Placed, AsRead, Abandons, Logins

LEMMA SoloStarts ==
  ASSUME NEW p, Alone(p), TypeOK, Solo(p), Start(p) PROVE Solo(p)'
<1>1. PICK c \in Commands, P \in Profiles :
        /\ cmd'  = [cmd EXCEPT ![p] = c] /\ prof' = [prof EXCEPT ![p] = P]
        /\ \E Q \in Profiles :
             /\ IF c = "rename" THEN Q # P ELSE Q = P
             /\ to' = [to EXCEPT ![p] = Q]
             /\ last' = [R \in Profiles |->
                          IF R \in {P, Q} /\ c \notin {"read", "use"} THEN None ELSE last[R]]
        /\ \E f \in Flags : flag' = [flag EXCEPT ![p] = c \in Logins /\ f]
        /\ IF c = "login"
             THEN \E s \in Secrets : /\ s.of = P /\ s.kind \in Kinds
                                     /\ sec' = [sec EXCEPT ![p] = s]
             ELSE UNCHANGED sec
        /\ pc' = [pc EXCEPT ![p] =
                   CASE c = "login"               -> "verify"
                     [] c \in {"relogin", "read"} -> "lookup"
                     [] c = "logout"              -> "forget"
                     [] c \in {"preview", "clear"} -> "load"
                     [] c = "rename"              -> "rename"
                     [] c = "use"                 -> "use"]
  BY DEF Start
<1>14. PICK Q \in Profiles :
         /\ IF c = "rename" THEN Q # P ELSE Q = P
         /\ to' = [to EXCEPT ![p] = Q]
         /\ last' = [R \in Profiles |->
                      IF R \in {P, Q} /\ c \notin {"read", "use"} THEN None ELSE last[R]]
  BY <1>1
<1>2. /\ cmd'[p] = c /\ prof'[p] = P /\ to'[p] = Q /\ flag'[p] = FALSE
      /\ ucfg'[p] = config /\ UNCHANGED disk /\ UNCHANGED late
  BY <1>1, <1>14 DEF Start, TypeOK, Alone
<1>3. /\ c = "login" => pc'[p] = "verify"
      /\ c \in {"relogin", "read"} => pc'[p] = "lookup"
      /\ c = "logout" => pc'[p] = "forget"
      /\ c \in {"preview", "clear"} => pc'[p] = "load"
      /\ c = "rename" => pc'[p] = "rename"
      /\ c = "use" => pc'[p] = "use"
  BY <1>1 DEF TypeOK, Alone
<1>4. c \in Logins \cup {"logout", "preview", "clear", "rename", "use", "read"}
  BY CommandsAssumption
<1>5. late'[p] = Nothing BY <1>2 DEF Solo, Abandons, Start
<1>6. Stored' BY <1>2, DiskStays
<1>7. LoginResolves'
  <2>1. \A R \in Profiles : last'[R] # None => last'[R] = last[R]
    BY <1>14
  <2> QED BY <1>2, <2>1, ResolutionStays DEF Solo, LoginResolves, disk
<1>8. c = "login" => sec'[p] # None /\ sec'[p].kind = "api-key"
  <2> SUFFICES ASSUME c = "login" PROVE sec'[p] # None /\ sec'[p].kind = "api-key"
    OBVIOUS
  <2>1. PICK s \in Secrets : s.kind \in Kinds /\ sec' = [sec EXCEPT ![p] = s]
    BY <1>1
  <2>2. sec'[p] = s BY <2>1 DEF Alone, TypeOK
  <2>3. s.kind = "api-key" BY <2>1 DEF Alone
  <2> QED BY <2>2, <2>3 DEF None
<1>9. config' = config BY <1>2 DEF disk
<1>10. Placed(p)' BY <1>14, <1>2, <1>3, <1>4 DEF Placed, Logins
<1>15. c \notin {"read", "use"} => last'[P] = None /\ last'[Q] = None BY <1>14
<1>11. AsRead(p)' BY <1>2, <1>3, <1>4, <1>9, <1>15 DEF AsRead, Logins
<1>12. cmd'[p] \in Logins => Puts(p)'
  BY <1>2, <1>3, <1>4, <1>8 DEF Puts, Logins, LoginKind
<1>13. cmd'[p] = "logout" => Leaves(p)' BY <1>2, <1>3 DEF Leaves
<1> QED BY <1>5, <1>6, <1>7, <1>10, <1>11, <1>12, <1>13 DEF Solo, Abandons

\* A command alone is at one of its steps; what it leaves alone stays.
LEMMA SoloMoves ==
  ASSUME NEW p, Alone(p), TypeOK, Solo(p), UNCHANGED <<disk, last>>,
         UNCHANGED <<cmd, prof, to, flag, ucfg, late>>, Placed(p)', AsRead(p)', Abandons(p)',
         cmd[p] \in Logins => Puts(p)', cmd[p] = "logout" => Leaves(p)'
  PROVE  Solo(p)'
BY DiskStays DEF Solo

\* Finding the credential.
LEMMA SoloResolves ==
  ASSUME NEW p, Alone(p), TypeOK, Solo(p),
         \/ LooksUp(p) \/ RingGets(p) \/ RingGetFails(p) \/ PicksKey(p) \/ RingOnlyGets(p)
         \/ RingOnlyFails(p) \/ PicksJWT(p) \/ Resolved(p)
  PROVE  Solo(p)'
<1>1. CASE Fails(p) BY <1>1, SoloExits
<1>2. CASE ~Fails(p)
  <2>1. /\ pc[p] \in {"lookup", "ringget", "pick", "ringonly", "jwt", "resolved"}
        /\ \/ pc'[p] \in {"ringget", "pick", "ringonly", "jwt", "resolved"}
           \/ cmd[p] = "read" /\ pc'[p] = "done"
           \/ cmd[p] = "relogin" /\ pc'[p] = "verify" /\ sec'[p] # None
        /\ UNCHANGED <<disk, last, cmd, prof, to, flag, ucfg, late>>
    <3>1. CASE LooksUp(p) BY <3>1 DEF LooksUp, Goto, TypeOK, Alone
    <3>2. CASE RingGets(p) BY <3>2 DEF RingGets, Goto, TypeOK, Alone
    <3>3. CASE RingGetFails(p) BY <1>2, <3>3 DEF RingGetFails, Goto, TypeOK, Alone, mine
    <3>4. CASE PicksKey(p) BY <3>4 DEF PicksKey, Goto, TypeOK, Alone
    <3>5. CASE RingOnlyGets(p) BY <3>5 DEF RingOnlyGets, Goto, TypeOK, Alone
    <3>6. CASE RingOnlyFails(p) BY <3>6 DEF RingOnlyFails, Goto, TypeOK, Alone, mine
    <3>7. CASE PicksJWT(p) BY <3>7 DEF PicksJWT, Goto, TypeOK, Alone
    <3>8. CASE Resolved(p) BY <1>2, <3>8 DEF Resolved, Goto, TypeOK, Alone, mine
    <3> QED BY <3>1, <3>2, <3>3, <3>4, <3>5, <3>6, <3>7, <3>8
  <2>2. cmd[p] \in {"relogin", "read"} BY <2>1 DEF Solo, Placed
  <2>3. UNCHANGED <<config, file>> BY <2>1 DEF disk
  <2>4. Placed(p)' BY <2>1, <2>2 DEF Solo, Placed, Logins
  <2>5. AsRead(p)' BY <2>1, <2>2, <2>3 DEF Solo, AsRead, Logins
  <2>6. Abandons(p)' BY <2>1 DEF Solo, Abandons
  <2>7. cmd[p] \in Logins => Puts(p)' BY <2>1, <2>2 DEF Puts, LoginKind, Logins
  <2>8. cmd[p] # "logout" BY <2>2
  <2> QED BY <2>1, <2>4, <2>5, <2>6, <2>7, <2>8, SoloMoves
<1> QED BY <1>1, <1>2

\* Putting a secret, or taking one away.
LEMMA SoloRings ==
  ASSUME NEW p, Alone(p), TypeOK, Solo(p), RingSets(p) \/ RingDeletes(p) \/ LateCall(p)
  PROVE  Solo(p)'
<1>1. PICK v : keychain' = [keychain EXCEPT ![prof[p]] = v]
  BY DEF RingSets, RingDeletes, LateCall, KeyringAccount
<1>2. /\ UNCHANGED <<kmode, file, config, last, cmd, prof, to, flag, ucfg, sec, copy, failed>>
  BY DEF RingSets, RingDeletes, LateCall, mine
<1>3. /\ pc[p] # "idle" /\ cmd[p] \in Logins \cup {"logout"}
  BY DEF RingSets, RingDeletes, LateCall, Goto, Solo, Placed, Abandons
<1>4. last[prof[p]] = None BY <1>3 DEF Solo, AsRead, Logins
<1>5. Stored' BY <1>2 DEF Solo, Stored, Whole, HasAPICredential
<1>6. LoginResolves'
  <2> SUFFICES ASSUME NEW P \in Profiles, last[P] # None
               PROVE  Resolution(P, config[P])' = last[P]
    BY <1>2 DEF LoginResolves
  <2>1. keychain'[P] = keychain[P] BY <1>1, <1>4 DEF TypeOK
  <2> QED BY <1>2, <2>1 DEF Solo, LoginResolves, Resolution, Lookup, Enabled, KeyringAccount
<1>7. CASE RingSets(p)
  <2>1. /\ pc[p] = "ringset" /\ pc'[p] = "load" /\ rec'[p] = Pointer(p) /\ UNCHANGED late
        /\ keychain'[prof[p]] = sec[p]
    BY <1>7 DEF RingSets, Goto, TypeOK, Alone, KeyringAccount
  <2>2. late[p] = Nothing BY <2>1 DEF Solo, Abandons
  <2>3. cmd[p] \in Logins BY <2>1 DEF Solo, Placed
  <2>4. Puts(p)' BY <1>2, <2>1, <2>3 DEF Solo, Puts, Pointer, LoginKind
  <2> QED BY <1>2, <1>5, <1>6, <2>1, <2>2, <2>3, <2>4 DEF Solo, Placed, AsRead, Abandons, Logins
<1>8. CASE RingDeletes(p)
  <2>1. /\ pc[p] = "ringdel" /\ pc'[p] = "load" /\ UNCHANGED late
        /\ keychain'[prof[p]] = None
    BY <1>8 DEF RingDeletes, Goto, TypeOK, Alone, KeyringAccount, mine
  <2>2. late[p] = Nothing BY <2>1 DEF Solo, Abandons
  <2>3. cmd[p] = "logout" BY <2>1 DEF Solo, Placed
  <2>4. Leaves(p)' BY <1>2, <2>1 DEF Leaves
  <2> QED BY <1>2, <1>5, <1>6, <2>1, <2>2, <2>3, <2>4 DEF Solo, Placed, AsRead, Abandons, Logins
<1>9. CASE LateCall(p)
  <2>1. late[p] # Nothing /\ late'[p] = Nothing /\ UNCHANGED <<pc, rec>>
    BY <1>9 DEF LateCall, TypeOK, Alone
  <2>2. cmd[p] = "logout" => failed[p] BY <2>1 DEF Solo, Abandons
  <2>3. cmd[p] \in Logins => ~rec[p].ring BY <2>1 DEF Solo, Abandons, Logins
  <2>4. cmd[p] \in Logins => Puts(p)' BY <1>2, <2>1, <2>3 DEF Solo, Puts, LoginKind
  <2>5. cmd[p] = "logout" => Leaves(p)' BY <1>2, <2>1, <2>2 DEF Solo, Leaves
  <2> QED BY <1>2, <1>5, <1>6, <2>1, <2>4, <2>5 DEF Solo, Placed, AsRead, Abandons, Logins
<1> QED BY <1>7, <1>8, <1>9

\* The other steps that leave the files alone.
LEMMA SoloPrepares ==
  ASSUME NEW p, Alone(p), TypeOK, Solo(p),
         \/ Verifies(p) \/ RingSetFails(p) \/ RingDeleteFails(p) \/ Loads(p) \/ Forgets(p)
  PROVE  Solo(p)'
<1>1. CASE Fails(p) BY <1>1, SoloExits
<1>2. CASE Verifies(p)
  <2>1. /\ pc[p] = "verify" /\ pc'[p] = IF kmode \in {"auto", "force"} THEN "ringset" ELSE "load"
        /\ rec'[p] = InFile(p) /\ UNCHANGED <<disk, last, cmd, prof, to, flag, ucfg, late, sec>>
    BY <1>2 DEF Verifies, Goto, TypeOK, Alone, Solo, Placed, WantsKeyring
  <2>2. cmd[p] \in Logins /\ UNCHANGED <<config, file, kmode>> BY <2>1 DEF Solo, Placed, disk
  <2>3. Puts(p)' BY <2>1, <2>2 DEF Solo, Puts, InFile, LoginKind
  <2>4. late[p] = Nothing BY <2>1 DEF Solo, Abandons
  <2>5. Placed(p)' /\ AsRead(p)' BY <2>1, <2>2 DEF Solo, Placed, AsRead, Logins
  <2> QED BY <2>1, <2>2, <2>3, <2>4, <2>5, SoloMoves DEF Abandons, Logins
<1>3. CASE RingSetFails(p) /\ ~Fails(p)
  <2>1. /\ pc[p] = "ringset" /\ pc'[p] = "load" /\ kmode # "force"
        /\ UNCHANGED <<disk, last, cmd, prof, to, flag, ucfg, sec, rec>>
    BY <1>3 DEF RingSetFails, Goto, TypeOK, Alone, Mandatory
  <2>2. cmd[p] \in Logins /\ UNCHANGED <<config, file, kmode>> BY <2>1 DEF Solo, Placed, disk
  <2>3. Puts(p)' BY <2>1, <2>2 DEF Solo, Puts, LoginKind
  <2>4. ~rec[p].ring BY <2>1, <2>2 DEF Solo, Puts
  <2>5. Placed(p)' /\ AsRead(p)' BY <2>1, <2>2 DEF Solo, Placed, AsRead, Logins
  <2>6. Abandons(p)' BY <2>1, <2>2, <2>4 DEF Abandons, Logins
  <2> QED BY <2>1, <2>2, <2>3, <2>5, <2>6, DiskStays DEF Solo, Logins
<1>4. CASE RingDeleteFails(p)
  <2>1. /\ pc[p] = "ringdel" /\ pc'[p] = "load" /\ failed'[p]
        /\ UNCHANGED <<disk, last, cmd, prof, to, flag, ucfg, sec, rec>>
    BY <1>4 DEF RingDeleteFails, Goto, TypeOK, Alone
  <2>2. cmd[p] = "logout" /\ UNCHANGED <<config, file, kmode>> BY <2>1 DEF Solo, Placed, disk
  <2>3. Leaves(p)' BY <2>1, <2>2 DEF Leaves
  <2>5. Placed(p)' /\ AsRead(p)' BY <2>1, <2>2 DEF Solo, Placed, AsRead, Logins
  <2>6. Abandons(p)' BY <2>1, <2>2 DEF Abandons, Logins
  <2> QED BY <2>1, <2>2, <2>3, <2>5, <2>6, DiskStays DEF Solo, Logins
<1>5. CASE Loads(p)
  <2>1. /\ pc[p] = "load" /\ pc'[p] = "save" /\ copy'[p] = file
        /\ UNCHANGED <<disk, last, cmd, prof, to, flag, ucfg, sec, rec, late, failed>>
    BY <1>5 DEF Loads, Goto, TypeOK, Alone
  <2>2. UNCHANGED <<config, file, kmode, keychain>> BY <2>1 DEF disk
  <2>3. cmd[p] \in Logins => Puts(p)' BY <2>1, <2>2 DEF Solo, Puts, LoginKind
  <2>4. cmd[p] = "logout" => Leaves(p)' BY <2>1, <2>2 DEF Solo, Leaves
  <2>5. Placed(p)' /\ AsRead(p)' BY <2>1, <2>2 DEF Solo, Placed, AsRead, Logins
  <2>6. Abandons(p)' BY <2>1 DEF Solo, Abandons
  <2> QED BY <2>1, <2>3, <2>4, <2>5, <2>6, SoloMoves
<1>6. CASE Forgets(p)
  <2>1. /\ pc[p] = "forget" /\ pc'[p] \in {"ringdel", "load"} /\ (kmode = "force" => pc'[p] = "ringdel")
        /\ UNCHANGED <<disk, last, cmd, prof, to, flag, ucfg, sec, rec, late, failed>>
    BY <1>6 DEF Forgets, Goto, TypeOK, Alone, Enabled, mine
  <2>2. cmd[p] = "logout" /\ UNCHANGED <<config, file, kmode>> BY <2>1 DEF Solo, Placed, disk
  <2>4. Leaves(p)' BY <2>1, <2>2 DEF Leaves
  <2>5. Placed(p)' /\ AsRead(p)' BY <2>1, <2>2 DEF Solo, Placed, AsRead, Logins
  <2>6. Abandons(p)' BY <2>1 DEF Solo, Abandons
  <2> QED BY <2>1, <2>2, <2>4, <2>5, <2>6, SoloMoves DEF Logins
<1> QED BY <1>1, <1>2, <1>3, <1>4, <1>5, <1>6

\* What a save does to the records, by command.
LEMMA SaveEdits ==
  ASSUME NEW p, Alone(p), TypeOK, Solo(p), Saves(p)
  PROVE  /\ \A P \in Profiles \ {prof[p], to[p]} : file'[P] = file[P]
         /\ cmd[p] \in Logins => file'[prof[p]] = [rec[p] EXCEPT !.preview = file[prof[p]].preview]
         /\ cmd[p] = "logout" => file'[prof[p]] = Empty
         /\ cmd[p] = "preview" => file'[prof[p]] = [file[prof[p]] EXCEPT !.preview = TRUE]
         /\ cmd[p] = "clear" =>
              \/ file'[prof[p]] = file[prof[p]]
              \/ /\ HasAPICredential(file[prof[p]])
                 /\ file'[prof[p]] = [file[prof[p]] EXCEPT !.preview = FALSE]
              \/ ~HasAPICredential(file[prof[p]]) /\ file'[prof[p]] = Empty
         /\ cmd[p] = "rename" =>
              \/ file' = file
              \/ file'[to[p]] = file[prof[p]] /\ file'[prof[p]] = Empty
<1> DEFINE P == prof[p]  Q == to[p]
<1>1. /\ copy[p] = file /\ P \in Profiles /\ Q \in Profiles
      /\ cmd[p] \in Logins \cup {"logout", "preview", "clear", "rename"}
      /\ IF cmd[p] = "rename" THEN Q # P ELSE Q = P
  BY DEF Saves, Goto, Solo, AsRead, Placed, TypeOK, Alone
<1>2. file = [R \in Profiles |-> file[R]] BY DEF TypeOK, Files
<1>3. /\ file' = IF NothingToSave(p) THEN file ELSE Edit(p)
  BY DEF Saves
<1>4. CASE cmd[p] \in Logins
  <2>1. file' = [file EXCEPT ![P] = [rec[p] EXCEPT !.preview = file[P].preview]]
    BY <1>1, <1>3, <1>4 DEF NothingToSave, Edit, Logins
  <2> QED BY <1>1, <1>2, <1>4, <2>1 DEF Logins
<1>5. CASE cmd[p] = "logout"
  <2>1. file' = IF file[P] = Empty THEN file ELSE [file EXCEPT ![P] = Empty]
    BY <1>1, <1>3, <1>5 DEF NothingToSave, Edit, Logins
  <2> QED BY <1>1, <1>2, <1>5, <2>1 DEF Logins
<1>6. CASE cmd[p] = "preview"
  <2>1. file' = [file EXCEPT ![P].preview = TRUE]
    BY <1>1, <1>3, <1>6 DEF NothingToSave, Edit, Logins
  <2> QED BY <1>1, <1>2, <1>6, <2>1 DEF Logins
<1>7. CASE cmd[p] = "clear"
  <2>1. file' = IF ~file[P].preview THEN file
                ELSE [file EXCEPT ![P] = IF HasAPICredential(file[P]) THEN [file[P] EXCEPT !.preview = FALSE]
                                         ELSE Empty]
    BY <1>1, <1>3, <1>7 DEF NothingToSave, Edit, Logins
  <2> QED BY <1>1, <1>2, <1>7, <2>1 DEF Logins
<1>8. CASE cmd[p] = "rename"
  <2>1. file' = IF file[P] = Empty THEN file ELSE [file EXCEPT ![Q] = file[P], ![P] = Empty]
    BY <1>1, <1>3, <1>8 DEF NothingToSave, Edit, Logins
  <2> QED BY <1>1, <1>2, <1>8, <2>1 DEF Logins
<1> QED BY <1>1, <1>4, <1>5, <1>6, <1>7, <1>8

LEMMA SoloSaves ==
  ASSUME NEW p, Alone(p), TypeOK, Solo(p), Saves(p) PROVE Solo(p)'
<1>1. /\ pc[p] = "save" /\ pc'[p] = IF cmd[p] \in Logins THEN "persist" ELSE "done"
      /\ UNCHANGED <<kmode, keychain, config, last, cmd, prof, to, flag, ucfg, sec, rec, late, failed>>
  BY DEF Saves, Goto, TypeOK, Alone, mine
<1>2. /\ cmd[p] \in Logins \cup {"logout", "preview", "clear", "rename"}
      /\ prof[p] \in Profiles /\ to[p] \in Profiles /\ rec[p] \in Records
      /\ file \in [Profiles -> Records]
  BY <1>1 DEF Solo, Placed, TypeOK, Alone, Files
<1>9. /\ \A P \in Profiles \ {prof[p], to[p]} : file'[P] = file[P]
      /\ cmd[p] \in Logins => file'[prof[p]] = [rec[p] EXCEPT !.preview = file[prof[p]].preview]
      /\ cmd[p] = "logout" => file'[prof[p]] = Empty
      /\ cmd[p] = "preview" => file'[prof[p]] = [file[prof[p]] EXCEPT !.preview = TRUE]
      /\ cmd[p] = "clear" =>
           \/ file'[prof[p]] = file[prof[p]]
           \/ file'[prof[p]] = [file[prof[p]] EXCEPT !.preview = FALSE]
           \/ file'[prof[p]] = Empty
      /\ cmd[p] = "rename" =>
           \/ file' = file
           \/ file'[to[p]] = file[prof[p]] /\ file'[prof[p]] = Empty
  BY SaveEdits
<1>3. Stored'
  <2> SUFFICES ASSUME NEW P \in Profiles PROVE Whole(file'[P])
    BY <1>1 DEF Stored, Solo, Whole, HasAPICredential
  <2>1. \A R \in Profiles : Whole(file[R]) BY DEF Solo, Stored
  <2>2. CASE P \notin {prof[p], to[p]} BY <2>1, <2>2, SaveEdits
  <2>3. Whole(Empty) BY DEF Whole, HasAPICredential, Empty
  <2>4. CASE cmd[p] \in Logins /\ P = prof[p]
    <3>1. /\ file'[P].kind = rec[p].kind /\ file'[P].val = rec[p].val /\ file'[P].ring = rec[p].ring
      BY <1>2, <1>9, <2>4 DEF Records
    <3>2. rec[p].kind = "api-key" /\ HasAPICredential(rec[p])
      BY <1>1, <2>4 DEF Solo, Puts, HasAPICredential
    <3> QED BY <3>1, <3>2 DEF Whole, HasAPICredential
  <2>5. CASE cmd[p] \in {"preview", "clear"} /\ P = prof[p]
    <3>1. \/ file'[P] = Empty
          \/ /\ file'[P].kind = file[P].kind /\ file'[P].val = file[P].val
             /\ file'[P].ring = file[P].ring
      BY <1>2, <1>9, <2>5 DEF Records
    <3> QED BY <2>1, <2>3, <3>1 DEF Whole, HasAPICredential
  <2>6. CASE cmd[p] \in {"logout", "rename"} /\ P \in {prof[p], to[p]}
    <3>1. cmd[p] = "logout" => to[p] = prof[p] BY <1>1 DEF Solo, Placed
    <3>2. file'[P] = Empty \/ file'[P] = file[P] \/ file'[P] = file[prof[p]]
      BY <1>2, <1>9, <2>6, <3>1
    <3> QED BY <1>2, <2>1, <2>3, <3>2
  <2>7. cmd[p] # "rename" => to[p] = prof[p] BY <1>1 DEF Solo, Placed
  <2> QED BY <1>2, <2>2, <2>4, <2>5, <2>6, <2>7
<1>4. LoginResolves'
  <2> SUFFICES ASSUME NEW P \in Profiles, last[P] # None
               PROVE  Resolution(P, config[P])' = last[P]
    BY <1>1 DEF LoginResolves
  <2>1. P \notin {prof[p], to[p]} BY <1>1, <1>2 DEF Solo, AsRead, Logins
  <2>2. file'[P] = file[P] BY <2>1, SaveEdits
  <2> QED BY <1>1, <2>2 DEF Solo, LoginResolves, Resolution, Lookup, Enabled, KeyringAccount
<1>5. Placed(p)' /\ AsRead(p)' BY <1>1, <1>2 DEF Solo, Placed, AsRead, Logins
<1>6. Abandons(p)' BY <1>1, <1>2 DEF Solo, Abandons
<1>7. cmd[p] \in Logins => Puts(p)'
  <2>1. cmd[p] \in Logins => /\ file'[prof[p]].kind = rec[p].kind /\ file'[prof[p]].val = rec[p].val
                             /\ file'[prof[p]].ring = rec[p].ring
    BY <1>2, <1>9 DEF Records
  <2> QED BY <1>1, <2>1 DEF Solo, Puts, LoginKind
<1>8. cmd[p] = "logout" => Leaves(p)'
  BY <1>1, SaveEdits DEF Solo, Leaves
<1> QED BY <1>1, <1>3, <1>4, <1>5, <1>6, <1>7, <1>8 DEF Solo

\* config.toml: only what is said of the command's own profile may change.
LEMMA SoloConfigures ==
  ASSUME NEW p, Alone(p), TypeOK, Solo(p), Persists(p) \/ Uses(p) \/ RenamesProfile(p)
  PROVE  Solo(p)'
<1>1. /\ UNCHANGED <<kmode, file, keychain, last, cmd, prof, to, flag, ucfg, sec, rec, copy, late, failed>>
  BY DEF Persists, Uses, RenamesProfile, mine, disk
<1>2. prof[p] \in Profiles /\ to[p] \in Profiles /\ config \in [Profiles -> AuthModes]
  BY DEF TypeOK, Alone
<1>3. /\ \A P \in Profiles : config'[P] \in {"absent", "api-key"}
      /\ \A P \in Profiles : config'[P] = config[P] \/ (P \in {prof[p], to[p]} /\ cmd[p] \notin {"read", "use"})
      /\ \/ pc[p] \in {"persist", "use"} /\ pc'[p] = "done"
         \/ pc[p] = "rename" /\ pc'[p] = "load"
  <2>1. CASE Persists(p)
    <3>1. pc[p] = "persist" /\ pc'[p] = "done" /\ ucfg[p] = config /\ cmd[p] \in Logins
          /\ LoginKind(p) = "api-key"
      BY <2>1 DEF Persists, Goto, TypeOK, Alone, Solo, Placed, AsRead, Puts, Logins
    <3> QED BY <1>2, <2>1, <3>1 DEF Persists, Solo, Stored, Logins
  <2>2. CASE Uses(p)
    <3>1. pc[p] = "use" /\ pc'[p] = "done" /\ ucfg[p] = config
      BY <2>2 DEF Uses, Goto, TypeOK, Alone, Solo, Placed, AsRead
    <3> QED BY <1>2, <2>2, <3>1 DEF Uses, Solo, Stored
  <2>3. CASE RenamesProfile(p)
    <3>1. pc[p] = "rename" /\ pc'[p] = "load" /\ ucfg[p] = config /\ cmd[p] = "rename"
      BY <2>3 DEF RenamesProfile, Goto, TypeOK, Alone, Solo, Placed, AsRead
    <3>2. \/ config' = [config EXCEPT ![to[p]] = config[prof[p]], ![prof[p]] = "absent"]
          \/ config' = config
      BY <2>3, <3>1 DEF RenamesProfile, disk
    <3> QED BY <1>2, <3>1, <3>2 DEF Solo, Stored
  <2> QED BY <2>1, <2>2, <2>3
<1>4. Stored' BY <1>1, <1>3 DEF Solo, Stored, Whole, HasAPICredential
<1>5. LoginResolves'
  <2> SUFFICES ASSUME NEW P \in Profiles, last[P] # None
               PROVE  Resolution(P, config[P])' = last[P]
    BY <1>1 DEF LoginResolves
  <2>1. config'[P] = config[P] BY <1>1, <1>3 DEF Solo, AsRead
  <2> QED BY <1>1, <2>1 DEF Solo, LoginResolves, Resolution, Lookup, Enabled, KeyringAccount
<1>6. Placed(p)' /\ AsRead(p)' BY <1>1, <1>3 DEF Solo, Placed, AsRead, Logins
<1>7. Abandons(p)' BY <1>1, <1>3 DEF Solo, Abandons
<1>8. cmd[p] \in Logins => Puts(p)' BY <1>1, <1>3 DEF Solo, Puts, LoginKind, Placed, Logins
<1>9. cmd[p] = "logout" => Leaves(p)' BY <1>1, <1>3 DEF Solo, Leaves, Placed, Logins
<1> QED BY <1>1, <1>4, <1>5, <1>6, <1>7, <1>8, <1>9 DEF Solo

\* A login that ends has put the secret where the next command looks for it.
LEMMA SoloEnds ==
  ASSUME NEW p, Alone(p), TypeOK, Solo(p), Ends(p) PROVE Solo(p)'
<1>1. /\ pc[p] = "done" /\ pc'[p] = "idle" /\ cmd'[p] = "none" /\ flag'[p] = FALSE /\ late'[p] = Nothing
      /\ UNCHANGED disk /\ last' = [last EXCEPT ![prof[p]] = IF cmd[p] \in Logins THEN sec[p] ELSE @]
      /\ prof[p] \in Profiles
  BY DEF Ends, Exit, TypeOK, Alone
<1>2. Stored' BY <1>1, DiskStays
<1>3. UNCHANGED <<kmode, file, keychain, config>> BY <1>1 DEF disk
<1>4. LoginResolves'
  <2> SUFFICES ASSUME NEW P \in Profiles, last'[P] # None
               PROVE  Resolution(P, config[P])' = last'[P]
    BY DEF LoginResolves
  <2>1. Resolution(P, config[P])' = Resolution(P, config[P])
    BY <1>3 DEF Resolution, Lookup, Enabled, KeyringAccount
  <2>2. CASE P = prof[p] /\ cmd[p] \in Logins
    <3>1. last'[P] = sec[p] BY <1>1, <2>2 DEF TypeOK
    <3>2. Puts(p) BY <2>2 DEF Solo
    <3>3. config[P] \in {"absent", "api-key"} BY DEF Solo, Stored
    <3>4. kmode \in {"off", "auto", "force"} BY ModesAssumption DEF TypeOK
    <3>5. file[P].kind = "api-key" /\ sec[p] # None BY <1>1, <2>2, <3>2 DEF Puts
    <3>6. Lookup(P) = sec[p]
      <4>1. file[P] # Empty BY <3>5 DEF Empty
      <4> QED BY <1>1, <2>2, <3>2, <3>4, <3>5, <4>1 DEF Puts, Lookup, Enabled, KeyringAccount
    <3> QED BY <2>1, <3>1, <3>3, <3>5, <3>6 DEF Resolution, WantKey
  <2>3. CASE ~(P = prof[p] /\ cmd[p] \in Logins)
    <3>1. last'[P] = last[P] BY <1>1, <2>3 DEF TypeOK
    <3> QED BY <2>1, <3>1 DEF Solo, LoginResolves
  <2> QED BY <2>2, <2>3
<1> QED BY <1>1, <1>2, <1>4 DEF Solo, Placed, AsRead, Abandons, Logins

LEMMA SoloStep ==
  ASSUME NEW p, Alone(p), TypeOK, Solo(p), Next PROVE Solo(p)'
<1>1. Start(p) \/ Step(p) \/ Keychain(p) \/ Crashes(p) BY DEF Next, Alone
<1>2. CASE VerifyFails(p) \/ LoadFails(p) \/ SaveFails(p) \/ PersistFails(p) \/ RenameRefused(p)
             \/ Crashes(p)
  BY <1>2, SoloExits DEF VerifyFails, LoadFails, SaveFails, PersistFails, RenameRefused, Crashes
<1> QED
  BY <1>1, <1>2, SoloStarts, SoloResolves, SoloRings, SoloPrepares, SoloSaves, SoloConfigures, SoloEnds
     DEF Step, Keychain, Deadlines

\* What a save, the end of a logout and a rename do.
LEMMA SoloActs ==
  ASSUME NEW p, Alone(p), TypeOK, Solo(p) PROVE SavesItsOwn /\ EmptiesBoth /\ MovesCredential
<1>1. /\ prof[p] \in Profiles /\ to[p] \in Profiles /\ rec[p] \in Records
      /\ file \in [Profiles -> Records]
  BY DEF TypeOK, Alone, Files
<1>2. ASSUME Saves(p), cmd[p] \in Logins PROVE file'[prof[p]].preview = file[prof[p]].preview
  BY <1>1, <1>2, SaveEdits DEF Records
<1>3. ASSUME Saves(p), cmd[p] \in {"preview", "clear"}
      PROVE  [file'[prof[p]] EXCEPT !.preview = file[prof[p]].preview] = file[prof[p]]
  <2> DEFINE r == file[prof[p]]
  <2>1. r \in Records BY <1>1
  <2>2. \/ file'[prof[p]] = r \/ file'[prof[p]] = [r EXCEPT !.preview = TRUE]
        \/ file'[prof[p]] = [r EXCEPT !.preview = FALSE]
        \/ ~HasAPICredential(r) /\ file'[prof[p]] = Empty
    BY <1>3, SaveEdits
  <2>3. ~HasAPICredential(r) => r.kind = "none" /\ r.ring = FALSE /\ r.val = None
    <3>1. Whole(r) BY <1>1 DEF Solo, Stored
    <3> QED BY <2>1, <3>1 DEF Whole, HasAPICredential, Records
  <2>4. ASSUME NEW x \in Records, x.kind = r.kind, x.ring = r.ring, x.val = r.val
        PROVE  [x EXCEPT !.preview = r.preview] = r
    BY <2>1, <2>4 DEF Records
  <2>5. /\ file'[prof[p]] \in Records /\ file'[prof[p]].kind = r.kind
        /\ file'[prof[p]].ring = r.ring /\ file'[prof[p]].val = r.val
    <3>1. CASE file'[prof[p]] = r BY <2>1, <3>1
    <3>2. CASE file'[prof[p]] = [r EXCEPT !.preview = TRUE] BY <2>1, <3>2 DEF Records
    <3>3. CASE file'[prof[p]] = [r EXCEPT !.preview = FALSE] BY <2>1, <3>3 DEF Records
    <3>4. CASE ~HasAPICredential(r) /\ file'[prof[p]] = Empty
      <4>1. Empty.kind = "none" /\ Empty.ring = FALSE /\ Empty.val = None BY DEF Empty
      <4>2. Empty \in Records BY Constants
      <4> QED BY <2>3, <3>4, <4>1, <4>2
    <3> QED BY <2>2, <3>1, <3>2, <3>3, <3>4
  <2> HIDE DEF r
  <2>6. [file'[prof[p]] EXCEPT !.preview = r.preview] = r BY <2>4, <2>5
  <2> QED BY <2>6 DEF r
<1>4. ASSUME kmode = "force", cmd[p] = "logout", Ends(p), ~failed[p]
      PROVE  keychain[KeyringAccount(prof[p])] = None /\ file[prof[p]] = Empty
  BY <1>4 DEF Solo, Leaves, Ends, KeyringAccount
<1>5. ASSUME cmd[p] = "rename", Saves(p), file' # file, kmode # "force", ~file[prof[p]].ring
      PROVE  Lookup(to[p])' = Lookup(prof[p]) /\ Lookup(prof[p])' = None
  <2>1. file'[to[p]] = file[prof[p]] /\ file'[prof[p]] = Empty
    BY <1>5, SaveEdits
  <2>2. UNCHANGED <<kmode, prof, to>> BY <1>5 DEF Saves, mine
  <2> QED BY <1>5, <2>1, <2>2 DEF Lookup, Empty
<1>6. Saves(p) => \A P \in Profiles \ {prof[p], to[p]} : file'[P] = file[P] BY SaveEdits
<1>7. SavesItsOwn BY <1>2, <1>3, <1>6 DEF SavesItsOwn, Alone
<1>8. EmptiesBoth BY <1>4 DEF EmptiesBoth, Alone
<1>9. MovesCredential BY <1>5 DEF MovesCredential, Alone
<1> QED BY <1>7, <1>8, <1>9

\* Of one command at a time, with API keys and no --keyring: a save changes only what its
\* command is about, a rename moves, a forced logout that succeeds leaves nothing, and what a
\* login that succeeded stored is what the profile's next command finds, whatever failed, was
\* given up or crashed before.
THEOREM RecordsAreRight ==
  ASSUME NEW one, Procs = {one}, Kinds \subseteq {"api-key"}, Flags \subseteq {FALSE}
  PROVE  Spec => RecordsRight
<1>1. Alone(one) BY DEF Alone
<1>2. Init => TypeOK /\ Solo(one) BY <1>1, TypeInit, SoloInit
<1>3. TypeOK /\ Solo(one) /\ [Next]_vars => (TypeOK /\ Solo(one))'
  <2> SUFFICES ASSUME TypeOK, Solo(one), [Next]_vars PROVE (TypeOK /\ Solo(one))'
    OBVIOUS
  <2>1. CASE Next BY <1>1, <2>1, NextType, SoloStep
  <2>2. CASE UNCHANGED vars
    <3>1. UNCHANGED <<disk, last, pc, mine>> BY <2>2 DEF vars
    <3>2. UNCHANGED <<kmode, file, keychain, config, cmd, prof, to, flag, ucfg, sec, rec, copy, late, failed>>
      BY <3>1 DEF disk, mine
    <3>3. Stored' /\ LoginResolves' BY <3>1, DiskStays
    <3>4. Placed(one)' /\ AsRead(one)' /\ Abandons(one)'
      BY <3>1, <3>2 DEF Solo, Placed, AsRead, Abandons
    <3>5. (cmd[one] \in Logins => Puts(one)') /\ (cmd[one] = "logout" => Leaves(one)')
      BY <3>1, <3>2 DEF Solo, Puts, Leaves, LoginKind
    <3> QED BY <2>2, <3>2, <3>3, <3>4, <3>5, NextType DEF Solo
  <2> QED BY <2>1, <2>2
<1>4. TypeOK /\ Solo(one) => LoginResolves BY DEF Solo
<1>5. TypeOK /\ Solo(one) /\ [Next]_vars => [SavesItsOwn /\ EmptiesBoth /\ MovesCredential]_vars
  BY <1>1, SoloActs
<1>8. Spec => []LoginResolves BY <1>2, <1>3, <1>4, PTL DEF Spec
<1>9. Spec => OnlyItsOwn BY <1>2, <1>3, <1>5, PTL DEF Spec, OnlyItsOwn
<1>10. Spec => LogoutForgets BY <1>2, <1>3, <1>5, PTL DEF Spec, LogoutForgets
<1>11. Spec => RenameMoves BY <1>2, <1>3, <1>5, PTL DEF Spec, RenameMoves
<1> QED BY <1>8, <1>9, <1>10, <1>11 DEF RecordsRight

-----------------------------------------------------------------------------
(* The census.                                                              *)

\* An entity says when its read began and what it holds.
Seen(e) == {"builtAt", "keys", "folded"} \subseteq DOMAIN e

Holding(census) == \A s \in Slugs : census[s] = Nil \/ Seen(census[s])

\* A command that reads has the file it loaded and the entities it has read.
Reading(r) ==
  /\ {"at", "cmd", "mem", "todo", "built", "missed"} \subseteq DOMAIN r
  /\ Holding(r.mem) /\ \A s \in DOMAIN r.built : Seen(r.built[s])

\* One whose read of an entity is under way has a place in it too.
Paging(r) == {"slug", "page", "read", "total", "sampled", "began", "there"} \subseteq DOMAIN r

Bears(r) ==
  /\ r.at \in {"build", "read", "oldest"} => Reading(r)
  /\ r.at \in {"read", "oldest"} => Paging(r)

CensusInv ==
  /\ cDisk = [s \in Slugs |-> cDisk[s]] /\ Holding(cDisk)
  /\ cProc = [p \in Procs |-> cProc[p]] /\ \A p \in Procs : Bears(cProc[p])

LEMMA CensusInit == Counted!Init => CensusInv
<1> SUFFICES ASSUME Counted!Init PROVE CensusInv
  OBVIOUS
<1>1. cDisk = [s \in Slugs |-> Nil] /\ cProc = [p \in Procs |-> Counted!Idle]
  BY DEF Counted!Init
<1>2. Counted!Idle.at = "idle" BY DEF Counted!Idle
<1> QED BY <1>1, <1>2 DEF CensusInv, Holding, Bears

\* A command that is over carries nothing.
LEMMA IdleBears == Bears(Counted!Idle)
BY DEF Counted!Idle, Bears

\* What one command does to its own state leaves the others' alone.
LEMMA OneBears ==
  ASSUME CensusInv, NEW p \in Procs, NEW r, cProc' = [cProc EXCEPT ![p] = r], Bears(r)
  PROVE  cProc' = [q \in Procs |-> cProc'[q]] /\ \A q \in Procs : Bears(cProc'[q])
BY DEF CensusInv

\* An entity as it is built.
LEMMA EndedBears ==
  ASSUME NEW r, NEW read, NEW truncated, NEW early, NEW error, Reading(r)
  PROVE  Bears(Counted!Ended(r, read, truncated, early, error))
<1> DEFINE x == Counted!Ended(r, read, truncated, early, error)
<1>1. /\ DOMAIN x = {"at", "cmd", "mem", "todo", "built", "missed"} /\ x.at = "build"
      /\ x.mem = r.mem
  BY DEF Counted!Ended
<1>2. ASSUME NEW s \in DOMAIN x.built PROVE Seen(x.built[s])
  <2>1. CASE s = r.slug
    BY <1>2, <2>1 DEF Counted!Ended, Seen
  <2>2. CASE s # r.slug
    BY <1>2, <2>2 DEF Counted!Ended, Reading
  <2> QED BY <2>1, <2>2
<1> HIDE DEF x
<1>3. Bears(x) BY <1>1, <1>2 DEF Bears, Reading
<1> QED BY <1>3 DEF x

LEMMA EnsuresOne ==
  ASSUME CensusInv, NEW p \in Procs, Counted!Ensures(p)
  PROVE  CensusInv'
<1>1. PICK c \in Reads :
        LET mem  == IF c.refresh THEN [s \in Slugs |-> Nil] ELSE cDisk
            todo == {s \in c.only : mem[s] = Nil \/ c.force
                       \/ ~(Counted!Reusable(mem[s], c.max) \/ (c.wide /\ Counted!BlocklessReusable(mem[s], s, c.max)))}
        IN  cProc' = [cProc EXCEPT ![p] =
              IF todo = {} THEN Counted!Idle
              ELSE [at |-> "build", cmd |-> c, mem |-> mem, todo |-> todo, built |-> <<>>, missed |-> {}]]
  BY Zenon DEF Counted!Ensures
<1> DEFINE mem  == IF c.refresh THEN [s \in Slugs |-> Nil] ELSE cDisk
<1>2. PICK todo :
        cProc' = [cProc EXCEPT ![p] =
          IF todo = {} THEN Counted!Idle
          ELSE [at |-> "build", cmd |-> c, mem |-> mem, todo |-> todo, built |-> <<>>, missed |-> {}]]
  BY <1>1, Zenon
<1>3. Holding(mem) BY DEF CensusInv, Holding
<1> HIDE DEF mem
<1> DEFINE r == [at |-> "build", cmd |-> c, mem |-> mem, todo |-> todo, built |-> <<>>, missed |-> {}]
<1>4. Bears(r)
  <2>1. DOMAIN r.built = {} OBVIOUS
  <2> QED BY <1>3, <2>1 DEF Bears, Reading
<1> HIDE DEF r
<1>5. cProc' = [cProc EXCEPT ![p] = IF todo = {} THEN Counted!Idle ELSE r]
  BY <1>2, Zenon DEF r
<1>6. Bears(IF todo = {} THEN Counted!Idle ELSE r) BY <1>4, IdleBears
<1>7. UNCHANGED cDisk BY DEF Counted!Ensures
<1> QED BY <1>5, <1>6, <1>7, OneBears DEF CensusInv

LEMMA StartsOne ==
  ASSUME CensusInv, NEW p \in Procs, Counted!Starts1(p)
  PROVE  CensusInv'
<1>1. PICK s \in cProc[p].todo : cProc' = [cProc EXCEPT ![p] =
         [at |-> "read", cmd |-> cProc[p].cmd, mem |-> cProc[p].mem, todo |-> cProc[p].todo \ {s},
          built |-> cProc[p].built, missed |-> cProc[p].missed, slug |-> s, page |-> 1, read |-> <<>>,
          total |-> 0, sampled |-> FALSE, began |-> cClock, there |-> Counted!Live(s)]]
  BY DEF Counted!Starts1, CensusInv
<1> DEFINE r == [at |-> "read", cmd |-> cProc[p].cmd, mem |-> cProc[p].mem, todo |-> cProc[p].todo \ {s},
          built |-> cProc[p].built, missed |-> cProc[p].missed, slug |-> s, page |-> 1, read |-> <<>>,
          total |-> 0, sampled |-> FALSE, began |-> cClock, there |-> Counted!Live(s)]
<1>2. Reading(cProc[p]) BY DEF Counted!Starts1, CensusInv, Bears
<1>3. Bears(r) BY <1>2 DEF Bears, Reading, Paging
<1> HIDE DEF r
<1>4. cProc' = [cProc EXCEPT ![p] = r] BY <1>1 DEF r
<1>5. UNCHANGED cDisk BY DEF Counted!Starts1
<1> QED BY <1>3, <1>4, <1>5, OneBears DEF CensusInv

\* A read that goes on carries what it carried.
LEMMA PagesOn ==
  ASSUME NEW r, Reading(r), Paging(r), NEW x, DOMAIN x = DOMAIN r,
         x.at \in {"read", "oldest"}, x.mem = r.mem, x.built = r.built
  PROVE  Bears(x)
BY DEF Bears, Reading, Paging

LEMMA ReadsOnePage ==
  ASSUME CensusInv, NEW p \in Procs, Counted!ReadsPage(p)
  PROVE  CensusInv'
<1> DEFINE r == cProc[p]
<1>1. Reading(r) /\ Paging(r) /\ r.at = "read" BY DEF Counted!ReadsPage, CensusInv, Bears
<1>2. UNCHANGED cDisk BY DEF Counted!ReadsPage
<1>3. PICK read, total, left :
        \/ cProc' = [cProc EXCEPT ![p] = Counted!Ended(r, read, left, FALSE, FALSE)]
        \/ cProc' = [cProc EXCEPT ![p] =
             [r EXCEPT !.at = "oldest", !.read = read, !.total = total, !.sampled = TRUE]]
        \/ cProc' = [cProc EXCEPT ![p] = [r EXCEPT !.read = read, !.total = total, !.page = @ + 1]]
  BY Zenon DEF Counted!ReadsPage
<1>4. CASE cProc' = [cProc EXCEPT ![p] = Counted!Ended(r, read, left, FALSE, FALSE)]
  BY <1>1, <1>2, <1>4, EndedBears, OneBears DEF CensusInv
<1>5. CASE cProc' = [cProc EXCEPT ![p] =
             [r EXCEPT !.at = "oldest", !.read = read, !.total = total, !.sampled = TRUE]]
  <2> DEFINE x == [r EXCEPT !.at = "oldest", !.read = read, !.total = total, !.sampled = TRUE]
  <2>1. DOMAIN x = DOMAIN r /\ x.at = "oldest" /\ x.mem = r.mem /\ x.built = r.built
    BY <1>1 DEF Reading
  <2> HIDE DEF x
  <2>2. Bears(x) BY <1>1, <2>1, PagesOn
  <2>3. cProc' = [cProc EXCEPT ![p] = x] BY <1>5 DEF x
  <2> QED BY <1>2, <2>2, <2>3, OneBears DEF CensusInv
<1>6. CASE cProc' = [cProc EXCEPT ![p] = [r EXCEPT !.read = read, !.total = total, !.page = @ + 1]]
  <2> DEFINE x == [r EXCEPT !.read = read, !.total = total, !.page = @ + 1]
  <2>1. DOMAIN x = DOMAIN r /\ x.at = "read" /\ x.mem = r.mem /\ x.built = r.built
    BY <1>1 DEF Reading
  <2> HIDE DEF x
  <2>2. Bears(x) BY <1>1, <2>1, PagesOn
  <2>3. cProc' = [cProc EXCEPT ![p] = x] BY <1>6 DEF x
  <2> QED BY <1>2, <2>2, <2>3, OneBears DEF CensusInv
<1> QED BY <1>3, <1>4, <1>5, <1>6

LEMMA ReadsTheOldest ==
  ASSUME CensusInv, NEW p \in Procs, Counted!ReadsOldest(p)
  PROVE  CensusInv'
<1> DEFINE r == cProc[p]
<1>1. Reading(r) /\ Paging(r) BY DEF Counted!ReadsOldest, CensusInv, Bears
<1>2. UNCHANGED cDisk BY DEF Counted!ReadsOldest
<1>3. PICK read, left, early :
        \/ cProc' = [cProc EXCEPT ![p] = Counted!Ended(r, read, left, early, FALSE)]
        \/ cProc' = [cProc EXCEPT ![p] = [r EXCEPT !.at = "read", !.read = read, !.page = @ + 1]]
  BY Zenon DEF Counted!ReadsOldest
<1>4. CASE cProc' = [cProc EXCEPT ![p] = Counted!Ended(r, read, left, early, FALSE)]
  BY <1>1, <1>2, <1>4, EndedBears, OneBears DEF CensusInv
<1>5. CASE cProc' = [cProc EXCEPT ![p] = [r EXCEPT !.at = "read", !.read = read, !.page = @ + 1]]
  <2> DEFINE x == [r EXCEPT !.at = "read", !.read = read, !.page = @ + 1]
  <2>1. DOMAIN x = DOMAIN r /\ x.at = "read" /\ x.mem = r.mem /\ x.built = r.built
    BY <1>1 DEF Reading
  <2> HIDE DEF x
  <2>2. Bears(x) BY <1>1, <2>1, PagesOn
  <2>3. cProc' = [cProc EXCEPT ![p] = x] BY <1>5 DEF x
  <2> QED BY <1>2, <2>2, <2>3, OneBears DEF CensusInv
<1> QED BY <1>3, <1>4, <1>5

LEMMA ReadsFail ==
  ASSUME CensusInv, NEW p \in Procs, Counted!ReadFails(p)
  PROVE  CensusInv'
<1>1. /\ Reading(cProc[p]) /\ UNCHANGED cDisk
      /\ cProc' = [cProc EXCEPT ![p] = Counted!Ended(cProc[p], cProc[p].read, FALSE, FALSE, TRUE)]
  BY DEF Counted!ReadFails, CensusInv, Bears
<1> QED BY <1>1, EndedBears, OneBears DEF CensusInv

\* Whatever is merged is a file.
LEMMA MergeHolds ==
  ASSUME CensusInv, NEW r, Reading(r)
  PROVE  Counted!Merge(r) = [s \in Slugs |-> Counted!Merge(r)[s]] /\ Holding(Counted!Merge(r))
<1>1. /\ Counted!Memory(r) = [s \in Slugs |-> Counted!Memory(r)[s]]
      /\ Holding(Counted!Memory(r))
  BY DEF Counted!Memory, Reading, Holding
<1>2. CASE r.cmd.refresh \/ \A s \in Slugs : cDisk[s] = Nil
  BY <1>1, <1>2 DEF Counted!Merge
<1>3. CASE ~(r.cmd.refresh \/ \A s \in Slugs : cDisk[s] = Nil)
  BY <1>3 DEF Counted!Merge, Reading, Holding, CensusInv
<1> QED BY <1>2, <1>3

LEMMA Persisted ==
  ASSUME CensusInv, NEW p \in Procs, Counted!Persists(p)
  PROVE  CensusInv' /\ Counted!NewerKept
<1>1. /\ Reading(cProc[p]) /\ cProc[p].at = "build"
      /\ cProc' = [cProc EXCEPT ![p] = Counted!Idle]
      /\ cDisk' = Counted!Merge(cProc[p]) \/ UNCHANGED cDisk
  BY DEF Counted!Persists, CensusInv, Bears
<1>2. cDisk' = [s \in Slugs |-> cDisk'[s]] /\ Holding(cDisk')
  BY <1>1, MergeHolds DEF CensusInv
<1>3. CensusInv'
  BY <1>1, <1>2, IdleBears, OneBears DEF CensusInv
<1>4. cProc'[p] = Counted!Idle BY <1>1 DEF CensusInv
<1>5. ASSUME NEW s \in Slugs, cDisk[s] # Nil, cDisk'[s] # cDisk[s], ~cProc[p].cmd.refresh
      PROVE  s \in DOMAIN cProc[p].built /\ cDisk'[s] = cProc[p].built[s]
             /\ cDisk[s].builtAt <= cDisk'[s].builtAt
  BY <1>1, <1>5 DEF Counted!Merge
<1> QED BY <1>1, <1>3, <1>4, <1>5 DEF Counted!NewerKept

\* Overlaying a document changes neither when an entity was read nor what was.
LEMMA OverlayKeeps ==
  ASSUME NEW e, Seen(e), NEW id, NEW L, NEW persist
  PROVE  LET o == Counted!Overlay(e, id, L, persist)
         IN  Seen(o) /\ o.builtAt = e.builtAt /\ o.keys = e.keys /\ e.folded \subseteq o.folded
<1>1. ASSUME NEW f, Seen(f), f.builtAt = e.builtAt, f.keys = e.keys, f.folded = e.folded
      PROVE  LET o == [f EXCEPT !.folded = IF persist THEN @ \cup {id} ELSE @]
             IN  Seen(o) /\ o.builtAt = e.builtAt /\ o.keys = e.keys /\ e.folded \subseteq o.folded
  BY <1>1 DEF Seen
<1>3. ASSUME NEW ov
      PROVE  LET f == Counted!Added(e, ov, persist)
             IN  Seen(f) /\ f.builtAt = e.builtAt /\ f.keys = e.keys /\ f.folded = e.folded
  <2>1. PICK f, a, b, c, d : /\ f = [e EXCEPT !.paths = a, !.count = b, !.style = c, !.accepts = d]
                             /\ f = Counted!Added(e, ov, persist)
    BY Zenon DEF Counted!Added
  <2>2. Seen(f) /\ f.builtAt = e.builtAt /\ f.keys = e.keys /\ f.folded = e.folded
    BY <2>1 DEF Seen
  <2>3. f = Counted!Added(e, ov, persist) BY <2>1, Zenon
  <2> QED BY <2>2, <2>3
<1>4. ASSUME NEW ov
      PROVE  LET f == Counted!Refreshed(e, ov, persist)
             IN  Seen(f) /\ f.builtAt = e.builtAt /\ f.keys = e.keys /\ f.folded = e.folded
  <2>1. PICK f, a, b, c, d : /\ f = [e EXCEPT !.paths = a, !.count = b, !.style = c, !.accepts = d]
                             /\ f = Counted!Refreshed(e, ov, persist)
    BY Zenon DEF Counted!Refreshed
  <2>2. Seen(f) /\ f.builtAt = e.builtAt /\ f.keys = e.keys /\ f.folded = e.folded
    BY <2>1 DEF Seen
  <2>3. f = Counted!Refreshed(e, ov, persist) BY <2>1, Zenon
  <2> QED BY <2>2, <2>3
<1>5. CASE ~Counted!IsBlocks(L)
  BY <1>5 DEF Counted!Overlay
<1>6. CASE Counted!IsBlocks(L)
  <2> DEFINE ov == Counted!Count(L, TRUE)
             f == IF id \in e.keys \cup e.folded THEN Counted!Refreshed(e, ov, persist)
                  ELSE Counted!Added(e, ov, persist)
  <2>1. Seen(f) /\ f.builtAt = e.builtAt /\ f.keys = e.keys /\ f.folded = e.folded
    BY <1>3, <1>4
  <2>2. Counted!Overlay(e, id, L, persist) = [f EXCEPT !.folded = IF persist THEN @ \cup {id} ELSE @]
    BY <1>6 DEF Counted!Overlay
  <2> HIDE DEF f
  <2> QED BY <1>1, <2>1, <2>2
<1> QED BY <1>5, <1>6

LEMMA Folded ==
  ASSUME CensusInv, NEW p \in Procs, Counted!Folds(p)
  PROVE  CensusInv' /\ Counted!NewerKept
<1> DEFINE r == cProc[p]
           o == Counted!Overlay(cDisk[r.slug], r.id, r.echo, TRUE)
<1>1. /\ r.at = "fold" /\ cProc' = [cProc EXCEPT ![p] = Counted!Idle]
      /\ \/ cDisk[r.slug] # Nil /\ cDisk' = [cDisk EXCEPT ![r.slug] = o]
         \/ UNCHANGED cDisk
  BY DEF Counted!Folds
<1>2. ASSUME r.slug \in Slugs, cDisk[r.slug] # Nil
      PROVE  /\ Seen(o) /\ o.builtAt = cDisk[r.slug].builtAt /\ o.keys = cDisk[r.slug].keys
             /\ cDisk[r.slug].folded \subseteq o.folded
  BY <1>2, OverlayKeeps DEF CensusInv, Holding
<1> HIDE DEF o
<1>3. cDisk' = [s \in Slugs |-> cDisk'[s]] /\ Holding(cDisk')
  BY <1>1, <1>2 DEF CensusInv, Holding
<1>4. CensusInv'
  BY <1>1, <1>3, IdleBears, OneBears DEF CensusInv
<1>5. ASSUME NEW s \in Slugs, cDisk[s] # Nil, cDisk'[s] # cDisk[s]
      PROVE  /\ cDisk'[s].builtAt = cDisk[s].builtAt /\ cDisk'[s].keys = cDisk[s].keys
             /\ cDisk[s].folded \subseteq cDisk'[s].folded
  BY <1>1, <1>2, <1>5 DEF CensusInv
<1> QED BY <1>1, <1>4, <1>5 DEF Counted!NewerKept, CensusInv

LEMMA CensusStep ==
  ASSUME CensusInv, Counted!Next
  PROVE  CensusInv' /\ Counted!NewerKept
<1>1. ASSUME CensusInv', UNCHANGED cDisk PROVE Counted!NewerKept
  BY <1>1 DEF Counted!NewerKept
<1>2. ASSUME NEW p \in Procs, Counted!Ensures(p) PROVE CensusInv' /\ Counted!NewerKept
  BY <1>1, <1>2, EnsuresOne DEF Counted!Ensures
<1>3. ASSUME NEW p \in Procs, Counted!Starts1(p) PROVE CensusInv' /\ Counted!NewerKept
  BY <1>1, <1>3, StartsOne DEF Counted!Starts1
<1>4. ASSUME NEW p \in Procs, Counted!ReadsPage(p) PROVE CensusInv' /\ Counted!NewerKept
  BY <1>1, <1>4, ReadsOnePage DEF Counted!ReadsPage
<1>5. ASSUME NEW p \in Procs, Counted!ReadsOldest(p) PROVE CensusInv' /\ Counted!NewerKept
  BY <1>1, <1>5, ReadsTheOldest DEF Counted!ReadsOldest
<1>6. ASSUME NEW p \in Procs, Counted!ReadFails(p) PROVE CensusInv' /\ Counted!NewerKept
  BY <1>1, <1>6, ReadsFail DEF Counted!ReadFails
<1>7. ASSUME NEW p \in Procs, Counted!Writes(p) PROVE CensusInv' /\ Counted!NewerKept
  <2>1. PICK s \in Slugs, i \in Ids : \E L \in Layouts[s] :
          cProc' = [cProc EXCEPT ![p] = [at |-> "fold", slug |-> s, id |-> i, echo |-> L]]
    BY <1>7 DEF Counted!Writes
  <2>2. PICK L : cProc' = [cProc EXCEPT ![p] = [at |-> "fold", slug |-> s, id |-> i, echo |-> L]]
    BY <2>1
  <2>3. UNCHANGED cDisk BY <1>7 DEF Counted!Writes
  <2>4. Bears([at |-> "fold", slug |-> s, id |-> i, echo |-> L]) BY DEF Bears
  <2> QED BY <1>1, <2>2, <2>3, <2>4, OneBears DEF CensusInv
<1>8. ASSUME NEW p \in Procs, Counted!Crashes(p) PROVE CensusInv' /\ Counted!NewerKept
  BY <1>1, <1>8, IdleBears, OneBears DEF Counted!Crashes, CensusInv
<1>9. CASE Counted!Clears
  <2>1. cDisk' = [s \in Slugs |-> Nil] /\ UNCHANGED cProc BY <1>9 DEF Counted!Clears
  <2> QED BY <2>1 DEF CensusInv, Holding, Counted!NewerKept
<1>10. CASE Counted!Edits
  <2>1. UNCHANGED cDisk BY <1>10 DEF Counted!Edits
  <2>2. PICK s : UNCHANGED cProc \/ cProc' = [p \in Procs |->
           IF cProc[p].at \in {"read", "oldest"} /\ cProc[p].slug = s
           THEN [cProc[p] EXCEPT !.there = {}] ELSE cProc[p]]
    BY <1>10 DEF Counted!Edits
  <2>3. ASSUME NEW p \in Procs, cProc[p].at \in {"read", "oldest"}
        PROVE  Bears([cProc[p] EXCEPT !.there = {}])
    <3>1. Reading(cProc[p]) /\ Paging(cProc[p]) BY <2>3 DEF CensusInv, Bears
    <3> DEFINE x == [cProc[p] EXCEPT !.there = {}]
    <3>2. DOMAIN x = DOMAIN cProc[p] /\ x.at = cProc[p].at /\ x.mem = cProc[p].mem /\ x.built = cProc[p].built
      BY <3>1 DEF Reading
    <3> HIDE DEF x
    <3>3. Bears(x) BY <2>3, <3>1, <3>2, PagesOn
    <3> QED BY <3>3 DEF x
  <2>4. cProc' = [p \in Procs |-> cProc'[p]] /\ \A p \in Procs : Bears(cProc'[p])
    BY <2>2, <2>3 DEF CensusInv
  <2> QED BY <1>1, <2>1, <2>4 DEF CensusInv
<1>11. CASE Counted!Tick
  BY <1>1, <1>11 DEF Counted!Tick, CensusInv
<1>12. ASSUME NEW p \in Procs, Counted!Persists(p) PROVE CensusInv' /\ Counted!NewerKept
  BY <1>12, Persisted
<1>13. ASSUME NEW p \in Procs, Counted!Folds(p) PROVE CensusInv' /\ Counted!NewerKept
  BY <1>13, Folded
<1> QED
  BY <1>2, <1>3, <1>4, <1>5, <1>6, <1>7, <1>8, <1>9, <1>10, <1>11, <1>12, <1>13 DEF Counted!Next

\* Whatever other commands write, clear or crash meanwhile, an entity of the census is only
\* replaced by a read that did not begin before it, and a fold takes nothing away.
THEOREM CensusKeepsNewer == RacesSpec => NewerKept
<1>1. RacesInit => CensusInv
  BY CensusInit DEF RacesInit
<1>2. CensusInv /\ [RacesNext]_<<part, vars, censusVars>> => CensusInv'
  <2> SUFFICES ASSUME CensusInv, [RacesNext]_<<part, vars, censusVars>> PROVE CensusInv'
    OBVIOUS
  <2>1. CASE Counted!Next BY <2>1, CensusStep
  <2>2. CASE UNCHANGED censusVars BY <2>2 DEF CensusInv, censusVars
  <2> QED BY <2>1, <2>2 DEF RacesNext
<1>3. CensusInv /\ [RacesNext]_<<part, vars, censusVars>> => [Counted!NewerKept]_censusVars
  BY CensusStep DEF RacesNext
<1> QED BY <1>1, <1>2, <1>3, PTL DEF RacesSpec, NewerKept


-----------------------------------------------------------------------------
(* A read that does not call itself truncated is complete: for any          *)
(* documents, layouts and commands, not those of the run alone.             *)

\* What a reader may rely on: documents are numbered in the order they are created in, one that
\* is stored is neither absent nor deleted, and a command reads so many documents at most.
Sane ==
  /\ IsFiniteSet(Ids) /\ Ids \subseteq Int /\ PageSize \in Nat
  /\ \A c \in Reads : c.max \in Nat
  /\ \A d \in Starts : d = [s \in Slugs |-> [i \in Ids |-> d[s][i]]]
  /\ \A s \in Slugs : \A L \in Layouts[s] : L \notin {Nil, Deleted}

\* Between two pages: what was there when the read began, and was not deleted since, is there,
\* and so is what was read.  When the oldest are looked at as well, the total is of documents
\* that all were there at one moment, before any created since.
Place(r) ==
  r.there # {} =>
    /\ r.at = "read"   => r.there \subseteq Counted!Live(r.slug) /\ DOMAIN r.read \subseteq Counted!Live(r.slug)
    /\ r.at = "oldest" =>
         \E S \in SUBSET Counted!Live(r.slug) :
           /\ Cardinality(S) = r.total /\ r.there \subseteq S /\ DOMAIN r.read \subseteq S
           /\ \A j \in S, i \in Counted!Live(r.slug) \ S : j < i

Busy == {"build", "read", "oldest"}
Fields(r) == {"at", "cmd", "mem", "todo", "built", "missed"}
               \cup IF r.at = "build" THEN {} ELSE {"slug", "page", "read", "total", "sampled", "began", "there"}

Complete(r) ==
  r.at \in Busy =>
    /\ Fields(r) \subseteq DOMAIN r /\ r.cmd \in Reads /\ r.missed = {}
    /\ r.at # "build" => Place(r)

ReadInv ==
  /\ cDocs = [s \in Slugs |-> [i \in Ids |-> cDocs[s][i]]]
  /\ cProc = [p \in Procs |-> cProc[p]] /\ \A p \in Procs : Complete(cProc[p])

\* The instance counts as this module does.
LEMMA SameCard == \A S : Counted!Cardinality(S) = Cardinality(S)
<1> TAKE S
<1> QED BY Zenon DEF Counted!Cardinality, Cardinality, Counted!IsFiniteSet, IsFiniteSet

\* As many as all of them are all of them.
LEMMA AllThere ==
  ASSUME NEW S, NEW K, IsFiniteSet(S), K \subseteq S, Cardinality(S) <= Cardinality(K)
  PROVE  S \subseteq K
<1>1. IsFiniteSet(K) /\ Cardinality(K) <= Cardinality(S) BY FS_Subset
<1>2. Cardinality(K) \in Nat /\ Cardinality(S) \in Nat BY <1>1, FS_CardinalityType
<1>3. Cardinality(K) = Cardinality(S) BY <1>1, <1>2
<1> QED BY <1>3, FS_Subset

\* What is before a document comes in numbers, and no later one has fewer before it.
LEMMA Earlier ==
  ASSUME NEW S, IsFiniteSet(S), S \subseteq Int, NEW i \in S, NEW j \in S
  PROVE  /\ Counted!Before(S, i, "oldest") \in Nat
         /\ j < i => Counted!Before(S, j, "oldest") <= Counted!Before(S, i, "oldest")
<1> DEFINE B(k) == {l \in S : l < k}
<1>1. IsFiniteSet(B(i)) /\ IsFiniteSet(B(j)) BY FS_Subset
<1>2. Counted!Before(S, i, "oldest") = Cardinality(B(i)) /\ Counted!Before(S, j, "oldest") = Cardinality(B(j))
  <2>1. ASSUME NEW k \in S PROVE Counted!Before(S, k, "oldest") = Cardinality(B(k))
    <3>1. "oldest" # "newest" OBVIOUS
    <3>2. B(k) = {l \in S : IF "oldest" = "newest" THEN l > k ELSE l < k} BY <3>1
    <3> HIDE DEF B
    <3> QED BY <3>2, SameCard DEF Counted!Before
  <2> QED BY <2>1
<1>3. ASSUME j < i PROVE B(j) \subseteq B(i)
  <2>1. \A l \in S : l < j => l < i BY <1>3
  <2> QED BY <2>1
<1> HIDE DEF B
<1> QED BY <1>1, <1>2, <1>3, FS_CardinalityType, FS_Subset

\* A page is of documents that are there; what is taken of it was not read yet.
LEMMA Consumed ==
  ASSUME NEW r, NEW S, NEW order, NEW n, NEW limit
  PROVE  LET page == Counted!Page(S, order, n, limit)
             D == DOMAIN Counted!Consume(r, page, order)
         IN  /\ page \subseteq S
             /\ DOMAIN r.read \subseteq D /\ D \subseteq DOMAIN r.read \cup S
BY DEF Counted!Page, Counted!Consume

\* The newest, then the oldest: as many as there were at one moment, and no document created
\* since, or all the older ones with it.
LEMMA BothEnds ==
  ASSUME NEW S, IsFiniteSet(S), S \subseteq Int, NEW T \in SUBSET S,
         \A j \in T, i \in S \ T : j < i,
         NEW r, DOMAIN r.read \subseteq T, r.cmd.max \in Nat, NEW limit \in Int,
         Cardinality(T) <= Cardinality(DOMAIN Counted!Consume(r, Counted!Page(S, "oldest", 1, limit), "oldest"))
  PROVE  T \subseteq DOMAIN Counted!Consume(r, Counted!Page(S, "oldest", 1, limit), "oldest")
<1> DEFINE page == Counted!Page(S, "oldest", 1, limit)
           fresh == page \ DOMAIN r.read
           room == r.cmd.max - Counted!Scanned(r.read)
           taken == {i \in fresh : Counted!Before(fresh, i, "oldest") < room}
           D == DOMAIN Counted!Consume(r, page, "oldest")
<1>1. D = DOMAIN r.read \cup taken BY DEF Counted!Consume
<1>2. page \subseteq S /\ \A i \in S : i \in page <=> Counted!Before(S, i, "oldest") \in 0 .. limit - 1
  BY DEF Counted!Page
<1>3. IsFiniteSet(T) /\ IsFiniteSet(fresh) /\ fresh \subseteq Int
  BY <1>2, FS_Subset
<1>4. room \in Int
  <2>1. IsFiniteSet(DOMAIN r.read) BY <1>3, FS_Subset
  <2>2. Cardinality(DOMAIN r.read) \in Nat BY <2>1, FS_CardinalityType
  <2>3. room = r.cmd.max - Cardinality(DOMAIN r.read) BY SameCard DEF Counted!Scanned
  <2> HIDE DEF room
  <2> QED BY <2>2, <2>3
<1>5. CASE D \subseteq T BY <1>3, <1>5, AllThere
<1>6. ASSUME NEW i \in D, i \notin T PROVE T \subseteq D
  <2> SUFFICES ASSUME NEW j \in T, j \notin DOMAIN r.read PROVE j \in taken
    BY <1>1
  <2>1. i \in fresh /\ Counted!Before(fresh, i, "oldest") < room BY <1>1, <1>6
  <2>2. i \in S /\ j \in S /\ j < i BY <1>2, <1>6, <2>1
  <2>3. j \in page
    <3>1. /\ Counted!Before(S, i, "oldest") \in Nat /\ Counted!Before(S, j, "oldest") \in Nat
          /\ Counted!Before(S, j, "oldest") <= Counted!Before(S, i, "oldest")
      BY <2>2, Earlier
    <3>2. Counted!Before(S, i, "oldest") \in 0 .. limit - 1 BY <1>2, <2>1, <2>2
    <3>3. Counted!Before(S, j, "oldest") \in 0 .. limit - 1 BY <3>1, <3>2
    <3> QED BY <1>2, <2>2, <3>3
  <2>4. j \in fresh BY <2>3
  <2>5. /\ Counted!Before(fresh, i, "oldest") \in Nat /\ Counted!Before(fresh, j, "oldest") \in Nat
        /\ Counted!Before(fresh, j, "oldest") <= Counted!Before(fresh, i, "oldest")
    BY <1>3, <2>1, <2>2, <2>4, Earlier
  <2>6. Counted!Before(fresh, j, "oldest") < room BY <1>4, <2>1, <2>5
  <2> QED BY <2>4, <2>6
<1> QED BY <1>5, <1>6


LEMMA FiniteLive == ASSUME Sane, NEW s PROVE IsFiniteSet(Counted!Live(s)) /\ Counted!Live(s) \subseteq Int
BY FS_Subset DEF Sane, Counted!Live

LEMMA CompleteInit == ASSUME Sane, Counted!Init PROVE ReadInv
BY DEF Sane, Counted!Init, Counted!Idle, ReadInv, Complete, Busy

\* When a command steps and no document changes, only its own part has to be looked at.
LEMMA OneReads ==
  ASSUME ReadInv, UNCHANGED cDocs, NEW p \in Procs, NEW x, Complete(x), cProc' = [cProc EXCEPT ![p] = x]
  PROVE  ReadInv'
<1>1. \A q \in Procs : Complete(cProc'[q]) BY DEF ReadInv
<1>2. cProc' = [q \in Procs |-> cProc'[q]] BY DEF ReadInv
<1>3. \A q \in Procs : Complete(cProc[q])'
  <2> TAKE q \in Procs
  <2>1. Complete(cProc'[q]) BY <1>1
  <2> QED BY <2>1 DEF Complete, Place, Counted!Live
<1> QED BY <1>2, <1>3 DEF ReadInv

LEMMA IdleReads == Complete(Counted!Idle)
BY DEF Complete, Busy, Counted!Idle

\* What ends well has what was there.
LEMMA EndsWell ==
  ASSUME NEW r, Complete(r), r.at \in {"read", "oldest"}, NEW read, NEW truncated, NEW early, NEW error,
         truncated \/ error \/ r.there \subseteq DOMAIN read
  PROVE  Complete(Counted!Ended(r, read, truncated, early, error))
<1> DEFINE x == Counted!Ended(r, read, truncated, early, error)
<1>1. /\ DOMAIN x = {"at", "cmd", "mem", "todo", "built", "missed"} /\ x.at = "build" /\ x.cmd = r.cmd
      /\ x.missed = IF truncated \/ error THEN r.missed ELSE r.missed \cup (r.there \ DOMAIN read)
  BY DEF Counted!Ended
<1> HIDE DEF x
<1>2. Complete(x) BY <1>1 DEF Complete, Busy, Fields
<1> QED BY <1>2 DEF x


LEMMA EnsuresReads == ASSUME Sane, ReadInv, NEW p \in Procs, Counted!Ensures(p) PROVE ReadInv'
<1>1. PICK c \in Reads :
        LET mem  == IF c.refresh THEN [s \in Slugs |-> Nil] ELSE cDisk
            todo == {s \in c.only : mem[s] = Nil \/ c.force
                       \/ ~(Counted!Reusable(mem[s], c.max) \/ (c.wide /\ Counted!BlocklessReusable(mem[s], s, c.max)))}
        IN  cProc' = [cProc EXCEPT ![p] =
              IF todo = {} THEN Counted!Idle
              ELSE [at |-> "build", cmd |-> c, mem |-> mem, todo |-> todo, built |-> <<>>, missed |-> {}]]
  BY Zenon DEF Counted!Ensures
<1>2. UNCHANGED cDocs BY DEF Counted!Ensures
<1>3. PICK mem, todo :
        \/ cProc' = [cProc EXCEPT ![p] = Counted!Idle]
        \/ cProc' = [cProc EXCEPT ![p] =
             [at |-> "build", cmd |-> c, mem |-> mem, todo |-> todo, built |-> <<>>, missed |-> {}]]
  BY <1>1, Zenon
<1>4. Complete([at |-> "build", cmd |-> c, mem |-> mem, todo |-> todo, built |-> <<>>, missed |-> {}])
  BY DEF Complete, Fields
<1> QED BY <1>2, <1>3, <1>4, IdleReads, OneReads

LEMMA StartsReads == ASSUME Sane, ReadInv, NEW p \in Procs, Counted!Starts1(p) PROVE ReadInv'
<1> DEFINE r == cProc[p]
           x(s) == [at |-> "read", cmd |-> r.cmd, mem |-> r.mem, todo |-> r.todo \ {s}, built |-> r.built,
                    missed |-> r.missed, slug |-> s, page |-> 1, read |-> <<>>, total |-> 0, sampled |-> FALSE,
                    began |-> cClock, there |-> Counted!Live(s)]
<1>1. PICK s \in r.todo : cProc' = [cProc EXCEPT ![p] = x(s)]
  BY DEF Counted!Starts1, ReadInv
<1>2. Complete(r) /\ r.at = "build" /\ UNCHANGED cDocs BY DEF ReadInv, Counted!Starts1
<1>3. x(s).read = <<>> /\ DOMAIN <<>> = {} /\ x(s).there = Counted!Live(s) /\ x(s).slug = s /\ x(s).at = "read"
  OBVIOUS
<1>4. Fields(x(s)) \subseteq DOMAIN x(s) /\ x(s).cmd = r.cmd /\ x(s).missed = r.missed
  BY DEF Fields
<1> HIDE DEF x
<1>5. Place(x(s)) BY <1>3 DEF Place
<1>6. Complete(x(s)) BY <1>2, <1>4, <1>5 DEF Complete, Busy
<1> QED BY <1>1, <1>2, <1>6, OneReads

\* A page of the newest.
LEMMA PageReads == ASSUME Sane, ReadInv, NEW p \in Procs, Counted!ReadsPage(p) PROVE ReadInv'
<1> DEFINE r     == cProc[p]
           live  == Counted!Live(r.slug)
           page  == Counted!Page(live, "newest", r.page, Counted!Limit(r))
           total == Counted!Cardinality(live)
           read  == Counted!Consume(r, page, "newest")
           old   == [r EXCEPT !.at = "oldest", !.read = read, !.total = total, !.sampled = TRUE]
           next  == [r EXCEPT !.read = read, !.total = total, !.page = @ + 1]
<1>1. \/ cProc' = [cProc EXCEPT ![p] = Counted!Ended(r, read, total > Counted!Scanned(read), FALSE, FALSE)]
      \/ cProc' = [cProc EXCEPT ![p] = old]
      \/ cProc' = [cProc EXCEPT ![p] = next]
  BY Zenon DEF Counted!ReadsPage
<1>2. Complete(r) /\ Place(r) /\ r.at = "read" /\ UNCHANGED cDocs BY DEF ReadInv, Counted!ReadsPage, Complete, Busy
<1>3. IsFiniteSet(live) /\ total = Cardinality(live) BY FiniteLive, SameCard
<1>4. DOMAIN r.read \subseteq DOMAIN read /\ DOMAIN read \subseteq DOMAIN r.read \cup live BY Consumed
<1>5. Counted!Scanned(read) = Cardinality(DOMAIN read) BY SameCard DEF Counted!Scanned
<1>6. /\ Fields(r) \subseteq DOMAIN r /\ r.cmd \in Reads /\ r.missed = {}
      /\ r.there # {} => r.there \subseteq live /\ DOMAIN r.read \subseteq live
  BY <1>2 DEF Complete, Busy, Place
<1>7. /\ DOMAIN old = DOMAIN r /\ old.at = "oldest" /\ old.cmd = r.cmd /\ old.missed = r.missed
      /\ old.slug = r.slug /\ old.there = r.there /\ old.read = read /\ old.total = total
  BY <1>2, <1>6 DEF Fields
<1>8. /\ DOMAIN next = DOMAIN r /\ next.at = "read" /\ next.cmd = r.cmd /\ next.missed = r.missed
      /\ next.slug = r.slug /\ next.there = r.there /\ next.read = read
  BY <1>2, <1>6 DEF Fields
<1> HIDE DEF old, next, read, total, live
<1>9. CASE cProc' = [cProc EXCEPT ![p] = Counted!Ended(r, read, total > Counted!Scanned(read), FALSE, FALSE)]
  <2>1. ASSUME ~(total > Counted!Scanned(read)), r.there # {} PROVE r.there \subseteq DOMAIN read
    <3>1. IsFiniteSet(DOMAIN read) /\ DOMAIN read \subseteq live BY <1>3, <1>4, <1>6, <2>1, FS_Subset
    <3>2. Cardinality(DOMAIN read) \in Nat /\ Cardinality(live) \in Nat BY <1>3, <3>1, FS_CardinalityType
    <3>3. Cardinality(live) <= Cardinality(DOMAIN read) BY <1>3, <1>5, <2>1, <3>2
    <3>4. live \subseteq DOMAIN read BY <1>3, <3>1, <3>3, AllThere
    <3> QED BY <1>6, <2>1, <3>4
  <2>2. Complete(Counted!Ended(r, read, total > Counted!Scanned(read), FALSE, FALSE))
    BY <1>2, <2>1, EndsWell
  <2> QED BY <1>2, <1>9, <2>2, OneReads
<1>10. CASE cProc' = [cProc EXCEPT ![p] = old]
  <2>1. Place(old) BY <1>3, <1>4, <1>6, <1>7 DEF Place, live
  <2>2. Fields(old) \subseteq DOMAIN old BY <1>2, <1>6, <1>7 DEF Fields
  <2>3. Complete(old) BY <1>6, <1>7, <2>1, <2>2 DEF Complete
  <2> QED BY <1>2, <1>10, <2>3, OneReads
<1>11. CASE cProc' = [cProc EXCEPT ![p] = next]
  <2>1. Place(next) BY <1>4, <1>6, <1>8 DEF Place, live
  <2>2. Fields(next) \subseteq DOMAIN next BY <1>2, <1>6, <1>8 DEF Fields
  <2>3. Complete(next) BY <1>6, <1>8, <2>1, <2>2 DEF Complete
  <2> QED BY <1>2, <1>11, <2>3, OneReads
<1> QED BY <1>1, <1>9, <1>10, <1>11


\* The oldest page, or no answer.
LEMMA OldestReads == ASSUME Sane, ReadInv, NEW p \in Procs, Counted!ReadsOldest(p) PROVE ReadInv'
<1> DEFINE r    == cProc[p]
           live == Counted!Live(r.slug)
           page == Counted!Page(live, "oldest", 1, Counted!Limit(r))
           taken == Counted!Consume(r, page, "oldest")
<1>1. PICK answered \in BOOLEAN :
        LET read == IF answered THEN taken ELSE r.read
            left == r.total > Counted!Scanned(read)
        IN  cProc' = [cProc EXCEPT ![p] =
              IF Counted!NoBlocks(read) THEN Counted!Ended(r, read, left, left, FALSE)
              ELSE IF Counted!Scanned(read) >= r.cmd.max THEN Counted!Ended(r, read, left, FALSE, FALSE)
              ELSE [r EXCEPT !.at = "read", !.read = read, !.page = @ + 1]]
  BY Zenon DEF Counted!ReadsOldest
<1> DEFINE read == IF answered THEN taken ELSE r.read
           left == r.total > Counted!Scanned(read)
           next == [r EXCEPT !.at = "read", !.read = read, !.page = @ + 1]
<1>2. \/ \E early : cProc' = [cProc EXCEPT ![p] = Counted!Ended(r, read, left, early, FALSE)]
      \/ cProc' = [cProc EXCEPT ![p] = next]
  BY <1>1, Zenon
<1>3. Complete(r) /\ Place(r) /\ r.at = "oldest" /\ UNCHANGED cDocs
  BY DEF ReadInv, Counted!ReadsOldest, Complete, Busy
<1>4. Fields(r) \subseteq DOMAIN r /\ r.cmd \in Reads /\ r.missed = {} BY <1>3 DEF Complete, Busy
<1>5. IsFiniteSet(live) /\ live \subseteq Int BY FiniteLive
<1>6. DOMAIN r.read \subseteq DOMAIN read /\ DOMAIN read \subseteq DOMAIN r.read \cup live
  BY Consumed
<1>7. Counted!Scanned(read) = Cardinality(DOMAIN read) BY SameCard DEF Counted!Scanned
<1>8. /\ DOMAIN next = DOMAIN r /\ next.at = "read" /\ next.cmd = r.cmd /\ next.missed = r.missed
      /\ next.slug = r.slug /\ next.there = r.there /\ next.read = read
  BY <1>3, <1>4 DEF Fields
<1>9. ASSUME r.there # {}
      PROVE  /\ r.there \subseteq live /\ DOMAIN read \subseteq live
             /\ left \/ r.there \subseteq DOMAIN read
  <2>1. PICK S \in SUBSET live : /\ Cardinality(S) = r.total /\ r.there \subseteq S /\ DOMAIN r.read \subseteq S
                                 /\ \A j \in S, i \in live \ S : j < i
    BY <1>3, <1>9 DEF Place
  <2>2. DOMAIN read \subseteq live /\ r.there \subseteq live BY <1>6, <2>1
  <2>3. IsFiniteSet(S) /\ IsFiniteSet(DOMAIN read) BY <1>5, <2>1, <2>2, FS_Subset
  <2>4. Cardinality(S) \in Nat /\ Cardinality(DOMAIN read) \in Nat BY <2>3, FS_CardinalityType
  <2> SUFFICES ASSUME ~left PROVE S \subseteq DOMAIN read BY <2>1, <2>2
  <2>5. Cardinality(S) <= Cardinality(DOMAIN read) BY <1>7, <2>1, <2>4
  <2>6. CASE answered
    <3>1. Counted!Limit(r) \in Int /\ r.cmd.max \in Nat BY <1>4 DEF Sane, Counted!Limit, Counted!AtMost
    <3>2. read = taken BY <2>6
    <3> HIDE DEF live
    <3> QED BY <1>5, <2>1, <2>5, <3>1, <3>2, BothEnds
  <2>7. CASE ~answered
    <3>1. read = r.read BY <2>7
    <3> HIDE DEF read, left, live
    <3> QED BY <2>1, <2>3, <2>5, <3>1, AllThere
  <2> QED BY <2>6, <2>7
<1> HIDE DEF next, read, left, live
<1>10. ASSUME NEW early, cProc' = [cProc EXCEPT ![p] = Counted!Ended(r, read, left, early, FALSE)]
       PROVE  ReadInv'
  <2>1. Complete(Counted!Ended(r, read, left, early, FALSE)) BY <1>3, <1>9, EndsWell
  <2> QED BY <1>3, <1>10, <2>1, OneReads
<1>11. CASE cProc' = [cProc EXCEPT ![p] = next]
  <2>1. Place(next) BY <1>8, <1>9 DEF Place, live
  <2>2. Fields(next) \subseteq DOMAIN next BY <1>3, <1>4, <1>8 DEF Fields
  <2>3. Complete(next) BY <1>4, <1>8, <2>1, <2>2 DEF Complete
  <2> QED BY <1>3, <1>11, <2>3, OneReads
<1> QED BY <1>2, <1>10, <1>11

LEMMA FailsReads == ASSUME Sane, ReadInv, NEW p \in Procs, Counted!ReadFails(p) PROVE ReadInv'
<1>1. cProc' = [cProc EXCEPT ![p] = Counted!Ended(cProc[p], cProc[p].read, FALSE, FALSE, TRUE)]
  BY DEF Counted!ReadFails, ReadInv
<1>2. Complete(cProc[p]) /\ cProc[p].at = "read" /\ UNCHANGED cDocs BY DEF Counted!ReadFails, ReadInv
<1> QED BY <1>1, <1>2, EndsWell, OneReads

\* A document that is stored is there from then on, after all that are.
LEMMA StoresReads ==
  ASSUME Sane, ReadInv, NEW s \in Slugs, NEW i \in Ids, NEW L \in Layouts[s], Counted!Stores(s, i, L),
         i \in Counted!Live(s) \/ \A j \in Ids : j >= i => cDocs[s][j] = Nil
  PROVE  /\ cDocs' = [t \in Slugs |-> [j \in Ids |-> cDocs'[t][j]]]
         /\ \A r : Complete(r) => Complete(r)'
<1>1. cDocs' = [cDocs EXCEPT ![s][i] = L] /\ L \notin {Nil, Deleted} BY DEF Counted!Stores, Sane
<1>2. \A t : cDocs'[t] = IF t = s THEN [cDocs[s] EXCEPT ![i] = L] ELSE cDocs[t]
  BY <1>1 DEF ReadInv
<1>3. ASSUME NEW t
      PROVE  /\ Counted!Live(t) \subseteq Counted!Live(t)'
             /\ \A j \in Counted!Live(t), k \in Counted!Live(t)' \ Counted!Live(t) : j < k
  <2>1. CASE t # s BY <1>2, <2>1 DEF Counted!Live
  <2>2. CASE t = s
    <3>1. ASSUME NEW j \in Ids PROVE cDocs'[s][j] = IF j = i THEN L ELSE cDocs[s][j]
      BY <1>2, <3>1 DEF ReadInv
    <3>2. Counted!Live(s)' = Counted!Live(s) \cup {i} BY <1>1, <3>1 DEF Counted!Live
    <3>3. ASSUME i \notin Counted!Live(s), NEW j \in Counted!Live(s) PROVE j < i
      BY <3>3 DEF Counted!Live, Sane
    <3> QED BY <2>2, <3>2, <3>3
  <2> QED BY <2>1, <2>2
<1>4. cDocs' = [t \in Slugs |-> [j \in Ids |-> cDocs'[t][j]]]
  <2>1. cDocs[s] = [j \in Ids |-> cDocs[s][j]] BY DEF ReadInv
  <2>2. [cDocs[s] EXCEPT ![i] = L] = [j \in Ids |-> [cDocs[s] EXCEPT ![i] = L][j]] BY <2>1
  <2>3. \A t \in Slugs : cDocs[t] = [j \in Ids |-> cDocs[t][j]] BY DEF ReadInv
  <2>4. \A t \in Slugs : cDocs'[t] = [j \in Ids |-> cDocs'[t][j]] BY <1>2, <2>2, <2>3
  <2>5. cDocs' = [t \in Slugs |-> cDocs'[t]] BY <1>1 DEF ReadInv
  <2> QED BY <2>4, <2>5
<1>5. ASSUME NEW r, Place(r) PROVE Place(r)'
  <2> SUFFICES ASSUME r.there # {} PROVE Place(r)'
    BY DEF Place
  <2>1. r.at = "read" => /\ r.there \subseteq Counted!Live(r.slug)'
                         /\ DOMAIN r.read \subseteq Counted!Live(r.slug)'
    BY <1>3, <1>5 DEF Place
  <2>2. ASSUME r.at = "oldest"
        PROVE  \E S \in SUBSET Counted!Live(r.slug)' :
                 /\ Cardinality(S) = r.total /\ r.there \subseteq S /\ DOMAIN r.read \subseteq S
                 /\ \A j \in S, k \in Counted!Live(r.slug)' \ S : j < k
    <3>1. PICK S \in SUBSET Counted!Live(r.slug) :
            /\ Cardinality(S) = r.total /\ r.there \subseteq S /\ DOMAIN r.read \subseteq S
            /\ \A j \in S, k \in Counted!Live(r.slug) \ S : j < k
      BY <1>5, <2>2 DEF Place
    <3>2. S \in SUBSET Counted!Live(r.slug)' BY <1>3
    <3>3. \A j \in S, k \in Counted!Live(r.slug)' \ S : j < k BY <1>3, <3>1
    <3> WITNESS S \in SUBSET Counted!Live(r.slug)'
    <3> QED BY <3>1, <3>3
  <2> QED BY <2>1, <2>2 DEF Place
<1> QED BY <1>4, <1>5 DEF Complete

\* Other editors create nothing of their own; what they delete is not missed.
LEMMA EditsReads == ASSUME Sane, ReadInv, Counted!Edits PROVE ReadInv'
<1>0. PICK s \in Slugs : \E i \in Counted!Live(s) :
        \/ \E L \in Layouts[s] : Counted!Stores(s, i, L) /\ UNCHANGED cProc
        \/ /\ cDocs' = [cDocs EXCEPT ![s][i] = Deleted]
           /\ cProc' = [p \in Procs |-> IF cProc[p].at \in {"read", "oldest"} /\ cProc[p].slug = s
                                        THEN [cProc[p] EXCEPT !.there = {}] ELSE cProc[p]]
  BY DEF Counted!Edits
<1>1. PICK i \in Counted!Live(s) :
        \/ \E L \in Layouts[s] : Counted!Stores(s, i, L) /\ UNCHANGED cProc
        \/ /\ cDocs' = [cDocs EXCEPT ![s][i] = Deleted]
           /\ cProc' = [p \in Procs |-> IF cProc[p].at \in {"read", "oldest"} /\ cProc[p].slug = s
                                        THEN [cProc[p] EXCEPT !.there = {}] ELSE cProc[p]]
  BY <1>0
<1>2. CASE \E L \in Layouts[s] : Counted!Stores(s, i, L) /\ UNCHANGED cProc
  <2>1. PICK L \in Layouts[s] : Counted!Stores(s, i, L) /\ UNCHANGED cProc BY <1>2
  <2>2. i \in Ids BY DEF Counted!Live
  <2>3. /\ cDocs' = [t \in Slugs |-> [j \in Ids |-> cDocs'[t][j]]]
        /\ \A r : Complete(r) => Complete(r)'
    BY <2>1, <2>2, StoresReads
  <2>4. \A p \in Procs : Complete(cProc[p])'
    <3> TAKE p \in Procs
    <3>1. cProc'[p] = cProc[p] /\ Complete(cProc[p]) BY <2>1 DEF ReadInv
    <3> QED BY <2>3, <3>1 DEF Complete, Place, Counted!Live
  <2> QED BY <2>1, <2>3, <2>4 DEF ReadInv
<1>3. CASE /\ cDocs' = [cDocs EXCEPT ![s][i] = Deleted]
           /\ cProc' = [p \in Procs |-> IF cProc[p].at \in {"read", "oldest"} /\ cProc[p].slug = s
                                        THEN [cProc[p] EXCEPT !.there = {}] ELSE cProc[p]]
  <2>1. cDocs' = [t \in Slugs |-> [j \in Ids |-> cDocs'[t][j]]] /\ \A t : t # s => cDocs'[t] = cDocs[t]
    <3>1. \A t : cDocs'[t] = IF t = s THEN [cDocs[s] EXCEPT ![i] = Deleted] ELSE cDocs[t]
      BY <1>3 DEF ReadInv
    <3>2. cDocs[s] = [j \in Ids |-> cDocs[s][j]] BY DEF ReadInv
    <3>3. [cDocs[s] EXCEPT ![i] = Deleted] = [j \in Ids |-> [cDocs[s] EXCEPT ![i] = Deleted][j]] BY <3>2
    <3>4. \A t \in Slugs : cDocs[t] = [j \in Ids |-> cDocs[t][j]] BY DEF ReadInv
    <3>5. \A t \in Slugs : cDocs'[t] = [j \in Ids |-> cDocs'[t][j]] BY <3>1, <3>3, <3>4
    <3>6. cDocs' = [t \in Slugs |-> cDocs'[t]] BY <1>3 DEF ReadInv
    <3> QED BY <3>1, <3>5, <3>6
  <2>2. \A p \in Procs : Complete(cProc[p])'
    <3> TAKE p \in Procs
    <3>1. Complete(cProc[p]) BY DEF ReadInv
    <3>2. CASE cProc[p].at \in {"read", "oldest"} /\ cProc[p].slug = s
      <4> DEFINE x == [cProc[p] EXCEPT !.there = {}]
      <4>1. cProc'[p] = x BY <1>3, <3>2
      <4>2. Fields(cProc[p]) \subseteq DOMAIN cProc[p] BY <3>1, <3>2 DEF Complete, Busy
      <4>3. /\ DOMAIN x = DOMAIN cProc[p] /\ x.at = cProc[p].at /\ x.cmd = cProc[p].cmd
            /\ x.missed = cProc[p].missed /\ x.there = {}
        BY <3>2, <4>2 DEF Fields
      <4> HIDE DEF x
      <4> QED BY <3>1, <4>1, <4>2, <4>3 DEF Complete, Place, Fields
    <3>3. CASE ~(cProc[p].at \in {"read", "oldest"} /\ cProc[p].slug = s)
      <4>1. cProc'[p] = cProc[p] BY <1>3, <3>3
      <4>2. cProc[p].at \in Busy \ {"build"} => Counted!Live(cProc[p].slug)' = Counted!Live(cProc[p].slug)
        BY <2>1, <3>3, <4>1 DEF Counted!Live, Busy
      <4> QED BY <3>1, <4>1, <4>2 DEF Complete, Place, Busy
    <3> QED BY <3>2, <3>3
  <2>3. cProc' = [p \in Procs |-> cProc'[p]] BY <1>3
  <2> QED BY <2>1, <2>2, <2>3 DEF ReadInv
<1> QED BY <1>1, <1>2, <1>3

LEMMA WritesReads == ASSUME Sane, ReadInv, NEW p \in Procs, Counted!Writes(p) PROVE ReadInv'
<1>1. PICK s \in Slugs, i \in Ids : \E L \in Layouts[s] :
        /\ i \in Counted!Live(s) \/ \A j \in Ids : j >= i => cDocs[s][j] = Nil
        /\ Counted!Stores(s, i, L)
        /\ cProc' = [cProc EXCEPT ![p] = [at |-> "fold", slug |-> s, id |-> i, echo |-> L]]
  BY DEF Counted!Writes
<1>2. PICK L \in Layouts[s] :
        /\ i \in Counted!Live(s) \/ \A j \in Ids : j >= i => cDocs[s][j] = Nil
        /\ Counted!Stores(s, i, L)
        /\ cProc' = [cProc EXCEPT ![p] = [at |-> "fold", slug |-> s, id |-> i, echo |-> L]]
  BY <1>1
<1>3. /\ cDocs' = [t \in Slugs |-> [j \in Ids |-> cDocs'[t][j]]]
      /\ \A r : Complete(r) => Complete(r)'
  BY <1>2, StoresReads
<1>4. Complete([at |-> "fold", slug |-> s, id |-> i, echo |-> L]) BY DEF Complete, Busy
<1>5. \A q \in Procs : Complete(cProc'[q]) BY <1>2, <1>4 DEF ReadInv
<1>6. \A q \in Procs : Complete(cProc[q])'
  <2> TAKE q \in Procs
  <2>1. Complete(cProc'[q]) BY <1>5
  <2> QED BY <1>3, <2>1 DEF Complete, Place, Counted!Live
<1>7. cProc' = [q \in Procs |-> cProc'[q]] BY <1>2 DEF ReadInv
<1> QED BY <1>3, <1>6, <1>7 DEF ReadInv

LEMMA ReadStep == ASSUME Sane, ReadInv, Counted!Next PROVE ReadInv'
<1>1. CASE UNCHANGED <<cDocs, cProc>>
  BY <1>1 DEF ReadInv, Complete, Place, Counted!Live
<1>2. ASSUME NEW p \in Procs, UNCHANGED cDocs, cProc' = [cProc EXCEPT ![p] = Counted!Idle] PROVE ReadInv'
  BY <1>2, IdleReads, OneReads
<1>3. ASSUME NEW p \in Procs, Counted!Persists(p) PROVE ReadInv' BY <1>2, <1>3 DEF Counted!Persists
<1>4. ASSUME NEW p \in Procs, Counted!Folds(p) PROVE ReadInv' BY <1>2, <1>4 DEF Counted!Folds
<1>5. ASSUME NEW p \in Procs, Counted!Crashes(p) PROVE ReadInv' BY <1>2, <1>5 DEF Counted!Crashes
<1>6. CASE Counted!Clears BY <1>1, <1>6 DEF Counted!Clears
<1>7. CASE Counted!Tick BY <1>1, <1>7 DEF Counted!Tick
<1>8. CASE Counted!Edits BY <1>8, EditsReads
<1> QED
  BY <1>3, <1>4, <1>5, <1>6, <1>7, <1>8, EnsuresReads, StartsReads, PageReads, OldestReads, FailsReads,
     WritesReads DEF Counted!Next

LEMMA ReadsSay == ReadInv => Counted!ReadsComplete
BY DEF ReadInv, Complete, Busy, Counted!ReadsComplete

\* A read that does not call itself truncated has every document that was there when it began
\* and was not deleted meanwhile, for any documents, page size and budget, and whatever is
\* created, edited or deleted between its pages (readCollection, census_fetch.go).
THEOREM ReadsAreComplete == ASSUME Sane PROVE Counted!Spec => []Counted!ReadsComplete
<1>1. Counted!Init => ReadInv BY CompleteInit
<1>2. ReadInv /\ [Counted!Next]_Counted!vars => ReadInv'
  <2>1. ASSUME ReadInv, UNCHANGED Counted!vars PROVE ReadInv'
    BY <2>1 DEF ReadInv, Complete, Place, Counted!Live, Counted!vars
  <2> QED BY <2>1, ReadStep
<1>3. ReadInv => Counted!ReadsComplete BY ReadsSay
<1> QED BY <1>1, <1>2, <1>3, PTL DEF Counted!Spec


-----------------------------------------------------------------------------
(* What the census counts, and that a row the server holds is no anomaly.   *)

\* What the counting relies on: there are numbers of values, and "no key" is none of them.
Countable == IsFiniteSet(Values) /\ Values \subseteq Int /\ MaxValues \in Nat /\ Counted!NoKey \notin Values

\* A layout is finite, the types nested in it are types, and of a field of its rows no more
\* values are in it than a vocabulary may have.
Inners(R) == \A n \in DOMAIN R : R[n].type \in Types => IsFiniteSet(DOMAIN R[n].inner)

Form(L) ==
  /\ IsFiniteSet(DOMAIN L) /\ Inners(L)
  /\ \A n \in DOMAIN L : L[n].type \in Types => \A m \in DOMAIN L[n].inner : L[n].inner[m] \in Types
  /\ \A t \in Types : Cardinality({v \in Values : \E n \in Counted!OfType(L, t) : L[n].style = v}) <= MaxValues

\* A field as it is counted over so many rows, and an entity.
FieldType ==
  [present : Nat, filled : Nat, values : [Values -> Nat], distinct : Nat, enum : BOOLEAN, optional : BOOLEAN]

On(f, rows) == f \in FieldType /\ f.filled <= f.present /\ f.present <= rows

Counts(e) ==
  /\ e.paths \in [{Counted!Top, Counted!Nested} -> [Types -> Nat]] /\ e.count \in [Types -> Nat]
  /\ e.accepts \in [Types -> [Types -> Nat]]
  /\ DOMAIN e.style = Types /\ \A t \in Types : On(e.style[t], e.count[t])

Fit(e) == {"paths", "count", "style", "accepts", "keys", "folded"} \subseteq DOMAIN e /\ Counts(e)

LEMMA UnionFinite ==
  ASSUME NEW S, IsFiniteSet(S), NEW f, DOMAIN f = S, \A x \in S : IsFiniteSet(f[x])
  PROVE  IsFiniteSet(UNION {f[x] : x \in S})
<1> DEFINE T == {f[x] : x \in S}
           g == [x \in S |-> f[x]]
<1>1. g \in Surjection(S, T) BY DEF Surjection
<1>2. IsFiniteSet(T) BY <1>1, FS_Surjection
<1>3. \A X \in T : IsFiniteSet(X) OBVIOUS
<1> HIDE DEF T
<1>4. IsFiniteSet(UNION T) BY <1>2, <1>3, FS_UNION
<1> QED BY <1>4 DEF T

\* A set one element of which is missing is smaller.
LEMMA Smaller ==
  ASSUME NEW S, NEW T, IsFiniteSet(S), T \subseteq S, NEW x \in S, x \notin T
  PROVE  IsFiniteSet(T) /\ Cardinality(T) \in Nat /\ Cardinality(S) \in Nat /\ Cardinality(T) < Cardinality(S)
<1>1. IsFiniteSet(T) /\ Cardinality(T) <= Cardinality(S) /\ Cardinality(T) # Cardinality(S) BY FS_Subset
<1>2. Cardinality(T) \in Nat /\ Cardinality(S) \in Nat BY <1>1, FS_CardinalityType
<1> QED BY <1>1, <1>2

LEMMA Some ==
  ASSUME NEW S, IsFiniteSet(S)
  PROVE  Cardinality(S) \in Nat /\ (S # {} => Cardinality(S) >= 1)
BY FS_CardinalityType, FS_EmptySet

\* No value is lost of those a vocabulary has room for.
LEMMA RankedKeeps ==
  ASSUME Countable, NEW counts \in [Values -> Nat]
  PROVE  /\ Counted!Ranked(counts) \in [Values -> Nat]
         /\ Cardinality({v \in Values : counts[v] > 0}) <= MaxValues =>
              \A v \in Values : counts[v] > 0 => Counted!Ranked(counts)[v] = counts[v]
<1> DEFINE before(v) == {w \in Values : counts[w] > counts[v] \/ (counts[w] = counts[v] /\ w < v)}
           has == {v \in Values : counts[v] > 0}
<1>1. Counted!Ranked(counts) = [v \in Values |-> IF Cardinality(before(v)) < MaxValues THEN counts[v] ELSE 0]
  BY SameCard DEF Counted!Ranked
<1>2. ASSUME Cardinality(has) <= MaxValues, NEW v \in Values, counts[v] > 0
      PROVE  Cardinality(before(v)) < MaxValues
  <2>1. IsFiniteSet(has) BY FS_Subset DEF Countable
  <2>2. before(v) \subseteq has BY <1>2
  <2>3. v \in has /\ v \notin before(v) BY <1>2 DEF Countable
  <2> HIDE DEF before, has
  <2>4. /\ Cardinality(before(v)) \in Nat /\ Cardinality(has) \in Nat
        /\ Cardinality(before(v)) < Cardinality(has)
    BY <2>1, <2>2, <2>3, Smaller
  <2> QED BY <1>2, <2>4 DEF Countable
<1> HIDE DEF before
<1> QED BY <1>1, <1>2

LEMMA DemotedOn ==
  ASSUME NEW f, NEW n, On(f, n), NEW persist
  PROVE  On(Counted!Demoted(f, persist), n) /\ ~Counted!Demoted(f, persist).enum
         /\ Counted!Demoted(f, persist).present = f.present /\ Counted!Demoted(f, persist).filled = f.filled
         /\ Counted!Demoted(f, persist).optional = f.optional
BY DEF On, FieldType, Counted!Demoted

LEMMA ClampedOn ==
  ASSUME NEW f, NEW m, On(f, m), NEW n \in Nat
  PROVE  On(Counted!Clamped(f, n), n) /\ Counted!Clamped(f, n).enum = f.enum
         /\ Counted!Clamped(f, n).optional
         /\ (f.present > 0 /\ n > 0 => Counted!Clamped(f, n).present > 0)
<1> DEFINE p == IF f.present > n THEN n ELSE f.present
           l == IF f.filled > n THEN n ELSE f.filled
<1>1. Counted!Clamped(f, n) = [f EXCEPT !.present = p, !.filled = l, !.optional = TRUE]
  BY DEF Counted!Clamped, Counted!AtMost
<1>2. /\ p \in Nat /\ l \in Nat /\ l <= p /\ p <= n
      /\ f.present > 0 /\ n > 0 => p > 0
  BY DEF On, FieldType
<1> HIDE DEF p, l
<1> QED BY <1>1, <1>2 DEF On, FieldType

\* A vocabulary that is one still after a document was laid over it has what is in that.
LEMMA JoinedOn ==
  ASSUME Countable, NEW a \in FieldType, NEW b \in FieldType, NEW persist \in BOOLEAN, NEW counting \in BOOLEAN
  PROVE  LET f == Counted!Joined(a, b, persist, counting)
         IN  /\ f \in FieldType /\ f.present = a.present /\ f.filled = a.filled /\ f.optional = a.optional
             /\ f.enum /\ ~persist => \A v \in Values : b.values[v] > 0 => f.values[v] > 0
<1> DEFINE all == [v \in Values |->
                     IF a.values[v] > 0 THEN a.values[v] + IF counting THEN b.values[v] ELSE 0
                     ELSE IF persist /\ ~a.enum /\ b.values[v] < 2 THEN 0 ELSE b.values[v]]
           has == {v \in Values : all[v] > 0}
           size == Cardinality(has)
           f == Counted!Joined(a, b, persist, counting)
<1>1. f = [a EXCEPT !.values = Counted!Ranked(all), !.enum = @ /\ size <= MaxValues,
                    !.distinct = IF size > @ THEN size ELSE @]
  BY SameCard, Zenon DEF Counted!Joined
<1>2. all \in [Values -> Nat] BY DEF FieldType
<1>3. size \in Nat
  <2>1. IsFiniteSet(has) BY FS_Subset DEF Countable
  <2> HIDE DEF has
  <2> QED BY <2>1, FS_CardinalityType
<1>4. /\ Counted!Ranked(all) \in [Values -> Nat]
      /\ size <= MaxValues => \A v \in Values : all[v] > 0 => Counted!Ranked(all)[v] = all[v]
  <2> HIDE DEF all
  <2> QED BY <1>2, RankedKeeps
<1>5. \A v \in Values : ~persist /\ b.values[v] > 0 => all[v] > 0 BY DEF FieldType
<1> HIDE DEF all, size, has, f
<1>6. /\ f \in FieldType /\ f.present = a.present /\ f.filled = a.filled /\ f.optional = a.optional
      /\ f.values = Counted!Ranked(all) /\ (f.enum => size <= MaxValues)
  BY <1>1, <1>3, <1>4 DEF FieldType
<1>7. ASSUME f.enum, ~persist, NEW v \in Values, b.values[v] > 0 PROVE f.values[v] > 0
  BY <1>4, <1>5, <1>6, <1>7
<1> QED BY <1>6, <1>7 DEF f


\* What is told of a field once a document was laid over it: what is in the document is there,
\* and a row of it that leaves the field empty shows that it may be.
Shows(f, rows, b, more, persist) ==
  /\ b.present > 0 => f.present > 0
  /\ b.present > 0 /\ f.enum /\ ~persist => \A v \in Values : b.values[v] > 0 => f.values[v] > 0
  /\ b.filled < more => f.optional \/ f.filled < rows

LEMMA AddedOn ==
  ASSUME Countable, NEW a, NEW n \in Nat, On(a, n), NEW b, NEW m \in Nat, On(b, m), NEW persist \in BOOLEAN
  PROVE  /\ On(Counted!AddField(a, b, persist), n + m)
         /\ Shows(Counted!AddField(a, b, persist), n + m, b, m, persist)
<1>1. CASE a.present = 0
  <2>1. Counted!AddField(a, b, persist) = Counted!Demoted(b, persist) BY <1>1 DEF Counted!AddField
  <2> DEFINE d == Counted!Demoted(b, persist)
  <2>2. On(d, m) /\ ~d.enum /\ d.present = b.present /\ d.filled = b.filled BY DemotedOn
  <2> HIDE DEF d
  <2> QED BY <2>1, <2>2 DEF On, FieldType, Shows, d
<1>2. CASE a.present # 0
  <2> DEFINE j == Counted!Joined(a, b, persist, TRUE)
  <2>1. Counted!AddField(a, b, persist) = [j EXCEPT !.present = @ + b.present, !.filled = @ + b.filled]
    BY <1>2 DEF Counted!AddField
  <2>2. /\ j \in FieldType /\ j.present = a.present /\ j.filled = a.filled /\ j.optional = a.optional
        /\ j.enum /\ ~persist => \A v \in Values : b.values[v] > 0 => j.values[v] > 0
    BY JoinedOn DEF On
  <2> HIDE DEF j
  <2> DEFINE x == [j EXCEPT !.present = @ + b.present, !.filled = @ + b.filled]
  <2>4. a.present > 0 /\ a.present \in Nat /\ a.filled \in Nat /\ b.present \in Nat /\ b.filled \in Nat
    BY <1>2 DEF On, FieldType
  <2>3. /\ x \in FieldType /\ x.present = a.present + b.present /\ x.filled = a.filled + b.filled
        /\ x.enum = j.enum /\ x.values = j.values /\ x.optional = j.optional
    <3>1. j.present + b.present \in Nat /\ j.filled + b.filled \in Nat BY <2>2, <2>4
    <3>2. x \in FieldType BY <2>2, <3>1 DEF FieldType
    <3>3. x.present = j.present + b.present /\ x.filled = j.filled + b.filled BY <2>2 DEF FieldType
    <3>4. x.enum = j.enum /\ x.values = j.values /\ x.optional = j.optional BY <2>2 DEF FieldType
    <3> HIDE DEF x
    <3> QED BY <2>2, <3>2, <3>3, <3>4
  <2> HIDE DEF x
  <2>5. On(x, n + m) BY <2>3, <2>4 DEF On
  <2>6. Shows(x, n + m, b, m, persist) BY <2>2, <2>3, <2>4 DEF On, Shows
  <2> QED BY <2>1, <2>5, <2>6 DEF x
<1> QED BY <1>1, <1>2

LEMMA RefreshedOn ==
  ASSUME Countable, NEW a, NEW n \in Nat, n > 0, On(a, n), NEW b, NEW m \in Nat, On(b, m), NEW persist \in BOOLEAN
  PROVE  /\ On(Counted!RefreshField(a, n, b, m, persist), n)
         /\ Shows(Counted!RefreshField(a, n, b, m, persist), n, b, m, persist)
<1>1. CASE a.present = 0 /\ b.present = 0
  <2>1. Counted!RefreshField(a, n, b, m, persist) = a BY <1>1 DEF Counted!RefreshField
  <2> QED BY <1>1, <2>1 DEF On, FieldType, Shows
<1>2. CASE a.present = 0 /\ b.present # 0
  <2> DEFINE d == Counted!Demoted(b, persist)
             c == Counted!Clamped(d, n)
  <2>1. Counted!RefreshField(a, n, b, m, persist) = c BY <1>2 DEF Counted!RefreshField
  <2>2. On(d, m) /\ ~d.enum /\ d.present = b.present BY DemotedOn
  <2>3. d.present > 0 BY <1>2, <2>2 DEF On, FieldType
  <2> HIDE DEF d
  <2>4. On(c, n) /\ c.enum = d.enum /\ c.optional /\ c.present > 0 BY <2>2, <2>3, ClampedOn
  <2> HIDE DEF c
  <2> QED BY <2>1, <2>2, <2>4 DEF Shows
<1>3. CASE a.present # 0
  <2> DEFINE j == Counted!Joined(a, b, persist, FALSE)
             x == [j EXCEPT !.optional = @ \/ b.filled < m]
  <2>1. Counted!RefreshField(a, n, b, m, persist) = x BY <1>3 DEF Counted!RefreshField
  <2>2. /\ j \in FieldType /\ j.present = a.present /\ j.filled = a.filled
        /\ j.enum /\ ~persist => \A v \in Values : b.values[v] > 0 => j.values[v] > 0
    BY JoinedOn DEF On
  <2> HIDE DEF j
  <2>3. /\ x \in FieldType /\ x.present = j.present /\ x.filled = j.filled
        /\ x.enum = j.enum /\ x.values = j.values /\ x.optional = (j.optional \/ b.filled < m)
    BY <2>2 DEF FieldType
  <2>4. a.present > 0 BY <1>3 DEF On, FieldType
  <2> HIDE DEF x
  <2>5. On(x, n) BY <2>2, <2>3 DEF On
  <2>6. Shows(x, n, b, m, persist) BY <2>2, <2>3, <2>4 DEF Shows
  <2> QED BY <2>1, <2>5, <2>6
<1> QED BY <1>1, <1>2, <1>3

-----------------------------------------------------------------------------
\* All the nested rows of a list of rows.
Pairs(R) == UNION {{n} \X DOMAIN R[n].inner : n \in {k \in DOMAIN R : R[k].type \in Types}}

LEMMA PairsFinite ==
  ASSUME NEW R, IsFiniteSet(DOMAIN R), Inners(R)
  PROVE  /\ IsFiniteSet(Pairs(R))
         /\ \A t \in Types : \A u : Counted!Under(R, t, u) \subseteq Pairs(R)
         /\ \A t : IsFiniteSet(Counted!OfType(R, t))
<1> DEFINE S == {k \in DOMAIN R : R[k].type \in Types}
           f == [n \in S |-> {n} \X DOMAIN R[n].inner]
<1>1. IsFiniteSet(S) BY FS_Subset
<1>2. ASSUME NEW n \in S PROVE IsFiniteSet(f[n])
  <2>1. IsFiniteSet({n}) /\ IsFiniteSet(DOMAIN R[n].inner) BY FS_Singleton DEF Inners
  <2>2. IsFiniteSet({n} \X DOMAIN R[n].inner) BY <2>1, FS_Product
  <2> QED BY <2>2
<1>3. DOMAIN f = S /\ Pairs(R) = UNION {f[n] : n \in S} BY DEF Pairs
<1>4. IsFiniteSet(Pairs(R))
  <2> HIDE DEF f, S
  <2> QED BY <1>1, <1>2, <1>3, UnionFinite
<1>5. \A t \in Types : \A u : Counted!Under(R, t, u) \subseteq Pairs(R)
  BY DEF Counted!Under, Counted!OfType, Pairs
<1>6. \A t : IsFiniteSet(Counted!OfType(R, t)) BY FS_Subset DEF Counted!OfType
<1> QED BY <1>4, <1>5, <1>6


\* A field is filled in on no more rows than have it, and these are rows of the type.
LEMMA FieldOn ==
  ASSUME Countable, NEW R, IsFiniteSet(DOMAIN R), Inners(R), NEW t, NEW keep \in BOOLEAN
  PROVE  LET rows == Counted!OfType(R, t)
             f == Counted!Field(R, t, keep)
             counts == [v \in Values |-> Cardinality({n \in rows : R[n].style = v})]
         IN  /\ On(f, Cardinality(rows))
             /\ f.present = Cardinality({n \in rows : R[n].style # Counted!NoKey})
             /\ f.filled = Cardinality({n \in rows : R[n].style \in Values})
             /\ keep => f.values = Counted!Ranked(counts)
             /\ counts \in [Values -> Nat]
<1> DEFINE rows == Counted!OfType(R, t)
           counts == [v \in Values |-> Cardinality({n \in rows : R[n].style = v})]
           filled == Cardinality({n \in rows : R[n].style \in Values})
           present == Cardinality({n \in rows : R[n].style # Counted!NoKey})
           distinct == Cardinality({v \in Values : counts[v] > 0})
           enum == Counted!EnumLike(counts, filled)
           values == [v \in Values |-> IF enum \/ keep \/ counts[v] >= 2 THEN Counted!Ranked(counts)[v] ELSE 0]
           f == Counted!Field(R, t, keep)
<1>1. f = [present |-> present, filled |-> filled, values |-> values, distinct |-> distinct,
           enum |-> enum, optional |-> FALSE]
  BY SameCard DEF Counted!Field
<1>2. IsFiniteSet(rows) BY PairsFinite
<1>3. counts \in [Values -> Nat]
  <2>1. ASSUME NEW v \in Values PROVE Cardinality({n \in rows : R[n].style = v}) \in Nat
    <3>1. IsFiniteSet({n \in rows : R[n].style = v}) BY <1>2, FS_Subset
    <3> QED BY <3>1, FS_CardinalityType
  <2> QED BY <2>1
<1>4. filled \in Nat /\ present \in Nat /\ filled <= present /\ present <= Cardinality(rows)
  <2> DEFINE has == {n \in rows : R[n].style # Counted!NoKey}
             full == {n \in rows : R[n].style \in Values}
  <2>1. full \subseteq has /\ has \subseteq rows BY DEF Countable
  <2> HIDE DEF full, has, rows
  <2>2. IsFiniteSet(has) /\ Cardinality(has) <= Cardinality(rows) BY <1>2, <2>1, FS_Subset
  <2>3. IsFiniteSet(full) /\ Cardinality(full) <= Cardinality(has) BY <2>1, <2>2, FS_Subset
  <2>4. Cardinality(full) \in Nat /\ Cardinality(has) \in Nat BY <2>2, <2>3, FS_CardinalityType
  <2> QED BY <2>2, <2>3, <2>4 DEF full, has
<1>5. distinct \in Nat
  <2>1. IsFiniteSet({v \in Values : counts[v] > 0}) BY FS_Subset DEF Countable
  <2> QED BY <2>1, FS_CardinalityType
<1>6. enum \in BOOLEAN BY DEF Counted!EnumLike
<1> HIDE DEF rows, counts, filled, present, distinct, enum
<1>7. Counted!Ranked(counts) \in [Values -> Nat] BY <1>3, RankedKeeps
<1>8. values \in [Values -> Nat] BY <1>7
<1>9. keep => values = Counted!Ranked(counts) BY <1>7
<1> HIDE DEF values, f
<1>10. f \in FieldType BY <1>1, <1>4, <1>5, <1>6, <1>8 DEF FieldType
<1>11. On(f, Cardinality(rows)) /\ f.present = present /\ f.filled = filled /\ f.values = values
  BY <1>1, <1>4, <1>10 DEF On
<1> QED BY <1>3, <1>9, <1>11 DEF rows, counts, filled, present, f

LEMMA CountFits ==
  ASSUME Countable, NEW R, IsFiniteSet(DOMAIN R), Inners(R), NEW keep \in BOOLEAN
  PROVE  Counts(Counted!Count(R, keep))
<1> DEFINE e == Counted!Count(R, keep)
           top(t) == Cardinality(Counted!OfType(R, t))
           under(t) == UNION {Counted!Under(R, u, t) : u \in Types}
           nested(t) == Cardinality(under(t))
<1>1. e = [paths   |-> [w \in {Counted!Top, Counted!Nested} |->
                         [t \in Types |-> IF w = Counted!Top THEN top(t) ELSE nested(t)]],
           count   |-> [t \in Types |-> top(t) + nested(t)],
           style   |-> [t \in Types |-> Counted!Field(R, t, keep)],
           accepts |-> [t \in Types |-> [u \in Types |-> Cardinality(Counted!Under(R, t, u))]]]
  BY SameCard DEF Counted!Count
<1>2. ASSUME NEW t \in Types
      PROVE  top(t) \in Nat /\ nested(t) \in Nat /\ \A u \in Types : Cardinality(Counted!Under(R, t, u)) \in Nat
  <2>1. IsFiniteSet(Counted!OfType(R, t)) BY PairsFinite
  <2>2. IsFiniteSet(Pairs(R)) /\ under(t) \subseteq Pairs(R) BY PairsFinite
  <2>3. IsFiniteSet(under(t)) BY <2>2, FS_Subset
  <2>4. ASSUME NEW u \in Types PROVE IsFiniteSet(Counted!Under(R, t, u))
    <3>1. Counted!Under(R, t, u) \subseteq Pairs(R) BY PairsFinite
    <3> QED BY <2>2, <3>1, FS_Subset
  <2> HIDE DEF under
  <2> QED BY <2>1, <2>3, <2>4, FS_CardinalityType
<1>3. ASSUME NEW t \in Types PROVE On(Counted!Field(R, t, keep), top(t)) BY FieldOn
<1> HIDE DEF top, nested, under
<1>4. ASSUME NEW t \in Types PROVE On(Counted!Field(R, t, keep), top(t) + nested(t))
  BY <1>2, <1>3 DEF On, FieldType
<1>5. /\ e.paths \in [{Counted!Top, Counted!Nested} -> [Types -> Nat]] /\ e.count \in [Types -> Nat]
      /\ e.accepts \in [Types -> [Types -> Nat]]
  BY <1>1, <1>2
<1>6. DOMAIN e.style = Types /\ \A t \in Types : On(e.style[t], e.count[t])
  BY <1>1, <1>4
<1> HIDE DEF e
<1>7. Counts(e) BY <1>5, <1>6 DEF Counts
<1> QED BY <1>7 DEF e

\* What is told of the rows of one document: a row is counted as what it is.
LEMMA CountShows ==
  ASSUME Countable, NEW L, Form(L), NEW n \in DOMAIN L, L[n].type \in Types
  PROVE  LET t  == L[n].type
             ov == Counted!Count(L, TRUE)
             b  == ov.style[t]
         IN  /\ ov.paths[Counted!Top][t] > 0 /\ ov.count[t] > 0
             /\ L[n].style # Counted!NoKey => b.present > 0
             /\ L[n].style \in Values => b.present > 0 /\ b.values[L[n].style] > 0
             /\ L[n].style \notin Values => b.filled < ov.count[t]
             /\ \A m \in DOMAIN L[n].inner :
                  LET u == L[n].inner[m]
                  IN  ov.accepts[t][u] > 0 /\ ov.count[u] > 0 /\ ov.style[u].filled < ov.count[u]
<1> DEFINE t == L[n].type
           ov == Counted!Count(L, TRUE)
           rows(u) == Counted!OfType(L, u)
           top(u) == Cardinality(rows(u))
           under(u) == UNION {Counted!Under(L, w, u) : w \in Types}
           nested(u) == Cardinality(under(u))
<1>1. IsFiniteSet(DOMAIN L) /\ Inners(L) BY DEF Form
<1>2. /\ ov.paths[Counted!Top] = [u \in Types |-> top(u)]
      /\ ov.count = [u \in Types |-> top(u) + nested(u)]
      /\ ov.style = [u \in Types |-> Counted!Field(L, u, TRUE)]
      /\ ov.accepts = [u \in Types |-> [w \in Types |-> Cardinality(Counted!Under(L, u, w))]]
  BY SameCard DEF Counted!Count
<1>3. ASSUME NEW u \in Types
      PROVE  IsFiniteSet(rows(u)) /\ IsFiniteSet(under(u)) /\ top(u) \in Nat /\ nested(u) \in Nat
  <2>1. IsFiniteSet(rows(u)) BY <1>1, PairsFinite
  <2>2. IsFiniteSet(Pairs(L)) /\ under(u) \subseteq Pairs(L) BY <1>1, PairsFinite
  <2>3. IsFiniteSet(under(u)) BY <2>2, FS_Subset
  <2> HIDE DEF under, rows
  <2> QED BY <2>1, <2>3, FS_CardinalityType
<1>4. n \in rows(t) BY DEF Counted!OfType
<1>5. top(t) >= 1
  <2> HIDE DEF rows
  <2> QED BY <1>3, <1>4, Some
<1>6. /\ ov.paths[Counted!Top][t] > 0 /\ ov.count[t] > 0
  <2>1. ov.paths[Counted!Top][t] = top(t) /\ ov.count[t] = top(t) + nested(t) BY <1>2
  <2>2. top(t) \in Nat /\ nested(t) \in Nat BY <1>3
  <2> HIDE DEF ov
  <2> QED BY <1>5, <2>1, <2>2
<1> DEFINE b == ov.style[t]
           counts == [v \in Values |-> Cardinality({k \in rows(t) : L[k].style = v})]
<1>7. b = Counted!Field(L, t, TRUE) BY <1>2
<1>8. /\ b.present = Cardinality({k \in rows(t) : L[k].style # Counted!NoKey})
      /\ b.filled = Cardinality({k \in rows(t) : L[k].style \in Values})
      /\ b.values = Counted!Ranked(counts) /\ counts \in [Values -> Nat]
  <2> HIDE DEF b
  <2> QED BY <1>1, <1>7, FieldOn, Zenon
<1>9. ASSUME L[n].style # Counted!NoKey PROVE b.present > 0
  <2> DEFINE has == {k \in rows(t) : L[k].style # Counted!NoKey}
  <2>1. n \in has BY <1>4, <1>9
  <2>2. IsFiniteSet(has) BY <1>3, FS_Subset
  <2>3. b.present = Cardinality(has) BY <1>8
  <2> HIDE DEF has, b
  <2> QED BY <2>1, <2>2, <2>3, Some
<1>10. ASSUME L[n].style \in Values PROVE b.present > 0 /\ b.values[L[n].style] > 0
  <2>1. L[n].style # Counted!NoKey BY <1>10 DEF Countable
  <2> DEFINE v == L[n].style
             of == {k \in rows(t) : L[k].style = v}
             has == {w \in Values : counts[w] > 0}
  <2>2. counts[v] > 0
    <3>1. n \in of BY <1>4
    <3>2. IsFiniteSet(of) BY <1>3, FS_Subset
    <3>3. counts[v] = Cardinality(of) BY <1>10
    <3> HIDE DEF of, counts, v
    <3> QED BY <3>1, <3>2, <3>3, Some
  <2>3. Cardinality(has) <= MaxValues
    <3> DEFINE met == {w \in Values : \E k \in rows(t) : L[k].style = w}
    <3>1. has \subseteq met
      <4> SUFFICES ASSUME NEW w \in Values, counts[w] > 0 PROVE \E k \in rows(t) : L[k].style = w
        OBVIOUS
      <4>1. CASE {k \in rows(t) : L[k].style = w} = {}
        <5>1. counts[w] = Cardinality({}) BY <4>1
        <5> QED BY <5>1, FS_EmptySet
      <4> QED BY <4>1
    <3>2. Cardinality(met) <= MaxValues BY DEF Form
    <3>3. IsFiniteSet(met) BY FS_Subset DEF Countable
    <3> HIDE DEF met, has
    <3>4. IsFiniteSet(has) /\ Cardinality(has) <= Cardinality(met) BY <3>1, <3>3, FS_Subset
    <3>5. Cardinality(has) \in Nat /\ Cardinality(met) \in Nat BY <3>3, <3>4, FS_CardinalityType
    <3> QED BY <3>2, <3>4, <3>5 DEF Countable
  <2>4. Counted!Ranked(counts)[v] = counts[v]
    <3> HIDE DEF counts
    <3> QED BY <1>8, <1>10, <2>2, <2>3, RankedKeeps
  <2> HIDE DEF b, counts
  <2> QED BY <1>8, <1>9, <2>1, <2>2, <2>4
<1>11. ASSUME NEW u \in Types, under(u) # {} \/ \E k \in rows(u) : L[k].style \notin Values
       PROVE  ov.count[u] > 0 /\ ov.style[u].filled < ov.count[u]
  <2> DEFINE full == {j \in rows(u) : L[j].style \in Values}
  <2>1. ov.style[u].filled = Cardinality(full)
    <3>1. ov.style[u] = Counted!Field(L, u, TRUE) BY <1>2
    <3> QED BY <1>1, <3>1, FieldOn
  <2>2. full \subseteq rows(u) BY DEF full
  <2>3. ov.count[u] = top(u) + nested(u) BY <1>2
  <2>4. IsFiniteSet(full) /\ Cardinality(full) \in Nat /\ Cardinality(full) <= top(u)
    <3>1. IsFiniteSet(full) /\ Cardinality(full) <= Cardinality(rows(u))
      <4> HIDE DEF rows, full
      <4> QED BY <1>3, <2>2, FS_Subset
    <3> QED BY <3>1, FS_CardinalityType
  <2>5. top(u) \in Nat /\ nested(u) \in Nat BY <1>3
  <2>6. CASE \E k \in rows(u) : L[k].style \notin Values
    <3>1. PICK k \in rows(u) : k \notin full BY <2>6
    <3>2. Cardinality(full) < top(u)
      <4> HIDE DEF rows, full
      <4> QED BY <1>3, <2>2, <3>1, Smaller
    <3> HIDE DEF full, ov
    <3> QED BY <2>1, <2>3, <2>4, <2>5, <3>2
  <2>7. CASE under(u) # {}
    <3>1. nested(u) >= 1
      <4> HIDE DEF under
      <4> QED BY <1>3, <2>7, Some
    <3> HIDE DEF full, ov
    <3> QED BY <2>1, <2>3, <2>4, <2>5, <3>1
  <2> QED BY <1>11, <2>6, <2>7
<1>12. ASSUME NEW m \in DOMAIN L[n].inner
       PROVE  LET u == L[n].inner[m]
              IN  ov.accepts[t][u] > 0 /\ ov.count[u] > 0 /\ ov.style[u].filled < ov.count[u]
  <2> DEFINE u == L[n].inner[m]
  <2>1. u \in Types BY DEF Form
  <2>2. <<n, m>> \in Counted!Under(L, t, u) BY <1>4 DEF Counted!Under
  <2>3. <<n, m>> \in under(u) BY <2>2
  <2>4. ov.count[u] > 0 /\ ov.style[u].filled < ov.count[u] BY <1>11, <2>1, <2>3
  <2>5. ov.accepts[t][u] = Cardinality(Counted!Under(L, t, u))
    <3> HIDE DEF ov, u
    <3> QED BY <1>2, <2>1
  <2>6. IsFiniteSet(Counted!Under(L, t, u))
    <3>1. IsFiniteSet(Pairs(L)) /\ Counted!Under(L, t, u) \subseteq Pairs(L) BY <1>1, PairsFinite
    <3> QED BY <3>1, FS_Subset
  <2> HIDE DEF ov
  <2> QED BY <2>2, <2>4, <2>5, <2>6, Some
<1>13. L[n].style \notin Values => b.filled < ov.count[t] BY <1>4, <1>11
<1> HIDE DEF ov
<1> QED BY <1>6, <1>9, <1>10, <1>12, <1>13 DEF ov


\* What was seen in a document is in the entity it was laid over.
Told(o, ov, persist) ==
  /\ \A t \in Types : ov.paths[Counted!Top][t] > 0 => o.paths[Counted!Top][t] > 0
  /\ \A t \in Types : ov.count[t] > 0 =>
       o.count[t] > 0 /\ Shows(o.style[t], o.count[t], ov.style[t], ov.count[t], persist)
  /\ \A t, u \in Types : ov.accepts[t][u] > 0 => o.accepts[t][u] > 0

LEMMA AddedFits ==
  ASSUME Countable, NEW e, Fit(e), NEW ov, Counts(ov), NEW persist \in BOOLEAN
  PROVE  Fit(Counted!Added(e, ov, persist)) /\ Told(Counted!Added(e, ov, persist), ov, persist)
<1> DEFINE o == Counted!Added(e, ov, persist)
           paths == [w \in DOMAIN e.paths |-> [t \in Types |-> e.paths[w][t] + ov.paths[w][t]]]
           count == [t \in Types |-> e.count[t] + ov.count[t]]
           style == [t \in Types |-> IF ov.count[t] = 0 THEN e.style[t]
                                     ELSE Counted!AddField(e.style[t], ov.style[t], persist)]
           accepts == [t \in Types |-> [u \in Types |-> e.accepts[t][u] + ov.accepts[t][u]]]
<1>1. o = [e EXCEPT !.paths = paths, !.count = count, !.style = style, !.accepts = accepts]
  BY Zenon DEF Counted!Added
<1>2. paths \in [{Counted!Top, Counted!Nested} -> [Types -> Nat]] /\ count \in [Types -> Nat]
      /\ accepts \in [Types -> [Types -> Nat]]
  BY DEF Fit, Counts
<1>3. ASSUME NEW t \in Types
      PROVE  /\ On(style[t], count[t])
             /\ ov.count[t] > 0 =>
                  count[t] > 0 /\ Shows(style[t], count[t], ov.style[t], ov.count[t], persist)
  <2>1. /\ e.count[t] \in Nat /\ ov.count[t] \in Nat /\ On(e.style[t], e.count[t])
        /\ On(ov.style[t], ov.count[t])
    BY DEF Fit, Counts
  <2>2. count[t] = e.count[t] + ov.count[t] OBVIOUS
  <2>3. CASE ov.count[t] = 0
    <3>1. style[t] = e.style[t] /\ count[t] = e.count[t] BY <2>1, <2>3
    <3> QED BY <2>1, <2>3, <3>1
  <2>4. CASE ov.count[t] # 0
    <3>1. style[t] = Counted!AddField(e.style[t], ov.style[t], persist) BY <2>4
    <3> HIDE DEF style, count
    <3> QED BY <2>1, <2>2, <2>4, <3>1, AddedOn
  <2> QED BY <2>3, <2>4
<1>4. \A t \in Types : /\ ov.paths[Counted!Top][t] > 0 => paths[Counted!Top][t] > 0
                       /\ \A u \in Types : ov.accepts[t][u] > 0 => accepts[t][u] > 0
  BY DEF Fit, Counts
<1>5. DOMAIN style = Types OBVIOUS
<1> HIDE DEF o, paths, count, style, accepts
<1>6. /\ DOMAIN o = DOMAIN e /\ o.paths = paths /\ o.count = count /\ o.style = style /\ o.accepts = accepts
  BY <1>1 DEF Fit
<1>7. Fit(o) BY <1>2, <1>3, <1>5, <1>6 DEF Fit, Counts
<1>8. Told(o, ov, persist) BY <1>3, <1>4, <1>6 DEF Told
<1> QED BY <1>7, <1>8 DEF o

LEMMA RefreshedFits ==
  ASSUME Countable, NEW e, Fit(e), NEW ov, Counts(ov), NEW persist \in BOOLEAN
  PROVE  Fit(Counted!Refreshed(e, ov, persist)) /\ Told(Counted!Refreshed(e, ov, persist), ov, persist)
<1> DEFINE o == Counted!Refreshed(e, ov, persist)
           paths == [w \in DOMAIN e.paths |-> Counted!New(e.paths[w], ov.paths[w])]
           count == Counted!New(e.count, ov.count)
           style == [t \in Types |->
                       CASE ov.count[t] = 0 -> e.style[t]
                         [] ov.count[t] # 0 /\ e.count[t] = 0 -> Counted!Demoted(ov.style[t], persist)
                         [] OTHER -> Counted!RefreshField(e.style[t], e.count[t], ov.style[t], ov.count[t], persist)]
           accepts == [t \in Types |-> Counted!New(e.accepts[t], ov.accepts[t])]
<1>1. o = [e EXCEPT !.paths = paths, !.count = count, !.style = style, !.accepts = accepts]
  BY Zenon DEF Counted!Refreshed
<1>2. ASSUME NEW old \in [Types -> Nat], NEW seen \in [Types -> Nat]
      PROVE  /\ Counted!New(old, seen) \in [Types -> Nat]
             /\ \A t \in Types : /\ Counted!New(old, seen)[t] = IF old[t] = 0 THEN seen[t] ELSE old[t]
                                 /\ seen[t] > 0 => Counted!New(old, seen)[t] > 0
  BY DEF Counted!New
<1>3. /\ DOMAIN e.paths = {Counted!Top, Counted!Nested}
      /\ \A w \in DOMAIN e.paths : e.paths[w] \in [Types -> Nat] /\ ov.paths[w] \in [Types -> Nat]
      /\ \A t \in Types : e.accepts[t] \in [Types -> Nat] /\ ov.accepts[t] \in [Types -> Nat]
      /\ e.count \in [Types -> Nat] /\ ov.count \in [Types -> Nat]
  BY DEF Fit, Counts
<1>4. paths \in [{Counted!Top, Counted!Nested} -> [Types -> Nat]] /\ count \in [Types -> Nat]
      /\ accepts \in [Types -> [Types -> Nat]]
  BY <1>2, <1>3
<1>5. ASSUME NEW t \in Types
      PROVE  /\ On(style[t], count[t])
             /\ ov.count[t] > 0 =>
                  count[t] > 0 /\ Shows(style[t], count[t], ov.style[t], ov.count[t], persist)
  <2>1. /\ e.count[t] \in Nat /\ ov.count[t] \in Nat /\ On(e.style[t], e.count[t])
        /\ On(ov.style[t], ov.count[t])
    BY DEF Fit, Counts
  <2>2. count[t] = IF e.count[t] = 0 THEN ov.count[t] ELSE e.count[t] BY <1>2, <1>3
  <2>3. CASE ov.count[t] = 0
    <3>1. style[t] = e.style[t] /\ count[t] = e.count[t] BY <2>2, <2>3
    <3> HIDE DEF style, count
    <3> QED BY <2>1, <2>3, <3>1
  <2>4. CASE ov.count[t] # 0 /\ e.count[t] = 0
    <3>1. style[t] = Counted!Demoted(ov.style[t], persist) /\ count[t] = ov.count[t] BY <2>2, <2>4
    <3>2. On(style[t], count[t]) /\ ~style[t].enum /\ style[t].present = ov.style[t].present
          /\ style[t].filled = ov.style[t].filled
      BY <2>1, <3>1, DemotedOn
    <3> HIDE DEF style, count
    <3> QED BY <2>1, <2>4, <3>1, <3>2 DEF Shows
  <2>5. CASE ov.count[t] # 0 /\ e.count[t] # 0
    <3>1. style[t] = Counted!RefreshField(e.style[t], e.count[t], ov.style[t], ov.count[t], persist)
      BY <2>5
    <3>2. count[t] = e.count[t] BY <2>2, <2>5
    <3>3. e.count[t] > 0 BY <2>1, <2>5
    <3> HIDE DEF style, count
    <3> QED BY <2>1, <3>1, <3>2, <3>3, RefreshedOn
  <2> QED BY <2>3, <2>4, <2>5
<1>6. \A t \in Types : /\ ov.paths[Counted!Top][t] > 0 => paths[Counted!Top][t] > 0
                       /\ \A u \in Types : ov.accepts[t][u] > 0 => accepts[t][u] > 0
  BY <1>2, <1>3
<1>7. DOMAIN style = Types OBVIOUS
<1> HIDE DEF o, paths, count, style, accepts
<1>8. /\ DOMAIN o = DOMAIN e /\ o.paths = paths /\ o.count = count /\ o.style = style /\ o.accepts = accepts
  BY <1>1 DEF Fit
<1>9. Fit(o) BY <1>4, <1>5, <1>7, <1>8 DEF Fit, Counts
<1>10. Told(o, ov, persist) BY <1>5, <1>6, <1>8 DEF Told
<1> QED BY <1>9, <1>10 DEF o

LEMMA OverlayFits ==
  ASSUME Countable, NEW e, Fit(e), NEW id, NEW L, Form(L), NEW persist \in BOOLEAN
  PROVE  LET o == Counted!Overlay(e, id, L, persist)
         IN  Fit(o) /\ (Counted!IsBlocks(L) => Told(o, Counted!Count(L, TRUE), persist))
<1> DEFINE ov == Counted!Count(L, TRUE)
           o == Counted!Overlay(e, id, L, persist)
           f == IF id \in e.keys \cup e.folded THEN Counted!Refreshed(e, ov, persist) ELSE Counted!Added(e, ov, persist)
<1>1. CASE ~Counted!IsBlocks(L) BY <1>1 DEF Counted!Overlay
<1>2. CASE Counted!IsBlocks(L)
  <2>1. Counts(ov) BY CountFits DEF Form
  <2>2. o = [f EXCEPT !.folded = IF persist THEN @ \cup {id} ELSE @] BY <1>2 DEF Counted!Overlay
  <2> HIDE DEF ov
  <2>3. Fit(f) /\ Told(f, ov, persist) BY <2>1, AddedFits, RefreshedFits
  <2> HIDE DEF f, o
  <2>4. DOMAIN o = DOMAIN f /\ o.paths = f.paths /\ o.count = f.count /\ o.style = f.style /\ o.accepts = f.accepts
    BY <2>2, <2>3 DEF Fit
  <2>5. Fit(o) /\ Told(o, ov, persist) BY <2>3, <2>4 DEF Fit, Counts, Told
  <2> QED BY <2>5 DEF o, ov
<1> QED BY <1>1, <1>2


\* No finding about a field whose value is listed, and which a row may leave empty.
LEMMA FieldQuiet ==
  ASSUME NEW o, NEW t, NEW style, o.count[t] \in Nat, On(o.style[t], o.count[t]),
         style # Counted!NoKey => o.style[t].present > 0,
         style \in Values /\ o.style[t].enum => o.style[t].values[style] > 0,
         style \notin Values => o.style[t].optional \/ o.style[t].filled < o.count[t]
  PROVE  Counted!FieldFindings(o, t, style) = {}
<1> DEFINE f == o.style[t]
<1>1. style # Counted!NoKey => f.present # 0 BY DEF On, FieldType
<1>2. style \in Values /\ Counted!IsVocabulary(f) => style \in Counted!Listed(f)
  BY DEF Counted!IsVocabulary, Counted!Listed
<1>3. style \notin Values => ~Counted!LikelyRequired(f, o.count[t])
  <2> SUFFICES ASSUME style \notin Values, ~f.optional, f.filled >= o.count[t] PROVE FALSE
    BY DEF Counted!LikelyRequired
  <2>1. f.filled \in Nat /\ f.present \in Nat /\ f.filled <= f.present /\ f.present <= o.count[t]
    BY DEF On, FieldType
  <2> QED BY <2>1
<1> HIDE DEF f
<1>4. Counted!FieldFindings(o, t, style) =
        {code \in {"unknown_field", "value_not_in_enum", "likely_required"} :
           /\ o.count[t] > 0
           /\ CASE code = "unknown_field"     -> style # Counted!NoKey /\ f.present = 0
                [] code = "value_not_in_enum" -> style \in Values /\ Counted!IsVocabulary(f) /\ style \notin Counted!Listed(f)
                [] code = "likely_required"   -> style \notin Values /\ Counted!LikelyRequired(f, o.count[t])}
  BY DEF Counted!FieldFindings, f
<1> QED BY <1>1, <1>2, <1>3, <1>4

\* Nothing that is in a document is an anomaly for what was laid under it.
LEMMA NoAlarm ==
  ASSUME Countable, NEW e, Fit(e), NEW id, NEW L, Form(L)
  PROVE  Counted!Findings(Counted!Overlay(e, id, L, FALSE), L) = {}
<1> DEFINE o == Counted!Overlay(e, id, L, FALSE)
           ov == Counted!Count(L, TRUE)
<1>1. Fit(o) /\ (Counted!IsBlocks(L) => Told(o, ov, FALSE)) BY OverlayFits
<1> HIDE DEF o
<1>2. ASSUME NEW n \in DOMAIN L, L[n].type \in Types
      PROVE  /\ Counted!FieldFindings(o, L[n].type, L[n].style) = {}
             /\ o.paths[Counted!Top][L[n].type] # 0
             /\ \A m \in DOMAIN L[n].inner :
                  /\ Counted!FieldFindings(o, L[n].inner[m], Counted!NoKey) = {}
                  /\ L[n].inner[m] \in Counted!Observed(o, L[n].type)
  <2> DEFINE t == L[n].type
             b == ov.style[t]
             f == o.style[t]
  <2>1. Told(o, ov, FALSE) BY <1>1, <1>2 DEF Counted!IsBlocks
  <2>2. /\ ov.paths[Counted!Top][t] > 0 /\ ov.count[t] > 0
        /\ L[n].style # Counted!NoKey => b.present > 0
        /\ L[n].style \in Values => b.present > 0 /\ b.values[L[n].style] > 0
        /\ L[n].style \notin Values => b.filled < ov.count[t]
        /\ \A m \in DOMAIN L[n].inner :
             LET u == L[n].inner[m]
             IN  ov.accepts[t][u] > 0 /\ ov.count[u] > 0 /\ ov.style[u].filled < ov.count[u]
    BY <1>2, CountShows
  <2> HIDE DEF ov
  <2>3. Shows(f, o.count[t], b, ov.count[t], FALSE) BY <1>2, <2>1, <2>2 DEF Told
  <2>4. On(f, o.count[t]) /\ o.count[t] \in Nat /\ o.paths[Counted!Top][t] \in Nat BY <1>1, <1>2 DEF Fit, Counts
  <2>5. o.paths[Counted!Top][t] # 0 BY <1>2, <2>1, <2>2, <2>4 DEF Told
  <2>6. Counted!FieldFindings(o, t, L[n].style) = {}
    <3>1. L[n].style # Counted!NoKey => f.present > 0 BY <2>2, <2>3 DEF Shows
    <3>2. L[n].style \in Values /\ f.enum => f.values[L[n].style] > 0 BY <2>2, <2>3 DEF Shows
    <3>3. L[n].style \notin Values => f.optional \/ f.filled < o.count[t] BY <2>2, <2>3 DEF Shows
    <3> QED BY <2>4, <3>1, <3>2, <3>3, FieldQuiet
  <2>7. ASSUME NEW m \in DOMAIN L[n].inner
        PROVE  /\ Counted!FieldFindings(o, L[n].inner[m], Counted!NoKey) = {}
               /\ L[n].inner[m] \in Counted!Observed(o, t)
    <3> DEFINE u == L[n].inner[m]
               g == o.style[u]
    <3>1. u \in Types BY <1>2, <2>7 DEF Form
    <3>2. ov.accepts[t][u] > 0 /\ ov.count[u] > 0 /\ ov.style[u].filled < ov.count[u] BY <2>2, <2>7
    <3>3. Shows(g, o.count[u], ov.style[u], ov.count[u], FALSE) BY <2>1, <3>1, <3>2 DEF Told
    <3>4. On(g, o.count[u]) /\ o.count[u] \in Nat BY <1>1, <3>1 DEF Fit, Counts
    <3>5. g.optional \/ g.filled < o.count[u] BY <3>2, <3>3 DEF Shows
    <3>6. Counted!NoKey \notin Values BY DEF Countable
    <3> HIDE DEF u
    <3>7. Counted!FieldFindings(o, u, Counted!NoKey) = {} BY <3>4, <3>5, <3>6, FieldQuiet
    <3>8. o.accepts[t][u] > 0 BY <1>2, <2>1, <3>1, <3>2 DEF Told
    <3>9. u \in Counted!Observed(o, t) BY <3>1, <3>8 DEF Counted!Observed
    <3> QED BY <3>7, <3>9 DEF u
  <2> QED BY <2>5, <2>6, <2>7
<1>3. CASE Counted!Blockless(o) BY <1>3 DEF Counted!Findings, o
<1>4. CASE ~Counted!Blockless(o)
  <2> DEFINE Of(n) == Counted!FieldFindings(o, L[n].type, L[n].style)
                        \cup (IF o.paths[Counted!Top][L[n].type] = 0 THEN {"type"} ELSE {})
                        \cup UNION {Counted!FieldFindings(o, u, Counted!NoKey)
                                      \cup (IF u \in Counted!Observed(o, L[n].type) THEN {} ELSE {"nested"})
                                      : u \in {L[n].inner[m] : m \in DOMAIN L[n].inner}}
  <2>1. Counted!Findings(o, L) = UNION {Of(n) : n \in {k \in DOMAIN L : L[k].type \in Types}}
    BY <1>4 DEF Counted!Findings
  <2>2. ASSUME NEW n \in DOMAIN L, L[n].type \in Types PROVE Of(n) = {}
    BY <1>2, <2>2
  <2> HIDE DEF Of
  <2>3. Counted!Findings(o, L) = {} BY <2>1, <2>2
  <2> QED BY <2>3 DEF o
<1> QED BY <1>3, <1>4


-----------------------------------------------------------------------------
\* The layouts documents have, and the slugs commands ask for.
Tidy ==
  /\ \A d \in Starts, s \in Slugs, i \in Ids : d[s][i] = Nil \/ Form(d[s][i])
  /\ \A s \in Slugs : \A L \in Layouts[s] : Form(L)
  /\ \A c \in Reads : c.only \subseteq Slugs

Fits(census) == \A s \in Slugs : census[s] = Nil \/ Fit(census[s])

Forms(read) == IsFiniteSet(DOMAIN read) /\ \A i \in DOMAIN read : Form(read[i])

Upholds(r) ==
  /\ r.at \in Busy => Fits(r.mem) /\ (\A s \in DOMAIN r.built : Fit(r.built[s])) /\ r.todo \subseteq Slugs
  /\ r.at \in {"read", "oldest"} => r.slug \in Slugs /\ Forms(r.read)
  /\ r.at = "fold" => r.slug \in Slugs /\ Form(r.echo)

SoundInv ==
  /\ cDisk = [s \in Slugs |-> cDisk[s]] /\ Fits(cDisk)
  /\ \A s \in Slugs, i \in Ids : cDocs[s][i] \in {Nil, Deleted} \/ Form(cDocs[s][i])
  /\ \A p \in Procs : Upholds(cProc[p])

LEMMA SoundInit == ASSUME Tidy, Counted!Init PROVE SoundInv
BY DEF Tidy, Counted!Init, Counted!Idle, SoundInv, Upholds, Fits, Busy

LEMMA IdleUpholds == Upholds(Counted!Idle)
BY DEF Upholds, Busy, Counted!Idle

LEMMA OneUpholds ==
  ASSUME ReadInv, SoundInv, NEW p \in Procs, NEW x, Upholds(x), cProc' = [cProc EXCEPT ![p] = x]
  PROVE  \A q \in Procs : Upholds(cProc'[q])
BY DEF ReadInv, SoundInv

\* The rows of what was read.
LEMMA RowsFit ==
  ASSUME NEW read, Forms(read)
  PROVE  IsFiniteSet(DOMAIN Counted!RowsOf(read)) /\ Inners(Counted!RowsOf(read))
<1> DEFINE S == {j \in DOMAIN read : Counted!IsBlocks(read[j])}
           f == [i \in S |-> {i} \X DOMAIN read[i]]
           R == Counted!RowsOf(read)
<1>1. IsFiniteSet(S) BY FS_Subset DEF Forms
<1>2. ASSUME NEW i \in S PROVE IsFiniteSet(f[i])
  <2>1. IsFiniteSet({i}) /\ IsFiniteSet(DOMAIN read[i]) BY FS_Singleton DEF Forms, Form
  <2>2. IsFiniteSet({i} \X DOMAIN read[i]) BY <2>1, FS_Product
  <2> QED BY <2>2
<1>3. DOMAIN R = UNION {{i} \X DOMAIN read[i] : i \in S} BY DEF Counted!RowsOf
<1>4. DOMAIN f = S /\ DOMAIN R = UNION {f[i] : i \in S} BY <1>3
<1>5. IsFiniteSet(DOMAIN R)
  <2> HIDE DEF f, S, R
  <2> QED BY <1>1, <1>2, <1>4, UnionFinite
<1>6. Inners(R)
  <2> SUFFICES ASSUME NEW n \in DOMAIN R, R[n].type \in Types PROVE IsFiniteSet(DOMAIN R[n].inner)
    BY DEF Inners
  <2>1. PICK i \in S : n \in {i} \X DOMAIN read[i] BY <1>3
  <2>2. n[1] = i /\ n[2] \in DOMAIN read[i] BY <2>1
  <2>3. R[n] = read[n[1]][n[2]] BY DEF Counted!RowsOf
  <2>4. R[n] = read[i][n[2]] BY <2>2, <2>3
  <2>5. Inners(read[i]) BY DEF Forms, Form
  <2> HIDE DEF R
  <2> QED BY <2>2, <2>4, <2>5 DEF Inners
<1> QED BY <1>5, <1>6

\* An entity as it is built.
LEMMA EndsSound ==
  ASSUME Countable, NEW r, Upholds(r), r.at \in {"read", "oldest"}, NEW read, Forms(read),
         NEW truncated, NEW early, NEW error
  PROVE  Upholds(Counted!Ended(r, read, truncated, early, error))
<1> DEFINE seen == Counted!Count(Counted!RowsOf(read), FALSE)
           e == [paths |-> seen.paths, count |-> seen.count, style |-> seen.style, accepts |-> seen.accepts,
                 builtAt |-> r.began, max |-> r.cmd.max, truncated |-> truncated, early |-> early,
                 error |-> error, keys |-> DOMAIN read, folded |-> {}]
           x == Counted!Ended(r, read, truncated, early, error)
<1>1. /\ x.at = "build" /\ x.mem = r.mem /\ x.todo = r.todo
      /\ x.built = [s \in DOMAIN r.built \cup {r.slug} |-> IF s = r.slug THEN e ELSE r.built[s]]
  BY DEF Counted!Ended
<1>2. Counts(seen) BY RowsFit, CountFits
<1> HIDE DEF seen
<1>3. Fit(e) BY <1>2 DEF Fit, Counts
<1> HIDE DEF e, x
<1>4. \A s \in DOMAIN x.built : Fit(x.built[s]) BY <1>1, <1>3 DEF Upholds, Busy
<1>5. Upholds(x) BY <1>1, <1>4 DEF Upholds, Busy
<1> QED BY <1>5 DEF x

\* What is taken of a page are documents that are stored.
LEMMA ConsumeSound ==
  ASSUME Sane, SoundInv, NEW r, r.slug \in Slugs, Forms(r.read), NEW order, NEW n, NEW limit
  PROVE  Forms(Counted!Consume(r, Counted!Page(Counted!Live(r.slug), order, n, limit), order))
<1> DEFINE live == Counted!Live(r.slug)
           read == Counted!Consume(r, Counted!Page(live, order, n, limit), order)
<1>1. DOMAIN read \subseteq DOMAIN r.read \cup live BY Consumed
<1>2. IsFiniteSet(DOMAIN read)
  <2>1. IsFiniteSet(DOMAIN r.read) /\ IsFiniteSet(live) BY FiniteLive DEF Forms
  <2>2. IsFiniteSet(DOMAIN r.read \cup live) BY <2>1, FS_Union
  <2> HIDE DEF live, read
  <2> QED BY <1>1, <2>2, FS_Subset
<1>3. ASSUME NEW i \in DOMAIN read PROVE read[i] = IF i \in DOMAIN r.read THEN r.read[i] ELSE cDocs[r.slug][i]
  BY DEF Counted!Consume
<1>4. ASSUME NEW i \in live PROVE Form(cDocs[r.slug][i])
  BY DEF SoundInv, Counted!Live
<1> HIDE DEF live, read
<1>5. Forms(read) BY <1>1, <1>2, <1>3, <1>4 DEF Forms
<1> QED BY <1>5 DEF read, live


LEMMA EnsuresSound == ASSUME Tidy, ReadInv, SoundInv, NEW p \in Procs, Counted!Ensures(p) PROVE SoundInv'
<1>1. PICK c \in Reads :
        LET mem  == IF c.refresh THEN [s \in Slugs |-> Nil] ELSE cDisk
            todo == {s \in c.only : mem[s] = Nil \/ c.force
                       \/ ~(Counted!Reusable(mem[s], c.max) \/ (c.wide /\ Counted!BlocklessReusable(mem[s], s, c.max)))}
        IN  cProc' = [cProc EXCEPT ![p] =
              IF todo = {} THEN Counted!Idle
              ELSE [at |-> "build", cmd |-> c, mem |-> mem, todo |-> todo, built |-> <<>>, missed |-> {}]]
  BY Zenon DEF Counted!Ensures
<1> DEFINE mem == IF c.refresh THEN [s \in Slugs |-> Nil] ELSE cDisk
           todo == {s \in c.only : mem[s] = Nil \/ c.force
                      \/ ~(Counted!Reusable(mem[s], c.max) \/ (c.wide /\ Counted!BlocklessReusable(mem[s], s, c.max)))}
           x == [at |-> "build", cmd |-> c, mem |-> mem, todo |-> todo, built |-> <<>>, missed |-> {}]
<1>2. \/ cProc' = [cProc EXCEPT ![p] = Counted!Idle]
      \/ cProc' = [cProc EXCEPT ![p] = x]
  BY <1>1, Zenon
<1>3. Fits(mem) BY DEF Fits, SoundInv
<1>4. todo \subseteq Slugs BY DEF Tidy
<1> HIDE DEF mem, todo
<1>5. x.at = "build" /\ x.mem = mem /\ x.todo = todo /\ DOMAIN x.built = {} OBVIOUS
<1> HIDE DEF x
<1>6. Upholds(x) BY <1>3, <1>4, <1>5 DEF Upholds
<1>7. \A q \in Procs : Upholds(cProc'[q]) BY <1>2, <1>6, IdleUpholds, OneUpholds
<1> QED BY <1>7 DEF SoundInv, Counted!Ensures

LEMMA StartsSound == ASSUME ReadInv, SoundInv, NEW p \in Procs, Counted!Starts1(p) PROVE SoundInv'
<1> DEFINE r == cProc[p]
           x(s) == [at |-> "read", cmd |-> r.cmd, mem |-> r.mem, todo |-> r.todo \ {s}, built |-> r.built,
                    missed |-> r.missed, slug |-> s, page |-> 1, read |-> <<>>, total |-> 0, sampled |-> FALSE,
                    began |-> cClock, there |-> Counted!Live(s)]
<1>1. PICK s \in r.todo : cProc' = [cProc EXCEPT ![p] = x(s)]
  BY DEF Counted!Starts1, ReadInv
<1>2. Upholds(r) /\ r.at = "build" BY DEF SoundInv, Counted!Starts1
<1>3. /\ x(s).at = "read" /\ x(s).mem = r.mem /\ x(s).todo = r.todo \ {s} /\ x(s).built = r.built
      /\ x(s).slug = s /\ DOMAIN x(s).read = {}
  OBVIOUS
<1> HIDE DEF x
<1>4. Upholds(x(s)) BY <1>2, <1>3, FS_EmptySet DEF Upholds, Busy, Forms
<1>5. \A q \in Procs : Upholds(cProc'[q]) BY <1>1, <1>4, OneUpholds
<1> QED BY <1>5 DEF SoundInv, Counted!Starts1

\* A command goes on reading with what it has read.
LEMMA GoesOnSound ==
  ASSUME NEW r, Upholds(r), r.at \in {"read", "oldest"}, NEW x, x.at \in {"read", "oldest"},
         x.mem = r.mem, x.todo = r.todo, x.built = r.built, x.slug = r.slug, Forms(x.read)
  PROVE  Upholds(x)
BY DEF Upholds, Busy

LEMMA PageSound == ASSUME Sane, Countable, ReadInv, SoundInv, NEW p \in Procs, Counted!ReadsPage(p) PROVE SoundInv'
<1> DEFINE r     == cProc[p]
           read  == Counted!Consume(r, Counted!Page(Counted!Live(r.slug), "newest", r.page, Counted!Limit(r)), "newest")
<1>1. PICK total, left :
        \/ cProc' = [cProc EXCEPT ![p] = Counted!Ended(r, read, left, FALSE, FALSE)]
        \/ cProc' = [cProc EXCEPT ![p] =
             [r EXCEPT !.at = "oldest", !.read = read, !.total = total, !.sampled = TRUE]]
        \/ cProc' = [cProc EXCEPT ![p] = [r EXCEPT !.read = read, !.total = total, !.page = @ + 1]]
  BY Zenon DEF Counted!ReadsPage
<1>2. Upholds(r) /\ r.at = "read" /\ Complete(r) BY DEF SoundInv, ReadInv, Counted!ReadsPage
<1>3. Forms(read) BY <1>2, ConsumeSound DEF Upholds
<1>4. Fields(r) \subseteq DOMAIN r BY <1>2 DEF Complete, Busy
<1> DEFINE old  == [r EXCEPT !.at = "oldest", !.read = read, !.total = total, !.sampled = TRUE]
           next == [r EXCEPT !.read = read, !.total = total, !.page = @ + 1]
<1> HIDE DEF read
<1>5. /\ old.at = "oldest" /\ old.mem = r.mem /\ old.todo = r.todo /\ old.built = r.built
      /\ old.slug = r.slug /\ old.read = read
  BY <1>2, <1>4 DEF Fields
<1>6. /\ next.at = "read" /\ next.mem = r.mem /\ next.todo = r.todo /\ next.built = r.built
      /\ next.slug = r.slug /\ next.read = read
  BY <1>2, <1>4 DEF Fields
<1>7. Upholds(Counted!Ended(r, read, left, FALSE, FALSE)) BY <1>2, <1>3, EndsSound
<1> HIDE DEF old, next
<1>8. Upholds(old) /\ Upholds(next) BY <1>2, <1>3, <1>5, <1>6, GoesOnSound
<1>9. \A q \in Procs : Upholds(cProc'[q]) BY <1>1, <1>7, <1>8, OneUpholds DEF old, next
<1> QED BY <1>9 DEF SoundInv, Counted!ReadsPage

LEMMA OldestSound == ASSUME Sane, Countable, ReadInv, SoundInv, NEW p \in Procs, Counted!ReadsOldest(p) PROVE SoundInv'
<1> DEFINE r     == cProc[p]
           taken == Counted!Consume(r, Counted!Page(Counted!Live(r.slug), "oldest", 1, Counted!Limit(r)), "oldest")
<1>1. PICK answered \in BOOLEAN :
        LET read == IF answered THEN taken ELSE r.read
            left == r.total > Counted!Scanned(read)
        IN  cProc' = [cProc EXCEPT ![p] =
              IF Counted!NoBlocks(read) THEN Counted!Ended(r, read, left, left, FALSE)
              ELSE IF Counted!Scanned(read) >= r.cmd.max THEN Counted!Ended(r, read, left, FALSE, FALSE)
              ELSE [r EXCEPT !.at = "read", !.read = read, !.page = @ + 1]]
  BY Zenon DEF Counted!ReadsOldest
<1> DEFINE read == IF answered THEN taken ELSE r.read
           left == r.total > Counted!Scanned(read)
           next == [r EXCEPT !.at = "read", !.read = read, !.page = @ + 1]
<1>2. Upholds(r) /\ r.at = "oldest" /\ Complete(r) BY DEF SoundInv, ReadInv, Counted!ReadsOldest
<1>3. Forms(taken) /\ Forms(r.read) BY <1>2, ConsumeSound DEF Upholds
<1>4. Forms(read) BY <1>3
<1>5. Fields(r) \subseteq DOMAIN r BY <1>2 DEF Complete, Busy
<1>6. /\ next.at = "read" /\ next.mem = r.mem /\ next.todo = r.todo /\ next.built = r.built
      /\ next.slug = r.slug /\ next.read = read
  BY <1>2, <1>5 DEF Fields
<1>7. \/ \E early : cProc' = [cProc EXCEPT ![p] = Counted!Ended(r, read, left, early, FALSE)]
      \/ cProc' = [cProc EXCEPT ![p] = next]
  BY <1>1, Zenon
<1> HIDE DEF next, read, left
<1>8. ASSUME NEW early PROVE Upholds(Counted!Ended(r, read, left, early, FALSE))
  BY <1>2, <1>4, EndsSound
<1>9. Upholds(next) BY <1>2, <1>4, <1>6, GoesOnSound
<1>10. \A q \in Procs : Upholds(cProc'[q]) BY <1>7, <1>8, <1>9, OneUpholds
<1> QED BY <1>10 DEF SoundInv, Counted!ReadsOldest

LEMMA FailsSound == ASSUME Countable, ReadInv, SoundInv, NEW p \in Procs, Counted!ReadFails(p) PROVE SoundInv'
<1>1. cProc' = [cProc EXCEPT ![p] = Counted!Ended(cProc[p], cProc[p].read, FALSE, FALSE, TRUE)]
  BY DEF Counted!ReadFails, ReadInv
<1>2. Upholds(cProc[p]) /\ cProc[p].at = "read" BY DEF Counted!ReadFails, SoundInv
<1>3. Upholds(Counted!Ended(cProc[p], cProc[p].read, FALSE, FALSE, TRUE))
  BY <1>2, EndsSound DEF Upholds
<1>4. \A q \in Procs : Upholds(cProc'[q]) BY <1>1, <1>3, OneUpholds
<1> QED BY <1>4 DEF SoundInv, Counted!ReadFails

LEMMA PersistsSound == ASSUME ReadInv, SoundInv, NEW p \in Procs, Counted!Persists(p) PROVE SoundInv'
<1> DEFINE r == cProc[p]
<1>1. Upholds(r) /\ r.at = "build" BY DEF SoundInv, Counted!Persists
<1>2. /\ Counted!Memory(r) = [s \in Slugs |-> Counted!Memory(r)[s]] /\ Fits(Counted!Memory(r))
  BY <1>1 DEF Counted!Memory, Upholds, Busy, Fits
<1>3. Counted!Merge(r) = [s \in Slugs |-> Counted!Merge(r)[s]] /\ Fits(Counted!Merge(r))
  <2>1. CASE r.cmd.refresh \/ \A s \in Slugs : cDisk[s] = Nil BY <1>2, <2>1 DEF Counted!Merge
  <2>2. CASE ~(r.cmd.refresh \/ \A s \in Slugs : cDisk[s] = Nil)
    BY <1>1, <2>2 DEF Counted!Merge, Upholds, Busy, Fits, SoundInv
  <2> QED BY <2>1, <2>2
<1>4. cDisk' = Counted!Merge(r) \/ cDisk' = cDisk BY DEF Counted!Persists
<1>5. \A q \in Procs : Upholds(cProc'[q]) BY IdleUpholds, OneUpholds DEF Counted!Persists
<1>6. UNCHANGED cDocs BY DEF Counted!Persists
<1> QED BY <1>3, <1>4, <1>5, <1>6 DEF SoundInv, Fits

LEMMA FoldsSound == ASSUME Countable, ReadInv, SoundInv, NEW p \in Procs, Counted!Folds(p) PROVE SoundInv'
<1> DEFINE r == cProc[p]
           o == Counted!Overlay(cDisk[r.slug], r.id, r.echo, TRUE)
<1>1. Upholds(r) /\ r.at = "fold" BY DEF SoundInv, Counted!Folds
<1>2. r.slug \in Slugs /\ Form(r.echo) BY <1>1 DEF Upholds
<1>3. \/ cDisk[r.slug] # Nil /\ cDisk' = [cDisk EXCEPT ![r.slug] = o]
      \/ cDisk' = cDisk
  BY DEF Counted!Folds
<1>4. cDisk[r.slug] # Nil => Fit(o) BY <1>2, OverlayFits DEF SoundInv, Fits
<1> HIDE DEF o
<1>5. cDisk' = [s \in Slugs |-> cDisk'[s]] /\ Fits(cDisk') BY <1>2, <1>3, <1>4 DEF SoundInv, Fits
<1>6. \A q \in Procs : Upholds(cProc'[q]) BY IdleUpholds, OneUpholds DEF Counted!Folds
<1>7. UNCHANGED cDocs BY DEF Counted!Folds
<1> QED BY <1>5, <1>6, <1>7 DEF SoundInv, Fits

LEMMA StoresSound ==
  ASSUME Tidy, ReadInv, SoundInv, NEW s \in Slugs, NEW i, NEW L \in Layouts[s], Counted!Stores(s, i, L)
  PROVE  \A t \in Slugs, j \in Ids : cDocs'[t][j] \in {Nil, Deleted} \/ Form(cDocs'[t][j])
<1>1. Form(L) /\ cDocs' = [cDocs EXCEPT ![s][i] = L] BY DEF Tidy, Counted!Stores
<1>2. ASSUME NEW t \in Slugs, NEW j \in Ids PROVE cDocs'[t][j] \in {L, cDocs[t][j]}
  BY <1>1 DEF ReadInv
<1> QED BY <1>1, <1>2 DEF SoundInv

LEMMA WritesSound == ASSUME Tidy, ReadInv, SoundInv, NEW p \in Procs, Counted!Writes(p) PROVE SoundInv'
<1>1. PICK s \in Slugs, i \in Ids : \E L \in Layouts[s] :
        /\ Counted!Stores(s, i, L)
        /\ cProc' = [cProc EXCEPT ![p] = [at |-> "fold", slug |-> s, id |-> i, echo |-> L]]
  BY DEF Counted!Writes
<1>2. PICK L \in Layouts[s] :
        /\ Counted!Stores(s, i, L)
        /\ cProc' = [cProc EXCEPT ![p] = [at |-> "fold", slug |-> s, id |-> i, echo |-> L]]
  BY <1>1
<1>3. Upholds([at |-> "fold", slug |-> s, id |-> i, echo |-> L]) BY DEF Upholds, Busy, Tidy
<1>4. \A q \in Procs : Upholds(cProc'[q]) BY <1>2, <1>3, OneUpholds
<1>5. \A t \in Slugs, j \in Ids : cDocs'[t][j] \in {Nil, Deleted} \/ Form(cDocs'[t][j])
  BY <1>2, StoresSound
<1>6. UNCHANGED cDisk BY DEF Counted!Writes
<1> QED BY <1>4, <1>5, <1>6 DEF SoundInv, Fits

LEMMA EditsSound == ASSUME Tidy, ReadInv, SoundInv, Counted!Edits PROVE SoundInv'
<1>1. UNCHANGED cDisk BY DEF Counted!Edits
<1>2. PICK s \in Slugs : \E i \in Counted!Live(s) :
        \/ \E L \in Layouts[s] : Counted!Stores(s, i, L) /\ UNCHANGED cProc
        \/ /\ cDocs' = [cDocs EXCEPT ![s][i] = Deleted]
           /\ cProc' = [p \in Procs |-> IF cProc[p].at \in {"read", "oldest"} /\ cProc[p].slug = s
                                        THEN [cProc[p] EXCEPT !.there = {}] ELSE cProc[p]]
  BY DEF Counted!Edits
<1>3. CASE \E i \in Counted!Live(s) : \E L \in Layouts[s] : Counted!Stores(s, i, L) /\ UNCHANGED cProc
  BY <1>1, <1>3, StoresSound DEF SoundInv, Fits
<1>4. CASE \E i \in Counted!Live(s) :
             /\ cDocs' = [cDocs EXCEPT ![s][i] = Deleted]
             /\ cProc' = [p \in Procs |-> IF cProc[p].at \in {"read", "oldest"} /\ cProc[p].slug = s
                                          THEN [cProc[p] EXCEPT !.there = {}] ELSE cProc[p]]
  <2>1. PICK i \in Counted!Live(s) : cDocs' = [cDocs EXCEPT ![s][i] = Deleted] BY <1>4
  <2>2. ASSUME NEW t \in Slugs, NEW j \in Ids PROVE cDocs'[t][j] \in {Deleted, cDocs[t][j]}
    BY <2>1 DEF ReadInv
  <2>3. \A t \in Slugs, j \in Ids : cDocs'[t][j] \in {Nil, Deleted} \/ Form(cDocs'[t][j])
    BY <2>2 DEF SoundInv
  <2>4. ASSUME NEW p \in Procs PROVE Upholds(cProc'[p])
    <3>1. Upholds(cProc[p]) /\ Complete(cProc[p]) BY DEF SoundInv, ReadInv
    <3>2. CASE cProc[p].at \in {"read", "oldest"} /\ cProc[p].slug = s
      <4> DEFINE x == [cProc[p] EXCEPT !.there = {}]
      <4>1. cProc'[p] = x BY <1>4, <3>2
      <4>2. Fields(cProc[p]) \subseteq DOMAIN cProc[p] BY <3>1, <3>2 DEF Complete, Busy
      <4>3. /\ x.at = cProc[p].at /\ x.mem = cProc[p].mem /\ x.todo = cProc[p].todo
            /\ x.built = cProc[p].built /\ x.slug = cProc[p].slug /\ x.read = cProc[p].read
        BY <3>2, <4>2 DEF Fields
      <4> HIDE DEF x
      <4> QED BY <3>1, <3>2, <4>1, <4>3, GoesOnSound DEF Upholds
    <3>3. CASE ~(cProc[p].at \in {"read", "oldest"} /\ cProc[p].slug = s)
      BY <1>4, <3>1, <3>3
    <3> QED BY <3>2, <3>3
  <2> QED BY <1>1, <2>3, <2>4 DEF SoundInv, Fits
<1> QED BY <1>2, <1>3, <1>4

LEMMA SoundStep == ASSUME Sane, Countable, Tidy, ReadInv, SoundInv, Counted!Next PROVE SoundInv'
<1>1. CASE UNCHANGED <<cDocs, cDisk, cProc>> BY <1>1 DEF SoundInv, Fits
<1>2. ASSUME NEW p \in Procs, Counted!Crashes(p) PROVE SoundInv'
  <2>1. \A q \in Procs : Upholds(cProc'[q]) BY <1>2, IdleUpholds, OneUpholds DEF Counted!Crashes
  <2> QED BY <1>2, <2>1 DEF SoundInv, Fits, Counted!Crashes
<1>3. CASE Counted!Clears BY <1>3 DEF SoundInv, Fits, Counted!Clears
<1>4. CASE Counted!Tick BY <1>1, <1>4 DEF Counted!Tick
<1>5. CASE Counted!Edits BY <1>5, EditsSound
<1> QED
  BY <1>2, <1>3, <1>4, <1>5, EnsuresSound, StartsSound, PageSound, OldestSound, FailsSound, PersistsSound,
     WritesSound, FoldsSound DEF Counted!Next


\* The types are numbered, and none is what a member's name is wrongly inferred to mean.
Named == 100 + 2 \notin Types /\ \A schema \in Schemas : schema.accepts \subseteq Int \ {100 + 2}

\* A type the field accepts is in a list that is called complete: by its slug, unless this was
\* taken out because a document shows another, and then by that.
LEMMA CompleteList ==
  ASSUME 100 + 2 \notin Types, NEW schema, schema.accepts \subseteq Int \ {100 + 2}, schema.pin = {},
         NEW e, NEW sample \in SUBSET schema.accepts,
         Counted!Accepted(schema, e, sample).authoritative
  PROVE  schema.accepts \subseteq Counted!Accepted(schema, e, sample).types
<1> DEFINE observed == {t \in Types : e.paths[Counted!Top][t] > 0}
           joined == {i \in schema.accepts \ schema.paired :
                        /\ Counted!Infer(i) \notin {Nil} \cup sample \cup observed
                        /\ \E o \in observed \ Counted!Slugged(schema) : Counted!Akin(o, i)}
<1>1. /\ Counted!Accepted(schema, e, sample).types =
           (Counted!Slugged(schema) \ {Counted!Infer(i) : i \in joined}) \cup observed
      /\ Counted!Unresolved(schema) = {} /\ Counted!Unconfirmed(schema, e, sample) = {}
  BY DEF Counted!Accepted
<1>2. \A i, o : Counted!Akin(o, i) <=> o = i BY DEF Counted!Akin
<1>3. \A i \in Int : i % 2 = 1 => Counted!Infer(i) = i BY DEF Counted!Infer
<1>4. Counted!Infer(2) = 102 BY DEF Counted!Infer
<1>5. \A i \in Int : i % 2 # 1 /\ i # 2 => Counted!Infer(i) = Nil
  <2> TAKE i \in Int
  <2>1. i % 2 \in 0 .. 1 OBVIOUS
  <2> QED BY <2>1 DEF Counted!Infer
<1> SUFFICES ASSUME NEW i \in schema.accepts PROVE i \in (Counted!Slugged(schema) \ {Counted!Infer(j) : j \in joined}) \cup observed
  BY <1>1
<1>6. i \in Int /\ i # 102
  <2>1. 100 + 2 = 102 OBVIOUS
  <2>2. i \in Int \ {100 + 2} OBVIOUS
  <2> QED BY <2>1, <2>2
<1>7. ASSUME i \in Counted!Slugged(schema), NEW j \in joined, Counted!Infer(j) = i PROVE i \in observed
  <2>1. j \in Int /\ j \in observed /\ Counted!Infer(j) # Nil BY <1>2 DEF joined
  <2>2. CASE j % 2 = 1 BY <1>3, <1>7, <2>1, <2>2
  <2>3. CASE j = 2 BY <1>4, <1>6, <1>7, <2>3
  <2>4. CASE j % 2 # 1 /\ j # 2 BY <1>5, <2>1, <2>4
  <2> QED BY <2>2, <2>3, <2>4
<1>8. CASE i \in schema.paired
  <2>1. i \in Counted!Slugged(schema) BY <1>1, <1>8 DEF Counted!Slugged, Counted!SlugOf
  <2> QED BY <1>7, <2>1
<1>9. CASE i \notin schema.paired
  <2>1. Counted!Infer(i) # Nil BY <1>1, <1>9 DEF Counted!Unresolved
  <2>2. CASE i % 2 = 1
    <3>1. i \in Counted!Slugged(schema) BY <1>1, <1>3, <1>6, <1>9, <2>2 DEF Counted!Slugged, Counted!SlugOf
    <3> QED BY <1>7, <3>1
  <2>3. CASE i = 2
    <3>1. Counted!Infer(i) = 102 BY <1>4, <2>3
    <3>2. 102 \notin sample \cup observed OBVIOUS
    <3> DEFINE like == {o \in observed \ Counted!Slugged(schema) : Counted!Akin(o, i)}
    <3>3. Cardinality(like) = 1
      <4>1. i \in schema.accepts \ (schema.paired \cup Counted!Unresolved(schema)) BY <1>1, <1>9
      <4> QED BY <1>1, <3>1, <3>2, <4>1, SameCard DEF Counted!Unconfirmed
    <3>4. like # {}
      <4> HIDE DEF like
      <4> QED BY <3>3, FS_EmptySet
    <3> QED BY <1>2, <3>4
  <2>4. CASE i % 2 # 1 /\ i # 2 BY <1>5, <1>6, <2>1, <2>4
  <2> QED BY <2>2, <2>3, <2>4
<1> QED BY <1>8, <1>9

LEMMA AuthorityHolds == ASSUME Named PROVE Counted!AuthoritySound
<1> SUFFICES ASSUME NEW s \in Declares, NEW schema \in Schemas,
                    NEW stored, schema.pin = {}, stored \subseteq schema.accepts, NEW sample \in SUBSET stored,
                    Counted!Accepted(schema, cDisk[s], sample).authoritative
             PROVE  schema.accepts \subseteq Counted!Accepted(schema, cDisk[s], sample).types
  BY Zenon DEF Counted!AuthoritySound
<1>1. sample \in SUBSET schema.accepts OBVIOUS
<1> QED BY <1>1, CompleteList DEF Named

LEMMA SoundSays == ASSUME Countable, SoundInv PROVE Counted!RatiosSound /\ Counted!NoFalseAlarm
<1>1. Counted!RatiosSound
  BY DEF SoundInv, Fits, Fit, Counts, On, Counted!RatiosSound
<1>2. Counted!NoFalseAlarm
  <2> SUFFICES ASSUME NEW s \in Slugs, cDisk[s] # Nil, NEW i \in Counted!Live(s)
               PROVE  Counted!Findings(Counted!Overlay(cDisk[s], i, cDocs[s][i], FALSE), cDocs[s][i]) = {}
    BY DEF Counted!NoFalseAlarm
  <2>1. Fit(cDisk[s]) /\ Form(cDocs[s][i]) BY DEF SoundInv, Fits, Counted!Live
  <2> QED BY <2>1, NoAlarm
<1> QED BY <1>1, <1>2

\* However commands, other editors, crashes and clears interleave, whatever the documents and
\* however old the census: no field is told to be on more rows than there are; laid over the
\* census, a document is never found to have an anomaly in a row as the server holds it
\* (OverlayDocs, ValidateBlocks); and a list of types that is called complete has every type
\* the field accepts (reconcile).
THEOREM CensusIsSound ==
  ASSUME Sane, Countable, Tidy, Named
  PROVE  Counted!Spec => [](Counted!RatiosSound /\ Counted!NoFalseAlarm /\ Counted!AuthoritySound)
<1>1. Counted!Init => ReadInv /\ SoundInv BY CompleteInit, SoundInit
<1>2. ReadInv /\ SoundInv /\ [Counted!Next]_Counted!vars => ReadInv' /\ SoundInv'
  <2>1. ASSUME ReadInv, SoundInv, UNCHANGED Counted!vars PROVE ReadInv' /\ SoundInv'
    BY <2>1 DEF ReadInv, Complete, Place, Counted!Live, SoundInv, Fits, Counted!vars
  <2> QED BY <2>1, ReadStep, SoundStep
<1>3. SoundInv => Counted!RatiosSound /\ Counted!NoFalseAlarm /\ Counted!AuthoritySound
  BY SoundSays, AuthorityHolds
<1> QED BY <1>1, <1>2, <1>3, PTL DEF Counted!Spec


-----------------------------------------------------------------------------
(* A document is counted once.                                              *)

\* As many places are left for the sets as they have elements.
LEMMA Spread ==
  ASSUME NEW S, IsFiniteSet(S), NEW F, DOMAIN F = S, \A i \in S : IsFiniteSet(F[i]),
         NEW lo \in [S -> Nat]
  PROVE  LET T == UNION {{i} \X F[i] : i \in S}
             P == UNION {{i} \X (lo[i] + 1 .. lo[i] + Cardinality(F[i])) : i \in S}
         IN  IsFiniteSet(T) /\ IsFiniteSet(P) /\ Cardinality(T) <= Cardinality(P)
<1> DEFINE T == UNION {{i} \X F[i] : i \in S}
           P == UNION {{i} \X (lo[i] + 1 .. lo[i] + Cardinality(F[i])) : i \in S}
           onto(X) == CHOOSE f : f \in Surjection(1 .. Cardinality(X), X)
           g == [x \in P |-> <<x[1], onto(F[x[1]])[x[2] - lo[x[1]]]>>]
<1>1. ASSUME NEW i \in S
      PROVE  /\ Cardinality(F[i]) \in Nat
             /\ onto(F[i]) \in Surjection(1 .. Cardinality(F[i]), F[i])
  <2>1. Cardinality(F[i]) \in Nat /\ ExistsBijection(1 .. Cardinality(F[i]), F[i]) BY FS_CardinalityType
  <2>2. \E f : f \in Surjection(1 .. Cardinality(F[i]), F[i]) BY <2>1 DEF ExistsBijection, Bijection
  <2> QED BY <2>1, <2>2
<1> HIDE DEF onto
<1>2. IsFiniteSet(P)
  <2> DEFINE p == [i \in S |-> {i} \X (lo[i] + 1 .. lo[i] + Cardinality(F[i]))]
  <2>1. ASSUME NEW i \in S PROVE IsFiniteSet(p[i])
    <3>1. IsFiniteSet({i}) BY FS_Singleton
    <3>2. lo[i] + 1 \in Int /\ lo[i] + Cardinality(F[i]) \in Int BY <1>1
    <3>3. IsFiniteSet(lo[i] + 1 .. lo[i] + Cardinality(F[i])) BY <3>2, FS_Interval
    <3>4. IsFiniteSet({i} \X (lo[i] + 1 .. lo[i] + Cardinality(F[i]))) BY <3>1, <3>3, FS_Product
    <3> QED BY <3>4
  <2>2. P = UNION {p[i] : i \in S} OBVIOUS
  <2>3. DOMAIN p = S OBVIOUS
  <2> HIDE DEF p, P
  <2> QED BY <2>1, <2>2, <2>3, UnionFinite
<1>3. g \in Surjection(P, T)
  <2>1. ASSUME NEW x \in P PROVE g[x] \in T
    <3>1. PICK i \in S : x \in {i} \X (lo[i] + 1 .. lo[i] + Cardinality(F[i])) BY <2>1
    <3>2. x[1] = i /\ x[2] \in lo[i] + 1 .. lo[i] + Cardinality(F[i]) BY <3>1
    <3>3. x[2] - lo[i] \in 1 .. Cardinality(F[i]) BY <1>1, <3>2
    <3>4. onto(F[i])[x[2] - lo[i]] \in F[i] BY <1>1, <3>3 DEF Surjection
    <3>5. g[x] = <<i, onto(F[i])[x[2] - lo[i]]>> BY <2>1, <3>2
    <3> HIDE DEF g, P
    <3> QED BY <3>4, <3>5
  <2>2. ASSUME NEW y \in T PROVE \E x \in P : g[x] = y
    <3>1. PICK i \in S : y \in {i} \X F[i] BY <2>2
    <3>2. y = <<i, y[2]>> /\ y[2] \in F[i] BY <3>1
    <3>3. PICK n \in 1 .. Cardinality(F[i]) : onto(F[i])[n] = y[2] BY <1>1, <3>2 DEF Surjection
    <3> DEFINE x == <<i, lo[i] + n>>
    <3>4. lo[i] + n \in lo[i] + 1 .. lo[i] + Cardinality(F[i]) /\ (lo[i] + n) - lo[i] = n BY <1>1, <3>3
    <3>5. x \in P BY <3>4
    <3>6. g[x] = <<i, onto(F[i])[n]>> BY <3>4, <3>5
    <3> HIDE DEF g, P, x
    <3> QED BY <3>2, <3>3, <3>5, <3>6
  <2> HIDE DEF P, T
  <2>3. g \in [P -> T] BY <2>1
  <2> HIDE DEF g
  <2> QED BY <2>2, <2>3 DEF Surjection
<1> HIDE DEF P, T, g
<1>4. IsFiniteSet(T) /\ Cardinality(T) <= Cardinality(P) BY <1>2, <1>3, FS_Surjection
<1> QED BY <1>2, <1>4 DEF P, T


\* So many places for the rows of each of these documents.
Spots(most, S, t) == UNION {{i} \X (1 .. most[i][t]) : i \in S}

LEMMA SpotsFinite ==
  ASSUME NEW S, IsFiniteSet(S), NEW most, NEW t, \A i \in S : most[i][t] \in Nat
  PROVE  IsFiniteSet(Spots(most, S, t)) /\ Cardinality(Spots(most, S, t)) \in Nat
<1> DEFINE f == [i \in S |-> {i} \X (1 .. most[i][t])]
<1>1. ASSUME NEW i \in S PROVE IsFiniteSet(f[i])
  <2>0. 1 \in Int /\ most[i][t] \in Int OBVIOUS
  <2>1. IsFiniteSet({i}) /\ IsFiniteSet(1 .. most[i][t]) BY <2>0, FS_Singleton, FS_Interval
  <2>2. IsFiniteSet({i} \X (1 .. most[i][t])) BY <2>1, FS_Product
  <2> QED BY <2>2
<1>2. Spots(most, S, t) = UNION {f[i] : i \in S} /\ DOMAIN f = S BY DEF Spots
<1> HIDE DEF f
<1>3. IsFiniteSet(Spots(most, S, t)) BY <1>1, <1>2, UnionFinite
<1> QED BY <1>3, FS_CardinalityType

\* More documents, or longer ones, have more places.
LEMMA SpotsGrow ==
  ASSUME NEW S, NEW T, IsFiniteSet(T), S \subseteq T, NEW most, NEW more, NEW t,
         \A i \in T : more[i][t] \in Nat, \A i \in S : most[i][t] \in Nat /\ most[i][t] <= more[i][t]
  PROVE  Cardinality(Spots(most, S, t)) <= Cardinality(Spots(more, T, t))
<1>1. Spots(most, S, t) \subseteq Spots(more, T, t)
  <2> SUFFICES ASSUME NEW i \in S, NEW x \in {i} \X (1 .. most[i][t]) PROVE x \in {i} \X (1 .. more[i][t])
    BY DEF Spots
  <2>1. \A n \in 1 .. most[i][t] : n \in 1 .. more[i][t] OBVIOUS
  <2> QED BY <2>1
<1>2. IsFiniteSet(Spots(more, T, t)) BY SpotsFinite
<1> QED BY <1>1, <1>2, FS_Subset

\* One document more has its own places, and each document has at least these.
LEMMA SpotsMore ==
  ASSUME NEW S, IsFiniteSet(S), NEW id, NEW T, S \subseteq T, id \in T, T \subseteq S \cup {id},
         NEW most, NEW t, \A i \in T : most[i][t] \in Nat
  PROVE  /\ id \notin S => Cardinality(Spots(most, T, t)) = Cardinality(Spots(most, S, t)) + most[id][t]
         /\ id \in S => most[id][t] <= Cardinality(Spots(most, S, t))
<1> DEFINE own == {id} \X (1 .. most[id][t])
<1>1. IsFiniteSet(own) /\ Cardinality(own) = most[id][t]
  <2>1. IsFiniteSet({id}) /\ Cardinality({id}) = 1 BY FS_Singleton
  <2>2. IsFiniteSet(1 .. most[id][t]) /\ Cardinality(1 .. most[id][t]) = most[id][t]
    <3>1. most[id][t] \in Nat OBVIOUS
    <3>2. IsFiniteSet(1 .. most[id][t])
          /\ Cardinality(1 .. most[id][t]) = IF 1 > most[id][t] THEN 0 ELSE most[id][t] - 1 + 1
      BY <3>1, FS_Interval
    <3> QED BY <3>1, <3>2
  <2>3. IsFiniteSet(own) /\ Cardinality(own) = Cardinality({id}) * Cardinality(1 .. most[id][t])
    BY <2>1, <2>2, FS_Product
  <2> QED BY <2>1, <2>2, <2>3
<1>2. IsFiniteSet(Spots(most, S, t)) /\ Cardinality(Spots(most, S, t)) \in Nat BY SpotsFinite
<1>3. ASSUME id \notin S
      PROVE  Cardinality(Spots(most, T, t)) = Cardinality(Spots(most, S, t)) + most[id][t]
  <2>1. Spots(most, T, t) = Spots(most, S, t) \cup own BY DEF Spots
  <2>2. Spots(most, S, t) \cap own = {} BY <1>3 DEF Spots
  <2> HIDE DEF own
  <2>3. /\ IsFiniteSet(Spots(most, S, t) \cup own)
        /\ Cardinality(Spots(most, S, t) \cup own) =
             Cardinality(Spots(most, S, t)) + Cardinality(own) - Cardinality(Spots(most, S, t) \cap own)
    BY <1>1, <1>2, FS_Union
  <2>4. Cardinality(Spots(most, S, t) \cap own) = 0 BY <2>2, FS_EmptySet
  <2>5. most[id][t] \in Nat OBVIOUS
  <2>6. Cardinality(own) = most[id][t] BY <1>1
  <2>7. Cardinality(Spots(most, S, t) \cup own) = Cardinality(Spots(most, S, t)) + most[id][t]
    BY <1>2, <2>3, <2>4, <2>5, <2>6
  <2> QED BY <2>1, <2>7
<1>4. ASSUME id \in S PROVE most[id][t] <= Cardinality(Spots(most, S, t))
  <2>1. own \subseteq Spots(most, S, t) BY <1>4 DEF Spots
  <2> HIDE DEF own
  <2>2. Cardinality(own) <= Cardinality(Spots(most, S, t)) BY <1>2, <2>1, FS_Subset
  <2> QED BY <1>1, <2>2
<1> QED BY <1>3, <1>4


\* All rows of a type, those at the top and those nested, have places of their own.
LEMMA RowsPlaced ==
  ASSUME NEW read, Forms(read), NEW most, NEW t \in Types,
         \A i \in DOMAIN read : most[i][t] \in Nat /\ Counted!HasRows(read[i], t) <= most[i][t]
  PROVE  LET rows == Counted!RowsOf(read)
         IN  Cardinality(Counted!OfType(rows, t)) + Cardinality(UNION {Counted!Under(rows, u, t) : u \in Types})
               <= Cardinality(Spots(most, DOMAIN read, t))
<1> DEFINE rows == Counted!RowsOf(read)
           S == {i \in DOMAIN read : Counted!IsBlocks(read[i])}
           A == Counted!OfType(rows, t)
           B == UNION {Counted!Under(rows, u, t) : u \in Types}
           under(i) == UNION {Counted!Under(read[i], u, t) : u \in Types}
           F1 == [i \in S |-> Counted!OfType(read[i], t)]
           F2 == [i \in S |-> under(i)]
           lo1 == [i \in S |-> 0]
           lo2 == [i \in S |-> Cardinality(F1[i])]
           T1 == UNION {{i} \X F1[i] : i \in S}
           T2 == UNION {{i} \X F2[i] : i \in S}
           P1 == UNION {{i} \X (lo1[i] + 1 .. lo1[i] + Cardinality(F1[i])) : i \in S}
           P2 == UNION {{i} \X (lo2[i] + 1 .. lo2[i] + Cardinality(F2[i])) : i \in S}
           all == Spots(most, DOMAIN read, t)
<1>1. IsFiniteSet(S) BY FS_Subset DEF Forms
<1>2. ASSUME NEW i \in S
      PROVE  /\ IsFiniteSet(F1[i]) /\ Cardinality(F1[i]) \in Nat
             /\ IsFiniteSet(F2[i]) /\ Cardinality(F2[i]) \in Nat
             /\ Cardinality(F1[i]) + Cardinality(F2[i]) <= most[i][t]
             /\ F1[i] = Counted!OfType(read[i], t) /\ F2[i] = under(i)
  <2>1. IsFiniteSet(DOMAIN read[i]) /\ Inners(read[i]) BY DEF Forms, Form
  <2>2. /\ IsFiniteSet(Pairs(read[i])) /\ \A u \in Types : Counted!Under(read[i], u, t) \subseteq Pairs(read[i])
        /\ IsFiniteSet(Counted!OfType(read[i], t))
    BY <2>1, PairsFinite
  <2>3. under(i) \subseteq Pairs(read[i]) BY <2>2
  <2>4. F1[i] = Counted!OfType(read[i], t) /\ F2[i] = under(i) OBVIOUS
  <2>5. Counted!HasRows(read[i], t) = Cardinality(Counted!OfType(read[i], t)) + Cardinality(under(i))
    BY SameCard DEF Counted!HasRows
  <2> HIDE DEF under, F1, F2
  <2>6. IsFiniteSet(F1[i]) /\ IsFiniteSet(F2[i]) BY <2>2, <2>3, <2>4, FS_Subset
  <2>7. Cardinality(F1[i]) \in Nat /\ Cardinality(F2[i]) \in Nat BY <2>6, FS_CardinalityType
  <2> QED BY <2>4, <2>5, <2>6, <2>7
<1>3. IsFiniteSet(T1) /\ IsFiniteSet(P1) /\ Cardinality(T1) <= Cardinality(P1)
  <2>1. \A i \in S : IsFiniteSet(F1[i]) BY <1>2
  <2>2. DOMAIN F1 = S /\ lo1 \in [S -> Nat] OBVIOUS
  <2> HIDE DEF S, F1, lo1
  <2> QED BY <1>1, <2>1, <2>2, Spread
<1>4. IsFiniteSet(T2) /\ IsFiniteSet(P2) /\ Cardinality(T2) <= Cardinality(P2)
  <2>1. \A i \in S : IsFiniteSet(F2[i]) BY <1>2
  <2>2. DOMAIN F2 = S OBVIOUS
  <2>3. lo2 \in [S -> Nat]
    <3>1. \A i \in S : Cardinality(F1[i]) \in Nat BY <1>2
    <3> HIDE DEF F1, S
    <3> QED BY <3>1
  <2> HIDE DEF S, F2, lo2
  <2> QED BY <1>1, <2>1, <2>2, <2>3, Spread
<1>5. /\ DOMAIN rows = UNION {{i} \X DOMAIN read[i] : i \in S}
      /\ \A n \in DOMAIN rows : rows[n] = read[n[1]][n[2]]
  BY DEF Counted!RowsOf
<1>6. A \subseteq T1
  <2> SUFFICES ASSUME NEW n \in A PROVE n \in T1 OBVIOUS
  <2>1. n \in DOMAIN rows /\ rows[n].type = t BY DEF Counted!OfType
  <2>2. PICK i \in S : n \in {i} \X DOMAIN read[i] BY <1>5, <2>1
  <2>3. n = <<i, n[2]>> /\ n[2] \in DOMAIN read[i] /\ rows[n] = read[i][n[2]] BY <1>5, <2>1, <2>2
  <2>4. n[2] \in Counted!OfType(read[i], t) BY <2>1, <2>3 DEF Counted!OfType
  <2> QED BY <2>3, <2>4
<1>7. IsFiniteSet(B) /\ Cardinality(B) <= Cardinality(T2)
  <2> DEFINE g == [x \in T2 |-> <<<<x[1], x[2][1]>>, x[2][2]>>]
             image == {g[x] : x \in T2}
  <2>1. B \subseteq image
    <3> SUFFICES ASSUME NEW u \in Types, NEW y \in Counted!Under(rows, u, t) PROVE y \in image
      OBVIOUS
    <3>1. PICK n \in Counted!OfType(rows, u) : y \in {<<n, m>> : m \in {k \in DOMAIN rows[n].inner : rows[n].inner[k] = t}}
      BY DEF Counted!Under
    <3>2. PICK m \in DOMAIN rows[n].inner : y = <<n, m>> /\ rows[n].inner[m] = t BY <3>1
    <3>3. n \in DOMAIN rows /\ rows[n].type = u BY DEF Counted!OfType
    <3>4. PICK i \in S : n \in {i} \X DOMAIN read[i] BY <1>5, <3>3
    <3>5. n = <<i, n[2]>> /\ n[2] \in DOMAIN read[i] /\ rows[n] = read[i][n[2]] BY <1>5, <3>3, <3>4
    <3>6. n[2] \in Counted!OfType(read[i], u) BY <3>3, <3>5 DEF Counted!OfType
    <3>7. <<n[2], m>> \in Counted!Under(read[i], u, t) BY <3>2, <3>5, <3>6 DEF Counted!Under
    <3>8. <<n[2], m>> \in F2[i] BY <3>7
    <3>9. <<i, <<n[2], m>>>> \in T2 BY <3>8
    <3> HIDE DEF T2
    <3>10. g[<<i, <<n[2], m>>>>] = <<<<i, n[2]>>, m>> BY <3>9
    <3>11. g[<<i, <<n[2], m>>>>] = y BY <3>2, <3>5, <3>10
    <3> HIDE DEF g
    <3> QED BY <3>9, <3>11
  <2> HIDE DEF T2, B
  <2>2. g \in Surjection(T2, image) BY DEF Surjection
  <2> HIDE DEF g, image
  <2>3. IsFiniteSet(image) /\ Cardinality(image) <= Cardinality(T2) BY <1>4, <2>2, FS_Surjection
  <2>4. IsFiniteSet(B) /\ Cardinality(B) <= Cardinality(image) BY <2>1, <2>3, FS_Subset
  <2> QED BY <1>4, <2>3, <2>4, FS_CardinalityType
<1>8. IsFiniteSet(A) /\ Cardinality(A) <= Cardinality(T1)
  <2> HIDE DEF A, T1
  <2> QED BY <1>3, <1>6, FS_Subset
<1>9. P1 \cap P2 = {}
  <2> SUFFICES ASSUME NEW x \in P1, x \in P2 PROVE FALSE OBVIOUS
  <2>1. PICK i \in S : x \in {i} \X (lo1[i] + 1 .. lo1[i] + Cardinality(F1[i])) OBVIOUS
  <2>2. PICK j \in S : x \in {j} \X (lo2[j] + 1 .. lo2[j] + Cardinality(F2[j])) OBVIOUS
  <2>3. x[1] = i /\ x[1] = j BY <2>1, <2>2
  <2>4. lo1[i] = 0 /\ lo2[i] = Cardinality(F1[i]) OBVIOUS
  <2>5. Cardinality(F1[i]) \in Nat /\ Cardinality(F2[i]) \in Nat BY <1>2
  <2> HIDE DEF lo1, lo2, F1, F2
  <2>6. x[2] \in 1 .. Cardinality(F1[i]) BY <2>1, <2>4, <2>5
  <2>7. x[2] \in Cardinality(F1[i]) + 1 .. Cardinality(F1[i]) + Cardinality(F2[i]) BY <2>2, <2>3, <2>4, <2>5
  <2> QED BY <2>5, <2>6, <2>7
<1>10. P1 \cup P2 \subseteq all
  <2>1. ASSUME NEW i \in S, NEW n, n \in 1 .. Cardinality(F1[i]) \/ n \in Cardinality(F1[i]) + 1 .. Cardinality(F1[i]) + Cardinality(F2[i])
        PROVE  n \in 1 .. most[i][t]
    <3>1. /\ Cardinality(F1[i]) \in Nat /\ Cardinality(F2[i]) \in Nat
          /\ Cardinality(F1[i]) + Cardinality(F2[i]) <= most[i][t] /\ most[i][t] \in Nat
      BY <1>2
    <3> HIDE DEF F1, F2
    <3> QED BY <2>1, <3>1
  <2>2. ASSUME NEW i \in S PROVE lo1[i] = 0 /\ lo2[i] = Cardinality(F1[i]) /\ Cardinality(F1[i]) \in Nat /\ i \in DOMAIN read
    BY <1>2
  <2> HIDE DEF F1, F2, lo1, lo2, S
  <2>3. ASSUME NEW x \in P1 PROVE x \in all
    <3>1. PICK i \in S : x \in {i} \X (lo1[i] + 1 .. lo1[i] + Cardinality(F1[i])) BY <2>3
    <3>2. x[2] \in 1 .. Cardinality(F1[i]) BY <2>2, <3>1
    <3>3. x \in {i} \X (1 .. most[i][t]) BY <2>1, <3>1, <3>2
    <3> QED BY <2>2, <3>3 DEF Spots
  <2>4. ASSUME NEW x \in P2 PROVE x \in all
    <3>1. PICK i \in S : x \in {i} \X (lo2[i] + 1 .. lo2[i] + Cardinality(F2[i])) BY <2>4
    <3>2. x[2] \in Cardinality(F1[i]) + 1 .. Cardinality(F1[i]) + Cardinality(F2[i]) BY <2>2, <3>1
    <3>3. x \in {i} \X (1 .. most[i][t]) BY <2>1, <3>1, <3>2
    <3> QED BY <2>2, <3>3 DEF Spots
  <2> HIDE DEF P1, P2, all
  <2> QED BY <2>3, <2>4
<1>11. IsFiniteSet(all) /\ Cardinality(all) \in Nat
  <2>1. IsFiniteSet(DOMAIN read) BY DEF Forms
  <2> QED BY <2>1, SpotsFinite
<1> HIDE DEF rows, A, B, T1, T2, P1, P2, all
<1>12. Cardinality(P1 \cup P2) <= Cardinality(all) BY <1>10, <1>11, FS_Subset
<1>13. Cardinality(P1 \cup P2) = Cardinality(P1) + Cardinality(P2) - Cardinality(P1 \cap P2) BY <1>3, <1>4, FS_Union
<1>14. Cardinality(P1 \cap P2) = 0 BY <1>9, FS_EmptySet
<1>15. /\ Cardinality(P1) \in Nat /\ Cardinality(P2) \in Nat /\ Cardinality(T1) \in Nat /\ Cardinality(T2) \in Nat
       /\ Cardinality(A) \in Nat /\ Cardinality(B) \in Nat
  BY <1>3, <1>4, <1>7, <1>8, FS_CardinalityType
<1>16. Cardinality(A) + Cardinality(B) <= Cardinality(all)
  BY <1>3, <1>4, <1>7, <1>8, <1>11, <1>12, <1>13, <1>14, <1>15
<1> QED BY <1>16 DEF A, B, rows, all


\* An entity has no more rows of a type, at any position, than the documents it counts had at
\* their longest, which is so many.
Within(most, e, t) == Cardinality(Spots(most, e.keys \cup e.folded, t))

Pays(most, e) ==
  /\ e.keys \cup e.folded \subseteq Ids
  /\ \A t \in Types : /\ e.count[t] <= Within(most, e, t)
                      /\ \A w \in {Counted!Top, Counted!Nested} : e.paths[w][t] <= Within(most, e, t)

\* A layout is no longer than its document ever was.
Covers(most, id, L) == \A t \in Types : Counted!HasRows(L, t) <= most[id][t]

Heights == [Ids -> [Types -> Nat]]

LEMMA PathsCounted ==
  ASSUME Countable, NEW R, IsFiniteSet(DOMAIN R), Inners(R), NEW keep \in BOOLEAN, NEW t \in Types
  PROVE  LET ov == Counted!Count(R, keep)
         IN  /\ ov.count[t] = Cardinality(Counted!OfType(R, t)) + Cardinality(UNION {Counted!Under(R, u, t) : u \in Types})
             /\ ov.count[t] \in Nat
             /\ \A w \in {Counted!Top, Counted!Nested} : ov.paths[w][t] \in Nat /\ ov.paths[w][t] <= ov.count[t]
<1> DEFINE ov == Counted!Count(R, keep)
           top(u) == Cardinality(Counted!OfType(R, u))
           under(v) == UNION {Counted!Under(R, u, v) : u \in Types}
           nested(u) == Cardinality(under(u))
<1>1. /\ ov.paths = [w \in {Counted!Top, Counted!Nested} |->
                      [u \in Types |-> IF w = Counted!Top THEN top(u) ELSE nested(u)]]
      /\ ov.count = [u \in Types |-> top(u) + nested(u)]
  BY SameCard DEF Counted!Count
<1>2. top(t) \in Nat /\ nested(t) \in Nat
  <2>1. IsFiniteSet(Counted!OfType(R, t)) BY PairsFinite
  <2>2. IsFiniteSet(Pairs(R)) /\ under(t) \subseteq Pairs(R) BY PairsFinite
  <2>3. IsFiniteSet(under(t)) BY <2>2, FS_Subset
  <2> HIDE DEF under
  <2> QED BY <2>1, <2>3, FS_CardinalityType
<1> HIDE DEF ov, top, nested
<1>3. ov.count[t] = top(t) + nested(t) BY <1>1
<1>4. ASSUME NEW w \in {Counted!Top, Counted!Nested}
      PROVE  ov.paths[w][t] = IF w = Counted!Top THEN top(t) ELSE nested(t)
  BY <1>1
<1>5. ov.count[t] \in Nat /\ \A w \in {Counted!Top, Counted!Nested} : ov.paths[w][t] \in Nat /\ ov.paths[w][t] <= ov.count[t]
  BY <1>2, <1>3, <1>4
<1>6. ov.count[t] = Cardinality(Counted!OfType(R, t)) + Cardinality(UNION {Counted!Under(R, u, t) : u \in Types})
  BY <1>3 DEF top, nested
<1> QED BY <1>5, <1>6 DEF ov

\* A document not counted yet brings its own places; one that is counted has them.
LEMMA OverlayPays ==
  ASSUME Sane, Countable, NEW e, Fit(e), NEW most \in Heights, Pays(most, e), NEW id \in Ids, NEW L, Form(L),
         Covers(most, id, L)
  PROVE  Pays(most, Counted!Overlay(e, id, L, TRUE))
<1> DEFINE ov == Counted!Count(L, TRUE)
           S == e.keys \cup e.folded
           f == IF id \in S THEN Counted!Refreshed(e, ov, TRUE) ELSE Counted!Added(e, ov, TRUE)
           o == Counted!Overlay(e, id, L, TRUE)
           W == {Counted!Top, Counted!Nested}
<1>1. CASE ~Counted!IsBlocks(L) BY <1>1 DEF Counted!Overlay
<1>2. CASE Counted!IsBlocks(L)
  <2>1. o = [f EXCEPT !.folded = @ \cup {id}] BY <1>2 DEF Counted!Overlay
  <2>2. Counts(ov) BY CountFits DEF Form
  <2>3. ASSUME NEW t \in Types
        PROVE  /\ ov.count[t] \in Nat /\ ov.count[t] <= most[id][t]
               /\ \A w \in W : ov.paths[w][t] \in Nat /\ ov.paths[w][t] <= most[id][t]
    <3>1. /\ ov.count[t] = Cardinality(Counted!OfType(L, t)) + Cardinality(UNION {Counted!Under(L, u, t) : u \in Types})
          /\ ov.count[t] \in Nat /\ \A w \in W : ov.paths[w][t] \in Nat /\ ov.paths[w][t] <= ov.count[t]
      BY PathsCounted DEF Form
    <3>2. Counted!HasRows(L, t) = ov.count[t] BY <3>1, SameCard DEF Counted!HasRows
    <3>3. ov.count[t] <= most[id][t] /\ most[id][t] \in Nat BY <3>2 DEF Covers, Heights
    <3> HIDE DEF ov
    <3> QED BY <3>1, <3>3
  <2> HIDE DEF ov
  <2>4. Fit(f) BY <2>2, AddedFits, RefreshedFits
  <2>5. f.keys = e.keys /\ f.folded = e.folded BY DEF Counted!Added, Counted!Refreshed, Fit
  <2>6. ASSUME NEW t \in Types
        PROVE  /\ id \in S => f.count[t] = IF e.count[t] = 0 THEN ov.count[t] ELSE e.count[t]
               /\ id \in S => \A w \in W : f.paths[w][t] = IF e.paths[w][t] = 0 THEN ov.paths[w][t] ELSE e.paths[w][t]
               /\ id \notin S => f.count[t] = e.count[t] + ov.count[t]
               /\ id \notin S => \A w \in W : f.paths[w][t] = e.paths[w][t] + ov.paths[w][t]
    BY DEF Counted!Added, Counted!Refreshed, Counted!New, Fit, Counts
  <2> HIDE DEF f, o
  <2>7. o.paths = f.paths /\ o.count = f.count /\ o.keys \cup o.folded = S \cup {id}
    BY <2>1, <2>4, <2>5 DEF Fit
  <2>8. S \cup {id} \subseteq Ids /\ IsFiniteSet(S) BY FS_Subset DEF Pays, Sane
  <2>9. ASSUME NEW t \in Types
        PROVE  /\ o.count[t] <= Within(most, o, t)
               /\ \A w \in W : o.paths[w][t] <= Within(most, o, t)
    <3> DEFINE T == S \cup {id}
               had == Cardinality(Spots(most, S, t))
               has == Cardinality(Spots(most, T, t))
    <3>1. Within(most, o, t) = has /\ Within(most, e, t) = had BY <2>7 DEF Within
    <3>2. \A i \in T : most[i][t] \in Nat BY <2>8 DEF Heights
    <3>3. had \in Nat BY <2>8, <3>2, SpotsFinite
    <3>4. most[id][t] \in Nat BY <3>2
    <3>5. /\ id \notin S => has = had + most[id][t]
          /\ id \in S => most[id][t] <= had
      <4>1. S \subseteq T /\ id \in T /\ T \subseteq S \cup {id} /\ IsFiniteSet(S) BY <2>8
      <4> HIDE DEF S, T
      <4> QED BY <3>2, <4>1, SpotsMore
    <3>6. id \in S => most[id][t] <= had BY <3>5
    <3>7. id \in S => has = had
      <4>1. id \in S => S \cup {id} = S OBVIOUS
      <4> QED BY <4>1
    <3>8. /\ e.count[t] \in Nat /\ e.count[t] <= had
          /\ \A w \in W : e.paths[w][t] \in Nat /\ e.paths[w][t] <= had
      BY <3>1 DEF Fit, Counts, Pays
    <3> HIDE DEF had, has, T, S, W
    <3>9. CASE id \in S
      <4>1. o.count[t] <= has BY <2>3, <2>6, <2>7, <3>3, <3>4, <3>6, <3>7, <3>8, <3>9
      <4>2. ASSUME NEW w \in W PROVE o.paths[w][t] <= has
        <5>1. o.paths[w][t] = IF e.paths[w][t] = 0 THEN ov.paths[w][t] ELSE e.paths[w][t] BY <2>6, <2>7, <3>9
        <5>2. ov.paths[w][t] \in Nat /\ ov.paths[w][t] <= most[id][t] BY <2>3
        <5>3. e.paths[w][t] \in Nat /\ e.paths[w][t] <= had BY <3>8
        <5> QED BY <3>3, <3>4, <3>6, <3>7, <3>9, <5>1, <5>2, <5>3
      <4> QED BY <3>1, <4>1, <4>2
    <3>10. CASE id \notin S
      <4>1. o.count[t] <= has BY <2>3, <2>6, <2>7, <3>3, <3>4, <3>5, <3>8, <3>10
      <4>2. ASSUME NEW w \in W PROVE o.paths[w][t] <= has
        <5>1. o.paths[w][t] = e.paths[w][t] + ov.paths[w][t] BY <2>6, <2>7, <3>10
        <5>2. ov.paths[w][t] \in Nat /\ ov.paths[w][t] <= most[id][t] BY <2>3
        <5>3. e.paths[w][t] \in Nat /\ e.paths[w][t] <= had BY <3>8
        <5> QED BY <3>3, <3>4, <3>5, <3>10, <5>1, <5>2, <5>3
      <4> QED BY <3>1, <4>1, <4>2
    <3> QED BY <3>9, <3>10
  <2>10. Pays(most, o) BY <2>7, <2>8, <2>9 DEF Pays
  <2> QED BY <2>10 DEF o
<1> QED BY <1>1, <1>2


-----------------------------------------------------------------------------
\* So does every entity a command holds, and no layout it has read is longer than that.
Paid(most, r) ==
  /\ r.at \in Busy => /\ \A s \in Slugs : r.mem[s] = Nil \/ Pays(most[s], r.mem[s])
                      /\ \A s \in DOMAIN r.built : s \in Slugs /\ Pays(most[s], r.built[s])
  /\ r.at \in {"read", "oldest"} => \A i \in DOMAIN r.read : i \in Ids /\ Covers(most[r.slug], i, r.read[i])
  /\ r.at = "fold" => r.id \in Ids /\ Covers(most[r.slug], r.id, r.echo)

PeakInv ==
  /\ cPeak \in [Slugs -> Heights]
  /\ \A s \in Slugs, i \in Ids : cDocs[s][i] \in {Nil, Deleted} \/ Covers(cPeak[s], i, cDocs[s][i])
  /\ \A s \in Slugs : cDisk[s] = Nil \/ Pays(cPeak[s], cDisk[s])
  /\ \A p \in Procs : Paid(cPeak, cProc[p])

LEMMA RowsNumbered ==
  ASSUME NEW L, Form(L), NEW t \in Types PROVE Counted!HasRows(L, t) \in Nat
<1> DEFINE A == Counted!OfType(L, t)
           B == UNION {Counted!Under(L, u, t) : u \in Types}
<1>1. IsFiniteSet(A) BY PairsFinite DEF Form
<1>2. IsFiniteSet(Pairs(L)) /\ B \subseteq Pairs(L) BY PairsFinite DEF Form
<1>3. IsFiniteSet(B) BY <1>2, FS_Subset
<1>4. Counted!HasRows(L, t) = Cardinality(A) + Cardinality(B) BY SameCard DEF Counted!HasRows
<1> HIDE DEF A, B
<1> QED BY <1>1, <1>3, <1>4, FS_CardinalityType

\* Documents only grow taller.
Taller(most, more) == \A i \in Ids, t \in Types : most[i][t] <= more[i][t]

LEMMA CoversGrow ==
  ASSUME NEW most \in Heights, NEW more \in Heights, Taller(most, more), NEW i \in Ids, NEW L, Form(L),
         Covers(most, i, L)
  PROVE  Covers(more, i, L)
<1> SUFFICES ASSUME NEW t \in Types PROVE Counted!HasRows(L, t) <= more[i][t] BY DEF Covers
<1>1. Counted!HasRows(L, t) \in Nat BY RowsNumbered
<1>2. Counted!HasRows(L, t) <= most[i][t] /\ most[i][t] <= more[i][t] BY DEF Covers, Taller
<1>3. most[i][t] \in Nat /\ more[i][t] \in Nat BY DEF Heights
<1> QED BY <1>1, <1>2, <1>3

LEMMA PaysGrow ==
  ASSUME Sane, NEW most \in Heights, NEW more \in Heights, Taller(most, more), NEW e, Fit(e), Pays(most, e)
  PROVE  Pays(more, e)
<1> DEFINE S == e.keys \cup e.folded
<1>1. S \subseteq Ids /\ IsFiniteSet(S) BY FS_Subset DEF Pays, Sane
<1>2. ASSUME NEW t \in Types
      PROVE  /\ e.count[t] <= Within(more, e, t)
             /\ \A w \in {Counted!Top, Counted!Nested} : e.paths[w][t] <= Within(more, e, t)
  <2>1. \A i \in S : most[i][t] \in Nat /\ more[i][t] \in Nat /\ most[i][t] <= more[i][t]
    BY <1>1 DEF Heights, Taller
  <2>2. Within(most, e, t) = Cardinality(Spots(most, S, t)) /\ Within(more, e, t) = Cardinality(Spots(more, S, t))
    BY DEF Within
  <2> HIDE DEF S
  <2>3. Within(most, e, t) <= Within(more, e, t) BY <1>1, <2>1, <2>2, SpotsGrow
  <2>4. Within(most, e, t) \in Nat /\ Within(more, e, t) \in Nat BY <1>1, <2>1, <2>2, SpotsFinite
  <2>5. e.count[t] \in Nat /\ \A w \in {Counted!Top, Counted!Nested} : e.paths[w][t] \in Nat BY DEF Fit, Counts
  <2>6. /\ e.count[t] <= Within(most, e, t)
        /\ \A w \in {Counted!Top, Counted!Nested} : e.paths[w][t] <= Within(most, e, t)
    BY DEF Pays
  <2>7. ASSUME NEW w \in {Counted!Top, Counted!Nested} PROVE e.paths[w][t] <= Within(more, e, t)
    <3>1. e.paths[w][t] \in Nat BY <2>5
    <3>2. e.paths[w][t] <= Within(most, e, t) BY <2>6
    <3> QED BY <2>3, <2>4, <3>1, <3>2
  <2> QED BY <2>3, <2>4, <2>5, <2>6, <2>7
<1> QED BY <1>1, <1>2 DEF Pays

LEMMA PaidGrow ==
  ASSUME Sane, NEW most \in [Slugs -> Heights], NEW more \in [Slugs -> Heights],
         \A s \in Slugs : Taller(most[s], more[s]), NEW r, Upholds(r), Paid(most, r)
  PROVE  Paid(more, r)
<1>1. ASSUME r.at \in Busy
      PROVE  /\ \A s \in Slugs : r.mem[s] = Nil \/ Pays(more[s], r.mem[s])
             /\ \A s \in DOMAIN r.built : s \in Slugs /\ Pays(more[s], r.built[s])
  <2>1. ASSUME NEW s \in Slugs, r.mem[s] # Nil PROVE Pays(more[s], r.mem[s])
    <3>1. Fit(r.mem[s]) BY <1>1, <2>1 DEF Upholds, Fits
    <3>2. Pays(most[s], r.mem[s]) BY <1>1, <2>1 DEF Paid
    <3> QED BY <3>1, <3>2, PaysGrow
  <2>2. ASSUME NEW s \in DOMAIN r.built PROVE s \in Slugs /\ Pays(more[s], r.built[s])
    <3>1. Fit(r.built[s]) BY <1>1 DEF Upholds
    <3>2. s \in Slugs /\ Pays(most[s], r.built[s]) BY <1>1 DEF Paid
    <3> QED BY <3>1, <3>2, PaysGrow
  <2> QED BY <2>1, <2>2
<1>2. ASSUME r.at \in {"read", "oldest"}, NEW i \in DOMAIN r.read
      PROVE  i \in Ids /\ Covers(more[r.slug], i, r.read[i])
  <2>1. r.slug \in Slugs /\ Form(r.read[i]) BY <1>2 DEF Upholds, Forms
  <2>2. i \in Ids /\ Covers(most[r.slug], i, r.read[i]) BY <1>2 DEF Paid
  <2> QED BY <2>1, <2>2, CoversGrow
<1>3. ASSUME r.at = "fold" PROVE r.id \in Ids /\ Covers(more[r.slug], r.id, r.echo)
  <2>1. r.slug \in Slugs /\ Form(r.echo) BY <1>3 DEF Upholds
  <2>2. r.id \in Ids /\ Covers(most[r.slug], r.id, r.echo) BY <1>3 DEF Paid
  <2> QED BY <2>1, <2>2, CoversGrow
<1> QED BY <1>1, <1>2, <1>3 DEF Paid

LEMMA PeakInit == ASSUME Tidy, Counted!Init PROVE PeakInv
<1>1. cDocs \in Starts /\ (\A s \in Slugs : cDisk[s] = Nil) /\ \A p \in Procs : cProc[p] = Counted!Idle
  BY DEF Counted!Init
<1>2. cPeak = [s \in Slugs |-> [i \in Ids |-> [t \in Types |->
                IF cDocs[s][i] = Nil THEN 0 ELSE Counted!HasRows(cDocs[s][i], t)]]]
  BY DEF Counted!Init
<1>3. ASSUME NEW s \in Slugs, NEW i \in Ids, cDocs[s][i] # Nil PROVE Form(cDocs[s][i])
  BY <1>1, <1>3 DEF Tidy
<1>4. ASSUME NEW s \in Slugs, NEW i \in Ids, NEW t \in Types
      PROVE  /\ cPeak[s][i][t] \in Nat
             /\ cDocs[s][i] # Nil => cPeak[s][i][t] = Counted!HasRows(cDocs[s][i], t)
  BY <1>2, <1>3, RowsNumbered
<1>5. cPeak \in [Slugs -> Heights]
  <2>1. \A s \in Slugs, i \in Ids, t \in Types :
          (IF cDocs[s][i] = Nil THEN 0 ELSE Counted!HasRows(cDocs[s][i], t)) \in Nat
    BY <1>3, RowsNumbered
  <2> QED BY <1>2, <2>1 DEF Heights
<1>6. ASSUME NEW s \in Slugs, NEW i \in Ids, cDocs[s][i] # Nil PROVE Covers(cPeak[s], i, cDocs[s][i])
  <2>1. \A t \in Types : Counted!HasRows(cDocs[s][i], t) = cPeak[s][i][t] /\ cPeak[s][i][t] \in Nat
    BY <1>4, <1>6
  <2> QED BY <2>1 DEF Covers
<1>7. Paid(cPeak, Counted!Idle) BY DEF Paid, Busy, Counted!Idle
<1> QED BY <1>1, <1>5, <1>6, <1>7 DEF PeakInv


LEMMA IdlePaid == Paid(cPeak, Counted!Idle)
BY DEF Paid, Busy, Counted!Idle

\* When a command steps and neither a document nor the file changes.
LEMMA OnePaid ==
  ASSUME ReadInv, PeakInv, UNCHANGED <<cDocs, cPeak, cDisk>>, NEW p \in Procs, NEW x, Paid(cPeak, x),
         cProc' = [cProc EXCEPT ![p] = x]
  PROVE  PeakInv'
<1>1. \A q \in Procs : Paid(cPeak, cProc'[q]) BY DEF ReadInv, PeakInv
<1> QED BY <1>1 DEF PeakInv

LEMMA EndsPaid ==
  ASSUME Countable, PeakInv, NEW r, Upholds(r), Paid(cPeak, r), r.at \in {"read", "oldest"},
         NEW read, Forms(read), \A i \in DOMAIN read : i \in Ids /\ Covers(cPeak[r.slug], i, read[i]),
         NEW truncated, NEW early, NEW error
  PROVE  Paid(cPeak, Counted!Ended(r, read, truncated, early, error))
<1> DEFINE rows == Counted!RowsOf(read)
           seen == Counted!Count(rows, FALSE)
           e == [paths |-> seen.paths, count |-> seen.count, style |-> seen.style, accepts |-> seen.accepts,
                 builtAt |-> r.began, max |-> r.cmd.max, truncated |-> truncated, early |-> early,
                 error |-> error, keys |-> DOMAIN read, folded |-> {}]
           x == Counted!Ended(r, read, truncated, early, error)
           most == cPeak[r.slug]
<1>1. /\ x.at = "build" /\ x.mem = r.mem
      /\ x.built = [s \in DOMAIN r.built \cup {r.slug} |-> IF s = r.slug THEN e ELSE r.built[s]]
  BY DEF Counted!Ended
<1>2. r.slug \in Slugs /\ most \in Heights BY DEF Upholds, PeakInv
<1>3. ASSUME NEW t \in Types
      PROVE  /\ seen.count[t] <= Within(most, e, t)
             /\ \A w \in {Counted!Top, Counted!Nested} : seen.paths[w][t] <= Within(most, e, t)
  <2>1. IsFiniteSet(DOMAIN rows) /\ Inners(rows) BY RowsFit
  <2>2. /\ seen.count[t] = Cardinality(Counted!OfType(rows, t)) + Cardinality(UNION {Counted!Under(rows, u, t) : u \in Types})
        /\ seen.count[t] \in Nat
        /\ \A w \in {Counted!Top, Counted!Nested} : seen.paths[w][t] \in Nat /\ seen.paths[w][t] <= seen.count[t]
    <3> HIDE DEF rows
    <3> QED BY <2>1, PathsCounted
  <2>3. \A i \in DOMAIN read : most[i][t] \in Nat /\ Counted!HasRows(read[i], t) <= most[i][t]
    BY <1>2 DEF Heights, Covers
  <2>4. Cardinality(Counted!OfType(rows, t)) + Cardinality(UNION {Counted!Under(rows, u, t) : u \in Types})
          <= Cardinality(Spots(most, DOMAIN read, t))
    <3> HIDE DEF most
    <3> QED BY <2>3, RowsPlaced
  <2>5. IsFiniteSet(DOMAIN read) BY DEF Forms
  <2>6. e.keys \cup e.folded = DOMAIN read OBVIOUS
  <2>7. Within(most, e, t) = Cardinality(Spots(most, DOMAIN read, t)) BY <2>6 DEF Within
  <2> HIDE DEF seen, e, most, rows
  <2>8. Within(most, e, t) \in Nat BY <2>3, <2>5, <2>7, SpotsFinite
  <2>9. seen.count[t] <= Within(most, e, t) BY <2>2, <2>4, <2>7
  <2>10. ASSUME NEW w \in {Counted!Top, Counted!Nested} PROVE seen.paths[w][t] <= Within(most, e, t)
    <3>1. seen.paths[w][t] \in Nat /\ seen.paths[w][t] <= seen.count[t] BY <2>2
    <3> QED BY <2>2, <2>8, <2>9, <3>1
  <2> QED BY <2>9, <2>10
<1>4. e.count = seen.count /\ e.paths = seen.paths /\ e.keys \cup e.folded = DOMAIN read OBVIOUS
<1> HIDE DEF seen, e, x, rows
<1>5. Pays(most, e) BY <1>3, <1>4 DEF Pays
<1>6. ASSUME NEW s \in DOMAIN x.built PROVE s \in Slugs /\ Pays(cPeak[s], x.built[s])
  <2>1. CASE s = r.slug BY <1>1, <1>2, <1>5, <2>1
  <2>2. CASE s # r.slug BY <1>1, <2>2 DEF Paid, Busy
  <2> QED BY <2>1, <2>2
<1>7. \A s \in Slugs : x.mem[s] = Nil \/ Pays(cPeak[s], x.mem[s]) BY <1>1 DEF Paid, Busy
<1>8. Paid(cPeak, x) BY <1>1, <1>6, <1>7 DEF Paid
<1> QED BY <1>8 DEF x

LEMMA ConsumePaid ==
  ASSUME PeakInv, NEW r, r.slug \in Slugs, r.at \in {"read", "oldest"}, Paid(cPeak, r), NEW order, NEW n, NEW limit
  PROVE  LET read == Counted!Consume(r, Counted!Page(Counted!Live(r.slug), order, n, limit), order)
         IN  \A i \in DOMAIN read : i \in Ids /\ Covers(cPeak[r.slug], i, read[i])
<1> DEFINE live == Counted!Live(r.slug)
           read == Counted!Consume(r, Counted!Page(live, order, n, limit), order)
<1>1. DOMAIN read \subseteq DOMAIN r.read \cup live BY Consumed
<1>2. ASSUME NEW i \in DOMAIN read PROVE read[i] = IF i \in DOMAIN r.read THEN r.read[i] ELSE cDocs[r.slug][i]
  BY DEF Counted!Consume
<1>3. ASSUME NEW i \in live PROVE i \in Ids /\ Covers(cPeak[r.slug], i, cDocs[r.slug][i])
  BY DEF PeakInv, Counted!Live
<1>4. ASSUME NEW i \in DOMAIN r.read PROVE i \in Ids /\ Covers(cPeak[r.slug], i, r.read[i])
  BY DEF Paid
<1> HIDE DEF live, read
<1>5. \A i \in DOMAIN read : i \in Ids /\ Covers(cPeak[r.slug], i, read[i]) BY <1>1, <1>2, <1>3, <1>4
<1> QED BY <1>5 DEF read, live

LEMMA GoesOnPaid ==
  ASSUME NEW r, Paid(cPeak, r), r.at \in {"read", "oldest"}, NEW x, x.at \in {"read", "oldest"},
         x.mem = r.mem, x.built = r.built, x.slug = r.slug,
         \A i \in DOMAIN x.read : i \in Ids /\ Covers(cPeak[r.slug], i, x.read[i])
  PROVE  Paid(cPeak, x)
BY DEF Paid, Busy

LEMMA EnsuresPaid == ASSUME ReadInv, PeakInv, NEW p \in Procs, Counted!Ensures(p) PROVE PeakInv'
<1>1. PICK c \in Reads :
        LET mem  == IF c.refresh THEN [s \in Slugs |-> Nil] ELSE cDisk
            todo == {s \in c.only : mem[s] = Nil \/ c.force
                       \/ ~(Counted!Reusable(mem[s], c.max) \/ (c.wide /\ Counted!BlocklessReusable(mem[s], s, c.max)))}
        IN  cProc' = [cProc EXCEPT ![p] =
              IF todo = {} THEN Counted!Idle
              ELSE [at |-> "build", cmd |-> c, mem |-> mem, todo |-> todo, built |-> <<>>, missed |-> {}]]
  BY Zenon DEF Counted!Ensures
<1> DEFINE mem == IF c.refresh THEN [s \in Slugs |-> Nil] ELSE cDisk
<1>2. PICK todo :
        \/ cProc' = [cProc EXCEPT ![p] = Counted!Idle]
        \/ cProc' = [cProc EXCEPT ![p] =
             [at |-> "build", cmd |-> c, mem |-> mem, todo |-> todo, built |-> <<>>, missed |-> {}]]
  BY <1>1, Zenon
<1> DEFINE x == [at |-> "build", cmd |-> c, mem |-> mem, todo |-> todo, built |-> <<>>, missed |-> {}]
<1>3. \A s \in Slugs : mem[s] = Nil \/ Pays(cPeak[s], mem[s]) BY DEF PeakInv
<1> HIDE DEF mem
<1>4. x.at = "build" /\ x.mem = mem /\ DOMAIN x.built = {} OBVIOUS
<1>5. \/ cProc' = [cProc EXCEPT ![p] = Counted!Idle]
      \/ cProc' = [cProc EXCEPT ![p] = x]
  BY <1>2
<1> HIDE DEF x
<1>6. Paid(cPeak, x) BY <1>3, <1>4 DEF Paid
<1>7. UNCHANGED <<cDocs, cPeak, cDisk>> BY DEF Counted!Ensures
<1> QED BY <1>5, <1>6, <1>7, IdlePaid, OnePaid

LEMMA StartsPaid == ASSUME ReadInv, PeakInv, NEW p \in Procs, Counted!Starts1(p) PROVE PeakInv'
<1> DEFINE r == cProc[p]
           x(s) == [at |-> "read", cmd |-> r.cmd, mem |-> r.mem, todo |-> r.todo \ {s}, built |-> r.built,
                    missed |-> r.missed, slug |-> s, page |-> 1, read |-> <<>>, total |-> 0, sampled |-> FALSE,
                    began |-> cClock, there |-> Counted!Live(s)]
<1>1. PICK s \in r.todo : cProc' = [cProc EXCEPT ![p] = x(s)]
  BY DEF Counted!Starts1, ReadInv
<1>2. Paid(cPeak, r) /\ r.at = "build" BY DEF PeakInv, Counted!Starts1
<1>3. x(s).at = "read" /\ x(s).mem = r.mem /\ x(s).built = r.built /\ DOMAIN x(s).read = {} OBVIOUS
<1> HIDE DEF x
<1>4. Paid(cPeak, x(s)) BY <1>2, <1>3 DEF Paid, Busy
<1> QED BY <1>1, <1>4, OnePaid DEF Counted!Starts1


LEMMA PagePaid ==
  ASSUME Sane, Countable, ReadInv, SoundInv, PeakInv, NEW p \in Procs, Counted!ReadsPage(p) PROVE PeakInv'
<1> DEFINE r     == cProc[p]
           read  == Counted!Consume(r, Counted!Page(Counted!Live(r.slug), "newest", r.page, Counted!Limit(r)), "newest")
<1>1. PICK total, left :
        \/ cProc' = [cProc EXCEPT ![p] = Counted!Ended(r, read, left, FALSE, FALSE)]
        \/ cProc' = [cProc EXCEPT ![p] =
             [r EXCEPT !.at = "oldest", !.read = read, !.total = total, !.sampled = TRUE]]
        \/ cProc' = [cProc EXCEPT ![p] = [r EXCEPT !.read = read, !.total = total, !.page = @ + 1]]
  BY Zenon DEF Counted!ReadsPage
<1>2. Upholds(r) /\ Paid(cPeak, r) /\ r.at = "read" /\ Complete(r)
  BY DEF SoundInv, PeakInv, ReadInv, Counted!ReadsPage
<1>3. Forms(read) BY <1>2, ConsumeSound DEF Upholds
<1>4. \A i \in DOMAIN read : i \in Ids /\ Covers(cPeak[r.slug], i, read[i]) BY <1>2, ConsumePaid DEF Upholds
<1>5. Fields(r) \subseteq DOMAIN r BY <1>2 DEF Complete, Busy
<1> DEFINE old  == [r EXCEPT !.at = "oldest", !.read = read, !.total = total, !.sampled = TRUE]
           next == [r EXCEPT !.read = read, !.total = total, !.page = @ + 1]
<1> HIDE DEF read
<1>6. old.at = "oldest" /\ old.mem = r.mem /\ old.built = r.built /\ old.slug = r.slug /\ old.read = read
  BY <1>2, <1>5 DEF Fields
<1>7. next.at = "read" /\ next.mem = r.mem /\ next.built = r.built /\ next.slug = r.slug /\ next.read = read
  BY <1>2, <1>5 DEF Fields
<1>8. Paid(cPeak, Counted!Ended(r, read, left, FALSE, FALSE)) BY <1>2, <1>3, <1>4, EndsPaid
<1> HIDE DEF old, next
<1>9. Paid(cPeak, old) /\ Paid(cPeak, next) BY <1>2, <1>4, <1>6, <1>7, GoesOnPaid
<1> QED BY <1>1, <1>8, <1>9, OnePaid DEF old, next, Counted!ReadsPage

LEMMA OldestPaid ==
  ASSUME Sane, Countable, ReadInv, SoundInv, PeakInv, NEW p \in Procs, Counted!ReadsOldest(p) PROVE PeakInv'
<1> DEFINE r     == cProc[p]
           taken == Counted!Consume(r, Counted!Page(Counted!Live(r.slug), "oldest", 1, Counted!Limit(r)), "oldest")
<1>1. PICK answered \in BOOLEAN :
        LET read == IF answered THEN taken ELSE r.read
            left == r.total > Counted!Scanned(read)
        IN  cProc' = [cProc EXCEPT ![p] =
              IF Counted!NoBlocks(read) THEN Counted!Ended(r, read, left, left, FALSE)
              ELSE IF Counted!Scanned(read) >= r.cmd.max THEN Counted!Ended(r, read, left, FALSE, FALSE)
              ELSE [r EXCEPT !.at = "read", !.read = read, !.page = @ + 1]]
  BY Zenon DEF Counted!ReadsOldest
<1> DEFINE read == IF answered THEN taken ELSE r.read
           left == r.total > Counted!Scanned(read)
           next == [r EXCEPT !.at = "read", !.read = read, !.page = @ + 1]
<1>2. Upholds(r) /\ Paid(cPeak, r) /\ r.at = "oldest" /\ Complete(r)
  BY DEF SoundInv, PeakInv, ReadInv, Counted!ReadsOldest
<1>3. Forms(taken) /\ Forms(r.read) BY <1>2, ConsumeSound DEF Upholds
<1>4. Forms(read) BY <1>3
<1>5. \A i \in DOMAIN taken : i \in Ids /\ Covers(cPeak[r.slug], i, taken[i]) BY <1>2, ConsumePaid DEF Upholds
<1>6. \A i \in DOMAIN r.read : i \in Ids /\ Covers(cPeak[r.slug], i, r.read[i]) BY <1>2 DEF Paid
<1>7. \A i \in DOMAIN read : i \in Ids /\ Covers(cPeak[r.slug], i, read[i])
  <2> HIDE DEF taken
  <2> QED BY <1>5, <1>6
<1>8. Fields(r) \subseteq DOMAIN r BY <1>2 DEF Complete, Busy
<1>9. next.at = "read" /\ next.mem = r.mem /\ next.built = r.built /\ next.slug = r.slug /\ next.read = read
  BY <1>2, <1>8 DEF Fields
<1>10. \/ \E early : cProc' = [cProc EXCEPT ![p] = Counted!Ended(r, read, left, early, FALSE)]
       \/ cProc' = [cProc EXCEPT ![p] = next]
  BY <1>1, Zenon
<1> HIDE DEF next, read, left
<1>11. ASSUME NEW early PROVE Paid(cPeak, Counted!Ended(r, read, left, early, FALSE))
  BY <1>2, <1>4, <1>7, EndsPaid
<1>12. Paid(cPeak, next) BY <1>2, <1>7, <1>9, GoesOnPaid
<1> QED BY <1>10, <1>11, <1>12, OnePaid DEF Counted!ReadsOldest

LEMMA FailsPaid ==
  ASSUME Countable, ReadInv, SoundInv, PeakInv, NEW p \in Procs, Counted!ReadFails(p) PROVE PeakInv'
<1> DEFINE r == cProc[p]
<1>1. cProc' = [cProc EXCEPT ![p] = Counted!Ended(r, r.read, FALSE, FALSE, TRUE)]
  BY DEF Counted!ReadFails, ReadInv
<1>2. Upholds(r) /\ Paid(cPeak, r) /\ r.at = "read" BY DEF Counted!ReadFails, SoundInv, PeakInv
<1>3. Forms(r.read) /\ \A i \in DOMAIN r.read : i \in Ids /\ Covers(cPeak[r.slug], i, r.read[i])
  BY <1>2 DEF Upholds, Paid
<1>4. Paid(cPeak, Counted!Ended(r, r.read, FALSE, FALSE, TRUE)) BY <1>2, <1>3, EndsPaid
<1> QED BY <1>1, <1>4, OnePaid DEF Counted!ReadFails

LEMMA PersistsPaid == ASSUME ReadInv, PeakInv, NEW p \in Procs, Counted!Persists(p) PROVE PeakInv'
<1> DEFINE r == cProc[p]
<1>1. Paid(cPeak, r) /\ r.at = "build" BY DEF PeakInv, Counted!Persists
<1>2. \A s \in Slugs : Counted!Memory(r)[s] = Nil \/ Pays(cPeak[s], Counted!Memory(r)[s])
  BY <1>1 DEF Counted!Memory, Paid, Busy
<1>3. \A s \in Slugs : Counted!Merge(r)[s] = Nil \/ Pays(cPeak[s], Counted!Merge(r)[s])
  <2>1. CASE r.cmd.refresh \/ \A s \in Slugs : cDisk[s] = Nil BY <1>2, <2>1 DEF Counted!Merge
  <2>2. CASE ~(r.cmd.refresh \/ \A s \in Slugs : cDisk[s] = Nil)
    BY <1>1, <2>2 DEF Counted!Merge, Paid, Busy, PeakInv
  <2> QED BY <2>1, <2>2
<1>4. /\ cDisk' = Counted!Merge(r) \/ cDisk' = cDisk
      /\ cProc' = [cProc EXCEPT ![p] = Counted!Idle] /\ UNCHANGED <<cDocs, cPeak>>
  BY DEF Counted!Persists
<1>5. \A q \in Procs : Paid(cPeak, cProc'[q]) BY <1>4, IdlePaid DEF ReadInv, PeakInv
<1>6. \A s \in Slugs : cDisk'[s] = Nil \/ Pays(cPeak[s], cDisk'[s]) BY <1>3, <1>4 DEF PeakInv
<1> QED BY <1>4, <1>5, <1>6 DEF PeakInv

LEMMA FoldsPaid ==
  ASSUME Sane, Countable, ReadInv, SoundInv, PeakInv, NEW p \in Procs, Counted!Folds(p) PROVE PeakInv'
<1> DEFINE r == cProc[p]
           o == Counted!Overlay(cDisk[r.slug], r.id, r.echo, TRUE)
<1>1. Upholds(r) /\ Paid(cPeak, r) /\ r.at = "fold" BY DEF SoundInv, PeakInv, Counted!Folds
<1>2. /\ r.slug \in Slugs /\ Form(r.echo) /\ r.id \in Ids /\ Covers(cPeak[r.slug], r.id, r.echo)
      /\ cPeak[r.slug] \in Heights
  BY <1>1 DEF Upholds, Paid, PeakInv
<1>3. /\ \/ cDisk[r.slug] # Nil /\ cDisk' = [cDisk EXCEPT ![r.slug] = o]
         \/ cDisk' = cDisk
      /\ cProc' = [cProc EXCEPT ![p] = Counted!Idle] /\ UNCHANGED <<cDocs, cPeak>>
  BY DEF Counted!Folds
<1>4. ASSUME cDisk[r.slug] # Nil PROVE Pays(cPeak[r.slug], o)
  <2>1. Fit(cDisk[r.slug]) /\ Pays(cPeak[r.slug], cDisk[r.slug]) BY <1>2, <1>4 DEF SoundInv, Fits, PeakInv
  <2> QED BY <1>2, <2>1, OverlayPays
<1> HIDE DEF o
<1>5. \A s \in Slugs : cDisk'[s] = Nil \/ Pays(cPeak[s], cDisk'[s])
  BY <1>2, <1>3, <1>4 DEF SoundInv, PeakInv
<1>6. \A q \in Procs : Paid(cPeak, cProc'[q]) BY <1>3, IdlePaid DEF ReadInv, PeakInv
<1> QED BY <1>3, <1>5, <1>6 DEF PeakInv

\* A document that is stored: it, and no other, may have grown.
LEMMA StoresPaid ==
  ASSUME Sane, Tidy, ReadInv, SoundInv, PeakInv, UNCHANGED cDisk,
         NEW s \in Slugs, NEW i \in Ids, NEW L \in Layouts[s], Counted!Stores(s, i, L)
  PROVE  /\ cPeak' \in [Slugs -> Heights] /\ Covers(cPeak'[s], i, L)
         /\ \A t \in Slugs, j \in Ids : cDocs'[t][j] \in {Nil, Deleted} \/ Covers(cPeak'[t], j, cDocs'[t][j])
         /\ \A t \in Slugs : cDisk'[t] = Nil \/ Pays(cPeak'[t], cDisk'[t])
         /\ \A p \in Procs : Paid(cPeak', cProc[p])
<1> DEFINE grown == [t \in Types |-> IF Counted!HasRows(L, t) > cPeak[s][i][t] THEN Counted!HasRows(L, t) ELSE cPeak[s][i][t]]
<1>1. cDocs' = [cDocs EXCEPT ![s][i] = L] /\ cPeak' = [cPeak EXCEPT ![s][i] = grown]
  BY DEF Counted!Stores
<1>2. Form(L) /\ cPeak \in [Slugs -> Heights] BY DEF Tidy, PeakInv
<1>3. ASSUME NEW t \in Types
      PROVE  /\ grown[t] \in Nat /\ cPeak[s][i][t] <= grown[t] /\ Counted!HasRows(L, t) <= grown[t]
  <2>1. Counted!HasRows(L, t) \in Nat /\ cPeak[s][i][t] \in Nat BY <1>2, RowsNumbered DEF Heights
  <2> QED BY <2>1
<1>4. grown \in [Types -> Nat] BY <1>3
<1> HIDE DEF grown
<1>5. cPeak' \in [Slugs -> Heights]
  <2>1. [cPeak[s] EXCEPT ![i] = grown] \in Heights BY <1>2, <1>4 DEF Heights
  <2>2. cPeak' = [cPeak EXCEPT ![s] = [cPeak[s] EXCEPT ![i] = grown]] BY <1>1, <1>2
  <2> QED BY <1>2, <2>1, <2>2
<1>6. ASSUME NEW t \in Slugs, NEW j \in Ids
      PROVE  cPeak'[t][j] = IF t = s /\ j = i THEN grown ELSE cPeak[t][j]
  BY <1>1, <1>2 DEF Heights
<1>7. \A t \in Slugs : Taller(cPeak[t], cPeak'[t])
  <2> SUFFICES ASSUME NEW t \in Slugs, NEW j \in Ids, NEW u \in Types PROVE cPeak[t][j][u] <= cPeak'[t][j][u]
    BY DEF Taller
  <2>1. cPeak[t][j][u] \in Nat BY <1>2 DEF Heights
  <2> QED BY <1>3, <1>6, <2>1
<1>8. Covers(cPeak'[s], i, L) BY <1>3, <1>6 DEF Covers
<1>9. ASSUME NEW t \in Slugs, NEW j \in Ids, cDocs'[t][j] \notin {Nil, Deleted}
      PROVE  Covers(cPeak'[t], j, cDocs'[t][j])
  <2>1. CASE t = s /\ j = i
    <3>1. cDocs'[t][j] \in {L, cDocs[t][j]}
      BY <1>1 DEF ReadInv
    <3>2. CASE cDocs'[t][j] = L BY <1>8, <2>1, <3>2
    <3>3. CASE cDocs'[t][j] = cDocs[t][j]
      <4>1. Form(cDocs[t][j]) /\ Covers(cPeak[t], j, cDocs[t][j]) BY <1>9, <3>3 DEF SoundInv, PeakInv
      <4>2. Covers(cPeak'[t], j, cDocs[t][j]) BY <1>2, <1>5, <1>7, <4>1, CoversGrow
      <4> QED BY <3>3, <4>2
    <3> QED BY <3>1, <3>2, <3>3
  <2>2. CASE ~(t = s /\ j = i)
    <3>1. cDocs'[t][j] = cDocs[t][j] BY <1>1, <2>2 DEF ReadInv
    <3>2. Form(cDocs[t][j]) /\ Covers(cPeak[t], j, cDocs[t][j]) BY <1>9, <3>1 DEF SoundInv, PeakInv
    <3>3. Covers(cPeak'[t], j, cDocs[t][j]) BY <1>2, <1>5, <1>7, <3>2, CoversGrow
    <3> QED BY <3>1, <3>3
  <2> QED BY <2>1, <2>2
<1>10. ASSUME NEW t \in Slugs, cDisk[t] # Nil PROVE Pays(cPeak'[t], cDisk[t])
  <2>1. Fit(cDisk[t]) /\ Pays(cPeak[t], cDisk[t]) BY <1>10 DEF SoundInv, Fits, PeakInv
  <2> QED BY <1>2, <1>5, <1>7, <2>1, PaysGrow
<1>11. ASSUME NEW p \in Procs PROVE Paid(cPeak', cProc[p])
  <2>1. Upholds(cProc[p]) /\ Paid(cPeak, cProc[p]) BY DEF SoundInv, PeakInv
  <2> QED BY <1>2, <1>5, <1>7, <2>1, PaidGrow
<1> QED BY <1>5, <1>8, <1>9, <1>10, <1>11


LEMMA WritesPaid ==
  ASSUME Sane, Tidy, ReadInv, SoundInv, PeakInv, NEW p \in Procs, Counted!Writes(p) PROVE PeakInv'
<1>1. PICK s \in Slugs, i \in Ids : \E L \in Layouts[s] :
        /\ Counted!Stores(s, i, L)
        /\ cProc' = [cProc EXCEPT ![p] = [at |-> "fold", slug |-> s, id |-> i, echo |-> L]]
  BY DEF Counted!Writes
<1>2. PICK L \in Layouts[s] :
        /\ Counted!Stores(s, i, L)
        /\ cProc' = [cProc EXCEPT ![p] = [at |-> "fold", slug |-> s, id |-> i, echo |-> L]]
  BY <1>1
<1>3. UNCHANGED cDisk BY DEF Counted!Writes
<1>4. /\ cPeak' \in [Slugs -> Heights] /\ Covers(cPeak'[s], i, L)
      /\ \A t \in Slugs, j \in Ids : cDocs'[t][j] \in {Nil, Deleted} \/ Covers(cPeak'[t], j, cDocs'[t][j])
      /\ \A t \in Slugs : cDisk'[t] = Nil \/ Pays(cPeak'[t], cDisk'[t])
      /\ \A q \in Procs : Paid(cPeak', cProc[q])
  BY <1>2, <1>3, StoresPaid
<1>5. Paid(cPeak', [at |-> "fold", slug |-> s, id |-> i, echo |-> L]) BY <1>4 DEF Paid, Busy
<1>6. \A q \in Procs : Paid(cPeak', cProc'[q]) BY <1>2, <1>4, <1>5 DEF ReadInv
<1> QED BY <1>4, <1>6 DEF PeakInv

LEMMA EditsPaid == ASSUME Sane, Tidy, ReadInv, SoundInv, PeakInv, Counted!Edits PROVE PeakInv'
<1>1. UNCHANGED cDisk BY DEF Counted!Edits
<1>2. PICK s \in Slugs : \E i \in Counted!Live(s) :
        \/ \E L \in Layouts[s] : Counted!Stores(s, i, L) /\ UNCHANGED cProc
        \/ /\ cDocs' = [cDocs EXCEPT ![s][i] = Deleted] /\ UNCHANGED cPeak
           /\ cProc' = [p \in Procs |-> IF cProc[p].at \in {"read", "oldest"} /\ cProc[p].slug = s
                                        THEN [cProc[p] EXCEPT !.there = {}] ELSE cProc[p]]
  BY DEF Counted!Edits
<1>3. CASE \E i \in Counted!Live(s) : \E L \in Layouts[s] : Counted!Stores(s, i, L) /\ UNCHANGED cProc
  <2>1. PICK i \in Counted!Live(s) : \E L \in Layouts[s] : Counted!Stores(s, i, L) /\ UNCHANGED cProc BY <1>3
  <2>2. PICK L \in Layouts[s] : Counted!Stores(s, i, L) /\ UNCHANGED cProc BY <2>1
  <2>3. i \in Ids BY DEF Counted!Live
  <2>4. /\ cPeak' \in [Slugs -> Heights]
        /\ \A t \in Slugs, j \in Ids : cDocs'[t][j] \in {Nil, Deleted} \/ Covers(cPeak'[t], j, cDocs'[t][j])
        /\ \A t \in Slugs : cDisk'[t] = Nil \/ Pays(cPeak'[t], cDisk'[t])
        /\ \A q \in Procs : Paid(cPeak', cProc[q])
    BY <1>1, <2>2, <2>3, StoresPaid
  <2> QED BY <2>2, <2>4 DEF PeakInv
<1>4. CASE \E i \in Counted!Live(s) :
             /\ cDocs' = [cDocs EXCEPT ![s][i] = Deleted] /\ UNCHANGED cPeak
             /\ cProc' = [p \in Procs |-> IF cProc[p].at \in {"read", "oldest"} /\ cProc[p].slug = s
                                          THEN [cProc[p] EXCEPT !.there = {}] ELSE cProc[p]]
  <2>1. PICK i \in Counted!Live(s) : cDocs' = [cDocs EXCEPT ![s][i] = Deleted] BY <1>4
  <2>2. ASSUME NEW t \in Slugs, NEW j \in Ids PROVE cDocs'[t][j] \in {Deleted, cDocs[t][j]}
    BY <2>1 DEF ReadInv
  <2>3. \A t \in Slugs, j \in Ids : cDocs'[t][j] \in {Nil, Deleted} \/ Covers(cPeak[t], j, cDocs'[t][j])
    BY <2>2 DEF PeakInv
  <2>4. ASSUME NEW p \in Procs PROVE Paid(cPeak, cProc'[p])
    <3>1. Paid(cPeak, cProc[p]) /\ Complete(cProc[p]) BY DEF PeakInv, ReadInv
    <3>2. CASE cProc[p].at \in {"read", "oldest"} /\ cProc[p].slug = s
      <4> DEFINE x == [cProc[p] EXCEPT !.there = {}]
      <4>1. cProc'[p] = x BY <1>4, <3>2
      <4>2. Fields(cProc[p]) \subseteq DOMAIN cProc[p] BY <3>1, <3>2 DEF Complete, Busy
      <4>3. /\ x.at = cProc[p].at /\ x.mem = cProc[p].mem /\ x.built = cProc[p].built
            /\ x.slug = cProc[p].slug /\ x.read = cProc[p].read
        BY <3>2, <4>2 DEF Fields
      <4> HIDE DEF x
      <4> QED BY <3>1, <3>2, <4>1, <4>3, GoesOnPaid DEF Paid
    <3>3. CASE ~(cProc[p].at \in {"read", "oldest"} /\ cProc[p].slug = s)
      BY <1>4, <3>1, <3>3
    <3> QED BY <3>2, <3>3
  <2>5. UNCHANGED cPeak BY <1>4
  <2> QED BY <1>1, <2>3, <2>4, <2>5 DEF PeakInv
<1> QED BY <1>2, <1>3, <1>4

LEMMA PeakStep == ASSUME Sane, Countable, Tidy, ReadInv, SoundInv, PeakInv, Counted!Next PROVE PeakInv'
<1>1. ASSUME NEW p \in Procs, Counted!Crashes(p) PROVE PeakInv'
  BY <1>1, IdlePaid, OnePaid DEF Counted!Crashes
<1>2. CASE Counted!Clears BY <1>2 DEF PeakInv, Counted!Clears
<1>3. CASE Counted!Tick BY <1>3 DEF PeakInv, Counted!Tick
<1>4. CASE Counted!Edits BY <1>4, EditsPaid
<1> QED
  BY <1>1, <1>2, <1>3, <1>4, EnsuresPaid, StartsPaid, PagePaid, OldestPaid, FailsPaid, PersistsPaid,
     WritesPaid, FoldsPaid DEF Counted!Next

\* What is in the file is never more than the documents ever had: a document that is read by one
\* command, folded by another and edited in between is counted once (OverlayDocs, census.go).
LEMMA OnceCounted == ASSUME PeakInv PROVE Counted!CountedOnce
<1> SUFFICES ASSUME NEW s \in Slugs, cDisk[s] # Nil, NEW t \in Types
             PROVE  LET had == Counted!Cardinality(Counted!Ever(s, cDisk[s], t))
                    IN  /\ cDisk[s].count[t] <= had
                        /\ \A w \in {Counted!Top, Counted!Nested} : cDisk[s].paths[w][t] <= had
  BY Zenon DEF Counted!CountedOnce
<1>1. Counted!Ever(s, cDisk[s], t) = Spots(cPeak[s], cDisk[s].keys \cup cDisk[s].folded, t)
  BY DEF Counted!Ever, Spots
<1>2. Counted!Cardinality(Counted!Ever(s, cDisk[s], t)) = Within(cPeak[s], cDisk[s], t)
  BY <1>1, SameCard DEF Within
<1>3. Pays(cPeak[s], cDisk[s]) BY DEF PeakInv
<1> QED BY <1>2, <1>3 DEF Pays

\* Whatever commands, other editors, crashes and clears do: the census counts every document
\* once, a read that calls itself complete is, no ratio and no list of types is wrong, and no
\* row the server holds is called an anomaly; for any documents, layouts, commands and bounds.
THEOREM CensusHolds == ASSUME Sane, Countable, Tidy, Named PROVE RacesSpec => []CensusTrue
<1>1. RacesInit => ReadInv /\ SoundInv /\ PeakInv
  BY CompleteInit, SoundInit, PeakInit DEF RacesInit
<1>2. ReadInv /\ SoundInv /\ PeakInv /\ [RacesNext]_<<part, vars, censusVars>>
        => ReadInv' /\ SoundInv' /\ PeakInv'
  <2>1. ASSUME ReadInv, SoundInv, PeakInv, UNCHANGED censusVars PROVE ReadInv' /\ SoundInv' /\ PeakInv'
    BY <2>1 DEF ReadInv, Complete, Place, Counted!Live, SoundInv, Fits, PeakInv, censusVars
  <2> QED BY <2>1, ReadStep, SoundStep, PeakStep DEF RacesNext
<1>3. ASSUME ReadInv, SoundInv, PeakInv PROVE CensusTrue
  <2>1. Counted!ReadsComplete BY <1>3, ReadsSay
  <2>2. Counted!RatiosSound /\ Counted!NoFalseAlarm BY <1>3, SoundSays
  <2> QED BY <1>3, <2>1, <2>2, OnceCounted, AuthorityHolds DEF CensusTrue, Counted!CensusTrue
<1> QED BY <1>1, <1>2, <1>3, PTL DEF RacesSpec
=============================================================================
