---------------------------- MODULE Credentials ----------------------------
(***************************************************************************)
(* Where a credential is kept: credentials.json, the OS keychain and the   *)
(* profile's auth_mode in config.toml (internal/secret, and the auth       *)
(* commands of internal/cli).  The three are written one after another,    *)
(* each file by load, edit and rename, and nothing takes a lock.  A step   *)
(* is one file operation or one keychain call; a process may crash between *)
(* any two.                                                                *)
(*                                                                         *)
(* External: the keychain may answer, refuse, or hang; a call that ran     *)
(* into its 2 s deadline may still take effect while the process lives.    *)
(*                                                                         *)
(* Left out: a credential on the command line, in the environment or from  *)
(* credential_helper; a command that finds one there reads none of these.  *)
(***************************************************************************)
EXTENDS Integers, FiniteSets

CONSTANTS
  Procs,        \* the processes
  Profiles,     \* the profile names
  Kinds,        \* the kinds of credential logged in with
  Modes,        \* the values PAY_KEYRING may have
  Flags,        \* whether a login may be given --keyring
  Commands,     \* the commands that are run
  Versions,     \* tell the secrets of one profile and kind apart
  MaxCommands   \* bound: commands run

AllKinds == {"api-key", "jwt"}
Logins   == {"login", "relogin"}

ASSUME ProfilesAssumption == Profiles # {}
ASSUME KindsAssumption == Kinds \subseteq AllKinds
ASSUME ModesAssumption == Modes \subseteq {"off", "auto", "force"}
ASSUME FlagsAssumption == Flags \subseteq BOOLEAN
ASSUME CommandsAssumption ==
  Commands \subseteq Logins \cup {"logout", "preview", "clear", "rename", "use", "read"}
ASSUME BoundAssumption == MaxCommands \in Nat

VARIABLES
  kmode,    \* PAY_KEYRING, "off" when it is unset
  file,     \* credentials.json: the record of each profile, Empty if there is none
  keychain, \* the keychain's entry of each profile
  config,   \* config.toml: the profile's auth_mode, "" if unset, "absent" if no profile
  used,     \* how many commands were started
  pc, cmd,  \* per process: where it is, and its command
  prof, to, \* per process: its profile, and the new name of a rename
  flag,     \* per process: --keyring
  amode,    \* per process: the auth mode it resolves with
  ucfg,     \* per process: config.toml as it was at startup
  sec,      \* per process: the secret of a login
  rec,      \* per process: the record it looked up, or is about to put
  copy,     \* per process: credentials.json as it loaded it
  late,     \* per process: a keychain call past its deadline
  failed,   \* per process: an error it will report although it goes on
  got,      \* per process: the credential resolved
  last      \* history: per profile, the secret of the last command, if a completed login

disk  == <<kmode, file, keychain, config>>
mine  == <<cmd, prof, to, flag, amode, ucfg, sec, rec, copy, late, failed, got>>
vars  == <<disk, used, last, pc, mine>>

-----------------------------------------------------------------------------
None    == [of |-> "none", kind |-> "none", n |-> 0]
Secrets == [of : Profiles, kind : AllKinds, n : Versions]
Vals    == Secrets \cup {None}

\* What a late call will do to the entry: set it, delete it, or nothing.
Nothing == [of |-> "nothing", kind |-> "none", n |-> 0]
Lates   == Vals \cup {Nothing}

\* Record: auth_mode, the opt-in pointer, the local secret, the preview secret.
Records == [kind : AllKinds \cup {"none"}, ring : BOOLEAN, val : Vals, preview : BOOLEAN]
Empty   == [kind |-> "none", ring |-> FALSE, val |-> None, preview |-> FALSE]
Files   == [Profiles -> Records]
AuthModes == AllKinds \cup {"", "absent", "anonymous"}

HasAPICredential(r) == r.val # None \/ r.ring
NoFile   == [P \in Profiles |-> Empty]
NoConfig == [P \in Profiles |-> "absent"]
NoCred   == [kind |-> "none", val |-> None]

AnyProfile == CHOOSE P \in Profiles : TRUE

\* Mutant: every profile shares one keychain account.
KeyringAccountShared(P) == AnyProfile

KeyringAccount(P) == P

\* Keyring.Enabled: nothing touches the keychain when PAY_KEYRING is off.
Enabled == kmode # "off"

\* save's policy.  --keyring overrides "off" for the write.
WantsKeyring(p) == flag[p] \/ kmode \in {"auto", "force"}

\* Mutant: --keyring falls back to the file.
MandatoryOnlyForced(p) == kmode = "force"

Mandatory(p)    == flag[p] \/ kmode = "force"

\* An explicit mode restricts the chain to its own sources.
WantKey(m) == m \in {"", "absent", "api-key"}
WantJWT(m) == m \in {"", "absent", "jwt"}

\* What Resolve answers for profile P in mode m when the keychain works and no
\* token has expired: the record and its secret first, then KeyringOnly, then
\* the stored token.
Lookup(P) ==
  LET entry == IF Enabled THEN keychain[KeyringAccount(P)] ELSE None IN
  IF (file[P].ring \/ kmode = "force") /\ file[P] # Empty /\ entry # None
    THEN entry ELSE file[P].val

Resolution(P, m) ==
  IF WantKey(m) /\ file[P].kind = "api-key" /\ Lookup(P) # None THEN Lookup(P)
  ELSE IF WantKey(m) /\ kmode = "force" /\ keychain[KeyringAccount(P)] # None
    THEN keychain[KeyringAccount(P)]
  ELSE IF WantJWT(m) /\ file[P].kind = "jwt" THEN Lookup(P) ELSE None

-----------------------------------------------------------------------------
Init ==
  /\ kmode \in Modes
  /\ file = NoFile
  /\ keychain = [P \in Profiles |-> None]
  /\ config = NoConfig
  /\ used = 0
  /\ pc = [p \in Procs |-> "idle"]
  /\ cmd = [p \in Procs |-> "none"]
  /\ prof = [p \in Procs |-> AnyProfile] /\ to = prof
  /\ flag = [p \in Procs |-> FALSE]
  /\ amode = [p \in Procs |-> ""]
  /\ ucfg = [p \in Procs |-> NoConfig]
  /\ sec = [p \in Procs |-> None]
  /\ rec = [p \in Procs |-> Empty]
  /\ copy = [p \in Procs |-> NoFile]
  /\ late = [p \in Procs |-> Nothing]
  /\ failed = [p \in Procs |-> FALSE]
  /\ got = [p \in Procs |-> NoCred]
  /\ last = [P \in Profiles |-> None]

\* The process is gone, and a hanging keychain call with it.
Exit(p) ==
  /\ pc'     = [pc EXCEPT ![p] = "idle"]
  /\ cmd'    = [cmd EXCEPT ![p] = "none"]
  /\ prof'   = [prof EXCEPT ![p] = AnyProfile]
  /\ to'     = [to EXCEPT ![p] = AnyProfile]
  /\ flag'   = [flag EXCEPT ![p] = FALSE]
  /\ amode'  = [amode EXCEPT ![p] = ""]
  /\ ucfg'   = [ucfg EXCEPT ![p] = NoConfig]
  /\ sec'    = [sec EXCEPT ![p] = None]
  /\ rec'    = [rec EXCEPT ![p] = Empty]
  /\ copy'   = [copy EXCEPT ![p] = NoFile]
  /\ late'   = [late EXCEPT ![p] = Nothing]
  /\ failed' = [failed EXCEPT ![p] = FALSE]
  /\ got'    = [got EXCEPT ![p] = NoCred]
  /\ UNCHANGED used

Goto(p, from, next) == pc[p] = from /\ pc' = [pc EXCEPT ![p] = next]

\* The command ends with an error.
Fails(p) == Exit(p) /\ UNCHANGED <<disk, last>>

-----------------------------------------------------------------------------
\* config.toml is read at startup; a login that is given no key resolves the one
\* the profile has, in mode api-key; other commands resolve in the mode of the
\* configuration or of --auth-mode.
Start(p) ==
  /\ pc[p] = "idle" /\ used < MaxCommands
  /\ used' = used + 1
  /\ ucfg' = [ucfg EXCEPT ![p] = config]
  /\ \E c \in Commands, P \in Profiles :
       /\ cmd'  = [cmd EXCEPT ![p] = c]
       /\ prof' = [prof EXCEPT ![p] = P]
       /\ \E Q \in Profiles :
            /\ IF c = "rename" THEN Q # P ELSE Q = P
            /\ to' = [to EXCEPT ![p] = Q]
            /\ last' = [R \in Profiles |->
                          IF R \in {P, Q} /\ c \notin {"read", "use"} THEN None ELSE last[R]]
       /\ \E f \in Flags : flag' = [flag EXCEPT ![p] = c \in Logins /\ f]
       /\ \E m \in {config[P], "api-key", "jwt"} :
            /\ c # "read" => m = config[P]
            /\ amode' = [amode EXCEPT ![p] = IF c = "relogin" THEN "api-key" ELSE m]
       /\ IF c = "login"
            THEN \E s \in Secrets : /\ s.of = P /\ s.kind \in Kinds
                                    /\ sec' = [sec EXCEPT ![p] = s]
            ELSE UNCHANGED sec
       /\ pc' = [pc EXCEPT ![p] =
                   CASE c = "login"               -> "verify"
                     [] c \in {"relogin", "read"} -> "lookup"
                     [] c = "logout"              -> "forget"
                     [] c \in {"preview", "clear"} -> "load"
                     [] c = "rename"              -> "rename"
                     [] c = "use"                 -> "use"]
  /\ UNCHANGED <<disk, rec, copy, late, failed, got>>

-----------------------------------------------------------------------------
(* Resolve: Store.Lookup, Store.KeyringOnly, the stored token.              *)

\* FileStore.Get.
LooksUp(p) ==
  /\ Goto(p, "lookup",
          IF (file[prof[p]].ring \/ kmode = "force") /\ file[prof[p]] # Empty /\ Enabled
            THEN "ringget" ELSE "pick")
  /\ rec' = [rec EXCEPT ![p] = file[prof[p]]]
  /\ UNCHANGED <<disk, used, last, cmd, prof, to, flag, amode, ucfg, sec, copy, late, failed, got>>

\* The entry, if there is one, takes the place of the local secret.
RingGets(p) ==
  LET entry == keychain[KeyringAccount(prof[p])] IN
  /\ Goto(p, "ringget", "pick")
  /\ rec' = [rec EXCEPT ![p].val = IF entry # None THEN entry ELSE @]
  /\ UNCHANGED <<disk, used, last, cmd, prof, to, flag, amode, ucfg, sec, copy, late, failed, got>>

\* An error or the deadline: fatal when the keychain is forced, else a warning.
RingGetFails(p) ==
  \/ pc[p] = "ringget" /\ kmode = "force" /\ Fails(p)
  \/ /\ kmode # "force" /\ Goto(p, "ringget", "pick")
     /\ UNCHANGED <<disk, used, last, mine>>

Resolves(p, kind, val) == got' = [got EXCEPT ![p] = [kind |-> kind, val |-> val]]

\* A stored API key; or else, when forced, on to KeyringOnly.
PicksKey(p) ==
  LET hit == WantKey(amode[p]) /\ rec[p].kind = "api-key" /\ rec[p].val # None IN
  /\ Goto(p, "pick", IF hit THEN "resolved"
                     ELSE IF WantKey(amode[p]) /\ kmode = "force" THEN "ringonly" ELSE "jwt")
  /\ IF hit THEN Resolves(p, "api-key", rec[p].val) ELSE UNCHANGED got
  /\ UNCHANGED <<disk, used, last, cmd, prof, to, flag, amode, ucfg, sec, rec, copy, late, failed>>

\* KeyringOnly: whatever the entry is, it is an API key.
RingOnlyGets(p) ==
  LET entry == keychain[KeyringAccount(prof[p])] IN
  /\ Goto(p, "ringonly", IF entry # None THEN "resolved" ELSE "jwt")
  /\ IF entry # None THEN Resolves(p, "api-key", entry) ELSE UNCHANGED got
  /\ UNCHANGED <<disk, used, last, cmd, prof, to, flag, amode, ucfg, sec, rec, copy, late, failed>>

RingOnlyFails(p) ==
  /\ Goto(p, "ringonly", "jwt")
  /\ UNCHANGED <<disk, used, last, mine>>

\* A stored token, unless it has expired.
PicksJWT(p) ==
  /\ Goto(p, "jwt", "resolved")
  /\ \/ /\ WantJWT(amode[p]) /\ rec[p].kind = "jwt" /\ rec[p].val # None
        /\ Resolves(p, "jwt", rec[p].val)
     \/ UNCHANGED got
  /\ UNCHANGED <<disk, used, last, cmd, prof, to, flag, amode, ucfg, sec, rec, copy, late, failed>>

\* A read goes on with the credential, or anonymously, or with auth_missing;
\* a login without a key needs one.
Resolved(p) ==
  \/ /\ cmd[p] = "read" /\ Goto(p, "resolved", "done")
     /\ UNCHANGED <<disk, used, last, mine>>
  \/ /\ cmd[p] = "relogin" /\ got[p].val # None /\ Goto(p, "resolved", "verify")
     /\ sec' = [sec EXCEPT ![p] = got[p].val]
     /\ UNCHANGED <<disk, used, last, cmd, prof, to, flag, amode, ucfg, rec, copy, late, failed, got>>
  \/ /\ cmd[p] = "relogin" /\ got[p].val = None /\ pc[p] = "resolved" /\ Fails(p)

-----------------------------------------------------------------------------
(* Login: verify, the keychain, credentials.json, config.toml.              *)

\* loginJWT mints a token; loginAPIKey saves what it was given, or what it
\* resolved, as an API key.
LoginKind(p) == IF cmd[p] = "login" /\ sec[p].kind = "jwt" THEN "jwt" ELSE "api-key"

\* Mutant: the record takes the configuration's auth mode.
InFileModeless(p) == [kind |-> amode[p], ring |-> FALSE, val |-> sec[p], preview |-> FALSE]

\* Mutant: falling back to the file, the record still points to the keychain.
InFilePointing(p) == [kind |-> LoginKind(p), ring |-> TRUE, val |-> sec[p], preview |-> FALSE]

InFile(p)  == [kind |-> LoginKind(p), ring |-> FALSE, val |-> sec[p], preview |-> FALSE]
Pointer(p) == [kind |-> LoginKind(p), ring |-> TRUE, val |-> None, preview |-> FALSE]

\* /me answers with the user, or --no-verify.
Verifies(p) ==
  /\ Goto(p, "verify", IF WantsKeyring(p) THEN "ringset" ELSE "load")
  /\ rec' = [rec EXCEPT ![p] = InFile(p)]
  /\ UNCHANGED <<disk, used, last, cmd, prof, to, flag, amode, ucfg, sec, copy, late, failed, got>>

VerifyFails(p) == pc[p] = "verify" /\ Fails(p)

RingSets(p) ==
  /\ Goto(p, "ringset", "load")
  /\ keychain' = [keychain EXCEPT ![KeyringAccount(prof[p])] = sec[p]]
  /\ rec' = [rec EXCEPT ![p] = Pointer(p)]
  /\ UNCHANGED <<kmode, file, config, used, last, cmd, prof, to, flag, amode, ucfg, sec, copy, late, failed, got>>

\* Mutant: there is no deadline.
RingSetNeverFails(p) == pc[p] = "ringset" /\ FALSE /\ UNCHANGED vars

\* Refused, or past the deadline: fatal if it was mandatory, else the file.
RingSetFails(p) ==
  \/ pc[p] = "ringset" /\ Mandatory(p) /\ Fails(p)
  \/ /\ ~Mandatory(p) /\ Goto(p, "ringset", "load")
     /\ \E l \in {Nothing, sec[p]} : late' = [late EXCEPT ![p] = l]
     /\ UNCHANGED <<disk, used, last, cmd, prof, to, flag, amode, ucfg, sec, rec, copy, failed, got>>

\* The abandoned call takes effect after all.
LateCall(p) ==
  /\ late[p] # Nothing
  /\ keychain' = [keychain EXCEPT ![KeyringAccount(prof[p])] = late[p]]
  /\ late' = [late EXCEPT ![p] = Nothing]
  /\ UNCHANGED <<kmode, file, config, used, last, pc, cmd, prof, to, flag, amode, ucfg, sec, rec, copy, failed, got>>

-----------------------------------------------------------------------------
(* FileStore: load, edit, save.                                             *)

Loads(p) ==
  /\ Goto(p, "load", "save")
  /\ copy' = [copy EXCEPT ![p] = file]
  /\ UNCHANGED <<disk, used, last, cmd, prof, to, flag, amode, ucfg, sec, rec, late, failed, got>>

\* The mode is insecure, or the JSON is not valid.
LoadFails(p) == pc[p] = "load" /\ Fails(p)

\* Mutant: a login drops the preview secret.
EditForgetfully(p) ==
  LET old == copy[p][prof[p]] IN
  IF cmd[p] \in Logins THEN [copy[p] EXCEPT ![prof[p]] = rec[p]]
  ELSE IF cmd[p] = "logout" THEN [copy[p] EXCEPT ![prof[p]] = Empty]
  ELSE IF cmd[p] = "preview" THEN [copy[p] EXCEPT ![prof[p]].preview = TRUE]
  ELSE IF cmd[p] = "clear" THEN [copy[p] EXCEPT ![prof[p]].preview = FALSE]
  ELSE [copy[p] EXCEPT ![to[p]] = old, ![prof[p]] = Empty]

\* Put keeps the preview secret; clearing the last credential of a record
\* removes the record, which is what it then equals.
Edit(p) ==
  LET old == copy[p][prof[p]] IN
  IF cmd[p] \in Logins THEN [copy[p] EXCEPT ![prof[p]] = [rec[p] EXCEPT !.preview = old.preview]]
  ELSE IF cmd[p] = "logout" THEN [copy[p] EXCEPT ![prof[p]] = Empty]
  ELSE IF cmd[p] = "preview" THEN [copy[p] EXCEPT ![prof[p]].preview = TRUE]
  ELSE IF cmd[p] = "clear"
    THEN [copy[p] EXCEPT ![prof[p]] = IF HasAPICredential(old) THEN [old EXCEPT !.preview = FALSE] ELSE Empty]
  ELSE [copy[p] EXCEPT ![to[p]] = old, ![prof[p]] = Empty]

\* There is nothing to delete, to clear or to move.
NothingToSave(p) ==
  \/ cmd[p] = "logout" /\ copy[p][prof[p]] = Empty
  \/ cmd[p] = "clear" /\ ~copy[p][prof[p]].preview
  \/ cmd[p] = "rename" /\ copy[p][prof[p]] = Empty

Saves(p) ==
  /\ Goto(p, "save", IF cmd[p] \in Logins THEN "persist" ELSE "done")
  /\ file' = IF NothingToSave(p) THEN file ELSE Edit(p)
  /\ UNCHANGED <<kmode, keychain, config, used, last, mine>>

SaveFails(p) == pc[p] = "save" /\ ~NothingToSave(p) /\ Fails(p)

-----------------------------------------------------------------------------
(* config.toml is saved from the copy read at startup.                      *)

\* persistProfile: auth_mode is written if it is unset, or --auth-mode was given.
Persists(p) ==
  /\ Goto(p, "persist", "done")
  /\ \/ config' = [ucfg[p] EXCEPT ![prof[p]] = LoginKind(p)]
     \/ ucfg[p][prof[p]] \notin {"", "absent"} /\ config' = ucfg[p]
  /\ UNCHANGED <<kmode, file, keychain, used, last, mine>>

PersistFails(p) == pc[p] \in {"persist", "use"} /\ Fails(p)

\* auth use: the default profile changes, and the whole file is written.
Uses(p) ==
  /\ Goto(p, "use", "done")
  /\ ucfg[p][prof[p]] # "absent" \/ file[prof[p]] # Empty
  /\ config' = ucfg[p]
  /\ UNCHANGED <<kmode, file, keychain, used, last, mine>>

\* auth rename: config.toml first; it is refused onto a name config.toml has.
RenamesProfile(p) ==
  LET P == prof[p] IN
  \/ /\ ucfg[p][P] # "absent" /\ ucfg[p][to[p]] = "absent"
     /\ Goto(p, "rename", "load")
     /\ config' = [ucfg[p] EXCEPT ![to[p]] = ucfg[p][P], ![P] = "absent"]
     /\ UNCHANGED <<kmode, file, keychain, used, last, mine>>
  \/ /\ ucfg[p][P] = "absent" /\ Goto(p, "rename", "load")
     /\ UNCHANGED <<disk, used, last, mine>>

RenameRefused(p) == pc[p] = "rename" /\ Fails(p)

-----------------------------------------------------------------------------
(* Logout.                                                                  *)

\* FileStore.Get: the keychain is asked when the record points there, or always
\* when it is forced.
Forgets(p) ==
  /\ Goto(p, "forget", IF (file[prof[p]].ring \/ kmode = "force") /\ Enabled
                         THEN "ringdel" ELSE "load")
  /\ UNCHANGED <<disk, used, last, mine>>

RingDeletes(p) ==
  /\ Goto(p, "ringdel", "load")
  /\ keychain' = [keychain EXCEPT ![KeyringAccount(prof[p])] = None]
  /\ UNCHANGED <<kmode, file, config, used, last, mine>>

\* The record is deleted all the same, and the error is reported at the end.
RingDeleteFails(p) ==
  /\ Goto(p, "ringdel", "load")
  /\ failed' = [failed EXCEPT ![p] = TRUE]
  /\ \E l \in {Nothing, None} : late' = [late EXCEPT ![p] = l]
  /\ UNCHANGED <<disk, used, last, cmd, prof, to, flag, amode, ucfg, sec, rec, copy, got>>

-----------------------------------------------------------------------------
\* The command reports success, unless it noted a failure.
Ends(p) ==
  /\ pc[p] = "done"
  /\ last' = [last EXCEPT ![prof[p]] = IF cmd[p] \in Logins THEN sec[p] ELSE @]
  /\ Exit(p)
  /\ UNCHANGED disk

Crashes(p) == pc[p] # "idle" /\ Fails(p)

\* The keychain's answers, which may never come.
Keychain(p) == RingGets(p) \/ RingOnlyGets(p) \/ RingSets(p) \/ RingDeletes(p) \/ LateCall(p)

Deadlines(p) == RingGetFails(p) \/ RingOnlyFails(p) \/ RingSetFails(p) \/ RingDeleteFails(p)

Step(p) ==
  \/ Deadlines(p)
  \/ LooksUp(p) \/ PicksKey(p) \/ PicksJWT(p) \/ Resolved(p)
  \/ Verifies(p) \/ VerifyFails(p)
  \/ Loads(p) \/ LoadFails(p) \/ Saves(p) \/ SaveFails(p)
  \/ Persists(p) \/ PersistFails(p) \/ Uses(p)
  \/ RenamesProfile(p) \/ RenameRefused(p)
  \/ Forgets(p) \/ Ends(p)

Next == \E p \in Procs : Start(p) \/ Step(p) \/ Keychain(p) \/ Crashes(p)

Spec == Init /\ [][Next]_vars

\* A process runs; the keychain need not answer.
FairSpec == Spec /\ \A p \in Procs : WF_vars(Step(p))

-----------------------------------------------------------------------------
(* Properties.                                                              *)

PCs == {"idle", "lookup", "ringget", "pick", "ringonly", "jwt", "resolved", "verify",
        "ringset", "load", "save", "persist", "use", "rename", "forget", "ringdel", "done"}

\* The types of the variables.
TypeOK ==
  /\ kmode \in Modes
  /\ file \in Files
  /\ keychain \in [Profiles -> Vals]
  /\ config \in [Profiles -> AuthModes]
  /\ used \in 0 .. MaxCommands
  /\ pc \in [Procs -> PCs]
  /\ cmd \in [Procs -> Commands \cup {"none"}]
  /\ prof \in [Procs -> Profiles] /\ to \in [Procs -> Profiles]
  /\ flag \in [Procs -> BOOLEAN]
  /\ amode \in [Procs -> AuthModes]
  /\ ucfg \in [Procs -> [Profiles -> AuthModes]]
  /\ sec \in [Procs -> Vals]
  /\ rec \in [Procs -> Records]
  /\ copy \in [Procs -> Files]
  /\ late \in [Procs -> Lates]
  /\ failed \in [Procs -> BOOLEAN]
  /\ got \in [Procs -> [kind : AllKinds \cup {"none"}, val : Vals]]
  /\ last \in [Profiles -> Vals]

\* "Never a silent fallback: the user asked for the keychain" (Store.save): while
\* PAY_KEYRING is force, no secret is ever in credentials.json; nor does a login
\* with --keyring put its secret there.
NoSilentFallback ==
  /\ kmode = "force" => \A P \in Profiles : file[P].val = None
  /\ \A p \in Procs : pc[p] \in {"load", "save"} /\ cmd[p] \in Logins /\ flag[p] =>
       rec[p].ring

\* A command never authenticates with another profile's secret, whatever other
\* logins, logouts and late keychain calls it runs among.
OwnSecretOnly ==
  \A p \in Procs : got[p].val # None => got[p].val.of = prof[p]

\* A login that reported success is what the profile's next command resolves.
LoginResolves ==
  \A P \in Profiles : last[P] # None => Resolution(P, config[P]) = last[P]

\* What a save may change of credentials.json: a login the API credential of its
\* profile, a preview command its preview secret, a logout its record, a rename
\* the two names; every other record and field stays.
SavesItsOwn ==
  \A p \in Procs : Saves(p) =>
    /\ \A P \in Profiles \ {prof[p], to[p]} : file'[P] = file[P]
    /\ cmd[p] \in Logins => file'[prof[p]].preview = file[prof[p]].preview
    /\ cmd[p] \in {"preview", "clear"} =>
         [file'[prof[p]] EXCEPT !.preview = file[prof[p]].preview] = file[prof[p]]

OnlyItsOwn == [][SavesItsOwn]_vars

\* With the keychain forced, a logout that reports success leaves no credential in
\* either backend.
EmptiesBoth ==
  \A p \in Procs : kmode = "force" /\ cmd[p] = "logout" /\ Ends(p) /\ ~failed[p] =>
    keychain[KeyringAccount(prof[p])] = None /\ file[prof[p]] = Empty

LogoutForgets == [][EmptiesBoth]_vars

\* A rename moves a credential that is in the file: the new name has what the old
\* one had, and the old one has nothing.
MovesCredential ==
  \A p \in Procs :
    /\ cmd[p] = "rename" /\ Saves(p) /\ file' # file
    /\ kmode # "force" /\ ~file[prof[p]].ring
    => Lookup(to[p])' = Lookup(prof[p]) /\ Lookup(prof[p])' = None

RenameMoves == [][MovesCredential]_vars

\* "A keychain that never returns must not hang a CLI" (KeyringTimeout).
CommandsEnd == \A p \in Procs : pc[p] # "idle" ~> pc[p] = "idle"

\* The commands that change a record do to it what they say, and nothing to another; and a
\* login that reported success is what the next command uses.
RecordsRight == []LoginResolves /\ OnlyItsOwn /\ RenameMoves /\ LogoutForgets

=============================================================================
