--------------------------- MODULE Configuration ---------------------------
(***************************************************************************)
(* The settings a command works with: from the flags and the environment   *)
(* of its own run, the project's pay.toml, the user's config.toml and the  *)
(* defaults; and the commands that change config.toml.  One command runs   *)
(* at a time.                                                              *)
(*                                                                         *)
(* A setting stands for all that are resolved as it is: "id_type" for the  *)
(* pins, which no flag or variable sets, "limit" for the numbers, "timeout"*)
(* for the durations, the two headers for the tables merged key by key.    *)
(***************************************************************************)
EXTENDS Naturals

CONSTANTS
  Names,       \* of profiles
  Fallback,    \* the one called "default"
  Layouts,     \* what the two files may hold at first: [user, project]
  Words,       \* what the commands set a key to: a set for each key
  MaxEdits,    \* bound on the commands
  None         \* no value

VARIABLES
  user,     \* config.toml
  project,  \* pay.toml
  edits,    \* commands so far
  done      \* history: what the last command was

vars == <<user, project, edits, done>>

-----------------------------------------------------------------------------
(* Settings.                                                                *)

Headers      == {"header_a", "header_b"}
ProfileKeys  == {"base_url", "api_path", "graphql_path", "auth_mode", "id_type", "site_url"} \cup Headers
DefaultsKeys == {"output", "limit", "max_bulk", "concurrency", "timeout", "redact"}
SectionKeys  == {"discovery_ttl", "log_level", "update_auto", "backup_dir"}
FileKeys     == DefaultsKeys \cup SectionKeys
RunKeys      == {"max_docs", "cache_ttl", "verbose", "no_update"}
Keys         == ProfileKeys \cup FileKeys \cup RunKeys

\* The settings a flag of the command line sets, and those a variable does.
FlagKeys == {"base_url", "api_path", "graphql_path", "auth_mode", "output", "concurrency", "timeout",
             "redact", "log_level", "backup_dir", "cache_ttl", "verbose"}
EnvKeys  == FlagKeys \cup {"limit", "max_docs", "site_url", "no_update"}

Numbers   == {"0", "5", "8", "20", "90", "100"}
Durations == {"0s", "30s", "60s", "24h"}
Switches  == {"true", "false"}

\* What a file that sets k to v must satisfy to be loaded.
Decodes(k, v) ==
  /\ k \in {"limit", "max_bulk", "concurrency"} => v \in Numbers
  /\ k \in {"redact", "update_auto"} => v \in Switches
  /\ k = "auth_mode" => v \in {"auto", "api-key", "jwt"}

\* What the setting must be for a command to start.
Accepts(k, v) ==
  /\ Decodes(k, v)
  /\ k \in {"base_url", "site_url"} => v \in {None, "http://a", "http://b"}
  /\ k = "id_type" => v \in {None, "string", "number"}
  /\ k \in {"max_docs", "max_bulk"} => v \in Numbers \ {"0"}
  /\ k = "discovery_ttl" => v \in Durations
  /\ k \in {"timeout", "cache_ttl"} => v \in (Durations \cup {None}) \ {"0s"}
  /\ k = "output" => v \in {"json", "table"}
  /\ k = "log_level" => v \in {"info", "debug"}
  /\ k = "verbose" => v \in Switches

Unset(S) == [k \in S |-> None]

\* f with k set to v.
With(f, k, v) == [j \in DOMAIN f \cup {k} |-> IF j = k THEN v ELSE f[j]]

\* A file is the profile it makes the default, its profiles, its other keys, and whether it has
\* one nobody knows.
Profile(file, p) == IF p \in DOMAIN file.profiles THEN file.profiles[p] ELSE Unset(ProfileKeys)

-----------------------------------------------------------------------------
(* Resolution.  A run is the profile its command line and its environment   *)
(* name, and what they set; c is a run with the files and its profile.      *)

Run(profile, variable, flags, env) ==
  [profile |-> profile, variable |-> variable, flags |-> flags, env |-> env]
Plain == Run(None, None, <<>>, <<>>)
At(p) == [Plain EXCEPT !.profile = p]

ProfileNames(u, pr) == DOMAIN u.profiles \cup DOMAIN pr.profiles

Selected(r, u, pr) ==
  CASE r.profile # None  -> r.profile
    [] r.profile = None /\ r.variable # None -> r.variable
    [] OTHER ->
         CASE pr.default # None -> pr.default
           [] pr.default = None /\ u.default # None -> u.default
           [] OTHER -> IF \E n \in Names : ProfileNames(u, pr) = {n}
                       THEN CHOOSE n \in Names : ProfileNames(u, pr) = {n}
                       ELSE Fallback

Context(r, u, pr) == [run |-> r, user |-> u, project |-> pr, profile |-> Selected(r, u, pr)]

Given(settings, k) == IF k \in DOMAIN settings THEN settings[k] ELSE None
FlagFor(c, k) == Given(c.run.flags, k)
EnvFor(c, k)  == Given(c.run.env, k)

Told(value, source) == [value |-> value, source |-> source]

\* What a layer says, or else the next one.
Or(layer, next) == IF layer.value # None THEN layer ELSE next

OfRun(c, k, next) == Or(Told(FlagFor(c, k), "flag"), Or(Told(EnvFor(c, k), "env"), next))

\* Mutant: the project's profile is told as the user's.
ToldAsUser(c, k, default) ==
  OfRun(c, k, Or(Told(Profile(c.project, c.profile)[k], "user"),
              Or(Told(Profile(c.user, c.profile)[k], "user"), Told(default, "default"))))

ProfileString(c, k, default) ==
  OfRun(c, k, Or(Told(Profile(c.project, c.profile)[k], "project"),
              Or(Told(Profile(c.user, c.profile)[k], "user"), Told(default, "default"))))

\* The key a setting has in the files need not be its name.
DefaultsString(c, k, key, default) ==
  OfRun(c, k, Or(Told(c.project.keys[key], "project"),
              Or(Told(c.user.keys[key], "user"), Told(default, "default"))))

FileString(c, k, default) == DefaultsString(c, k, k, default)

RunOnly(c, k, default) == OfRun(c, k, Told(default, "default"))

\* The GraphQL path is put together from the API's, unless it is set.
Connection(c, k) ==
  CASE k = "base_url"     -> ProfileString(c, k, None)
    [] k = "api_path"     -> ProfileString(c, k, "/api")
    [] k = "graphql_path" ->
         LET set == ProfileString(c, k, None)
         IN  IF set.value # None THEN set ELSE Told(ProfileString(c, "api_path", "/api").value, "api_path")

\* Headers are merged name by name, and have one source.
ResolvedHeaders(c, k) ==
  LET inProject == Profile(c.project, c.profile)
      value == IF inProject[k] # None THEN inProject[k] ELSE Profile(c.user, c.profile)[k]
  IN  Told(value, IF \E h \in Headers : inProject[h] # None THEN "project"
                  ELSE IF \E h \in Headers : Profile(c.user, c.profile)[h] # None THEN "user"
                  ELSE "default")

Auth(c) == ProfileString(c, "auth_mode", "auto")

Clamped(n) == IF n = "90" THEN "32" ELSE IF n = "0" THEN "1" ELSE n

\* max_docs is max_bulk by another name.
Limits(c, k) ==
  CASE k = "max_bulk"    -> DefaultsString(c, k, k, "100")
    [] k = "max_docs"    -> DefaultsString(c, k, "max_bulk", DefaultsString(c, "max_bulk", "max_bulk", "100").value)
    [] k = "concurrency" -> LET asked == DefaultsString(c, k, k, "8") IN [asked EXCEPT !.value = Clamped(@)]
    [] k = "limit"       -> DefaultsString(c, k, k, "20")
    [] k = "timeout"     -> DefaultsString(c, k, k, "30s")

Toggles(c, k) == IF k = "verbose" THEN RunOnly(c, k, "false") ELSE DefaultsString(c, k, k, "true")

\* --cache-ttl takes the place of the file's, for this run.
Cache(c) ==
  LET inFile == FileString(c, "discovery_ttl", "24h")
      ttl    == RunOnly(c, "cache_ttl", None).value
  IN  IF ttl = None THEN inFile ELSE [inFile EXCEPT !.value = ttl]

LoggingAndUpdate(c, k) ==
  CASE k = "log_level" ->
         LET level == FileString(c, k, "info")
         IN  IF level.source = "default" /\ RunOnly(c, "verbose", "false").value = "true"
             THEN Told("debug", "verbose") ELSE level
    [] k = "update_auto" ->
         IF EnvFor(c, "no_update") # None THEN Told("false", "env") ELSE FileString(c, k, "false")

\* A relative directory is taken from where it was written.
Backups(c) ==
  LET set == FileString(c, "backup_dir", None)
      anchor == CASE set.source = "project" -> "under project" [] set.source = "user" -> "under user"
                  [] OTHER -> "under work"
  IN  IF set.value = "relative" THEN [set EXCEPT !.value = anchor] ELSE set

Pins(c) == ProfileString(c, "id_type", None)

\* The site is where the API is, unless it is set.
Site(c) ==
  LET set == ProfileString(c, "site_url", None)
      base == ProfileString(c, "base_url", None).value
  IN  IF set.value = None /\ base # None THEN Told(base, "base_url") ELSE set

Effective(c, k) ==
  CASE k \in {"base_url", "api_path", "graphql_path"} -> Connection(c, k)
    [] k \in Headers             -> ResolvedHeaders(c, k)
    [] k = "auth_mode"           -> Auth(c)
    [] k = "output"              -> DefaultsString(c, k, k, "json")
    [] k \in {"limit", "max_bulk", "max_docs", "concurrency", "timeout"} -> Limits(c, k)
    [] k \in {"redact", "verbose"} -> Toggles(c, k)
    [] k = "discovery_ttl"       -> Cache(c)
    [] k = "cache_ttl"           -> RunOnly(c, k, None)
    [] k \in {"log_level", "update_auto"} -> LoggingAndUpdate(c, k)
    [] k = "no_update"           -> Told(EnvFor(c, k), "env")
    [] k = "backup_dir"          -> Backups(c)
    [] k = "id_type"             -> Pins(c)
    [] k = "site_url"            -> Site(c)

\* A command starts with settings it accepts.  A profile named in the run must be known,
\* unless the run also says where the server is.
UnknownProfile(c) ==
  /\ c.run.profile # None \/ c.run.variable # None
  /\ c.profile \notin ProfileNames(c.user, c.project)
  /\ FlagFor(c, "base_url") = None /\ EnvFor(c, "base_url") = None

Starts(c) == ~UnknownProfile(c) /\ \A k \in Keys : Accepts(k, Effective(c, k).value)

-----------------------------------------------------------------------------
(* The commands that change config.toml.                                    *)

Done(cmd, p, k, v) == [cmd |-> cmd, profile |-> p, key |-> k, value |-> v]

Init ==
  /\ \E l \in Layouts : user = l.user /\ project = l.project
  /\ edits = 0
  /\ done = Done("none", None, None, None)

Here(r) == Context(r, user, project)

Ends(what) ==
  /\ edits' = edits + 1
  /\ done' = what
  /\ UNCHANGED project

\* f with k of profile p (of none: of the file) set to v; a table that is not there is made.
TomlSet(f, p, k, v) ==
  CASE k = "default_profile" -> [f EXCEPT !.default = v]
    [] k \in FileKeys        -> [f EXCEPT !.keys[k] = v]
    [] k \in ProfileKeys     -> [f EXCEPT !.profiles = With(@, p, [Profile(f, p) EXCEPT ![k] = v])]

TomlDelete(f, p, k) ==
  IF k \in ProfileKeys /\ p \notin DOMAIN f.profiles THEN f ELSE TomlSet(f, p, k, None)

\* Mutant: the directory is stored as it was given.
StoredAsGiven(k, v) == v

\* A relative directory is stored as the one it means where the command runs.
Stored(k, v) == IF k = "backup_dir" /\ v = "relative" THEN "under work" ELSE v

\* pay config set: nothing is written that could not be read back.
ConfigSet(p, k, v) ==
  /\ Decodes(k, Stored(k, v))
  /\ user' = TomlSet(user, p, k, Stored(k, v))
  /\ Ends(Done("set", p, k, v))

ConfigUnset(p, k) ==
  /\ user' = TomlDelete(user, p, k)
  /\ Ends(Done("unset", p, k, None))

\* pay config unset profiles.p
ConfigDrops(p) ==
  /\ p \in DOMAIN user.profiles
  /\ user' = [user EXCEPT !.profiles = [q \in DOMAIN @ \ {p} |-> @[q]]]
  /\ Ends(Done("drop", p, None, None))

\* The other commands write the file as they decoded it, without what they do not know.
Save(f) == user' = [f EXCEPT !.unknown = FALSE]

\* pay auth login stores what it used: where the server is, and how it logged in.
PersistProfile(r, mode) ==
  LET c == Here(r)
      p == c.profile
      old == Profile(user, p)
      new == [old EXCEPT
               !.base_url  = Effective(c, "base_url").value,
               !.api_path  = IF Given(r.flags, "api_path") # None THEN Effective(c, "api_path").value ELSE @,
               !.auth_mode = IF @ = None \/ Given(r.flags, "auth_mode") # None THEN mode ELSE @]
  IN  /\ Starts(c)
      /\ new.base_url # None
      /\ Save([user EXCEPT !.profiles = With(@, p, new),
                           !.default  = IF @ = None THEN p ELSE @])
      /\ Ends(Done("login", p, "base_url", new.base_url))

\* pay auth use: a profile of the files, or of the credentials alone.
AuthUse(p) ==
  /\ Save([user EXCEPT !.default = p])
  /\ Ends(Done("use", p, None, None))

\* pay auth rename; the credential moves with it.
AuthRename(old, new) ==
  /\ old # new
  /\ old \in DOMAIN user.profiles /\ new \notin DOMAIN user.profiles
  /\ Save([user EXCEPT
             !.profiles = [q \in (DOMAIN @ \ {old}) \cup {new} |-> IF q = new THEN @[old] ELSE @[q]],
             !.default  = IF @ = old THEN new ELSE @])
  /\ Ends(Done("rename", old, new, None))

\* What a login may be given: a profile, an address, a mode.
LoginRuns ==
  {[Plain EXCEPT !.profile = p] : p \in Names \cup {None}} \cup
  {[Plain EXCEPT !.profile = p, !.flags = With(<<>>, "base_url", a)] : p \in Names, a \in Words["base_url"]} \cup
  {[Plain EXCEPT !.variable = p, !.env = With(<<>>, "base_url", a),
                                    !.flags = With(<<>>, "api_path", "/b")] :
     p \in Names, a \in Words["base_url"]}

\* The commands that do not say anything else about their run.
Commands ==
  \/ \E k \in FileKeys : \E v \in Words[k] : ConfigSet(None, k, v)
  \/ \E k \in ProfileKeys, p \in Names : \E v \in Words[k] : ConfigSet(p, k, v)
  \/ \E p \in Names : ConfigSet(None, "default_profile", p)
  \/ \E k \in FileKeys \cup {"default_profile"} : ConfigUnset(None, k)
  \/ \E k \in ProfileKeys, p \in Names : ConfigUnset(p, k)
  \/ \E p \in Names : ConfigDrops(p) \/ AuthUse(p)
  \/ \E old, new \in Names : AuthRename(old, new)

Next ==
  /\ edits < MaxEdits
  /\ \/ Starts(Here(Plain)) /\ Commands
     \/ \E r \in LoginRuns, mode \in {"api-key", "jwt"} : PersistProfile(r, mode)

Spec == Init /\ [][Next]_vars

-----------------------------------------------------------------------------
(* Properties.                                                              *)

Value(u, p, k) == Effective(Context(At(p), u, project), k).value
InProject(p, k) == IF k \in ProfileKeys THEN Profile(project, p)[k]
                   ELSE IF k \in FileKeys THEN project.keys[k] ELSE None

\* What a command is about, of what a run with profile p works with; and what is worked out
\* from that.
About(d, p) ==
  CASE d.cmd \in {"set", "unset"} -> IF d.profile \in {None, p} THEN {d.key} ELSE {}
    [] d.cmd = "login"  -> IF d.profile = p THEN {"base_url", "api_path", "auth_mode"} ELSE {}
    [] d.cmd = "drop"   -> IF d.profile = p THEN ProfileKeys ELSE {}
    [] d.cmd = "rename" -> IF p \in {d.profile, d.key} THEN ProfileKeys ELSE {}
    [] OTHER -> {}

Follows(k) == CASE k = "base_url" -> {k, "site_url"} [] k = "api_path" -> {k, "graphql_path"}
                [] k = "max_bulk" -> {k, "max_docs"} [] OTHER -> {k}

Touched(d, p) == UNION {Follows(k) : k \in About(d, p)}

\* What a value comes to when the command runs where it was set.
Means(k, v) == CASE k = "concurrency" -> Clamped(v)
                 [] k = "backup_dir" /\ v = "relative" -> "under work"
                 [] OTHER -> v

Default(u) == Selected(Plain, u, project)

\* A command that changes config.toml changes what it names and nothing else, for a run with
\* any profile; what it sets is what the next command works with, unless the project says
\* otherwise; a profile that gets another name keeps its settings, and stays the default.
\* (config.go:351 editConfig, auth.go:380 persistProfile, profile.go:240 auth rename.)
KeepsSettings ==
  LET d == done'
  IN  /\ \A p \in Names :
           LET now == Context(At(p), user', project)
               was == Context(At(p), user, project)
           IN  \A k \in Keys \ Touched(d, p) : Effective(now, k).value = Effective(was, k).value
      /\ d.cmd \in {"set", "login"} /\ d.key # "default_profile" =>
           \A p \in Names : d.profile \in {None, p} =>
             Value(user', p, d.key) = IF InProject(p, d.key) # None THEN Value(user, p, d.key)
                                      ELSE Means(d.key, d.value)
      /\ d.cmd = "rename" /\ DOMAIN project.profiles = {} =>
           \A k \in Keys : Value(user', d.key, k) = Value(user, d.profile, k)
      /\ d.cmd = "rename" /\ project.default = None /\ d.profile \in {user.default, Default(user)}
             /\ (user.default # None \/ Default(user) \notin {Fallback} \cup DOMAIN project.profiles) =>
           Default(user') = IF Default(user) = d.profile THEN d.key ELSE Default(user)
      /\ d.cmd = "use" /\ project.default = None => Default(user') = d.profile
      /\ Default(user') # Default(user) =>
           user'.default # user.default \/ DOMAIN user'.profiles # DOMAIN user.profiles

\* The settings config explain tells of, and the runs about one of them.
Explained == Keys \ {"cache_ttl", "no_update"}

Other(k) == IF k = "log_level" THEN "verbose" ELSE IF k = "update_auto" THEN "no_update" ELSE k
RunsAbout(k, p) ==
  LET flags == {<<>>} \cup {With(<<>>, j, "true") : j \in {Other(k)} \cap FlagKeys}
      env   == {<<>>} \cup {With(<<>>, j, "true") : j \in {Other(k)} \cap EnvKeys}
  IN  {Run(p, None, f, e) : f \in flags, e \in env}

\* c with the setting k said otherwise by a source.
Said(c, source, k, v) ==
  LET key == IF k = "max_docs" THEN "max_bulk" ELSE k
  IN  CASE source = "flag"    -> [c EXCEPT !.run.flags = With(@, k, v)]
        [] source = "env"     -> [c EXCEPT !.run.env = With(@, k, v)]
        [] source = "project" -> [c EXCEPT !.project = TomlSet(@, c.profile, key, v)]
        [] source \in {"user", "default"} -> [c EXCEPT !.user = TomlSet(@, c.profile, key, v)]

\* A value that was derived is changed where what it comes from is.
Changed(c, source, k, v) ==
  IF source \in Keys THEN Said(c, Effective(c, source).source, source, v) ELSE Said(c, source, k, v)

\* "The source string names the exact file or variable; change that one": what another value
\* there comes to is what the setting becomes.  A default is told where nobody says anything.
\* (The TTL that --cache-ttl replaces is told with the file's source: see the README.)
\* (resolve.go:1212 Explain, with every chain before it; config.go:154.)
SourceTrue ==
  \A k \in Explained : \A r \in RunsAbout(k, Default(user)) :
    LET c == Context(r, user, project)
        told == Effective(c, k)
        new == "another"
        becomes == Effective(Changed(c, told.source, k, new), k).value
    IN  CASE told.source = "default" ->
               k \in FileKeys \cup ProfileKeys =>
                 \A s \in {"user", "project"} : Effective(Said(c, s, k, new), k).source = s
          [] told.source = "verbose" -> becomes # told.value
          [] k = "update_auto" /\ told.source = "env" ->
               Effective([c EXCEPT !.run.env = <<>>], k).source # "env"
          [] OTHER -> becomes = new
=============================================================================
