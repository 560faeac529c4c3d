------------------------------ MODULE MCSetup ------------------------------
(***************************************************************************)
(* Model checking of what a command has before it does its work: the      *)
(* settings and the discovery.  The one is known when the other begins, so *)
(* they are checked side by side: a behaviour is one of one of them, chosen*)
(* at the start.                                                           *)
(***************************************************************************)
EXTENDS Discovery

CONSTANTS Names, Fallback, Files, Words, MaxEdits  \* see Configuration

VARIABLES part, sUser, sProject, sEdits, sDone

settingsVars == <<sUser, sProject, sEdits, sDone>>

-----------------------------------------------------------------------------
\* Two locales, two that GraphQL names alike, and the keys of two groups, one of which
\* could be codes.
Locales == {11, 2}
Shared  == {11, 21}
Group   == {3, 4}
SEO     == {101, 102}

\* Seen, anonymously, by GraphQL; endpoints; auth, upload, versions; documents and groups.
Users(anon)         == Coll(TRUE, anon, TRUE, TRUE, TRUE, FALSE, FALSE, "plain", {})
Posts(docs, groups) == Coll(TRUE, TRUE, TRUE, TRUE, FALSE, FALSE, TRUE, docs, groups)
Media               == Coll(TRUE, FALSE, TRUE, TRUE, FALSE, TRUE, FALSE, "plain", {Group})
Migrations          == Coll(TRUE, FALSE, FALSE, FALSE, FALSE, FALSE, FALSE, "none", {})
KV                  == Coll(FALSE, FALSE, TRUE, TRUE, FALSE, FALSE, TRUE, "none", {})

SomeServers == {
  Server(<<Users(FALSE), Posts("localized", {SEO}), Migrations>>, {1}, 1, TRUE, 1, Locales, {"og"}),
  Server(<<Users(TRUE), Users(TRUE), KV>>, {1, 2}, 2, TRUE, 4, {}, {}),
  Server(<<Users(TRUE), Media, Migrations>>, {1}, 1, FALSE, 4, {}, {}),
  Server(<<Users(TRUE), Posts("localized", {Group})>>, {2, 3}, 1, FALSE, 4, Locales, {}),
  Server(<<Users(TRUE), Posts("localized", {})>>, {1}, 1, TRUE, 4, Shared, {}),
  Server(<<Users(TRUE), Posts("plain", {Group})>>, {1}, 1, TRUE, 4, Locales, {}),
  Server(<<Users(FALSE), Posts("none", {})>>, {1}, None, TRUE, 1, {}, {}) }

SomeSettings == {
  Setting(None, FALSE, FALSE, FALSE), Setting(1, FALSE, FALSE, TRUE),
  Setting(None, TRUE, FALSE, FALSE), Setting(2, FALSE, TRUE, FALSE) }

\* For each setting a value a command starts with, and for some one it does not start with
\* or one that could not be read back.
SomeWords == [k \in {"base_url", "api_path", "graphql_path", "auth_mode", "id_type", "site_url", "header_a",
                     "header_b", "output", "limit", "max_bulk", "concurrency", "timeout", "redact",
                     "discovery_ttl", "log_level", "update_auto", "backup_dir"} |->
  CASE k = "base_url" -> {"http://a", "nonsense"} [] k = "api_path" -> {"/b"} [] k = "graphql_path" -> {"/g"}
    [] k = "auth_mode" -> {"auto"} [] k = "id_type" -> {"string", "odd"} [] k = "site_url" -> {"http://b"}
    [] k \in {"header_a", "header_b"} -> {"x"} [] k = "output" -> {"table"} [] k = "limit" -> {"5", "many"}
    [] k = "max_bulk" -> {"5", "0"} [] k = "concurrency" -> {"90"} [] k = "timeout" -> {"60s", "soon"}
    [] k = "redact" -> {"false"} [] k = "update_auto" -> {"true"} [] k = "discovery_ttl" -> {"0s"}
    [] k = "log_level" -> {"debug"} [] k = "backup_dir" -> {"relative", "/abs"}]

\* No key of a profile or a file.
Bare  == [k \in {"base_url", "api_path", "graphql_path", "auth_mode", "id_type", "site_url", "header_a",
                 "header_b"} |-> None]
Empty == [default |-> None, profiles |-> <<>>, unknown |-> FALSE,
          keys |-> [k \in DOMAIN SomeWords \ DOMAIN Bare |-> None]]
Holds(k, v) == [Bare EXCEPT ![k] = v]
P == Fallback
Q == CHOOSE n \in Names : n # Fallback

\* Nothing; one profile, unnamed; two, one with a header of the project's too; a project that
\* has its own default profile and settings, and a user file somebody's newer pay has written.
SomeFiles == {
  [user |-> Empty, project |-> Empty],
  [user |-> [Empty EXCEPT !.profiles = P :> Holds("base_url", "http://b")], project |-> Empty],
  [user |-> [Empty EXCEPT !.profiles = (P :> Holds("base_url", "http://b")) @@ (Q :> Holds("header_b", "x")),
                          !.default = Q],
   project |-> [Empty EXCEPT !.profiles = Q :> Holds("header_a", "y")]],
  [user |-> [Empty EXCEPT !.profiles = Q :> Holds("api_path", "/c"), !.unknown = TRUE],
   project |-> [Empty EXCEPT !.profiles = P :> Holds("base_url", "http://b"), !.default = P,
                             !.keys = ("backup_dir" :> "relative") @@ ("timeout" :> "60s") @@ @]] }

Conf == INSTANCE Configuration WITH
  Layouts <- Files,
  user <- sUser, project <- sProject, edits <- sEdits, done <- sDone

-----------------------------------------------------------------------------
SetupInit ==
  /\ part \in {"discovery", "settings"}
  /\ Init /\ Conf!Init
  /\ part # "discovery" =>
       server = (CHOOSE s \in SomeServers : TRUE) /\ set = Setting(1, FALSE, FALSE, TRUE)
  /\ part # "settings"  => sProject = Empty /\ sUser = Empty

Discovers == part = "discovery" /\ UNCHANGED <<part, settingsVars>>

SetupNext ==
  \/ Discovers /\ Next
  \/ part = "settings" /\ Conf!Next /\ UNCHANGED <<part, vars>>

SetupSpec ==
  /\ SetupInit /\ [][SetupNext]_<<part, vars, settingsVars>>
  /\ WF_<<part, vars, settingsVars>>(Discovers /\ Step)

\* See Discovery.
RunsEnd == part = "discovery" => RunEnds

\* See Configuration.
SettingsKept == [][part = "settings" => Conf!KeepsSettings]_settingsVars
SourceTrue   == part = "settings" => Conf!SourceTrue
=============================================================================
