# pay-cli in TLA+

`pay` is a command-line client of the Payload CMS REST API. One invocation is
one process and one command; nothing of it stays resident. What makes it hard is
therefore not what one command computes but what several commands, of the same
user and at the same time, do to the files they share, what a command leaves
behind when it fails or is killed between two writes, and what it may safely send
a second time. This project models those parts and checks them with TLC; what
matters most is proved with TLAPS for every value of the constants.

## Inventory

Sources are under `src/`. "Shared" is the state that survives a command.

| component | state | operations | hard behaviours |
|---|---|---|---|
| discovery cache (`internal/cache`, `cli/discover.go`, `cli/opmemo.go`, `cli/cache.go`) | shared: `$CACHE/v1/<scope>/{manifest.json, fields/*.json, .lock}`; per command: the manifest in hand | freshness ladder, probe, Touch, RunDiscovery + WriteSet, operator memo, lock-free reads, clear, GC | readers without a lock against writers; read-modify-write outside the lock; lock inode renamed away; crash between two files of a set |
| block census (`cache/census.go`, `discovery/census*.go`, `cli/blocks_census.go`) | shared: `census.json` of the scope | load, merge, prune, diff | the one read-modify-write that is under the lock; a merge of two builders |
| discovery pipeline (`internal/discovery`) | in memory | stage 0 to 3, degrade, index | concurrent fetches of one run; what a missing answer may be taken to mean |
| HTTP transport (`internal/payload`) | per command: token, retry budget, reactive state | attempt, retry, budget, promotion to POST, stale re-send | a write retried after an answer was lost; many goroutines on one budget |
| credentials (`internal/secret`, `cli/auth.go`, `cli/profile.go`) | shared: `credentials.json`, the OS keychain, `config.toml` | login, logout, rename, preview secret, resolve | a load, edit and save without a lock; two backends that must agree; a keychain call that outlives its timeout |
| audit log (`internal/audit`) | shared: `audit.jsonl`, `.1`, `.2`, `.3` | Pre, Post, rotate, Tail | two processes rotating; crash between two renames |
| self-update (`internal/update`, `cli/selfupdate.go`, `cli/root.go`) | shared: the binary, `update-state.json`, its lock | Check, Apply, swap, background apply | state read before and written after a network call; crash between renames; a verification failure forgotten |
| backups (`internal/backup`, `cli/backup.go`, `backups.go`) | shared: the backup directory | Write, Prune, list, restore | a probed name taken by somebody else; a directory pruned under a writer; a restore that is a write of its own |
| write commands (`cli/create.go`, `update.go`, `delete.go`, `internal/safety`, `payload/mutate.go`) | the server's documents | count, cap, resolve ids, dry-run, confirm, back up, audit, write in chunks | the set counted is not the set written; a chunk in the middle fails |
| publish commands (`cli/publish.go`, `pubguard.go`) | the server's drafts | publish, schedule, guard | a draft changed between the guard and the write |
| plan and sync (`internal/manifest`, `cli/plan.go`, `sync.go`) | a manifest, the server | order, plan, write | references to documents not yet created; a half-applied manifest |
| skills installer (`internal/skills`) | shared: the agent's skill directory | install, uninstall, project sections | files the user edited |
| edit pipeline (`cli/pipeline.go`, `blocks.go`, `masked.go`, `internal/rows`) | the envelope on the pipe; the server's document | get, mv, rm, add, cp, set, apply | selectors that count in an array another stage has changed; masked values put back; another editor |
| configuration (`internal/config`, `cli/config.go`, `cli/profile.go`) | shared: `config.toml`, project files | resolve, config set, unset, auth use, rename | six layers of settings; a value accepted when written and refused when read |
| orphans (`internal/orphans`, `cli/orphans.go`, `reset_nested.go`) | in memory | scan, judge, restate, plan the carriers | rows a shape change leaves in the database, foretold before the write |
| read commands, rich text, output, errors, redaction, test kit | none that survives | – | functions of their inputs |

Commands interact through files only: the cache scope, `credentials.json`,
`config.toml`, the audit log, the backup directory and the update state. Files
are replaced by `fsatomic.Write` (temporary file, fsync, rename), so a reader
sees the old or the new content and never a torn one; every model takes one such
write as one step.

## Modules

Reading order: a module and, where there is one, what it promises (`AtomicRuns`,
`GuardedWrite`), then its proofs. `MC*` modules hold the sets of values and the
initial states TLC takes.

### DiscoveryCache, AtomicRuns

One scope directory and the processes that use it. `index` is `manifest.json`,
`shard[e]` the generation in `fields/<slug>.json`, `dir` the incarnation of the
directory (a clear renames it away, with the `.lock` in it), `inode[p]` and
`held[p]` the lock file a process has open and whether it holds the flock. A
process runs one command: `use` (anything that needs discovery), `query` (which
may learn a refused operator and write the memo), `refresh`, `nocache`,
`offline` (completion and help), `clear`, `sweep` (GC of this scope by a process
that wrote another). The actions are the code's steps: `Resolve` (ReadManifest and
the ladder), the probe's three ends (Revalidate), `TouchReads`, the discovery,
WriteSet and Touch file by file under the lock, the memo, the lock-free reads.
External: the server is its topology hash (`Deploy`), the clock ticks (`Tick`),
the kernel drops the flock of a dead process.

The index's body is abstracted to its generation, topology hash, `confirmed_at`
and whether it holds an operator memo. A read that ends in a rejected document is
a miss, as it is in the code.

`AtomicRuns` is what the cache promises: a command answers from one discovery run,
and the schema it is given for an entity is that run's or none. No disk, lock or
writer. `DiscoveryCache` implements it, with a command's run being its manifest's
generation.

### Discovery

One run of `Discoverer.Run`: `todo`, `busy` and `got` are the pool of a stage,
`Takes` and `Answers`/`Fails` a worker's two steps; the phases follow the code
(auth bootstrap, autodiscovery of the API path, `/access` and `/me`, GraphQL's
schema, the batches of types, the probes of what GraphQL did not tell, locales).
`degrade` and the assembly of the index are functions of what came back. A server
is a record of what it would answer; of a collection's flags `upload` stands for
those a probe takes as true unless the route is missing, `versions` for those it
takes as false unless there are documents.

### Credentials

Where a credential is kept: `file` is `credentials.json` (a record per profile),
`keychain` the entry of each profile's account, `config` the `auth_mode` of each
profile in `config.toml`, `kmode` is `PAY_KEYRING`. A process runs `login`,
`relogin` (a login that is given no key and saves the one it resolves), `logout`,
`preview`, `clear`, `rename`, `use` or `read`. The actions are one file operation
or one keychain call each. A keychain call may never be answered: `Deadlines` are
the code's 2 s timeout, and `late` is a call that takes effect after it, for as
long as the process lives. A secret is its profile, its kind and a version.

### AuditLog

`content[n]` are the lines of `audit.log` (0) and its generations, `fd[p]` the file
a process has open, which a rename moves and a removal leaves without a name. A
write command is `Start`, then for each of its two records `Stats`
(rotateIfNeeded), `RemovesOldest`, `Renames` (rotate), `Opens`, `Appends` (write),
with `Calls`, the request to the server, between them. `WriteFails` is any failed
step: `Pre` aborts the operation, `Post` warns; the write may leave half a line.

### Transport

The requests of one process, each in a goroutine of its own, with the retry budget
and the once-per-process re-discovery they share. `Plans` is `Client.plan`,
`Sends`, `AttemptEnds` and `Promotes` the loop of `send`, `ClassifyAttempt` its
retry table, `LoadsBudget` and `SwapsBudget` the two atomic steps of
`Budget.Take`, `Returns` what `Do` does with the result and `Renews`
`handleStale`. External: `Executes` is the server, `Ends` what the network and
`net/http` may make of an attempt. An attempt given up may be executed later
(`flying`). No command of this commit passes an `Invalidator` or calls
`WithReactiveInvalidation` (only tests do), so `Renews` models what the client
offers to a caller that would.

### BulkWrite, GuardedWrite

`pay update --where` and `pay delete --where`: `Counts`, `Resolves` page by page,
the cap, the confirmation, the backups, the audit record, the chunks, the report;
`unsafe` is the delete that sends the filter itself. Others change documents
between any two steps. The server works a chunk off document by document, and an
answer may be lost. `GuardedWrite` is what every write command promises: a
document is saved before the command changes it, and the log tells of the command
first. `BulkWrite` implements it.

### Publication

One document with drafts and the commands that write it by id: update with its
modes, publish, unpublish, `--reset-nested` with its carriers and restatement, the
remedy of a carrier phase, `versions restore`, `backups restore` in two steps. A
row is who wrote it, its status and whether it holds carriers; `stored` is the live
row and `newest` the newest version, and `flying` the request under way. The guard
(`pubguard.go`) reads both, judges and lets the command write later.

### Sync

`pay sync`: the plan (a document is found by its match value, in its locale), the
order (dependencies first; a cycle refuses the plan), the references filled with
the ids of what was created, the writes with their modes, the envelope; run again
and again while another editor works, requests fail, answers are lost and the
process is cancelled or killed.

### EditPipeline, Rows

`Rows` is `internal/rows` as functions of an array: selectors (by index from
either end, by id, by type and n-th), insert, move, copy, remove, set.
`EditPipeline` is `pay get | pay blocks ... | pay apply`: a stage reads the
envelope of the one before it, finds the array its path names (`Locate`: schema,
then what the document carries, then candidates), edits it, records the operation
with the positions it resolved to, and warns; `apply` refuses, puts masked values
back and sends the arrays that were edited, whole. Edits by another editor are
placed before the first stage or before the write: no stage looks at the server in
between. `removed` is history.

`DocumentWrites` puts the pipeline beside `Sync`, under names of its own, and assumes of
its constants what the server and the commands guarantee (`DocumentsAssumption`);
`MCDocuments` and `DocumentsProofs` both extend it.

### Census, MCRaces

`census.json` of one scope (`disk`, an entity per collection) and the processes that
rewrite it under its lock. A command that reads is `Ensures` (what is missing, too old
or forced), for each entity `Starts1`, `ReadsPage`, `ReadsOldest` or `ReadFails`, and
`Persists`, which merges what was read into the file as it is then (`Merge`). One that
writes is `Writes` and `Folds`, which lays the document the server answered with over
the entity (`Overlay`). Beside them: `Clears`, `Crashes`, the edits of others (`Edits`),
which move the pages of a read under way, and `Tick`. An entity holds how many rows of
each type are at each position, what their one scalar field was seen to be (`style`:
present, filled, values, distinct, enum-like, optional) and which types are inside which.
`Findings` is the validation of a document against it, `Accepted` what a field accepts
and whether that list is complete. History: `peak`, the most rows of each type a document
ever had, and `missed`, what a read that calls itself complete lacks. `MCRaces` runs
it and, as another part, two processes of `Credentials`.

### Orphans

`db` are the tables of Payload's Postgres adapter for one document, a row being where it
is and its type: a write clears only the tables it reaches (`Written`), and what it
leaves is read back wherever its path leads (`Read`). `Analyze` is the forecast (the
types at risk, the chains that lead to them, the order of the carrier phases), `Checked`
the check after a write. `OtherWrites` is another client, `Updates` a plain update,
`PlansRemedy` and `Sends` a restructure or a repair request by request, `Stops` its early
end (how requests fail is in `Publication`). It is the third part of `MCDocuments`.

### Configuration, MCSetup

`user` and `project` are `config.toml` and `pay.toml`: a default profile, profiles, other
keys, and whether there is a key nobody knows. `Effective` is `Resolve`: a chain of layers
for each kind of setting (flag, variable, the project's profile or file, the user's, a
default), with the source it tells; the headers alone are merged key by key. A command
starts only with settings it accepts (`Starts`). The actions are the commands that rewrite
`config.toml`: `ConfigSet`, `ConfigUnset`, `ConfigDrops` (of a profile), `PersistProfile`
(`auth login`), `AuthUse` and `AuthRename`. `MCSetup` runs it, with its names, words and
layouts of the files, and, as another part, `Discovery`.

### Backups

The backup directory of one profile and two processes. `Starts` begins a write
(`Looks` reads the states it is about to change, `Saves` probes a name and `Writes`
renames the file to it) or a restore (`StartsRestore`, which reads a backup and
saves the present state first); `Executes` is the server, `Others` another editor,
`Prune` the removal of old files, `Tick` the millisecond in a file's name. A
document has a live row, a pending draft or is trashed. It is the fourth part of
`MCLocalFiles`.

### SelfUpdate, Skills

`SelfUpdate`: `update-state.json` read and written whole without a lock by
check, apply and the child that `update.auto` starts; the update lock; download,
verification and the rename over the binary, by images of different versions.
`Skills`: install, update and uninstall file by file, with the manifest written
last, while the user edits files and the binary is upgraded.

## Runs

`CHECK_DEADLOCK FALSE` is set where the bounded commands may all have been run.
Components that share nothing are checked in one run, a behaviour being one
component's (`part`, chosen in the initial state).

| run | shows |
|---|---|
| `CacheReads` | `TypeOK`, `NoMixedRuns`, `FreshnessTrue` (what `confirmed_at` says, and how old an answer may be) and the refinement `ImplementsAtomicRuns`: every kind of command, crashes, failed writes, clears, sweeps; the server only goes forward |
| `CachePublish` | `WritersExclude`, `SetComplete` with timeouts and crashes, no clears; `CommandsEnd`: a scheduled command ends though the other may hang holding the lock |
| `CredSerial` | one command after another, two profiles, every `PAY_KEYRING`: `TypeOK`, `RecordsRight` (which record a command finds, keeps and leaves), `CommandsEnd` with a keychain that may never answer |
| `Races` | commands of two processes at once, late keychain calls: `NoSilentFallback`, `OwnSecretOnly`; the census: `CensusTrue` (what is refused was never seen, what is said complete was read), `NewerKept` |
| `TransportRetries` | `TypeOK`, `AtMostOnce`, `UnsentIsTrue`, `Restrained`, `RenewsOnce`, `RequestsEnd`: two requests on a budget of one retry |
| `BulkWrites` | `TypeOK`, `BlastRadius`, `EnvelopeTrue`, `SavedBeforeChanged` (the refinement), `Terminates`: every verb with each switch, lost answers, stray executions, failed backups |
| `BulkExit` | a finding, below |
| `Publication` | `ToldTruly` (a draft goes live only if the command said so, an undo restores), `NeverOffline`, `CommandsEnd`: two commands and an edit by somebody else at any step, lost answers, crashes |
| `Documents` | sync: `RunsInOrder` (references, duplicates, the second run), `WritesAsTold` (the envelope, the statuses); the edit pipeline: `EditsExact`; orphans: `OrphansTold` |
| `Setup` | discovery: `IndexTrue`, `RunsEnd`, seven servers, any two requests lost, a deadline at any point; configuration: `SourceTrue`, `SettingsKept` |
| `LocalFiles` | the audit log: `LogSound`; self-update: `SwapsRight`; the skills: `SkillsRight`; the backups: `BackupsHold` |
| `AutoApply` | a finding, below |

Bounds. Cache: two processes suffice for each read-modify-write race, and for a
reader beside a writer or beside what a crashed one left (a reader among two
writers is the theorem's, not the runs'); `CachePublish` has the two entities a set
needs to be torn, `CacheReads` one, since a served shard is compared with the
manifest alone; two topologies, two ticks, three generations. Credentials: one
process for what a sequence may do, two for a race on a file; a login, another
command and a third that looks at the result are the longest stories, and two
versions tell the old secret of a profile from the new one. Transport: three
attempts let a free retry, a promotion and a backoff follow each other; with one
retry the two requests compete for the last. Bulk: of three documents two may be
written, so that the cap bites; pages of one make the resolution three readings;
chunks of two leave a full and a part one. Publication: one edit by others is
enough to stand between any two of a command's steps, and `undo` needs one command
before it; two carrier phases; one retry. Documents: two runs of a manifest of three
items (a chain), of two (a cycle, two locales that agree on the status or do not, twins);
the hook that rewrites a match value is left to the shorter ones, and of the chain all
or nothing is there at first (a run that ends early leaves a part). The pipe has one document of three rows and one,
the first with two inner rows, two stages, and for each kind of selector, entry,
anchor and change one or two values: a stage must meet what another one moved, and a
third would meet what two may leave. Discovery: each server is a case the stages
tell apart; two workers; two lost answers, of which one may be a retry. Audit: two
generations of two records let a record move through every file and fall off the
end; five operations write ten records. Self-update: two processes, three releases, and
a binary that a package manager owns under `update.auto` only, whose children it must
stop. Skills: two versions, one edit, three commands of which the last runs alone.
Backups: two processes, three commands, the last alone too, two documents (the first with a draft, live or
not), a clock of one step (so that two files may fall in the same millisecond) and one
change by others. Configuration: two commands on four layouts of the files, two
profiles, one setting of each kind of value. Census: a clock on which a good entity
becomes old, two documents of few values each. Orphans: five documents, one per kind of
change, three writes, three carrier phases.

Fairness (`FairSpec`): the operating system runs a scheduled process that has
started, goroutines are scheduled, and a step that waits has a timeout:
`LockTimesOut` for `.lock`, the 2 s of a keychain call, the client's timeout of an
attempt. Weak fairness of the command's own steps is all that is assumed; other
processes, other editors, the keychain and the server have none.

## Findings

Each is a run that violates one property.

- `BulkExit`: a chunk that gets no answer puts its ids in neither `docs` nor
  `errors`, and the bulk command exits 0, although "Exit 7 is emitted whenever any
  document failed".
- `AutoApply`: the child that a pending release starts gets `PAY_NO_UPDATE=1`, under
  which `update-self --apply` refuses to do anything.

Met while modelling, and not kept as runs:

Cache
- The operator memo reads the index before it takes the lock, and writes it back over
  a newer one (`opmemo.go:94`); `Touch` does the same (`store.go:630`), and stamps
  whatever index is on disk, not the one the probe was compared with: after a
  deployment is rolled back it confirms a topology the server no longer has.
- clear does not take the lock, and a set may be published without its first shards
  (`gc.go:215`); GC collects a scope that was renewed after it looked (`gc.go:170`).
- A shard refused because a writer died half-way does not lead to a discovery
  (`discover.go:439`), and completion reads the index twice (`discover.go:427`),
  whereas `store.go:219` says "PayCLI re-discovers rather than mixing two runs".

Credentials
- A token login after an API key login is stored and not used (`auth.go:389`).
- `login --keyring` with `PAY_KEYRING` unset writes an entry nothing reads
  (`keyring.go:74`), and a logout then leaves an entry in the keychain
  (`keyring.go:109`), although `auth.go:466` says "Logout removes the keychain entry
  too". `auth rename` moves the record and not the keychain entry (`profile.go:240`),
  and replaces a record that only `credentials.json` has (`file.go:177`). Under
  `PAY_KEYRING=force` a stored token may be resolved as an API key (`chain.go:194`).
- A login and `auth preview` at once undo each other on `credentials.json`
  (`file.go:134`): `OnlyItsOwn` fails with two processes.

Audit, transport
- Two rotations at once lose the record of a call that was made (`rotate.go:40`).
  `Tail` reads `.1`, `.2`, `.3` and then the log, although its comment says oldest
  first; a record cut short by a full disk swallows the next one.
- The free retry of a closed connection sends an upload again from a reader that was
  partly read (`retry.go:156`). A second request that meets a stale schema while the
  first still re-discovers is told the schema "is already the refreshed one"
  (`reactive.go:123`).

Bulk and publication
- `Count` answering 0 lifts the cap of what is resolved afterwards; a delete by filter
  backs up the documents it resolved and deletes those that match later; page shifts
  may duplicate or miss ids; a document whose answer was lost is reported failed
  though it may have been changed.
- The guard reads before the PATCH, so a draft saved in between defeats it;
  `backups.go:751` says "nothing was written" of any failure of a restore's first
  step; a bulk unpublish merges into the stored row and supersedes a pending draft,
  a single unpublish does not; `backups restore` of an unpublished document whose
  restatement failed saves a draft and leaves the carriers.

Sync
- Two items for one new document in two locales are both planned as `create`, and the
  next run refuses them as ambiguous. A reset after a received write is
  `network_unreachable`, which `uncertainWrite` (`sync.go:587`) does not know, so "sync
  wrote nothing" may be false. A create executed after it was given up, or a hook that
  rewrites the match value, makes the next run create another (the latter is said).

Edit pipeline
- `emitStage` (`pipeline.go`) calls bare rows a document list, so a second stage on the
  output of `--path .layout` fails, although transforms are said to compose.
- `restoreMasked` (`masked.go`) pairs a row without an id with the stored row at its
  place, so a copied row takes another row's masked value inside rich text; what is
  masked is read before the PATCH, and an edit in between is overwritten, as is any
  edit of the same array between `get` and `apply`.
- `stale_index` compares operations on one positional path only: a `set` of
  `blockType` that changes what `t[0]` names, and an array that moved with its row, are
  missed. With a declared schema and a trimmed read, the only blocks field the read
  carries is chosen silently. `blocks set --set id=` is not refused, `--unset id` is.

Discovery
- `Run` does not look at its deadline after stage 0: probes that were cut off become
  definite flags, and `RunDiscovery` publishes the index as fresh. `gqlOnce` memoises a
  transient failure; the auth bootstrap asks at the configured API path before the real
  one is found; a versions probe denied by access control says false.
- `looksLikeLocaleKeys` accepts `{title, description}`, which its comment excludes, and
  `AnalyzeLocaleAll` counts (document, field) pairs where its comment says two fields.
  `absorbTypes` takes a null alias as absent where its comment says halve.

Backups
- A name is chosen by an existence check before the rename (`backup/backup.go:224`):
  two processes that save one document in one millisecond before the same command
  replace each other's file, although it is said to add to the first. `StatesHeld`
  excepts it (`replaced`). Ids that differ only in characters a path cannot have share
  a directory, so `--id` matches both. A restore's PATCH cannot remove a field that the
  backup did not have.

Configuration
- `config set` accepts values that `Resolve` refuses afterwards (`defaults.max_bulk`
  0, a `timeout` of "soon", an unknown `output`): every later command fails, `config
  unset` too, although `cli/config.go:351` says it "can never leave behind a file it
  would itself refuse to load".
- `config explain` shows the value `--cache-ttl` gave `discovery_ttl` with the source
  of the file; `log_level` is attributed to `--verbose` when `PAY_VERBOSE` set it;
  `headers`, `blocks` and `url_paths` are merged key by key and have one source.
- `auth login`, `use` and `rename` write the decoded file back and drop keys they do
  not know, which `config set` keeps. `auth use` loses to a project's
  `default_profile`; a rename leaves the project's pointing at the old name, and
  `config unset profiles.X` leaves one pointing at nothing.

Census
- A read that failed before it loaded the census overwrites another process's good
  entity; a fold between a learn's read and its write is lost; a document deleted
  between two pages makes a complete-looking read miss one.
- An enum-like field that meets a document with more values than the limit stays
  enum-like if the listed ones are all known: a value it has is then refused
  (`blocks_census.go` says it "is no anomaly however old the census is"). The
  layouts of the run have no such document. A retired type still stored can be joined
  by its name. `censusUsableForWrites` ignores the entry's error.

Orphans
- `riskFromBackup` judges by the newest version: with a draft pending over a published
  state, rows are left that were not foretold (`Foretold` is stated for a document whose
  newest version is the stored one).

Self-update and skills
- A pending release that failed its verification is preferred to a newer one until a
  check finds another; one whose archive failed its checksum becomes pending again at
  the next check; a cosign cut off by the deadline is recorded as a failed verification;
  processes overwrite each other's state, and an old image may apply an older release.
- An install without project content saves a manifest without `PROJECT.md`'s record, so
  that later updates refuse it as the user's; `DiscoveryRevision` is recorded although
  `PROJECT.md` was skipped; the manifest is written last, so a crash makes new files
  look edited; `uninstall` has no `--force`, which its warning names; `--agent all,x`
  ignores `all`.

## Proofs

The assumptions are those on the constants (`ASSUME` in each module) and what a theorem
names after its own `ASSUME`: the case it is about, or a condition on the constants that
the values of the run satisfy as well. Where a hypothesis excludes a case, the case is
named below.

`DiscoveryCacheProofs`: the induction for `NoMixedRuns` is over
`TypeOK /\ Coherent`. `Coherent` adds that what a command holds its shards to
(`ref`) has the generation of the manifest it answers from, and that `view` is
blank outside serving; `NoMixedRuns` alone is not inductive, because a shard is
compared with `ref` and never with `man`. The theorem `RunsNeverMix` holds with or
without a working flock. `LockInv` ties `held` to an open inode; `SetInv` says that
while a set is written its writer is the only one in `write`, which needs a working
flock and no clear. The refinement maps every step to a step of
`AtomicRuns` or a stutter. `FreshnessTrue` is proved of two processes whose server only
goes forward (`FreshnessOfTwo`): `FreshInv` dates what is on disk, what a process has in
hand and what it is about to write, and says that nobody is about to write something older
than what the other has just confirmed (`Clear`). It is not true of three: a writer
that is slow to publish what it read before a deployment may do so between another
command's probe and its `Touch`, which then stamps that old set with the time of a probe
of the new topology (`store.go:622-660`).

`RacesProofs`, credentials: `TypeOK`, `NoSilentFallback`, `OwnSecretOnly` and
`RecordsRight`.
`NoSilentFallback` needs what a process carries (`Carries`): a forced or flagged login
that is about to write the file holds a pointer without a secret, and what a forced
process loaded holds none; and where it is in its command (`Where`): only a logout is
at `forget` or `ringdel`, only a rename at `rename`. `Frame` says that a step of one
process leaves the others' state alone. `SecretsStayHome` (`OwnSecretOnly`) is by
`OwnInv`: every store and every variable of a process, a keychain call given up
included, holds secrets of the profile it is about. It is stated for `Commands` without
`rename`, which gives the secret of one name to another on purpose; the run that checks
it has none either. `RecordsAreRight` is of one command at a time, of API keys and of logins
without `--keyring`, as its run is: a token login after one with a key, a login with
`--keyring` and two processes at once each break it, as listed above. `Solo`
follows a command from what it read (`AsRead`) to what it has put where (`Puts`,
`Leaves`), and says whose a keychain call given up can be (`Abandons`).

`RacesProofs`, census: `CensusHolds` and `CensusKeepsNewer`, for any documents and
commands, any number of processes, pages, budgets and ages. `CensusKeepsNewer` needs only
that what a command has built carries the time at which its read began. `ReadInv` follows
a read over pages that move: every document that was there at the beginning and was not
deleted has been read or lies further back, and where the oldest page was read too, the
total it compares with was true at one moment (`BothEnds`). `SoundInv` says of every
entity, on disk, in memory or half-built, that its counts, fields and values fit each other
(`Fit`), which is what makes a document laid over it free of findings. The bound on
`count` is a sum over documents, so the proof is an account as in the transport: every row
of an entity is paid for by a place (`Ever`) of a document it counts, in `PeakInv`.
The hypotheses: `Sane`, `Countable` and `Tidy` say that documents are finite sequences of
rows and that no document has more values in a field than a vocabulary may have (with
more, the property is false: see the findings on the census); `Named` says that the wrong
name inferred for an acronym is no type.

`TransportProofs`: `TypeOK`, `AtMostOnce`, `UnsentIsTrue`, `RenewsOnce` and `Restrained`,
for any number of requests, any budget and any limit of attempts. `WritesOnce` says
where a write may have been executed: not at all while `send` is about to try again,
once at most while it is under way or given up. `OneRenews` says that whoever renews is
alone and that nobody did before. The budget's type needs `SwapsSome`: who is about
to swap has seen a retry left. `Restrained` bounds a sum over all requests, so its
invariant is an account: `AttemptsPaid` says that the attempts made, with those about to
be made and the free retries not yet used, are paid for by two for every time a request
was started or sent again, one for every promotion and the retries that are gone from the
budget. A step moves at most one request into or out of each of these sets (`OneMoves`),
whose sizes are numbers because the requests are assumed finite.

`BulkWriteProofs`: `TypeOK`, `BlastRadius`, the refinement of `GuardedWrite` and
`EnvelopeTrue`, for any number of documents, any sizes of page and chunk and any edits
by others. `BlastRadius` needs that what is resolved stays within the cap and that what
the server still works on was resolved; the refinement needs that nothing is sent before
the last backup and the record were written. `EnvelopeInv` has one part per claim of the
envelope: what is reported as written was (`Reported`), what the loop is through is
accounted for unless a call had an error (`Covers`), and what failed or is yet to be
sent was not changed and will not be by a request given up (`Disjoint`, when the
resolution gave every id once).

`LocalFilesProofs`, audit log: `TypeOK` and `SizeBounded` for any number of processes,
`LogSound` for one. `SizeBounded` counts the processes that have found room in a file and
have yet to write (`Room`). The rest of `LogSound` is not true of two: rotation has no
lock, a process that decided to rotate may do so after another has, and one that opened
the file before it became a generation writes into what the next rotation removes. For one
process the invariant says which generation holds which of the last records, at every
step of a rotation that may fail or be killed, and that once a line was cut short nothing
is claimed.

`LocalFilesProofs`, the rest: `SwapsRight`, `SkillsRight` and `BackupsHold`, for any number
of processes, releases, commands, edits and documents. An update is entitled to the binary
(`Entitled`) from the lock it took, the release it chose and the evidence it has seen
(`Vouched`). The skills need that who is about to write or remove a file found none of the
user's or was told to (`Careful`), and that what is on disk is as the manifest records or
will be (`Whence`), as long as no command was cut off. A backup is followed from the
state the command read over the file it wrote (`Fit`, `Saved`) to what its requests have
taken away (`Kepts`); a restore from the file to what it has still to send (`Restoring`).

`PublicationProofs`: `TypeOK`, `NeverOffline` and `ToldTruly`, for any commands, any
number of them, of edits by others, of carrier phases and of retries. The invariant
follows the command from what the guard read (`SeenTrue`) over what it made sure of
(`Judged`) to what is under way (`SentIs`) and what has been executed (`Unwritten`), each
as long as nobody else changed the document since the command started (`raced`);
`FilesInv` and `UndoInv` carry what a backup holds from the command that saved it to the
`undo` that reads it.

`DocumentsProofs`, sync: `RunsInOrder` and `WritesAsTold`, for any manifests and hooks, any number
of runs, of edits by others and of documents. `Served`: every reference at the server,
in a stray create included, is an id given out for the item it names; ids are not given
out twice, so this survives the deletion of what it names. `Found`, `Planned` and
`Attempted` say what the plan knows and how far it has got; with them a body is never
written before what it refers to, because an item whose references have no id is blocked
or comes later in the order. `Unique`: two documents made for one key need an excuse
(twins, a late create, a hook), because an item is created only if its lookup found
nothing and nobody has made one since. `Calm` says that a plan made while nobody else
acts knows the documents as they are, and `Settled` what the next run finds: an
assignment of a document to every item, in place. The proof found the second run to be
quiet only but for `Disputed` items, which no manifest of the run had: when of two
locales of one document the first asks for `published` and the second for `draft`, the
second write leaves a draft behind the first, and the run after one that was ok publishes
again (`plan.go:132-157`, `218-242`); the manifest is in the run now. `Wrote`
ties the results to what was written.

`DocumentsProofs`, edit pipeline: `EditsExact`, for any documents, selectors,
destinations and changes, pipes and arrays of any length and any number of edits by the
other editor (`EditsAreExact`). The assumption, `DocumentsAssumption`, says that the server
gave every id once, that masked keys hold values, and that destinations and changes
are of the kinds there are; the run evaluates it for its own values. Every operation
hands on an array whose rows are rows of the old one, each at most once, or new ones
without ids (`Stems`), so ids stay apart (`RowsOk`) and the selector a listing prints leads
back to its row (`Addressable`). `RowsKept` is the account of the stored rows: each is on
the pipe, or was taken out, or lies in an array the read left out and a warning named.
`Carries` says what a write makes of an array: a row with an id is paired with the one
stored row that has it, whose masked values it keeps; one without gets an id nobody has. An
id the server gives a row of a write is taken to differ from all it gave before.

`SetupProofs`, discovery: `IndexTrue` in two theorems. `DiscoveryTells` has all of it but
the codes of the locales, for any servers, settings and losses: `DiscoveryInv` says what
the pool knows of each stage's requests (a job waits, is at work or has its answer), what
the bootstrap, the path, the identity and the probes have settled, and that what is
settled stays. `IndexIsTrue` adds the codes for servers that are `Unambiguous`: the keys
found in documents are taken for the locales when they are as many as GraphQL's names
and are mangled to names among them (`CrossValidated`), which proves nothing where two
locales are mangled alike. One server of the run has such locales; it is checked there by
TLC only.

`SetupProofs`, configuration: `SourceTrue` and `SettingsKept`, for any files, names, values
and number of commands. The invariant is small (`FilesInv`: the files have the form their
decoder gives them); the work is in the operators. Every setting is a chain of what is
said first (`Chain`), straight or worked out from another; saying it otherwise where
it was told changes what is told (`SourcesAreTold`), and a command leaves what the files
say of every setting it is not about (`LeavesRest`), which is all a setting depends on
(`SettingsStay`). `Proper`: names and values are not "no value".

The proofs by cases need the cases of a definition to exclude one another where the code
tries them in order; the `CASE`s of `Census`, `Configuration`, `Discovery`, `SelfUpdate`,
`Sync` and `Publication` say so in their guards.

Two properties were true only because a run was small, and say more precisely now what the
code does. `NewerKept` asked that an entity be replaced by one of a later read whoever
wrote; it now names the two writers, a command that merges what it has read and a write
that folds. `KeepsSettings` let a renamed profile stay the default where nobody names one
as long as it is the only one of the user's: if the project has a profile of that name too,
there are two afterwards, and neither is the default (`resolve.go:304-346`).

Only model-checked:
- liveness (`CommandsEnd` three times, `RequestsEnd`, `Terminates`, `RunsEnd`), which is out of
  the prover's reach;
- `OrphansTold`: the documents are trees, and the operators that walk them recursive;
- `IndexTrue` of a server with ambiguous locales.

## Not modelled

- The auth-resolution memo and the session memo of the cache.
- Flags, environment and `credential_helper` of the credential chain: they keep no
  state. `PAY_KEYRING` is constant in a behaviour. A keychain call given up takes
  effect while its process lives or not at all.
- `Tail`, the redaction and the size of a record in the audit log.
- Logins, redirects and the classification of errors in the transport.
- Sync: references to documents the manifest does not hold, globals, matches on
  several fields.
- The edit pipeline: globals, drafts (see `Publication`), references inside rows.
- Backups: masking, locales, a restore into another profile, `--no-backup`, a global
  as something that is never deleted; two reads of one backup are in `Publication`.
- Configuration: directories and paths, the scan of a project's source
  (`projectscan.go`), masking, two commands that edit `config.toml` at once (the
  last to write wins).
- Census: globals, the probe of relations, several fields of one entity, statistics
  across entities, the catalogue's views, `census_diff`.
- Orphans: several arrays at the top of a document, arrays that are not blocks,
  `--reset-nested` on a global.
- Self-update: the archive's format, the temporary file beside the binary. Skills:
  files but `SKILL.md` and `PROJECT.md`, directories but one, `--dry-run`.
