# Backpack Runtime: TLA+ models, checks and proofs

This directory models the parts of Backpack Runtime whose correctness depends
on order: who starts and stops model processes, who owns the local service,
what the files they leave behind say after a crash, what is installed after
transfers that were cut, and what a client is told when a stream breaks. The modules are translated
from the Go source (paths below are relative to the repository root);
`PROJECT.json` maps every definition to the lines it stands for.

Contents: [inventory](#1-inventory) - [modules](#2-modules) -
[runs](#3-runs-and-what-they-show) - [proofs](#4-proofs) -
[disagreements](#5-where-code-and-documentation-disagree) -
[abstractions](#6-abstractions) - [plan](#7-plan) - [how to run](#8-how-to-run)

## 1. Inventory

One executable, `backpack`, is both the command line and, as `backpack serve`,
the local service. Commands find or start the service (`internal/daemon`), talk
to it over loopback HTTP (`pkg/client` -> `internal/server`), and the service
runs one `llama-server` child per session (`internal/sessions` ->
`internal/adapters/llamacpp` -> `internal/compute`). Models, engine builds,
targets, accounts and desktop-app integrations live in files under the data
directory, which every command and the service write without a common lock.

| Component | State | Operations | Hard behaviour | Correct when |
|---|---|---|---|---|
| `sessions.Manager` | map id -> record, `sessions.json`, one monitor goroutine per session | Create, Ensure, Stop, Shutdown, monitor, reconcile, persistLocked | handlers, monitors and Shutdown race; the adapter writes `Status` without the mutex; crash between the renames; dropped write errors | ready sessions are watched, "stopped" means dead, no child is lost sight of, an id is served once |
| `adapters/llamacpp`, `runtime` | the record it returns | Prepare, Start (health polling), Stop, Chat | 60 s health deadline, stop deadline against process exit | a start that fails leaves no process |
| `compute` (local) | the child, its `done` channel | Execute, Wait, Stop; job objects on Windows | Wait and Kill race; orphans on Unix | Stop ends within its deadline with the child waited for |
| `daemon` | `runtime.json`, `.tmp`, `startup.lock` | Ensure, acquire, replaceOutdated, Read, Write, ClearIfOwned, endpoint | commands race with each other, with the daemon they start and with the one they replace; stale locks | one service, recorded; every call comes back |
| `cli serve` | process lifetime | check for a daemon, reconcile, write ownership, serve, shut down | a second `serve` reconciles before it gives up | it does not disturb the live daemon |
| `statemigrate` | versioned JSON files | ReadRecord, ReadList, Write, migrate, atomicReplace | crash during migration and between two renames | a file is old, new or migrated, never of unknown content; newer ones untouched |
| `server` (HTTP, proxy, streams) | in-flight requests, SSE state | session handlers, proxying, Responses and Anthropic translation, Serve | session ends between Ensure and Endpoint; truncated or sparse streams; drain on SIGTERM | one terminal event, ordered, well nested |
| `events.Broker` | subscriber channels | Publish, Subscribe, unsubscribe | full channels drop | Publish never blocks, order is kept, nothing after close |
| `models.Manager` | `.part` files, artifacts, manifest, pointer record | Pull, downloadVerified, atomicWrite | resume, ignored Range, two pulls of one model, crash between steps | a record points at verified files only |
| `runtimebundle.Manager` | stage directories, archives, `.lock` directory, manifests | Ensure, install, load, verify, Remove | stale lock after 2 h, concurrent installers, activation by rename | what is loaded is complete and verified |
| `compute` SSH targets | `compute-targets.json`, remote caches, mappings | List, Put, Remove, PrepareRuntime, PrepareModel, PrepareFile | unlocked read-modify-write, fixed `.part` and `.installing` names | no lost update; remote files verified before use |
| `cloud` | token cache, key and metadata files | Login, Logout, token, Reset | refresh racing logout; two-file store | no credentials after logout; key and metadata match |
| `updater` | the executable and its backup | Install, replaceWithRollback, Compare | crash between renames | an executable is always under its name |
| `integrations` desktop apps | configuration, backup, state file, catalog | ConfigureCodexApp, RestoreCodexApp, Claude likewise | crash between the files, user edits in between | restore gives the user's own configuration back |
| `inference` | none | decoding chat chunks into deltas | text and finish reason in one chunk | nothing said is lost in the translation |
| `backpack run` (`cli/apps.go`, `integrations` runner) | the session a command has been told of, its deferred stop | runCommand, runCloudApp, runClaudeApp, runCodexApp; Ensure and Endpoint of `chatCompletions` beside them | a failure at every step after the load; an interrupt; requests that load the same model | a session outlives its command for a stated reason only |
| `integrations` discovery and providers, `catalog`, `catalogverify`, `fit`, `diagnostics`, `config`, `releaseassets`, other commands | none, or immutable data | pure computation, argument lists, printing | - | - |

`PROJECT.json` lists the same components with their status, and under
"hazards" every place where one of these behaviours bites, with the property
that covers it or the reason why none does.

Which component is modelled where:

| Component | Modules |
|---|---|
| sessions, adapter, local processes, shutdown of `serve` | `Sessions`, `SessionContract`, `SessionsProofs` |
| daemon, start of `serve`, client SDK | `Daemon`, `DaemonProofs` |
| models | `ModelPull`, `ModelPullProofs` |
| runtimebundle | `RuntimeBundle`, `InstallsProofs` |
| SSH targets: list; caches | `TargetStore`, `TargetStoreProofs`; `RemoteCache`, `InstallsProofs` |
| statemigrate | `TargetStore`, and its crash window in `Sessions` |
| desktop apps | `CodexApp`, `ClaudeApp`, `FilesProofs` |
| cloud account; cloud streams | `CloudSession`; `CloudStream`; `CloudProofs` |
| local streams, `inference` | `ChatStream`, `ServingProofs` |
| events | `EventBroker`, `ServingProofs` |
| updater | `Updater`, `FilesProofs` |
| `backpack run`, sessions of chat requests | `AgentRuns`, `ServingProofs` |

`Installs` composes `ModelPull`, `RuntimeBundle` and `RemoteCache`; `Periphery`
composes `TargetStore`, `CodexApp`, `ClaudeApp`, `CloudSession`, `Updater`,
`CloudStream`, `ChatStream`, `EventBroker` and `AgentRuns`.

## 2. Modules

### `Sessions` - session manager, adapter, process handle, serve's shutdown

State. `mem`, `owned`, `monitors` are `Manager.sessions` (public status, the
record with a process, its monitor goroutine); `pc`, `tgt`, `want`,
`stopErr` are the request handlers and the goroutine of `serve`; `proc`, `sig`
are the children and the signals they got; `disk`, `foreign` are
`sessions.json`; `rival` is what a second `backpack serve` is about to write
there. `known` and `listed` only observe.

Actions. A section under `Manager.mu` is one action, including the
`persistLocked` that ends it (which may fail silently). The rest is split where
another goroutine can look: `Create` is `Create` / `Execute` / `Healthy` /
`Publish` with the ways out `CreateFails` and `HealthTimeout` .. `AbortDone`;
`Stop` is `StopBegin` / `Signal` / (`StopTimeout`) / `StopDone` / `StopFinish`
with the refused signal and the late timeout as alternatives; `monitor` is
`MonitorFails` or `MonitorIgnores`; shutdown is `ShutdownBegin` /
`ShutdownList` / `ShutdownStop`* / `Exit`. `Start` is `reconcile`.
`Crash` and `CrashInReplace` take the daemon away at any step, children
orphaned (Unix) or killed (Windows); `CrashInReplace` also loses the file.

### `SessionContract` - what an id promises

An id is new, then serving during one interval, then ending and ended; a
daemon that goes away can only turn it into ended or forgotten.
`Sessions!ImplementsContract` maps the manager onto it (`life`).

### `Daemon` - discovery, startup lock, upgrade, ownership

State. `state`, `tmp`, `lock` are the three files; `pc`, `seen`, `rec`, `ver`
are the commands and daemons, the state each read and writes, and the version
of its executable; `busy` are daemons with active sessions; `installed` is the
executable on disk. All other variables are used budgets.

Actions. `Ensure` is `Invoke`, `FastCheck`, `Acquire` / `StatStale` / `Steal`,
`Reread`, `Recheck`, `AskVersion`, `AskSessions`, `AskShutdown`, `Poll`,
`Unclaim`, `Clear`, `Spawn`, `WriteTmp` / `RemoveState` / `Rename` (or
`RenameFails`), `WaitHealthy`. `serve` is `ReadExisting`, `CheckExisting`, the
same three write steps, `Listen`, and `ReadOwn` / `ClearOwn` at its end. The
environment kills commands, crashes and stops daemons, starts sessions, ages
the lock past 20 s and replaces the installed executable.

### `ModelPull` - installing a model package

State. `part`, `dest` map the two names of each artifact to inodes, `data` the
inodes to contents (sequences of chunks: good, bad, or a hole), so that two
pulls can hold the same file open while its name moves; `yamlTmp`, `yaml`,
`record` are the package manifest, its staging file and the installed-model
record; `pc`, `file`, `fd`, `pos`, `intact` are the calls of `Pull` (the last is
the running SHA-256: everything hashed so far was good). `honest` and `strikes`
only observe.

Actions. One per file access of `Pull`, `downloadVerified`,
`finalizeDownload`, `installPartial` and `atomicWrite`, in the order of the code;
`Answer` / `Refuse` / `Receive` / `BodyEnds` / `BodyBreaks` are what the origin
can do.

### `TargetStore` - the list of SSH targets and its versioned file

State. `file`, `backup` are `compute-targets.json` and its `.v0.bak`; `staged`,
`aside` the two temporary files a process may have, `litter` what processes that
died had moved aside (as long as no operations have overlapped: nothing else
looks at it); documents are a schema version with a set of target ids. `pc`, `op`, `items`, `migrating` are the processes inside `List`,
`Put` and `Remove`. `origin`, `kept`, `overlap` and `undone` only observe: the
file as it was found, what was put and not removed, whether operations have
ever overlapped, and whether a backup was removed again that another process
had gone on with.

Actions. `ReadList` begins an operation; `ReadBackup`, `CreateBackup`,
`FillBackup`, `SyncBackup` are `migrate` and `writeExclusive` (between the last
two the backup is complete for whoever reads it, and still removed if the sync
fails: `FillFails`); `Stage`, `MoveAside`, `Swap`, `Clean` are `atomicReplace`,
with `StepFails`, `SwapFails` for the other errors and `Crash` at every step.
A migration is the same for `List`, `Put` and `Remove`, so which of them goes on
is chosen in `Clean`, when it is over.

### `RuntimeBundle` - installing an engine build

State. `lock` is the lock directory with its holder and whether two hours have
passed; `part`, `cached` map the download names, which all processes share, to
inodes, `data` says what is in an inode (good, bad, or which process has
truncated it last and is writing); `final` is the installation: whether its
manifest's hashes agree, whether only an empty directory is left, and what it
was made from. `pc`, `item`, `fd`, `stage` are the processes. `excused` and
`overrun` only observe.

Actions. `Ensure` is `Begin` / `NoBundle`, the lock (`Acquire`, `FindExpired`,
`BreakLock`, `GiveUp`), `Recheck`, for each artifact `Open` .. `DropArchive`,
then `Replace`, `SetAside`, `Commit`, `Upload`; every way out ends in `Leave`,
the deferred release of whatever lock is there. `Remove` is `FindInstalled`,
`Clear`, `RemoveDirectory`, without the lock, as in the code.

### `RemoteCache` - what an SSH target keeps

State. `file`, `partial` are a model and its `.part` on the host, `source` the
local file; `stage`, `runtime` are `<runtime>.installing` and the runtime;
`pc`, `at`, `onto` are the uploaders; `shared` are those whose `.part` another one
has written too, `cut` those whose connection is gone while their last command
still runs on the host. `overlap`, `blamed` only observe.

Actions. One per remote command of `PrepareModel` (`CheckModel`, `CopyWhole` by
scp or `CopyRest` by rsync, `Copied`, `Sum`, `Move`) and `PrepareRuntime`
(`CheckRuntime`, `Stage`, `CopyPart`, `PartCopied`, `CheckPart`, `CopyManifest`,
`Chmod`, `Swap`). A shell line whose parts can be seen by another uploader is
split (`Sum`/`Move`, `Chmod`/`Swap`). A transfer that had its file to itself leaves
what was sent, one that shared it may leave it incomplete, or of full length
with other bytes (`Copied`, `PartCopied`). `Disconnect` ends a transfer, but not
the command that runs: that goes on to its end (`Answer`), beside whatever the
next attempt does. A check that gets no answer counts as one that failed
(`CheckModel`, `CheckRuntime`).

### `CodexApp`, `ClaudeApp` - configurations of the desktop apps

State. The files: for Codex `config`, `backup`, `state`; for Claude `text` of
two kinds of files (mode files, of which Backpack owns a field, and profile
files, which must not change) and the record `saved`. A content is whose
managed keys it has and the version of everything else. `edits`, `changes`
count versions; `disturbed`, `upset` only observe.

Actions. One per file written by Configure and Restore, each of which may fail
or be the last, and either leaves the file as it was or gone, since
`writePrivateAtomic` removes before it renames (`WriteFails` and `Die` with
`CutShort`; `GiveUp` and `LoseFile`); the user and the app write in between
(`Edit`, `AppChanges`). When the state of Codex App cannot be written, `Undo` puts
the backup back, and may fail as well, which nobody is told.

### `CloudSession` - the account of a machine

State. `key`, `meta` are `device.key` and `device.json`; `token`, `fresh` the
daemon's cached token; `revoked` the account's side; `pc`, `id`, `secret` the
commands and the daemon. `seen`, `mixed` only observe.

Actions. Login with the saving of the two files (`DropKey`, `PutKey`, `DropMeta`,
`PutMeta`, since `writeAtomic` removes before it renames) and its way back
(`Withdraw`, whose failure the code ignores), Logout with the two deletions, of
which each may fail and does not keep the other from being tried, a request with
`LoadMeta`, `LoadKey`, the challenge and the signature, the cached token's end,
revocation, and writes and processes that fail.

### `Updater` - `backpack update`

State. `published` releases, the program at its path (`file`: version and
whether it is what was verified), and each process's plan: the version it runs,
the channel, target, staged file and backup. Versions are compared as
`version.go` does, prerelease identifier by identifier.

Actions. `Launch`, `Check` (with `Available`), `Prepare`, and `Install` as `Stage`,
`MoveAside`, `Activate`, `Rollback`; renames fail, processes die, releases appear, the user
installs another version.

### `CloudStream`, `ChatStream` - what the server passes on

`CloudStream`: the upstream's bytes as pieces of frames (a terminal frame has
its marker split in two), read in chunks of one to three pieces; the copy loop
keeps the last piece and looks for a marker in it and what it reads; the end
appends a failure frame or not (`EndResponses`, `EndLegacy`).

`ChatStream`: chunks of a local answer become deltas; a delta of text or of a
call opens an item, or extends it; the end closes all. Both client protocols.

### `EventBroker` - the daemon's event stream

Subscribers with their bounded channels; `Publish` offers an event to each and
never waits, `Deliver` is the handler, `Cancel` its end; `Restart` is a new
broker.

### `AgentRuns` - `backpack run` and the sessions it uses

State. `life` are the daemon's sessions as `SessionContract` has them, which
`Sessions` implements, and `model` what each serves; `creating` the calls of
`Manager.Create` that run for somebody. `pc`, `app`, `wants`, `keep`, `own` are
the commands (what they run, for which model, with `--keep-alive` or not, and
the session they know of), `req` the chat handlers. `maker` and `gone` only
observe: whose `Create` published a session, and over which sessions a request
was refused.

Actions. A command is `RunTool`, `RunCloudTool`, `RunClaudeApp` or `RunCodexApp`
up to its `CreateSession`; `Told` or `Refused` is the answer; then `StartTool`,
`StartCloudTool`, `ConfigureClaude`, `ConfigureCodex` or `SetupFails`,
`ToolExits`, and `StopOwn`, the deferred stop, where the command has one, or
`StopLost` when that request fails, whose error is dropped. `Kill` is the interrupt that ends it without deferred calls. A request is `Ensure`,
`Ensured` or `CreateFails`, and `Endpoint`. The daemon publishes (`Publish`),
sessions end (`UserStops`, `SessionEnds`), and `DaemonRestarts` ends them all.

### `Installs`, `Periphery`

Compositions of components that share no state: the initial state chooses one
(`component`), and only that one moves, so the state space is the sum of theirs
and a property of one speaks of exactly the behaviours of that one. They
declare the constants of all and state what is assumed of them, by component
(`BundleAssumption`, `ClaudeAssumption`, `StreamsAssumption`, ...): bounds are
naturals, sets that must be finite are, files and tool calls are numbered, and
the value `None` for what is missing is none of the values it stands beside.
The last is the code's own distinction (a nil pointer, an `os.ErrNotExist`, an
absent key). The properties of the components are stated once more for the
whole, as the runs and the theorems name them.

### `MCSessions`, `MCDaemon`, `MCInstalls`, `MCPeriphery`

The modules of runs with a symmetry set; `MCDaemon` adds `WithinBounds`, a
constraint of its run, and `MCPeriphery` a set of releases. Runs without
symmetry use the modules themselves. In `Periphery` the processes of `TargetStore`
and the agents of the other components are the same two, so that one permutation
serves all of them.

### The modules `...Proofs`

The theorems of section 4. `ServingProofs`, `CloudProofs` and `FilesProofs` are
about `Periphery`, `InstallsProofs` and (one call of `Pull`) `ModelPullProofs` about
`Installs` and its module. A lemma `...Behaves` (`...Moves`, in `InstallsProofs`)
says that a behaviour of the whole is one of the component or leaves its state
alone; what is proved of the component then holds of the whole.

Operators under a comment beginning "Fault:" are variants of the definition
they precede, as a plausible bug would leave it; no specification uses them.
They are what shows that each checked property can fail.

## 3. Runs and what they show

Sizes are distinct states.

| Run | Checks | Instance and what it shows |
|---|---|---|
| `MCSessions` (2.1 M) | TypeOK, StoppedIsDead, NoStrayProcess, QuiescentFileAgrees, ShutdownStopsListed | Two ids, two handlers and the shutdown goroutine, two daemon lives, one failed write, crashes at every step, Unix. |
| `SessionsLive` (0.1 M) | ImplementsContract, ExitIsDetected, StopSettles, ShutdownEnds | One id, two handlers, two daemon lives, one failed write, one rival server; `FairSpec`. The contract is about one id at a time. |
| `Daemon` (1.3 M) | TypeOK, StartupLockExclusive, OneService, OwnershipRecorded, ServiceReused | Three commands, four calls, three daemon processes of which two may crash, an upgrade, sessions, an orderly stop. |
| `DaemonLive` (0.5 M) | EveryCallEnds | Two commands of which one may be killed anywhere, a hand-started daemon, a crash, a missed deadline; `FairSpec`. |
| `Installs` (1.9 M) | TypesOK; of `ModelPull`: RetriesSucceed, InstallVerified, GoodKept, SuccessIsComplete; of `RuntimeBundle`: RuntimeVerified, RuntimeKept, RuntimeInstalls; of `RemoteCache`: RemoteVerified, PreparesAgain | One pull of two artifacts of three chunks, faulty origin, a crash, an artifact that rots; two processes and two artifacts of a bundle (an archive and a file), one fault; two uploaders, a runtime of two files, one failure. |
| `Periphery` (1.2 M) | TypesOK; LegacyKept, TargetsRecoverable; CodexRestored; ClaudeRestored; CredentialWhole, SignedFromStore; ProgramInPlace, NoSilentDowngrade; OneOutcome; FaithfullyTranslated; EventsComplete; SessionsAccounted, LoadsBounded, RefusedForGood | Two processes and two targets; two setups of each app with two or three edits and failures; two commands and the daemon with two devices; two updates of three releases; streams of four frames; chats of five chunks with two calls; two clients with room for two of four events; a command, two requests and three sessions of a local model, and a cloud model. |
| `SessionsOrphan`, `DaemonStaleLock`, `DaemonStartRace`, `DaemonNewer`, `ModelPullRace`, `StreamCut` | one property each | expected violations, section 5. |

Why the bounds are enough. Every property of `Sessions` speaks of one id, or of
an id and the file; two ids make interference between them possible and two
handlers plus the shutdown goroutine give every pair (and one triple) of
concurrent calls on one id. Two daemon lives contain every restart: what
matters about earlier lives is in the file, and `Init` allows a foreign one.
The theorems of section 4 lift the safety results to any number of everything.

In `Daemon` a race needs two commands and a daemon; the third command or daemon
is the successor that the race damages. Every budget constant is a bound on
how often the environment may interfere; those a run sets to 0 are the
assumption under which its properties hold, and the violation runs show what
some of them cost. The run `Daemon` contains two instances: `WithinBounds` lets
the fourth call and the second crash come only where nothing else (upgrade,
stop, session) disturbs the commands, which is where `OneService`,
`OwnershipRecorded` and the second half of `ServiceReused` speak; with an
upgrade there are three calls and one crash, for its first half and for
`StartupLockExclusive`.

`ModelPull` needs two artifacts (the loop, and a good one beside a bad one) and
three chunks, so that a partial can be cut, resumed and cut again; one pull at
a time is an assumption, which `ModelPullRace` drops. `RuntimeBundle` needs two
processes for every race over the lock and the shared names, an archive and a
copied file (a torn archive is refused, a torn file is copied), and four inodes
for two names and an open file each. `RemoteCache` likewise. `TargetStore`
needs two processes for the races of two migrations, and two targets for a list
that loses one and keeps the other. An app's configuration needs two setups (a
second one over the first) and an edit before, between and after. Two devices
are enough to mix up a pair of files; two concurrent updates and three
releases, of which two are prereleases that differ in their second identifier,
give a downgrade its chance. A stream of four frames has a frame before the
terminal one and a quotation in between; five chunks are text, two interleaved
calls, and the end. A channel of two that gets four events overflows; the code's
64 differ in nothing the property can see. In `AgentRuns` two requests can both
miss a session and load one each, a third session is the command's, and a
session that is refused is one of theirs or its.

Properties that hold only where the code promises something name it in their
antecedent: no overlap (`TargetsRecoverable`, `RemoteVerified`,
`CredentialWhole`), no working holder that loses its lock
(`RuntimeVerified`, `RuntimeKept`, `RuntimeInstalls`), nothing that met a
running command (`CodexRestored`, `ClaudeRestored`), no channel that was full
(`EventsComplete`), no backup taken back after use (`LegacyKept`), no `.part` of
full length and other content under rsync (`PreparesAgain`). What happens without
is in section 5.

`CHECK_DEADLOCK FALSE`: the system may stop for good. A daemon that is down and
whose budget of starts is used, and commands that have all returned, have
nothing to do. The components of `Installs` and `Periphery` can always begin
again (in `AgentRuns` the daemon can, when the commands have run and the
sessions are used up) and are checked for deadlock.

Fairness (`FairSpec` of `Sessions` and `Daemon`). Weak fairness of the steps of a
goroutine or process that is running or whose timer has been set: the Go
scheduler and the operating system run it, and `context.WithTimeout`, the 60 s
health deadline, and the polls of `Ensure` do expire. A killed process ends
(`sig[s] = "kill"`), one that got only an interrupt need not; requests,
crashes, health answers, upgrades are never forced. In `Daemon`, time passes
(`Age`), which is what frees a waiter from a dead holder's lock. No strong
fairness is assumed: `Acquire` is taken by one waiter at a time and a waiter
could in principle starve behind an endless supply of others, which the bound
on calls excludes; the result is about leftover locks and lost daemons, not
about fair queueing. The other modules state no fairness: their operations end
by a transfer, a subprocess or a service that the code does not bound.

## 4. Proofs

`SessionsProofs` (any sets of ids, models and callers, any bounds, either
platform, with failed writes and rival servers):

* `IInv` (beginning of `SessionsProofs`) is inductive: `InvInit`, `InvStep`, `Invariance`.
  The checked invariants are not inductive by themselves. `StoppedIsDead` needs
  that a `Stop` past its wait has seen its process reaped (`Targets`), that no
  two Starts share an id (`Targets`) and that unused ids left no trace
  (`FreshIds`); `NoStrayProcess` needs which statuses an owned session can have
  (`Records`); `ShutdownStopsListed` needs what became of each listed session
  (`Listed`); the file property needs its form during a `Stop`
  (`FileFollows`); and all of them need what a daemon that is down or cannot
  read its file does not hold (`Quiet`).
* `TypeCorrect`, `ReadyWatched`, `StoppedDead`, `NoStray`, `FileAgrees`,
  `ShutdownStops` follow from it; `ReadyIsWatched` is checked by no run.
* `ServedOnce` (`NeverReadyAgain`) and `FutureStateKept` (`FutureStatePreserved`) are
  action properties that only the proof establishes for several ids, one step of
  the proof per action.
* `Refinement`: every step maps to a step of `SessionContract` or to a stutter
  (`ContractStep`, from `SameStage`, `OneMoves` and `NextDaemonMoves`).

`DaemonProofs` (any sets, any bounds unless said):

* `TypeCorrect` from `TInv`, which adds that a writer has a record to write.
* `LockExclusiveUntil`: until a command is killed half-way or a lock turns 20 s old
  under a live holder, the startup section is exclusive, whatever the bounds.
  `LockKept` is the inductive invariant: the file exists exactly while its creator
  holds it. `LockExclusive` is the case where neither can happen (`MaxKills = 0`,
  `MaxAges = 0`), in which run `Daemon` checks it; `DaemonStaleLock` shows that the
  first assumption is needed.
* `OneDaemon`: while nothing disturbs the commands (`Undisturbed`: no upgrade, no
  orderly stop, no `backpack serve` by hand, no killed command, no deadline met),
  at most one daemon process is alive, for any number of commands, calls, daemon
  processes and crashes. `ServiceRecorded`: then `runtime.json` names the daemon
  that serves whenever no command is between its writes.
  Both follow from `SInv == Undisturbed => Alone`. `Undisturbed` once false stays
  false, so the step lemma may assume it before the step as well. The parts of `Alone`:
  `LockKept` (one command at a time may start a daemon);
  `OneVersion` (nothing on disk or in memory is of another version or names a
  daemon nobody started, so no command takes the upgrade path);
  `Staged` (the staging file holds the record of whoever is about to rename it:
  two writers share its name, and both write the same record);
  `Recorded` (a live daemon's record is that of the command still waiting for it,
  or it serves and its record is in `runtime.json`);
  `Absent` (a command about to start a daemon has found none alive). One more
  daemon would need a command at `spawn` beside a live one, which `Absent`
  excludes, and `Absent` needs `Recorded`: what the command reads under the lock is
  the live daemon's record.
* `ReusesUntil`, and from it `ReusesTheService` (`ServiceReused`): until a command is
  killed half-way, a lock outlives its 20 s, a deadline is missed or somebody runs
  `backpack serve` by hand (while `Calm` holds), with upgrades, stops and crashes at
  any time. `RInv`: a daemon that does not
  serve yet has a command that waits for it under the lock (`Awaited`,
  `Launching`), whose port nobody else takes (`PortKept`); so none begins to serve
  while another command is replacing one, and what that command was told of the
  version at its port (`Outdated`, of the only daemon there: `OneAnswers`) is
  still true when it asks for the shutdown. That the process a command starts
  cannot be the one it has read about needs `AllNamed`: records name daemons
  that were started. `Settles` collects the steps in which no daemon starts or
  begins to serve; `SpawnReuses` and `ListenReuses` are the other two. The second
  half follows from `Absent` of `SInv`.

`TargetStoreProofs` (any processes, ids and bounds, overlapping operations
included):

* `TypeCorrect`, and `OriginalKept` and `NewerKept` from `IInv` (beginning of
  `TargetStoreProofs`). `LegacyKept` alone says nothing of a process that is about to
  replace the original; `BackedUp` does (it made the backup, found it complete,
  or has read a document that replaced the original), which needs that the only
  version 0 document around is the original (`OnlyOriginal`), that a migrating
  process has read it (`MigratesOriginal`), and that one process makes the backup,
  torn until it has written it and complete from then on (`OneFills`). Complete
  is not yet synced: another may go on with a backup whose maker then fails to
  sync it and removes it. From there on `LegacyKept` promises nothing (`undone`),
  and rightly so: section 5.

* `TargetsKept`: what was put and not removed is in the file, its backup, a copy
  set aside by a live process or left by a dead one, unless operations overlap.
  `RInv` is inductive: without an overlap only one process is at work
  (`OneAtWork`), only a process in the middle of a replacement has something
  aside (`AsideInSwap`), what it is about to write has every target
  (`KeptStored`), and what it has read is still what the file says
  (`ReadIsCurrent`).

`ModelPullProofs` (any artifacts, chunks, inodes, failures and damage):

* `TypeCorrect`, for calls that overlap as they like.
* `InstallsVerified`, `KeepsGood`, `Completes` for calls that do not
  (`OneCall`), which `ModelPullRace` shows to be needed. `PInv` (beginning of
  `ModelPullProofs`) is inductive: the open file is the one under the name
  (`SameFile`) and nobody else's (`OwnInodes`), so that what was hashed is what
  the file has up to the offset (`Hashed`) and what passes the check is good
  (`Verified`); what is being fetched is not there yet (`Missing`), all before
  it is (`Fetched`). `LeaveKeeps`, `StepKeeps`, `NextFileKeeps`, `FinishKeeps`
  are the four ways in which an action continues a call; `PullStep` has one
  case per action. The three action properties follow from `PInv` and
  `NamesMove`, which says that only two actions move the name of an artifact.
* `RetriesEnd`, for the same calls. A failure of a call that is served correctly
  is paid for by an artifact whose partial is bad (`Spoilt`): `QInv` (beginning of
  `ModelPullProofs`) has the number of such artifacts and the failures since the last
  call that was not served correctly add up to at most `Files` (`UsedUp`). That each
  failure removes one needs that the call resumes what is there (`Resumed`: the
  offset it asks for is the length of the partial) and fails over a partial that
  was bad before (`Inherited`).

`InstallsProofs` (any users, artifacts, archives, inodes, parts and failures;
`UsersAssumption`, `BundleAssumption`, `BlocksAssumption`, `CacheAssumption`):

* `BundleVerified`, `BundleInstalls`, `BundleKept` from `BInv`. Which bytes are
  behind the shared names matters only while somebody installs, and then, unless
  a working holder has lost the lock, `Held` makes it one process: `Gathered` says
  what its descriptor, its `.part`, its archive and its stage have at each step
  (what was hashed is what is extracted), `Room` what it finds where the
  installation belongs. `Hollow`: a directory that a `Remove` has emptied does not
  load. That a new `.part` gets an inode nobody has (`BlockFree`) is a counting
  argument over `BlocksAssumption`: there are more inodes than names and open
  files.
* `TargetPreparesAgain`, `TargetVerified` from `RInv`. Two uploads of one thing
  know of each other from the moment they both run (`Known`), so that an upload
  that knows of none has the `.part` or the stage to itself: `ModelSteady` and
  `RuntimeSteady` say what it has made of them. A command that runs on without its
  connection is known like an upload (`cut`). What fails a preparation that knows
  of none is then the local file, or a `.part` of full length with other content.
* `InstallsTypes` from these and `ModelPullProofs!TypeCorrect`.

`ServingProofs` (any commands, requests, sessions and models, any capacity, events
and subscriptions, any calls and chunks; `AgentsAssumption`: commands and requests
are disjoint, so are local and cloud models, and `None` is none of them, finitely
many sessions and requests; `EventsAssumption`, `StreamsAssumption`):

* `NothingLeftBehind` from `AInv`: where a command is tells which sessions it may
  have made (`Place`: none while `Create` runs, at most one later, which it
  knows of from its setup on), and a session that was made is published.
* `AskingAgainHelps` from `GInv`: a session over which a request was refused is
  published and does not serve, and the contract lets none serve again.
* `LoadsAreBounded`: `Ensure` either finds a session (and then nothing is added)
  or finds none (and then only requests are counted); a request that gets its
  session stops being counted as waiting for it. `Shrinks`, `Lends` and `Waits`
  are the three cases, over the library's facts on cardinalities.
* `KeepsTheContract`: to the sessions of the daemon, commands and requests do only
  what `SessionContract` allows (`Restarts`: a restart included), so that what
  `AgentRuns` assumes of the daemon is what `SessionsProofs!Refinement` proves.
  It needs of `AInv` that a command which stops its session names a created one.
* `NothingMissed` from `EInv`: the channel of a client that never overflowed
  holds exactly the events after the last one it got (`Waiting`, over the facts
  `OneMore` and `OneLess` about such sequences), and a client that has not
  subscribed, or has cancelled, has an empty channel.
* `ArrivesAsSent` from `HInv`. The invariant relates the translation's own state
  (`chCalls`, `chTextAt`, `chNext`) to what was given and what was told at every
  delta: each item has one owner (`Items`), what a call was given is what its
  item was told (`Arguments`), calls come in the order of their indices
  (`CountedOn`), a reason that is not in the translator yet is in the next delta
  (`Reason`), and a chunk opens one item at most (`Room`), which bounds the
  indices of items. `AllCalls` and `CloseKeeps` are
  about the end, which closes the text and the calls in one sequence.

`CloudProofs` (any processes, devices and breaks; any paths, reads and frames):

* `CredentialStaysWhole` from `Saves`: while a save or delete is alone, its step
  says what the two files are (`Files`); `mixed` is false only if at most one is
  under way.
* `SignsWhatWasStored` from `Reads`: `device.json` names a device only after
  its key was written, and a key is written once (`Written`, `OwnDevices`), so
  a key that is read after the name it belongs to was there with it.
* `EndsOnce` from `SInv`: the marker of a terminal frame is found although a read
  cuts it (`MarkerIsFound`, over `Followers`: what a read brings continues the
  last piece, and the tail that is kept is long enough), and what is found is
  there (`MarkerIsThere`), so that `terminal` is the body's own end or a
  quotation of one. It speaks of streams that end between two frames and quote
  no marker; what happens otherwise is in section 5 (`StreamCut`, `CloudStream`).

`FilesProofs` (any setups, routes, files, edits, updates, releases and accidents):

* `ProgramStays` from `UInv`. `ProgramInPlace` says nothing of an update that is
  about to put its program in place: `Plan` does (what it staged was verified, what
  it has aside was a program, its target is what the channel allows). That two
  updates do not undo each other rests on `OneBetween`: the first rename takes
  the only file there is, so a second update finds nothing to rename until the
  first has brought or put back a program.
* `NeverBack` needs in addition that an update which nothing has overtaken still
  runs what is installed or aside (`StillRuns`), since the order was decided
  against the version it was started from.
* `CodexGivesBack` from `XInv`: unless a command was cut off or met an edit, what a
  setup has noted is an original without keys of Backpack's and a managed content
  of the same version (`Noted`), and the backup has that original. The version is
  what makes "the user's latest changes" more than "some content of the user's".
* `ClaudeGivesBack` from `YInv`: the loops of Configure and Restore over the files
  have done those before `at` and not touched those from it on (`Configuring`,
  `Restoring`), and some file still has the newest change (`Newest`).
* `TypesHold`, the type invariants of all nine components.

Assumptions on constants are the named `ASSUME`s of the modules: disjoint sets,
`None` and `Newer` outside them, natural bounds, finite sets where something is
counted.

Only model-checked: liveness (`ExitIsDetected`, `StopSettles`, `ShutdownEnds`,
`EveryCallEnds`), which is out of the prover's reach. Every other property of a
passing run is the statement of a theorem, under the assumptions named above.
Only proved: `ReadyIsWatched`, `NeverReadyAgain` (for one id `ImplementsContract`
implies it), `FutureStatePreserved`, `NewerUntouched`.

## 5. Where code and documentation disagree

* `SessionsOrphan`. `docs/runtime-lifecycle.md`: graceful shutdown stops
  children. `Manager.Shutdown` works on one snapshot of ready and starting
  sessions: a child whose `Create` has not registered it yet, or whose session
  another request is stopping, outlives an orderly exit on Unix.
* `DaemonStaleLock`. `docs/runtime-lifecycle.md`: one caller acquires the
  startup lock. `acquire` removes a stale lock by name, which by then can be
  the fresh lock of another waiter.
* `DaemonStartRace`. Same sentence, "records ownership": `Ensure` and its child
  write `runtime.json` through one `runtime.json.tmp`, and the loser's rename
  fails.
* `DaemonNewer`. `docs/state-migrations.md`: newer versions are rejected
  without being modified. `Ensure` takes the error for "no daemon" and `Write`
  replaces the file.
* `ModelPullRace`. `docs/model-packages.md`: size and SHA-256 are verified before
  atomic installation. With two pulls of one model, served correctly, one
  verifies what it received and then renames a `.part` file that the other has
  truncated meanwhile. (`resolve` verifies again before a later start.)
* `StreamCut`. A comment of `proxyResponsesStream`: a stream that is
  "unexpectedly terminated" ends "with an explicit failure event". Cut within a
  frame, it does not: the failure frame is appended to the broken line, and cut
  after the marker of the terminal frame but before its end, there is none.

Further races that TLC shows when a bound is raised, without a run of their
own: with one upgrade, `replaceOutdated` corrects the version in `runtime.json`,
returns nil, and `Ensure` starts a second daemon (`ServiceReused`, and then `OwnershipRecorded`); and the
outgoing daemon's `ClearIfOwned`, between its read and its removal, removes its
successor's state. In `TargetStore`, a crash between the
two renames of `atomicReplace` leaves no `compute-targets.json`, which `List`
takes for an empty list: the targets are only in a `.state-replaced-*` file that
nothing reads (`TargetsRecoverable` counts it as a copy). A crash inside
`writeExclusive` leaves an incomplete `.v0.bak`, on which every later read of the
version 0 file fails. Two overlapping `Put`s lose one of the updates. And one
process may finish writing the backup, another find it complete and replace the
original, and the first then fail to sync and remove it (`json.go:188-195`):
neither the original nor a backup is left, although `docs/state-migrations.md` has
files "receive a backup before replacement". `LegacyKept` excepts this (`undone`).

`AgentRuns` has the order in which two `Ensure`s find no ready session and load
one each, so that there are up to as many sessions of a model as requests at a
time (`LoadsBounded`); `docs/runtime-lifecycle.md` has ready sessions reused.
A `backpack run` that is interrupted leaves its session loaded, as only `serve`
asks for signals, and so does `runClaudeApp` when the configuration fails,
where `runCodexApp` stops it. A stop request that fails leaves it too, and says
nothing. The model of `Daemon` has the one in which a session
starts between `AskSessions` and `AskShutdown` and is shut down with the daemon,
which the test of `replaceOutdated` does not reach.

The other models reach these, outside what their properties promise:

* `RuntimeBundle`. An installation longer than two hours loses its lock, and its
  release then removes the next holder's; the two write the same `.part`. A
  manifest of a newer schema does not load and is set aside as `.invalid-*`
  (`docs/state-migrations.md`: newer versions are rejected without being
  modified). `Remove` runs under no lock and can delete what an `Ensure` has
  just returned.
* `RemoteCache`. `rm -rf <stage> && mkdir` of one uploader between another's
  `chmod` and `mv` has the other move an empty stage into place
  (`docs/ssh-compute.md`: activated only after verification); the next
  preparation repairs it. `rsync --append-verify` takes a `.part` of full length
  for complete; when it holds something else, left by a local file that had
  rotted or by two uploads that met, the hash refuses it, and every later attempt
  with rsync fails until somebody deletes it. `PreparesAgain` and its theorem
  except such a preparation. A remote command goes on when its connection is
  lost, so that a late `mv` or `rm -rf` meets the retry. `PrepareFile` is called by
  nothing.
* `CodexApp`. When a setup over a drifted configuration has rewritten the backup
  and a later write fails, the backup is no longer the one in the state, so
  that Configure and Restore are both refused from then on (`docs/apps.md`
  promises an explicit restore). After a crash in the first Configure, the next
  one takes Backpack's configuration for the user's original. A rename that fails
  in `writePrivateAtomic` leaves no file at all, for the old one has been removed;
  if that was `config.toml`, it is only in the backup.
* `ClaudeApp`. A first Configure that fails halfway leaves managed files and no
  state; a Restore that fails halfway is refused ever after, since the files it
  has put back count as changed.
* `CloudSession`. After a logout the daemon's cached token lives on until it
  expires. Login and logout at once can leave one file of each. A save that cannot
  write the metadata and then cannot remove its key leaves the new key beside the
  old metadata (`mixed`).
* `Updater`. Of two concurrent updates the slower may install the older release.
  A crash between the renames leaves the previous program under its backup's
  name only. `docs/update.md` has Windows leave the verified file beside the
  program; `Install` removes such a file and renames there too.
* `CloudStream`. A text that quotes a terminal marker suppresses the failure
  frame.
* `ChatStream`. A stream that ends without `[DONE]` is reported as completed; a
  "length" in the delta of a text is lost; indices that are not counted from 0
  leave items open in `responses.go`; Messages blocks are all stopped at the
  end, not where the next one starts.
* `EventBroker`. A full channel drops the newest event, the one that ends an
  operation too, although the comment of `Broker` speaks of intermediate ones.

## 6. Abstractions

`Sessions`. Operations that only read, and refused requests, are not actions.
An id is identified with its process: `newID` is random and one process is
started per id. A torn read of the unlocked `Status` is modelled where it
decides control, in `monitor` (`ReadsAsLive`). Signalling a child that has
exited but was not waited for is a `Signal` that has no effect. The drain of
SIGTERM and the `POST /shutdown` path both are `ShutdownBegin` then
`ShutdownList`: handlers keep running until `Exit`. A missing `sessions.json`
and an empty map are the same (`Nothing`); sessions are never deleted. Ports,
commands lines, backends and the fit check are data; a failing `Prepare`,
`resolve` or `Execute` is `CreateFails`. Migration of version 0 files is in
`TargetStore`.

All modules: a property's observations (`excused`, `blamed`, `overlap`, ...) are
variables no guard of the code's actions reads.

`Daemon`. The content of a file write is atomic (truncation and write are not
split), and so is the choice of a port with the start of the process. The API
key in a state is the one of the process it names. The asynchronous close of a
listener is merged with the shutdown answer. A version mismatch arises when the
executable on disk is replaced between a command's start and its `Spawn`, which
an installer does. Ctrl-C kills a command (`main` passes
`context.Background()`), leaving its lock. A daemon answers or is gone, except
for the `MaxLates` answers that miss a deadline; one that accepts connections
and never answers is not modelled. What a hand-started `serve` does to
`sessions.json` before it gives up is `RivalReads`/`RivalWrites` in `Sessions`.

`ModelPull`. Process crashes, not power failures: what was written is there
afterwards. Hashing a whole file is one step; the record is written in one step
(its crash window is that of `atomicReplace`). Metadata requests and the manifest
they bring are one step (`Resolve`) and the same for every call, since a revision
is immutable. No call is forced to end: the client has no timeout, and a silent
origin holds it.

`RuntimeBundle`. `load` verifies every file in one step, and `extract` writes a
stage nobody else sees in one. The upload to a remote target is `Upload` where
the lock is held over it; where `Ensure` finds the runtime without the lock, it
is part of `Begin`, and of `NoBundle` when it fails. `MaxFaults` is one lost lock, death or decay.
Good bytes complete a file only for the process that has truncated it last.

`RemoteCache`. A file is absent, incomplete, good or of full length and bad.
Which of rsync and scp is used is a free choice at every copy.

`CodexApp`, `ClaudeApp`. One command at a time: nothing locks two of them apart,
but both are started by hand. A patch changes the managed keys and nothing else;
that TOML and JSON survive it is tested by the repository and not modelled. The
catalog file of Codex is a step that can fail, with no content.

`CloudSession`. A device's key, identity and tokens have one number. How the key
is protected on each platform is left out, and so is the content of a file that
cannot be read. Commands at once overlap freely; only `CredentialWhole` excludes
them.

`Updater`. A download is accepted (`Accepts`) or not; how the archive, its
checksum and its version are checked is not split. Versions are ranks, as
`parseVersion` leaves them. Paths and permissions are left out.

`CloudStream`, `ChatStream`. A piece or delta stands for any bytes of its kind;
arguments of calls are counted, text is not. Marker search is over the kept tail
and the new read, as in the code.

`AgentRuns`. Flags, eligibility, discovery and the arguments of tools are left out,
and so is what a command refuses before it asks for a session, `daemon.Ensure`
included (`Daemon`). A session's target and context size are left out: `Ensure`
looks at neither. The daemon answers or is gone, as in `Daemon`; an answer that is
lost with it is `Refused`. `backpack run` for an app ends when the app is
configured: opening it changes nothing here. Identifiers are fresh, and which one
is taken is immaterial. There is one step between `Ensure` and `Endpoint` at which
everybody else may move; the proxied request itself is in `ChatStream`.

`TargetStore`. A target is its id, a document the set of its ids; `Get` is
`List`. Encoding is a bijection: `migrate` compares the backup with the bytes it
read, which are equal when the documents are. Processes crash, the machine does
not. A staged file that a dead process leaves is never looked at and forgotten.
Undecodable files and failed reads end the operation without an effect.

Not modelled at all: the components marked so in `PROJECT.json`. Argument lists
and environments of CLI agents, estimates, reports, paths, the embedded
catalog, the parsing of requests and manifests, and the conversion of whole
answers are pure functions of data the properties do not tell apart; the
remaining commands print. Of partly modelled ones: the remote process and its
tunnel are driven like a local child; `ReadRecord` differs from `ReadList` only
in how it recognises version 0.

## 7. Plan

Done: every component that keeps state has a module, and every safety and
action property of the passing runs is a theorem. Left:

1. Commands at once in `CodexApp` and `ClaudeApp`, once the code has a lock for
   them.

`RuntimeBundle` and `RemoteCache` are composed side by side (`Installs`): the lock
of an installation does not keep two uploads of one machine apart, since `Ensure`
uploads without it what it finds installed, so uploads overlap either way.

## 8. How to run

Every run is `tlc -workers 2 -config <name>.cfg <module>.tla` with the name and
the module given in `PROJECT.json`, for instance

    tlc -workers 2 -config MCSessions.cfg MCSessions.tla
    tlc -workers 2 -config Installs.cfg MCInstalls.tla
    tlc -workers 2 -config Periphery.cfg MCPeriphery.tla
    tlc -workers 2 -config DaemonLive.cfg Daemon.tla

and every proof `tlapm <module>.tla`:

    tlapm SessionsProofs.tla
    tlapm DaemonProofs.tla
    tlapm TargetStoreProofs.tla
    tlapm ModelPullProofs.tla
    tlapm InstallsProofs.tla
    tlapm ServingProofs.tla
    tlapm CloudProofs.tla
    tlapm FilesProofs.tla
