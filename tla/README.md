# Verification of the QNAP AI Control Suite

TLA+ models of the parts of this repository in which an order of steps, a
failure, a race or an unusual input can break a promise: the job manager of the
agent, the one-time approvals and the bridge that drives them, the way of a
request through the API with its risk, approval, handler and audit record, the
rotation of the access token, the configuration file, the command executor, and
the writes, trees and archives of the file service. TLC checks them on small
instances; TLAPS proves, for every value of the constants, the safety
properties of the job manager, of the approvals and the bridge, of the token
rotation, the executor, the file writes and the configuration, those of the way
of a request through the API, and those of the synchronisation of trees. One
safety property, the round trip of archives, and the liveness properties are
model-checked only.

`PROJECT.json` maps each definition to the lines it models, lists the runs,
the mutants that show that each property can fail, the hazards of the code and
the theorems. All paths below are relative to the root of the repository.

## The system

A Go agent runs on the NAS (`agent/`). It serves an HTTP API with bearer
authentication, classifies each request by an operation registry, asks for an
approval of sensitive operations, and executes them through a command executor
and a set of adapters for QTS; long operations become jobs. A bridge on the
client's machine (`mac-bridge/`, JavaScript) offers the API as MCP tools and
puts approvals to the user. Shell scripts package, install, start and stop the
agent.

| Component | State | Operations | What is hard |
|---|---|---|---|
| Job manager, `agent/internal/jobs` | jobs in memory, one goroutine per job, lock channels, semaphore, journal and snapshot files | start, cancel, run, log, shutdown, recover | cancellation racing completion, locks on every exit path, a crash between any two writes, a stop that interrupts jobs |
| Approval store, `agent/internal/approval`, `agent/internal/api/control.go` | tickets in memory | create, decide, consume, look up, prune | two requests with one ticket, expiry at the very instant, decisions repeated or late |
| MCP bridge approval flow, `mac-bridge/src` | one flow per tool call | request, ask, decide, retry once | every exchange may be lost or late while the agent still acts on it |
| Token store, `agent/internal/auth`, `agent/cmd` | token file, hash in the configuration, legacy file, hash in memory | start and migrate, rotate, roll back, reset at the console | two files that cannot be replaced together |
| Command executor, `agent/internal/exec` | one process group per command | run, time out, cancel, terminate | a tree of processes that exit, fork or refuse in any order |
| File service, `agent/internal/files` | the file system, one write mutex | write with hash and backup, copy, append, manage, trees, archives, reads | check and rename are separate steps; some writers take no lock |
| Configuration, `agent/internal/config` | one JSON file | load, migrate, normalise, save | partial input, defaults that must be stable |
| Operation registry, `agent/internal/operations` | a fixed table | resolve a request to its risk | what the registry reads of a body must be what the handler does |
| HTTP API, `agent/internal/api` | the request in flight, the snapshot's goroutines | some 90 routes | one change behind several routes and methods, fields that are read by one side only, goroutines that write one flag |
| Audit log, `agent/internal/audit` | one file | append, redact | the record comes after the change |
| QNAP adapters, `agent/internal/qnap`, capability resolver, device directories | QTS itself | command lines and parsers | several sources of which one fails, settings that have no counterpart |
| SSH transport, web interface, service and build scripts | child processes, browser, packages | | mostly input and output |

How they meet: a tool call of the bridge is a request to the API; its
middleware authenticates it (token store), classifies it (registry), creates
or consumes a ticket (approval store), and calls an adapter, directly or as
the function of a job, which runs a command (executor) or touches files (file
service). `Server.Run` stops the job manager when the agent is asked to stop;
`main` runs `TokenStore.Ensure` and the recovery of jobs before it listens.
Two compositions follow from this: `ApprovalBridge` joins the bridge to the
approval store, and `ApiRequests` joins registry, approval, handlers, the
status snapshot, the adapters' tables and the container's description.

What makes each part correct, in one line:

- *jobs*: a resource has one user; a cancelled job does not report an outcome
  of its own; what was reported as finished stays so, across a crash; every
  job ends.
- *approvals*: one approval, one execution, of the very request it was given
  for.
- *bridge*: a call runs its operation at most once, says "not executed" only
  when that is so, and comes to an end.
- *token*: the agent accepts the old token or the new one, and a client that
  was told a result can rely on it.
- *executor*: the result is complete when `Run` returns, an interruption is
  reported as one, and `Run` returns.
- *files*: a compare-and-swap replaces what its caller saw; readers see whole
  files; a synchronised tree is the source's, deletes only what it lists and
  never leaves the root; an extracted archive is the tree that was stored.
- *configuration*: what runs is what a restart runs again; full trust is never
  the result of an omission; a supplement is read-only.
- *API*: a change was approved for the request that makes it, a read or a dry
  run changes nothing, and the audit record says what the client was told.
- *adapters*: a reply with success is whole; a reconstruction reports what it
  could not carry over.

## Modules

### JobManager

`agent/internal/jobs/jobs.go`. A critical section under `Manager.mu` is one
action. `retained`, `status`, `resource`, `key` are the `jobs` map and fields of
`Job`; `pc` is the place of a job's goroutine in `Manager.run`, with one place
for each of its three calls of `finish`, since what it still holds differs;
`locked` and `slots` count the tokens in the lock channels and in the
semaphore. `journal` and `snapshot` keep the last record of each job in the two
files, `torn` says that the journal ends in an incomplete line, and
`journalLen` is its size in records. Jobs are numbered by creation, which is
the order `trimLocked` sorts by. `seen` and `owed` are history variables: what
clients could read, and which jobs were active when a process ended.

| Code | Definitions |
|---|---|
| `StartWithOptions`, `Cancel` | `StartWithOptions`, `Cancel` |
| `run`, `acquireResource`, `releaseResource` | `AcquireResource`, `AcquireCancelled`, `TakeSlot`, `SlotCancelled`, `markRunning`, `FunctionReturns`, `releaseSlot`, `releaseResource` |
| `finish`, `appendLog` | `finish`, `verdict`, `appendLog` |
| `persistLocked`, `compactLocked`, `trimLocked` | the operators of the same names |
| `Shutdown`, and `Server.Run` around it | `Shutdown`, `ShutdownCancels`, `ShutdownDone`, `ShutdownTimeout` |
| `loadState` | `LoadFiles`, `Replayed`, `InterruptRecovered`, `LoadTrim` |
| a kill or a power cut | `Crash` |

Two points that are easily modelled wrongly. A Go `select` with two ready cases
takes either, so a cancelled job may still get its lock or its slot. And
`markRunning` looks neither at the context nor at `stopping`, so a job may be
marked running after `Shutdown` has begun. `Faults` says which failures the
environment may inject: `crash`, `torn` (a crash inside an append), `append` (a
failing append), `snapshot` and `truncate` (the two halves of a compaction).

### OneShotApproval, Approval, ApprovalBridge

`OneShotApproval` is the promise: a ticket is issued, granted, used once by the
operation it is for, and may die at any moment. `Approval` is the store
(`agent/internal/approval/approval.go`) with the middleware and the decision
route (`agent/internal/api/control.go`); each method of the store holds the
mutex and is one action, with the order of its checks (`consumeCode`,
`decideCode`). An operation stands for the whole binding of a request (method,
path, hash of the canonical body, operation name): the store compares nothing
else. Time is a counter, and the instant of expiry is already too late, as
`!now.Before(ExpiresAt)` says. A restart empties the store.

`ApprovalBridge` EXTENDS `Approval` with tool calls
(`mac-bridge/src/client.js`, `approval.js`, `tools/register.js`): each call goes
from the first request over the question and the decision to one retry. A
request is in transit until the agent handles it, so a call may time out at
the bridge and its request still be executed; a second client may decide on
the same ticket.

### TokenRotation

`agent/internal/auth/token_store.go`, the token routes and the middleware of
`agent/internal/api`, `-reset-token` and the start of `agent/cmd`. Hashes are
named by their tokens. `Written` is a file replacement with its two ways to
fail: before the rename, or in the directory sync after it. The steps of
`Update` and of `restoreStateLocked` are actions of their own (`WriteToken`,
`SaveConfig`, `RestoreConfig`, `RestoreToken`, `VerifyState`, `SwitchToken`), so
a crash may fall between any two. `promised` is history: the tokens with which
a client has reason to expect to get in. The initial states are those an
installation may leave (`qpkg/shared/qnap-ai-control-agent.sh`): with both files,
with the hash alone, with a legacy file of this token or of an older one.

### CommandExec

`agent/internal/exec/executor.go` and `process_unix.go`: `Run`, its waiting goroutine
and `terminateProcessGroup`, against a tree of processes that may fork, ignore
SIGTERM, redirect their output, leave the group, and exit whenever they like or
never. `cmd.Wait` returns when the leader has exited *and* no process holds the
output pipes, because `Stdout` and `Stderr` are buffers; for a command that exited
with zero it may still report an error of its own, which `Run` calls a failed start.

### FileWrites

`agent/internal/files/files.go`: `writeAtomic` with its hash check and backup,
`copyFileAtomic`, `Append` and the file actions of `Manage`. Paths hold inodes,
and an open handle is an inode: that is what makes an append to a replaced file
vanish. A content is the sequence of callers that wrote it and names its own
hash, so equal hashes are equal contents.

### FileSystem, FileTrees, Archives

`agent/internal/files/files.go`. A file system is a function from paths to
directories, files and links, and every entry is in a directory (`FileSystem`).
A system call is given a *name* and acts on a *place*: `EvalSymlinks` resolves a
name through links and links to links, as deep as `MaxLinks`, `Place` does so up
to the last name. `Resolve` and `authorizeParent`, the two ways in which the
service asks whether a path is in the allowed root, are in `FileSystem`, too.

`FileTrees` is `SyncTreeWithOptions` (and `CopyTree`, `SyncTree`, which call it)
and the actions of `Manage` that other clients use on the same tree meanwhile.
`pending` holds the entries that a walk has read and not yet worked on, with the
kinds that were read (`ReadDir`); the first in lexical order is next (`Upcoming`),
which is the order of `WalkDir`. A step is the work on one entry: `Visit` in the
source, `deleteTreeExtras` in the target. Between two of them what the walk has
read may be gone, replaced or a link by the time it is used.

| Code | Definitions |
|---|---|
| `SyncTreeWithOptions`: checks and target | `Begin`, `Started`, `prepareTreeTarget` |
| its walk over the source | `Visit`, `CopyFails`, `Walked` |
| `ensureTreeDirectory`, `ensureTreeParent`, `prepareTreeFileDestination`, `copyFileAtomic` | the operators of the same names, from a file system and a result to new ones |
| `deleteTreeExtras`, directory sync | `EndWalk`, `deleteTreeExtras`, `EndExtras`, `Finish` |
| `Manage` | `Manage`, `Other` |

`start`, `touched` and `strayed` are history: the file system when the walk began,
what other clients have changed since, and whether a step was taken while a name
led elsewhere. The last is the one exception that the properties make. The walk
over the target goes by names, so if another client replaces a directory of the
target by a link in the middle of it, the walk goes through that link. Steps
taken while the names lead where they say (`Settled`) are covered, whatever
happened before.

`Archives` EXTENDS `FileTrees` with `archivePath` and `extractPath`, the actions
`archive` and `extract` of `Manage`; its `ServiceSpec` allows every behaviour of
`FileTrees`, or a client that makes an archive and extracts it. An archive is a
file whose content is its format and its entries. An extraction opens each entry
by name, through links that stand in its target already; it is for this reason
that `StaysInRoot` is about synchronisations and the other actions of `Manage`
only.

`Append`, the hash check and the lock are in `FileWrites`, where steps are finer
and paths are few.

### ConfigFile

`agent/internal/config/config.go`: `Load` with its two migrations (`migrateLegacy`
for the first format, `overlay` for a file without an approval section),
`Normalize` as `normalized` (what it sets) and `accepted` (what it refuses), and
`SaveAtomic`, which a rotation calls with the configuration in memory. A file
has the set of keys it gives and their values; absence differs from the zero
value, as it does for `json.Unmarshal` over defaults. The five positive limits
behave alike and are one key. An administrator's editor may set a key to any
value of its kind, valid or not, or remove a key or a section.

### ApiRequests, with StatusSnapshot, NetworkTables and Reconstruction

`ApiRequests` takes one authenticated request after the other through
`operationControl`: `Resolve` and `Sensitive` are the registry
(`agent/internal/operations/registry.go`), `Outside` the supplement's list
(`supplement.go`), `RequestApproval`, `Consume` and `RefuseTicket` the approval,
and `auditOperation` the deferred audit record. `routes` sends a request to the
operator of its handler (`server.go`, `v2_routes.go`, `admin.go`), which is named
as in the source and gives the set of possible outcomes: a status, what was
changed on the NAS, and what the job it started will change. What an adapter
accepts (`qpkgArgs`, `RAIDAction`, `SnapshotAction`, `ManageUser`, `CommandArgs`,
`Signal` and so on) is an operator of its own, so that a handler's outcome follows
from the adapter's checks.

A body is read twice, in two ways, and its `form` tells who can read it. The
registry has one `json.Unmarshal` of the whole body into a map, drops its error and
looks keys up as they are spelled (`operationPayload`). The handler decodes the
first JSON value, for three methods only, with keys in any case, and refuses fields
it does not know (`decode`, `seen`). So a body may be `exact` (both read it),
`folded` (keys in another case) or `trailing` (bytes after the value), which the
handler reads and the registry does not, or `invalid`.

A handler may panic before or after its change (`Panic`): no status is recorded,
the audit record is written all the same, and status 0 counts as 200 in it. `Write`
is the log: off or without a path it writes nothing, and an error of its file
drops the record silently.

A value in a body is a class: all that registry and handlers distinguish, with
names such as `critical` for the paths of `criticalPath` or `wipe` for the
commands of `dangerousCommand`. What the regular expressions match is not
modelled.

`Destructive` states, without the registry, which changes
`docs/confirmations.md` calls sensitive; `ChangesAreApproved` compares the two. It is
an equivalence: in mode `sensitive_only` a destructive change was approved if and
only if its request is not one of `Overlooked`, the four kinds of request that the
registry takes for an ordinary write (see *Met while modelling*). Were one of
them closed in the code, or a fifth opened, the run would fail. In mode
`all_write` there is no exception.

- `StatusSnapshot`: the goroutines of `statusSnapshot` (`v2_routes.go`), which
  write entries and one flag under a mutex, and the thermal report
  (`server.go`), a sequence of questions under a budget that may end, or be
  cancelled by the client, between any two.
- `NetworkTables` (`agent/internal/qnap/network/network.go`): reading
  `/proc/net/route`, `ipv6_route` and `dev`, the neighbour lines of `ip` in their
  several forms, counters from `/sys` or `/proc`, and the arguments of `ip`. A
  neighbour is spelt the way the kernel or `ip` does (`SpellNeighbor`), with its
  flags before or after the state, and parsed again word by word
  (`neighborField`).
- `Reconstruction` (`agent/internal/qnap/docker/reconstruct.go`, `inspect.go`): what
  each `append...` function contributes to the `docker run` command, the Compose
  service and the loss report. Of the some ninety fields of the inspect document
  a few stand for all that one function treats alike. `ReportIsExact` compares the
  result with the settings of the container, for the settings that the code drops
  without a word, too: it says which these are and that they are dropped.

`ApiRequests` extends these three: routes to them are requests like any other
(`Describe`, `StartSnapshot`, `Collecting`, `AnswerSnapshot`).

`MCTokenRotation`, `MCFileWrites`, `MCFileTrees` and `MCApi` add the definitions
that a `.cfg` cannot express (symmetry sets, paths, the bodies of each route);
`SmallTrees` has the file systems of `MCFileTrees`.

## Runs

| Run | Configuration | What it shows |
|---|---|---|
| `job_safety` | JobConcurrency.cfg | three jobs, one resource, two slots, one key, a history of one: exclusive locks (`ResourceExclusion`), cancellation is never overwritten by an outcome (`CancelIsHonoured`), one execution per idempotency key although the history is trimmed (`OneRunPerKey`) |
| `job_recovery` | JobRecovery.cfg | three jobs, one slot, crashes, torn lines and failing compactions: the files always bring back what memory holds (`DurableRecords`), terminal is terminal (`TerminalRemainsTerminal`), interrupted jobs are reported as such (`RecoveredAsInterrupted`), slots are not overrun (`SlotBound`) |
| `job_liveness` | JobLiveness.cfg | two jobs for one lock and one slot: `CancelTakesEffect`, `ShutdownEnds`, `JobsEnd` |
| `job_write_fault` | JobWriteFault.cfg | *violation*, see Findings |
| `approval_bridge` | ApprovalBridge.cfg | two calls, two tickets, the store with its clock, pruning and restarts: `ApprovedOnce` and the refinement `ImplementsOneShot` of the store; `RunsAtMostOnce`, `NotRunIsTrue`, `DenialIsFinal`, `CallsEnd` of the bridge |
| `token_rotation` | TokenRotation.cfg | three tokens, two clients and the console, crashes and failing writes: `RotationIsAtomic`, `FilesAgree`, `RotatesOwnCredential` |
| `command_exec` | CommandExec.cfg | three processes: `OutputIsComplete`, `InterruptionIsReported`, `RunEnds` |
| `file_writes` | FileWrites.cfg | three callers of any kind on a file and its backup: `ReplacesWhatItChecked`, `DigestIsOwn`, `OldOrNew` |
| `file_unlocked` | FileUnlocked.cfg | *violation*, see Findings |
| `file_trees` | FileTrees.cfg | every small tree onto every small target, with other clients in between, and archives of the same trees extracted where nothing is and over the targets (212,000 states): `MirrorsSource`, `DeletionsAreListed`, `StaysInRoot`, `ExtractsWhatWasStored` |
| `config_file` | ConfigFile.cfg | files of three formats, started, rotated, stopped and edited: `RestartKeepsPolicy`, `TrustIsExplicit`, `SupplementStaysReadOnly` |
| `api` | MCApi.cfg | every route with every method, class and form of body under seven configurations, with panics and an audit log that is off or fails (870,000 states): `ChangesAreApproved`, `ReadsChangeNothing`, `DryRunChangesNothing`, `AuditIsHonest`, `TablesAreWhole`, `LossReportIsExact`, `SnapshotFlagIsExact` |

Bounds and why they are enough:

- Jobs: a lock and a slot are contended by two jobs; the third lets a waiter
  follow a cancelled waiter, and one job be trimmed while two are active
  (`MaxHistory = 1`). `CompactAt = 2` in `job_recovery` makes compaction happen
  at every second record, so that every kind of record is once the one that
  triggers it and once the one that does not. Restarts are not bounded. Resources
  and keys are left out of `job_recovery` because no record depends on them;
  faults are left out of `job_safety` because a lock lives no longer than its
  process.
- Approvals: two sensitive operations and two tickets give a wrong ticket for a
  request, as a caller may name the ticket of another call; a lifetime of one
  tick in a clock of one lets a ticket expire before, between and after a
  decision and a use, and the next one be created after that. Every message of
  the bridge may be arbitrarily late within a tick.
- Tokens: the one in use, the one being installed and a third that is
  neither; two clients that passed the middleware with the same token.
- Processes: a leader, a child and a grandchild, so that a process may outlive
  its parent and leave a group of which others remain.
- Files: a compare-and-swap needs one adversary; the third caller covers an
  operation that comes between the two (a copy onto the backup, say).
- Trees: names `a` and `b`, depth two, a source and a target of every shape with
  files, directories and links into and out of the root; two requests of other
  clients within one synchronisation, so that an entry may be deleted and
  replaced by a link. A target that is missing has a missing parent, too. Source
  and target are also named through links, one of them a link to a link that leads
  out of the root; `MaxLinks = 4` is more than any chain of the small trees. An
  archive is not made inside the tree that it stores: what it then holds of itself
  depends on buffering.
- Configuration: two edits between starts, since an edit can remove one of the
  two keys of an implication and give the other; starts and rotations are not
  bounded.
- Requests: one is in flight at a time, with at most one ticket and one job.
  Handlers share no state but tickets, tokens, jobs and files, whose concurrency
  `Approval`, `TokenRotation`, `JobManager` and `FileWrites` model. The
  configurations vary profile, approval mode, commands, supplement, redaction and
  audit. The forms of a body other than `exact` come with all the fields of the
  route or with none; a key given twice in two spellings is left out.
  `Module` has two members: the flag treats all alike. One fan and one disk are
  the caps, so that a promise may be 0, at the cap and above it.
- `CHECK_DEADLOCK FALSE` is used where each actor performs one operation and
  then stops for good: the bridge, the executor, the file service, the request
  of `api` (after its last reply), and an edited configuration that does not load.

### Fairness

- *Goroutines* (weak): the Go scheduler is preemptive and runs what can run.
- *Lock and slot* (strong, `GoroutineFairness`): a channel serves its waiting
  senders in order of arrival, so one that finds room again and again is
  served. The critical sections between are short.
- *Functions of cancelled jobs return* (weak, `cancelled[j] /\
  FunctionReturns(j)`): they hand their context to `Executor.Run`, which kills
  the process group after the grace period; `CommandExec`'s `RunEnds` is that
  statement and its one exception (below). Functions of other jobs need not
  return for `CancelTakesEffect` and `ShutdownEnds`; `JobsEnd` states the
  fairness it needs as its own premise, because commands have a timeout.
- *Shutdown ends without its timeout*: `ShutdownTimeout` gets no fairness, so
  `ShutdownEnds` does not rest on it.
- *Executor*: the runtime schedules `Run` and its goroutine, the grace timer
  fires, the kernel delivers a signal that is not ignored. No process is assumed
  to exit of itself.
- *Bridge*: each request has a timeout in `client.js` and the elicitation a
  total one, so a place in which a call waits is left; the bridge's event loop
  runs a callback that is ready. The network owes nothing.

No fairness is assumed of clients, of the user, of crashes or of restarts.

## Findings

Each is a run that must fail, with the line it contradicts in `PROJECT.json`.

1. `job_write_fault`. `persistLocked` ignores an error of the journal append and
   `finish` reports the terminal status all the same. After a crash the last
   record on disk is an active one and the finished job comes back as
   interrupted, where `docs/job-recovery.md:29` says that a terminal job
   remains terminal. All other faults leave that promise intact, which
   `job_recovery` checks and `TerminalStatusIsFinal` proves.
2. `file_unlocked`. `Append`, and `Manage` except for copies, write without
   `fileWriteMu`; an append between the hash check and the rename of a
   compare-and-swap is lost although both calls succeed. The comment of the
   mutex says that all writes are serialised.

Met while modelling, without a run of their own:

- A journal line that a crash cuts exactly before its newline is read by the
  next start, and destroyed by the next append, which joins it
  (`jobs.go:659`): a terminal status may be seen once and lost by a second
  crash. The torn lines of the model are incomplete JSON.
- If the process dies between the migration of a legacy token and the removal
  of its file, no later start removes the file (`token_store.go:104`). The token
  in it stops being accepted with the next rotation.
- SIGKILL is sent only if `cmd.Wait` has not returned within the grace period
  (`process_unix.go:28`); a child that ignores SIGTERM and has redirected its
  output survives when its leader obeys.
- A rotation saves the configuration loaded at start, so an edit of the file
  made since is lost (`RestartKeepsPolicy` is about files not edited since).
- The reboot and shutdown routes replace the request's body, and the
  cancellation of a job and the generation of a token never decode it, so these
  four ignore `dry_run` while the audit record calls the request a dry run
  (`server.go:492`); `DryRunChangesNothing` makes the exception explicit
  (`Undecoded`). The last two came to light in the proof of `DryRunsAreHarmless`.
- A GET of a disk's `smart-test` or of `snapshots/action` starts a job with an
  empty action; the job fails, so `ReadsChangeNothing` holds.
- POST requests that only read count as writes, except `files/read` and
  `files/checksum`; in mode `all_write` they need an approval.
- `snapshots/action` with `delete` destroys a snapshot and is an ordinary write
  (`registry.go:124`); `docs/confirmations.md` does not name it.
- Four kinds of request make a destructive change without an approval in mode
  `sensitive_only`; `Overlooked` names them and `ChangesAreApproved` shows that there
  are no others among the requests of the model, and `ChangesNeedApproval` proves
  it of all requests of that form. (1) A body with keys in another case, or with
  bytes after its JSON value: `operationPayload` (`control.go:210`) and `decode`
  (`server.go:1738`) read it differently. (2) `docker builder`, `image`, `container`
  or `network` with `prune`: `sensitiveDockerChange` (`registry.go:256`) knows
  `system` and `volume` only, while `docs/confirmations.md:17` lists "Docker
  destructive prune" among the sensitive operations. (3) A route to `0.0.0.0/0` or
  `::/0`: `registry.go:253` compares with the word `default`, and `ip` takes
  all three for the same route (`network.go:258` passes any network on). (4) A
  body of `/v1/jobs` with both a script and an `argv`: the registry looks at the
  `argv` (`registry.go:208`), the handler runs the script (`server.go:1277`).
- The audit log drops a record without a word when it is off, has no path or
  cannot be written (`audit.go:41`), where `docs/security-model.md:3` says that
  every `/v1/*` route records an event; and a handler that panics has a record of
  success, because status 0 counts as 200 (`control.go:142`). `AuditIsHonest` is
  about the records that are there and names the second case.
- A failed `restart` of a package may leave it stopped: it is a stop and a start.
- The audit record is written after the reply; a crash in between loses it.
- `statusSnapshot` is not partial when a question of the thermal report fails
  within its budget, or when routes, RAID groups or volumes fail, whose errors
  have fields of their own; `SnapshotFlagIsExact` is about what the flag covers.
- The reconstruction may set `Equivalent` for a container that it changed, where
  `README.md:24` promises that a reconstruction says whether it is lossless and
  which fields are missing (see `reconstruct.go:35`, too). It accepts some fields
  without carrying them over:
  AttachStdin, AttachStdout and AttachStderr, Shell, ExposedPorts, ArgsEscaped,
  KernelMemoryTCP, MaskedPaths, ReadonlyPaths and, in the Compose form,
  PublishAllPorts. The Blkio settings are written and also reported as lost, as
  `recognizedHostConfigField` spells them `blio`. A mount of
  `HostConfig.Mounts` without a destination is always a loss; propagation and
  consistency of a mount are in the run form only; an anonymous read-only
  mount is written as `dst:ro`, which Docker reads as a source and a
  destination; the type of a tmpfs mount is in the run form only. `ReportIsExact`
  names all of these and says what becomes of each.
- A neighbour in the old form of procfs loses its hardware address; counters
  of which `/sys` gives some count as available, with zeros for the rest.
- `Manage` resolves links first, so that deleting or moving a link acts on what
  it points to. A zip of a tree with a link is made but cannot be extracted; a
  tar with one is refused, unless the link points to an empty file. The reply of
  a failed synchronisation leaves out the deletions it has made already.
- `markRunning` does not look at `stopping`, so the comment at `jobs.go:250`
  holds for `finish` only; recovery repairs the record.
- The trim at the end of `loadState` may drop a job that it has just marked
  interrupted when the history is full (`RecoveredAsInterrupted` says "or not at
  all" for this reason).
- A process that leaves the group and keeps the output pipes open holds `Run`
  for as long as it lives; `RunEnds` states that exception.
- A command that answers SIGTERM by exiting with 0 is reported as a success,
  although it was interrupted (`InterruptionIsReported` is about failures).
- For a retry that failed in an unknown way the bridge says that the operation
  "could not be retried" (`mac-bridge/src/approval.js:183`), also when the request
  reached the agent and ran and only its answer was lost. `NotRunIsTrue` leaves
  that result out.

## Proofs

TLAPS proves, for any number of jobs, resources, keys, tickets, operations,
calls, tokens, clients, processes, callers and requests, for file systems of any
size and depth, and any bounds:

| Module | Theorem | Statement |
|---|---|---|
| `JobManagerProofs` | `TypeCorrect` | `Spec => []TypeOK` |
| | `ResourcesAreExclusive` | `Spec => []ResourceExclusion` |
| | `CancellationIsHonoured` | `Spec => []CancelIsHonoured` |
| | `SlotsAreBounded` | `Spec => []SlotBound` |
| | `KeysRunOnce` | `Spec => []OneRunPerKey` |
| | `ActiveJobsAreInterrupted` | `Spec => []RecoveredAsInterrupted` |
| | `RecordsAreDurable` | `Spec => []DurableRecords`, if `"append" \notin Faults` |
| | `TerminalStatusIsFinal` | `Spec => TerminalRemainsTerminal`, if `"append" \notin Faults` |
| `ApprovalProofs` | `TypeCorrect` | `Spec => []TypeOK` |
| | `TicketsAreOneShot` | `Spec => []ApprovedOnce` |
| | `StoreImplementsOneShot` | `Spec => ImplementsOneShot` |
| | `BridgeUsesTheStore` | `BridgeSpec => Spec`: the bridge does nothing to the store that the store alone may not do |
| | `BridgedTicketsAreOneShot`, `BridgeImplementsOneShot` | the two theorems of the store, for `BridgeSpec` |
| | `CallsRunAtMostOnce` | `BridgeSpec => []RunsAtMostOnce` |
| | `NotExecutedIsTrue` | `BridgeSpec => []NotRunIsTrue` |
| | `DenialsAreFinal` | `BridgeSpec => []DenialIsFinal` |
| `TokenRotationProofs` | `TypeCorrect` | `Spec => []TypeOK` |
| | `RotationsAreAtomic` | `Spec => []RotationIsAtomic` |
| | `RotationKeepsFilesAgreeing` | `Spec => []FilesAgree` |
| | `RotationUsesOwnCredential` | `Spec => RotatesOwnCredential` |
| `CommandExecProofs` | `TypeCorrect` | `Spec => []TypeOK` |
| | `OutputIsCompleteOnReturn` | `Spec => []OutputIsComplete` |
| | `InterruptionsAreReported` | `Spec => []InterruptionIsReported` |
| `FileWritesProofs` | `TypeCorrect` | `Spec => []TypeOK` |
| | `DigestsAreOwn` | `Spec => []DigestIsOwn` |
| | `SwapsReplaceWhatTheyChecked` | `Spec => ReplacesWhatItChecked` |
| | `FilesAreOldOrNew` | `Spec => OldOrNew` |
| `ConfigFileProofs` | `RestartsKeepPolicy` | `Spec => []RestartKeepsPolicy` |
| | `FullTrustIsExplicit` | `Spec => []TrustIsExplicit` |
| | `SupplementsStayReadOnly` | `Spec => []SupplementStaysReadOnly` |
| `ApiRequestsProofs` | `ChangesNeedApproval` | `Spec => []ChangesAreApproved` |
| | `ReadsAreHarmless` | `Spec => []ReadsChangeNothing` |
| | `DryRunsAreHarmless` | `Spec => []DryRunChangesNothing` |
| | `AuditsAreHonest` | `Spec => []AuditIsHonest` |
| | `SnapshotFlagsAreExact` | `Spec => []SnapshotFlagIsExact` |
| | `TablesAreReadWhole` | `Spec => []TablesAreWhole` |
| | `LossReportsAreExact` | `Spec => []LossReportIsExact` |
| `FileTreesProofs` | `TreesAreTyped` | `Spec => []Typed` |
| | `StaysInRootHolds` | `Spec => StaysInRoot` |
| | `UndisturbedHolds` | `Spec => []Undisturbed` |
| | `MirrorsSourceHolds` | `Spec => []MirrorsSource` |
| | `DeletionsAreListedHolds` | `Spec => []DeletionsAreListed` |

They rest on the assumptions about constants that the modules name, which TLC
evaluates in every run: bounds are natural numbers, positive where the code has a
positive default; the values that stand for "none" are not members of the sets
they are added to; a backup is not the file it is made of (`FileAssumption`: the
code adds a suffix); no hash is empty (`ConfigAssumption`). Nothing is assumed of
the sets of requests and configurations of `ApiRequests`: its theorems hold for
every combination of path, method, flags and body, not only for those that
`MCApi` enumerates. Of the documents it is assumed that they are of the form
`Document` (`DocumentsAssumption`), with any number of binds, mounts, networks and
variables, and that no path is empty or spelt as an option of a volume or a mount
(`ReconstructionAssumption`).
Of the tables and neighbours it is assumed that they are ones (`NetworkAssumption`):
lists of lines with any defects, interfaces with any name. `FileTrees` begins with
any file systems, and takes any requests, that are such (`TreeAssumption`); one
string is not a name of an entry, so that there is a value for "no path"
(`PathAssumption`).
The condition on the two durability theorems is finding 1:
with a failing append they are false. `ActiveJobsAreInterrupted` needs no such
condition.

### Strengthenings

None of the invariants is inductive as it stands. The strengthenings stand at
the end of the modules they are about, so that TLC can check them too; those of
`FileTrees` are in `FileTreesProofs`, next to the operators they are made of, and
were checked over the small trees before they were proved.

- `ExclusionInv`. Exclusion of the executing jobs says nothing of the job that
  is between its lock and its slot, or that has finished and not yet released.
  So: a job in any place of `Holding` owns the token of its resource, and no two
  of them share a resource.
- `CancelInv`. `Shutdown` collects jobs under the mutex and cancels them after
  it. A job that finished in between would end up cancelled and succeeded; it
  cannot, because `finish` changes nothing while the manager is stopping, so a
  collected job stays active until it is cancelled.
- `SlotInv`. The number of tokens in the semaphore is the number of jobs between
  taking a slot and giving it back, of which the executing ones are a part.
- `KeyInv`. A job that may still execute is active and in the `jobs` map:
  `trimLocked` drops terminal jobs only, so the search of `StartWithOptions` finds
  its key.
- `RecoveryInv`. The files know no outcome of a job that is active in memory, nor
  of one that was when the process ended, but an interruption by a recovery that
  did not get to its end; whichever appends were lost.
- `DurableInv`. A record appended behind a torn line is lost with that line.
  That does no harm because a torn line exists only while no goroutine of a job is
  under way: the first record after a restart is that of a recovered job, whose
  interruption is repeated by the next recovery, or of a job that is merely queued
  (which is why `DurableRecords` leaves queued jobs out). During recovery the
  files agree with memory job by job.
- `TerminalInv`. What a client saw, what memory holds and what the files would
  bring back agree, for trimmed jobs too, whose records stay in the journal until
  the next compaction.
- `ApprovalInv`. A ticket under which an operation ran is used or gone, and one
  that was never issued has no history.
- `CallInv`. For each place of a call, what its requests have done and may still
  do: a call that has given up before its retry has no request that could run,
  and one whose retry is under way has not run yet. A ticket that
  is `Revoked`, denied or gone before it ran, stays so whoever acts on it
  (`RevokedIsStable`).
- `RotationInv`. Within `Update` each file holds its old or its new content, the
  old contents lead to a promised token and a rollback without failures has them
  back (`UpdateInv`); within `Ensure` the hash that was read and the files lead to
  one token (`BootInv`); and who holds the lock passed the middleware with the
  token in use (`ControlInv`).
- `ExecInv`. What `cmd.Wait` has seen stays true, `Run` returns only after it, and
  only an ended context leads to a signal.
- `FileInv`. One caller is inside the lock (`PlaceInv`); what it has checked,
  backed up and written is what its place says (`WriteInv`).
- `ConfigInv`. What runs is `Normal`: a configuration that `Normalize` leaves alone
  and accepts.
- `ApiInv`. A ticket is used by the request it was made for and by no other
  (`TicketInv`); the event of a request follows from its ticket, a record that was
  written has that event and what the status calls for, and the handler of a
  sensitive request never answers 409 itself, which the record would take for a
  request for approval (`RecordInv`); what was or will be changed is lawful for the
  request in hand, and a granted change belongs to a request that consumed a
  ticket (`ChangeInv`).
- `SnapInv`. The flag follows the entries while they are written, and a thermal
  report that was handed over froze the context it was made under.
- `AnswerInv`. A request that describes the network is answered in its last step,
  with the status of its description; the rest is about the parsers.
- `Typed`. Source and target of a synchronisation stay apart and in the root, and
  what is pending lies in the tree that is walked. Without the first, a
  synchronisation might read what it writes.
- `Undisturbed`, for a synchronisation that nobody has disturbed so far. It leaves its
  source alone (`Kept`); what it has passed of the source is copied or skipped
  (`CopiedSoFar`, `SkippedSoFar`); a path is listed as deleted once, as it is an entry
  of the source by then or gone for good (`Counted`, `DeletedBefore`); what is pending
  is read as it is and no part of it lies in another (`Truthful`, `Apart`); the
  directories above it were passed and nothing in it was (`Ahead`); and what was not
  passed is pending or below something pending (`Covered`), so that at the end all of
  it was passed (`Complete`).
- `OnlyAsked`, `OnlyListed`. The two halves of `DeletionsAreListed` that hold of disturbed
  synchronisations, too: nothing is listed unless deletion was asked for, and an
  entry of the target that no client touched is of the kind it was or at or below
  a listed path, as long as no step went by a name that led elsewhere.
- `ContainerInv`. The description of a container is the one that
  `buildReconstruction` makes of a document. The rest is about that operator.

### How the proofs are laid out

Each preservation proof has one step per action. Facts about the disk operators
(`persistLocked`, `compactLocked`, `Replayed`) and about `trimLocked` are lemmas.
The refinement proof maps every step of the store to a step or a stutter of
`OneShotApproval` (`RefinementStep`).

`ApiRequestsProofs` has one lemma per handler: each outcome is `Lawful`, that is,
a change comes from a method whose body is read; if it is destructive, the registry
would know it from the body that the handler read, or its request is `Overlooked`;
and it is not one of a dry run. `ProperRisk` and `OverlookedIsWrite` turn this into
the equivalence of `ChangesAreApproved`. `RoutesLawful` joins them over the routes; the steps of the
specification only need that lemma. This is where the registry's reading of a body
is compared with the handler's, for bodies of every form. That no sensitive
request is answered with 409 is a lemma per group of handlers, joined by
`NoConflict`.

`RestartsKeepPolicy` says that `Normalize` is idempotent, and so needs to know
what the loop of `cleanPaths` computes for lists of any length. The library's
induction theorems take an operator and cannot be instantiated by the installed
provers, but the well-founded minimum (`WFMin` with `NatLessThanWellFounded`) can:
`Least`, `SetInduction` and `Recursion` are an induction over *sets* of numbers and
the unfolding of a recursive function derived from it. With them
`ConfigFileProofs` shows that the result of `cleanPaths` is `Canonical` and that a
canonical list is left alone.

`LossReportsAreExact` rests on one lemma per group of lists: for any one
setting, when it is in the command, in the service and in the report
(`ConfigParts`, `HostSettings`, `NetworkParts` and so on, joined by `Rebuilt`). A
mount that is skipped has the source and destination of a bind or of an earlier
mount that could be written; the first one of these is not skipped itself (`Least`
in `MountsAreTold`). What becomes of the exceptions is proved as well: silent keys
are in neither (`SilentKeysAreLost`), misspelled ones in both forms and the report
(`MisspelledKeysAreTold`), and the details of a mount reach the command and never
Compose (`DetailsAreTold`).

`TablesAreReadWhole` uses the same induction over sets for a line of words. A scan of
a line is taken apart at any two positions (`At`, `ScanStep`), so a line that is
composed of parts, the device, the address, each flag and the state, is read one
part after the other (`ReadsDevice`, `ReadsMac`, `ReadsFlag`, `ReadsState`), and the two
orders of the parts (`FlagsFirst`, `FlagsLast`) give the same neighbour.
`PositionIsHonest` is the form without `dev`.

`FileTreesProofs` begins with what prefixes of sequences are (`WithinOrder`, `Below`,
`Joined`, `Cancel`) and what `EvalSymlinks` gives (`RealPath`: a real path is an entry
that is no link, in directories), by the induction above, once over the names of a
path and once over the depth of links. Each operator on file systems keeps them
file systems and changes places under known paths only. The work on an entry is
then described by its effect. In general it adds to the list of deletions and only
if that was asked for (`Grows`), and it changes nothing but below the target, where
what it replaces is listed (`Careful`). `SyncStep` says this of every step of both
walks, and `StaysInRoot` and `DeletionsAreListed` follow from it. Where nobody
disturbs the walk, the directory of an entry is in place already, so at most the
entry's own path is deleted (`DeletesOnly`) and the entry is put there (`PutsAt`).
`GoesInto`, `NextEntry` and `WalkAhead` are about what is passed and what is pending:
a directory is passed before what lies in it, so that no entry is put over what
was copied before.

Places in which a proof corrected the model: `CASE` arms that overlapped
mean an arbitrary one of them in TLA+ and the first one in TLC, and are
alternatives in the order of the code now; `DryRunChangesNothing` was false for two
routes whose bodies no run had given a `dry_run` (see Findings); a neighbour given
by position whose device is named `dev` is read with another device, which
`TablesAreWhole` names as an exception now; and `FileTrees` took the path of an
entry for the place it is in, which is so only while no directory on the way has
become a link. Its operations resolve names now, and the promises say for which
steps they are made.

### Only model-checked

- Liveness: `CancelTakesEffect`, `ShutdownEnds`, `JobsEnd`, `CallsEnd`, `RunEnds`.
  Fairness and `ENABLED` are out of the prover's reach.
- `ExtractsWhatWasStored`: an archive is made by a recursion over a tree and read by
  a fold over its entries, each of which changes the file system that the next
  one finds. The property compares the two, by an induction over a list whose
  elements are themselves given by a recursion; the run checks it for every small
  tree.

## Not modelled

- Job payloads, results and log lines, and the limits on them.
- Clock steps backwards: jobs are ordered by creation.
- Durations: a timeout may fire at any moment after it is armed.
- Redaction and the patterns of the registry: text processing by regular
  expressions; an adapter's action whose name contains a word for reading is taken
  to read. The additional audit records of jobs, decisions on tickets and some
  handlers.
- Modes, owners, hard links and special files; search, paging and tail of file
  contents.
- What happens within one entry of a synchronisation: another process between
  two system calls of it. The agent gives no promise there.
- The inventories of the adapters, discovery and the capability resolver: they
  parse the output of QTS tools and keep no state; a model of them would be a
  transliteration. `ApiRequests` has their routes and how they fail.
- The SSH read transport and the production server of the bridge, its
  configuration and the definitions of its tools: input and output of child
  processes, and tables.
- The web interface, the device directories, the build, test and packaging
  scripts; of the service script only the token migration is in
  `TokenRotation`.

## What is left

Of the safety properties of the runs one has no theorem, `ExtractsWhatWasStored`
(see above).

Models that could still be added: the limits of a job's log, the tail of the
journal cut before a newline, start and stop in the service script.
