# A TLA+ model of LocalLink's control plane

LocalLink is the control plane of a development workspace: a dashboard and an MCP
server over one `AppContext` that read the workspace's configuration, probe Docker,
PM2, Task, Tailscale and Caddy, and act on them. Nearly everything it does is a
read, an `await` on an external command, and a write that relies on the read.
This directory holds TLA+ models of the parts where that is hard to get right, the
TLC configurations that check them on small instances, and TLAPS proofs of the
properties that matter most. `PROJECT.json` maps each definition to the
lines it models and lists the hazards, the runs, and the results. Line numbers below
are of the files under `src/`.

To check: `tlc -workers 2 -config X.cfg M` for a run of the table, `tlapm M.tla`
for a module of proofs.

## 1. Inventory

| Component (source) | State it keeps | Operations | What is hard | What makes it correct |
|---|---|---|---|---|
| PM2 workspace lock (`runtime/pm2-workspace.ts`) | lock directory, `owner.json` | acquire, inspect, run a guarded command, inspect again, release | several processes poll one directory; owners die; every step is an await | one caller at a time; no second daemon for a `PM2_HOME` that what was inspected does not explain; waits end; abandoned locks are recovered |
| Private Edge routes (`extensions/planner.ts`, `runtime/network-edge.ts`) | Tailscale listeners, ownership records, declaration | preview, apply workspace plan, apply routes, reconcile, reload | plan-confirm-act over a world others change; partial failure; timeouts | only confirmed listeners change; error messages tell the truth; nothing published is forgotten; the plan converges |
| Private Edge with Caddy (the same, `runtime/caddy-runtime.ts`, `runtime/tailscale-runtime.ts`) | Caddyfile, Serve JSON, two backups, runtime ownership record, two Compose services | apply, roll back, reconcile, restore | a transaction over files, services and records without a log; crashes; failing rollbacks | the user's own files are always recoverable; rollback restores; only own services are stopped; a restart changes nothing |
| Task execution, PM2 replacement (`tasks/executor.ts`, `runtime/pm2.ts`) | none of its own; PM2's table, its saved list, the processes | start, stop, restart, recreate over Docker, PM2, Task; save and resurrect the list | an entry is deleted, its tree stopped and the service started anew in several commands; pids are reused; dependencies form diamonds and cycles | dependencies first and once; nothing of the old tree survives a replacement; foreign processes are spared; the saved list is current |
| Workspace state (`state/workspace-state.ts`) | `.locallink/workspace-state.json`, and in every process a copy in memory and a temporary file | load, update | several processes write one file, each from its own memory; a broken file loads as the default; crashes between open, write and rename | the file is whole, and changes only by an answer |
| Ports (`ports/allocator.ts`, `app-context.ts`) | loopback servers, reservations in the state | find, reserve, release, reclaim at start | find, bind and record are separate awaits; other programs bind ports; every command reclaims too; ids are times | what is held is recorded; what is reserved is held |
| Application context (`app-context.ts`, `cli.ts`, `workspace/identity.ts`) | watcher, debounce timer, reload in flight, runtime descriptor, responders, log tails | serve, auto-reload, attach and detach logs, close | a debounced reload races edits and close; a crash leaves the descriptor, and commands and dashboards read and remove it side by side | every change is reloaded; the descriptor names no dashboard that was shut down, and no dead one for long |
| Log broker and stream (`logs/broker.ts`, `http/server.ts`, `app-context.ts`) | bounded history, subscribers, tails | append, subscribe, list, attach, detach | streams open and close while others await | no line lost or doubled for a subscriber; a live stream is fed |
| mDNS discovery (`runtime/mdns-discovery.ts`) | responder, probes | start, probe, stop | stop while starting | stopped with the dashboard |
| Safe stop (`runtime/resources.ts`, the dialog of `frontend/src/App.tsx`) | dialog, review, requests in flight | open, review, confirm, terminate by identity token | answers come late and to another dialog; pids change hands | only what was reviewed is signalled |
| Access profiles (`runtime/access-profiles.ts`, `runtime/caddy-runtime.ts`, `app-context.ts` 427-471) | managed blocks of the Caddyfile | plan, compose, validate, write, reload, restore | shares the Caddyfile with Private Edge; each step may fail | the routes of the last application stay, and no others; the rest of the file stays |
| Configuration files (`config/files.ts`) | `.env`, services, Compose, extensions and ecosystem files; `process.env` | hydrate, load, patch, write | `process.env` is fed from `.env` and overrides it; repeated lines; read-modify-write without a lock | what was last written is what is loaded |
| Observability (`extensions/observability-planner.ts`, `runtime/openobserve-runtime.ts`, `runtime/otel-collector-runtime.ts`), Identity (`extensions/identity-planner.ts`, `runtime/pocket-id-runtime.ts`) | files, containers, stored data, records | plan, apply, verify | an application of many steps ends after any of them and is asked for again; containers run what they read when started | data is never locked out; what is written runs; applying is complete; plan and report agree |
| Reports, diagnostics, MCP and CLI dispatch, rest of the console, certificates, scaffolding | none that others rely on | derive and present | none | |

How they interact: HTTP, MCP and the command line are thin and call `AppContext`,
which calls the planners and executors; nothing serializes two requests, so every
await of one is a place where the other runs. The planners and the executor share
the workspace state file, the configuration files and the external tools. The PM2
lock is the only mutual exclusion in the program, and the only protocol between
processes. Confirmation tokens (hashes of the plan) are what stands between
a stale preview and an action.

## 2. Modules

| Module | What it is |
|---|---|
| `Pm2WorkspaceLock` | `acquireWorkspaceLock` and its release, one action per await |
| `Pm2Workspace` | `withPm2WorkspaceLock`: extends the lock with inspection, refusals, the PM2 command and the daemon |
| `DaemonGuard` | abstract specification: what the two together promise, and `TaskExecutor` keeps |
| `Pm2WorkspaceProofs` | proofs about the three |
| `PrivateEdgeRoutes` | plan, confirm, apply, roll back, reconcile and restore for `tailscale-serve`, several attempts in flight |
| `PrivateEdgeRoutesProofs` | proofs about it |
| `PrivateEdgeCaddy` | the transaction of the `tailscale-caddy` adapter over files, services and records |
| `PrivateEdgeCaddyProofs` | proofs about it |
| `ProcessTree` | external: processes, pids that are reused, forks; and `captureProcessTree` and signalling over them |
| `TaskExecutor` | requests for lifecycle actions, on top of `ProcessTree`; the PM2 lock taken as `Pm2Workspace` proves it |
| `SafeStop` | the dialog that stops a process, the review and `terminateProcess` |
| `ConfigFiles` | hydration, loading and patching of configuration files |
| `AccessProfiles` | `applyAccessProfileCaddy`, with Private Edge and the user on the same file |
| `WorkspaceState` | `WorkspaceStateRepository` over inodes |
| `DurableState` | abstract specification of it: a file several processes share, last writer wins |
| `PortReservations` | `PortAllocator` and the reservations of `AppContext` |
| `RuntimeDescriptor` | `.locallink/runtime.json` among commands, dashboards, kills and reused pids |
| `Dashboard` | `runServe`, the watcher with its debounced reload, discovery at start and stop |
| `LiveLogs` | `LogBroker`, the stream handler and the tails |
| `ObservabilityInstall` | plan, apply and lifecycle report of OpenObserve and the OpenTelemetry Collector |
| `IdentityInstall` | plan and apply of Pocket ID |
| `TaskExecutorProofs`, `SafeStopProofs` | proofs about the module each is named after |
| `WorkspaceFilesProofs` | proofs about `AccessProfiles` and `ConfigFiles` |
| `ControlPlaneProofs` | proofs about `WorkspaceState`, `PortReservations`, `RuntimeDescriptor` and `LiveLogs`, part by part |
| `InstallProofs` | proofs about `IdentityInstall` and `ObservabilityInstall` |
| `MCControlPlane`, `MCRequests`, `MCLiveness` | the parts of the control plane, those of the requests that act on the host, and the lock and the dashboard, side by side: a variable `part` picks in the initial state the one that runs, so that state spaces add up; parts share no state |
| other `MC...` | constants, symmetry and restricted initial states for TLC |

Definitions named in a comment as "a mutant" are deliberately wrong variants of the
definition below them; no specification uses them. Each shows that the property
it belongs to is able to fail.

### The PM2 lock: `Pm2WorkspaceLock`, `Pm2Workspace`, `DaemonGuard`

`dir`, `owner` and `age` are the lock directory, the pid in its `owner.json` and the
time since its mtime; `pc` is where each call stands between two awaits of the retry loop at
213-251, `seen` the owner it read at 229, `waited` the time since `startedAt`. `Mkdir`,
`WriteOwner`, `ReadOwner`, `Judge` and `RemoveStale` are the awaits of one turn in their order; `Judge`
tests staleness before the timeout as the code does (236-248) and needs
nothing but what `ReadOwner` saw and the directory's age now. `Release` is the
`finally` at 312: it does not check whose directory it removes. `Die` ends a process
with all of its calls. Time is in ticks; only the order
LOCK_TIMEOUT_MS < STALE_LOCK_MS matters.

`Pm2Workspace` adds what a holder does: `Inspect` (52-205 and the four ways out at
266-292), `Ping`/`DaemonUp` (the PM2 command, external: it launches a daemon if nobody
answers, and outlives its caller), `Cut` (its timeout kills it while the daemon it was launching may still come up, as `OrphanUp`), `Recheck` (293-311) and `Return`. `DaemonExits`,
`DaemonHangs` and `UserCleans` are the world; a daemon may hang at any moment, also between an inspection and the command that relies on it. `strained` is a history variable: it is set when a daemon hangs
between a holder's inspection and its ping, or when a command ends with its launch under way, and cleared (`Settle`) when no such launch is left and all holders' inspections stand again.
`DaemonGuard` forgets all of it but who is inside, how many daemons run and the strain; `GuardSpec` in `Pm2Workspace` is the refinement. `TaskExecutor`, which takes the lock as one step, refines the same
specification from the side of its callers (`TasksKeepGuard`), so the two models fit together at `DaemonGuard`.

### Routes: `PrivateEdgeRoutes`

`live` is what each listener targets and `hand` who changed it last (a ghost of the
model); `owned` the ownership records, `selected`/`declared` the configuration. An
attempt goes `PreviewRoutes` → `ApplyRoutes` (plan again, compare tokens) → one
`Publish` per route → `Verify` → `Record`, or on any failure `Rollback`/`Undo` per route →
`RolledBack`. Reconciliation is `PreviewRemovals` → `ReconcileRoutes` → `Remove` per route →
`Check` → `Forget`, or `Restore`/`Redo` → `Restored`. `Rollback` and `Restore` look at the listener, `Undo` and
`Redo` act on it one await later. The look passes the listener's port as the start of generated ports (planner.ts:753, :1194), and network-edge.ts:285-289 drops one outside 1024..65500: then
some other port is looked at, and what it shows says nothing of the listener (`Inspected`). `Inspectable` are the services whose port is in that range. `result` is the claim made by the error message.
`Faults` says what may go wrong besides a failing command: tailscale going
offline, a failing `serve status` (which the code reads as an empty configuration), a command
that times out after taking effect, another user of the CLI, a crash.

### The Caddy transaction: `PrivateEdgeCaddy`

`file`, `backup` and `running` hold, for Caddy and for the Tailscale sidecar, the configuration
file (user's text, our routes, blocks of access profiles), its backup, and whether the
service is up; `live` is what Tailscale serves and `loaded` what Caddy runs. `runtime` is the
`privateEdgeRuntime` record. The actions follow the code line by line: `Validate`, `Backup`,
`Own`, `WriteConfig`, `Start`, `Reload`, `Publish`, `Verify`, `Record`, `Activate`; the catch block
`Unpublish`, `PutBack`, `BringBack`, `Settle`, `Blame`; and for `reconcileRoutes` those prefixed `r-` in `at`.
A failing command leaves its effect out; a failing rollback command sets
`broken`. `starter` (who started a service) and `clean` (no crash and no failing
rollback so far) are ghosts. With `Watched` a running sidecar serves a written
configuration at once, as README.md:258 recommends it to be mounted.

### Tasks: `ProcessTree`, `TaskExecutor`

`stack` holds the activations of `executeResolved` and `completed` its set `started`; `Resolve` takes the next
dependency or goes on to `Preflight` and the command. A PM2 replacement is `Lock`, `Inspect`, `List`, `Capture`, `Delete`,
`Signal` per process of `captured` (SIGTERM, later SIGKILL), `CleanupDone`, `Launch`, `Verify`, and the release; then `SaveLock` and
`Save` in a second holding. `Resurrect` launches the daemon if there is none and then restores the saved entries one at a time. A process is its pid and a start time (`startOf`), because pids are reused; `ForeignStarts` reuses those a request holds on to (`Watched`): what it has captured, and, between `List` and `Capture`, the pid that `pm2 jlist` gave it. Foreign processes fork too.
An identity is looked up just before each signal, and the model takes the two as one step.
Docker, Task and PM2 commands are external: they succeed, fail, or have part of their effect.

### Stopping a process: `SafeStop`

`killTarget` and `killReview` are the dialog's two states in `App.tsx`, `calls` the requests without an answer. Every answer sets whatever
dialog is open; `CallEnds` is the `finally`. `ReusedInBetween` says whether a pid may go to another program between
the `ps` and the kill of one `terminateProcess` (resources.ts:432-441). The run and the theorem have it `FALSE`: the system would have to go through all pids in that time.

### Configuration: `ConfigFiles`, `AccessProfiles`

`ConfigFiles`: `envLines` gives for each variable the values of its lines in `.env`, in order (a variable may be repeated, and no operation of the code
relates the lines of two variables), `docs` what the other files say of a service; `processEnv` and `hydrated` are `process.env` and
`HYDRATED_PROCESS_ENV`, `exported` what the process started with. A write is two actions, since the file is read and written in two awaits.
`LoadProjectModel` is compared with the model of what was asked for (`requested`): the user's edits and the answered writes.
Values in `Escaped` come back with their escapes (`ReadBack`), as the code escapes quotes but does not unescape, and `WrittenIsLoaded` says so.

`AccessProfiles`: `PlanAccess`, `ReadCaddyfile`, `ValidateAccess`, `WriteCaddyfile`, `ReloadCaddy` and `RestoreCaddyfile` are the awaits of
`applyAccessProfileCaddy`. Private Edge's transaction, detailed in `PrivateEdgeCaddy`, is one step here (`EdgeApplies`, `EdgeRemoves`).

### State, ports, dashboard, logs

`WorkspaceState` has inodes: the rename of one update moves the inode another update of the process may be writing to. Every process has its own `memory` and temporary file (`tmpNode`), and
all write one state file; a state is the set of patches in it.
`DurableState` has the state of each process, what a load has read, what a reader of the file would find, and which updates were answered; `StateIsDurable` maps the memories, `loading`, the patches of the file's inode and the
updates at `ok` to them. It does not promise that an answered update stays: a process with an older memory takes it out with its own next answer, as the code does.
`PortReservations` has `held` (the dashboard's servers), `taken` (bound by other programs and other processes of LocalLink), the records in memory and in the file, each with id, port and status, and `clock`, which makes the ids (app-context.ts:630).
`OtherProcessStarts` is a command that initializes over the same file and marks the dashboard's ports in conflict.
`RuntimeDescriptor` has one LocalLink process per pid in `phase`, of any command, and follows `clearStaleRuntimeBinding`, `recordRuntimeBinding` and `clearRuntimeBinding` one await at a time; `foreign` are pids
that went to other programs, which `Alive` takes for live as `process.kill(pid, 0)` does. `stale` marks the processes that began when the file named a dead pid that is still dead. `Dashboard` follows `runServe`
in `serve`, and the flags of the auto-reload (`enabled`, `pending`, `timer`, `flight`) one await at a time; `version` counts changes of the
watched files and `reloaded` is what the last finished reload had read. `LiveLogs` numbers the entries; `at` is where the
handler of each stream is in `attachLiveLogs`, its sending of what is kept, and `detachLiveLogs`; a tail may end by itself, which leaves `docker` set (`ended`).

### Installations: `ObservabilityInstall`, `IdentityInstall`

Each is one application at a time that fails or ends after any of its writes and commands and is asked for again. `running` and `loaded`
(`pocketRuns`) are what docker has started and with what, as opposed to what the files say now; `account` and `dataKey`
are what the stored data was created with. `noted` and `found` are what the application read when it began. The user edits between applications.
A service has an id, and a route is recorded under one (`capability.owned`); `loaded["collector"]` has the configuration, the contract of docker-compose.yml and the key. `cut` says that an application was cut off between the write of the collector's file and its restart.
The key of Pocket ID is in `.env`, in a file of the user's or in LocalLink's (`pocket.byEnv`, `pocket.file`); `moved` says that it was taken away from the data.
`Literal` says whether an existing Pocket ID may have its issuer in docker-compose.yml itself.

## 3. Runs

| Run | Instance | Shows |
|---|---|---|
| `pm2_workspace` | 3 calls in 2 processes, 2 of them spawners; at most 2 daemons and launches | `MutualExclusion`, `SingleDaemon` and the refinement `GuardSpec`, processes ending quietly |
| `liveness` | the lock: 3 calls in 2 processes that may end at any await; the dashboard | `RequestSettles`: every wait ends in the lock, the timeout or the caller's end; `AbandonedLockRecovered`; `ChangeIsReloaded` |
| `pm2_lock_exit` (violation) | 3 processes | `MutualExclusion` fails once a process may end right after its release |
| `edge_routes_single` | 2 services, one of them on a port the re-checks reject, 1 attempt after another, offline probes, foreign changes | `FailureReport`, `AllAccounted`, `Converges` |
| `edge_routes_concurrent` | the same services, 2 attempts in flight, crashes, edits | `FailureReport`, `OnlyConfirmedListeners` |
| `edge_routes_late` (violation) | 1 attempt, late commands | `FailureReport` fails |
| `edge_routes_changed` (violation) | 1 attempt, foreign changes | `NeverDeletesChanged` fails |
| `edge_caddy` | 2 services, 3 attempts, crash, user stops | `Recoverable`, `RestartSafe`, `Restored`, `StopsOnlyOwn`; about 3 million states, the largest run |
| `edge_caddy_partial` (violation) | 2 attempts, no fault at all | `ReconcileOnlyRemoves` fails |
| `control_plane` | six parts, see Bounds | the properties of the six modules it extends; 12 of them |
| `identity_issuer` (violation) | an existing service with a literal issuer | `AppliedIssuerIsKept` fails |
| `requests` | four parts, see Bounds | the properties of the four modules it extends; 8 of them |

What the properties say:

- `MutualExclusion`: at most one call is between its mkdir and its release.
- `SingleDaemon`: a `PM2_HOME` has two daemons only in a strain (a hang between an inspection and the command after it, a command cut off while it launches); nothing else the lock, waiters, refusals, users and daemons do leads there,
  and after the strain the promise holds again.
- `FailureReport`: when an error says that every created route was rolled back (every
  removed one restored), each listener that this attempt was the last to change, and whose port the re-checks accept, is gone (is back).
- `AllAccounted`: a listener LocalLink published on a port the re-checks accept and nobody changed since is recorded or
  in the hands of an attempt in flight.
- `OnlyConfirmedListeners`: an attempt changes no listener outside the plan that was confirmed.
- `Converges`: once nothing goes wrong any more, following the plan leads to every selected
  route live and no stale record, unless a conflict is left to the user.
- `Recoverable`: whenever the process ends, a file with our routes in it has a record
  and a backup, and the backup is free of our routes.
- `Restored`: a failure that reports no failing rollback has left files, services and record
  as they were. (An absent file may come back empty: the reconciliation restores it as `''`.)
- `StopsOnlyOwn`: LocalLink stops a service only if it was LocalLink that started it.
- `RestartSafe`: between attempts, an owned live route is in both files and Caddy runs what its
  file says, so restarting either service changes nothing.

- `DependenciesFirst`: the command of a service runs after all it needs, directly or not, was started by the same request, and once; none on a cycle is started.
- `ObsoleteTreeGone`, `ForeignSpared`: a replacement is launched when nothing captured of the old tree runs; stopping that tree ends no foreign process, unless the pid that PM2 listed was itself a stranger's when its tree was captured (`TakenOver`).
- `TasksKeepGuard`: requests are under the workspace lock one at a time, and only the one under it launches the PM2 daemon, when none runs.
- `SavedListCurrent`: when all requests have answered ok, PM2's saved list is what is registered, although each saves in a second holding of the lock.
- `TerminatedIsReviewed`: only the process and program whose review was confirmed is signalled.
- `WrittenIsLoaded`: the model loaded is always that of the last edit or answered write of each variable and field, under the exported environment where that is to override.
  The one exception is an app that refers to a variable no longer in `.env`: `process.env` may still hold what was hydrated from it.
- `AccessRoutesKept`: between applications the Caddyfile has the routes of the last answered one, Private Edge's block and the user's text, and Caddy serves nothing else.
- `StateIsDurable`: what a reader finds in the file changes only by the answer to an update, to the
  whole state of the process that answers, as it is then (so it is never a truncated file, nor a state nobody asked for, nor what a process that ended was writing); loads and new processes go on from it.
- `HeldIsRecorded`, `ReservedIsHeld`: the two directions between bound ports and reservations. What the dashboard holds has a record that was not released (another process may have marked it in conflict), unless two
  records share an id; what its memory calls reserved is bound, unless two records share a port.
- `DescriptorIsTruthful`: a dashboard that was shut down is not named, whatever others did between its awaits, and a command that began with a dead pid in the descriptor has it gone when it has initialized.
- `ChangeIsReloaded` (liveness): a change of the configuration, whenever it comes, is read by a reload that ends, unless the watcher is stopped.
- `StreamIsUnbroken`, `LiveStreamIsFed`: a client is sent one unbroken run of entries up to the newest, and the docker tail runs while it is served, until it ends by itself.
- `AccountIsKept`: a password that opens the stored data is never replaced. `WhatIsWrittenRuns`: after a successful application the containers run on what the files say, the collector's
  with the configuration, contract and key, unless an earlier application was cut off before its restart (`cut`).
  `AppliedPlanIsComplete`: a plan after it has nothing to apply, unless a live route belongs to a service of another id. `ReportsAgree`: once the route is recorded, the plan calls nothing healthy that the lifecycle report does not.
- `KeyOpensData`: Pocket ID is never given a key that does not open its data, until the key is taken away from it (`moved`). `IssuerIsKept`: no step changes a valid issuer in `.env`.

### Disagreements found

1. **`edge_caddy_partial`**: a reconciliation confirmed for removals publishes other services. The Serve
   configuration it writes (planner.ts:1042-1047) has every planned route that is not removed, the
   ones never applied included, and a watching sidecar serves it at once: without the route token, and
   without an ownership record. README.md:347 says "Remove only deselected listeners".
2. **`edge_routes_late`**: a `tailscale serve` that times out after taking effect is no rollback
   candidate; the error still says that every route was rolled back.
3. **`edge_routes_changed`**: removals are not looked at again before each `off`; a listener changed meanwhile is deleted,
   against README.md:389 "never deletes changed listeners".
4. **`pm2_lock_exit`**: a waiter judges a pid that it read before an await. If its owner has released the lock and
   exited, and another caller has entered, the waiter removes the new holder's directory.

5. **`identity_issuer`**: a Pocket ID service with a literal `APP_URL` that is not selected for the edge has no route to compare its issuer with;
   the patch replaces the literal by a variable and apply writes the new route's URL there. docs/product-goal.md:93 says the installer
   "refuses to silently change an existing issuer".

The hazards of `PROJECT.json` list more that the models reach with another value of
`Faults` or `Deaths`, for which no run is kept: a reconciliation's late `compose up` (`"late"`), the plan of the
answer throwing after the backups are gone (`"plan"`), and a failing `docker compose ps` that
makes LocalLink stop a Caddy of the user's (`"probe"`). Likewise `Overlap = TRUE` (updates of the state in flight together lose one),
`"overlap"` and `"torn"` in `WriteFaults`, and `"edge"`, `"absent"` or a second applier in `AccessProfiles`: nothing in the code serializes these
requests, and no document says that it does.

Ten properties carry an exception, each for something the code does and no document denies; the property says what holds besides, and the hazard names the lines:

| Exception | What happens without it |
|---|---|
| `strained` (`SingleDaemon`) | PM2 takes a daemon that hangs after its inspection for dead and launches another; a command killed by its timeout (executor.ts:269) gives the lock back and its daemon comes up later |
| `Inspectable` (`FailureReport`, `AllAccounted`) | a listener on 443 is not looked at by the rollback: it stays published and unrecorded, and the error says that it was rolled back |
| shared ids (`HeldIsRecorded`) | a release closes one of two ports and marks both records, so the other stays bound until a restart |
| `ended` (`LiveStreamIsFed`) | a docker tail that ended with its containers is not started again while a client is connected |
| `cut`, ids, `Recorded`, `moved` (the installations) | a container stays on an old configuration, contract or key; an adoption stays pending for ever; plan and report differ about a live route not yet recorded; a user's key file is replaced by a name without a file, then by a new key |
| `TakenOver` (`ForeignSpared`) | a pid that changes hands between `pm2 jlist` and the capture has its new owner's tree signalled |

### Bounds

- Three calls are the fewest at which the lock can go wrong (one that exits, one that judges it,
  one that enters); two processes give both sharing and competition.
- `LockTimeout = 1`, `StaleAfter = 2`: the order of the two is what the protocol uses. Ages are capped one above `StaleAfter`.
- Two services tell "some succeeded, some not" apart from all and none, and selected from owned. They are
  interchangeable, hence the symmetry (never in a run with a liveness property).
- `MaxTries = 3`: the first application, one that meets its leftovers (its record, its backup, or a crash), and a
  reconciliation that meets both. A behaviour has at most one crash or failing rollback followed by a crash (`clean`).
- The selection is edited where the code reads it (between attempts, and before the two verifying plans). An edit elsewhere
  is the same as one right before the next read.
- `edge_caddy` starts with both services in the same state and both files there or not (`MCInit`). `Sidecar = FALSE` (a
  host Tailscale) and `Watched = FALSE` (a file bind) are constants of the module for the other supported topologies.
- `pm2_workspace`: `MaxDaemons = 2` daemons and launches under way: a second is what must not come up. After a strain a third
  could; the proof has any number.
- `liveness`. The lock as above, with any crash. Dashboard: 3 changes (before, during and as a reload ends), any number of starts, 2 services.
- `control_plane`. State: 3 updates spread over 2 processes in any way, 2 loads, 1 crash: one process overwrites the other's answer, before and after the other has loaded. Ports: 3 requests, 2 ports, 2
  starts of the dashboard, 1 foreign program or other process: two can want one port, share an id, or be marked by the other process. Descriptor: 3 pids, each started, killed and reused without bound: two commands that find a dead pid and a dashboard between them.
  Logs: 2 streams, 4 lines, 3 kept, 2 listed: eviction, and one stream leaving while the other attaches. Observability: 3
  applications, 1 edit or stopped container. Identity: 2 URLs, 2 applications, 3 changes by the user or the surroundings. About 1.2 million states in two minutes.
- `requests`. Tasks: 2 requests of each kind that matters over 2 PM2 services with crossed names and a Docker service, 3 pids each started at most 3 times (`MaxStart`), foreign programs among them (1.7 million states),
  `Attempts = 2` for the readiness loops (50 in the code). Safe stop: 3 pids of which 1 protected, 2 programs, 3 requests (a review, a confirmation, and one that disturbs), 3 events of
  processes (end, reuse, a minute of age). Configuration: 2 variables, one of them exported or none, 3 values of which one does not survive quoting, 2 writes, 1 edit of the user, which may leave a
  variable with 2 lines. Access: 2
  endpoints, 2 ports, 2 declarations, 2 applications by one applier.
- Deadlock checking is off where the system may stop: all calls idle or dead in the lock runs, `MaxTries` reached in the Caddy runs.

### Fairness

- `LockFairness`: each call's steps are weakly fair: Node runs every pending continuation, and no step of one call disables
  the step of another. `Release` is weakly fair since every guarded command has a timeout. `Tick` is strongly fair: time
  goes on, and `Prompt` (two awaits in a row take less than the two minutes of STALE_LOCK_MS) disables it now and then.
  `AbandonedLockRecovered` also needs somebody to ask (`Request` weakly fair): the dashboard polls.
- `Fairness` of the routes: attempts go on to their end (every command has a timeout); previews are strongly fair, as an
  attempt of someone else disables them for a while: the user keeps following the plan. `calm`
  says that from some point on no fault and no foreign change happens; `Converges` promises nothing before.

- `DashFairness`: the event loop runs what is pending, timers fire and `fs.watch` reports a change (weak fairness of each step of the
  reload). Signals, crashes, changes and failures of the watcher are never obliged to happen.

## 4. Proofs

For every value of the constants:

| Theorem | Statement |
|---|---|
| `TypeCorrect` (routes and Caddy; the workspace has one too) | the type invariants |
| `LockMutualExclusion` | `Deaths = "quiet" => (LockSpec => []MutualExclusion)` |
| `OneDaemonPerHome` | `Deaths = "quiet" => (Spec => []SingleDaemon)` |
| `WorkspaceImplementsGuard` | `Deaths = "quiet" => (Spec => GuardSpec)` |
| `ReportsAreTrue` | `Truthful => (Spec => []FailureReport)` |
| `OnlyConfirmedChange` | `Spec => OnlyConfirmedListeners` |
| `PublishedIsAccounted` | `Reliable`, one attempt at a time: `Spec => []AllAccounted` |
| `FilesAreRecoverable` | `"plan" \notin Faults => (Spec => []Recoverable)` |
| `OnlyOwnIsStopped` | `"probe" \notin Faults => (Spec => StopsOnlyOwn)` |
| `FailuresAreRestored` | `{"late", "probe"} \cap Faults = {} => (Spec => Restored)` |
| `RestartsChangeNothing` | `"probe" \notin Faults => (Spec => []RestartSafe)` |
| `DependenciesComeFirst`, `ReplacedTreeIsGone`, `ListIsSaved` | `Spec => []DependenciesFirst`, the same for `ObsoleteTreeGone` and `SavedListCurrent` |
| `OthersAreSpared`, `TasksKeepTheGuard` | `Spec => ForeignSpared`, `Spec => TasksKeepGuard` |
| `RoutesAreKept` | `AccessFaults \cap {"edge", "absent"} = {}`, one applier: `AccessSpec => []AccessRoutesKept` |
| `LoadsWhatWasWritten` | `WriteFaults = {} /\ ConfigSpec => []WrittenIsLoaded` |
| `DescriptorCorrect` | `DescriptorSpec => []DescriptorIsTruthful` |
| `NoServerOutlivesItsRecord`, `ReservationsAreHeld` | `PortSpec => []HeldIsRecorded`, `PortSpec => []ReservedIsHeld` |
| `OnlyReviewedTerminated` | `~ReusedInBetween => (StopSpec => []TerminatedIsReviewed)` |
| `StreamsAreUnbroken`, `LiveStreamsAreFed` | `LogSpec => []StreamIsUnbroken`, `LogSpec => []LiveStreamIsFed` |
| `StateImplementsDurable` | `~Overlap => (StateSpec => StateIsDurable)` |
| `DataIsNeverLockedOut` | `IdentitySpec => []KeyOpensData` |
| `IssuerStays` | `~Literal => (IdentitySpec => IssuerIsKept)` |
| `RootPasswordIsNeverReset` | `ObservabilitySpec => AccountIsKept` |
| `ChangedServicesAreRestarted`, `ApplyingIsIdempotent`, `PlanAndReportAgree` | `ObservabilitySpec => []WhatIsWrittenRuns`, the same for `AppliedPlanIsComplete` and `ReportsAgree` |

Assumptions. `LockAssumption` asks for `LockTimeout < StaleAfter` and `WorkspaceAssumption` for
spawners among the calls. `Deaths = "quiet"` says that a process ends only while it holds no lock and no waiter
has read its pid without having judged it; `pm2_lock_exit` shows that the second half is
needed. `Truthful` excludes late commands and failing `serve status` probes, and allows
crashes, offline probes and foreign changes; `edge_routes_late` shows that the first is needed. `Reliable` excludes crashes too, and one attempt
at a time is `Attempts = {a}`: a crash before the record (planner.ts:703) and a reconciliation next to an application (planner.ts:1113)
leave a published listener nobody accounts for. `OnlyConfirmedChange` needs none of this. The faults left out of the theorems about
`PrivateEdgeCaddy` are those under which the code does otherwise (planner.ts:1119, caddy-runtime.ts:160, listed as hazards); crashes, users stopping services and failing rollbacks are in all three.
Likewise for `RoutesAreKept`: Private Edge removing a Caddyfile it had generated, a Caddyfile missing at the start and two applications at once lose routes (planner.ts:1087, app-context.ts:461).
`WriteFaults = {}` excludes two writes at once and a write cut short in the middle of the file (files.ts:1306); a process that ends between its read and its write is in.
The theorems about `TaskExecutor`, `LiveLogs`, `PortReservations`, `RuntimeDescriptor`, `IdentityInstall` (but for `IssuerStays`) and `ObservabilityInstall` have no hypothesis beyond the types of the constants; the exceptions of the table above are in the
properties themselves, which name the states they leave out. The theorems about the workspace allow a daemon to hang and a command to be cut off at any moment, those about the routes any port: `Inspectable` is any set of services.

The lock (`LockInv`). Mutual exclusion is not inductive: one has to know that a directory always has a holder
(`DirectoryIsHeld`), that a holder's pid is in it and alive (`HolderIsRecorded`), and that no waiter is about to remove it (`NobodyRemoves`).
The last is the heart: a waiter removes a directory whose recorded owner is dead, which a quiet
process never is, or one with no readable pid that is older than `StaleAfter`. The second needs `OwnerlessIsYoung`: a waiter that read
no pid did so recently, which is where the assumption `Prompt` enters.

The workspace. `WorkspaceStepsAreLockSteps` lifts `LockInv` to the composition; `WorkspaceInv` adds that a caller is
past its inspection only inside the lock (`PhaseInsideLock`) and that, while nothing strains it, there is at most one daemon, no launch without its command, and what holders found still holds (`Calm`, with `InspectionStands`). A strain begins only
while somebody is inside, which `DaemonGuard` asks for (`StrainBegins`). The refinement
maps `inside` to the call that holds the lock, which is unique by `MutualExclusion`.

The routes (`ReportInv`). A claim is true when made because of `HandInv`: every listener an attempt was the last to change is
among the routes its commands succeeded for and, while it rolls back, is undone, still to do, in hand, or among the
failures that stop the claim from being made. Other attempts and the CLI's user take a listener out of its hand when they change it (`CommandFrame`).

Confirmed listeners (`PlannedInv`). What an attempt has to do, has done and has in hand is in the plan of its token, because `ApplyRoutes` and
`ReconcileRoutes` compare the token with the plan they have just made; before that it has nothing. What is published is on record (`Accounted`, by stage): before and after an attempt in the records;
while it publishes in the records or done; while it rolls back also undone, to do or among the failures; a reconciliation forgets
only routes it has found gone or has removed, so before `Forget` no published listener is in its plan.

The Caddy transaction. `Recoverable` is strengthened by stage (`RecoverInv`): what is recorded has a backup free of our routes (`RecordInv`); what the plan saw
was such a state, and files not written yet are as it saw them (`PlanInv`); from `own` to `settle` the record is there, and a part past `put back` holds the routes it held before (`ApplyInv`);
a reconciliation that writes anything found a record, and a final one clears it only when no file has routes (`RemovalInv`). `StopsOnlyOwn` (`OwnInv`) carries the ghost `starter` along:
what the record, the plan or the attempt itself calls started by LocalLink was, or is down. `Restored` (`RestoreInv`) compares each part with `before`, by how far the rollback has come to it: the files
(`FileInv`), the services (`ServiceInv`) and, where a part has been put back, both (`ClaimInv`), with an absent file and an empty one taken as the same after a reconciliation, as the code does.
`RestartSafe` (`RestInv`, as long as nothing was cut short) needs more than it says: between attempts every owned route, served or not, is in every file, since a sidecar that is started serves its whole file;
an attempt that is not at an end has written all that is to stay (`KeptInv`) or has put back what held all that is owned (`KnownInv`); the record is `active` or none, so no half-made attempt is adopted (`NamedInv`);
and Caddy proxies what its file says until the attempt writes that file, once it is reloaded, and once it is brought back (`LoadedInv`). A late effect and a throwing plan are covered; a failing probe is not: TLC
refutes it then, as a reconciliation reloads only a Caddy that `docker compose ps` has shown it.

Tasks (`ExecutorInv`). The stack of a request is a path of the dependency graph (`Path`): each activation below the top stands at the dependency above it, those before it are in `completed`, and `completed` is closed under
dependencies (`Closed`); a command runs for a top all of whose dependencies are done (`TopReady`), which is `DependenciesFirst`, cycles included: they never get that far. For the replacement, between `Capture` and `Launch`
everything captured of the tree that still runs is still to be signalled or waited for, and was captured with the start time it has now (`Replacement`); that is stable because a pid that is reused
gets a later start time (`ClockInv`) and a stranger's process is captured only where the listed pid was a stranger's: a process of PM2's has none among its children (`StrangersTree`, from `ClockInv`). Two requests do not disturb each other as the table is touched only under the lock (`LockInv`).
`SavedListCurrent` follows from `SavedInv`: where the saved list differs from the table, some request is past its command and before its save. `Tree` is defined as the smallest set closed under children, so that it can be reasoned about without induction (`TreeMembers`).

The guard (`TasksKeepTheGuard`). A step takes a free lock, gives back its own or leaves it (`LockChanges`), because whoever is at a guarded step holds it (`HoldsLock`); only `Inspect` and `Resurrect`
launch the daemon, and both are guarded (`Launching`).

Configuration (`ConfigInv`). Every line of a variable is read as what was asked for it last, escaped or not (`AskedInv`); the one write in flight puts down its patch over what the files say, as nothing
else changes them meanwhile (`WritingInv`); and a variable of `process.env` is either exported, never hydrated, or equal to what was hydrated (`HydratedInv`), so `MergeRuntimeEnv` takes no stale
value of `.env` for one the process was given (`EnvIsAsked`). `PatchedEnv` is the lemma about the text: a patch sets every line of its variables, so the last one, which counts, is the new value.

Access profiles (`AccessInv`). By stage, what has been composed, what the file holds and what it held before (`FileKept`), and that Caddy serves what was last loaded into it.

Logs (`StreamInv`, `FeedInv`). What is kept are the newest entries, newest first, and what a listener was sent counts up to the newest; the subscribers are
as many as the handlers between attach and detach, those that missed the close included, so the last `Detach` leaves no handler that relies on the tail. A docker tail that is set runs or has ended.

Observability (`ObsInv`). By stage, which files an application has written and how they compare with what it planned (`FileStages`), and which containers still run what was loaded before (`DockerStages`). For the collector (`CollectorInv`): where its file is the current one and no application was cut off, a container that runs was started
from all that the files say, save between the writes of the application in flight and its restart.

The descriptor (`DescriptorInv`). While a process is in `stale` the descriptor names a dead pid, so the process that has read it has read that one, finds it dead and removes the file; whatever gives the
descriptor another pid, or life to that one, empties `stale`. A dashboard that closes reads its own pid or one that others have put there since, and only it can record its own.

The ports (`PortInv`). `ReservedIsHeld` is not inductive: a port about to be recorded may be released for another record
that names it (`Binds`, `Keeps`). A record is written once and keeps id and port (`Settled`), the file says what memory says or that the port is in conflict (`Agrees`), and no request is between binding and
recording while reservations are reclaimed (`Waits`), so that a restart meets no half-made reservation. For the other direction every bound port has its record or its request (`Owned`).

Safe stop (`StopInv`). What a confirmed request has found still runs under its pid or has ended (`FoundIsCurrent`); comparing what was found with the
token then makes the signal hit what was reviewed, whichever dialog the token came from. `~ReusedInBetween` is used in one place: a program that starts under a free pid.

The state file (`StateInv`). At most one update of a process flies (`Alone`, from `~Overlap`); its text is what the memory of that process is, and its temporary inode is neither the state file's nor another process's (`Flies`, `Apart`).
Its steps are steps of `DurableState`: `BeginUpdate` is `Ask`, the rename is `Persist`, a load is `Look` and then `TakeIn`, a crash is `Start`, and all that happens to a temporary inode is a stutter, since a reader does not see it.

Pocket ID (`KeyInv`). Until the key is moved, a key in `.env` and a file of LocalLink's exclude each other, because a file is made only for want of that key;
data not created with a key of the user's was created with the file's, and a file the user mounts stays mounted (`KeyInPlace`). `IssuerStays` rests on every issuer being in `.env` (`EnvIssuer`), which `~Literal` starts and every patch keeps.

Only model-checked: the liveness properties (`RequestSettles`, `AbandonedLockRecovered`, `Converges`, `ChangeIsReloaded`), as liveness
under fairness is out of the prover's reach. Every other property of a passing run is a theorem.
The proof modules reach no RECURSIVE operator.

## 5. What is not modelled

- In the modelled components: the derivation of listener ports and proxy ports, the parsing of tailscale and docker output, the
  detection of the Compose topology, and the wording of plans. `PrivateEdgeRoutes` has one listener per service.
  `PrivateEdgeCaddy` runs one attempt at a time, and nobody else uses its listeners (both are in `PrivateEdgeRoutes`); the user edits no file during or
  between attempts, and starts no service again that they stopped: `startedByLocalLink` would not notice.
- `TaskExecutor`: ports being open, the choice of a Task name, the text of results; a command's outcome stands for them. `SafeStop`: resource
  snapshots and pressure samples, which are read-only. `ConfigFiles`: metadata of services and the registry of MCP servers, which decide nothing in the file's code. `AccessProfiles`: a Caddy without a
  mount, refused before anything is written. `PortReservations`: `buildRecentEntries`, a list for display. `Dashboard`: the reload itself, which is `PrivateEdgeRoutes`; the contents of announcements.
  `ObservabilityInstall`, `IdentityInstall`: ports, paths and the text of generated configuration; the OIDC check of a service, a probe.
- Pids are not reused between the check and the signal of one process; the lock knows a process by its pid, and a reused one would make a dead owner look alive until its directory is removed by hand (pm2-workspace.ts:32).
  A user who runs `pm2` by hand is outside the lock. The user edits configuration between applications, not within one, and leaves the collector's service in docker-compose.yml alone.
- A load of configuration files while another request is in the middle of writing one: `fs.writeFile` truncates in place, so it may read an empty or partial file (files.ts:1306); in `ConfigFiles` a write of a file is one step unless `"torn"` is in `WriteFaults`.
- Certificates, mDNS encoding, scaffolding, skill installation, the runtime snapshot, most of the reports and the console: they derive, generate or present, and keep no
  state whose interleavings matter. HTTP, MCP and command line dispatch: its concurrency is in the models as several requests in flight.

## 6. Plan

What remains, in this order:

1. Proofs: in `PrivateEdgeRoutes`, what is published when several attempts run, as far as it holds.
2. Recovery: a liveness statement that a workspace whose application crashed can be brought back to the user's own files.
3. The pure parts as operators against reference definitions: derivation and reuse of listener ports (planner.ts 375-526), merging and removal of managed blocks in full.
