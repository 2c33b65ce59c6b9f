# DevWebUI in TLA+

DevWebUI is a daemon (Bun/TypeScript) that starts, stops, restarts and watches the
development servers declared in a project's `.devwebui` file, with a web GUI, an MCP
server and a CLI in front of it and a tray host (Rust) around it. This directory
holds a TLA+ model of the program, the TLC runs that check small instances of it, and
proofs checked by TLAPS of what holds for every instance.

Paths below are relative to the repository (`src/` here).

## 1. The system

### Components

| component | source | state it keeps | operations |
|---|---|---|---|
| process lifecycle | `server/src/manager/lifecycle.ts`, `base.ts`, `types.ts` | one `Entry` per process: status, child, pid, stopping, pendingStart, stopTimer, generation, exit waiters; the stagger queue | start, stop, restart, restartRunning, startMany, startWithLinks, stopWithLinks, freeProcessPort, discardEntry; child and timer callbacks |
| compose stacks | `lifecycle.ts:450-519`, `manager/compose.ts` | per stack: users, services started, stop-on-release; the `docker compose` calls in flight | prepareCompose, holdCompose, releaseCompose, stopAll; `up`, health and port waits, the connection env |
| dependency order, linked groups | `wait-for-port.ts`, `links.ts` | none (pure) | orderByDependency, linkedGroupIds, coStartIds |
| projects | `manager/projects.ts`, `state.ts`, the registry | projects, their process ids, definitions, toggles, what is registered on disk | addProject, reconcileProject, removeProject, toggles, the boot loop, safe mode |
| project watching | `project-watch.ts` | last applied text, stamps, debounce timers, directory watchers | sync, poll, schedule, reload |
| project files | `projects/file-store.ts`, `ProcessForm.vue` | the `.devwebui` files | add, update, remove, star, meta |
| monitoring, alerts | `manager/monitoring.ts`, `alerts.ts`, `metrics.ts` | samples, CPU history, breach windows, rules, events | pollMetrics, evaluate, rule edits, sampling |
| error log | `errors.ts` | fingerprint map, active flags | record, clear, dismiss, list, save |
| logs | `log-buffer.ts`, `log-vault.ts`, `log-file.mjs` | ring, write buffer, rotated files | push, flush, rotate, read, delete |
| prompt answers | `prompt-answers.ts` | which rules fired, pending text | feed |
| browser bridge | `browser-bridge.ts`, `http/browser-routes.ts` | tabs (32), pending requests | connect, disconnect, request, reply, timeout |
| pairing | `local-auth.ts` | pending pairings, failures, clients, tickets, the cookie file | start, complete, revoke, mint, consume |
| boot and handover | `index.ts`, `instance*.ts`, `single-instance.ts`, `crash-sentinel.ts`, `cli.ts` | run files, pointer file, the port, `boot.lock` | boot, shutdown, relaunch, safe mode, shared boot |
| auto update, updater engine | `auto-update.ts`, `updater-engine*.mjs`, `github-updater.ts` | timer, ticking, applying; the checkout or the executable | tick, toggles; check, apply, roll back; download, verify, swap |
| tray host, watchdog | `misc/tray-host-native/src/`, `tray-bootstrap.mjs` | the child, the mutex, the icon; misses, revive times, pause | start, restart, revive, quit; tick, rearm |
| settings sync | `connections.ts`, `http/connections-routes.ts` | the sign-in, an engine, the account's document | enable, disable, forget, push, pull |
| requests | `shared/routes.ts`, `http/`, `mcp.ts`, `mcp-stdio.mjs`, `cli.ts`, `http/port-proxy.ts` | requests and sockets under way | route, guard, answer, relay |
| scan, take-over | `scan.ts`, `takeover.ts` | the walk; the backups | scan, take over, restore |
| web GUI | `web/src/` | a copy of the daemon's state, dialogs, forms, windows | stream, refresh, optimistic edits |

### How they interact, and what is hard

The daemon is one event loop: handlers run to completion, and everything awaited is a
place where anything else may run. The HTTP routes, the MCP server, the CLI (over
HTTP), the project watcher and the boot sequence all call the manager; the manager
spawns children and gets their events back; the monitor samples them and feeds the
alerts; the tray host probes the daemon from outside and relaunches it; GUIs keep a copy
of its state from a stream and from requests; successors take its port and its files.

What is hard is therefore not a lock but staleness: a continuation, a timer, an answer or
a child event that was launched in one state and runs in another. The lifecycle defends
itself with identity checks (`e.child !== child`, `entries.get(id) !== e`), with
`pendingStart` and, in two places, with `Entry.generation`; the dialog with generations;
the updater with checks that are repeated; files are written by renames. Between processes
(launchers, tray hosts, successive daemons) there are a mutex, a lock file, a pointer file
and run files, each of which can be stale. `PROJECT.json` lists these hazards line by line.

What makes each component correct:

- *lifecycle*: at most one child per id, none lost; status agrees with what is held;
  the last request wins; a stop, a start and a restart always come to an end;
- *compose*: a running process holds its stack; only services the daemon started are
  stopped; a stack reported ready is ready;
- *projects*: a reload from disk never executes anything; what the user chose and added is
  there again after every reload, edit, crash and launch; nothing starts unasked;
- *watching, files*: the last text written is looked at in the end; an edit keeps what it
  does not touch;
- *alerts, metrics, errors, logs*: one event per sustained breach; no CPU time counted
  twice; no current error and no line lost, repeated or reordered;
- *bridge, pairing, MCP, proxy*: a request is answered once; a code, a ticket is used once;
- *handover, tray, watchdog*: clients and the tray find the daemon that serves; a crash is
  counted once; silence ends in a revive or in giving up; a Quit is final;
- *updates*: no failure costs an edit or the program, and a half updated one is reported;
- *GUI*: what is shown is what the daemon has, once nothing is on its way and but for what a
  late refresh overwrote.

## 2. Plan

Modelled and checked, in the order they were written: `Lifecycle` with `ProcessControl`;
`ComposeHolds` over it; `BrowserBridge`; `ProjectWatch`; then `Monitoring`,
`LiveView`, `Scanner` beside the latter two (`MCServices`); `Handover`, `TrayHost`, `Watchdog` (`MCHandover`); `SourceUpdate`,
`ReleaseUpdate`, `AutoUpdate` (`MCUpdate`); and the edges (`MCEdges`): `LocalAuth`,
`Projects` with `Commands` over it (and the boot that commands share), `ProjectFile`,
`Relays`, `PromptAnswers`, `Telemetry`, `ProjectPages`, `Routes`, `SettingsSync`,
`Desktop`, `ComposePrepare`.
Proved: every invariant and every action property of every run (section 5).

Left, in the order of what they would add:

1. `Dependencies` (`orderByDependency` and `linkedGroupIds` against reference definitions
   over all small graphs), which Lifecycle takes as constants now.
2. Detection, spawn planning, the theme sync and the rest of the GUI's store.

## 3. Modules

The conventions are the same everywhere. A handler that runs to its end is one action; an
`await`, a timer, a callback, a system call another process can observe, is where an action
ends. What-if operators (`StillPendingById`, `NotReplaced`, `BackupAnew`, ...) stand beside
the definitions they vary, with the comment "What if": each is a plausible bug, and the
property named for it in `PROJECT.json` fails when the definition is replaced by it.
Variables marked "history" say what happened and are read by properties only.

### Lifecycle

`Lifecycle.tla` models every operation of `ManagerWithLifecycle` and the entry
primitives of `ManagerBase`. State: one function per `Entry` field, and

- `inc[p]`: which `Entry` object the id `p` maps to (a removed and re-added id is a
  new object; `entries.get(id) !== e` compares `inc`);
- `spawned[p]`, `alive[p]`: children are numbered per id; a child's number stands for
  its `ChildProcess` object and its pid. `alive` is the operating system's view;
- `tasks`: one record per awaited start step (`compose`, `wait`, `free`), with the
  entry and the generation of the `start()` that launched it;
- `kills`: `treeKill` calls whose callback has not run (`term`, `kill`, and `reap` for
  the one in `discardEntry`); `exits`: child events not yet delivered;
- `restarts[c]`: where each `restart()` call is (waiting for the exit, resolved, in the
  settle delay); `sweep`: the `restartRunning()` call;
- `wanted`: a history variable, the last request for `p` that took effect.

| action | code |
|---|---|
| `Start`, `StartMany`, `StartWithLinks`, `QueueTimer` | `start`, `startMany`/`queueStart`, `startWithLinks`, the stagger timer |
| `ComposeDone`, `WaitDone`, `FreeDone` | the three awaited steps of a start and what follows each |
| `Stop`, `RestartCall`, `RestartRunning` | `stopProcess` for a set of ids, and the calls that go on after it |
| `StopTimerFires`, `TermDone`, `KillDone` | `forceKill` and the callbacks of `treeKill` |
| `HandleExit`, `Die` | `handleExit`/`handleSpawnError`; a child ends (environment) |
| `ClaimRestart`, `SettleDone`, `SweepResumes` | the continuations of `restart` and `restartRunning` |
| `Discard`, `Register` | `discardEntry`, `newEntry` |

A spawn has three outcomes, chosen by the environment: a child with a pid, a child
without one (its `error` event follows), or an exception; the constant `Outcomes` says
which of them a run considers. Promise continuations
(`ClaimRestart`, `SweepResumes`) run before any other event, as microtasks do. The
order of a batch is any order `orderByDependency` could return for some input order;
its stagger timers may fire in any order, which allows more than the code does.

`ProcessControl.tla` is the abstract promise: an id is down, pending, up or stopping,
and wanted or not. `PhaseOf` at the end of `Lifecycle.tla` reads the phase off the entry, and
`KeepsPromise` says that Lifecycle implements the promise under that mapping.

`MCLifecycle.tla` supplies the model values and the dependency graphs of one process;
`MCComposeHolds.tla` those of two that share a stack, wait on each other and are linked.

### ComposeHolds

`ComposeHolds.tla` extends `Lifecycle` with one compose stack that the processes of
`ComposeProcs` share (its wanted services go up and down together; `StopProcs` are those
whose mode is `start-and-stop`). Each step of Lifecycle is taken as it is, with what it
does to the hold beside it (`Follow`), so that the composition can be shown to implement
Lifecycle. State:

- `hold`: the `ComposeHold` in `composeHolds`; without users it is `NoHold`;
- `stops`: the `docker compose stop` calls in flight, by number (`composeStops`);
- `prep`: the `runPrepareCompose` calls, each with the start it belongs to, how far it
  is, the stops it waits for (read once, when it begins) and whether its `up` ran;
- `releasing`: `stop()` calls that release the hold once the exit they await has come;
- `closing`: where `stopAll()` is (waiting for exits, waiting for stops, answered);
- `stack`: what docker has, and on whose account: `"user"` was up before, `"daemon"` is
  up by our `up`, `"left"` is up and no longer ours to stop (start-only, a failed `up`, a
  failed stop).

| action | code |
|---|---|
| `StopAndRelease`, `Follow` | `stop()`: release without a child at once, else after the exit |
| `DiscardAndRelease` | the override of `discardEntry` |
| `ListStack`, `UpDone` | `prepareCompose`: config and `ps`, `upWantedServices` |
| `PrepareDone` | its continuation in `start` (hold, stale start, failure) and all that `ComposeDone` does |
| `StopDone` | `stopComposeServices` has ended; a failure is only logged |
| `StopAll`, `ReleaseAll`, `Closed` | `stopAll`: stop everybody, release what is held, wait for the stops |

The continuation of `stopAll` runs as soon as its last exit is there, and `ReleaseAll`
comes before any other step then. What happens inside one preparation, service by service,
is in `ComposePrepare`. Several stacks at once are not modelled.

### BrowserBridge

`BrowserBridge.tla` is the whole of `browser-bridge.ts`: `tabs` and `order` are the Map
of connected tabs with its insertion order, `req` the `Pending` record of each request
with how it ended, `sends` the `send` promises under way. Ids are never handed out twice
(`randomUUID`), so they are constants that are used up.

| action | code |
|---|---|
| `Connect` | `connect`, with the eviction of the oldest tab at `MAX_TABS` |
| `Disconnect` | the abort of the tab's event stream (`http/browser-routes.ts`) |
| `Request` | `request`: the fan-out, with the sends that throw at once (`Dead`) |
| `SendEnds` | a `send` promise resolves, or rejects and drops its tab |
| `Reply` | `reply`, where it takes the answer (where it refuses, nothing changes) |
| `TimesOut` | the timer of the request |

`Forget` is what `disconnect` does to every pending request. URLs, titles, filters and
the answers' contents are left out: a filter is any set of connected tabs.

### ProjectWatch

`ProjectWatch.tla` is `project-watch.ts` with what it calls in `manager/projects.ts`, for
one project. A handler of the daemon runs to its end before the next one, but it reads the
disk up to twice (`reload` reads the text and then `readDevWebUIFile` reads it again;
`sync` stamps and then reads), and editors write in between: `busy` is a handler between
two reads, and only the disk moves while there is one. State:

- `disk`, `dir`, `stamp`: the file's text, whether its directory is there, its stat
  (inode, mtime and size as a number that grows with each write);
- `event`: an `fs.watch` event on its way, which may be lost or come late; `armed`: the
  directory has a watch;
- `watched`, `lastText`, `seen`, `timer`: the maps `realPath`, `lastText`, `stamps` and
  `timers` for the file (`NoText` and 0 are the absent entry and null);
- `reg`, `run`, `due`, `prep`, `ending`, `changed`: what is registered for each process, what
  its child was spawned with, starts under way, the definition `start` handed to compose,
  stops under way, `configChanged`. `Start`, `Spawn`, `Stop` and `Exit` are Lifecycle in
  brief, each with fewer guards than there.

| action | code |
|---|---|
| `Write`, `Unlink` | editors, `git`, an atomic save's window (environment) |
| `Event`, `WatchError` | the `fs.watch` callbacks, rule 7 included |
| `TimerFires`, `PollReads`, `PollRearms` | the debounce, the poll, `syncDirs` |
| `ReadFails`, `ReadRaw`, `Parse` | `reload`: first read, the comparison, second read and `reconcileProject` with `fromWatch` |
| `Load`, `AddProject`, `Prime` | a load (boot or GUI), `addProject`, `sync` of a file new to it |
| `Edit`, `Reread` | the GUI's edit routes and `reloadProject` |
| `Remove`, `Shutdown` | `removeProject` after its stops, `stop()` |

Which new processes start by themselves is any set (`auto`): the toggles and the launch
are in `Projects`.

### The other components

Each of these is a module or a part of one, whose head comment says what is left out and whose actions
bear the names of the functions they translate where there is one.

| module | code | state | actions |
|---|---|---|---|
| `Monitoring`, the alerts | `manager/monitoring.ts`, `alerts.ts` | rules and events (files), breach windows (memory), the sample under way with the processes it was asked for | a tick asks for a sample, `SampleArrives` evaluates it on whatever runs by then; rule edits; removal of a process; a restart of the daemon |
| `Monitoring`, the logs | `log-buffer.ts`, `log-vault.ts` | the entry's log, the ring for the GUI with its indices, the writer's buffer, the rotated files | `AddLog`, the two flush timers, a failing flush, project removal and return, the daemon's death |
| `LiveView` | `web/src/store.ts`, the stream of `http/core.ts` | what the daemon has, what is in the stream, what refreshes carry, the page's copy, optimistic removals | pushes, the tick, snapshots of a stream, `Receive`, refreshes answered field by field, removals that fail |
| `Scanner` | `scan.ts` | walks: queue, directories in flight, results, budget, callers | `Ask` (joins or starts), `Reads`/`Describes`/`Detects` of a directory, `Begin`, `Watchdog`, a caller that leaves |
| `SourceUpdate` | `updater-engine*.mjs` | remote tip, HEAD, index, working tree and aside copies per file, the step and what it decided, and (history) the edits that a `reset --hard` deleted | every git call of check, apply and rollback in order, each of which may fail, and each file a rollback puts back or unlinks; one apply at a time; a developer's edits and commits between any two |
| `ReleaseUpdate` | `github-updater.ts` | published releases, cooldown, staging folder, executable, the copy aside, each applier's step; (history) who staged, what was swapped in half extracted | resolve, download, verify, extract, self-check, the two renames, put back; death and boot at any step |
| `AutoUpdate` | `auto-update.ts`, `http/core.ts` | switches, the timer, passes under way, `applying`, the click | arm, retime, fire, answer, apply, end of a tick, the settings route, the route of a click |
| `Handover` | `index.ts`, `single-instance.ts`, `instance-pointer.mjs`, `crash-sentinel.ts` | runs and where each is, the port, the pointer, run files with pid and boot time | the boot step by step, relaunch, shutdown, sweep, exit, death, a reboot of the machine |
| `TrayHost` | `tray/worker.rs`, `quit.rs`, `daemon/*.rs` | daemons by generation, the child the tray holds, the UI thread and the worker, the cancel flag | restart and rebuild step by step on the worker, revive, Quit and the reaping, the sentinel file |
| `Watchdog` | `tray/watchdog.rs`, `health.rs` | misses, ages of the last success and of revives (sets: a tick makes all of them older, so no two are equal), the pause, the verdict | a tick with a probe's outcome after any delay, a manual restart, the worker's end |
| `Desktop`, the tray | `main.rs`, `startup.rs`, `icon.rs`, `tray-bootstrap.mjs` | the mutex, hosts by step, the icon as remembered and as shown, the setting that hides it | a host's start, its icon, Explorer's end and return, the daemon's look for a host |
| `Commands`, "the shared boot" | `cli.ts` (`bootDaemonShared`) | the lock file and its age, launchers by step, daemons spawned and live | probe, take, stat, wait, unlink, spawn, and each daemon's own guard |
| `LocalAuth` | `local-auth.ts` | pending pairings, failures with their times, clients, tickets, the cookie file and its owner | start and complete a pairing, revoke, mint and consume a ticket, write and remove the cookie file |
| `Projects` | `manager/projects.ts`, `state.ts`, `file-store.ts`, `index.ts` | registry, toggles and files on disk; loaded projects, definitions and what is wanted in memory | load, reload, remove (up to its await and after it), toggle, edits on disk and in the GUI, boot, safe mode, shutdown, crash |
| `Commands` | `cli.ts` | each command's request under way and what it was told | one action per request of a command, over `Projects` |
| `ProjectFile` | `ProcessForm.vue`, `http/process-routes.ts`, `file-store.ts`, `state.ts` | the file with keys it does not know, the form, the toggles | open, type in, save and cancel a form; remove, star, bare update; hand edits |
| `Telemetry`, CPU time | `metrics.ts` (Win32) | processes of the machine by number, parent and CPU time; last readings; what was counted for whom | a process begins, works, vanishes; a sample of some trees in which only some processes are listed |
| `Telemetry`, errors | `errors.ts`, `base.ts` | records by fingerprint, the file, dirty flags, what a client holds | record, clear, dismiss, the debounced save, a tick's push, connect, a new run, a boot |
| `Telemetry`, the daemon's log | `log-file.mjs` | the file, the gzipped generations, the roll's step, the lines of each | open, write, each step of a roll and its failure, death |
| `PromptAnswers` | `prompt-answers.ts` | the buffer, the rules left, what was sent, (history) what came | `feed` of a chunk, stripped of the escape sequences that are whole in it |
| `Relays` | `mcp-stdio.mjs` | lines read, active and queued requests, the registry of ids, answers | read a request, a cancel, garbage; dispatch, finish, close, drain |
| `Relays`, the proxy | `http/port-proxy.ts` | the family that last answered, sockets, messages held, a request's tries | open, fail over, hold, flush, send, close on either side; one HTTP forward |
| `Routes` | `shared/routes.ts`, `api.ts`, `mcp.ts`, `cli.ts`, `http/*.ts` | a call, who makes it and what it knows | one step: the guards and the first registered pattern that matches |
| `SettingsSync` | `connections.ts`, `http/connections-routes.ts` | the sign-in, settings, engines with their debounce, the account's document, requests waiting | sign in, turn on, disable, forget, push, pull, each continuation, writes by another machine |
| `ComposePrepare` | `manager/compose.ts`, `lifecycle.ts` | containers by state, exit code, health and port; the preparation's step and what it listed and started | list, `up`, health wait, port wait, env, stop of what was started; events of containers |
| `ProjectPages`, the dialog | `AddProjectDialog.vue` | the dialog's fields and generations, requests, scans and drop reads under way | open, close, type, drop, scan, add, take over; every answer, late or not |
| `ProjectPages`, the panels | `store.ts`, `ProjectPanel.vue` | the daemon's list, the page's, removals and renames under way with what they remember | remove, rename, the daemon handles one, its answer is settled, other pages add, rename and remove, a list shown, a refresh answered before a push and shown after it |
| `Desktop`, the windows | `http/core.ts`, `portable-window.mjs`, `window-size.ts`, `browser.rs`, `FocusView.vue`, `Settings.vue` | windows and their shapes, saved sizes, size hints, settings panels | open, shape and shut a window, load, hydrate and save a panel, a pop |
| `ProjectFile`, taking over | `takeover.ts` | per file of VS Code its text, its backup and which edit it is; (history) what was found first, what was written without a backup | take over and restore with any subset of reads and writes failing; an edit |

They meet in four modules for TLC. `MCServices` runs `BrowserBridge`, `ProjectWatch`,
`Monitoring`, `LiveView` and `Scanner`; `MCUpdate` the three of updates; `MCHandover`
`Handover`, `TrayHost` and `Watchdog`; `MCEdges` the rest. The parts of one of these share
no state in the code (or only what is an input to each of them), so a product of them would
check nothing that their sum does not: a variable `part` is chosen at the start and says
whose behaviour it is. Where components do interact, they are composed: `ComposeHolds` runs
every action of `Lifecycle` with its effect on the stack, and `Commands` works on
`Projects`, whose own steps (with crashes, and more edits than the commands leave room for)
are a part of `MCEdges` too.

## 4. Runs

| run | instance | what it shows |
|---|---|---|
| `one` | `Lifecycle`, 1 process awaiting compose, port and free-port; 2 concurrent restarts; 4 calls | type and status coherence, no orphan; the last request wins (`StopWins`); `ProcessControl` is implemented (`KeepsPromise`) |
| `live` | 2 linked processes, compose and wait, one waiting on the other, kills may fail; 2 calls, and a third where it leaves the second process out of everything | every stop ends, every pending start resolves, one in the start queue too, every `restart()` returns |
| `again` | `ComposeHolds`, 1 process with a start-and-stop stack; 3 calls, one of them a restart, and stop-all | a hold survives restarts and repeated starts and is never forgotten; the stack goes down after its last user |
| `share` | 2 linked processes, one waiting on the other, on one stack, one of them start-and-stop; 3 calls | the whole inductive invariant `IInv` with batches, the queue, linked groups and `restartRunning`; a stack that was up before is never stopped |
| `services` | `MCServices`: 3 tabs with room for 2 and 1 request; 1 process with 4 texts of its file; 1 rule; logs of 5 lines; 1 record; a tree of 4 directories with 2 roots, one of them below the other, one directory to go down to and one too deep | every ask ends once, a changed command is flagged, the watcher looks at the last text, one event per breach, logs and scans tell the truth, and only three named causes leave a page behind |
| `update` | `MCUpdate`: 2 files, 2 commits, 9 places to fail; 2 passes; 2 releases and 2 applies of one beside each other | no edit and no runnable version is lost, a half update is reported, edits taken for an update come back with a rollback, an apply ends, nothing is adopted before its cooldown, one loop runs |
| `handover` | `MCHandover`: 3 runs of the daemon and 2 faults; 3 daemons of the tray; a watchdog with 2 revives in 9 intervals | the pointer names who serves, or the last of several, which only a missed probe or two boots at once allow; the tray reaches the newest, crashes are reported once, the breaker trips, a relaunch leaves a daemon, silence ends |
| `edges` | `MCEdges`, 21 parts | what may be had once is had once; nothing said is lost or reordered; edits keep the rest; what is said is true; projects are kept; calls reach their handlers; the user decides |
| `stuck`, `quit`, `jobs`, `twice` | one part each | the four disagreements of section 6 that a run shows |

A property of `services`, `update`, `handover` and `edges` is a conjunction, named for what
its parts have in common and spelt out in the MC module:

- `EveryAskEnds`: `EveryRequestSettles`, `EveryScanSettles`; `ReportsAreTrue`:
  `LinesStayInOrder`, `ViewIsCurrent`, `ScansAreTrue`;
- `NothingIsLost`: `EditsSurvive`, `AVersionSurvives`;
- `DaemonIsFound`: `PointerLeads`, `NewestIsReached`; `DaemonComesBack`:
  `RelaunchLeavesOne`, `WatchdogActs`;
- `OnceOnly`: `EachIsSpentOnce` (pairing codes, tickets), `AnsweredOnce` (MCP),
  `OneDaemonServes` (shared boot), `UsageAddsUp` (CPU time);
- `NothingIsMissed`: `SocketKeepsOrder`, `RulesFireInOrder`, `LogKeepsItsLines`,
  `ErrorsAreKept`;
- `WhatIsSaidIsTrue`: `DialogTellsTheTruth`, `IconIsKnown`, `TrayComes`,
  `PopsOnlyWhenTurned`, `StackIsReady`, `PanelsMatch`;
- `ProjectsAreKept`: `ChoicesLast`, `ShownComesBack`, `RestoreBringsBack`;
- `UserDecides`: `LaunchFollowsChoices`, `AddsWithoutRunning`, `OwnStays`, `UserSizeStays`.

**Bounds.** Only what the environment may do without end is bounded: calls, edits, writes,
faults, ticks of a clock, messages. What these set off (continuations, timers, exits,
answers) is not.

- `MaxCalls`: four calls on one process reach start/stop/start with an old continuation
  still in flight, overlapping restarts, and removal and re-registration in the middle of
  each; three on two processes reach a batch, a group stop and a sweep over it; `stopAll`
  takes a call as well. `live`: two calls on two processes are a batch and one that meets its
  queued start; a third on both would take the check of its temporal properties past five
  minutes, so it is made only while the second process has not been touched (`Brief`).
  `share` has the bound `OneExitCode` (every child dies by a signal) and only
  successful spawns: `again` and `one` have the others, and no hold depends on them.
- `MaxTabs` 2 of 3 tabs: one that answered and one that did not can be evicted.
- `MaxWrites` 2: one write falls between the stamp and a read, or between the two reads of a
  reload, and another after it.
- `MaxTicks` 4 and windows of 1: a breach, its event, an end and the next breach.
- `MaxLines` 5 over buffers of 3 and a file of 1 line: the ring wraps, the threshold flushes,
  two rotations happen.
- `MaxChanges` 2, `MaxDrops` 1 (view): a change on each side of a refresh's answer, a stream
  lost and taken up again.
- Commit 2 of `MaxTip` touches what commit 1 did and deletes a file; every step may fail.
- `MaxRun` 3 and `MaxFaults` 2: a crash, the boot that reports it and a relaunch beside it;
  `MaxGen` 3: what a Quit reaps and what a worker starts beside it.
- Ages in the watchdog are capped at the limit they are compared with, so any number of
  probes is covered; `MaxLate` lets a tick come late.
- `MaxLogged` 7 with `KEEP` 3 and a file of one line: the oldest generation is dropped.
- `MaxTime` 8 exceeds both waits of the shared boot and the lock's staleness.
- `MaxBirths` 3 over two numbers: a number is used again, also by the child of a process
  whose parent has its number (a cycle); `MaxUse` 3 lets the new one have used more than the
  old one had.
- A release behaviour of `update` ends where an executable that was half extracted has been
  swapped in (`~mangled` in `MCUpdate`): section 6 tells how it comes to that (`InstallsOnlyVerified`),
  and nothing is stated of what follows.
- `MaxFed` 3 (prompt answers): the chunks hold an escape sequence whole and either half of one,
  so it comes stripped or cut, in the middle of a prompt too.
- `MaxAsked` 2, `MaxOthers` 1, `Joining` one project (panels), `MaxTyping` 1 per taken-over file: a removal and a
  rename under way together with a change from another page, which may add that project; an edit between a take-over and
  its restore.
- `MaxDeeds`, `MaxOpens`, `MaxScans`, `MaxAsks`, `MaxEngines`, `MaxCommands`, ...: two of
  what races, and where a race is about an old and a new one, a third.

Where no more calls, ids, edits or faults are left a behaviour ends, so no run checks deadlock;
what must not get stuck is stated by the temporal properties.

**Fairness.** Actions of users, of other programs and of the operating system are never fair.

- `live`: continuations run, timers fire, every awaited start step returns (each has a
  timeout in the code: `WAIT_FOR_PORT_TIMEOUT_MS`, the docker command timeouts, the port
  probe), a `treeKill` calls back. A child that ignores SIGTERM is ended by the grace timer.
- `again` (`HoldsFairSpec`): also docker's commands and the readiness polls return, for the
  same reason.
- `services`: a request's timer fires (no tab has to answer); a handler of the watcher runs
  to its end; its poll is served between handlers however many come, and a file is not
  locked at each of the reads for ever (strong fairness of `PollReads` and `ReadRaw`); a
  walk begins and its watchdog fires (reads need not return). Nothing is assumed of
  `fs.watch` or of the debounce.
- `update`: the next step of an apply is taken (each git call has a timeout).
- `handover`: a run's boot steps, sweep and exit go on, and the one that has handed over
  shuts down; the watchdog's timer ticks, late perhaps, and its worker ends.

## 5. Proofs

`Lifecycle_proofs.tla` proves, for every set of processes, callers, dependency graph
and bound:

- `TypeCorrect`: `Spec => []TypeOK`; `StatusAlwaysCoherent`: `Spec => []StatusCoherent`;
  `NothingOrphaned`: `Spec => []NoOrphan`;
- `LifecycleInvariant`: `Spec => []IInv`; `LastRequestWins`: `Spec => StopWins`;
- `ImplementsPromise`: `Spec => KeepsPromise`, the refinement of `ProcessControl`.

The first three are one induction over `EntryInv`: `TypeOK`, a local part per entry
(`Named` and `CoherentEntry`: names are handed out in order, a stop timer belongs to the
current child, an unregistered id holds nothing) and a part about the operating system
(`DeadExits`: a delivered exit is of a dead child). Without `Named` the invariant is not
inductive: a late exit could name a child that is yet to be spawned. The effect of each
operator on one process is stated once (`EnterStepEffect`, `StartAllEffect`, ...), and
`StepShapes` reduces the steps of `Next` to a few shapes (something starts, a
continuation ends, a stop, a discard, a kill callback, ...), each of which gets its lemma.

The others add `WorkInv` to it, what the work under way relies on: a stop has a timer or a
kill that will end it (`StopCanEnd`), who awaits an exit awaits one that will come
(`WaiterHasStop`), a pending start has its continuation (`PendingHasTask`), what is pending,
queued or about to be claimed by a restart was last asked to run (`Intended`), and no
continuation or restart refers to an entry or a generation that is yet to come
(`NeverAhead`). Only together are they inductive: a restart that resumes is `Intended`
because the entry it refers to has the generation it remembers or a later one, and
`NeverAhead` excludes what would be neither. `StopWins` and each step of the refinement
follow from the invariant: a spawn is by a continuation of a pending start, which is wanted.
Assumptions: only `ProcsAssumption` (the constants have their types).

`ComposeHolds_proofs.tla` proves, with `ProcsAssumption` and `StopProcsAssumption`:

- `ImplementsLifecycle`: `HoldsSpec => Spec`. Every conjunct that a composed step adds is
  about the variables of this module alone; the proof takes the actions one by one and
  names the disjunct of `Next` each one is. Every invariant proved of Lifecycle holds of the
  composition with it;
- `RunningKeepsHold`: `HoldsSpec => KeepsHold`. It needs `StatusCoherent` (from the
  refinement) for the processes released at once, which have no child, and that a release
  on exit is of a process whose child has gone in that very step;
- `LifecycleInvariantHolds`: `HoldsSpec => []IInv`, by the refinement;
- `StackNeverForgotten`: `HoldsSpec => []HoldsCoherent`, and `UsersStackIsLeftAlone`:
  `HoldsSpec => StopsOnlyOurs`, from `StackInv`. Its core is `ClaimPart`: what the daemon
  started somebody claims (the hold, a preparation whose `up` is through, or a stop in
  flight), and nobody claims what the user had up. It needs that preparations and compose
  tasks are in bijection (`PrepPart`), or one could vanish with its claim.

`Services_proofs.tla` is about the parts of `MCServices`, for any number of tabs, questions,
texts, processes, rules, samples, lines and events:

- `BridgeTypeCorrect`, `NobodyWaitsInVain`, `TimeoutsArePartial` and `SettledForGood`, from
  `BridgeAssumption` (finitely many tabs, a positive limit). `BridgeInv` says of each pending
  request that its answers are fewer than the tabs it counts on (`Sound`); that is enough,
  since then some tab it counts on has not answered, and it counts only on connected ones.
  The eviction needs that the oldest tab exists, which is shown from the well-foundedness of
  inclusion on the finite sets of tabs not younger than a tab (`LeastExists`);
- `WatchTypeCorrect`, `DriftAlwaysFlagged` (of a child's command, directory and environment;
  of the stack compose prepared it is refuted) and `ReloadExecutesNothing`, from
  `WatchAssumption`. The invariant has two halves that no step mixes. `FileInv` says what a
  handler between two reads relies on (the file it reloads is still watched, its stamp is not
  from the future); `ProcInv` adds to the drift property that an id without a registration
  runs nothing, which `Reconcile` needs: without it a child could be found under an id that
  has just appeared;
- `NoLineIsMisplaced`: `LvSpec => []LinesStayInOrder`, from `LogVaultAssumption` (positive
  capacities). `RingInv` reads the circular buffer slot by slot: it holds the newest lines of
  those not yet sent, also where its indices wrap. `Vault` says of a process's three files and
  its queue that each is in order, that one ends before the next begins (`Segments`), and that
  a line that is in none of them was counted as gone or is older than all that are
  (`Complete`). `WriterInv` relates the count of queued lines to the queues;
- `PageShowsTheDaemon`: `LwSpec => []ViewIsCurrent`. `OnItsWay` strengthens it to every state:
  what the page will show once the channel, the answers and the dirty flags are worked off is
  what the daemon has, for each list whose stream is open and that is not marked stale. A field
  is stale when a refresh wrote an older answer over it, an equal payload was skipped or a
  removal failed, until its next push: the theorem is that nothing else leaves a page behind,
  not that a page is never behind (`StreamCatchesUp`, section 6);
- `OneEventForABreach`: `AlSpec => OneEventPerBreach`, from `AlertsAssumption` (finitely many
  rules). The property speaks of all that was seen of a process, the code of its open windows:
  `WindowsRemember` says that an open window began at a look that was over, after the last
  edit of its rule, and that every look since was over; `EventsTold` that for each event
  either the window that fired it is still open or the process was seen calm since. A sample
  that is answered is about the entry's current run, because pids are not handed out twice
  (`OnePid`);
- `ServicesTypesHold` and `ReportsAreAlwaysTrue` put the parts together: `Spec` implies
  `[]ServicesTypeOK` and `[]ReportsAreTrue`.

`Scanner_proofs.tla` proves `ScansTellTheTruth`, `ScanSpec => [](ScanTypeOK /\ ScansAreTrue)`,
from `ScannerAssumption`: the directories are a forest (links are not followed, `scan.ts:299`),
and the caps, the depth and the concurrency are positive. That a complete scan has found
exactly what there is, is an invariant of walks that are under way (`Honest`): a directory is
in one place at a time (`Apart`), it was come to by a way that no other is shorter than
(`DepthsAreRight`), and of what has been read, everything below within the depth has been seen
and everything there was found or is still ahead (`GoneThrough`). It is not inductive for a
walk that was truncated or has reached its cap, and need not be, since both are reported
(`Full`). The induction along a way is replaced by the first directory of it that was not seen
(`FirstExists`, `NothingLeft`).

`Update_proofs.tla` is about the parts of `MCUpdate`, for any number of passes, files,
commits, releases and faults:

- `TimerIsOneLoop`: `AuSpec => []OneLoop`. `AuInv` says that the handle names the one timeout
  that is armed, that it is armed exactly when the loop is wanted and not in a tick, and that
  at most one pass is under way (`OnePass`), which is the one `ticking` stands for;
- `EditsAreNeverLost`, `HalfUpdatesAreReported`, `RollbackRestores`, `CooldownIsKept`:
  `SuSpec` implies `EditsSurvive`, `HalfUpdatedIsReported` (always), `LandedEditsComeBack`
  and `HeldBackIsNotAdopted`. The invariant `SuInv` takes what is known at each place of the
  update step by step: where own content may be (`SuCore`), where an edit that the engine has
  seen is kept (`EditsKept`), that the build is HEAD's away from the steps and the rollback
  (`BuildKnown`), that a missing program file is missing from HEAD too or is moved aside with
  its copy (`MissingKnown`, `CopiesKnown`), that a deletion the update took over was the
  developer's (`LandedKnown`), that the target has aged (`TargetKnown`) and what a restore
  has put back (`RestoredKnown`);
- `AVersionIsLeft`: `RuSpec => []AVersionSurvives`, for any number of applies beside each
  other, since a click's is not kept from the timer's (`core.ts:146-151`). What may end it is
  `mangled`: one apply swaps in what another had not completely extracted (`InstallsOnlyVerified`, section 6).
  `RuInv` says that nothing else does: a file that works is in place or moved aside at every
  step (`NothingPartial`), and a candidate an apply is to move in is whole unless another has
  taken up staging since (`CandidateReady`);
- `UpdateTypesHold` and `FailuresCostNothing` put the parts together: `Spec` implies
  `[]UpdateTypeOK` and `[]NothingIsLost`. What is said of a checkout is said of one apply at a
  time (section 7).

`Handover_proofs.tla` is about the parts of `MCHandover`, for any number of runs, ports,
faults and generations, and any limits of the watchdog:

- `CrashesAreReported`: `HoSpec => []CrashIsReported`. `CrashInv` relates run files and runs:
  an armed run has its file and it is not from before the last boot of the machine, each file
  is of an armed run or of one that has ended, and each old one is of one that has ended;
- `BreakerAlwaysTrips`: `WdSpec => []BreakerTrips`. The property speaks of all revives since
  the last manual restart, the code of those it still remembers: it forgets them when the
  daemon was healthy for long. `HealthySince` (who has been healthy for h was not revived
  for h) is what shows that none was forgotten inside the window (`Recorded`);
- `HandoverTypesHold`: `Spec => []HandoverTypeOK`. That a boot always finds a free port is a
  pigeonhole argument over the finite set of runs;
- `DaemonIsAlwaysFound`. For the pointer (`PointerInv`): until a run passes its guard beside
  another that is past its own, there is at most one such run, and the pointer names it from
  before it binds; a run passes beside another only when two booted at once or the one probe
  of its guard missed a live daemon (`index.ts:132`), since otherwise the daemon that serves
  is named, answers, and is seen; a successor waits for the only one. Whatever the number of
  daemons, only its owner or a later writer touches the pointer, so the last writer keeps it.
  For the tray: the slot names the latest
  wrapper, but while a worker stores one (`Slot`), and a Quit that met no restart past its
  last look at `cancel` finds the worker before that look (`QuitIsCalm`).

`Gates_proofs.tla` and `Edges_proofs.tla` are about the parts of `MCEdges`. Each part has an
inductive invariant of its own, and `EdgesInv` is all of them; `OneEdgeMoves` shows that a step
of the composition is a step of one part and a stutter of the others, so that the theorems
about `Spec` follow part by part: `EdgesTypesHold`, `NothingIsHadTwice`, `NothingIsEverMissed`,
`EditsLeaveTheRest`, `WhatIsSaidIsAlwaysTrue`, `EachCallHasItsHandler`, `ProjectsAreNeverLost`
and `TheUserDecides` state the seven invariants and the action property of the run `edges`, for
every number of clients, launchers, texts, rules, lines, containers, pids, windows, projects and
faults. What carries them:

- *pairing* (`AuthInv`): the histories of the model are tied to the sets the code keeps. A code
  that was paired is no longer pending, a ticket that was spent is no longer live, and the wrong
  answers that count against a caller are those of the window, by cardinalities;
- *MCP* (`McpInv`): a request is in flight, in line or answered, in one of these places and
  once there (`Places`), and what the registry holds under an id is in flight;
- *shared boot* (`BootInv`): while nothing answers, either nobody is on the way or there is one
  launcher that the others wait for, whose daemon comes up before any of these waits is over.
  That part of `OnceOnly` speaks of boots shorter than the waits (`MaxBoot < BootWait`);
- *proxy* (`ProxyInv`): what the dev server was given and what is held back are together what
  the client sent, in that order;
- *prompt answers* (`PromptInv`): as long as the buffer was not cut, it is the rest of the chunks,
  each stripped by itself, after the last answer (`Reads`), so a pass over the rules finds what a
  reader of these finds. Where no chunk ends inside an escape sequence that is the output
  itself; where one does it is not (`PromptsAreSeenAcrossChunks`, section 6); the pass itself is followed rule by rule (`Goes`, by induction on its length);
- *logs* (`DgInv`, `ElInv`): each generation is an unbroken run of lines and no newer than the
  one before it, also in the middle of a roll; a list that is not marked as changed is what a
  client has;
- *project file* (`PfInv`): each record carries the edit that wrote it and no two records the
  same, so what an edit did not write it did not change;
- *routes* (`RoutesInv`): the 68 registrations are written out as rows of fixed words, and each
  call is one of them with values for its stars (`IsCall`). `OneRow` compares the rows: two that
  one path fits are the same or an action and a registration before it, and no action is called
  like one of those (`TheFirstIsMeant`). Nothing is assumed of the ids;
- *dialog* (`DlInv`): the scan of the current generation is unique and of the current opening;
- *tray start* (`TsInv`): who came past the lock holds it, and a daemon that decided that an
  icon is there has seen a host begin; *windows* (`AwInv`): a panel that saves a mode turned on
  was touched; *stacks* (`CpInv`): from the port probes on, every service that nobody else
  altered is well, and answered on what it publishes; *CPU time* (`MxInv`): what was counted is
  at most the difference of the last reading and the first; *panels* (`PanelInv`): the
  last list on its way to the page is the daemon's, and a page lacks a project only while a list
  is on its way, on account of a removal of its own, or because a refresh answered before a push
  was shown after it, and the names it shows were given by someone;
- *projects* (`ProjectsInv`, `CommandsInv`): while the daemon runs, what is chosen, saved and
  toggled are one; a command under way names only projects it was told to, so that what it adds
  runs only if someone asked. *Take-over* (`ToInv`): a backup is what a
  take-over found first, or the file is one of those written without a backup.

The assumptions are named in the modules of the parts (`LocalAuthAssumption`, `BootLockAssumption`,
`ProxyAssumption`, `PromptAssumption`, `ElAssumption`, `DgAssumption`, `AddDialogAssumption`,
`PanelsAssumption`, ...): bounds are numbers, sets of prints, panels, callers and the like are
finite where the code counts them, model values that stand for "nothing" are not in the sets they
are used with, and the limits the code fixes are positive.

Every invariant and action property of every run is stated by a theorem. Model-checked only:
liveness (`StopTerminates`, `StartResolves`, `RestartReturns`, `UnusedGoesDown`, `LooksAtLast`,
`EveryAskEnds`, `ApplyEnds`, `DaemonComesBack`), which is out of the prover's reach and stays with
TLC.

## 6. Disagreements found

### Shown by a run

- *stuck*: an old free-port continuation (`lifecycle.ts:217`) clears the new start's
  `pendingStart` and then does nothing, and the new continuation bails: the entry shows
  "waiting" for ever.
- *quit*: a restart of the tray that is past its last look at the cancel flag
  (`worker.rs:105`, `:171`) starts a daemon after Quit has reaped the others.
- *jobs*: a server that exits with code 0 when `docker compose stop` stops it passes for a
  finished one-shot job (`compose.ts:213`): the next start of its process runs without it.
- *twice*: two shortcuts of one project opened at once both find it not loaded
  (`cli.ts:614-619`), and the second load ends what the first one started.

### Stated, and refuted by TLC

Each of these says what a comment or a guide of the repository says, quoted above its
definition; no run carries them. With the configuration named (and the constants changed in
brackets) TLC finds a counterexample.

| definition | configuration | what happens |
|---|---|---|
| `StopsOnlyUnused` | `share` | `stopAll()` releases every user of every hold once its exits have come (`lifecycle.ts:445-446`), also a process started meanwhile: its services stop under it |
| `ShutdownStopsStack` | `again` | `stopAll()` cancels a start that awaits `prepareCompose`, not the preparation: an `up` that succeeds later leaves services running after the daemon (`AI_GUIDE.md:114-116`) |
| `HoldBeforeSpawn` | `again` (`WaitProcs = {p1}`) | stopped and started again, a process is spawned by the port wait of its first start while the compose step of its second is under way, without a hold (`lifecycle.ts:98`; `AI_GUIDE.md:99`) |
| `StackDriftIsFlagged` | `services` | a reload of the compose block while `start` awaits the preparation of the old one flags nothing, since there is no child yet, and the child is spawned with the new command on the old stack (`lifecycle.ts:54-60`; line 47 and `projects.ts:18`) |
| `StreamCatchesUp` | `services` (`MaxChanges = 3`) | a refresh answered before a process stopped is assigned after the push that said so (`store.ts:339-344`): the page shows it running, with nothing on its way (line 453; `FocusView.vue:109`) |
| `ResolvesWhenAllAnswered` | `services` | after "A answers, A closes" a request settles with `timedOut` false though B, connected, was never heard (`browser-bridge.ts:109`; lines 7-9) |
| `ShowsUp` | `services` | an edit in the GUI is applied without `lastText` learning of it; if the file is put back before the event comes, `project-watch.ts:266` takes it for unchanged (lines 1-2 and 34) |
| `FailedDismissResurfaces` | `services` | a dismissal that fails marks nothing for the next push, so the record stays hidden (`store.ts:311-312`) |
| `StoppedIsNotBreaching` | `services` | with nothing running the tick returns before the rules are evaluated (`monitoring.ts:86`), so the window of a process that stopped stays open (lines 95-96) |
| `RemovedLeavesNoLogs` | `services` | lines queued before `removeProject` deletes the files are written after it, by the flush (`projects.ts:165`) |
| `NeverStranded` | `handover` | two launches pass the guard together; the second writes the pointer over the first one's, cannot bind its port and removes the pointer, which is its own, while the first one serves (`instance-pointer.mjs:92-104`) |
| `OneServes` | `handover` | the one probe of a guard misses a daemon that is alive but busy, or two launches probe before either binds: two daemons serve on two ports and the pointer names the last (`index.ts:127-132`) |
| `ForceKillIsGuaranteed` | `handover` | a successor that still boots has neither pointer nor port: Quit asks nobody, its force-kill finds nobody on the port, and the daemon serves after the tray has gone (`quit.rs`, `stop.rs:91`) |
| `RequestIsHonoured` | `handover` | a daemon that boots before the tray has looked drops the `shutdown.request` of the one before it |
| `AppliesNeverOverlap` | `update` | `applying` is the timer's own (`auto-update.ts:73`): the route of a click applies beside it (`core.ts:146-151`) |
| `NoEditDeleted` | `update` | an edit between the rollback's `git status` or stash and its `reset --hard` is gone (`updater-engine-rollback.mjs:8-14`) |
| `InstallsOnlyVerified` | `update` | a click's apply of a release runs beside the timer's (`core.ts:146-151`) in one staging folder: it clears and fills it again while the other waits for its candidate to answer, and that one moves in what is there (`github-updater.ts:524`; line 513) |
| `PromptsAreSeenAcrossChunks` | `edges` | `feed` strips the escape sequences of each chunk by itself (`prompt-answers.ts:95`), so one cut by a chunk's end stays in the buffer, in the middle of a prompt, which is then never answered (line 52; `prompt-answers.test.ts:51`) |
| `BacksUpFirst` | `edges` | a backup that fails is swallowed and the file written all the same (`takeover.ts:97-99`, `:134-137`), so its text is nowhere; line 145 says "Backs up first" |
| `ShowsEveryProject` | `edges` | a refresh answered before another page added a project is shown after the push that brought it, and hides it until the next list (`store.ts:339-344,446`) |
| `ScanButtonSearches` | `edges` | `@click="runScan"` hands the click event to `runScan` as the explicit root, so both Scan buttons ask for a scan of neither the machine nor the folder typed (`AddProjectDialog.vue:209-215,484,501`; `en.ts:469`) |
| `EmptiedIsCleared` | `edges` | a field emptied in the form is `undefined`, which JSON drops, so the old value stays (`ProcessForm.vue:141-159`, `api.ts:76-80`, `file-store.ts:217-218`) |
| `WaitsResolve` | `edges` | `waitForPort` does not follow a rename or a removal |
| `OnlyCurrentAreSeen` | `edges` | a process that starts again marks nothing: clients keep the errors of its last run until the next change (`base.ts:131-132`, `lifecycle.ts:269`) |
| `SuccessorKeepsCookie` | `edges` | the owner of the cookie file is read and the file removed in two calls (`local-auth.ts:94-95`) |
| `BootsOnce` | `edges` | a launcher that found no daemon takes the lock only after the first one's boot has released it, and spawns a second daemon, which the guard of `index.ts` ends (`cli.ts:166`) |

### Met while modelling

In the models' behaviours, or left out of them where that is said:

*Lifecycle, compose, watching.*

- the port-wait continuation (`lifecycle.ts:98`) has no generation check, so the one of a
  start that was stopped and started again acts on the new start, although lines 89-91 say
  every continuation bails out if the start was replaced; through it a process can be
  spawned while the compose step of its newer start is under way (`AI_GUIDE.md:99` promises
  readiness first);
- `runPrepareCompose` waits for the stops in flight when it begins; one that begins later
  runs beside the `up` (`lifecycle.ts:470` says an `up` never races a `stop`);
- a start that fails in its compose step releases its stack (line 70: "this process will
  not run, so it relies on nothing"), one that gives up on its port right after keeps it;
- an `up -d` that fails half way, or times out, reports nothing as started (`compose.ts:449`),
  so nobody stops what it started; nor the dependencies it started beside what it was asked
  for, nor a finished job it ran again. A service that another user starts between the
  listing and the `up` counts as the daemon's;
- `reload` remembers the text of its first read whatever the second one finds (lines 270-279
  of `project-watch.ts`): if that one fails, the text counts as applied and is not retried,
  against rule 3 of the head;
- between the read of a load and that of the `sync` that follows, a write becomes
  `lastText` without having been applied (lines 150-156; a comment there says the manager
  has just loaded that text);
- the MCP tools `enable_*` and `disable_*` say "and start it", "and stop it" (`mcp.ts:629-655`);
  the toggles only record a preference (`lifecycle.ts:303-317`).

*Projects and files.*

- safe mode ("nothing starts automatically", `README.md:270-276`) does not keep the load of a
  known project from starting what is set to autostart;
- a project loaded again during the awaits of its removal is removed without a word; a
  toggle of a process that was removed while the daemon was down stays for good;
- dropping a folder that is new twice starts its processes, through the second load;
- a backup of a take-over that was made before a write failed is put over newer edits by a
  later restore; a restore loses what was edited since; every trigger of a file is reported
  as disabled although one with a comment before its value stays on, and a quoted trigger in
  a comment is rewritten as well.

*What is measured and shown.*

- `metrics.ts:192-193` and `:304` say that a caller keeps the last known values when a
  sample fails; `monitoring.ts:90` sets `null`. A number in two trees counts for the first
  root only;
- the errors' debounced save is not flushed at exit, and a failed one is not tried again;
- an equal payload, an empty list after an empty list too, is skipped by the page's watch;
  a stale refresh overwrites a status that was pushed after it;
- a project that another page removed answers a removal with 404 (`process-routes.ts:121`),
  and the roll-back puts its panel back until the next list; a rename that is refused after
  another name arrived shows a name nobody has (`store.ts:464-471` says the daemon's copy
  already carries the old values); a removal that fails while a rename is under way brings
  the optimistic name back;
- `clearMessages` during a scan drops its caption; a slow drop read can speak in a later
  opening of the dialog, a picker's answer can start a scan in one;
- settings panels that could not load save their defaults over everything, and two panels
  overwrite each other; windows smaller than the thresholds of the page count as remembered,
  and a maximised view opened in a running browser stays at its sibling's size.

*Connections.*

- `applyToManager` mirrors `PUT /api/settings` (`connections-routes.ts:26`) but re-arms no
  update timer and updates no pointer; an identity can be written back after a sign-out, a
  sign-in during a forget is wiped; two engines created at once leave one whose debounce
  nobody cancels, and a disable during the first creation lets a push go out; a seed in
  flight can make a document again that was deleted; changes of preferences alone are not
  pushed.

*Updates, boot, tray.*

- a pull may adopt a tip newer than the commit whose age was checked, when the engine runs
  without a cooldown (`updater.ts` sets none); after "notRolledBack" the next check says up
  to date; an own edit made between the check and the move aside survives only in a copy the
  next apply sweeps; an automatic apply that ends during a shutdown relaunches; frequent
  `PUT /settings` put the timer off for ever;
- a process stopped in the 800 ms of a handover is resumed by the successor; crashes not yet
  reported are dropped by a reboot of the machine; a number used again delays a report;
- a host that shows an "already starting" box counts as running, so no icon comes; an unknown
  answer of the process table starts a second host, whose loser opens the window again.

*Requests.*

- an MCP cancel of a request that is still queued is ignored, and requests with one id
  unregister each other; a POST is sent again on the other loopback family when the first
  connection fails; `fetchLogs` beside the stream can show a line twice or not at all;
- directories whose names differ only in case are scanned as one; sharing of a scan is never
  reached by the one caller in the program.

Not counted as disagreements, because the code documents them: a `stop()` that arrives
while a `restart()` still awaits its own stop is overridden by the restart's claim
(`types.ts:38-42`), and `restartRunning()` starts the ids it remembers whatever was asked
of them meanwhile. `wanted` follows the code in both.

## 7. Not modelled

`PROJECT.json` lists what each component leaves out. In short:

- pure readings of text and files: the dependency-order algorithms (constants of
  `Lifecycle`), detection, diagnosis, spawn planning, the parsing of docker's output;
- operating-system helpers, native pickers, editors and shortcuts, menus and dialogs of the
  tray, layout and the theme of the GUI;
- the pidusage fallback of the sampler, memory figures, several compose stacks at once,
  several watched files in one directory, awaits of a removal of more than one project,
  failures of the registry's write;
- the Connections package, Chromium, docker, git and GitHub are external: they do what this
  code uses of them, and fail where it looks for a failure;
- `Scanner` takes the directories of its queue in any order (the code: first in, first out)
  and has a directory in one other only, `Monitoring` puts the events of one look in any order,
  `ProjectPages` leaves out a second save by a panel mounted again, `PromptAnswers` takes
  fixed texts for regular expressions and has one kind of escape sequence, `Telemetry` takes a
  sample as one moment;
- `SourceUpdate` has one apply of the checkout at a time, though a click's can run beside the
  timer's (`core.ts:146-151`): what two of them do to one working tree is not covered, by its
  runs or by its theorems;
- in `Lifecycle`, log lines, metrics, `restarts`, `exitCode`, `startedAt` and
  `configChanged` are left out (`configChanged` is in `ProjectWatch`); `killAllSync` ends the
  daemon and is represented by `NoOrphan`, which says what it would reach; `freeProcessPort`
  is a `Stop` of the managed holders.
