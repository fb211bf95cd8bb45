# Endstone: TLA+ models and proofs

Endstone adds a plugin API to the Bedrock Dedicated Server. The game server itself is a binary
that is not in the repository; Endstone hooks into it and keeps its own state beside it. These
modules model the parts of that state that several threads share, that long sequences of legal
calls build up, or that has to survive a crash. Paths below are relative to the repository root
(`core/` is short for `src/endstone/core/`); in `PROJECT.json` they carry a leading `src/`.

## 1. Inventory

| Part | State | Operations | Talks to |
|---|---|---|---|
| Task scheduler (`core/scheduler/scheduler.cpp`, `task.cpp`, `async_task.cpp`) | `tasks_` (id to task), `pending_` (lock-free queue), `queue_` (tick to tasks), the cancelled flag, session ticks; per task `cancelled_`, `next_run_`, `workers_` | `runTask*`, `cancelTask`, `cancelTasks`, `isRunning`, `mainThreadHeartbeat`, `removeCancelledTasks`, `getActiveWorkers` | level tick calls the heartbeat; executor runs async tasks; plugin manager cancels; server reload waits and cleans |
| Thread pool (`core/scheduler/thread_pool_executor.*`) | job queue, `done`, condition variable | `submit`, worker loop, destructor | scheduler submits |
| Plugin loading (`core/plugin/plugin_manager.cpp`) | `plugins_`, `lookup_names_`, and the local maps of `loadPlugins` | `loadPlugin`, `loadPlugins` | loaders produce plugins; reload loads again |
| Plugin life cycle and events (same file, `include/endstone/event/handler_list.h`, `event_handler.h`, `plugin_loader.h`) | `enabled_`, `event_handlers_`, baked handler lists | `enablePlugin`, `disablePlugin`, `registerEvent`, `callEvent`, `clearPlugins` | disabling cancels tasks and unregisters handlers; handlers call back into everything |
| Service manager (`core/plugin/service_manager.cpp`) | providers by name, sorted by priority, under one mutex | register, unregister, `get` | plugins |
| Permissions (`core/permissions/`, `include/endstone/permissions/permission.h`, plugin manager) | `permissions_`, `default_perms_`, two subscription maps; per permissible attachments and the cache of effective permissions; per player the op status last seen | `addPermission`, `removePermission`, `setDefault`, `addParent`, `addAttachment`, `recalculatePermissions`, `setOp`, `checkOpStatus` | changing a permission recalculates its subscribers, which rewrites the subscriptions; the game changes op on its own |
| Command map (`core/command/command_map.cpp`) | `custom_commands_`, and beside it the game's registry of signatures, aliases and enums | construction, `registerCommand`, `unregisterCommand`, `clearCommands`, `setPluginCommands` | the game's registry; reload |
| Command usage parser (`core/command/command_usage_parser.cpp`) | none | `parse` | command map |
| Ban lists (`core/ban/`, ban and pardon commands) | `entries_`, a JSON file | `addBan`, `removeBan`, `isBanned`, `save`, `load` | file system; the server's constructor loads them |
| Command line bootstrap (`endstone/cli/base.py`) | the server folder: files of the archive, `version.txt`, `endstone.toml`, `server.properties` | `_install`, `_update`, `_download`, `_validate`, `_prepare`, `_run` | launches the server, which uses the same folder |
| File log (`core/spdlog/file_log_sink.cpp`) | `latest.log`, numbered archives of a date, the time of the next rotation | write, flush, `rotate` | file system; every thread that logs |
| Server reload (`core/server.cpp`) | none of its own | `reload` | command map, plugin manager, scheduler |
| asyncio runner, boss bars, scoreboard, players, levels, inventory, maps, forms, NBT, console, bindings, hooks, devtools, metrics | mostly the game's own | wrappers | the game |

What is hard here:

* **Threads.** Any thread may register or cancel tasks. `tasks_mtx_` and a task's `mutex_` are
  never held together, so each decision ("is it idle", "am I the last worker") is acted upon
  after the lock is gone. `pending_` and the executor's queue are lock-free. Asynchronous events
  are dispatched while the server thread changes plugins.
* **Re-entrancy.** The body of a task, an event handler, `onEnable`, `onLoad` or `onDisable` calls
  back into the manager that is in the middle of a loop; a handler may reload the server.
* **Life time.** Reload destroys plugins whose callbacks sit in queues, on worker threads and in
  copied handler lists. Permission tables and subscriptions are raw pointers.
* **Caches.** Baked handler lists, effective permissions, the op status last seen, and two
  tables of commands that only agree if every operation keeps both.
* **Order.** Directory listings and `unordered_map` walks have no order, and the result of
  loading must not depend on it.
* **Failure.** Plugin code throws; a process is killed while it writes a file; renames fail;
  waits time out.

Correctness, part by part: a task runs on its tick, once per period, never after it or its
plugin was cancelled, and is never lost; the pool runs every job once and drains before it goes;
no code of a plugin runs after reload has destroyed it; plugins are loaded after what they need
and none is refused without cause; every enabled handler sees an event once and in priority
order, and no dispatch meets a destroyed handler; `get` gives the highest provider; effective
permissions are what a recalculation from scratch would give; the two tables of commands agree
and the server's own commands survive every reload; the parser reads exactly the usages; a ban
holds across restarts; the server that runs is whole and of the supported version, whatever
crashed before; a log line that was flushed is not lost.

## 2. Modules

| Module | Models | Variables and actions |
|---|---|---|
| `Scheduler` | the scheduler and its tasks | one variable per field (named after it), control points `mpc` (main thread), `wpc` (workers), `cpc` (API callers). A step is one critical section, one atomic access or one queue operation |
| `PluginReload` (extends `Scheduler`) | `Server::reload` up to `clearPlugins` | `rpc` and the locals of `getActiveWorkers`; the main thread is inside reload, all other threads go on |
| `ThreadPoolExecutor` | the pool | queue, `done`, worker and destructor control points, notifications under way |
| `Executor` | what the scheduler relies on: a submitted job runs once, none is left when the pool is gone | `submitted`, `executed`, `closed` |
| `PluginLoading` | `loadPlugin`, `loadPlugins` | the maps of the code; a step is one loop iteration |
| `PluginEvents` | plugin life cycle, handler lists, `callEvent` | `enabled`, `handlers`, `baked`, `valid`, and per thread a `stack` of calls in progress, so that plugin code can call the manager from within any of its calls |
| `ServiceManager` | services | `providers`; one action per operation, each under the mutex |
| `PluginHost` | composes the two: service calls are made wherever plugin code runs | |
| `Permissions` | registry, tables, subscriptions, attachments, caches, op status | one action per operation, including the recalculations it ends with (`Recalculate`) |
| `CommandUsage` | the parser as a fold over tokens, and `Readings`, a declarative definition of what a usage means | |
| `CommandMap` (extends `CommandUsage`) | `custom_commands_` and the game's registry through start-up and reloads | `map`, `loaded`, `pc` |
| `Bootstrap` | `endstone/cli/base.py` | files of the folder as variables, `step` is the place in `run()` |
| `BanList` | a ban list, its file, the commands | `entries`, `file`, the clock `now` |
| `Deployment` | composes them: every start of the server goes through the bootstrap, and the constructor loads the bans | `events` bounds the faults |
| `LogFiles` | `FileLogSink` | files, buffer, and the locals of `rotate`; a step is one operation on a file |
| `Vectors` | erasing from a vector (`OnlyIn`), the vectors of a vector one after the other (`Joined`), a loop over a vector (`Folded`); used by events, services, permissions and commands | |
| `SchedulerProofs`, `ThreadPoolProofs`, `PluginLoadingProofs`, `RegistryProofs`, `DeploymentProofs`, `LogProofs`, `HostProofs`, `VectorsProofs` | theorems | |
| `MC*` | instances for TLC | |

`Scheduler` contains its executor as the multiset `jobs` that workers take from: exactly the
abstract `Executor`, which `ThreadPoolExecutor` is shown to implement. `Deployment` is shown to
implement `Bootstrap` and `BanList`.

Abstractions worth knowing:

* Callbacks are opaque. Plugin code on the main thread is any sequence of API calls, between
  heartbeats and inside a body (`CanCall`). In `Scheduler`, API calls made by `onDisable` itself are
  not interleaved into `DisablePlugin`; the same calls directly before it are. In `PluginEvents`
  they are interleaved: `onDisable` is a frame of the stack.
* `pending_`, a bucket of `queue_` and `jobs` are multisets. The lock-free queue orders only one
  producer's elements, and a bucket is a heap walked as a vector, so the models allow every order.
* The heartbeat takes a task out of its bucket when it reaches it; the code erases the bucket at
  the end. The difference can be seen only by a reload nested inside a body, which is not modelled
  (see the hazards).
* Ticks are taken modulo `TickMod` (2^64 in the code), so the wrap of `current_tick_ + delay` is real.
* The level's tick and `Level::tick` are external; `levelTick` starts at any member of `LevelStart`.
* In `PluginLoading` lists of names are sets, and each pass may walk the map in a new order. A
  plugin's own verdict (well-formed name, `onLoad` does not throw) is the Boolean `ok`.
* In `PluginEvents` a dispatch may read a handler that has been destroyed. What it finds there is a
  nondeterministic choice (`Looks`): it takes the handler for one of an enabled plugin, or not.
* An operation on permissions runs on the server thread and calls no plugin code, so it is one step.
  Children that form a cycle exhaust the stack in the code and are left out (`Acyclic`). Reading
  a destroyed permission sets `undefined`, after which the model promises nothing and stops.
  Names stand for all their spellings, as the code lowers their case.
* The game's command registry (signatures, aliases, soft enums) is external: modelled by what
  `command_map.cpp` does to it. A usage is the sequence of its tokens; the lexer is not modelled.
* Files are absent, whole or torn. A write truncates first, so any interruption leaves a torn file.
  A version is its rank. The ban list's clock counts half seconds because the file keeps whole
  ones, which is where an expiry is rounded.
* What the code does not notice is not an error there: a short copy of `latest.log` is a step of `Copied`
  like any other, a ban file that cannot be read gives an empty list (`Loaded`). Of an entry's setters the one
  for the date is modelled; reason, source and creation date play no part in a lookup.
* `LogFiles` has no clock that is set back and no day of another length (daylight saving).
* The player and the IP ban list are one template: the instance uses the player's matching.
* History variables are read by properties only: `beats`, `due`, `enqBeat`, `runs`, `raced`,
  `snatched` (scheduler), `needs`, `turned` (loading), `snap`, `seen`, `excused`, `off` in the frame of
  a dispatch, `stamps` (services), `stale`, `changed`, `hot` (permissions), `orphans` (commands),
  `begun` (bootstrap), `standing`, `unsaved` (bans), `settled`, `dropped`, `missed` (logs).

## 3. Runs

Bounds are constants of the cfg files. `MaxTick` bounds heartbeats, `RegTick` the tick after
which nothing is registered (so that every registered task's ticks are explored), `IdLimit` the
ids, `MaxPolls` reload's polls (50 in the code; two are enough to poll, wait and time out),
`MaxDepth` the nesting of calls, `MaxProviders` registrations of services, `MaxSuffix` copies of an
enum's name, `MaxEvents` faults and ban operations of a deployment, `MaxTime` its clock.

| Run | Checks | Instance, and why it is enough |
|---|---|---|
| `scheduler_sync` | `SingleEntry`, `NoLostTask`, `RunsOnItsTick`, `CancelledIsPurged` | one sync task, main and one other thread, delays and periods 0 and 2, levels starting at 0 and at 7, four heartbeats: the task is registered before the first heartbeat, is rescheduled, cancels itself, and is cancelled at every point of the cleanup. Tasks meet only in queues that are multisets |
| `scheduler_live` | `PendingRuns`, `CancelledLeaves` | a sync and an async task with a worker and the main thread, which cancels between and inside heartbeats |
| `reload` | `NoUseAfterDestroy`, `CallbacksReleased`, `Cancellable`, `LastOneRemoves`, `DisabledIsQuiet` | one async task, due now or in the future, on two workers (its runs overlap), and another thread that registers and cancels while the main thread disables, waits and cleans |
| `thread_pool` | `ImplementsExecutor`, `SubmittedRuns`, `DestructorReturns` | 3 jobs on 2 workers: one worker runs, one waits, and a job is submitted during the drain |
| `loading` | `DependenciesFirst`, `CrossedOffIsLoaded`, `NoneLeftOut`, `SoftOrder`, `LoadingEnds` | three plugins that need one another and APIs, hard and soft, ask to go before one another, or need what nobody provides, with conflicting names too; every walk order, every failure of `onLoad`, any split into several calls. Three give chains, cycles and a bystander |
| `events` | `BakedIsFresh`, `DanglingOnlyWhenDisabled`, `DispatchIsComplete`, `GetIsHighest` | two plugins, two handlers of one event registered against the order of their priorities and one of an asynchronous event, two nested calls on the server thread and one on another. Two levels let a handler disable, enable or reload during its own dispatch; a service vector of two has an order |
| `permissions` | `TablesExact`, `SubscriptionsExact`, `CacheFresh`, `OpChangeIsNoticed` | two names, one of them held by two objects in turn, one linked below the other positively and negatively, a player, the console and an attachment. Defaults `Operator` and `NotOperator` put a permission into different tables |
| `commands` | `TablesAgree`, `DefaultsResolve`, `OwnersLoaded`, `EnumsAccountedFor`, `ParsesUsages` | two plugins that want one another's names and the server's, some 350 usages (four well formed ones, each cut anywhere or with any token in place of one of the first seven), and reload after reload with other plugins |
| `deployment` | `ServesSupported`, `BansHold`, `DiskCurrent`, `UserFilesKept`, `Recovers` | two versions, two files the update overwrites and two it keeps, a name held by two accounts, four events: two interrupted launches and two ban operations, or any other four. A ban operation may be a change of a date through an entry, a save may fail, and so may the reading of the ban file at a start |
| `logs` | `NothingLost`, `ArchivesInOrder`, `RotationEnds` | two archives a date (so that one is renamed, one compressed, and one makes room), two dates, three lines, every operation failing or not, a copy that breaks off after any line without anybody noticing, a `latest.log` that does not open again |

`NoneLeftOut` makes no promise where a provided name is also a plugin's name: with such a
conflict the code warns, and the provider is deliberately not counted.

`events` explores events and services one at a time (`Separately`): they share no variable.

Deadlock checking is off where the system may stop: the schedulers' heartbeats are bounded,
loading ends when every candidate has been offered, the permissions model stops after undefined
behaviour, and the log's bounded days and lines run out.

### Disagreements between code and words

Each of these runs has one property that TLC violates; `PROJECT.json` quotes the line.

| Run | What happens |
|---|---|
| `cancel_tasks_race` | a task erased but not yet marked by `cancelTask` is missed by `disablePlugin` and starts |
| `load_before` | `load_before` on a target with soft dependencies adds the target's own name |

### Known limits

The properties are stated around these.

* Scheduler. A task that cancels itself is reported as not running inside its own body. A
  registration that was validated before the plugin was disabled is added after its tasks were
  cancelled (`raced`). A delay above 2^64 - 1 - `current_tick_` wraps and the task runs at once.
  `DisabledIsQuiet`, `NoUseAfterDestroy` and `CallbacksReleased` are stated apart from the two
  races (`raced`; `snatched`: erased by another canceller): they show that these are the only holes.
* Loading. `loaded_plugins` is local, so a plugin is turned away for a dependency that an earlier call of
  `loadPlugins` loaded. A soft dependency on a provided API never clears,
  because `plugins_provided` never shrinks, so its order is dropped in the end (`SoftApiDescriptions`).
  A pass that only turned a plugin away is taken for a stuck one, so soft dependencies of the others
  are ignored (`UnknownDescriptions`). `load_before` may add the wrong name (the run `load_before`).
  `SoftOrder` has its hypotheses for these reasons: dependencies on plugins by their own names, nobody
  turned away.
* Events. A handler that disables a plugin destroys handlers the dispatch has yet to reach, and
  the copied vector still points at them; the same happens to an asynchronous dispatch.
  `DanglingOnlyWhenDisabled` shows there is no other way to meet one.
* Permissions. `removePermission` leaves the destroyed object in the tables of default permissions,
  and the next recalculation at that level reads it. `addPermission` and `removePermission` do not
  recalculate who holds the name otherwise, and a change of op that a recalculation precedes
  leaves the player's caches unmarked (`stale`, `hot`).
* Commands. Unregistering a command with a parameter of type `entity_type` empties the game's own
  `EntityType` enum although only "enums introduced by custom commands" are to go; enums of a
  usage that is refused stay behind (`orphans`).
* Bans. A save that fails is noticed by nobody, and a restart then loses the list. `load` empties the list
  before it opens the file, and nobody looks at its result: a file that cannot be read leaves a server
  without bans, and its next save overwrites the file. The entries that `addBan`, `getBanEntry` and
  `getEntries` hand out are the ones in the list; what their setters change is saved only with the next
  ban or pardon. `BansHold` and `DiskCurrent` exempt these three ways and no other (`unsaved`). A pardon by name removes the first match only, so a second account of that name stays banned.
* Bootstrap. A crash while `version.txt` or `endstone.toml` is written leaves a file that every later
  launch fails to read; `Recovers` says so (`Refuses`).
* Logs. `compress` looks at no stream after the copy: if reading `latest.log` or writing the archive breaks
  off, the short archive is taken for whole and the source is removed. `NothingLost` exempts the lines
  that were left out (`missed`). When `latest.log` cannot be opened again the message in hand is lost, and the next
  one of the day tries the rotation again (`ReopenFails`). `rotate` names archives by the date it runs on, not by the date of the lines in them. The
  next rotation is 24 hours after midnight, an hour off when the clocks change.

Further places that the models do not reach, found while reading:

| Place | What can go wrong |
|---|---|
| `scheduler.cpp:336` | the id counter wraps and skips only ids in `tasks_`; a cancelled sync task still in `queue_` keeps its id and its late `removeTask` would hit the new owner |
| `scheduler.cpp:246` | only `std::exception` is caught around a body; anything else leaves the bucket in place |
| `permissible_base.cpp:125`, `:137`, `:180` | attachments outlive their plugin; a removal callback that changes `attachments_` invalidates the iterator; children in a cycle never end |
| `permission.h:175` | `plugin_manager_` has no initial value |
| `command_map.cpp:127`, `server.cpp:410` | `getCommand` reads without the mutex; the map does not exist before the level does |
| `base.py:134`, `:185`, `:226` | a skipped member keeps `server.properties` untuned after an interrupted first install; nested tables are not migrated; an older package put back after an interrupted update runs mixed files |
| `asyncio/__init__.py:69` | `shutdown` waits for the loop while it holds the lock its coroutines may want |
| `player.cpp:621`, `boss_bar.cpp:141`, `:158`, `server.cpp:822` | callbacks of unanswered forms survive a reload; bars share the player's id and are pruned only when read; a new board sends before it is recorded |

## 4. Fairness

* Scheduler: the server keeps ticking and a heartbeat that has begun goes on (weak fairness of
  `Heartbeat`); plugin code on the main thread comes to an end, so heartbeats begin and bodies
  end again and again although plugin code may keep calling the API in between (strong fairness
  of `HeartbeatBegin` and `BodyEnd`); a thread inside an API call and the workers go on (weak
  fairness per thread and worker). Nothing forces anyone to register or cancel.
* Pool: threads run, jobs return, the timed wait ends by itself, a destructor that has begun
  goes on. The owner is not obliged to destroy the pool.
* Loading: a call that has begun goes on (one thread).
* Deployment: weak fairness of `Boots` and `RunServer`. The bootstrap runs straight through, and whoever
  starts it starts it again after a failure. Crashes, the user and the server's end are not fair;
  `MaxEvents` bounds the crashes, so the claim is recovery once they cease.
* Logs: weak fairness of `Rotation`: a call of `rotate` goes on. That an operation on a file succeeds is
  not assumed.

## 5. Proofs

For every value of the constants, from the named assumptions of the modules only: types of the
constants, null values outside the sets, at least one worker, fewer heartbeats than the tick's
width (`SchedulerAssumption`, `PoolAssumption`, `LoadingAssumption`, `PermissionsAssumption`,
`UsageAssumption`, `CommandAssumption`, `ArchiveAssumption`, `MaxTimeAssumption`, `LogAssumption`,
`EventsAssumption`, `ServiceAssumption`), and, for the commands, that the server's own commands
have names of their own and usages that parse (`DefaultAssumption`; `setDefaultCommands` would
log an error and go on without). `SchedulerRunsOnItsTick` has the one hypothesis that the
ticks of the session plus any delay or period stay below 2^64 (`NoWrap`): a task whose tick wraps is
run at once, see the known limits.

| Theorem | States |
|---|---|
| `PoolConserves`, `PoolDrains`, `PoolImplementsExecutor` | `JobsConserved`, `DestructorDrains`, the refinement |
| `SchedulerTyped`, `SchedulerPurges`, `SchedulerSingleEntry`, `SchedulerLosesNoTask` | `TypeOK`, `CancelledIsPurged`, `SingleEntry`, `NoLostTask` |
| `SchedulerCancellable`, `SchedulerLastOneRemoves`, `SchedulerDisabledIsQuiet`, `SchedulerRunsOnItsTick` | the four invariants of that name |
| `ReloadImplementsScheduler` | a reload is a behaviour of the scheduler, so the above hold during it |
| `ReloadNoUseAfterDestroy`, `ReloadReleasesCallbacks` | `NoUseAfterDestroy`, `CallbacksReleased` |
| `LoadingRespectsDependencies`, `LoadingBookkeeping`, `LoadingTurnsAwayRightly`, `LoadingSoftOrder` | `DependenciesFirst`, `CrossedOffIsLoaded`, `NoneLeftOut`, `SoftOrder` |
| `PermissionTablesExact`, `PermissionSubscriptionsExact`, `PermissionOpChangeIsNoticed`, `PermissionCacheFresh` | the four invariants of that name |
| `CommandTablesAgree`, `CommandDefaultsResolve`, `CommandOwnersLoaded`, `CommandEnumsAccountedFor`, `CommandParsesUsages` | the five invariants of that name |
| `BootServesSupported`, `BootVersionTruthful`, `BootUserFilesKept` | `ServesSupported`, `VersionTruthful`, the action property `UserFilesKept` |
| `ListEntriesDistinct`, `ListBansHold`, `ListDiskCurrent` | the three invariants of that name |
| `DeploymentImplements`, `DeploymentSafe` | the composition implements both its parts, and so has their properties |
| `LogsAreKept`, `LogsAreInOrder` | `NothingLost`, `ArchivesInOrder` |
| `ServiceGetIsHighest`, `HostBakedIsFresh`, `HostDanglingOnlyWhenDisabled`, `HostDispatchIsComplete` | `GetIsHighest`, `BakedIsFresh`, and the two about dispatches |
| `OnlyInOrder`, `JoinedElements`, `JoinedOrder` | erasing from a vector keeps the order of the rest; joining vectors keeps their elements and their order |

The inductive invariants:

* `SchedulerProofs`. `TypeInv` adds `ControlOK` to `TypeOK`: where a thread's program counter says
  it holds a task, it does. `CancelledIsPurged` is inductive with it, because every canceller
  sets the flag after the mark and the exchange is followed by the cleanup. `EntryInv` strengthens
  `SingleEntry` with the tasks that are being registered: a task on its way into `pending_` is in
  no queue, and only one thread brings it. `RunInv` strengthens `NoLostTask` with the run
  count: a one-shot that is still on its way has not run. `TaskInv` ties `tasks_`, `workers_` and
  the cancellers together: ids are unique and `tasks_` holds a task only under its own (`IdsOK`),
  what is not yet inserted can have been found by nobody (`UnbornOK`), one worker at a time removes a task
  (`WorkersOK`), a task with a run ahead of it is in `tasks_`, cancelled, or in the hands of its
  canceller (`HeldOK`), and what `disablePlugin` has looked at is cancelled or about to be (`QuietOK`).
  `RunsOnItsTick` follows from where a task of each tick can be while the clock moves (`ClockOK`,
  `AskedOK`, `PlacedOK`). `ReloadInv` follows reload from step to step: disabling leaves no task that
  is not cancelled (`SettledOK`, `AllDisabledOK`), polling finds no worker inside one and none comes back
  (`PolledOK`), and the cleanup leaves none in the queue (`ReleasedOK`).
* `ThreadPoolProofs`. `JobsConserved` needs that a worker holds a job exactly while it runs one;
  `DestructorDrains` needs that a job submitted during the drain is submitted by a worker that will
  look at the queue again, so an empty queue can only be left behind by the last worker.
* `PluginLoadingProofs`. `LoadingInv`: every name `loadPlugins` holds as loaded has an entry in
  `lookup_names_`, every entry stands for a plugin in `plugins_` that has the name, and the
  registered dependencies of a name cover its candidate's until they are crossed off. `LeftOutInv`
  adds that whoever was turned away lacks a dependency that nobody left in the map would bring
  (`TurnedLacks`), which stands on the lists of the visited being up to date in a pass that loads
  nothing (`VisitedIsFresh`). `SoftInv`: the lists of a name are what its candidate asked for and is not
  there yet (`ListsOwn`, `ListsWhole`), and in a pass that loads nothing whoever was visited waits for
  somebody in the map (`VisitedWaits`). Of those in the map the one that ranks lowest waits for
  nobody, so the pass always loads somebody and soft dependencies are never ignored; and who is clear
  to load overtakes nobody (`NoneOvertaken`). The hypotheses of `SoftOrder` are
  needed, as the code breaks the order without them (see the known limits): `ByOwnName` (no `load_before`,
  no dependency on a provided API) and nobody turned away so far. Failures of `onLoad` and every walk order
  are included.
* `RegistryProofs`, permissions. `RegistryInv` types the registry beside `TablesExact`; erasing and
  inserting are reduced to membership by the lemmas on `OnlyIn`. `SubscriptionInv` adds to
  `SubscriptionsExact` that the dead have no attachments (`DeadHaveNone`), so that a
  recalculation can only concern the living. `OpInv` ties the history to the code:
  who is marked as changed is exactly who `checkOpStatus` will see (`ChangesKnown`), and
  the level a player is subscribed to is the one of the last status noticed (`NoticedLevel`).
  `CacheInv` puts the three together with `AttachedOnce` (an attachment belongs to one permissible)
  and `LevelKnown`, so that an operation can name everybody whose cache it may have made
  stale: `EffectiveStays` shows that whoever is subscribed to none of the names it touches has the same
  effective permissions before and after.
* `RegistryProofs`, commands. `MapInv`: the labels of a command lead to it and to its signature
  (`LabelsAgree`), a signature is the game's or ours (`SignaturesOwned`), and an enum with values is
  accounted for (`EnumsUsed`). `CommandInv` adds that the server's commands are there and whose the
  others are (`Owners`: of the loaded plugins while the server is up, of nobody between the steps
  of a reload). Clearing needs the second part of `MapInv`: what is left has only the game's labels,
  so the server's commands find their names free again.
* `RegistryProofs`, usages. `CommandParsesUsages` compares the parser, which goes from token to token,
  with `Readings`, which says by their form into which parameters a usage can be cut.
  One way round, `PieceRuns`: what has the form of a parameter is read to its end and adds what that form
  means. The other, `AllReached`: wherever the parser is inside a parameter, the tokens since
  the last place where one could begin have the form of the first part of one (`Inside`), and when
  it comes out they have the form of a whole one. `PrefixReadings` puts the two together for the first
  `j` tokens: they have no reading where the parser is inside a parameter or in error, and where a
  parameter may begin they have one, which is the parser's. The case of each token is in `StepFollows`.
* `DeploymentProofs`. `BootInv` says what each step of a launch can rely on: files are replaced
  only while `version.txt` names an older version (`Behind`), and those already replaced are the new
  ones (`Progress`); where there is a `version.txt` there is an executable (`Marked`); past the update
  `version.txt` names the supported version (`Ready`); the properties file is tuned only where the
  launch itself extracted it (`OwnProperties`). `BanInv` adds that what stands is matched by the entries
  in memory while the server is up, and by the file while nothing is unsaved, up to
  the rounding of a second; that is why restarts keep the bans. A change of a date changes the entry
  and what stands alike, so it keeps the first part and ends the second until the next save; a start
  that does not read the file begins again with no bans and with a file that does not count.
* `LogProofs`. `LogInv`: `latest.log` is whole (`BaseIsWhole`), no archive bears a future date
  (`NothingAhead`), the place the next file moves to is empty unless it is the last of its date
  (`Vacant`), the source of a move is there (`Source`), and its target holds nothing that is not in
  the source too, and all of the source but what is in `missed` when the source is removed (`Goal`). From these, that every flushed line is in some complete file is kept by each single
  operation, hence by crashes between them. `LogOrder` adds that what is not
  flushed is newer than all that is (`Waiting`) and that a file moved to a new date, since midnight
  passed during a rotation, comes there first (`NewDates`).
* `HostProofs`. `ServiceInv`: every vector of providers is strictly sorted by priority and then by
  date, and no date lies ahead of the count. `lower_bound` keeps it so because what outranks the
  newcomer is a prefix; erasing keeps it so because it keeps the order (`OnlyInOrder`). `ListInv`
  adds to `BakedIsFresh` that a list holds only constructed handlers of its own event, so that the
  lists `disablePlugin` leaves valid are the empty ones. `HostInv` adds that
  registered handlers keep their priority (`OrderInv`) and, for every call on a thread's stack, how far
  it has come through its copy (`Course`), that it has called or excused just those handlers
  (`Record`; the copy is in order by `JoinedOrder`), and that it knows the owner of every destroyed
  handler ahead of it (`Watch`).

Loops. What a loop over data computes for every input would need induction over data, whose rule
takes an operator as a parameter and is out of reach. But induction over a *set* of naturals needs none:
`SetInduction` (in `VectorsProofs`) derives it from the finite pigeonhole principle. So loops are
written as `Folded` (a function applied to the elements one after the other) or as a recursive
function over places; `FoldedCourse` shows that the values in between exist, `FoldedKeeps` and
`FoldedRelated` that what every step keeps holds of the result. The walk over children
(`CacheFresh`) and the commands, usages, parameters and tokens (the command map) rest on these. `OnlyIn` and
`Joined` need no recursion: they name an element by its rank. `MCPluginHost` has an assumption
that compares the three with the recursions of the community modules over small sequences.

Only model-checked: everything temporal under fairness (`PendingRuns`, `CancelledLeaves`,
`SubmittedRuns`, `DestructorReturns`, `LoadingEnds`, `Recovers`, `RotationEnds`), which is out of the prover's
reach.

Only proved: the types (`TypeOK`), `JobsConserved`, `DestructorDrains`, `VersionTruthful` and
`EntriesDistinct` are parts of the inductive invariants; what they are for is checked by the runs
(`ImplementsExecutor`, `ServesSupported`, `BansHold`).

## 6. Not modelled, and the plan

Not modelled:

* asyncio runner: its `shutdown`, the only operation that waits, is called by nothing in the
  repository, so there is no protocol to get wrong.
* Boss bars, scoreboard, forms: a list of players or of callbacks beside packets; what the client
  shows is the game's. The places found there are in the table of section 3.
* Console, signals and crash handling, console log: terminal and operating-system I/O.
* Players, actors, blocks, levels, inventory, items, maps, NBT: calls into objects of the game, one
  each, whose behaviour is not in the repository; of a player, op status and permissions are.
* Game bindings, hooks, Python bindings, developer tools, metrics: declarations of the game's
  binary interface, rendering and reporting. They are by far most of the repository's lines and
  keep no state of their own, which is why the map covers a small share of them.
* Of the modelled parts: `Scheduler`'s id counter never wraps; reload is not nested in a task's
  body; `dispatch` of a command changes no state; how Windows injects the library at launch.

Next:

* reload from inside a task's body, the reuse of ids after the wrap, and boss bars with players
  that leave.

`PROJECT.json` lists every part, and under `hazards` the places where the code is hard to test.
