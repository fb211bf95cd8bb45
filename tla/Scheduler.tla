------------------------------ MODULE Scheduler ------------------------------
(***************************************************************************)
(* EndstoneScheduler (src/endstone/core/scheduler): the sync and async     *)
(* task scheduler of the plugin API.                                       *)
(*                                                                         *)
(* Three kinds of thread touch it:                                         *)
(*   - the main thread, whose mainThreadHeartbeat runs once per level tick *)
(*     and walks pending_ and queue_ (variables mpc, mtask, kept);         *)
(*   - the executor's worker threads, which run EndstoneAsyncTask::run     *)
(*     (variables wpc, wtask);                                             *)
(*   - any thread that calls the API: runTask*, cancelTask, cancelTasks    *)
(*     (variables cpc, ctask, cset).  The main thread is one of them: it   *)
(*     calls the API between heartbeats and from the body of a sync task.  *)
(* A step is one critical section of tasks_mtx_ or of a task's mutex_, one *)
(* access to an atomic, or one operation on a lock-free queue.             *)
(*                                                                         *)
(* Abstractions.  pending_, a bucket of queue_ and the executor's queue    *)
(* are multisets (functions to Nat): moodycamel::ConcurrentQueue orders    *)
(* only the elements of one producer, and a bucket is a vector in heap     *)
(* order, so every order is allowed here.  A task object is a member of    *)
(* Task and is constructed at most once; Sync says which of them are       *)
(* EndstoneTask and which EndstoneAsyncTask.  Callbacks are opaque.        *)
(***************************************************************************)
EXTENDS Naturals, FiniteSets

CONSTANTS
    Task,        \* the task objects that may ever be constructed
    Sync,        \* those of class EndstoneTask; the others are EndstoneAsyncTask
    Thread,      \* threads that call the scheduler's API
    Main,        \* the server thread, one of Thread
    Worker,      \* threads of the ThreadPoolExecutor
    Plugin,      \* plugins that own tasks
    NoTask,      \* null std::shared_ptr<EndstoneTask>
    NoPlugin,    \* null Plugin*: owner of the server's internal tasks
    Delays,      \* delays a caller passes
    Periods,     \* periods a caller passes; 0 is a one-shot task
    LevelStart,  \* level ticks at which a session may start
    TickMod,     \* 2^64: width of std::uint64_t ticks
    IdLimit,     \* 2^32 - 1: std::numeric_limits<uint32_t>::max()
    MaxTick,     \* bound: heartbeats explored
    RegTick      \* bound: no task is registered after this tick

ASSUME SchedulerAssumption ==
    /\ Sync \subseteq Task
    /\ Main \in Thread
    /\ NoTask \notin Task
    /\ NoPlugin \notin Plugin
    /\ Delays \subseteq Nat
    /\ Periods \subseteq Nat
    /\ LevelStart \subseteq Nat
    /\ TickMod \in Nat
    /\ IdLimit \in Nat
    /\ MaxTick \in Nat
    /\ RegTick \in Nat
    /\ MaxTick < TickMod

VARIABLES
    \* EndstoneScheduler
    tasks,      \* tasks_: id -> task, NoTask where the map has no entry
    ids,        \* ids_: the next id to hand out
    pending,    \* pending_: how often each task is in the concurrent queue
    queue,      \* queue_: tick -> how often each task is in that bucket
    baseTick,   \* base_tick_: level tick of the first heartbeat, a set of at most one
    curTick,    \* current_tick_
    curTask,    \* current_task_: id of the sync task whose body runs, 0 if none
    flag,       \* has_cancelled_tasks_
    jobs,       \* executor_: submitted runs of async tasks not yet taken
    \* EndstoneTask / EndstoneAsyncTask, per task object
    id,         \* id_, 0 while the object is not constructed
    owner,      \* plugin_
    period,     \* period_
    delay,      \* the caller's delay argument
    nextRun,    \* next_run_
    cancelled,  \* cancelled_
    workers,    \* workers_: threads inside the body
    \* Plugin
    enabled,    \* Plugin::enabled_
    \* control state of the threads
    mpc, mtask, kept,
    inReload,   \* removeCancelledTasks was called by Server::reload
    wpc, wtask,
    cpc, ctask, cset, closing,
    \* the world outside: Level's persisted server tick
    levelTick,
    \* history, read by properties only
    beats,      \* heartbeats begun
    due,        \* heartbeat on which the task's next run was asked for
    enqBeat,    \* heartbeat during or after which it was put into pending_
    runs,       \* how often it was run (sync) or submitted (async)
    raced       \* added to tasks_ after its owner's disablePlugin had cancelled

schedVars == <<tasks, ids, pending, queue, baseTick, curTick, curTask, flag, jobs>>
taskVars  == <<id, owner, period, delay, nextRun, cancelled, workers>>
mainVars  == <<mpc, mtask, kept, inReload>>
workVars  == <<wpc, wtask>>
callVars  == <<cpc, ctask, cset, closing>>
histVars  == <<beats, due, enqBeat, runs, raced>>
vars == <<schedVars, taskVars, enabled, mainVars, workVars, callVars, levelTick, histVars>>

Async == Task \ Sync
Tick  == 0 .. (TickMod - 1)
Id    == 1 .. (IdLimit - 1)
Empty == [t \in Task |-> 0]

\* Control points of the main thread.
RemovingCancelled == {"rcDrain", "rcRefill", "rcPurge"}
Running == {"start", "body", "after", "remove"}
MainPC  == {"idle", "flag", "drain", "scan"} \cup RemovingCancelled \cup Running
WorkPC  == {"idle", "start", "body", "remove"}
\* Control points of a caller: registering a task, cancelling tasks.
Registering == {"construct", "insert", "enqueue"}
Cancelling  == {"doCancel", "checkIdle", "remove", "setFlag"}
CallPC  == {"idle", "disabling"} \cup Registering \cup Cancelling

SchedTypeOK ==
    /\ tasks \in [Id -> Task \cup {NoTask}]
    /\ ids \in Nat
    /\ pending \in [Task -> Nat]
    /\ queue \in [Tick -> [Task -> Nat]]
    /\ baseTick \in SUBSET Nat
    /\ curTick \in Tick
    /\ curTask \in Id \cup {0}
    /\ flag \in BOOLEAN
    /\ jobs \in [Task -> Nat]

TaskTypeOK ==
    /\ id \in [Task -> Id \cup {0}]
    /\ owner \in [Task -> Plugin \cup {NoPlugin}]
    /\ period \in [Task -> Nat]
    /\ delay \in [Task -> Nat]
    /\ nextRun \in [Task -> Tick]
    /\ cancelled \in [Task -> BOOLEAN]
    /\ workers \in [Task -> SUBSET Worker]
    /\ enabled \in [Plugin -> BOOLEAN]

ThreadTypeOK ==
    /\ mpc \in MainPC
    /\ mtask \in Task \cup {NoTask}
    /\ kept \in [Task -> Nat]
    /\ inReload \in BOOLEAN
    /\ wpc \in [Worker -> WorkPC]
    /\ wtask \in [Worker -> Task \cup {NoTask}]
    /\ cpc \in [Thread -> CallPC]
    /\ ctask \in [Thread -> Task \cup {NoTask}]
    /\ cset \in [Thread -> SUBSET Task]
    /\ closing \in Plugin \cup {NoPlugin}

HistTypeOK ==
    /\ levelTick \in Nat
    /\ beats \in Nat
    /\ due \in [Task -> Nat]
    /\ enqBeat \in [Task -> Nat]
    /\ runs \in [Task -> Nat]
    /\ raced \in SUBSET Task

TypeOK == SchedTypeOK /\ TaskTypeOK /\ ThreadTypeOK /\ HistTypeOK

Init ==
    /\ tasks = [i \in Id |-> NoTask]
    /\ ids = 1
    /\ pending = Empty
    /\ queue = [k \in Tick |-> Empty]
    /\ baseTick = {}
    /\ curTick = 0
    /\ curTask = 0
    /\ flag = FALSE
    /\ jobs = Empty
    /\ id = Empty
    /\ owner = [t \in Task |-> NoPlugin]
    /\ period = Empty
    /\ delay = Empty
    /\ nextRun = Empty
    /\ cancelled = [t \in Task |-> FALSE]
    /\ workers = [t \in Task |-> {}]
    /\ enabled = [p \in Plugin |-> TRUE]
    /\ mpc = "idle" /\ mtask = NoTask /\ kept = Empty /\ inReload = FALSE
    /\ wpc = [w \in Worker |-> "idle"]
    /\ wtask = [w \in Worker |-> NoTask]
    /\ cpc = [th \in Thread |-> "idle"]
    /\ ctask = [th \in Thread |-> NoTask]
    /\ cset = [th \in Thread |-> {}]
    /\ closing = NoPlugin
    /\ levelTick \in LevelStart
    /\ beats = 0
    /\ due = Empty
    /\ enqBeat = Empty
    /\ runs = Empty
    /\ raced = {}

-----------------------------------------------------------------------------
(***************************************************************************)
(* Parts shared by the operations.                                         *)
(***************************************************************************)
\* removeTask: the map without the entry of id i; no effect when there is none.
RemoveTask(i) == [tasks EXCEPT ![i] = NoTask]

\* nextId: ids_ counts up and skips ids that are taken.  Named bound: fewer than
\* IdLimit ids are handed out, so the wrap to 1 is not reached.
IsNextId(i) ==
    /\ i >= ids /\ tasks[i] = NoTask
    /\ \A j \in Id : ids <= j /\ j < i => tasks[j] # NoTask

\* A thread may enter the API: the main thread only where plugin code runs on it.
CanCall(th) == cpc[th] = "idle" /\ (th = Main => mpc \in {"idle", "body"})

\* A task object nobody constructed or is about to construct.
Fresh(t) == id[t] = 0 /\ \A th \in Thread : ctask[th] # t

-----------------------------------------------------------------------------
(***************************************************************************)
(* Registering a task: runTask, runTaskLater, runTaskTimer and their async *)
(* forms, which only differ in the object they construct.                  *)
(***************************************************************************)
\* validate: a disabled plugin is refused (the call returns nullptr and changes
\* nothing); the answer is not looked at again.
Validate(th, t, p, d, n) ==
    /\ CanCall(th)
    /\ curTick <= RegTick
    /\ Fresh(t)
    /\ enabled[p]
    /\ owner' = [owner EXCEPT ![t] = p]
    /\ delay' = [delay EXCEPT ![t] = d]
    /\ period' = [period EXCEPT ![t] = n]
    /\ ctask' = [ctask EXCEPT ![th] = t]
    /\ cpc' = [cpc EXCEPT ![th] = "construct"]
    /\ UNCHANGED <<schedVars, id, nextRun, cancelled, workers, enabled, mainVars, workVars, cset, closing, levelTick, histVars>>

\* The server's own runTask(std::function): sync, once, without an owner.
RunInternalTask(th, t) ==
    /\ CanCall(th)
    /\ curTick <= RegTick
    /\ Fresh(t)
    /\ t \in Sync
    /\ ctask' = [ctask EXCEPT ![th] = t]
    /\ cpc' = [cpc EXCEPT ![th] = "construct"]
    /\ UNCHANGED <<schedVars, taskVars, enabled, mainVars, workVars, cset, closing, levelTick, histVars>>

\* make_shared<Endstone(Async)Task>(..., nextId(), period) and setNextRun.
Construct(th, i) ==
    LET t == ctask[th] IN
    /\ cpc[th] = "construct"
    /\ IsNextId(i)
    /\ id' = [id EXCEPT ![t] = i]
    /\ ids' = i + 1
    /\ nextRun' = [nextRun EXCEPT ![t] = (curTick + delay[t]) % TickMod]
    /\ due' = [due EXCEPT ![t] = beats + delay[t]]
    /\ cpc' = [cpc EXCEPT ![th] = "insert"]
    /\ UNCHANGED <<tasks, pending, queue, baseTick, curTick, curTask, flag, jobs, owner, period, delay, cancelled, workers, enabled, mainVars, workVars, ctask, cset, closing, levelTick, beats, enqBeat, runs, raced>>

\* History: the owner is disabled and its cancelTasks has looked through tasks_.
MissedByDisable(t) ==
    /\ owner[t] \in Plugin
    /\ ~enabled[owner[t]]
    /\ ~(cpc[Main] = "disabling" /\ closing = owner[t])

\* addTask, under tasks_mtx_.
Insert(th) ==
    LET t == ctask[th] IN
    /\ cpc[th] = "insert"
    /\ tasks' = [tasks EXCEPT ![id[t]] = t]
    /\ raced' = IF MissedByDisable(t) THEN raced \cup {t} ELSE raced
    /\ cpc' = [cpc EXCEPT ![th] = "enqueue"]
    /\ UNCHANGED <<ids, pending, queue, baseTick, curTick, curTask, flag, jobs, taskVars, enabled, mainVars, workVars, ctask, cset, closing, levelTick, beats, due, enqBeat, runs>>

\* addTask, pending_.enqueue.
Enqueue(th) ==
    LET t == ctask[th] IN
    /\ cpc[th] = "enqueue"
    /\ pending' = [pending EXCEPT ![t] = @ + 1]
    /\ enqBeat' = [enqBeat EXCEPT ![t] = beats]
    /\ ctask' = [ctask EXCEPT ![th] = NoTask]
    /\ cpc' = [cpc EXCEPT ![th] = "idle"]
    /\ UNCHANGED <<tasks, ids, queue, baseTick, curTick, curTask, flag, jobs, taskVars, enabled, mainVars, workVars, cset, closing, levelTick, beats, due, runs, raced>>

-----------------------------------------------------------------------------
(***************************************************************************)
(* cancelTask, cancelTasks and PluginManager::disablePlugin.               *)
(***************************************************************************)
\* Under tasks_mtx_: the tasks are looked up and the sync ones erased from the
\* map; the async ones stay until they are idle.
StartCancel(th, found) ==
    /\ tasks' = [i \in Id |-> IF tasks[i] \in found \cap Sync THEN NoTask ELSE tasks[i]]
    /\ cset' = [cset EXCEPT ![th] = found]
    /\ cpc' = [cpc EXCEPT ![th] = IF found = {} THEN "setFlag" ELSE "doCancel"]
    /\ UNCHANGED <<ids, pending, queue, baseTick, curTick, curTask, flag, jobs, taskVars, enabled, mainVars, workVars, ctask, levelTick, histVars>>

\* An id that is not in the map: cancelTask returns, nothing changes.
CancelTask(th, i) ==
    /\ CanCall(th)
    /\ tasks[i] # NoTask
    /\ StartCancel(th, {tasks[i]})
    /\ UNCHANGED closing

\* Mutant: only sync tasks are found.
OwnedSyncBy(p) == {t \in Sync : owner[t] = p /\ \E i \in Id : tasks[i] = t}
\* The entries of tasks_ whose owner is the plugin.
OwnedBy(p) == {t \in Task : owner[t] = p /\ \E i \in Id : tasks[i] = t}

CancelTasks(th, p) ==
    /\ CanCall(th)
    /\ StartCancel(th, OwnedBy(p))
    /\ UNCHANGED closing

\* disablePlugin on the main thread: Plugin::setEnabled(false) ...
DisablePlugin(p) ==
    /\ CanCall(Main)
    /\ enabled[p]
    /\ enabled' = [enabled EXCEPT ![p] = FALSE]
    /\ closing' = p
    /\ cpc' = [cpc EXCEPT ![Main] = "disabling"]
    /\ UNCHANGED <<schedVars, taskVars, mainVars, workVars, ctask, cset, levelTick, histVars>>

\* ... then cancelTasks(plugin).
CancelDisabled ==
    /\ cpc[Main] = "disabling"
    /\ StartCancel(Main, OwnedBy(closing))
    /\ UNCHANGED closing

\* doCancel, first half: cancelled_ = true.  A sync task is done with; an async
\* one still has its workers looked at.
AfterCancelling(th, t) ==
    /\ cset' = [cset EXCEPT ![th] = @ \ {t}]
    /\ ctask' = [ctask EXCEPT ![th] = NoTask]
    /\ cpc' = [cpc EXCEPT ![th] = IF cset[th] = {t} THEN "setFlag" ELSE "doCancel"]

DoCancel(th, t) ==
    /\ cpc[th] = "doCancel"
    /\ t \in cset[th]
    /\ cancelled' = [cancelled EXCEPT ![t] = TRUE]
    /\ IF t \in Sync
       THEN AfterCancelling(th, t)
       ELSE /\ ctask' = [ctask EXCEPT ![th] = t]
            /\ cpc' = [cpc EXCEPT ![th] = "checkIdle"]
            /\ UNCHANGED cset
    /\ UNCHANGED <<schedVars, id, owner, period, delay, nextRun, workers, enabled, mainVars, workVars, closing, levelTick, histVars>>

\* Mutant: an idle task does not count as one.
IdleNever(t) == FALSE
\* EndstoneAsyncTask::doCancel, under the task's mutex_.
Idle(t) == workers[t] = {}

CheckIdle(th) ==
    LET t == ctask[th] IN
    /\ cpc[th] = "checkIdle"
    /\ IF Idle(t)
       THEN /\ cpc' = [cpc EXCEPT ![th] = "remove"]
            /\ UNCHANGED <<cset, ctask>>
       ELSE AfterCancelling(th, t)
    /\ UNCHANGED <<schedVars, taskVars, enabled, mainVars, workVars, closing, levelTick, histVars>>

RemoveIdle(th) ==
    LET t == ctask[th] IN
    /\ cpc[th] = "remove"
    /\ tasks' = RemoveTask(id[t])
    /\ AfterCancelling(th, t)
    /\ UNCHANGED <<ids, pending, queue, baseTick, curTick, curTask, flag, jobs, taskVars, enabled, mainVars, workVars, closing, levelTick, histVars>>

\* has_cancelled_tasks_.store(true); the call returns.
SetFlag(th) ==
    /\ cpc[th] = "setFlag"
    /\ flag' = TRUE
    /\ cpc' = [cpc EXCEPT ![th] = "idle"]
    /\ closing' = IF th = Main THEN NoPlugin ELSE closing
    /\ UNCHANGED <<tasks, ids, pending, queue, baseTick, curTick, curTask, jobs, taskVars, enabled, mainVars, workVars, ctask, cset, levelTick, histVars>>

-----------------------------------------------------------------------------
(***************************************************************************)
(* mainThreadHeartbeat, step by step.                                      *)
(***************************************************************************)
\* base_tick_ is anchored on the first heartbeat; session ticks start at 1.
Base == IF baseTick = {} THEN levelTick ELSE CHOOSE b \in baseTick : TRUE
\* Mutant: the level's own tick is used (issue #317).
SessionTickOfLevel == levelTick % TickMod
SessionTick == ((levelTick + TickMod) - Base + 1) % TickMod

HeartbeatBegin ==
    /\ mpc = "idle"
    /\ cpc[Main] = "idle"
    /\ beats < MaxTick
    /\ baseTick' = {Base}
    /\ curTick' = SessionTick
    /\ beats' = beats + 1
    /\ mpc' = "flag"
    /\ UNCHANGED <<tasks, ids, pending, queue, curTask, flag, jobs, taskVars, enabled, mtask, kept, inReload, workVars, callVars, levelTick, due, enqBeat, runs, raced>>

\* has_cancelled_tasks_.exchange(false).
ExchangeFlag ==
    /\ mpc = "flag"
    /\ flag' = FALSE
    /\ mpc' = IF flag THEN "rcDrain" ELSE "drain"
    /\ UNCHANGED <<tasks, ids, pending, queue, baseTick, curTick, curTask, jobs, taskVars, enabled, mtask, kept, inReload, workVars, callVars, levelTick, histVars>>

\* pending_.try_dequeue(task) returns this task.
Dequeues(t) == pending[t] > 0

\* removeCancelledTasks: pending_ is emptied into a local vector, without the
\* cancelled tasks.  Mutant: without any task.
KeepNone(t) == kept
Keep(t) == IF cancelled[t] THEN kept ELSE [kept EXCEPT ![t] = @ + 1]

RcDrain(t) ==
    /\ mpc = "rcDrain"
    /\ Dequeues(t)
    /\ pending' = [pending EXCEPT ![t] = @ - 1]
    /\ kept' = Keep(t)
    /\ UNCHANGED <<tasks, ids, queue, baseTick, curTick, curTask, flag, jobs, taskVars, enabled, mpc, mtask, inReload, workVars, callVars, levelTick, histVars>>

RcDrained ==
    /\ mpc = "rcDrain"
    /\ pending = Empty
    /\ mpc' = "rcRefill"
    /\ UNCHANGED <<schedVars, taskVars, enabled, mtask, kept, inReload, workVars, callVars, levelTick, histVars>>

\* ... put back ...
RcRefill(t) ==
    /\ mpc = "rcRefill"
    /\ kept[t] > 0
    /\ kept' = [kept EXCEPT ![t] = @ - 1]
    /\ pending' = [pending EXCEPT ![t] = @ + 1]
    /\ UNCHANGED <<tasks, ids, queue, baseTick, curTick, curTask, flag, jobs, taskVars, enabled, mpc, mtask, inReload, workVars, callVars, levelTick, histVars>>

RcRefilled ==
    /\ mpc = "rcRefill"
    /\ kept = Empty
    /\ mpc' = "rcPurge"
    /\ UNCHANGED <<schedVars, taskVars, enabled, mtask, kept, inReload, workVars, callVars, levelTick, histVars>>

\* ... and every bucket of queue_ loses its cancelled tasks.
\* Mutant: they lose none.
PurgeNone(bucket) == bucket
Purge(bucket) == [t \in Task |-> IF cancelled[t] THEN 0 ELSE bucket[t]]

RcPurge ==
    /\ mpc = "rcPurge"
    /\ queue' = [k \in Tick |-> Purge(queue[k])]
    /\ mpc' = IF inReload THEN "idle" ELSE "drain"
    /\ inReload' = FALSE
    /\ UNCHANGED <<tasks, ids, pending, baseTick, curTick, curTask, flag, jobs, taskVars, enabled, mtask, kept, workVars, callVars, levelTick, histVars>>

\* Server::reload calls removeCancelledTasks between heartbeats, whatever the flag.
ReloadCleanup ==
    /\ mpc = "idle"
    /\ cpc[Main] = "idle"
    /\ mpc' = "rcDrain"
    /\ inReload' = TRUE
    /\ UNCHANGED <<schedVars, taskVars, enabled, mtask, kept, workVars, callVars, levelTick, histVars>>

\* Pending tasks go to the bucket of their tick, or of this tick if that is past.
BucketOf(t) == IF nextRun[t] > curTick THEN nextRun[t] ELSE curTick

Drain(t) ==
    /\ mpc = "drain"
    /\ Dequeues(t)
    /\ pending' = [pending EXCEPT ![t] = @ - 1]
    /\ queue' = IF cancelled[t] THEN queue ELSE [queue EXCEPT ![BucketOf(t)][t] = @ + 1]
    /\ UNCHANGED <<tasks, ids, baseTick, curTick, curTask, flag, jobs, taskVars, enabled, mainVars, workVars, callVars, levelTick, histVars>>

Drained ==
    /\ mpc = "drain"
    /\ pending = Empty
    /\ mpc' = "scan"
    /\ UNCHANGED <<schedVars, taskVars, enabled, mtask, kept, inReload, workVars, callVars, levelTick, histVars>>

\* The walk over the buckets up to the current tick, earliest first.  A task that
\* the walk has passed is taken out of its bucket here; the code erases the whole
\* bucket at its end, and nothing looks at it in between.
\* Mutant: the walk stops one bucket early.
DueLate(k) == k < curTick /\ queue[k] # Empty
Due(k) == k <= curTick /\ queue[k] # Empty
First(k) == Due(k) /\ \A j \in Tick : Due(j) => k <= j

\* Mutant: the bucket is not erased.
WalkKeeps(k, t) == queue
Walk(k, t) == [queue EXCEPT ![k][t] = @ - 1]

Scan(k, t) ==
    /\ mpc = "scan"
    /\ First(k)
    /\ queue[k][t] > 0
    /\ queue' = Walk(k, t)
    /\ IF cancelled[t] /\ t \notin Sync
       THEN UNCHANGED <<mpc, mtask>>
       ELSE mpc' = (IF cancelled[t] THEN "remove" ELSE "start") /\ mtask' = t
    /\ UNCHANGED <<tasks, ids, pending, baseTick, curTick, curTask, flag, jobs, taskVars, enabled, kept, inReload, workVars, callVars, levelTick, histVars>>

\* The sync task's body begins, or the async task is handed to the executor.
StartTask ==
    /\ mpc = "start"
    /\ runs' = [runs EXCEPT ![mtask] = @ + 1]
    /\ IF mtask \in Sync
       THEN curTask' = id[mtask] /\ mpc' = "body" /\ UNCHANGED jobs
       ELSE jobs' = [jobs EXCEPT ![mtask] = @ + 1] /\ mpc' = "after" /\ UNCHANGED curTask
    /\ UNCHANGED <<tasks, ids, pending, queue, baseTick, curTick, flag, taskVars, enabled, mtask, kept, inReload, workVars, callVars, levelTick, beats, due, enqBeat, raced>>

\* The body returns, or throws a std::exception that is caught and logged.
BodyEnd ==
    /\ mpc = "body"
    /\ cpc[Main] = "idle"
    /\ curTask' = 0
    /\ mpc' = "after"
    /\ UNCHANGED <<tasks, ids, pending, queue, baseTick, curTick, flag, jobs, taskVars, enabled, mtask, kept, inReload, workVars, callVars, levelTick, histVars>>

\* A repeating task that is not cancelled goes back to pending_.
Repeats(t) == ~cancelled[t] /\ period[t] > 0

Reschedule ==
    /\ mpc = "after"
    /\ Repeats(mtask)
    /\ nextRun' = [nextRun EXCEPT ![mtask] = (curTick + period[mtask]) % TickMod]
    /\ pending' = [pending EXCEPT ![mtask] = @ + 1]
    /\ due' = [due EXCEPT ![mtask] = beats + period[mtask]]
    /\ enqBeat' = [enqBeat EXCEPT ![mtask] = beats]
    /\ mpc' = "scan" /\ mtask' = NoTask
    /\ UNCHANGED <<tasks, ids, queue, baseTick, curTick, curTask, flag, jobs, id, owner, period, delay, cancelled, workers, enabled, kept, inReload, workVars, callVars, levelTick, beats, runs, raced>>

\* Otherwise a sync task leaves tasks_; an async one is removed by its worker.
Finish ==
    /\ mpc = "after"
    /\ ~Repeats(mtask)
    /\ IF mtask \in Sync
       THEN mpc' = "remove" /\ UNCHANGED mtask
       ELSE mpc' = "scan" /\ mtask' = NoTask
    /\ UNCHANGED <<schedVars, taskVars, enabled, kept, inReload, workVars, callVars, levelTick, histVars>>

MainRemove ==
    /\ mpc = "remove"
    /\ tasks' = RemoveTask(id[mtask])
    /\ mpc' = "scan" /\ mtask' = NoTask
    /\ UNCHANGED <<ids, pending, queue, baseTick, curTick, curTask, flag, jobs, taskVars, enabled, kept, inReload, workVars, callVars, levelTick, histVars>>

\* No bucket is due: the heartbeat returns and Level::tick runs (external), which
\* advances the level's tick.
HeartbeatEnd ==
    /\ mpc = "scan"
    /\ \A k \in Tick : ~Due(k)
    /\ mpc' = "idle"
    /\ levelTick' = levelTick + 1
    /\ UNCHANGED <<schedVars, taskVars, enabled, mtask, kept, inReload, workVars, callVars, histVars>>

-----------------------------------------------------------------------------
(***************************************************************************)
(* EndstoneAsyncTask::run on a worker of the executor.                     *)
(***************************************************************************)
TakeJob(w, t) ==
    /\ wpc[w] = "idle"
    /\ jobs[t] > 0
    /\ jobs' = [jobs EXCEPT ![t] = @ - 1]
    /\ wtask' = [wtask EXCEPT ![w] = t]
    /\ wpc' = [wpc EXCEPT ![w] = "start"]
    /\ UNCHANGED <<tasks, ids, pending, queue, baseTick, curTick, curTask, flag, taskVars, enabled, mainVars, callVars, levelTick, histVars>>

\* Under mutex_: a cancelled task is not run, otherwise the worker signs in.
WorkerStart(w) ==
    LET t == wtask[w] IN
    /\ wpc[w] = "start"
    /\ IF cancelled[t]
       THEN /\ wpc' = [wpc EXCEPT ![w] = "idle"]
            /\ wtask' = [wtask EXCEPT ![w] = NoTask]
            /\ UNCHANGED workers
       ELSE /\ wpc' = [wpc EXCEPT ![w] = "body"]
            /\ workers' = [workers EXCEPT ![t] = @ \cup {w}]
            /\ UNCHANGED wtask
    /\ UNCHANGED <<schedVars, id, owner, period, delay, nextRun, cancelled, enabled, mainVars, callVars, levelTick, histVars>>

\* Mutants: a repeating task is removed too; a cancelled repeating one is not.
FinishedAlways(w) == workers[wtask[w]] \ {w} = {}
FinishedOneShot(w) == workers[wtask[w]] \ {w} = {} /\ period[wtask[w]] = 0
\* After the body, under mutex_: the worker signs out; the last one of a task that
\* is done or cancelled will remove it.
Finished(w) ==
    LET t == wtask[w] IN
    workers[t] \ {w} = {} /\ (period[t] = 0 \/ cancelled[t])

WorkerFinish(w) ==
    LET t == wtask[w] IN
    /\ wpc[w] = "body"
    /\ workers' = [workers EXCEPT ![t] = @ \ {w}]
    /\ IF Finished(w)
       THEN wpc' = [wpc EXCEPT ![w] = "remove"] /\ UNCHANGED wtask
       ELSE /\ wpc' = [wpc EXCEPT ![w] = "idle"]
            /\ wtask' = [wtask EXCEPT ![w] = NoTask]
    /\ UNCHANGED <<schedVars, id, owner, period, delay, nextRun, cancelled, enabled, mainVars, callVars, levelTick, histVars>>

WorkerRemove(w) ==
    /\ wpc[w] = "remove"
    /\ tasks' = RemoveTask(id[wtask[w]])
    /\ wpc' = [wpc EXCEPT ![w] = "idle"]
    /\ wtask' = [wtask EXCEPT ![w] = NoTask]
    /\ UNCHANGED <<ids, pending, queue, baseTick, curTick, curTask, flag, jobs, taskVars, enabled, mainVars, callVars, levelTick, histVars>>

-----------------------------------------------------------------------------
Register(th) ==
    \/ \E t \in Task, p \in Plugin, d \in Delays, n \in Periods : Validate(th, t, p, d, n)
    \/ \E t \in Task : RunInternalTask(th, t)
    \/ (\E i \in Id : Construct(th, i)) \/ Insert(th) \/ Enqueue(th)

Cancel(th) ==
    \/ \E i \in Id : CancelTask(th, i)
    \/ \E p \in Plugin : CancelTasks(th, p)
    \/ \E t \in Task : DoCancel(th, t)
    \/ CheckIdle(th) \/ RemoveIdle(th) \/ SetFlag(th)

Disable == (\E p \in Plugin : DisablePlugin(p)) \/ CancelDisabled

Heartbeat ==
    \/ HeartbeatBegin \/ ExchangeFlag
    \/ \E t \in Task : RcDrain(t) \/ RcRefill(t) \/ Drain(t)
    \/ RcDrained \/ RcRefilled \/ RcPurge \/ Drained
    \/ \E k \in Tick, t \in Task : Scan(k, t)
    \/ StartTask \/ BodyEnd \/ Reschedule \/ Finish \/ MainRemove \/ HeartbeatEnd

Work(w) ==
    \/ \E t \in Task : TakeJob(w, t)
    \/ WorkerStart(w) \/ WorkerFinish(w) \/ WorkerRemove(w)

Next ==
    \/ \E th \in Thread : Register(th) \/ Cancel(th)
    \/ Disable
    \/ ReloadCleanup
    \/ Heartbeat
    \/ \E w \in Worker : Work(w)

Spec == Init /\ [][Next]_vars

-----------------------------------------------------------------------------
(***************************************************************************)
(* Safety.                                                                 *)
(***************************************************************************)
\* The task is on its way to another run.
InQueue(t) == \E k \in Tick : queue[k][t] > 0
ToRun(t) ==
    \/ pending[t] > 0 \/ kept[t] > 0 \/ InQueue(t)
    \/ mpc = "start" /\ mtask = t
InCharge(t) == ToRun(t) \/ (mpc \in {"body", "after"} /\ mtask = t)
Entering(t) == \E th \in Thread : cpc[th] \in Registering /\ ctask[th] = t
Registered(t) == id[t] # 0 /\ tasks[id[t]] = t

\* A task object is in at most one place of pending_, the vector of
\* removeCancelledTasks, queue_ and the main thread's hands, and there once: a
\* cleanup that re-enqueues, or a repeating task that is rescheduled, never
\* duplicates a run.
SingleEntry ==
    \A t \in Task :
        /\ pending[t] + kept[t] <= 1
        /\ mtask = t => pending[t] + kept[t] = 0
        /\ \A k \in Tick :
              /\ queue[k][t] <= 1
              /\ queue[k][t] = 1 =>
                    /\ pending[t] + kept[t] = 0
                    /\ mtask # t
                    /\ \A j \in Tick : queue[j][t] = 1 => j = k

\* A task that is not cancelled and has a run ahead of it (a repeating one, or a
\* one-shot that has not run) is always somewhere on the way to that run, and a
\* one-shot never runs twice: neither the cleanup of other threads' cancellations
\* nor the heartbeat drops it.
NoLostTask ==
    \A t \in Task :
        /\ id[t] # 0 /\ ~cancelled[t] /\ (period[t] > 0 \/ runs[t] = 0)
              => Entering(t) \/ InCharge(t)
        /\ period[t] = 0 => runs[t] <= 1

\* "a task registered with delay N runs on the Nth tick" (mainThreadHeartbeat): a
\* run starts on the heartbeat it was asked for, or, when it was put into pending_
\* too late for that one, by the next heartbeat after; never earlier.  Heartbeats
\* are counted here independently of the scheduler's tick arithmetic.
RunsOnItsTick ==
    mpc = "start" =>
        /\ due[mtask] <= beats
        /\ beats <= due[mtask] \/ beats <= enqBeat[mtask] + 1

\* A task with a run ahead of it can still be cancelled: it is in tasks_ under its
\* own id, or it is cancelled, or a cancelling thread that took it out of tasks_ is
\* about to set cancelled_.
Cancellable ==
    \A t \in Task :
        ToRun(t) =>
            \/ Registered(t)
            \/ cancelled[t]
            \/ \E th \in Thread : t \in cset[th]

\* A cancelled task does not sit in queue_ until its tick: the flag is up, a
\* canceller is about to raise it, or the main thread is in removeCancelledTasks.
CancelledIsPurged ==
    \A t \in Task :
        cancelled[t] /\ InQueue(t) =>
            \/ flag
            \/ \E th \in Thread : cpc[th] \in Cancelling
            \/ mpc \in RemovingCancelled

\* The last one out takes the task off tasks_, not an earlier one and not nobody.
\* While a worker is in its body an async task stays there, so that getActiveWorkers()
\* and isRunning() see it, also when it was cancelled meanwhile; and while a cancelled
\* task is there, a worker is in its body, or a worker or a canceller is about to
\* remove it.
LastOneRemoves ==
    /\ \A t \in Async : workers[t] # {} => Registered(t)
    /\ \A t \in Task :
          Registered(t) /\ cancelled[t] =>
              \/ workers[t] # {}
              \/ \E th \in Thread : t \in cset[th]
              \/ \E w \in Worker : wpc[w] = "remove" /\ wtask[w] = t

\* Once disablePlugin has returned, no task of the plugin has an uncancelled run
\* ahead of it, but for tasks whose registration passed validate() before and was
\* inserted after the plugin was disabled (the set raced), and tasks that
\* another canceller is about to cancel.
DisabledIsQuiet ==
    \A t \in Task \ raced :
        /\ owner[t] \in Plugin
        /\ ~enabled[owner[t]]
        /\ closing # owner[t]
        /\ ToRun(t)
        => cancelled[t] \/ \E th \in Thread : t \in cset[th]

-----------------------------------------------------------------------------
(***************************************************************************)
(* What the repository says of the scheduler and the code does not do.     *)
(***************************************************************************)
\* cancelTasks "Removes all tasks associated with a particular plugin from the
\* scheduler": after disablePlugin has returned, no task that was in the scheduler
\* before starts on the main thread.
CancelTasksIsComplete ==
    mpc = "start" /\ owner[mtask] \in Plugin /\ closing # owner[mtask]
        => enabled[owner[mtask]] \/ mtask \in raced

-----------------------------------------------------------------------------
(***************************************************************************)
(* Liveness.  Threads inside the scheduler keep running; the server keeps  *)
(* ticking; plugin code on the main thread and on workers returns.         *)
(***************************************************************************)
CallStep(th) ==
    \/ (\E i \in Id : Construct(th, i)) \/ Insert(th) \/ Enqueue(th)
    \/ \E t \in Task : DoCancel(th, t)
    \/ CheckIdle(th) \/ RemoveIdle(th) \/ SetFlag(th)
    \/ th = Main /\ CancelDisabled

Fairness ==
    /\ WF_vars(Heartbeat)
    /\ SF_vars(HeartbeatBegin)
    /\ SF_vars(BodyEnd)
    /\ \A th \in Thread : WF_vars(CallStep(th))
    /\ \A w \in Worker : WF_vars(Work(w))

LiveSpec == Spec /\ Fairness

\* A task in pending_ while the explored heartbeats still reach its tick is run or
\* cancelled in the end.
PendingRuns ==
    \A t \in Task :
        (pending[t] > 0 /\ runs[t] = 0 /\ due[t] <= MaxTick /\ beats < MaxTick)
            ~> (runs[t] > 0 \/ cancelled[t])

\* A cancelled task leaves tasks_ in the end, whoever was running it.
CancelledLeaves == \A t \in Task : cancelled[t] ~> ~Registered(t)

=============================================================================
