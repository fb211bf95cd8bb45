----------------------------- MODULE PluginReload -----------------------------
(***************************************************************************)
(* EndstoneServer::reload over the scheduler: disable every plugin, wait   *)
(* for the workers of their async tasks, clean the queues, destroy the     *)
(* plugins.  What a plugin's tasks do after its destruction is what this   *)
(* composition is about.                                                   *)
(*                                                                         *)
(* reload runs on the main thread between heartbeats; the other threads    *)
(* and the workers of Scheduler go on meanwhile.  The plugins that are     *)
(* loaded afterwards are new objects and outside this model.               *)
(***************************************************************************)
EXTENDS Scheduler

CONSTANT MaxPolls   \* 50: how often reload looks for active workers

ASSUME ReloadAssumption == MaxPolls \in Nat

VARIABLES
    rpc,        \* control point of reload
    rset,       \* getActiveWorkers: tasks whose workers are still to be read
    busy,       \* getActiveWorkers: a worker was found
    polls,      \* poll_count
    timedOut,   \* reload stopped waiting although workers were active
    destroyed,  \* plugins whose objects are gone
    snatched    \* history: tasks another canceller held when their owner was disabled

reloadVars == <<rpc, rset, busy, polls, timedOut, destroyed, snatched>>
allVars == <<vars, reloadVars>>

ReloadPC == {"none", "disable", "poll", "query", "cleanup", "clear", "done"}

ReloadTypeOK ==
    /\ rpc \in ReloadPC
    /\ rset \in SUBSET Async
    /\ busy \in BOOLEAN
    /\ polls \in 0 .. MaxPolls
    /\ timedOut \in BOOLEAN
    /\ destroyed \in SUBSET Plugin
    /\ snatched \in SUBSET Task

ReloadInit ==
    /\ Init
    /\ rpc = "none" /\ rset = {} /\ busy = FALSE /\ polls = 0
    /\ timedOut = FALSE /\ destroyed = {} /\ snatched = {}

\* reload() is called: from here on the main thread does nothing else.
ReloadBegin ==
    /\ rpc = "none"
    /\ mpc = "idle" /\ cpc[Main] = "idle"
    /\ rpc' = "disable"
    /\ UNCHANGED <<vars, rset, busy, polls, timedOut, destroyed, snatched>>

\* disablePlugins: disablePlugin for every plugin that is enabled.
ReloadDisable ==
    /\ rpc = "disable"
    /\ \E p \in Plugin : DisablePlugin(p)
    /\ UNCHANGED reloadVars

ReloadDisabled ==
    /\ rpc = "disable"
    /\ cpc[Main] = "idle"
    /\ \A p \in Plugin : ~enabled[p]
    /\ rpc' = "poll"
    /\ UNCHANGED <<vars, rset, busy, polls, timedOut, destroyed, snatched>>

\* getActiveWorkers: the async tasks of tasks_ are copied under tasks_mtx_ ...
ActiveTasks == {t \in Async : \E i \in Id : tasks[i] = t}

PollBegin ==
    /\ rpc = "poll"
    /\ polls < MaxPolls
    /\ rset' = ActiveTasks
    /\ busy' = FALSE
    /\ rpc' = "query"
    /\ UNCHANGED <<vars, polls, timedOut, destroyed, snatched>>

\* ... and their workers read one task at a time.
PollTask(t) ==
    /\ rpc = "query"
    /\ t \in rset
    /\ rset' = rset \ {t}
    /\ busy' = (busy \/ workers[t] # {})
    /\ UNCHANGED <<vars, rpc, polls, timedOut, destroyed, snatched>>

\* The loop goes on while a worker was found.  Mutant: it does not wait.
WaitsNot == FALSE
Waits == busy

PollEnd ==
    /\ rpc = "query"
    /\ rset = {}
    /\ IF Waits THEN polls' = polls + 1 /\ rpc' = "poll" ELSE rpc' = "cleanup" /\ UNCHANGED polls
    /\ UNCHANGED <<vars, rset, busy, timedOut, destroyed, snatched>>

\* Out of patience: the authors are nagged and reload goes on.
PollTimeout ==
    /\ rpc = "poll"
    /\ polls = MaxPolls
    /\ timedOut' = TRUE
    /\ rpc' = "cleanup"
    /\ UNCHANGED <<vars, rset, busy, polls, destroyed, snatched>>

\* Mutant: the cleanup is left to the next heartbeat.
CleanupLater ==
    /\ rpc = "cleanup"
    /\ rpc' = "clear"
    /\ UNCHANGED <<vars, rset, busy, polls, timedOut, destroyed, snatched>>

\* removeCancelledTasks.
Cleanup ==
    /\ rpc = "cleanup"
    /\ ReloadCleanup
    /\ rpc' = "clear"
    /\ UNCHANGED <<rset, busy, polls, timedOut, destroyed, snatched>>

\* clearPlugins: the plugin objects are destroyed.
ClearPlugins ==
    /\ rpc = "clear"
    /\ mpc = "idle"
    /\ destroyed' = Plugin
    /\ rpc' = "done"
    /\ UNCHANGED <<vars, rset, busy, polls, timedOut, snatched>>

\* Main-thread code that is not reload itself waits while reload runs.
InReload == rpc \notin {"none", "done"}
MainCalls ==
    \/ Register(Main) \/ (\E i \in Id : CancelTask(Main, i))
    \/ (\E p \in Plugin : CancelTasks(Main, p)) \/ (\E p \in Plugin : DisablePlugin(p))

\* The scheduler's own steps.
SchedulerStep ==
    /\ \/ \E th \in Thread \ {Main} : Register(th) \/ Cancel(th)
       \/ ~InReload /\ (MainCalls \/ HeartbeatBegin)
       \/ CallStep(Main)
       \/ Heartbeat /\ mpc # "idle"
       \/ \E w \in Worker : Work(w)
    /\ snatched' = IF cpc[Main] = "disabling" /\ cpc'[Main] # "disabling"
                   THEN snatched \cup {t \in Task : owner[t] = closing /\ ~cancelled[t]
                                          /\ \E th \in Thread \ {Main} : t \in cset[th]}
                   ELSE snatched
    /\ UNCHANGED <<rpc, rset, busy, polls, timedOut, destroyed>>

ReloadNext ==
    \/ SchedulerStep
    \/ ReloadBegin \/ ReloadDisable \/ ReloadDisabled
    \/ PollBegin \/ (\E t \in Async : PollTask(t)) \/ PollEnd \/ PollTimeout
    \/ Cleanup \/ ClearPlugins

ReloadSpec == ReloadInit /\ [][ReloadNext]_allVars

-----------------------------------------------------------------------------
\* No code of a destroyed plugin runs: when reload did not give up waiting, no task
\* of a destroyed plugin is inside its body, on the main thread or on a worker, now
\* or later.  Left out are the tasks added after the plugin was disabled (raced)
\* and those a concurrent canceller had already taken out of tasks_ (snatched).
NoUseAfterDestroy ==
    ~timedOut =>
        \A t \in Task \ (raced \cup snatched) :
            owner[t] \in destroyed =>
                /\ workers[t] = {}
                /\ ~(mpc = "body" /\ mtask = t)

\* removeCancelledTasks drops cancelled tasks "so their callbacks release promptly
\* (before reload unloads the owning plugins)": when the plugins are destroyed, no
\* bucket of queue_ holds a task of theirs, however far in the future its tick is
\* (raced and snatched tasks apart).
CallbacksReleased ==
    \A t \in Task \ (raced \cup snatched) : owner[t] \in destroyed => ~InQueue(t)
=============================================================================
