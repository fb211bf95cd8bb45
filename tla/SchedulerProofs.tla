--------------------------- MODULE SchedulerProofs ---------------------------
(***************************************************************************)
(* Proofs about Scheduler, for any number of tasks, threads and workers.   *)
(***************************************************************************)
EXTENDS PluginReload, TLAPS

\* Arithmetic on ticks stays within std::uint64_t.
LEMMA TickArithmetic == \A n \in Nat : n % TickMod \in Tick
  BY SchedulerAssumption, SMT DEF Tick

\* The initial state is well typed.
LEMMA TypeOKInit == Init => TypeOK
<1> SUFFICES ASSUME Init PROVE TypeOK
  OBVIOUS
<1>1. SchedTypeOK
  <2>1. Empty \in [Task -> Nat] /\ 0 \in Tick
    BY SchedulerAssumption DEF Empty, Tick
  <2>2. flag \in BOOLEAN
    BY DEF Init
  <2>3. queue \in [Tick -> [Task -> Nat]] /\ pending \in [Task -> Nat] /\ jobs \in [Task -> Nat]
    BY <2>1 DEF Init
  <2>4. tasks \in [Id -> Task \cup {NoTask}]
    BY DEF Init
  <2> QED
    BY <2>1, <2>2, <2>3, <2>4 DEF Init, SchedTypeOK
<1>2. TaskTypeOK
  BY SchedulerAssumption DEF Init, TaskTypeOK, Tick, Empty
<1>3. ThreadTypeOK
  BY DEF Init, ThreadTypeOK, Empty, MainPC, WorkPC, CallPC
<1>4. HistTypeOK
  BY SchedulerAssumption DEF Init, HistTypeOK, Empty
<1> QED
  BY <1>1, <1>2, <1>3, <1>4 DEF TypeOK

\* A thread that is inside an operation holds the task it is working on.
ControlOK ==
    /\ mpc \in Running => mtask \in Task
    /\ mpc \notin Running => mtask = NoTask
    /\ \A th \in Thread :
          /\ cpc[th] \in Registering => ctask[th] \in Task
          /\ cpc[th] \in {"checkIdle", "remove"} => ctask[th] \in cset[th]
          /\ cpc[th] \in {"idle", "disabling", "doCancel", "setFlag"} => ctask[th] = NoTask
          /\ cpc[th] \notin {"doCancel", "checkIdle", "remove"} => cset[th] = {}
    /\ \A w \in Worker :
          /\ wpc[w] # "idle" => wtask[w] \in Task
          /\ wpc[w] = "idle" => wtask[w] = NoTask
    /\ cpc[Main] # "idle" => mpc \in {"idle", "body"}
    /\ cpc[Main] = "disabling" => closing \in Plugin
    /\ \A b \in baseTick : b <= levelTick

TypeInv == TypeOK /\ ControlOK

\* Every step of every thread preserves the types and the control invariant.
LEMMA TypeInvNext == TypeInv /\ [Next]_vars => TypeInv'
<1> SUFFICES ASSUME TypeInv, [Next]_vars PROVE TypeInv'
  OBVIOUS
<1> USE SchedulerAssumption, TickArithmetic
    DEF TypeInv, TypeOK, SchedTypeOK, TaskTypeOK, ThreadTypeOK, HistTypeOK, ControlOK,
        MainPC, WorkPC, CallPC, RemovingCancelled, Running, Registering, Cancelling,
        schedVars, taskVars, mainVars, workVars, callVars, histVars
<1>1. ASSUME NEW th \in Thread, NEW t \in Task, NEW p \in Plugin, NEW d \in Delays, NEW n \in Periods, Validate(th, t, p, d, n) PROVE TypeInv'
  BY <1>1 DEF Validate, CanCall, Fresh
<1>2. ASSUME NEW th \in Thread, NEW t \in Task, RunInternalTask(th, t) PROVE TypeInv'
  BY <1>2 DEF RunInternalTask, CanCall, Fresh
<1>3. ASSUME NEW th \in Thread, NEW i \in Id, Construct(th, i) PROVE TypeInv'
  <2>1. i \in Nat /\ i + 1 \in Nat
    BY DEF Id
  <2>2. ctask[th] \in Task
    BY <1>3 DEF Construct
  <2>3. (curTick + delay[ctask[th]]) % TickMod \in Tick
    <3>1. curTick + delay[ctask[th]] \in Nat
      BY <2>2 DEF Tick
    <3> QED
      BY <3>1
  <2>4. beats + delay[ctask[th]] \in Nat
    BY <2>2
  <2> QED
    BY <1>3, <2>1, <2>2, <2>3, <2>4 DEF Construct
<1>4. ASSUME NEW th \in Thread, Insert(th) PROVE TypeInv'
  <2>1. /\ ctask[th] \in Task
        /\ tasks' = [tasks EXCEPT ![id[ctask[th]]] = ctask[th]]
        /\ cpc[th] = "insert" /\ cpc' = [cpc EXCEPT ![th] = "enqueue"]
    BY <1>4 DEF Insert
  <2>2. raced' \in SUBSET Task
    BY <1>4, <2>1 DEF Insert
  <2>3. tasks' \in [Id -> Task \cup {NoTask}]
    BY <2>1
  <2>4. TypeOK'
    BY <1>4, <2>1, <2>2, <2>3 DEF Insert
  <2>5. ControlOK'
    BY <1>4, <2>1 DEF Insert
  <2> QED
    BY <2>4, <2>5
<1>5. ASSUME NEW th \in Thread, Enqueue(th) PROVE TypeInv'
  BY <1>5 DEF Enqueue
<1>6. ASSUME NEW th \in Thread, NEW i \in Id, CancelTask(th, i) PROVE TypeInv'
  BY <1>6 DEF CancelTask, StartCancel, CanCall
<1>7. ASSUME NEW th \in Thread, NEW p \in Plugin, CancelTasks(th, p) PROVE TypeInv'
  BY <1>7 DEF CancelTasks, StartCancel, CanCall, OwnedBy
<1>8. ASSUME NEW th \in Thread, NEW t \in Task, DoCancel(th, t) PROVE TypeInv'
  <2>1. cancelled' \in [Task -> BOOLEAN]
    BY <1>8, Zenon DEF DoCancel
  <2>2. CASE t \in Sync
    <3>1. AfterCancelling(th, t)
      BY <1>8, <2>2 DEF DoCancel
    <3> QED
      BY <1>8, <2>1, <3>1 DEF DoCancel, AfterCancelling
  <2>3. CASE t \notin Sync
    <3>1. /\ ctask' = [ctask EXCEPT ![th] = t]
          /\ cpc' = [cpc EXCEPT ![th] = "checkIdle"]
          /\ cset' = cset
      BY <1>8, <2>3 DEF DoCancel
    <3> QED
      BY <1>8, <2>1, <3>1 DEF DoCancel
  <2> QED
    BY <2>2, <2>3
<1>9. ASSUME NEW th \in Thread, CheckIdle(th) PROVE TypeInv'
  <2>1. CASE Idle(ctask[th])
    <3>1. cpc' = [cpc EXCEPT ![th] = "remove"] /\ cset' = cset /\ ctask' = ctask
      BY <1>9, <2>1 DEF CheckIdle
    <3> QED
      BY <1>9, <3>1 DEF CheckIdle
  <2>2. CASE ~Idle(ctask[th])
    <3>1. AfterCancelling(th, ctask[th])
      BY <1>9, <2>2 DEF CheckIdle
    <3> QED
      BY <1>9, <3>1 DEF CheckIdle, AfterCancelling
  <2> QED
    BY <2>1, <2>2
<1>10. ASSUME NEW th \in Thread, RemoveIdle(th) PROVE TypeInv'
  <2>1. /\ cset' = [cset EXCEPT ![th] = @ \ {ctask[th]}]
        /\ ctask' = [ctask EXCEPT ![th] = NoTask]
        /\ cpc[th] = "remove"
        /\ cpc' = [cpc EXCEPT ![th] = IF cset[th] = {ctask[th]} THEN "setFlag" ELSE "doCancel"]
    BY <1>10 DEF RemoveIdle, AfterCancelling
  <2>2. tasks' \in [Id -> Task \cup {NoTask}]
    BY <1>10 DEF RemoveIdle, RemoveTask
  <2>3. TypeOK'
    BY <1>10, <2>1, <2>2 DEF RemoveIdle
  <2>4. ControlOK'
    BY <1>10, <2>1 DEF RemoveIdle
  <2> QED
    BY <2>3, <2>4
<1>11. ASSUME NEW th \in Thread, SetFlag(th) PROVE TypeInv'
  BY <1>11 DEF SetFlag
<1>12. ASSUME NEW p \in Plugin, DisablePlugin(p) PROVE TypeInv'
  BY <1>12 DEF DisablePlugin, CanCall
<1>13. CASE CancelDisabled
  BY <1>13 DEF CancelDisabled, StartCancel, OwnedBy
<1>14. CASE ReloadCleanup
  BY <1>14 DEF ReloadCleanup
<1>15. CASE HeartbeatBegin
  <2>1. Base \in Nat /\ Base <= levelTick
    <3>1. CASE baseTick = {}
      BY <3>1 DEF Base
    <3>2. CASE baseTick # {}
      <4>1. (CHOOSE b \in baseTick : TRUE) \in baseTick
        BY <3>2
      <4> QED
        BY <3>2, <4>1 DEF Base
    <3> QED
      BY <3>1, <3>2
  <2>2. ((levelTick + TickMod) - Base) + 1 \in Nat
    BY <2>1
  <2>3. SessionTick \in Tick
    BY <2>2 DEF SessionTick
  <2> QED
    BY <1>15, <2>1, <2>3 DEF HeartbeatBegin
<1>16. CASE ExchangeFlag
  BY <1>16 DEF ExchangeFlag
<1>17. ASSUME NEW t \in Task, RcDrain(t) PROVE TypeInv'
  BY <1>17 DEF RcDrain, Dequeues, Keep
<1>18. ASSUME NEW t \in Task, RcRefill(t) PROVE TypeInv'
  BY <1>18 DEF RcRefill
<1>19. ASSUME NEW t \in Task, Drain(t) PROVE TypeInv'
  BY <1>19 DEF Drain, Dequeues, BucketOf
<1>20. CASE RcDrained
  BY <1>20 DEF RcDrained
<1>21. CASE RcRefilled
  BY <1>21 DEF RcRefilled
<1>22. CASE RcPurge
  <2>1. queue' \in [Tick -> [Task -> Nat]]
    BY <1>22 DEF RcPurge, Purge
  <2>2. mpc' \in {"idle", "drain"} /\ inReload' \in BOOLEAN
    BY <1>22 DEF RcPurge
  <2> QED
    BY <1>22, <2>1, <2>2 DEF RcPurge
<1>23. CASE Drained
  BY <1>23 DEF Drained
<1>24. ASSUME NEW k \in Tick, NEW t \in Task, Scan(k, t) PROVE TypeInv'
  BY <1>24 DEF Scan, Walk, First, Due
<1>25. CASE StartTask
  BY <1>25 DEF StartTask
<1>26. CASE BodyEnd
  BY <1>26 DEF BodyEnd
<1>27. CASE Reschedule
  <2>1. mtask \in Task
    BY <1>27 DEF Reschedule
  <2>2. (curTick + period[mtask]) % TickMod \in Tick
    <3>1. curTick + period[mtask] \in Nat
      BY <2>1 DEF Tick
    <3> QED
      BY <3>1
  <2> QED
    BY <1>27, <2>1, <2>2 DEF Reschedule
<1>28. CASE Finish
  BY <1>28 DEF Finish, Repeats
<1>29. CASE MainRemove
  BY <1>29 DEF MainRemove, RemoveTask
<1>30. CASE HeartbeatEnd
  BY <1>30 DEF HeartbeatEnd, Due
<1>31. ASSUME NEW w \in Worker, NEW t \in Task, TakeJob(w, t) PROVE TypeInv'
  BY <1>31 DEF TakeJob
<1>32. ASSUME NEW w \in Worker, WorkerStart(w) PROVE TypeInv'
  <2>1. CASE cancelled[wtask[w]]
    <3>1. /\ wpc' = [wpc EXCEPT ![w] = "idle"]
          /\ wtask' = [wtask EXCEPT ![w] = NoTask]
          /\ workers' = workers
      BY <1>32, <2>1, Zenon DEF WorkerStart
    <3> QED
      BY <1>32, <3>1 DEF WorkerStart
  <2>2. CASE ~cancelled[wtask[w]]
    <3>1. /\ wpc' = [wpc EXCEPT ![w] = "body"]
          /\ workers' = [workers EXCEPT ![wtask[w]] = @ \cup {w}]
          /\ wtask' = wtask
      BY <1>32, <2>2, Zenon DEF WorkerStart
    <3> QED
      BY <1>32, <3>1 DEF WorkerStart
  <2> QED
    BY <2>1, <2>2
<1>33. ASSUME NEW w \in Worker, WorkerFinish(w) PROVE TypeInv'
  <2>1. CASE Finished(w)
    <3>1. wpc' = [wpc EXCEPT ![w] = "remove"] /\ wtask' = wtask
      BY <1>33, <2>1 DEF WorkerFinish
    <3> QED
      BY <1>33, <3>1 DEF WorkerFinish
  <2>2. CASE ~Finished(w)
    <3>1. /\ wpc' = [wpc EXCEPT ![w] = "idle"]
          /\ wtask' = [wtask EXCEPT ![w] = NoTask]
      BY <1>33, <2>2 DEF WorkerFinish
    <3> QED
      BY <1>33, <3>1 DEF WorkerFinish
  <2> QED
    BY <2>1, <2>2
<1>34. ASSUME NEW w \in Worker, WorkerRemove(w) PROVE TypeInv'
  <2>1. tasks' \in [Id -> Task \cup {NoTask}]
    BY <1>34 DEF WorkerRemove, RemoveTask
  <2> QED
    BY <1>34, <2>1 DEF WorkerRemove
<1>35. CASE UNCHANGED vars
  BY <1>35 DEF vars
<1> QED
  BY <1>1, <1>2, <1>3, <1>4, <1>5, <1>6, <1>7, <1>8, <1>9, <1>10, <1>11, <1>12, <1>13, <1>14, <1>15, <1>16, <1>17, <1>18, <1>19, <1>20, <1>21, <1>22, <1>23, <1>24, <1>25, <1>26, <1>27, <1>28, <1>29, <1>30, <1>31, <1>32, <1>33, <1>34, <1>35
     DEF Next, Register, Cancel, Disable, Heartbeat, Work

\* Initially no thread is inside an operation.
LEMMA TypeInvInit == Init => TypeInv
<1> SUFFICES ASSUME Init PROVE ControlOK
  BY TypeOKInit DEF TypeInv
<1> QED
  BY SchedulerAssumption DEF Init, ControlOK, Running, Registering

\* Types and control hold in every reachable state.
LEMMA TypeInvAlways == Spec => []TypeInv
  BY TypeInvInit, TypeInvNext, PTL DEF Spec

\* Types hold in every reachable state of EndstoneScheduler: the counters of
\* pending_, queue_ and the executor's queue never drop below zero, and no thread
\* works on a task it does not hold.
THEOREM SchedulerTyped == Spec => []TypeOK
<1>1. TypeInv => TypeOK
  BY DEF TypeInv
<1> QED
  BY <1>1, TypeInvAlways, PTL

-----------------------------------------------------------------------------
\* Every step keeps a cancelled task of queue_ in sight of the next cleanup.
LEMMA PurgedNext == TypeInv /\ CancelledIsPurged /\ [Next]_vars => CancelledIsPurged'
<1> SUFFICES ASSUME TypeInv, CancelledIsPurged, [Next]_vars PROVE CancelledIsPurged'
  OBVIOUS
<1> USE SchedulerAssumption
    DEF TypeInv, TypeOK, SchedTypeOK, TaskTypeOK, ThreadTypeOK, ControlOK,
        MainPC, WorkPC, CallPC, RemovingCancelled, Running, Registering, Cancelling,
        schedVars, taskVars, mainVars, workVars, callVars, histVars, InQueue, CancelledIsPurged
<1>1. ASSUME NEW th \in Thread, NEW t \in Task, NEW p \in Plugin, NEW d \in Delays, NEW n \in Periods, Validate(th, t, p, d, n) PROVE CancelledIsPurged'
  BY <1>1 DEF Validate, CanCall, Fresh
<1>2. ASSUME NEW th \in Thread, NEW t \in Task, RunInternalTask(th, t) PROVE CancelledIsPurged'
  BY <1>2 DEF RunInternalTask, CanCall, Fresh
<1>3. ASSUME NEW th \in Thread, NEW i \in Id, Construct(th, i) PROVE CancelledIsPurged'
  BY <1>3 DEF Construct, IsNextId
<1>4. ASSUME NEW th \in Thread, Insert(th) PROVE CancelledIsPurged'
  BY <1>4 DEF Insert, MissedByDisable
<1>5. ASSUME NEW th \in Thread, Enqueue(th) PROVE CancelledIsPurged'
  BY <1>5 DEF Enqueue
<1>6. ASSUME NEW th \in Thread, NEW i \in Id, CancelTask(th, i) PROVE CancelledIsPurged'
  BY <1>6 DEF CancelTask, StartCancel, CanCall
<1>7. ASSUME NEW th \in Thread, NEW p \in Plugin, CancelTasks(th, p) PROVE CancelledIsPurged'
  BY <1>7 DEF CancelTasks, StartCancel, CanCall, OwnedBy
<1>8. ASSUME NEW th \in Thread, NEW t \in Task, DoCancel(th, t) PROVE CancelledIsPurged'
  BY <1>8 DEF DoCancel, AfterCancelling
<1>9. ASSUME NEW th \in Thread, CheckIdle(th) PROVE CancelledIsPurged'
  BY <1>9 DEF CheckIdle, AfterCancelling, Idle
<1>10. ASSUME NEW th \in Thread, RemoveIdle(th) PROVE CancelledIsPurged'
  BY <1>10 DEF RemoveIdle, AfterCancelling, RemoveTask
<1>11. ASSUME NEW th \in Thread, SetFlag(th) PROVE CancelledIsPurged'
  BY <1>11 DEF SetFlag
<1>12. ASSUME NEW p \in Plugin, DisablePlugin(p) PROVE CancelledIsPurged'
  BY <1>12 DEF DisablePlugin, CanCall
<1>13. CASE CancelDisabled
  BY <1>13 DEF CancelDisabled, StartCancel, OwnedBy
<1>14. CASE ReloadCleanup
  BY <1>14 DEF ReloadCleanup
<1>15. CASE HeartbeatBegin
  BY <1>15 DEF HeartbeatBegin, Base, SessionTick
<1>16. CASE ExchangeFlag
  BY <1>16 DEF ExchangeFlag
<1>17. ASSUME NEW t \in Task, RcDrain(t) PROVE CancelledIsPurged'
  BY <1>17 DEF RcDrain, Dequeues, Keep
<1>18. ASSUME NEW t \in Task, RcRefill(t) PROVE CancelledIsPurged'
  BY <1>18 DEF RcRefill
<1>19. ASSUME NEW t \in Task, Drain(t) PROVE CancelledIsPurged'
  BY <1>19 DEF Drain, Dequeues, BucketOf
<1>20. CASE RcDrained
  BY <1>20 DEF RcDrained
<1>21. CASE RcRefilled
  BY <1>21 DEF RcRefilled
<1>22. CASE RcPurge
  BY <1>22 DEF RcPurge, Purge
<1>23. CASE Drained
  BY <1>23 DEF Drained
<1>24. ASSUME NEW k \in Tick, NEW t \in Task, Scan(k, t) PROVE CancelledIsPurged'
  BY <1>24 DEF Scan, Walk, First, Due
<1>25. CASE StartTask
  BY <1>25 DEF StartTask
<1>26. CASE BodyEnd
  BY <1>26 DEF BodyEnd
<1>27. CASE Reschedule
  BY <1>27 DEF Reschedule, Repeats
<1>28. CASE Finish
  BY <1>28 DEF Finish, Repeats
<1>29. CASE MainRemove
  BY <1>29 DEF MainRemove, RemoveTask
<1>30. CASE HeartbeatEnd
  BY <1>30 DEF HeartbeatEnd, Due
<1>31. ASSUME NEW w \in Worker, NEW t \in Task, TakeJob(w, t) PROVE CancelledIsPurged'
  BY <1>31 DEF TakeJob
<1>32. ASSUME NEW w \in Worker, WorkerStart(w) PROVE CancelledIsPurged'
  BY <1>32 DEF WorkerStart
<1>33. ASSUME NEW w \in Worker, WorkerFinish(w) PROVE CancelledIsPurged'
  BY <1>33 DEF WorkerFinish, Finished
<1>34. ASSUME NEW w \in Worker, WorkerRemove(w) PROVE CancelledIsPurged'
  BY <1>34 DEF WorkerRemove, RemoveTask
<1>35. CASE UNCHANGED vars
  BY <1>35 DEF vars
<1> QED
  BY <1>1, <1>2, <1>3, <1>4, <1>5, <1>6, <1>7, <1>8, <1>9, <1>10, <1>11, <1>12, <1>13, <1>14, <1>15, <1>16, <1>17, <1>18, <1>19, <1>20, <1>21, <1>22, <1>23, <1>24, <1>25, <1>26, <1>27, <1>28, <1>29, <1>30, <1>31, <1>32, <1>33, <1>34, <1>35
     DEF Next, Register, Cancel, Disable, Heartbeat, Work

\* A cancelled task never sits in queue_ unnoticed: cancelTask and cancelTasks raise
\* has_cancelled_tasks_ only after cancelled_ is set, and the heartbeat takes the flag
\* down before it purges, so no order of the two loses a cancellation.
THEOREM SchedulerPurges == Spec => []CancelledIsPurged
<1>1. Init => CancelledIsPurged
  BY DEF Init, CancelledIsPurged
<1> QED
  BY <1>1, TypeInvAlways, PurgedNext, PTL DEF Spec

-----------------------------------------------------------------------------
\* The task is in no place of the scheduler it could be run from.
Nowhere(t) ==
    /\ pending[t] = 0 /\ kept[t] = 0 /\ mtask # t
    /\ \A k \in Tick : queue[k][t] = 0

\* A task object is registered by one thread, before it is in any place, and has
\* its id by the time it is inserted.
EnteringOK ==
    /\ \A th \in Thread : cpc[th] \in Registering =>
          /\ Nowhere(ctask[th])
          /\ \A other \in Thread :
                cpc[other] \in Registering /\ ctask[other] = ctask[th] => other = th
          /\ cpc[th] \in {"insert", "enqueue"} => id[ctask[th]] # 0
    /\ \A t \in Task : id[t] = 0 => Nowhere(t)

EntryInv == SingleEntry /\ EnteringOK

\* Arithmetic of an entry that is in one of two places.
LEMMA OneOfTwo == \A m, n \in Nat : m + n <= 1 /\ m > 0 => m = 1 /\ n = 0
  BY SMTT(30)

\* No step puts a task into a second place.
LEMMA EntryInvNext == TypeInv /\ EntryInv /\ [Next]_vars => EntryInv'
<1> SUFFICES ASSUME TypeInv, EntryInv, [Next]_vars PROVE EntryInv'
  OBVIOUS
<1> USE SchedulerAssumption
    DEF TypeInv, TypeOK, SchedTypeOK, TaskTypeOK, ThreadTypeOK, ControlOK,
        MainPC, WorkPC, CallPC, RemovingCancelled, Running, Registering, Cancelling,
        schedVars, taskVars, mainVars, workVars, callVars, histVars,
        EntryInv, EnteringOK, SingleEntry, Nowhere
<1>1. ASSUME NEW th \in Thread, NEW t \in Task, NEW p \in Plugin, NEW d \in Delays, NEW n \in Periods, Validate(th, t, p, d, n) PROVE EntryInv'
  BY <1>1 DEF Validate, CanCall, Fresh
<1>2. ASSUME NEW th \in Thread, NEW t \in Task, RunInternalTask(th, t) PROVE EntryInv'
  BY <1>2 DEF RunInternalTask, CanCall, Fresh
<1>3. ASSUME NEW th \in Thread, NEW i \in Id, Construct(th, i) PROVE EntryInv'
  <2>1. i # 0
    BY DEF Id
  <2>2. /\ \A u \in Task : id'[u] = 0 => id[u] = 0
        /\ id'[ctask[th]] # 0
        /\ \A u \in Task : u # ctask[th] => id'[u] = id[u]
    BY <1>3, <2>1 DEF Construct
  <2>3. \A other \in Thread :
          /\ other # th => cpc'[other] = cpc[other]
          /\ cpc'[th] = "insert" /\ cpc[th] = "construct"
    BY <1>3 DEF Construct
  <2> QED
    BY <1>3, <2>2, <2>3 DEF Construct
<1>4. ASSUME NEW th \in Thread, Insert(th) PROVE EntryInv'
  BY <1>4 DEF Insert, MissedByDisable
<1>5. ASSUME NEW th \in Thread, Enqueue(th) PROVE EntryInv'
  BY <1>5 DEF Enqueue
<1>6. ASSUME NEW th \in Thread, NEW i \in Id, CancelTask(th, i) PROVE EntryInv'
  BY <1>6 DEF CancelTask, StartCancel, CanCall
<1>7. ASSUME NEW th \in Thread, NEW p \in Plugin, CancelTasks(th, p) PROVE EntryInv'
  BY <1>7 DEF CancelTasks, StartCancel, CanCall, OwnedBy
<1>8. ASSUME NEW th \in Thread, NEW t \in Task, DoCancel(th, t) PROVE EntryInv'
  <2>1. \A other \in Thread : cpc'[other] \in Registering =>
          cpc'[other] = cpc[other] /\ ctask'[other] = ctask[other]
    <3>1. CASE t \in Sync
      BY <1>8, <3>1 DEF DoCancel, AfterCancelling
    <3>2. CASE t \notin Sync
      BY <1>8, <3>2 DEF DoCancel
    <3> QED
      BY <3>1, <3>2
  <2> QED
    BY <1>8, <2>1 DEF DoCancel
<1>9. ASSUME NEW th \in Thread, CheckIdle(th) PROVE EntryInv'
  <2>1. \A other \in Thread : cpc'[other] \in Registering =>
          cpc'[other] = cpc[other] /\ ctask'[other] = ctask[other]
    <3>1. CASE Idle(ctask[th])
      BY <1>9, <3>1 DEF CheckIdle
    <3>2. CASE ~Idle(ctask[th])
      BY <1>9, <3>2 DEF CheckIdle, AfterCancelling
    <3> QED
      BY <3>1, <3>2
  <2> QED
    BY <1>9, <2>1 DEF CheckIdle
<1>10. ASSUME NEW th \in Thread, RemoveIdle(th) PROVE EntryInv'
  BY <1>10 DEF RemoveIdle, AfterCancelling, RemoveTask
<1>11. ASSUME NEW th \in Thread, SetFlag(th) PROVE EntryInv'
  BY <1>11 DEF SetFlag
<1>12. ASSUME NEW p \in Plugin, DisablePlugin(p) PROVE EntryInv'
  BY <1>12 DEF DisablePlugin, CanCall
<1>13. CASE CancelDisabled
  BY <1>13 DEF CancelDisabled, StartCancel, OwnedBy
<1>14. CASE ReloadCleanup
  BY <1>14 DEF ReloadCleanup
<1>15. CASE HeartbeatBegin
  BY <1>15 DEF HeartbeatBegin, Base, SessionTick
<1>16. CASE ExchangeFlag
  BY <1>16 DEF ExchangeFlag
<1>17. ASSUME NEW t \in Task, RcDrain(t) PROVE EntryInv'
  BY <1>17 DEF RcDrain, Dequeues, Keep
<1>18. ASSUME NEW t \in Task, RcRefill(t) PROVE EntryInv'
  BY <1>18 DEF RcRefill
<1>19. ASSUME NEW t \in Task, Drain(t) PROVE EntryInv'
  <2>1. BucketOf(t) \in Tick
    BY DEF BucketOf
  <2>2. CASE cancelled[t]
    BY <1>19, <2>2 DEF Drain, Dequeues
  <2>3. CASE ~cancelled[t]
    <3> DEFINE b == BucketOf(t)
    <3>1. queue' = [queue EXCEPT ![b][t] = @ + 1]
      BY <1>19, <2>3 DEF Drain
    <3>2. pending' = [pending EXCEPT ![t] = @ - 1] /\ pending[t] = 1
      <4>1. pending[t] + kept[t] <= 1 /\ pending[t] \in Nat /\ kept[t] \in Nat
        OBVIOUS
      <4>2. pending[t] > 0
        BY <1>19 DEF Drain, Dequeues
      <4>3. pending[t] = 1
        BY <4>1, <4>2, OneOfTwo
      <4> QED
        BY <1>19, <4>3 DEF Drain
    <3> HIDE DEF b
    <3>3. \A k \in Tick, u \in Task :
            queue'[k][u] = IF k = b /\ u = t THEN queue[k][u] + 1 ELSE queue[k][u]
      BY <2>1, <3>1 DEF b
    <3>4. b \in Tick
      BY <2>1 DEF b
    <3> QED
      BY <1>19, <3>2, <3>3, <3>4 DEF Drain
  <2> QED
    BY <2>2, <2>3
<1>20. CASE RcDrained
  BY <1>20 DEF RcDrained
<1>21. CASE RcRefilled
  BY <1>21 DEF RcRefilled
<1>22. CASE RcPurge
  BY <1>22 DEF RcPurge, Purge
<1>23. CASE Drained
  BY <1>23 DEF Drained
<1>24. ASSUME NEW k \in Tick, NEW t \in Task, Scan(k, t) PROVE EntryInv'
  BY <1>24 DEF Scan, Walk, First, Due
<1>25. CASE StartTask
  BY <1>25 DEF StartTask
<1>26. CASE BodyEnd
  BY <1>26 DEF BodyEnd
<1>27. CASE Reschedule
  BY <1>27 DEF Reschedule, Repeats
<1>28. CASE Finish
  BY <1>28 DEF Finish, Repeats
<1>29. CASE MainRemove
  BY <1>29 DEF MainRemove, RemoveTask
<1>30. CASE HeartbeatEnd
  BY <1>30 DEF HeartbeatEnd, Due
<1>31. ASSUME NEW w \in Worker, NEW t \in Task, TakeJob(w, t) PROVE EntryInv'
  BY <1>31 DEF TakeJob
<1>32. ASSUME NEW w \in Worker, WorkerStart(w) PROVE EntryInv'
  BY <1>32 DEF WorkerStart
<1>33. ASSUME NEW w \in Worker, WorkerFinish(w) PROVE EntryInv'
  BY <1>33 DEF WorkerFinish, Finished
<1>34. ASSUME NEW w \in Worker, WorkerRemove(w) PROVE EntryInv'
  BY <1>34 DEF WorkerRemove, RemoveTask
<1>35. CASE UNCHANGED vars
  BY <1>35 DEF vars
<1> QED
  BY <1>1, <1>2, <1>3, <1>4, <1>5, <1>6, <1>7, <1>8, <1>9, <1>10, <1>11, <1>12, <1>13, <1>14, <1>15, <1>16, <1>17, <1>18, <1>19, <1>20, <1>21, <1>22, <1>23, <1>24, <1>25, <1>26, <1>27, <1>28, <1>29, <1>30, <1>31, <1>32, <1>33, <1>34, <1>35
     DEF Next, Register, Cancel, Disable, Heartbeat, Work

\* A task object is never in two places of the scheduler, nor in one place twice:
\* neither the cleanup that takes pending_ apart and fills it again, nor rescheduling,
\* nor a cancellation at any moment makes a task run twice on one tick.
THEOREM SchedulerSingleEntry == Spec => []SingleEntry
<1>1. Init => EntryInv
  BY SchedulerAssumption DEF Init, EntryInv, EnteringOK, SingleEntry, Nowhere, Empty, Registering
<1>2. EntryInv => SingleEntry
  BY DEF EntryInv
<1> QED
  BY <1>1, <1>2, TypeInvAlways, EntryInvNext, PTL DEF Spec

-----------------------------------------------------------------------------
\* How often a task has run: never before it is registered, a one-shot not while it
\* is on its way to a run, and at least once when its body is done.
RunsOK ==
    /\ mpc \in {"body", "after"} => runs[mtask] > 0
    /\ \A t \in Task : id[t] = 0 => runs[t] = 0
    /\ \A th \in Thread : cpc[th] \in Registering => runs[ctask[th]] = 0
    /\ \A t \in Task : period[t] = 0 /\ ToRun(t) => runs[t] = 0

RunInv == NoLostTask /\ RunsOK

\* Arithmetic of an entry that is in neither of two places.
LEMMA NoneOfTwo == \A m, n \in Nat : m + n = 0 => m = 0 /\ n = 0
  BY SMTT(30)

\* No step drops a task that still has to run.
LEMMA RunInvNext == TypeInv /\ EntryInv /\ RunInv /\ [Next]_vars => RunInv'
<1> SUFFICES ASSUME TypeInv, EntryInv, RunInv, [Next]_vars PROVE RunInv'
  OBVIOUS
<1> USE SchedulerAssumption
    DEF TypeInv, TypeOK, SchedTypeOK, TaskTypeOK, ThreadTypeOK, HistTypeOK, ControlOK,
        MainPC, WorkPC, CallPC, RemovingCancelled, Running, Registering, Cancelling,
        schedVars, taskVars, mainVars, workVars, callVars, histVars,
        EntryInv, EnteringOK, Nowhere, RunInv, RunsOK, NoLostTask, Entering, InCharge, ToRun, InQueue
<1>1. ASSUME NEW th \in Thread, NEW t \in Task, NEW p \in Plugin, NEW d \in Delays, NEW n \in Periods, Validate(th, t, p, d, n) PROVE RunInv'
  <2>1. runs[t] = 0 /\ id[t] = 0
    BY <1>1 DEF Validate, Fresh
  <2>2. \A u \in Task : period'[u] = period[u] \/ u = t
    BY <1>1 DEF Validate
  <2>3. \A u \in Task : ToRun(u)' => ToRun(u)
    BY <1>1 DEF Validate, InCharge, ToRun, InQueue
  <2>4. \A u \in Task : InCharge(u) => InCharge(u)'
    BY <1>1 DEF Validate, InCharge, ToRun, InQueue
  <2>5. \A u \in Task : Entering(u) => Entering(u)'
    BY <1>1 DEF Validate, CanCall, Entering
  <2> HIDE DEF Entering, InCharge, ToRun, Nowhere
  <2> QED
    BY <1>1, <2>1, <2>2, <2>3, <2>4, <2>5 DEF Validate, CanCall
<1>2. ASSUME NEW th \in Thread, NEW t \in Task, RunInternalTask(th, t) PROVE RunInv'
  BY <1>2 DEF RunInternalTask, CanCall, Fresh
<1>3. ASSUME NEW th \in Thread, NEW i \in Id, Construct(th, i) PROVE RunInv'
  BY <1>3, SMTT(30) DEF Construct, IsNextId
<1>4. ASSUME NEW th \in Thread, Insert(th) PROVE RunInv'
  BY <1>4 DEF Insert, MissedByDisable
<1>5. ASSUME NEW th \in Thread, Enqueue(th) PROVE RunInv'
  <2>1. ctask[th] \in Task /\ runs[ctask[th]] = 0
    BY <1>5 DEF Enqueue
  <2>2. pending'[ctask[th]] > 0 /\ \A u \in Task : u # ctask[th] => pending'[u] = pending[u]
    BY <1>5, <2>1 DEF Enqueue
  <2>3. \A u \in Task : ToRun(u)' => ToRun(u) \/ u = ctask[th]
    BY <1>5, <2>1, <2>2 DEF Enqueue, InCharge, ToRun, InQueue
  <2>4. \A u \in Task : InCharge(u) \/ u = ctask[th] => InCharge(u)'
    BY <1>5, <2>1, <2>2 DEF Enqueue, InCharge, ToRun, InQueue
  <2>5. \A u \in Task : Entering(u) /\ u # ctask[th] => Entering(u)'
    BY <1>5, <2>1 DEF Enqueue, Entering
  <2> HIDE DEF Entering, InCharge, ToRun, Nowhere
  <2> QED
    BY <1>5, <2>1, <2>2, <2>3, <2>4, <2>5 DEF Enqueue
<1>6. ASSUME NEW th \in Thread, NEW i \in Id, CancelTask(th, i) PROVE RunInv'
  BY <1>6 DEF CancelTask, StartCancel, CanCall
<1>7. ASSUME NEW th \in Thread, NEW p \in Plugin, CancelTasks(th, p) PROVE RunInv'
  BY <1>7 DEF CancelTasks, StartCancel, CanCall, OwnedBy
<1>8. ASSUME NEW th \in Thread, NEW t \in Task, DoCancel(th, t) PROVE RunInv'
  <2>1. \A other \in Thread : cpc[other] \in Registering \/ cpc'[other] \in Registering =>
          cpc'[other] = cpc[other] /\ ctask'[other] = ctask[other]
    <3>1. CASE t \in Sync
      BY <1>8, <3>1 DEF DoCancel, AfterCancelling
    <3>2. CASE t \notin Sync
      BY <1>8, <3>2 DEF DoCancel
    <3> QED
      BY <3>1, <3>2
  <2>2. \A u \in Task : cancelled[u] => cancelled'[u]
    BY <1>8 DEF DoCancel
  <2>3. \A u \in Task : ToRun(u)' => ToRun(u)
    BY <1>8 DEF DoCancel, InCharge, ToRun, InQueue
  <2>4. \A u \in Task : InCharge(u) => InCharge(u)'
    BY <1>8 DEF DoCancel, InCharge, ToRun, InQueue
  <2>5. \A u \in Task : Entering(u) => Entering(u)'
    BY <1>8, <2>1 DEF Entering
  <2> HIDE DEF Entering, InCharge, ToRun, Nowhere
  <2> QED
    BY <1>8, <2>1, <2>2, <2>3, <2>4, <2>5 DEF DoCancel
<1>9. ASSUME NEW th \in Thread, CheckIdle(th) PROVE RunInv'
  <2>1. \A other \in Thread : cpc[other] \in Registering \/ cpc'[other] \in Registering =>
          cpc'[other] = cpc[other] /\ ctask'[other] = ctask[other]
    <3>1. CASE Idle(ctask[th])
      BY <1>9, <3>1 DEF CheckIdle
    <3>2. CASE ~Idle(ctask[th])
      BY <1>9, <3>2 DEF CheckIdle, AfterCancelling
    <3> QED
      BY <3>1, <3>2
  <2>2. \A u \in Task : ToRun(u)' => ToRun(u)
    BY <1>9 DEF CheckIdle, InCharge, ToRun, InQueue
  <2>3. \A u \in Task : InCharge(u) => InCharge(u)'
    BY <1>9 DEF CheckIdle, InCharge, ToRun, InQueue
  <2>4. \A u \in Task : Entering(u) => Entering(u)'
    BY <1>9, <2>1 DEF Entering
  <2> HIDE DEF Entering, InCharge, ToRun, Nowhere
  <2> QED
    BY <1>9, <2>1, <2>2, <2>3, <2>4 DEF CheckIdle
<1>10. ASSUME NEW th \in Thread, RemoveIdle(th) PROVE RunInv'
  BY <1>10 DEF RemoveIdle, AfterCancelling, RemoveTask
<1>11. ASSUME NEW th \in Thread, SetFlag(th) PROVE RunInv'
  BY <1>11 DEF SetFlag
<1>12. ASSUME NEW p \in Plugin, DisablePlugin(p) PROVE RunInv'
  <2>1. \A u \in Task : ToRun(u)' => ToRun(u)
    BY <1>12 DEF DisablePlugin, CanCall, InCharge, ToRun, InQueue
  <2>2. \A u \in Task : InCharge(u) => InCharge(u)'
    BY <1>12 DEF DisablePlugin, CanCall, InCharge, ToRun, InQueue
  <2>3. \A u \in Task : Entering(u) => Entering(u)'
    BY <1>12 DEF DisablePlugin, CanCall, Entering
  <2> HIDE DEF Entering, InCharge, ToRun, Nowhere
  <2> QED
    BY <1>12, <2>1, <2>2, <2>3 DEF DisablePlugin, CanCall
<1>13. CASE CancelDisabled
  BY <1>13 DEF CancelDisabled, StartCancel, OwnedBy
<1>14. CASE ReloadCleanup
  BY <1>14 DEF ReloadCleanup
<1>15. CASE HeartbeatBegin
  BY <1>15 DEF HeartbeatBegin, Base, SessionTick
<1>16. CASE ExchangeFlag
  BY <1>16 DEF ExchangeFlag
<1>17. ASSUME NEW t \in Task, RcDrain(t) PROVE RunInv'
  <2>1. \A u \in Task : ToRun(u)' => ToRun(u)
    BY <1>17 DEF RcDrain, Dequeues, Keep, InCharge, ToRun, InQueue
  <2>2. \A u \in Task : InCharge(u) => InCharge(u)' \/ cancelled[u]
    BY <1>17 DEF RcDrain, Dequeues, Keep, InCharge, ToRun, InQueue
  <2>3. \A u \in Task : Entering(u) => Entering(u)'
    BY <1>17 DEF RcDrain, Entering
  <2> HIDE DEF Entering, InCharge, ToRun, Nowhere
  <2> QED
    BY <1>17, <2>1, <2>2, <2>3 DEF RcDrain
<1>18. ASSUME NEW t \in Task, RcRefill(t) PROVE RunInv'
  <2>1. \A u \in Task : ToRun(u)' => ToRun(u)
    BY <1>18 DEF RcRefill, InCharge, ToRun, InQueue
  <2>2. \A u \in Task : InCharge(u) => InCharge(u)'
    BY <1>18 DEF RcRefill, InCharge, ToRun, InQueue
  <2>3. \A u \in Task : Entering(u) => Entering(u)'
    BY <1>18 DEF RcRefill, Entering
  <2> HIDE DEF Entering, InCharge, ToRun, Nowhere
  <2> QED
    BY <1>18, <2>1, <2>2, <2>3 DEF RcRefill
<1>19. ASSUME NEW t \in Task, Drain(t) PROVE RunInv'
  <2>1. BucketOf(t) \in Tick
    BY DEF BucketOf
  <2>2. \A u \in Task : u # t => pending'[u] = pending[u] /\ \A k \in Tick : queue'[k][u] = queue[k][u]
    BY <1>19, <2>1 DEF Drain
  <2>3. ~cancelled[t] => queue'[BucketOf(t)][t] > 0
    BY <1>19, <2>1 DEF Drain
  <2>4. pending[t] > 0
    BY <1>19 DEF Drain, Dequeues
  <2>5. \A u \in Task : ToRun(u)' => ToRun(u)
    BY <1>19, <2>2, <2>4 DEF Drain, InCharge, ToRun, InQueue
  <2>6. \A u \in Task : InCharge(u) => InCharge(u)' \/ cancelled[u]
    BY <1>19, <2>1, <2>2, <2>3 DEF Drain, InCharge, ToRun, InQueue
  <2>7. \A u \in Task : Entering(u) => Entering(u)'
    BY <1>19 DEF Drain, Entering
  <2> HIDE DEF Entering, InCharge, ToRun, Nowhere
  <2> QED
    BY <1>19, <2>5, <2>6, <2>7 DEF Drain
<1>20. CASE RcDrained
  BY <1>20 DEF RcDrained
<1>21. CASE RcRefilled
  BY <1>21 DEF RcRefilled
<1>22. CASE RcPurge
  <2>1. \A k \in Tick, u \in Task :
          /\ queue'[k][u] > 0 => queue[k][u] > 0
          /\ queue[k][u] > 0 => queue'[k][u] > 0 \/ cancelled[u]
    BY <1>22 DEF RcPurge, Purge
  <2>2. /\ mpc = "rcPurge" /\ mpc' \in {"idle", "drain"}
        /\ pending' = pending /\ kept' = kept /\ mtask' = mtask
    BY <1>22 DEF RcPurge
  <2>3. \A u \in Task : ToRun(u)' => ToRun(u)
    BY <2>1, <2>2 DEF InCharge, ToRun, InQueue
  <2>4. \A u \in Task : InCharge(u) => InCharge(u)' \/ cancelled[u]
    BY <2>1, <2>2 DEF InCharge, ToRun, InQueue
  <2>5. \A u \in Task : Entering(u) => Entering(u)'
    BY <1>22 DEF RcPurge, Entering
  <2> HIDE DEF Entering, InCharge, ToRun, Nowhere
  <2> QED
    BY <1>22, <2>2, <2>3, <2>4, <2>5 DEF RcPurge
<1>23. CASE Drained
  BY <1>23 DEF Drained
<1>24. ASSUME NEW k \in Tick, NEW t \in Task, Scan(k, t) PROVE RunInv'
  <2>1. queue[k][t] > 0 /\ \A j \in Tick, u \in Task : j # k \/ u # t => queue'[j][u] = queue[j][u]
    BY <1>24 DEF Scan, Walk
  <2>2. \A u \in Task : u # t => (InQueue(u)' => InQueue(u)) /\ (InQueue(u) => InQueue(u)')
    BY ONLY <2>1 DEF InQueue
  <2>3. InQueue(t)
    BY ONLY <2>1, <1>24 DEF InQueue
  <2>4. \A u \in Task : InQueue(u)' => InQueue(u)
    <3> SUFFICES ASSUME NEW u \in Task, InQueue(u)' PROVE InQueue(u)
      OBVIOUS
    <3>1. CASE u = t
      BY <2>3, <3>1
    <3>2. CASE u # t
      <4>1. PICK j \in Tick : queue'[j][u] > 0
        BY DEF InQueue
      <4>2. queue[j][u] > 0
        BY <2>1, <3>2, <4>1
      <4> QED
        BY <4>2 DEF InQueue
    <3> QED
      BY <3>1, <3>2
  <2>5. /\ mpc = "scan" /\ pending' = pending /\ kept' = kept
        /\ mpc' \in {"scan", "start", "remove"}
        /\ mpc' = "start" => mtask' = t
        /\ mpc' # "start" => cancelled[t]
    BY <1>24 DEF Scan
  <2>6. \A u \in Task : ToRun(u)' => ToRun(u)
    BY <2>3, <2>4, <2>5 DEF ToRun
  <2>7. \A u \in Task : InCharge(u) => InCharge(u)' \/ cancelled[u]
    <3>1. \A u \in Task : u # t /\ InCharge(u) => InCharge(u)'
      BY <2>2, <2>5 DEF InCharge, ToRun
    <3>2. InCharge(t)' \/ cancelled[t]
      BY <2>5 DEF InCharge, ToRun
    <3> HIDE DEF InCharge
    <3> QED
      BY ONLY <3>1, <3>2
  <2>8. \A u \in Task : Entering(u) => Entering(u)'
    BY <1>24 DEF Scan, Entering
  <2> HIDE DEF Entering, InCharge, ToRun, Nowhere
  <2> QED
    BY <1>24, <2>5, <2>6, <2>7, <2>8 DEF Scan
<1>25. CASE StartTask
  <2>1. mtask \in Task /\ mpc = "start" /\ mtask' = mtask /\ mpc' \in {"body", "after"}
    BY <1>25 DEF StartTask
  <2>2. runs'[mtask] = runs[mtask] + 1 /\ \A u \in Task : u # mtask => runs'[u] = runs[u]
    BY <1>25, <2>1 DEF StartTask
  <2>3. ~ToRun(mtask)'
    <3>1. pending[mtask] + kept[mtask] = 0 /\ pending[mtask] \in Nat /\ kept[mtask] \in Nat
      BY <2>1 DEF SingleEntry
    <3>2. pending[mtask] = 0 /\ kept[mtask] = 0
      BY <3>1, NoneOfTwo
    <3>3. \A k \in Tick : ~(queue[k][mtask] > 0)
      BY <2>1 DEF SingleEntry
    <3> QED
      BY <1>25, <2>1, <3>2, <3>3 DEF StartTask, ToRun, InQueue
  <2>4. ToRun(mtask)
    BY <2>1 DEF ToRun
  <2>5. \A u \in Task : ToRun(u)' => ToRun(u)
    BY <1>25, <2>1 DEF StartTask, ToRun, InQueue
  <2>6. \A u \in Task : InCharge(u) => InCharge(u)'
    BY <1>25, <2>1 DEF StartTask, InCharge, ToRun, InQueue
  <2>7. \A u \in Task : Entering(u) => Entering(u)'
    BY <1>25 DEF StartTask, Entering
  <2>8. id[mtask] # 0 /\ \A th \in Thread : cpc[th] \in Registering => ctask[th] # mtask
    BY <2>1 DEF Nowhere
  <2> HIDE DEF Entering, InCharge, ToRun, Nowhere
  <2>9. RunsOK'
    BY <1>25, <2>1, <2>2, <2>3, <2>5, <2>8 DEF StartTask
  <2>10. NoLostTask'
    BY <1>25, <2>1, <2>2, <2>4, <2>6, <2>7 DEF StartTask
  <2> QED
    BY <2>9, <2>10
<1>26. CASE BodyEnd
  BY <1>26 DEF BodyEnd
<1>27. CASE Reschedule
  <2>1. /\ mtask \in Task /\ mpc = "after" /\ mpc' = "scan"
        /\ period[mtask] # 0 /\ pending'[mtask] > 0
        /\ \A u \in Task : u # mtask => pending'[u] = pending[u]
    BY <1>27 DEF Reschedule, Repeats
  <2>2. \A u \in Task : u # mtask /\ ToRun(u)' => ToRun(u)
    BY <1>27, <2>1 DEF Reschedule, ToRun, InQueue
  <2>3. \A u \in Task : InCharge(u) => InCharge(u)'
    BY <1>27, <2>1 DEF Reschedule, InCharge, ToRun, InQueue
  <2>4. \A u \in Task : Entering(u) => Entering(u)'
    BY <1>27 DEF Reschedule, Entering
  <2> HIDE DEF Entering, InCharge, ToRun, Nowhere
  <2> QED
    BY <1>27, <2>1, <2>2, <2>3, <2>4 DEF Reschedule
<1>28. CASE Finish
  <2>1. /\ mtask \in Task /\ mpc = "after" /\ mpc' \in {"remove", "scan"}
        /\ period[mtask] = 0 \/ cancelled[mtask]
    BY <1>28 DEF Finish, Repeats
  <2>2. \A u \in Task : ToRun(u)' => ToRun(u)
    BY <1>28, <2>1 DEF Finish, ToRun, InQueue
  <2>3. \A u \in Task : u # mtask /\ InCharge(u) => InCharge(u)'
    BY <1>28, <2>1 DEF Finish, InCharge, ToRun, InQueue
  <2>4. \A u \in Task : Entering(u) => Entering(u)'
    BY <1>28 DEF Finish, Entering
  <2> HIDE DEF Entering, InCharge, ToRun, Nowhere
  <2> QED
    BY <1>28, <2>1, <2>2, <2>3, <2>4 DEF Finish
<1>29. CASE MainRemove
  BY <1>29 DEF MainRemove, RemoveTask
<1>30. CASE HeartbeatEnd
  BY <1>30 DEF HeartbeatEnd, Due
<1>31. ASSUME NEW w \in Worker, NEW t \in Task, TakeJob(w, t) PROVE RunInv'
  BY <1>31 DEF TakeJob
<1>32. ASSUME NEW w \in Worker, WorkerStart(w) PROVE RunInv'
  BY <1>32 DEF WorkerStart
<1>33. ASSUME NEW w \in Worker, WorkerFinish(w) PROVE RunInv'
  BY <1>33 DEF WorkerFinish, Finished
<1>34. ASSUME NEW w \in Worker, WorkerRemove(w) PROVE RunInv'
  BY <1>34 DEF WorkerRemove, RemoveTask
<1>35. CASE UNCHANGED vars
  BY <1>35 DEF vars
<1> QED
  BY <1>1, <1>2, <1>3, <1>4, <1>5, <1>6, <1>7, <1>8, <1>9, <1>10, <1>11, <1>12, <1>13, <1>14, <1>15, <1>16, <1>17, <1>18, <1>19, <1>20, <1>21, <1>22, <1>23, <1>24, <1>25, <1>26, <1>27, <1>28, <1>29, <1>30, <1>31, <1>32, <1>33, <1>34, <1>35
     DEF Next, Register, Cancel, Disable, Heartbeat, Work

\* No task that still has to run is dropped, and a one-shot task runs at most once,
\* whatever other threads register and cancel in the meantime.
THEOREM SchedulerLosesNoTask == Spec => []NoLostTask
<1>1. Init => EntryInv /\ RunInv
  BY SchedulerAssumption
     DEF Init, EntryInv, EnteringOK, SingleEntry, Nowhere, Empty, Registering,
         RunInv, RunsOK, NoLostTask
<1>2. RunInv => NoLostTask
  BY DEF RunInv
<1> QED
  BY <1>1, <1>2, TypeInvAlways, EntryInvNext, RunInvNext, PTL DEF Spec

-----------------------------------------------------------------------------
\* Ids are handed out once: the ids of two task objects differ and tasks_ holds a
\* task under its own id only.
IdsOK ==
    /\ ids > 0
    /\ \A t \in Task : id[t] < ids
    /\ \A t, u \in Task : id[t] = id[u] /\ id[t] # 0 => t = u
    /\ \A i \in Id : tasks[i] # NoTask => id[tasks[i]] = i
    /\ \A th \in Thread : cpc[th] = "construct" => id[ctask[th]] = 0

\* No step hands out an id twice or files a task under another's id.
LEMMA IdsNext == TypeInv /\ EntryInv /\ IdsOK /\ [Next]_vars => IdsOK'
<1> SUFFICES ASSUME TypeInv, EntryInv, IdsOK, [Next]_vars PROVE IdsOK'
  OBVIOUS
<1> USE SchedulerAssumption
    DEF TypeInv, TypeOK, SchedTypeOK, TaskTypeOK, ThreadTypeOK, HistTypeOK, ControlOK,
        MainPC, WorkPC, CallPC, RemovingCancelled, Running, Registering, Cancelling,
        schedVars, taskVars, mainVars, workVars, callVars, histVars,
        IdsOK
<1>1. ASSUME NEW th \in Thread, NEW t \in Task, NEW p \in Plugin, NEW d \in Delays, NEW n \in Periods, Validate(th, t, p, d, n) PROVE IdsOK'
  BY <1>1 DEF Validate, CanCall, Fresh
<1>2. ASSUME NEW th \in Thread, NEW t \in Task, RunInternalTask(th, t) PROVE IdsOK'
  BY <1>2 DEF RunInternalTask, CanCall, Fresh
<1>3. ASSUME NEW th \in Thread, NEW i \in Id, Construct(th, i) PROVE IdsOK'
  <2>1. /\ ctask[th] \in Task /\ id[ctask[th]] = 0 /\ cpc[th] = "construct"
        /\ i \in Nat /\ i # 0 /\ i >= ids /\ ids' = i + 1 /\ tasks' = tasks
    BY <1>3 DEF Construct, IsNextId, Id
  <2>2. id'[ctask[th]] = i /\ \A u \in Task : u # ctask[th] => id'[u] = id[u]
    BY <1>3, <2>1 DEF Construct
  <2>3. \A u \in Task : id[u] \in Nat /\ id[u] < i
    <3>1. \A u \in Task : id[u] \in Nat /\ id[u] < ids
      BY DEF Id
    <3>2. ids \in Nat
      OBVIOUS
    <3> QED
      BY ONLY <2>1, <3>1, <3>2
  <2>4. \A u \in Task : id'[u] < ids'
    BY ONLY <2>1, <2>2, <2>3
  <2>5. \A u, v \in Task : id'[u] = id'[v] /\ id'[u] # 0 => u = v
    BY ONLY <2>1, <2>2, <2>3, IdsOK DEF IdsOK
  <2>6. \A j \in Id : tasks'[j] # NoTask => id'[tasks'[j]] = j
    <3> SUFFICES ASSUME NEW j \in Id, tasks[j] # NoTask PROVE id'[tasks[j]] = j
      BY <2>1
    <3>1. tasks[j] \in Task /\ id[tasks[j]] = j /\ j # 0
      BY DEF Id
    <3> QED
      BY <2>1, <2>2, <3>1
  <2>7. \A other \in Thread : cpc'[other] = "construct" => id'[ctask'[other]] = 0
    <3> SUFFICES ASSUME NEW other \in Thread, cpc'[other] = "construct" PROVE id'[ctask'[other]] = 0
      OBVIOUS
    <3>1. other # th /\ cpc[other] = "construct" /\ ctask'[other] = ctask[other]
      BY <1>3 DEF Construct
    <3>2. ctask[other] \in Task /\ ctask[other] # ctask[th]
      BY <2>1, <3>1 DEF EntryInv, EnteringOK
    <3> QED
      BY <2>2, <3>1, <3>2
  <2> QED
    BY <2>1, <2>4, <2>5, <2>6, <2>7
<1>4. ASSUME NEW th \in Thread, Insert(th) PROVE IdsOK'
  BY <1>4 DEF Insert, MissedByDisable
<1>5. ASSUME NEW th \in Thread, Enqueue(th) PROVE IdsOK'
  BY <1>5 DEF Enqueue
<1>6. ASSUME NEW th \in Thread, NEW i \in Id, CancelTask(th, i) PROVE IdsOK'
  BY <1>6 DEF CancelTask, StartCancel, CanCall
<1>7. ASSUME NEW th \in Thread, NEW p \in Plugin, CancelTasks(th, p) PROVE IdsOK'
  BY <1>7 DEF CancelTasks, StartCancel, CanCall, OwnedBy
<1>8. ASSUME NEW th \in Thread, NEW t \in Task, DoCancel(th, t) PROVE IdsOK'
  <2>1. \A other \in Thread : cpc'[other] = "construct" =>
          cpc[other] = "construct" /\ ctask'[other] = ctask[other]
    <3>1. CASE t \in Sync
      BY <1>8, <3>1 DEF DoCancel, AfterCancelling
    <3>2. CASE t \notin Sync
      BY <1>8, <3>2 DEF DoCancel
    <3> QED
      BY <3>1, <3>2
  <2> QED
    BY <1>8, <2>1 DEF DoCancel
<1>9. ASSUME NEW th \in Thread, CheckIdle(th) PROVE IdsOK'
  BY <1>9 DEF CheckIdle, AfterCancelling, Idle
<1>10. ASSUME NEW th \in Thread, RemoveIdle(th) PROVE IdsOK'
  BY <1>10 DEF RemoveIdle, AfterCancelling, RemoveTask
<1>11. ASSUME NEW th \in Thread, SetFlag(th) PROVE IdsOK'
  BY <1>11 DEF SetFlag
<1>12. ASSUME NEW p \in Plugin, DisablePlugin(p) PROVE IdsOK'
  BY <1>12 DEF DisablePlugin, CanCall
<1>13. CASE CancelDisabled
  BY <1>13 DEF CancelDisabled, StartCancel, OwnedBy
<1>14. CASE ReloadCleanup
  BY <1>14 DEF ReloadCleanup
<1>15. CASE HeartbeatBegin
  BY <1>15 DEF HeartbeatBegin, Base, SessionTick
<1>16. CASE ExchangeFlag
  BY <1>16 DEF ExchangeFlag
<1>17. ASSUME NEW t \in Task, RcDrain(t) PROVE IdsOK'
  BY <1>17 DEF RcDrain, Dequeues, Keep
<1>18. ASSUME NEW t \in Task, RcRefill(t) PROVE IdsOK'
  BY <1>18 DEF RcRefill
<1>19. ASSUME NEW t \in Task, Drain(t) PROVE IdsOK'
  BY <1>19 DEF Drain, Dequeues, BucketOf
<1>20. CASE RcDrained
  BY <1>20 DEF RcDrained
<1>21. CASE RcRefilled
  BY <1>21 DEF RcRefilled
<1>22. CASE RcPurge
  BY <1>22 DEF RcPurge, Purge
<1>23. CASE Drained
  BY <1>23 DEF Drained
<1>24. ASSUME NEW k \in Tick, NEW t \in Task, Scan(k, t) PROVE IdsOK'
  BY <1>24 DEF Scan, Walk, First, Due
<1>25. CASE StartTask
  BY <1>25 DEF StartTask
<1>26. CASE BodyEnd
  BY <1>26 DEF BodyEnd
<1>27. CASE Reschedule
  BY <1>27 DEF Reschedule, Repeats
<1>28. CASE Finish
  BY <1>28 DEF Finish, Repeats
<1>29. CASE MainRemove
  BY <1>29 DEF MainRemove, RemoveTask
<1>30. CASE HeartbeatEnd
  BY <1>30 DEF HeartbeatEnd, Due
<1>31. ASSUME NEW w \in Worker, NEW t \in Task, TakeJob(w, t) PROVE IdsOK'
  BY <1>31 DEF TakeJob
<1>32. ASSUME NEW w \in Worker, WorkerStart(w) PROVE IdsOK'
  BY <1>32 DEF WorkerStart
<1>33. ASSUME NEW w \in Worker, WorkerFinish(w) PROVE IdsOK'
  BY <1>33 DEF WorkerFinish, Finished
<1>34. ASSUME NEW w \in Worker, WorkerRemove(w) PROVE IdsOK'
  BY <1>34 DEF WorkerRemove, RemoveTask
<1>35. CASE UNCHANGED vars
  BY <1>35 DEF vars
<1> QED
  BY <1>1, <1>2, <1>3, <1>4, <1>5, <1>6, <1>7, <1>8, <1>9, <1>10, <1>11, <1>12, <1>13, <1>14, <1>15, <1>16, <1>17, <1>18, <1>19, <1>20, <1>21, <1>22, <1>23, <1>24, <1>25, <1>26, <1>27, <1>28, <1>29, <1>30, <1>31, <1>32, <1>33, <1>34, <1>35
     DEF Next, Register, Cancel, Disable, Heartbeat, Work

-----------------------------------------------------------------------------
\* Some cancelling thread is about to cancel the task.
Taken(t) == \E th \in Thread : t \in cset[th]

\* The task object is not in tasks_ yet: not constructed, or not inserted.
Unborn(t) ==
    \/ id[t] = 0
    \/ \E th \in Thread : cpc[th] \in {"construct", "insert"} /\ ctask[th] = t

\* Until its insertion nobody can have found the task: it is in no map, held by no
\* canceller and by no worker.
UnbornOK ==
    \A t \in Task : Unborn(t) =>
        /\ ~cancelled[t] /\ ~Taken(t)
        /\ jobs[t] = 0 /\ \A w \in Worker : wtask[w] # t
        /\ \A i \in Id : tasks[i] # t

\* A canceller that is done with a task touches nobody else's control state.
LEMMA AfterCancellingFacts ==
  ASSUME TypeInv, NEW th \in Thread, NEW t \in Task, AfterCancelling(th, t)
  PROVE  /\ \A other \in Thread \ {th} :
               cpc'[other] = cpc[other] /\ ctask'[other] = ctask[other] /\ cset'[other] = cset[other]
         /\ cset'[th] = cset[th] \ {t} /\ ctask'[th] = NoTask
         /\ cpc'[th] \in {"setFlag", "doCancel"}
         /\ \A u \in Task : (Taken(u)' => Taken(u)) /\ (Taken(u) /\ u # t => Taken(u)')
<1>1. /\ \A other \in Thread \ {th} :
            cpc'[other] = cpc[other] /\ ctask'[other] = ctask[other] /\ cset'[other] = cset[other]
      /\ cset'[th] = cset[th] \ {t} /\ ctask'[th] = NoTask
      /\ cpc'[th] \in {"setFlag", "doCancel"}
  <2>1. /\ cset \in [Thread -> SUBSET Task] /\ DOMAIN cpc = Thread /\ DOMAIN ctask = Thread
        /\ cpc = [o \in Thread |-> cpc[o]] /\ ctask = [o \in Thread |-> ctask[o]]
    BY DEF TypeInv, TypeOK, ThreadTypeOK
  <2> QED
    BY <2>1 DEF AfterCancelling
<1>2. \A u \in Task : (Taken(u)' => Taken(u)) /\ (Taken(u) /\ u # t => Taken(u)')
  BY <1>1 DEF Taken
<1> QED
  BY <1>1, <1>2

\* Starting a cancellation takes the sync tasks it found out of tasks_, and nothing else.
LEMMA StartCancelFacts ==
  ASSUME TypeInv, NEW th \in Thread, NEW found \in SUBSET Task, StartCancel(th, found), cset[th] = {}
  PROVE  /\ \A other \in Thread \ {th} : cpc'[other] = cpc[other] /\ cset'[other] = cset[other]
         /\ cset'[th] = found /\ cpc'[th] \in {"setFlag", "doCancel"}
         /\ \A u \in Task : (Taken(u)' => Taken(u) \/ u \in found) /\ (Taken(u) \/ u \in found => Taken(u)')
         /\ \A i \in Id : tasks'[i] = tasks[i] \/ (tasks'[i] = NoTask /\ tasks[i] \in found \cap Sync)
         /\ \A i \in Id : tasks[i] \in found \cap Sync => tasks'[i] = NoTask
         /\ \A u \in Task :
               /\ Registered(u)' => Registered(u) /\ ~(u \in found /\ u \in Sync)
               /\ Registered(u) => Registered(u)' \/ (u \in found /\ u \in Sync)
<1>1. /\ \A other \in Thread \ {th} : cpc'[other] = cpc[other] /\ cset'[other] = cset[other]
      /\ cset'[th] = found /\ cpc'[th] \in {"setFlag", "doCancel"}
  BY DEF StartCancel, TypeInv, TypeOK, ThreadTypeOK
<1>2. \A u \in Task : (Taken(u)' => Taken(u) \/ u \in found) /\ (Taken(u) \/ u \in found => Taken(u)')
  BY <1>1 DEF Taken
<1>3. \A i \in Id : tasks'[i] = IF tasks[i] \in found \cap Sync THEN NoTask ELSE tasks[i]
  BY DEF StartCancel
<1>4. \A i \in Id : tasks'[i] = tasks[i] \/ (tasks'[i] = NoTask /\ tasks[i] \in found \cap Sync)
  BY ONLY <1>3
<1>5. \A i \in Id : tasks[i] \in found \cap Sync => tasks'[i] = NoTask
  BY ONLY <1>3
<1>6. id' = id /\ \A u \in Task : id[u] # 0 => id[u] \in Id
  BY DEF StartCancel, taskVars, TypeInv, TypeOK, TaskTypeOK
<1>7. \A u \in Task :
        /\ Registered(u)' => Registered(u) /\ ~(u \in found /\ u \in Sync)
        /\ Registered(u) => Registered(u)' \/ (u \in found /\ u \in Sync)
  <2>1. NoTask \notin Task
    BY SchedulerAssumption
  <2> QED
    BY ONLY <1>4, <1>5, <1>6, <2>1 DEF Registered
<1> QED
  BY <1>1, <1>2, <1>4, <1>5, <1>7

\* removeTask takes the task itself out of tasks_, and no other.
LEMMA RemoveTaskFacts ==
  ASSUME TypeInv, IdsOK, NEW t \in Task, tasks' = RemoveTask(id[t]), id' = id
  PROVE  /\ ~Registered(t)'
         /\ \A u \in Task : (Registered(u)' => Registered(u)) /\ (Registered(u) /\ u # t => Registered(u)')
<1>1. /\ tasks \in [Id -> Task \cup {NoTask}] /\ id \in [Task -> Id \cup {0}]
      /\ tasks' = [tasks EXCEPT ![id[t]] = NoTask]
      /\ NoTask \notin Task
  BY SchedulerAssumption DEF RemoveTask, TypeInv, TypeOK, SchedTypeOK, TaskTypeOK
<1>2. \A u \in Task : id[u] # 0 => id[u] \in Id
  BY <1>1
<1>3. \A u \in Task : u # t /\ id[u] # 0 => id[u] # id[t]
  BY DEF IdsOK
<1> QED
  BY <1>1, <1>2, <1>3 DEF Registered

\* A task becomes visible to other threads by its insertion only.
LEMMA UnbornNext == TypeInv /\ EntryInv /\ IdsOK /\ UnbornOK /\ [Next]_vars => UnbornOK'
<1> SUFFICES ASSUME TypeInv, EntryInv, IdsOK, UnbornOK, [Next]_vars PROVE UnbornOK'
  OBVIOUS
<1>a. ASSUME NEW th \in Thread, NEW t \in Task, AfterCancelling(th, t)
      PROVE  /\ \A other \in Thread \ {th} :
                   cpc'[other] = cpc[other] /\ ctask'[other] = ctask[other] /\ cset'[other] = cset[other]
             /\ cset'[th] = cset[th] \ {t} /\ ctask'[th] = NoTask
             /\ cpc'[th] \in {"setFlag", "doCancel"}
             /\ \A u \in Task : (Taken(u)' => Taken(u)) /\ (Taken(u) /\ u # t => Taken(u)')
  BY <1>a, AfterCancellingFacts
<1> USE SchedulerAssumption
    DEF TypeInv, TypeOK, SchedTypeOK, TaskTypeOK, ThreadTypeOK, HistTypeOK, ControlOK,
        MainPC, WorkPC, CallPC, RemovingCancelled, Running, Registering, Cancelling,
        schedVars, taskVars, mainVars, workVars, callVars, histVars,
        IdsOK, UnbornOK, Unborn, Taken
<1>1. ASSUME NEW th \in Thread, NEW t \in Task, NEW p \in Plugin, NEW d \in Delays, NEW n \in Periods, Validate(th, t, p, d, n) PROVE UnbornOK'
  BY <1>1 DEF Validate, CanCall, Fresh
<1>2. ASSUME NEW th \in Thread, NEW t \in Task, RunInternalTask(th, t) PROVE UnbornOK'
  BY <1>2 DEF RunInternalTask, CanCall, Fresh
<1>3. ASSUME NEW th \in Thread, NEW i \in Id, Construct(th, i) PROVE UnbornOK'
  BY <1>3 DEF Construct, IsNextId
<1>4. ASSUME NEW th \in Thread, Insert(th) PROVE UnbornOK'
  <2>1. ctask[th] \in Task /\ id[ctask[th]] \in Id /\ cpc[th] = "insert"
    BY <1>4 DEF Insert, EntryInv, EnteringOK
  <2>2. /\ id' = id /\ ctask' = ctask /\ cpc'[th] = "enqueue"
        /\ \A other \in Thread \ {th} : cpc'[other] = cpc[other]
    BY <1>4 DEF Insert
  <2>3. \A other \in Thread : cpc[other] \in {"construct", "insert"} /\ ctask[other] = ctask[th] => other = th
    BY <2>1 DEF EntryInv, EnteringOK
  <2>4. \A u \in Task : Unborn(u)' => Unborn(u) /\ u # ctask[th]
    BY ONLY <2>1, <2>2, <2>3, 0 \notin Id DEF Unborn, Id
  <2>5. \A u \in Task : Taken(u)' => Taken(u)
    BY <1>4 DEF Insert
  <2>6. \A i \in Id, u \in Task : tasks'[i] = u => tasks[i] = u \/ u = ctask[th]
    BY <1>4, <2>1 DEF Insert
  <2> HIDE DEF Taken, Unborn
  <2> QED
    BY <1>4, <2>4, <2>5, <2>6 DEF Insert
<1>5. ASSUME NEW th \in Thread, Enqueue(th) PROVE UnbornOK'
  BY <1>5 DEF Enqueue
<1>6. ASSUME NEW th \in Thread, NEW i \in Id, CancelTask(th, i) PROVE UnbornOK'
  BY <1>6 DEF CancelTask, StartCancel, CanCall
<1>7. ASSUME NEW th \in Thread, NEW p \in Plugin, CancelTasks(th, p) PROVE UnbornOK'
  BY <1>7 DEF CancelTasks, StartCancel, CanCall, OwnedBy
<1>8. ASSUME NEW th \in Thread, NEW t \in Task, DoCancel(th, t) PROVE UnbornOK'
  <2>1. Taken(t)
    BY <1>8 DEF DoCancel
  <2>2. CASE t \in Sync
    <3>1. AfterCancelling(th, t) /\ cpc[th] = "doCancel" /\ id' = id
      BY <1>8, <2>2 DEF DoCancel
    <3>2. \A u \in Task : Unborn(u)' => Unborn(u)
      BY <3>1, <1>a
    <3>3. \A u \in Task : Taken(u)' => Taken(u)
      BY <3>1, <1>a
    <3> HIDE DEF Taken, Unborn
    <3> QED
      BY <1>8, <2>1, <3>2, <3>3 DEF DoCancel
  <2>3. CASE t \notin Sync
    <3>1. /\ cpc[th] = "doCancel" /\ id' = id /\ cset' = cset /\ cpc'[th] = "checkIdle"
          /\ \A other \in Thread \ {th} : cpc'[other] = cpc[other] /\ ctask'[other] = ctask[other]
      BY <1>8, <2>3 DEF DoCancel
    <3>2. \A u \in Task : (Unborn(u)' => Unborn(u)) /\ (Taken(u)' => Taken(u))
      BY <3>1
    <3> HIDE DEF Taken, Unborn
    <3> QED
      BY <1>8, <2>1, <3>2 DEF DoCancel
  <2> QED
    BY <2>2, <2>3
<1>9. ASSUME NEW th \in Thread, CheckIdle(th) PROVE UnbornOK'
  <2>1. \A u \in Task : (Unborn(u)' => Unborn(u)) /\ (Taken(u)' => Taken(u))
    <3>1. CASE Idle(ctask[th])
      BY <1>9, <3>1 DEF CheckIdle
    <3>2. CASE ~Idle(ctask[th])
      <4>1. /\ AfterCancelling(th, ctask[th]) /\ cpc[th] = "checkIdle"
            /\ id' = id /\ ctask[th] \in Task
        BY <1>9, <3>2 DEF CheckIdle
      <4>2. \A u \in Task : Unborn(u)' => Unborn(u)
        BY <4>1, <1>a
      <4> QED
        BY <4>1, <4>2, <1>a
    <3> QED
      BY <3>1, <3>2
  <2> HIDE DEF Taken, Unborn
  <2> QED
    BY <1>9, <2>1 DEF CheckIdle
<1>10. ASSUME NEW th \in Thread, RemoveIdle(th) PROVE UnbornOK'
  BY <1>10 DEF RemoveIdle, AfterCancelling, RemoveTask
<1>11. ASSUME NEW th \in Thread, SetFlag(th) PROVE UnbornOK'
  BY <1>11 DEF SetFlag
<1>12. ASSUME NEW p \in Plugin, DisablePlugin(p) PROVE UnbornOK'
  BY <1>12 DEF DisablePlugin, CanCall
<1>13. CASE CancelDisabled
  BY <1>13 DEF CancelDisabled, StartCancel, OwnedBy
<1>14. CASE ReloadCleanup
  BY <1>14 DEF ReloadCleanup
<1>15. CASE HeartbeatBegin
  BY <1>15 DEF HeartbeatBegin, Base, SessionTick
<1>16. CASE ExchangeFlag
  BY <1>16 DEF ExchangeFlag
<1>17. ASSUME NEW t \in Task, RcDrain(t) PROVE UnbornOK'
  BY <1>17 DEF RcDrain, Dequeues, Keep
<1>18. ASSUME NEW t \in Task, RcRefill(t) PROVE UnbornOK'
  BY <1>18 DEF RcRefill
<1>19. ASSUME NEW t \in Task, Drain(t) PROVE UnbornOK'
  BY <1>19 DEF Drain, Dequeues, BucketOf
<1>20. CASE RcDrained
  BY <1>20 DEF RcDrained
<1>21. CASE RcRefilled
  BY <1>21 DEF RcRefilled
<1>22. CASE RcPurge
  BY <1>22 DEF RcPurge, Purge
<1>23. CASE Drained
  BY <1>23 DEF Drained
<1>24. ASSUME NEW k \in Tick, NEW t \in Task, Scan(k, t) PROVE UnbornOK'
  BY <1>24 DEF Scan, Walk, First, Due
<1>25. CASE StartTask
  <2>1. mtask \in Task /\ ~Unborn(mtask)
    BY <1>25 DEF StartTask, EntryInv, EnteringOK, Nowhere
  <2>2. \A u \in Task : u # mtask => jobs'[u] = jobs[u]
    BY <1>25, <2>1 DEF StartTask
  <2>3. \A u \in Task : (Unborn(u)' => Unborn(u)) /\ (Taken(u)' => Taken(u))
    BY <1>25 DEF StartTask
  <2> HIDE DEF Taken, Unborn
  <2> QED
    BY <1>25, <2>1, <2>2, <2>3 DEF StartTask
<1>26. CASE BodyEnd
  BY <1>26 DEF BodyEnd
<1>27. CASE Reschedule
  BY <1>27 DEF Reschedule, Repeats
<1>28. CASE Finish
  BY <1>28 DEF Finish, Repeats
<1>29. CASE MainRemove
  BY <1>29 DEF MainRemove, RemoveTask
<1>30. CASE HeartbeatEnd
  BY <1>30 DEF HeartbeatEnd, Due
<1>31. ASSUME NEW w \in Worker, NEW t \in Task, TakeJob(w, t) PROVE UnbornOK'
  BY <1>31 DEF TakeJob
<1>32. ASSUME NEW w \in Worker, WorkerStart(w) PROVE UnbornOK'
  BY <1>32 DEF WorkerStart
<1>33. ASSUME NEW w \in Worker, WorkerFinish(w) PROVE UnbornOK'
  BY <1>33 DEF WorkerFinish, Finished
<1>34. ASSUME NEW w \in Worker, WorkerRemove(w) PROVE UnbornOK'
  BY <1>34 DEF WorkerRemove, RemoveTask
<1>35. CASE UNCHANGED vars
  BY <1>35 DEF vars
<1> QED
  BY <1>1, <1>2, <1>3, <1>4, <1>5, <1>6, <1>7, <1>8, <1>9, <1>10, <1>11, <1>12, <1>13, <1>14, <1>15, <1>16, <1>17, <1>18, <1>19, <1>20, <1>21, <1>22, <1>23, <1>24, <1>25, <1>26, <1>27, <1>28, <1>29, <1>30, <1>31, <1>32, <1>33, <1>34, <1>35
     DEF Next, Register, Cancel, Disable, Heartbeat, Work

-----------------------------------------------------------------------------
\* workers_ is the set of the threads inside the body; only async tasks have any.
BodiesOK ==
    /\ \A t \in Task, w \in Worker :
          /\ w \in workers[t] => wpc[w] = "body" /\ wtask[w] = t
          /\ wpc[w] = "body" /\ wtask[w] = t => w \in workers[t]
    /\ \A w \in Worker : wtask[w] \in Async \cup {NoTask}
    /\ \A t \in Sync : jobs[t] = 0
    /\ mpc \in {"remove", "body"} => mtask \in Sync

\* A worker or a canceller that is about to remove a task found no worker inside, and
\* none will enter.
RemovingOK ==
    /\ \A w \in Worker : wpc[w] = "remove" =>
          /\ workers[wtask[w]] = {}
          /\ period[wtask[w]] = 0 \/ cancelled[wtask[w]]
    /\ \A th \in Thread : cpc[th] \in {"checkIdle", "remove"} =>
          ctask[th] \in Async /\ cancelled[ctask[th]]
    /\ \A th \in Thread : cpc[th] = "remove" => workers[ctask[th]] = {}

\* A one-shot task has at most one run under way.
OneRunOK ==
    /\ \A t \in Task : runs[t] = 0 => jobs[t] = 0 /\ \A w \in Worker : wtask[w] # t
    /\ \A t \in Task : period[t] = 0 =>
          /\ jobs[t] <= 1
          /\ jobs[t] > 0 => \A w \in Worker : wtask[w] # t
          /\ \A w, v \in Worker : wtask[w] = t /\ wtask[v] = t => w = v

\* Who runs and who removes an async task.
WorkersOK == BodiesOK /\ RemovingOK /\ OneRunOK

\* Workers and cancellers keep to that.
LEMMA WorkersNext == TypeInv /\ EntryInv /\ RunInv /\ IdsOK /\ UnbornOK /\ WorkersOK /\ [Next]_vars => WorkersOK'
<1> SUFFICES ASSUME TypeInv, EntryInv, RunInv, IdsOK, UnbornOK, WorkersOK, [Next]_vars PROVE WorkersOK'
  OBVIOUS
<1>a. ASSUME NEW th \in Thread, NEW t \in Task, AfterCancelling(th, t)
      PROVE  /\ \A other \in Thread \ {th} : cpc'[other] = cpc[other] /\ ctask'[other] = ctask[other]
             /\ cpc'[th] \in {"setFlag", "doCancel"}
  BY <1>a, AfterCancellingFacts
<1> USE SchedulerAssumption
    DEF TypeInv, TypeOK, SchedTypeOK, TaskTypeOK, ThreadTypeOK, HistTypeOK, ControlOK,
        MainPC, WorkPC, CallPC, RemovingCancelled, Running, Registering, Cancelling,
        schedVars, taskVars, mainVars, workVars, callVars, histVars,
        WorkersOK, BodiesOK, RemovingOK, OneRunOK, Async
<1>1. ASSUME NEW th \in Thread, NEW t \in Task, NEW p \in Plugin, NEW d \in Delays, NEW n \in Periods, Validate(th, t, p, d, n) PROVE WorkersOK'
  <2>1. jobs[t] = 0 /\ \A w \in Worker : wtask[w] # t
    BY <1>1 DEF Validate, Fresh, UnbornOK, Unborn
  <2>2. \A u \in Task : u # t => period'[u] = period[u]
    BY <1>1 DEF Validate
  <2>3. \A o \in Thread : cpc'[o] \in {"checkIdle", "remove"} => cpc'[o] = cpc[o] /\ ctask'[o] = ctask[o]
    BY <1>1 DEF Validate, CanCall
  <2> QED
    BY <1>1, <2>1, <2>2, <2>3 DEF Validate
<1>2. ASSUME NEW th \in Thread, NEW t \in Task, RunInternalTask(th, t) PROVE WorkersOK'
  BY <1>2 DEF RunInternalTask, CanCall, Fresh
<1>3. ASSUME NEW th \in Thread, NEW i \in Id, Construct(th, i) PROVE WorkersOK'
  BY <1>3 DEF Construct, IsNextId
<1>4. ASSUME NEW th \in Thread, Insert(th) PROVE WorkersOK'
  BY <1>4 DEF Insert, MissedByDisable
<1>5. ASSUME NEW th \in Thread, Enqueue(th) PROVE WorkersOK'
  BY <1>5 DEF Enqueue
<1>6. ASSUME NEW th \in Thread, NEW i \in Id, CancelTask(th, i) PROVE WorkersOK'
  BY <1>6 DEF CancelTask, StartCancel, CanCall
<1>7. ASSUME NEW th \in Thread, NEW p \in Plugin, CancelTasks(th, p) PROVE WorkersOK'
  BY <1>7 DEF CancelTasks, StartCancel, CanCall, OwnedBy
<1>8. ASSUME NEW th \in Thread, NEW t \in Task, DoCancel(th, t) PROVE WorkersOK'
  <2>1. /\ \A u \in Task : cancelled[u] => cancelled'[u]
        /\ \A w \in Worker : wpc[w] = "remove" => wtask[w] \in Task
        /\ wpc' = wpc /\ wtask' = wtask /\ workers' = workers /\ period' = period
    BY <1>8 DEF DoCancel
  <2>2. cancelled'[t] /\ t \in cset[th]
    BY <1>8 DEF DoCancel
  <2>3. RemovingOK'
    <3>1. CASE t \in Sync
      <4>1. AfterCancelling(th, t)
        BY <1>8, <3>1 DEF DoCancel
      <4>2. /\ \A o \in Thread \ {th} : cpc'[o] = cpc[o] /\ ctask'[o] = ctask[o]
            /\ cpc'[th] \in {"setFlag", "doCancel"}
        BY <4>1, <1>a
      <4> QED
        BY ONLY RemovingOK, <2>1, <4>2 DEF RemovingOK, Async
    <3>2. CASE t \notin Sync
      <4>1. /\ cpc'[th] = "checkIdle" /\ ctask'[th] = t
            /\ \A o \in Thread \ {th} : cpc'[o] = cpc[o] /\ ctask'[o] = ctask[o]
        BY <1>8, <3>2 DEF DoCancel
      <4>2. t \in Async
        BY <3>2
      <4> QED
        BY ONLY RemovingOK, <2>1, <2>2, <4>1, <4>2 DEF RemovingOK, Async
    <3> QED
      BY <3>1, <3>2
  <2> QED
    BY <1>8, <2>3 DEF DoCancel
<1>9. ASSUME NEW th \in Thread, CheckIdle(th) PROVE WorkersOK'
  <2>1. /\ wpc' = wpc /\ wtask' = wtask /\ workers' = workers /\ period' = period
        /\ cancelled' = cancelled /\ cpc[th] = "checkIdle"
    BY <1>9 DEF CheckIdle
  <2>2. RemovingOK'
    <3>1. CASE Idle(ctask[th])
      <4>1. /\ cpc'[th] = "remove" /\ ctask' = ctask /\ workers[ctask[th]] = {}
            /\ \A o \in Thread \ {th} : cpc'[o] = cpc[o]
        BY <1>9, <3>1 DEF CheckIdle, Idle
      <4> QED
        BY ONLY RemovingOK, <2>1, <4>1 DEF RemovingOK
    <3>2. CASE ~Idle(ctask[th])
      <4>1. AfterCancelling(th, ctask[th]) /\ ctask[th] \in Task
        BY <1>9, <3>2 DEF CheckIdle
      <4>2. /\ \A o \in Thread \ {th} : cpc'[o] = cpc[o] /\ ctask'[o] = ctask[o]
            /\ cpc'[th] \in {"setFlag", "doCancel"}
        BY <4>1, <1>a
      <4> QED
        BY ONLY RemovingOK, <2>1, <4>2 DEF RemovingOK
    <3> QED
      BY <3>1, <3>2
  <2> QED
    BY <1>9, <2>2 DEF CheckIdle
<1>10. ASSUME NEW th \in Thread, RemoveIdle(th) PROVE WorkersOK'
  BY <1>10 DEF RemoveIdle, AfterCancelling, RemoveTask
<1>11. ASSUME NEW th \in Thread, SetFlag(th) PROVE WorkersOK'
  BY <1>11 DEF SetFlag
<1>12. ASSUME NEW p \in Plugin, DisablePlugin(p) PROVE WorkersOK'
  BY <1>12 DEF DisablePlugin, CanCall
<1>13. CASE CancelDisabled
  BY <1>13 DEF CancelDisabled, StartCancel, OwnedBy
<1>14. CASE ReloadCleanup
  BY <1>14 DEF ReloadCleanup
<1>15. CASE HeartbeatBegin
  BY <1>15 DEF HeartbeatBegin, Base, SessionTick
<1>16. CASE ExchangeFlag
  BY <1>16 DEF ExchangeFlag
<1>17. ASSUME NEW t \in Task, RcDrain(t) PROVE WorkersOK'
  BY <1>17 DEF RcDrain, Dequeues, Keep
<1>18. ASSUME NEW t \in Task, RcRefill(t) PROVE WorkersOK'
  BY <1>18 DEF RcRefill
<1>19. ASSUME NEW t \in Task, Drain(t) PROVE WorkersOK'
  BY <1>19 DEF Drain, Dequeues, BucketOf
<1>20. CASE RcDrained
  BY <1>20 DEF RcDrained
<1>21. CASE RcRefilled
  BY <1>21 DEF RcRefilled
<1>22. CASE RcPurge
  BY <1>22 DEF RcPurge, Purge
<1>23. CASE Drained
  BY <1>23 DEF Drained
<1>24. ASSUME NEW k \in Tick, NEW t \in Task, Scan(k, t) PROVE WorkersOK'
  BY <1>24 DEF Scan, Walk, First, Due
<1>25. CASE StartTask
  <2>1. mtask \in Task /\ mpc = "start" /\ ToRun(mtask)
    BY <1>25 DEF StartTask, ToRun
  <2>2. period[mtask] = 0 => runs[mtask] = 0
    BY <2>1 DEF RunInv, RunsOK
  <2>3. runs'[mtask] = runs[mtask] + 1 /\ \A u \in Task : u # mtask => runs'[u] = runs[u]
    BY <1>25, <2>1 DEF StartTask
  <2>4. runs'[mtask] # 0
    BY <2>1, <2>3
  <2>5. CASE mtask \in Sync
    BY <1>25, <2>1, <2>3, <2>4, <2>5 DEF StartTask
  <2>6. CASE mtask \notin Sync
    <3>1. /\ jobs'[mtask] = jobs[mtask] + 1 /\ \A u \in Task : u # mtask => jobs'[u] = jobs[u]
          /\ mpc' = "after" /\ mtask' = mtask
      BY <1>25, <2>1, <2>6 DEF StartTask
    <3>2. period[mtask] = 0 => jobs'[mtask] <= 1 /\ \A w \in Worker : wtask[w] # mtask
      BY <2>1, <2>2, <3>1
    <3>3. BodiesOK' /\ RemovingOK'
      BY <1>25, <2>1, <2>6, <3>1 DEF StartTask
    <3>4. OneRunOK'
      <4>1. wtask' = wtask /\ period' = period
        BY <1>25 DEF StartTask
      <4> QED
        BY ONLY OneRunOK, <2>1, <2>3, <2>4, <3>1, <3>2, <4>1 DEF OneRunOK
    <3> QED
      BY <3>3, <3>4
  <2> QED
    BY <2>5, <2>6
<1>26. CASE BodyEnd
  BY <1>26 DEF BodyEnd
<1>27. CASE Reschedule
  BY <1>27 DEF Reschedule, Repeats
<1>28. CASE Finish
  BY <1>28 DEF Finish, Repeats
<1>29. CASE MainRemove
  BY <1>29 DEF MainRemove, RemoveTask
<1>30. CASE HeartbeatEnd
  BY <1>30 DEF HeartbeatEnd, Due
<1>31. ASSUME NEW w \in Worker, NEW t \in Task, TakeJob(w, t) PROVE WorkersOK'
  BY <1>31 DEF TakeJob
<1>32. ASSUME NEW w \in Worker, WorkerStart(w) PROVE WorkersOK'
  <2>1. CASE cancelled[wtask[w]]
    <3>1. /\ wpc' = [wpc EXCEPT ![w] = "idle"]
          /\ wtask' = [wtask EXCEPT ![w] = NoTask]
          /\ workers' = workers /\ wpc[w] = "start"
      BY <1>32, <2>1, Zenon DEF WorkerStart
    <3> QED
      BY <1>32, <3>1 DEF WorkerStart
  <2>2. CASE ~cancelled[wtask[w]]
    <3>1. /\ wpc' = [wpc EXCEPT ![w] = "body"]
          /\ workers' = [workers EXCEPT ![wtask[w]] = @ \cup {w}]
          /\ wtask' = wtask /\ wpc[w] = "start"
      BY <1>32, <2>2, Zenon DEF WorkerStart
    <3>2. \A v \in Worker : wpc[v] = "remove" => wtask[v] # wtask[w]
      BY <2>2, <3>1
    <3>3. \A th \in Thread : cpc[th] = "remove" => ctask[th] # wtask[w]
      BY <2>2
    <3>4. \A t \in Task : t # wtask[w] => workers'[t] = workers[t]
      BY <3>1
    <3> QED
      BY <1>32, <3>1, <3>2, <3>3, <3>4 DEF WorkerStart
  <2> QED
    BY <2>1, <2>2
<1>33. ASSUME NEW w \in Worker, WorkerFinish(w) PROVE WorkersOK'
  <2>1. /\ wpc[w] = "body" /\ wtask[w] \in Task
        /\ workers'[wtask[w]] = workers[wtask[w]] \ {w}
        /\ \A t \in Task : t # wtask[w] => workers'[t] = workers[t]
    BY <1>33 DEF WorkerFinish
  <2>2. CASE Finished(w)
    <3>1. wpc' = [wpc EXCEPT ![w] = "remove"] /\ wtask' = wtask
      BY <1>33, <2>2 DEF WorkerFinish
    <3>2. workers'[wtask[w]] = {} /\ (period[wtask[w]] = 0 \/ cancelled[wtask[w]])
      BY <2>1, <2>2 DEF Finished
    <3> QED
      BY <1>33, <2>1, <3>1, <3>2 DEF WorkerFinish
  <2>3. CASE ~Finished(w)
    <3>1. /\ wpc' = [wpc EXCEPT ![w] = "idle"]
          /\ wtask' = [wtask EXCEPT ![w] = NoTask]
      BY <1>33, <2>3 DEF WorkerFinish
    <3> QED
      BY <1>33, <2>1, <3>1 DEF WorkerFinish
  <2> QED
    BY <2>2, <2>3
<1>34. ASSUME NEW w \in Worker, WorkerRemove(w) PROVE WorkersOK'
  BY <1>34 DEF WorkerRemove, RemoveTask
<1>35. CASE UNCHANGED vars
  BY <1>35 DEF vars
<1> HIDE DEF WorkersOK, BodiesOK, RemovingOK, OneRunOK
<1> QED
  BY <1>1, <1>2, <1>3, <1>4, <1>5, <1>6, <1>7, <1>8, <1>9, <1>10, <1>11, <1>12, <1>13, <1>14, <1>15, <1>16, <1>17, <1>18, <1>19, <1>20, <1>21, <1>22, <1>23, <1>24, <1>25, <1>26, <1>27, <1>28, <1>29, <1>30, <1>31, <1>32, <1>33, <1>34, <1>35
     DEF Next, Register, Cancel, Disable, Heartbeat, Work

-----------------------------------------------------------------------------
\* The task has a run ahead of it or under way on a worker, or comes back after the
\* one on the main thread.
Live(t) ==
    \/ ToRun(t)
    \/ \E th \in Thread : cpc[th] = "enqueue" /\ ctask[th] = t
    \/ mpc \in {"body", "after"} /\ mtask = t /\ period[t] > 0
    \/ jobs[t] > 0
    \/ \E w \in Worker : wpc[w] \in {"start", "body"} /\ wtask[w] = t

\* Such a task can be found in tasks_ unless it is cancelled; only a sync task may be
\* out of tasks_ before its cancelled_ is set, in the hands of its canceller.
HeldOK ==
    /\ \A t \in Task : Live(t) => Registered(t) \/ cancelled[t] \/ (t \in Sync /\ Taken(t))
    /\ \A t \in Sync : cancelled[t] \/ Taken(t) => ~Registered(t)

\* This step puts the task into tasks_.
Inserts(t) == \E th \in Thread : Insert(th) /\ ctask[th] = t

\* A task gets its first run ahead of it by being inserted.
LEMMA LiveStep == TypeInv /\ EntryInv /\ [Next]_vars =>
    \A u \in Task : Live(u)' => Live(u) \/ Inserts(u)
<1> SUFFICES ASSUME TypeInv, EntryInv, [Next]_vars PROVE \A u \in Task : Live(u)' => Live(u) \/ Inserts(u)
  OBVIOUS
<1> DEFINE Goal == \A u \in Task : Live(u)' => Live(u) \/ Inserts(u)
<1> SUFFICES Goal
  OBVIOUS
<1>a. ASSUME NEW th \in Thread, NEW t \in Task, AfterCancelling(th, t)
      PROVE  /\ \A other \in Thread \ {th} : cpc'[other] = cpc[other] /\ ctask'[other] = ctask[other]
             /\ cpc'[th] \in {"setFlag", "doCancel"}
  BY <1>a, AfterCancellingFacts
<1> USE SchedulerAssumption
    DEF TypeInv, TypeOK, SchedTypeOK, TaskTypeOK, ThreadTypeOK, HistTypeOK, ControlOK,
        MainPC, WorkPC, CallPC, RemovingCancelled, Running, Registering, Cancelling,
        schedVars, taskVars, mainVars, workVars, callVars, histVars,
        Live, ToRun, InQueue
<1>1. ASSUME NEW th \in Thread, NEW t \in Task, NEW p \in Plugin, NEW d \in Delays, NEW n \in Periods, Validate(th, t, p, d, n) PROVE Goal
  <2>1. mtask # t
    BY <1>1 DEF Validate, Fresh, EntryInv, EnteringOK, Nowhere
  <2> QED
    BY <1>1, <2>1 DEF Validate, CanCall
<1>2. ASSUME NEW th \in Thread, NEW t \in Task, RunInternalTask(th, t) PROVE Goal
  BY <1>2 DEF RunInternalTask, CanCall, Fresh
<1>3. ASSUME NEW th \in Thread, NEW i \in Id, Construct(th, i) PROVE Goal
  BY <1>3 DEF Construct, IsNextId
<1>4. ASSUME NEW th \in Thread, Insert(th) PROVE Goal
  <2>1. \A u \in Task : Live(u)' => Live(u) \/ u = ctask[th]
    BY <1>4 DEF Insert
  <2> HIDE DEF Live
  <2> QED
    BY <1>4, <2>1 DEF Inserts
<1>5. ASSUME NEW th \in Thread, Enqueue(th) PROVE Goal
  BY <1>5 DEF Enqueue
<1>6. ASSUME NEW th \in Thread, NEW i \in Id, CancelTask(th, i) PROVE Goal
  BY <1>6 DEF CancelTask, StartCancel, CanCall
<1>7. ASSUME NEW th \in Thread, NEW p \in Plugin, CancelTasks(th, p) PROVE Goal
  BY <1>7 DEF CancelTasks, StartCancel, CanCall, OwnedBy
<1>8. ASSUME NEW th \in Thread, NEW t \in Task, DoCancel(th, t) PROVE Goal
  <2>1. /\ \A other \in Thread \ {th} : cpc'[other] = cpc[other] /\ ctask'[other] = ctask[other]
        /\ cpc'[th] # "enqueue"
    <3>1. CASE t \in Sync
      <4>1. AfterCancelling(th, t)
        BY <1>8, <3>1 DEF DoCancel
      <4> QED
        BY <4>1, <1>a
    <3>2. CASE t \notin Sync
      BY <1>8, <3>2 DEF DoCancel
    <3> QED
      BY <3>1, <3>2
  <2> QED
    BY <1>8, <2>1 DEF DoCancel
<1>9. ASSUME NEW th \in Thread, CheckIdle(th) PROVE Goal
  <2>1. /\ \A other \in Thread \ {th} : cpc'[other] = cpc[other] /\ ctask'[other] = ctask[other]
        /\ cpc'[th] # "enqueue"
    <3>1. CASE Idle(ctask[th])
      BY <1>9, <3>1 DEF CheckIdle
    <3>2. CASE ~Idle(ctask[th])
      <4>1. AfterCancelling(th, ctask[th]) /\ ctask[th] \in Task
        BY <1>9, <3>2 DEF CheckIdle
      <4> QED
        BY <4>1, <1>a
    <3> QED
      BY <3>1, <3>2
  <2> QED
    BY <1>9, <2>1 DEF CheckIdle
<1>10. ASSUME NEW th \in Thread, RemoveIdle(th) PROVE Goal
  BY <1>10 DEF RemoveIdle, AfterCancelling, RemoveTask
<1>11. ASSUME NEW th \in Thread, SetFlag(th) PROVE Goal
  BY <1>11 DEF SetFlag
<1>12. ASSUME NEW p \in Plugin, DisablePlugin(p) PROVE Goal
  BY <1>12 DEF DisablePlugin, CanCall
<1>13. CASE CancelDisabled
  BY <1>13 DEF CancelDisabled, StartCancel, OwnedBy
<1>14. CASE ReloadCleanup
  BY <1>14 DEF ReloadCleanup
<1>15. CASE HeartbeatBegin
  BY <1>15 DEF HeartbeatBegin, Base, SessionTick
<1>16. CASE ExchangeFlag
  BY <1>16 DEF ExchangeFlag
<1>17. ASSUME NEW t \in Task, RcDrain(t) PROVE Goal
  BY <1>17 DEF RcDrain, Dequeues, Keep
<1>18. ASSUME NEW t \in Task, RcRefill(t) PROVE Goal
  BY <1>18 DEF RcRefill
<1>19. ASSUME NEW t \in Task, Drain(t) PROVE Goal
  BY <1>19 DEF Drain, Dequeues, BucketOf
<1>20. CASE RcDrained
  BY <1>20 DEF RcDrained
<1>21. CASE RcRefilled
  BY <1>21 DEF RcRefilled
<1>22. CASE RcPurge
  BY <1>22 DEF RcPurge, Purge
<1>23. CASE Drained
  BY <1>23 DEF Drained
<1>24. ASSUME NEW k \in Tick, NEW t \in Task, Scan(k, t) PROVE Goal
  BY <1>24 DEF Scan, Walk, First, Due
<1>25. CASE StartTask
  BY <1>25 DEF StartTask
<1>26. CASE BodyEnd
  BY <1>26 DEF BodyEnd
<1>27. CASE Reschedule
  BY <1>27 DEF Reschedule, Repeats
<1>28. CASE Finish
  BY <1>28 DEF Finish, Repeats
<1>29. CASE MainRemove
  BY <1>29 DEF MainRemove, RemoveTask
<1>30. CASE HeartbeatEnd
  BY <1>30 DEF HeartbeatEnd, Due
<1>31. ASSUME NEW w \in Worker, NEW t \in Task, TakeJob(w, t) PROVE Goal
  BY <1>31 DEF TakeJob
<1>32. ASSUME NEW w \in Worker, WorkerStart(w) PROVE Goal
  <2>1. \A v \in Worker : wpc'[v] \in {"start", "body"} => wpc[v] \in {"start", "body"} /\ wtask'[v] = wtask[v]
    <3>1. CASE cancelled[wtask[w]]
      <4>1. wpc' = [wpc EXCEPT ![w] = "idle"] /\ wtask' = [wtask EXCEPT ![w] = NoTask]
        BY <1>32, <3>1, Zenon DEF WorkerStart
      <4> QED
        BY <4>1
    <3>2. CASE ~cancelled[wtask[w]]
      <4>1. wpc' = [wpc EXCEPT ![w] = "body"] /\ wtask' = wtask /\ wpc[w] = "start"
        BY <1>32, <3>2, Zenon DEF WorkerStart
      <4> QED
        BY <4>1
    <3> QED
      BY <3>1, <3>2
  <2> QED
    BY <1>32, <2>1 DEF WorkerStart
<1>33. ASSUME NEW w \in Worker, WorkerFinish(w) PROVE Goal
  <2>1. \A v \in Worker : wpc'[v] \in {"start", "body"} => wpc[v] \in {"start", "body"} /\ wtask'[v] = wtask[v]
    BY <1>33 DEF WorkerFinish
  <2> QED
    BY <1>33, <2>1 DEF WorkerFinish
<1>34. ASSUME NEW w \in Worker, WorkerRemove(w) PROVE Goal
  BY <1>34 DEF WorkerRemove, RemoveTask
<1>35. CASE UNCHANGED vars
  BY <1>35 DEF vars
<1> HIDE DEF Goal
<1> QED
  BY <1>1, <1>2, <1>3, <1>4, <1>5, <1>6, <1>7, <1>8, <1>9, <1>10, <1>11, <1>12, <1>13, <1>14, <1>15, <1>16, <1>17, <1>18, <1>19, <1>20, <1>21, <1>22, <1>23, <1>24, <1>25, <1>26, <1>27, <1>28, <1>29, <1>30, <1>31, <1>32, <1>33, <1>34, <1>35
     DEF Next, Register, Cancel, Disable, Heartbeat, Work

\* No step takes a task with a run ahead of it out of reach.
LEMMA HeldNext == TypeInv /\ EntryInv /\ RunInv /\ IdsOK /\ UnbornOK /\ WorkersOK /\ HeldOK /\ [Next]_vars => HeldOK'
<1> SUFFICES ASSUME TypeInv, EntryInv, RunInv, IdsOK, UnbornOK, WorkersOK, HeldOK, [Next]_vars PROVE HeldOK'
  OBVIOUS
<1>a. ASSUME NEW th \in Thread, NEW t \in Task, AfterCancelling(th, t)
      PROVE  /\ \A other \in Thread \ {th} : cpc'[other] = cpc[other] /\ ctask'[other] = ctask[other]
             /\ cpc'[th] \in {"setFlag", "doCancel"}
             /\ \A u \in Task : (Taken(u)' => Taken(u)) /\ (Taken(u) /\ u # t => Taken(u)')
  BY <1>a, AfterCancellingFacts
<1>b. ASSUME NEW t \in Task, tasks' = RemoveTask(id[t]), id' = id
      PROVE  /\ ~Registered(t)'
             /\ \A u \in Task : (Registered(u)' => Registered(u)) /\ (Registered(u) /\ u # t => Registered(u)')
  BY <1>b, RemoveTaskFacts
<1>c. ASSUME NEW th \in Thread, NEW found \in SUBSET Task, StartCancel(th, found), cset[th] = {}
      PROVE  /\ \A other \in Thread \ {th} : cpc'[other] = cpc[other]
             /\ cpc'[th] \in {"setFlag", "doCancel"}
             /\ \A u \in Task : (Taken(u)' => Taken(u) \/ u \in found) /\ (Taken(u) \/ u \in found => Taken(u)')
             /\ \A i \in Id : tasks'[i] = tasks[i] \/ (tasks'[i] = NoTask /\ tasks[i] \in found \cap Sync)
             /\ \A i \in Id : tasks[i] \in found \cap Sync => tasks'[i] = NoTask
  BY <1>c, StartCancelFacts
<1> USE SchedulerAssumption
    DEF TypeInv, TypeOK, SchedTypeOK, TaskTypeOK, ThreadTypeOK, HistTypeOK, ControlOK,
        MainPC, WorkPC, CallPC, RemovingCancelled, Running, Registering, Cancelling,
        schedVars, taskVars, mainVars, workVars, callVars, histVars,
        HeldOK, Live, ToRun, InQueue, Registered, Taken
<1>1. ASSUME NEW th \in Thread, NEW t \in Task, NEW p \in Plugin, NEW d \in Delays, NEW n \in Periods, Validate(th, t, p, d, n) PROVE HeldOK'
  <2>1. mtask # t
    BY <1>1 DEF Validate, Fresh, EntryInv, EnteringOK, Nowhere
  <2>2. \A u \in Task : Live(u)' => Live(u)
    BY <1>1, <2>1 DEF Validate, CanCall
  <2>3. \A u \in Task : (Registered(u)' => Registered(u)) /\ (Registered(u) => Registered(u)')
    BY <1>1 DEF Validate
  <2>4. cancelled' = cancelled /\ cset' = cset
    BY <1>1 DEF Validate
  <2> HIDE DEF Live, Registered
  <2> QED
    BY <2>2, <2>3, <2>4
<1>2. ASSUME NEW th \in Thread, NEW t \in Task, RunInternalTask(th, t) PROVE HeldOK'
  BY <1>2 DEF RunInternalTask, CanCall, Fresh
<1>3. ASSUME NEW th \in Thread, NEW i \in Id, Construct(th, i) PROVE HeldOK'
  <2> DEFINE t == ctask[th]
  <2>1. t \in Task /\ cpc[th] = "construct" /\ id[t] = 0
    BY <1>3 DEF Construct, IdsOK
  <2>2. Unborn(t) /\ Nowhere(t)
    BY <2>1 DEF Unborn, EntryInv, EnteringOK
  <2>3. ~cancelled[t] /\ ~Taken(t) /\ \A j \in Id : tasks[j] # t
    BY <2>1, <2>2 DEF UnbornOK
  <2>4. \A u \in Task : Live(u)' => Live(u)
    BY <1>3 DEF Construct
  <2>5. ~Live(t)
    <3>1. jobs[t] = 0 /\ \A w \in Worker : wtask[w] # t
      BY <2>1, <2>2 DEF UnbornOK
    <3>2. \A o \in Thread : cpc[o] = "enqueue" => ctask[o] # t
      BY <2>1 DEF EntryInv, EnteringOK
    <3> QED
      BY <2>1, <2>2, <3>1, <3>2 DEF Nowhere
  <2>6. id' = [id EXCEPT ![t] = i] /\ tasks' = tasks /\ cancelled' = cancelled /\ cset' = cset
    BY <1>3 DEF Construct
  <2> HIDE DEF t
  <2>7. \A u \in Task : u # t => (Registered(u)' => Registered(u)) /\ (Registered(u) => Registered(u)')
    BY <2>6
  <2>8. \A u \in Task : u = t => ~Registered(u)'
    BY <2>1, <2>3, <2>6
  <2>9. \A u \in Task : (Taken(u)' => Taken(u)) /\ (Taken(u) => Taken(u)')
    BY <2>6
  <2> HIDE DEF Live, Registered, Taken
  <2> QED
    BY <2>1, <2>3, <2>4, <2>5, <2>6, <2>7, <2>8, <2>9
<1>4. ASSUME NEW th \in Thread, Insert(th) PROVE HeldOK'
  <2> DEFINE t == ctask[th]
  <2>1. t \in Task /\ cpc[th] = "insert" /\ id[t] # 0
    BY <1>4 DEF Insert, EntryInv, EnteringOK
  <2>2. ~cancelled[t] /\ ~Taken(t)
    BY <2>1 DEF UnbornOK, Unborn
  <2>3. /\ id' = id /\ tasks' = [tasks EXCEPT ![id[t]] = t] /\ cancelled' = cancelled /\ cset' = cset
        /\ id[t] \in Id
    BY <1>4, <2>1 DEF Insert
  <2>4. \A u \in Task : Live(u)' => Live(u) \/ u = t
    BY <1>4 DEF Insert
  <2> HIDE DEF t
  <2>5. \A u \in Task : u = t => Registered(u)'
    BY <2>1, <2>3
  <2>6. \A u \in Task : u # t /\ id[u] # 0 => id[u] # id[t]
    BY <2>1 DEF IdsOK
  <2>7. \A u \in Task : u # t => (Registered(u)' => Registered(u)) /\ (Registered(u) => Registered(u)')
    BY <2>1, <2>3, <2>6
  <2>8. \A u \in Task : (Taken(u)' => Taken(u)) /\ (Taken(u) => Taken(u)')
    BY <2>3
  <2> HIDE DEF Live, Registered, Taken
  <2> QED
    BY <2>1, <2>2, <2>3, <2>4, <2>5, <2>7, <2>8
<1>5. ASSUME NEW th \in Thread, Enqueue(th) PROVE HeldOK'
  BY <1>5 DEF Enqueue
<1>6. ASSUME NEW th \in Thread, NEW i \in Id, CancelTask(th, i) PROVE HeldOK'
  BY <1>6 DEF CancelTask, StartCancel, CanCall
<1>7. ASSUME NEW th \in Thread, NEW p \in Plugin, CancelTasks(th, p) PROVE HeldOK'
  <2> DEFINE found == OwnedBy(p)
  <2>1. StartCancel(th, found) /\ cset[th] = {} /\ found \in SUBSET Task /\ cpc[th] = "idle"
    BY <1>7 DEF CancelTasks, CanCall, OwnedBy
  <2> HIDE DEF found
  <2>2. /\ \A other \in Thread \ {th} : cpc'[other] = cpc[other]
        /\ cpc'[th] \in {"setFlag", "doCancel"}
        /\ \A i \in Id : tasks'[i] = tasks[i] \/ (tasks'[i] = NoTask /\ tasks[i] \in found \cap Sync)
        /\ \A i \in Id : tasks[i] \in found \cap Sync => tasks'[i] = NoTask
    BY <2>1, <1>c
  <2>3. \A u \in Task : (Taken(u)' => Taken(u) \/ u \in found) /\ (Taken(u) \/ u \in found => Taken(u)')
    BY <2>1, <1>c
  <2>4. id' = id /\ cancelled' = cancelled
    BY <1>7 DEF CancelTasks, StartCancel
  <2>5. \A u \in Task : Live(u)' => Live(u)
    BY <1>7, <2>2 DEF CancelTasks, StartCancel
  <2>6. \A u \in Task :
          /\ Registered(u)' => Registered(u) /\ ~(u \in found /\ u \in Sync)
          /\ Registered(u) => Registered(u)' \/ (u \in found /\ u \in Sync)
    BY <2>2, <2>4
  <2> HIDE DEF Live, Registered, Taken
  <2> QED
    BY <2>3, <2>4, <2>5, <2>6
<1>8. ASSUME NEW th \in Thread, NEW t \in Task, DoCancel(th, t) PROVE HeldOK'
  <2>1. Taken(t) /\ cancelled'[t] /\ \A u \in Task : (cancelled'[u] /\ u # t => cancelled[u]) /\ (cancelled[u] => cancelled'[u])
    BY <1>8 DEF DoCancel
  <2>2. cpc[th] = "doCancel" /\ tasks' = tasks /\ id' = id
    BY <1>8 DEF DoCancel
  <2>3. /\ \A other \in Thread \ {th} : cpc'[other] = cpc[other] /\ ctask'[other] = ctask[other]
        /\ cpc'[th] # "enqueue"
    <3>1. CASE t \in Sync
      <4>1. AfterCancelling(th, t)
        BY <1>8, <3>1 DEF DoCancel
      <4> QED
        BY <4>1, <1>a
    <3>2. CASE t \notin Sync
      BY <1>8, <3>2 DEF DoCancel
    <3> QED
      BY <3>1, <3>2
  <2>4. \A u \in Task : (Taken(u)' => Taken(u)) /\ (Taken(u) /\ u # t => Taken(u)')
    <3>1. CASE t \in Sync
      <4>1. AfterCancelling(th, t)
        BY <1>8, <3>1 DEF DoCancel
      <4> HIDE DEF Taken
      <4> QED
        BY <4>1, <1>a
    <3>2. CASE t \notin Sync
      BY <1>8, <3>2 DEF DoCancel
    <3> QED
      BY <3>1, <3>2
  <2>5. \A u \in Task : Live(u)' => Live(u)
    BY <1>8, <2>3 DEF DoCancel
  <2>6. \A u \in Task : (Registered(u)' => Registered(u)) /\ (Registered(u) => Registered(u)')
    BY <2>2
  <2> HIDE DEF Live, Registered, Taken
  <2> QED
    BY <2>1, <2>4, <2>5, <2>6
<1>9. ASSUME NEW th \in Thread, CheckIdle(th) PROVE HeldOK'
  <2> DEFINE t == ctask[th]
  <2>1. /\ t \in Task /\ cancelled[t] /\ cpc[th] = "checkIdle"
        /\ tasks' = tasks /\ id' = id /\ cancelled' = cancelled
    BY <1>9 DEF CheckIdle, WorkersOK, RemovingOK
  <2>2. /\ \A other \in Thread \ {th} : cpc'[other] = cpc[other] /\ ctask'[other] = ctask[other]
        /\ cpc'[th] # "enqueue"
        /\ \A u \in Task : (Taken(u)' => Taken(u)) /\ (Taken(u) /\ u # t => Taken(u)')
    <3>1. CASE Idle(t)
      BY <1>9, <3>1 DEF CheckIdle
    <3>2. CASE ~Idle(t)
      <4>1. AfterCancelling(th, t)
        BY <1>9, <3>2 DEF CheckIdle
      <4> HIDE DEF Taken, t
      <4> QED
        BY <2>1, <4>1, <1>a
    <3> QED
      BY <3>1, <3>2
  <2>3. \A u \in Task : Live(u)' => Live(u)
    BY <1>9, <2>2 DEF CheckIdle
  <2>4. \A u \in Task : (Registered(u)' => Registered(u)) /\ (Registered(u) => Registered(u)')
    BY <2>1
  <2> HIDE DEF t
  <2> HIDE DEF Live, Registered, Taken
  <2> QED
    BY <2>1, <2>2, <2>3, <2>4
<1>10. ASSUME NEW th \in Thread, RemoveIdle(th) PROVE HeldOK'
  <2> DEFINE t == ctask[th]
  <2>1. /\ t \in Task /\ cancelled[t] /\ cpc[th] = "remove"
        /\ tasks' = RemoveTask(id[t]) /\ id' = id /\ cancelled' = cancelled
        /\ AfterCancelling(th, t)
    BY <1>10 DEF RemoveIdle, WorkersOK, RemovingOK
  <2>2. /\ \A other \in Thread \ {th} : cpc'[other] = cpc[other] /\ ctask'[other] = ctask[other]
        /\ cpc'[th] # "enqueue"
        /\ \A u \in Task : (Taken(u)' => Taken(u)) /\ (Taken(u) /\ u # t => Taken(u)')
    <3> HIDE DEF Taken, t
    <3> QED
      BY <2>1, <1>a
  <2>3. \A u \in Task : Live(u)' => Live(u)
    BY <1>10, <2>2 DEF RemoveIdle
  <2>4. \A u \in Task : (Registered(u)' => Registered(u)) /\ (Registered(u) /\ u # t => Registered(u)')
    BY <2>1, <1>b
  <2> HIDE DEF t
  <2> HIDE DEF Live, Registered, Taken
  <2> QED
    BY <2>1, <2>2, <2>3, <2>4
<1>11. ASSUME NEW th \in Thread, SetFlag(th) PROVE HeldOK'
  BY <1>11 DEF SetFlag
<1>12. ASSUME NEW p \in Plugin, DisablePlugin(p) PROVE HeldOK'
  BY <1>12 DEF DisablePlugin, CanCall
<1>13. CASE CancelDisabled
  BY <1>13 DEF CancelDisabled, StartCancel, OwnedBy
<1>14. CASE ReloadCleanup
  BY <1>14 DEF ReloadCleanup
<1>15. CASE HeartbeatBegin
  BY <1>15 DEF HeartbeatBegin, Base, SessionTick
<1>16. CASE ExchangeFlag
  BY <1>16 DEF ExchangeFlag
<1>17. ASSUME NEW t \in Task, RcDrain(t) PROVE HeldOK'
  BY <1>17 DEF RcDrain, Dequeues, Keep
<1>18. ASSUME NEW t \in Task, RcRefill(t) PROVE HeldOK'
  BY <1>18 DEF RcRefill
<1>19. ASSUME NEW t \in Task, Drain(t) PROVE HeldOK'
  BY <1>19 DEF Drain, Dequeues, BucketOf
<1>20. CASE RcDrained
  BY <1>20 DEF RcDrained
<1>21. CASE RcRefilled
  BY <1>21 DEF RcRefilled
<1>22. CASE RcPurge
  BY <1>22 DEF RcPurge, Purge
<1>23. CASE Drained
  BY <1>23 DEF Drained
<1>24. ASSUME NEW k \in Tick, NEW t \in Task, Scan(k, t) PROVE HeldOK'
  BY <1>24 DEF Scan, Walk, First, Due
<1>25. CASE StartTask
  BY <1>25 DEF StartTask
<1>26. CASE BodyEnd
  BY <1>26 DEF BodyEnd
<1>27. CASE Reschedule
  BY <1>27 DEF Reschedule, Repeats
<1>28. CASE Finish
  BY <1>28 DEF Finish, Repeats
<1>29. CASE MainRemove
  <2>1. /\ mtask \in Task /\ mtask \in Sync /\ mpc = "remove"
        /\ tasks' = RemoveTask(id[mtask]) /\ id' = id /\ cancelled' = cancelled /\ cset' = cset
    BY <1>29 DEF MainRemove, WorkersOK, BodiesOK
  <2>2. \A u \in Task : Live(u)' => Live(u)
    BY <1>29 DEF MainRemove
  <2>3. ~Live(mtask)
    <3>1. pending[mtask] + kept[mtask] = 0 /\ pending[mtask] \in Nat /\ kept[mtask] \in Nat
      BY <2>1 DEF EntryInv, SingleEntry
    <3>2. pending[mtask] = 0 /\ kept[mtask] = 0
      BY <3>1, NoneOfTwo
    <3>3. \A k \in Tick : ~(queue[k][mtask] > 0)
      BY <2>1 DEF EntryInv, SingleEntry
    <3>4. jobs[mtask] = 0 /\ \A w \in Worker : wtask[w] # mtask
      BY <2>1 DEF WorkersOK, BodiesOK, Async
    <3>5. \A th \in Thread : cpc[th] = "enqueue" => ctask[th] # mtask
      BY <2>1 DEF EntryInv, EnteringOK, Nowhere
    <3> QED
      BY <2>1, <3>2, <3>3, <3>4, <3>5
  <2>4. \A u \in Task : (Registered(u)' => Registered(u)) /\ (Registered(u) /\ u # mtask => Registered(u)')
    BY <2>1, <1>b
  <2>5. \A u \in Task : (Taken(u)' => Taken(u)) /\ (Taken(u) => Taken(u)')
    BY <2>1
  <2> HIDE DEF Live, Registered, Taken
  <2> QED
    BY <2>1, <2>2, <2>3, <2>4, <2>5
<1>30. CASE HeartbeatEnd
  BY <1>30 DEF HeartbeatEnd, Due
<1>31. ASSUME NEW w \in Worker, NEW t \in Task, TakeJob(w, t) PROVE HeldOK'
  BY <1>31 DEF TakeJob
<1>32. ASSUME NEW w \in Worker, WorkerStart(w) PROVE HeldOK'
  <2>1. \A v \in Worker : wpc'[v] \in {"start", "body"} => wpc[v] \in {"start", "body"} /\ wtask'[v] = wtask[v]
    <3>1. CASE cancelled[wtask[w]]
      <4>1. wpc' = [wpc EXCEPT ![w] = "idle"] /\ wtask' = [wtask EXCEPT ![w] = NoTask]
        BY <1>32, <3>1, Zenon DEF WorkerStart
      <4> QED
        BY <4>1
    <3>2. CASE ~cancelled[wtask[w]]
      <4>1. wpc' = [wpc EXCEPT ![w] = "body"] /\ wtask' = wtask /\ wpc[w] = "start"
        BY <1>32, <3>2, Zenon DEF WorkerStart
      <4> QED
        BY <4>1
    <3> QED
      BY <3>1, <3>2
  <2>2. \A u \in Task : Live(u)' => Live(u)
    BY <1>32, <2>1 DEF WorkerStart
  <2>3. tasks' = tasks /\ id' = id /\ cancelled' = cancelled /\ cset' = cset
    BY <1>32 DEF WorkerStart
  <2>4. \A u \in Task : (Registered(u)' => Registered(u)) /\ (Registered(u) => Registered(u)')
    BY <2>3
  <2> HIDE DEF Live, Registered
  <2> QED
    BY <2>2, <2>3, <2>4
<1>33. ASSUME NEW w \in Worker, WorkerFinish(w) PROVE HeldOK'
  <2>1. \A v \in Worker : wpc'[v] \in {"start", "body"} => wpc[v] \in {"start", "body"} /\ wtask'[v] = wtask[v]
    BY <1>33 DEF WorkerFinish
  <2>2. \A u \in Task : Live(u)' => Live(u)
    BY <1>33, <2>1 DEF WorkerFinish
  <2>3. tasks' = tasks /\ id' = id /\ cancelled' = cancelled /\ cset' = cset
    BY <1>33 DEF WorkerFinish
  <2>4. \A u \in Task : (Registered(u)' => Registered(u)) /\ (Registered(u) => Registered(u)')
    BY <2>3
  <2> HIDE DEF Live, Registered
  <2> QED
    BY <2>2, <2>3, <2>4
<1>34. ASSUME NEW w \in Worker, WorkerRemove(w) PROVE HeldOK'
  <2> DEFINE t == wtask[w]
  <2>1. /\ t \in Task /\ wpc[w] = "remove"
        /\ tasks' = RemoveTask(id[t]) /\ id' = id /\ cancelled' = cancelled /\ cset' = cset
    BY <1>34 DEF WorkerRemove
  <2>2. \A u \in Task : Live(u)' => Live(u)
    BY <1>34 DEF WorkerRemove
  <2>3. cancelled[t] \/ ~Live(t)
    <3> SUFFICES ASSUME ~cancelled[t] PROVE ~Live(t)
      OBVIOUS
    <3>1. period[t] = 0 /\ runs[t] # 0
      BY <2>1 DEF WorkersOK, RemovingOK, OneRunOK
    <3>2. jobs[t] = 0 /\ \A v \in Worker : v # w => wtask[v] # t
      <4>1. jobs[t] \in Nat /\ ~(jobs[t] > 0)
        BY <2>1, <3>1 DEF WorkersOK, OneRunOK
      <4>2. \A v \in Worker : wtask[v] = t => v = w
        BY <2>1, <3>1 DEF WorkersOK, OneRunOK
      <4> QED
        BY <4>1, <4>2
    <3>3. ~ToRun(t) /\ \A th \in Thread : cpc[th] = "enqueue" => ctask[th] # t
      BY <2>1, <3>1 DEF RunInv, RunsOK
    <3> HIDE DEF ToRun
    <3> QED
      BY <2>1, <3>1, <3>2, <3>3
  <2>4. \A u \in Task : (Registered(u)' => Registered(u)) /\ (Registered(u) /\ u # t => Registered(u)')
    BY <2>1, <1>b
  <2>5. \A u \in Task : (Taken(u)' => Taken(u)) /\ (Taken(u) => Taken(u)')
    BY <2>1
  <2> HIDE DEF t
  <2> HIDE DEF Live, Registered, Taken
  <2> QED
    BY <2>1, <2>2, <2>3, <2>4, <2>5
<1>35. CASE UNCHANGED vars
  BY <1>35 DEF vars
<1> HIDE DEF HeldOK
<1> QED
  BY <1>1, <1>2, <1>3, <1>4, <1>5, <1>6, <1>7, <1>8, <1>9, <1>10, <1>11, <1>12, <1>13, <1>14, <1>15, <1>16, <1>17, <1>18, <1>19, <1>20, <1>21, <1>22, <1>23, <1>24, <1>25, <1>26, <1>27, <1>28, <1>29, <1>30, <1>31, <1>32, <1>33, <1>34, <1>35
     DEF Next, Register, Cancel, Disable, Heartbeat, Work

-----------------------------------------------------------------------------
\* A worker is inside the body of the task; a worker is about to remove it.
Busy(t) == workers[t] # {}
Leaving(t) == \E w \in Worker : wpc[w] = "remove" /\ wtask[w] = t

\* A step that touches neither tasks_ nor the cancellation nor the workers of any
\* task keeps the rule about the last one out.
LEMMA LastOneFrame ==
  ASSUME LastOneRemoves,
         \A u \in Task : (Registered(u)' => Registered(u)) /\ (Registered(u) => Registered(u)'),
         \A u \in Task : (Busy(u)' => Busy(u)) /\ (Busy(u) => Busy(u)'),
         \A u \in Task : cancelled'[u] => cancelled[u],
         \A u \in Task : (Taken(u) => Taken(u)') /\ (Leaving(u) => Leaving(u)')
  PROVE  LastOneRemoves'
<1>1. /\ \A t \in Async : Busy(t) => Registered(t)
      /\ \A t \in Task : Registered(t) /\ cancelled[t] => Busy(t) \/ Taken(t) \/ Leaving(t)
  BY DEF LastOneRemoves, Busy, Taken, Leaving
<1>2. \A t \in Async : t \in Task
  BY DEF Async
<1>3. /\ \A t \in Async : Busy(t)' => Registered(t)'
      /\ \A t \in Task : Registered(t)' /\ cancelled'[t] => Busy(t)' \/ Taken(t)' \/ Leaving(t)'
  BY <1>1, <1>2
<1> QED
  BY <1>3 DEF LastOneRemoves, Busy, Taken, Leaving

\* The last one out of an async task removes it, whoever that is.
LEMMA LastOneNext == TypeInv /\ EntryInv /\ RunInv /\ IdsOK /\ UnbornOK /\ WorkersOK /\ HeldOK /\ LastOneRemoves /\ [Next]_vars => LastOneRemoves'
<1> SUFFICES ASSUME TypeInv, EntryInv, RunInv, IdsOK, UnbornOK, WorkersOK, HeldOK, LastOneRemoves, [Next]_vars PROVE LastOneRemoves'
  OBVIOUS
<1>g. /\ \A t \in Async : Busy(t) => Registered(t)
      /\ \A t \in Task : Registered(t) /\ cancelled[t] => Busy(t) \/ Taken(t) \/ Leaving(t)
  BY DEF LastOneRemoves, Busy, Taken, Leaving
<1>h. ASSUME \A t \in Async : Busy(t)' => Registered(t)',
             \A t \in Task : Registered(t)' /\ cancelled'[t] => Busy(t)' \/ Taken(t)' \/ Leaving(t)'
      PROVE  LastOneRemoves'
  BY <1>h DEF LastOneRemoves, Busy, Taken, Leaving
<1>i. \A t \in Async : t \in Task /\ t \notin Sync
  BY DEF Async
<1>a. ASSUME NEW th \in Thread, NEW t \in Task, AfterCancelling(th, t)
      PROVE  /\ \A other \in Thread \ {th} : cpc'[other] = cpc[other] /\ ctask'[other] = ctask[other]
             /\ cpc'[th] \in {"setFlag", "doCancel"}
             /\ \A u \in Task : (Taken(u)' => Taken(u)) /\ (Taken(u) /\ u # t => Taken(u)')
  BY <1>a, AfterCancellingFacts
<1>b. ASSUME NEW t \in Task, tasks' = RemoveTask(id[t]), id' = id
      PROVE  /\ ~Registered(t)'
             /\ \A u \in Task : (Registered(u)' => Registered(u)) /\ (Registered(u) /\ u # t => Registered(u)')
  BY <1>b, RemoveTaskFacts
<1>c. ASSUME NEW th \in Thread, NEW found \in SUBSET Task, StartCancel(th, found), cset[th] = {}
      PROVE  LastOneRemoves'
  <2>1. \A u \in Task :
          /\ Registered(u)' => Registered(u) /\ ~(u \in found /\ u \in Sync)
          /\ Registered(u) => Registered(u)' \/ (u \in found /\ u \in Sync)
          /\ Taken(u) => Taken(u)'
    BY <1>c, StartCancelFacts
  <2>2. workers' = workers /\ cancelled' = cancelled /\ wpc' = wpc /\ wtask' = wtask
    BY <1>c DEF StartCancel, taskVars, workVars
  <2>3. \A u \in Task : (Busy(u)' => Busy(u)) /\ (Busy(u) => Busy(u)') /\ (Leaving(u) => Leaving(u)')
    BY <2>2 DEF Busy, Leaving
  <2> QED
    BY <1>g, <1>h, <1>i, <2>1, <2>2, <2>3
<1>f. ASSUME UNCHANGED <<tasks, id, cancelled, workers, cset, wpc, wtask>> PROVE LastOneRemoves'
  <2>1. \A u \in Task : (Registered(u)' => Registered(u)) /\ (Registered(u) => Registered(u)')
    BY <1>f DEF Registered
  <2>2. \A u \in Task : (Busy(u)' => Busy(u)) /\ (Busy(u) => Busy(u)')
    BY <1>f DEF Busy
  <2>3. \A u \in Task : (Taken(u) => Taken(u)') /\ (Leaving(u) => Leaving(u)')
    BY <1>f DEF Taken, Leaving
  <2> QED
    BY <1>f, <2>1, <2>2, <2>3, LastOneFrame
<1>1. ASSUME NEW th \in Thread, NEW t \in Task, NEW p \in Plugin, NEW d \in Delays, NEW n \in Periods, Validate(th, t, p, d, n) PROVE LastOneRemoves'
  BY <1>1, <1>f DEF Validate, schedVars, taskVars, mainVars, workVars, callVars, histVars
<1>2. ASSUME NEW th \in Thread, NEW t \in Task, RunInternalTask(th, t) PROVE LastOneRemoves'
  BY <1>2, <1>f DEF RunInternalTask, schedVars, taskVars, mainVars, workVars, callVars, histVars
<1>3. ASSUME NEW th \in Thread, NEW i \in Id, Construct(th, i) PROVE LastOneRemoves'
  <2> DEFINE t == ctask[th]
  <2>1. t \in Task /\ cpc[th] = "construct"
    BY <1>3 DEF Construct, TypeInv, ControlOK, Registering
  <2>2. /\ ~cancelled[t] /\ \A j \in Id : tasks[j] # t
        /\ \A w \in Worker : wtask[w] # t
    BY <2>1 DEF UnbornOK, Unborn
  <2>3. ~Busy(t)
    <3>1. workers[t] \in SUBSET Worker
      BY <2>1 DEF TypeInv, TypeOK, TaskTypeOK
    <3>2. \A w \in Worker : w \notin workers[t]
      BY <2>1, <2>2 DEF WorkersOK, BodiesOK
    <3> QED
      BY <3>1, <3>2 DEF Busy
  <2>4. /\ id' = [id EXCEPT ![t] = i] /\ tasks' = tasks /\ cancelled' = cancelled /\ cset' = cset
        /\ workers' = workers /\ wpc' = wpc /\ wtask' = wtask
        /\ id \in [Task -> Id \cup {0}]
    BY <1>3 DEF Construct, workVars, TypeInv, TypeOK, TaskTypeOK
  <2> HIDE DEF t
  <2>5. \A u \in Task : u # t => (Registered(u)' => Registered(u)) /\ (Registered(u) => Registered(u)')
    BY <2>4 DEF Registered
  <2>6. \A u \in Task : u = t => ~Registered(u)'
    BY <2>1, <2>2, <2>4 DEF Registered
  <2>7. \A u \in Task : (Busy(u)' => Busy(u)) /\ (Busy(u) => Busy(u)') /\ (Leaving(u) => Leaving(u)') /\ (Taken(u) => Taken(u)')
    BY <2>4 DEF Busy, Leaving, Taken
  <2>8. /\ \A u \in Async : Busy(u)' => Registered(u)'
        /\ \A u \in Task : Registered(u)' /\ cancelled'[u] => Busy(u)' \/ Taken(u)' \/ Leaving(u)'
    BY <1>g, <1>i, <2>1, <2>3, <2>4, <2>5, <2>6, <2>7
  <2> QED
    BY <1>h, <2>8
<1>4. ASSUME NEW th \in Thread, Insert(th) PROVE LastOneRemoves'
  <2> DEFINE t == ctask[th]
  <2>1. t \in Task /\ cpc[th] = "insert" /\ id[t] # 0
    BY <1>4 DEF Insert, TypeInv, ControlOK, EntryInv, EnteringOK, Registering
  <2>2. ~cancelled[t]
    BY <2>1 DEF UnbornOK, Unborn
  <2>3. /\ id' = id /\ tasks' = [tasks EXCEPT ![id[t]] = t] /\ cancelled' = cancelled /\ cset' = cset
        /\ workers' = workers /\ wpc' = wpc /\ wtask' = wtask
        /\ id \in [Task -> Id \cup {0}] /\ tasks \in [Id -> Task \cup {NoTask}]
    BY <1>4, <2>1 DEF Insert, taskVars, workVars, TypeInv, TypeOK, TaskTypeOK, SchedTypeOK
  <2>4. \A u \in Task : u # t /\ id[u] # 0 => id[u] # id[t]
    BY <2>1 DEF IdsOK
  <2> HIDE DEF t
  <2>5. \A u \in Task : u = t => Registered(u)'
    BY <2>1, <2>3 DEF Registered
  <2>6. \A u \in Task : u # t => (Registered(u)' => Registered(u)) /\ (Registered(u) => Registered(u)')
    BY <2>1, <2>3, <2>4 DEF Registered
  <2>7. \A u \in Task : (Busy(u)' => Busy(u)) /\ (Busy(u) => Busy(u)') /\ (Leaving(u) => Leaving(u)') /\ (Taken(u) => Taken(u)')
    BY <2>3 DEF Busy, Leaving, Taken
  <2>8. /\ \A u \in Async : Busy(u)' => Registered(u)'
        /\ \A u \in Task : Registered(u)' /\ cancelled'[u] => Busy(u)' \/ Taken(u)' \/ Leaving(u)'
    BY <1>g, <1>i, <2>1, <2>2, <2>3, <2>5, <2>6, <2>7
  <2> QED
    BY <1>h, <2>8
<1>5. ASSUME NEW th \in Thread, Enqueue(th) PROVE LastOneRemoves'
  BY <1>5, <1>f DEF Enqueue, schedVars, taskVars, mainVars, workVars, callVars, histVars
<1>6. ASSUME NEW th \in Thread, NEW i \in Id, CancelTask(th, i) PROVE LastOneRemoves'
  <2>1. StartCancel(th, {tasks[i]}) /\ cset[th] = {} /\ {tasks[i]} \in SUBSET Task
    BY <1>6 DEF CancelTask, CanCall, TypeInv, ControlOK, TypeOK, SchedTypeOK
  <2> QED
    BY <2>1, <1>c
<1>7. ASSUME NEW th \in Thread, NEW p \in Plugin, CancelTasks(th, p) PROVE LastOneRemoves'
  <2>1. StartCancel(th, OwnedBy(p)) /\ cset[th] = {} /\ OwnedBy(p) \in SUBSET Task
    BY <1>7 DEF CancelTasks, CanCall, TypeInv, ControlOK, OwnedBy
  <2> QED
    BY <2>1, <1>c
<1>8. ASSUME NEW th \in Thread, NEW t \in Task, DoCancel(th, t) PROVE LastOneRemoves'
  <2>1. /\ Taken(t) /\ \A u \in Task : cancelled'[u] /\ u # t => cancelled[u]
        /\ tasks' = tasks /\ id' = id /\ workers' = workers /\ wpc' = wpc /\ wtask' = wtask
    BY <1>8 DEF DoCancel, Taken, schedVars, workVars, TypeInv, TypeOK, TaskTypeOK
  <2>2. \A u \in Task : (Registered(u)' => Registered(u)) /\ (Registered(u) => Registered(u)')
    BY <2>1 DEF Registered
  <2>3. \A u \in Task : (Busy(u)' => Busy(u)) /\ (Busy(u) => Busy(u)') /\ (Leaving(u) => Leaving(u)')
    BY <2>1 DEF Busy, Leaving
  <2>4. \A u \in Task : Taken(u) => Taken(u)' \/ (u = t /\ ~Registered(u))
    <3>1. CASE t \in Sync
      <4>1. AfterCancelling(th, t)
        BY <1>8, <3>1 DEF DoCancel
      <4>2. ~Registered(t)
        BY <2>1, <3>1 DEF HeldOK
      <4> QED
        BY <4>1, <4>2, <1>a
    <3>2. CASE t \notin Sync
      BY <1>8, <3>2 DEF DoCancel, Taken
    <3> QED
      BY <3>1, <3>2
  <2>5. /\ \A u \in Async : Busy(u)' => Registered(u)'
        /\ \A u \in Task : Registered(u)' /\ cancelled'[u] => Busy(u)' \/ Taken(u)' \/ Leaving(u)'
    BY <1>g, <1>i, <2>1, <2>2, <2>3, <2>4
  <2> QED
    BY <1>h, <2>5
<1>9. ASSUME NEW th \in Thread, CheckIdle(th) PROVE LastOneRemoves'
  <2> DEFINE t == ctask[th]
  <2>1. /\ t \in Task /\ tasks' = tasks /\ id' = id /\ workers' = workers
        /\ wpc' = wpc /\ wtask' = wtask /\ cancelled' = cancelled
    BY <1>9 DEF CheckIdle, schedVars, taskVars, workVars, TypeInv, TypeOK, ThreadTypeOK, ControlOK
  <2>2. \A u \in Task : (Registered(u)' => Registered(u)) /\ (Registered(u) => Registered(u)')
    BY <2>1 DEF Registered
  <2>3. \A u \in Task : (Busy(u)' => Busy(u)) /\ (Busy(u) => Busy(u)') /\ (Leaving(u) => Leaving(u)')
    BY <2>1 DEF Busy, Leaving
  <2>4. \A u \in Task : Taken(u) => Taken(u)' \/ Busy(u)
    <3>1. CASE Idle(t)
      BY <1>9, <3>1 DEF CheckIdle, Taken
    <3>2. CASE ~Idle(t)
      <4>1. AfterCancelling(th, t) /\ Busy(t)
        BY <1>9, <3>2 DEF CheckIdle, Idle, Busy
      <4> HIDE DEF t
      <4> QED
        BY <2>1, <4>1, <1>a
    <3> QED
      BY <3>1, <3>2
  <2> HIDE DEF t
  <2>5. /\ \A u \in Async : Busy(u)' => Registered(u)'
        /\ \A u \in Task : Registered(u)' /\ cancelled'[u] => Busy(u)' \/ Taken(u)' \/ Leaving(u)'
    BY <1>g, <1>i, <2>1, <2>2, <2>3, <2>4
  <2> QED
    BY <1>h, <2>5
<1>10. ASSUME NEW th \in Thread, RemoveIdle(th) PROVE LastOneRemoves'
  <2> DEFINE t == ctask[th]
  <2>1. /\ t \in Task /\ tasks' = RemoveTask(id[t]) /\ id' = id /\ workers' = workers
        /\ wpc' = wpc /\ wtask' = wtask /\ cancelled' = cancelled /\ AfterCancelling(th, t)
    BY <1>10 DEF RemoveIdle, taskVars, workVars, TypeInv, TypeOK, ThreadTypeOK, ControlOK
  <2>2. ~Busy(t)
    BY <1>10 DEF RemoveIdle, WorkersOK, RemovingOK, Busy
  <2> HIDE DEF t
  <2>3. \A u \in Task : /\ Registered(u)' => Registered(u) /\ u # t
                        /\ Registered(u) /\ u # t => Registered(u)'
    <3>1. \A u \in Task : u = t => ~Registered(u)'
      BY <2>1, <1>b
    <3> QED
      BY <2>1, <3>1, <1>b
  <2>4. \A u \in Task : (Busy(u)' => Busy(u)) /\ (Busy(u) => Busy(u)') /\ (Leaving(u) => Leaving(u)')
    BY <2>1 DEF Busy, Leaving
  <2>5. \A u \in Task : Taken(u) /\ u # t => Taken(u)'
    BY <2>1, <1>a
  <2>6. /\ \A u \in Async : Busy(u)' => Registered(u)'
        /\ \A u \in Task : Registered(u)' /\ cancelled'[u] => Busy(u)' \/ Taken(u)' \/ Leaving(u)'
    BY <1>g, <1>i, <2>1, <2>2, <2>3, <2>4, <2>5
  <2> QED
    BY <1>h, <2>6
<1>11. ASSUME NEW th \in Thread, SetFlag(th) PROVE LastOneRemoves'
  BY <1>11, <1>f DEF SetFlag, schedVars, taskVars, mainVars, workVars, callVars, histVars
<1>12. ASSUME NEW p \in Plugin, DisablePlugin(p) PROVE LastOneRemoves'
  BY <1>12, <1>f DEF DisablePlugin, schedVars, taskVars, mainVars, workVars, callVars, histVars
<1>13. CASE CancelDisabled
  <2>1. StartCancel(Main, OwnedBy(closing)) /\ cset[Main] = {} /\ OwnedBy(closing) \in SUBSET Task /\ Main \in Thread
    BY <1>13, SchedulerAssumption DEF CancelDisabled, TypeInv, ControlOK, OwnedBy
  <2> QED
    BY <2>1, <1>c
<1>14. CASE ReloadCleanup
  BY <1>14, <1>f DEF ReloadCleanup, schedVars, taskVars, mainVars, workVars, callVars, histVars
<1>15. CASE HeartbeatBegin
  BY <1>15, <1>f DEF HeartbeatBegin, schedVars, taskVars, mainVars, workVars, callVars, histVars
<1>16. CASE ExchangeFlag
  BY <1>16, <1>f DEF ExchangeFlag, schedVars, taskVars, mainVars, workVars, callVars, histVars
<1>17. ASSUME NEW t \in Task, RcDrain(t) PROVE LastOneRemoves'
  BY <1>17, <1>f DEF RcDrain, schedVars, taskVars, mainVars, workVars, callVars, histVars
<1>18. ASSUME NEW t \in Task, RcRefill(t) PROVE LastOneRemoves'
  BY <1>18, <1>f DEF RcRefill, schedVars, taskVars, mainVars, workVars, callVars, histVars
<1>19. ASSUME NEW t \in Task, Drain(t) PROVE LastOneRemoves'
  BY <1>19, <1>f DEF Drain, schedVars, taskVars, mainVars, workVars, callVars, histVars
<1>20. CASE RcDrained
  BY <1>20, <1>f DEF RcDrained, schedVars, taskVars, mainVars, workVars, callVars, histVars
<1>21. CASE RcRefilled
  BY <1>21, <1>f DEF RcRefilled, schedVars, taskVars, mainVars, workVars, callVars, histVars
<1>22. CASE RcPurge
  BY <1>22, <1>f DEF RcPurge, schedVars, taskVars, mainVars, workVars, callVars, histVars
<1>23. CASE Drained
  BY <1>23, <1>f DEF Drained, schedVars, taskVars, mainVars, workVars, callVars, histVars
<1>24. ASSUME NEW k \in Tick, NEW t \in Task, Scan(k, t) PROVE LastOneRemoves'
  BY <1>24, <1>f DEF Scan, schedVars, taskVars, mainVars, workVars, callVars, histVars
<1>25. CASE StartTask
  BY <1>25, <1>f DEF StartTask, schedVars, taskVars, mainVars, workVars, callVars, histVars
<1>26. CASE BodyEnd
  BY <1>26, <1>f DEF BodyEnd, schedVars, taskVars, mainVars, workVars, callVars, histVars
<1>27. CASE Reschedule
  BY <1>27, <1>f DEF Reschedule, schedVars, taskVars, mainVars, workVars, callVars, histVars
<1>28. CASE Finish
  BY <1>28, <1>f DEF Finish, schedVars, taskVars, mainVars, workVars, callVars, histVars
<1>29. CASE MainRemove
  <2>1. /\ mtask \in Task /\ mtask \in Sync
        /\ tasks' = RemoveTask(id[mtask]) /\ id' = id /\ workers' = workers
        /\ wpc' = wpc /\ wtask' = wtask /\ cancelled' = cancelled /\ cset' = cset
    BY <1>29 DEF MainRemove, taskVars, workVars, callVars, TypeInv, ControlOK, Running, WorkersOK, BodiesOK
  <2>2. \A u \in Task : (Registered(u)' => Registered(u)) /\ (Registered(u) /\ u # mtask => Registered(u)')
    BY <2>1, <1>b
  <2>3. \A u \in Task : (Busy(u)' => Busy(u)) /\ (Busy(u) => Busy(u)') /\ (Leaving(u) => Leaving(u)') /\ (Taken(u) => Taken(u)')
    BY <2>1 DEF Busy, Leaving, Taken
  <2>4. /\ \A u \in Async : Busy(u)' => Registered(u)'
        /\ \A u \in Task : Registered(u)' /\ cancelled'[u] => Busy(u)' \/ Taken(u)' \/ Leaving(u)'
    BY <1>g, <1>i, <2>1, <2>2, <2>3
  <2> QED
    BY <1>h, <2>4
<1>30. CASE HeartbeatEnd
  BY <1>30, <1>f DEF HeartbeatEnd, schedVars, taskVars, mainVars, workVars, callVars, histVars
<1>31. ASSUME NEW w \in Worker, NEW t \in Task, TakeJob(w, t) PROVE LastOneRemoves'
  <2>1. /\ tasks' = tasks /\ id' = id /\ cset' = cset /\ cancelled' = cancelled /\ workers' = workers
        /\ wpc[w] = "idle" /\ \A v \in Worker \ {w} : wpc'[v] = wpc[v] /\ wtask'[v] = wtask[v]
    BY <1>31 DEF TakeJob, taskVars, callVars, TypeInv, TypeOK, ThreadTypeOK
  <2>2. \A u \in Task : (Registered(u)' => Registered(u)) /\ (Registered(u) => Registered(u)') /\ (Taken(u) => Taken(u)')
    BY <2>1 DEF Registered, Taken
  <2>3. \A u \in Task : (Busy(u)' => Busy(u)) /\ (Busy(u) => Busy(u)')
    BY <2>1 DEF Busy
  <2>4. \A u \in Task : Leaving(u) => Leaving(u)'
    BY <2>1 DEF Leaving
  <2> QED
    BY <2>1, <2>2, <2>3, <2>4, LastOneFrame
<1>32. ASSUME NEW w \in Worker, WorkerStart(w) PROVE LastOneRemoves'
  <2>1. /\ tasks' = tasks /\ id' = id /\ cset' = cset /\ cancelled' = cancelled
        /\ wpc[w] = "start" /\ wtask[w] \in Async
    <3>1. wtask[w] \in Task /\ wtask[w] \in Async \cup {NoTask} /\ NoTask \notin Task
      BY <1>32, SchedulerAssumption DEF WorkerStart, TypeInv, ControlOK, WorkersOK, BodiesOK
    <3> QED
      BY <1>32, <3>1 DEF WorkerStart, schedVars, callVars
  <2>2. \A u \in Task : (Registered(u)' => Registered(u)) /\ (Registered(u) => Registered(u)') /\ (Taken(u) => Taken(u)')
    BY <2>1 DEF Registered, Taken
  <2>3. CASE cancelled[wtask[w]]
    <3>1. /\ wpc' = [wpc EXCEPT ![w] = "idle"]
          /\ wtask' = [wtask EXCEPT ![w] = NoTask]
          /\ workers' = workers
      BY <1>32, <2>3, Zenon DEF WorkerStart
    <3>2. \A v \in Worker \ {w} : wpc'[v] = wpc[v] /\ wtask'[v] = wtask[v]
      BY <3>1 DEF TypeInv, TypeOK, ThreadTypeOK
    <3>3. \A u \in Task : (Busy(u)' => Busy(u)) /\ (Busy(u) => Busy(u)')
      BY <3>1 DEF Busy
    <3>4. \A u \in Task : Leaving(u) => Leaving(u)'
      BY <2>1, <3>2 DEF Leaving
    <3> QED
      BY <2>1, <2>2, <3>3, <3>4, LastOneFrame
  <2>4. CASE ~cancelled[wtask[w]]
    <3> DEFINE t == wtask[w]
    <3>1. /\ wpc' = [wpc EXCEPT ![w] = "body"]
          /\ workers' = [workers EXCEPT ![t] = @ \cup {w}]
          /\ wtask' = wtask
      BY <1>32, <2>4, Zenon DEF WorkerStart
    <3>2. Registered(t)
      <4>1. Live(t) /\ t \in Task /\ t \notin Sync
        BY <2>1 DEF Live, Async
      <4> QED
        BY <2>4, <4>1 DEF HeldOK
    <3>3. \A u \in Task : (Busy(u)' => Busy(u) \/ u = t) /\ (Busy(u) => Busy(u)')
      BY <3>1 DEF Busy, TypeInv, TypeOK, TaskTypeOK
    <3>4. \A u \in Task : Leaving(u) => Leaving(u)'
      BY <2>1, <3>1 DEF Leaving, TypeInv, TypeOK, ThreadTypeOK
    <3> HIDE DEF t
    <3>5. /\ \A u \in Async : Busy(u)' => Registered(u)'
          /\ \A u \in Task : Registered(u)' /\ cancelled'[u] => Busy(u)' \/ Taken(u)' \/ Leaving(u)'
      BY <1>g, <1>i, <2>1, <2>2, <3>2, <3>3, <3>4
    <3> QED
      BY <1>h, <3>5
  <2> QED
    BY <2>3, <2>4
<1>33. ASSUME NEW w \in Worker, WorkerFinish(w) PROVE LastOneRemoves'
  <2> DEFINE t == wtask[w]
  <2>1. /\ tasks' = tasks /\ id' = id /\ cset' = cset /\ cancelled' = cancelled
        /\ wpc[w] = "body" /\ t \in Task /\ workers' = [workers EXCEPT ![t] = @ \ {w}]
        /\ \A v \in Worker \ {w} : wpc'[v] = wpc[v] /\ wtask'[v] = wtask[v]
    BY <1>33 DEF WorkerFinish, schedVars, callVars, TypeInv, TypeOK, ThreadTypeOK, ControlOK
  <2>2. \A u \in Task : (Registered(u)' => Registered(u)) /\ (Registered(u) => Registered(u)') /\ (Taken(u) => Taken(u)')
    BY <2>1 DEF Registered, Taken
  <2>3. Finished(w) => wpc'[w] = "remove" /\ wtask'[w] = t
    BY <1>33 DEF WorkerFinish, TypeInv, TypeOK, ThreadTypeOK
  <2>4. \A u \in Task : Leaving(u) => Leaving(u)'
    BY <2>1 DEF Leaving
  <2>5. \A u \in Task : (Busy(u)' => Busy(u)) /\ (Busy(u) /\ u # t => Busy(u)')
    BY <2>1 DEF Busy, TypeInv, TypeOK, TaskTypeOK
  <2>6. \A u \in Task : u = t /\ cancelled[u] => Busy(u)' \/ Leaving(u)'
    <3> SUFFICES ASSUME cancelled[t], NEW u \in Task, u = t PROVE Busy(u)' \/ Leaving(u)'
      OBVIOUS
    <3>1. CASE Finished(w)
      BY <2>3, <3>1 DEF Leaving
    <3>2. CASE ~Finished(w)
      <4>1. workers[t] \ {w} # {}
        BY <3>2 DEF Finished
      <4>2. workers'[u] = workers[t] \ {w}
        BY <2>1 DEF TypeInv, TypeOK, TaskTypeOK
      <4> QED
        BY <4>1, <4>2 DEF Busy
    <3> QED
      BY <3>1, <3>2
  <2> HIDE DEF t
  <2>7. /\ \A u \in Async : Busy(u)' => Registered(u)'
        /\ \A u \in Task : Registered(u)' /\ cancelled'[u] => Busy(u)' \/ Taken(u)' \/ Leaving(u)'
    BY <1>g, <1>i, <2>1, <2>2, <2>4, <2>5, <2>6
  <2> QED
    BY <1>h, <2>7
<1>34. ASSUME NEW w \in Worker, WorkerRemove(w) PROVE LastOneRemoves'
  <2> DEFINE t == wtask[w]
  <2>1. /\ t \in Task /\ tasks' = RemoveTask(id[t]) /\ id' = id /\ workers' = workers
        /\ cancelled' = cancelled /\ cset' = cset /\ wpc[w] = "remove"
        /\ \A v \in Worker \ {w} : wpc'[v] = wpc[v] /\ wtask'[v] = wtask[v]
    BY <1>34 DEF WorkerRemove, taskVars, callVars, TypeInv, TypeOK, ThreadTypeOK, ControlOK
  <2>2. ~Busy(t)
    BY <2>1 DEF WorkersOK, RemovingOK, Busy
  <2>3. \A u \in Task : Leaving(u) /\ u # t => Leaving(u)'
    BY <2>1 DEF Leaving
  <2> HIDE DEF t
  <2>4. \A u \in Task : /\ Registered(u)' => Registered(u) /\ u # t
                        /\ Registered(u) /\ u # t => Registered(u)'
    <3>1. \A u \in Task : u = t => ~Registered(u)'
      BY <2>1, <1>b
    <3> QED
      BY <2>1, <3>1, <1>b
  <2>5. \A u \in Task : (Busy(u)' => Busy(u)) /\ (Busy(u) => Busy(u)') /\ (Taken(u) => Taken(u)')
    BY <2>1 DEF Busy, Taken
  <2>6. /\ \A u \in Async : Busy(u)' => Registered(u)'
        /\ \A u \in Task : Registered(u)' /\ cancelled'[u] => Busy(u)' \/ Taken(u)' \/ Leaving(u)'
    BY <1>g, <1>i, <2>1, <2>2, <2>3, <2>4, <2>5
  <2> QED
    BY <1>h, <2>6
<1>35. CASE UNCHANGED vars
  BY <1>35, <1>f DEF vars, schedVars, taskVars, mainVars, workVars, callVars, histVars
<1> QED
  BY <1>1, <1>2, <1>3, <1>4, <1>5, <1>6, <1>7, <1>8, <1>9, <1>10, <1>11, <1>12, <1>13, <1>14, <1>15, <1>16, <1>17, <1>18, <1>19, <1>20, <1>21, <1>22, <1>23, <1>24, <1>25, <1>26, <1>27, <1>28, <1>29, <1>30, <1>31, <1>32, <1>33, <1>34, <1>35
     DEF Next, Register, Cancel, Disable, Heartbeat, Work

-----------------------------------------------------------------------------
\* disablePlugin has cleared the plugin's enabled_ and not yet looked for its tasks.
Sweeping(p) == cpc[Main] = "disabling" /\ closing = p

\* Once disablePlugin has looked through tasks_, a task of the plugin that is there is
\* cancelled or about to be, unless it was inserted later.
QuietOK ==
    \A t \in Task \ raced :
        owner[t] \in Plugin /\ ~enabled[owner[t]] /\ ~Sweeping(owner[t]) /\ Registered(t)
            => cancelled[t] \/ Taken(t)

\* A step that neither registers a task nor gives up its cancellation.
LEMMA QuietFrame ==
  ASSUME QuietOK, owner' = owner, enabled' = enabled, raced' = raced,
         \A u \in Task : (Registered(u)' => Registered(u)) /\ (cancelled[u] => cancelled'[u]),
         \A u \in Task : Taken(u) => Taken(u)' \/ cancelled'[u],
         \A p \in Plugin : Sweeping(p) => Sweeping(p)'
  PROVE  QuietOK'
  BY DEF QuietOK

\* No task of a disabled plugin comes back into tasks_ unnoticed.
LEMMA QuietNext == TypeInv /\ EntryInv /\ IdsOK /\ UnbornOK /\ WorkersOK /\ HeldOK /\ QuietOK /\ [Next]_vars => QuietOK'
<1> SUFFICES ASSUME TypeInv, EntryInv, IdsOK, UnbornOK, WorkersOK, HeldOK, QuietOK, [Next]_vars PROVE QuietOK'
  OBVIOUS
<1>a. ASSUME NEW th \in Thread, NEW t \in Task, AfterCancelling(th, t)
      PROVE  /\ \A other \in Thread \ {th} : cpc'[other] = cpc[other] /\ ctask'[other] = ctask[other]
             /\ cpc'[th] \in {"setFlag", "doCancel"}
             /\ \A u \in Task : (Taken(u)' => Taken(u)) /\ (Taken(u) /\ u # t => Taken(u)')
  BY <1>a, AfterCancellingFacts
<1>b. ASSUME NEW t \in Task, tasks' = RemoveTask(id[t]), id' = id
      PROVE  /\ ~Registered(t)'
             /\ \A u \in Task : (Registered(u)' => Registered(u)) /\ (Registered(u) /\ u # t => Registered(u)')
  BY <1>b, RemoveTaskFacts
<1>m. Main \in Thread
  BY SchedulerAssumption
<1>c. ASSUME NEW th \in Thread, NEW found \in SUBSET Task, StartCancel(th, found), cpc[th] = "idle", closing' = closing
      PROVE  QuietOK'
  <2>1. cset[th] = {}
    BY <1>c DEF TypeInv, ControlOK
  <2>2. /\ \A u \in Task : (Registered(u)' => Registered(u)) /\ (Taken(u) => Taken(u)')
        /\ \A other \in Thread \ {th} : cpc'[other] = cpc[other]
    BY <1>c, <2>1, StartCancelFacts
  <2>3. owner' = owner /\ enabled' = enabled /\ raced' = raced /\ cancelled' = cancelled
    BY <1>c DEF StartCancel, taskVars, histVars
  <2>4. \A p \in Plugin : Sweeping(p) => Sweeping(p)'
    BY <1>c, <1>m, <2>2 DEF Sweeping
  <2> QED
    BY <2>2, <2>3, <2>4, QuietFrame
<1>f. ASSUME UNCHANGED <<tasks, id, cancelled, cset, owner, enabled, raced>>,
             \A p \in Plugin : Sweeping(p) => Sweeping(p)'
      PROVE  QuietOK'
  <2>1. \A u \in Task : (Registered(u)' => Registered(u)) /\ (cancelled[u] => cancelled'[u]) /\ (Taken(u) => Taken(u)')
    BY <1>f DEF Registered, Taken
  <2> QED
    BY <1>f, <2>1, QuietFrame
<1>e. ASSUME UNCHANGED <<tasks, id, cancelled, cset, owner, enabled, raced, cpc, closing>>
      PROVE  QuietOK'
  BY <1>e, <1>f DEF Sweeping
<1>1. ASSUME NEW th \in Thread, NEW t \in Task, NEW p \in Plugin, NEW d \in Delays, NEW n \in Periods, Validate(th, t, p, d, n) PROVE QuietOK'
  <2>1. /\ UNCHANGED <<tasks, id, cancelled, cset, enabled, raced, closing>>
        /\ \A u \in Task : u # t => owner'[u] = owner[u]
        /\ id[t] = 0
    BY <1>1 DEF Validate, Fresh, schedVars, histVars, TypeInv, TypeOK, TaskTypeOK
  <2>2. cpc[th] = "idle" /\ \A other \in Thread \ {th} : cpc'[other] = cpc[other]
    BY <1>1 DEF Validate, CanCall, TypeInv, TypeOK, ThreadTypeOK
  <2>3. \A q \in Plugin : Sweeping(q) => Sweeping(q)'
    BY <1>m, <2>1, <2>2 DEF Sweeping
  <2>4. \A u \in Task : (Registered(u)' => Registered(u) /\ u # t) /\ (Taken(u) => Taken(u)')
    BY <2>1 DEF Registered, Taken
  <2> QED
    BY <2>1, <2>3, <2>4 DEF QuietOK
<1>2. ASSUME NEW th \in Thread, NEW t \in Task, RunInternalTask(th, t) PROVE QuietOK'
  <2>1. UNCHANGED <<tasks, id, cancelled, cset, owner, enabled, raced>>
    BY <1>2 DEF RunInternalTask, schedVars, taskVars, mainVars, workVars, callVars, histVars
  <2>2. /\ \A other \in Thread \ {th} : cpc'[other] = cpc[other]
        /\ cpc[th] # "disabling" /\ (th # Main => closing' = closing)
    BY <1>2 DEF RunInternalTask, TypeInv, TypeOK, ThreadTypeOK, CanCall, callVars
  <2>3. \A p \in Plugin : Sweeping(p) => Sweeping(p)'
    BY <1>m, <2>2 DEF Sweeping
  <2> QED
    BY <2>1, <2>3, <1>f
<1>3. ASSUME NEW th \in Thread, NEW i \in Id, Construct(th, i) PROVE QuietOK'
  <2> DEFINE t == ctask[th]
  <2>1. t \in Task /\ cpc[th] = "construct"
    BY <1>3 DEF Construct, TypeInv, ControlOK, Registering
  <2>2. \A j \in Id : tasks[j] # t
    BY <2>1 DEF UnbornOK, Unborn
  <2>3. /\ id' = [id EXCEPT ![t] = i] /\ UNCHANGED <<tasks, cancelled, cset, owner, enabled, raced, closing>>
        /\ id \in [Task -> Id \cup {0}]
        /\ \A other \in Thread \ {th} : cpc'[other] = cpc[other]
    BY <1>3 DEF Construct, TypeInv, TypeOK, TaskTypeOK, ThreadTypeOK
  <2>4. \A q \in Plugin : Sweeping(q) => Sweeping(q)'
    BY <1>m, <2>1, <2>3 DEF Sweeping
  <2> HIDE DEF t
  <2>5. \A u \in Task : (Registered(u)' => Registered(u)) /\ (Taken(u) => Taken(u)')
    BY <2>1, <2>2, <2>3 DEF Registered, Taken
  <2> QED
    BY <2>3, <2>4, <2>5, QuietFrame
<1>4. ASSUME NEW th \in Thread, Insert(th) PROVE QuietOK'
  <2> DEFINE t == ctask[th]
  <2>1. t \in Task /\ cpc[th] = "insert" /\ id[t] # 0
    BY <1>4 DEF Insert, TypeInv, ControlOK, EntryInv, EnteringOK, Registering
  <2>2. /\ tasks' = [tasks EXCEPT ![id[t]] = t] /\ UNCHANGED <<id, cancelled, cset, owner, enabled, closing>>
        /\ id \in [Task -> Id \cup {0}] /\ tasks \in [Id -> Task \cup {NoTask}]
        /\ \A other \in Thread \ {th} : cpc'[other] = cpc[other]
    BY <1>4 DEF Insert, taskVars, TypeInv, TypeOK, TaskTypeOK, SchedTypeOK, ThreadTypeOK
  <2>3. \A q \in Plugin : Sweeping(q) => Sweeping(q)'
    BY <1>m, <2>1, <2>2 DEF Sweeping
  <2>4. raced \subseteq raced' /\ (t \notin raced' => ~MissedByDisable(t))
    BY <1>4 DEF Insert
  <2>5. \A u \in Task : u # t /\ id[u] # 0 => id[u] # id[t]
    BY <2>1 DEF IdsOK
  <2>6. t \notin raced' /\ owner[t] \in Plugin => enabled[owner[t]] \/ Sweeping(owner[t])
    BY <2>4 DEF MissedByDisable, Sweeping
  <2> HIDE DEF t
  <2>7. \A u \in Task : (u # t /\ Registered(u)' => Registered(u)) /\ (Taken(u) => Taken(u)')
    BY <2>1, <2>2, <2>5 DEF Registered, Taken
  <2> QED
    BY <2>1, <2>2, <2>3, <2>4, <2>6, <2>7 DEF QuietOK
<1>5. ASSUME NEW th \in Thread, Enqueue(th) PROVE QuietOK'
  <2>1. UNCHANGED <<tasks, id, cancelled, cset, owner, enabled, raced>>
    BY <1>5 DEF Enqueue, schedVars, taskVars, mainVars, workVars, callVars, histVars
  <2>2. /\ \A other \in Thread \ {th} : cpc'[other] = cpc[other]
        /\ cpc[th] # "disabling" /\ (th # Main => closing' = closing)
    BY <1>5 DEF Enqueue, TypeInv, TypeOK, ThreadTypeOK, CanCall, callVars
  <2>3. \A p \in Plugin : Sweeping(p) => Sweeping(p)'
    BY <1>m, <2>2 DEF Sweeping
  <2> QED
    BY <2>1, <2>3, <1>f
<1>6. ASSUME NEW th \in Thread, NEW i \in Id, CancelTask(th, i) PROVE QuietOK'
  <2>1. StartCancel(th, {tasks[i]}) /\ cpc[th] = "idle" /\ {tasks[i]} \in SUBSET Task /\ closing' = closing
    BY <1>6 DEF CancelTask, CanCall, TypeInv, TypeOK, SchedTypeOK
  <2> QED
    BY <2>1, <1>c
<1>7. ASSUME NEW th \in Thread, NEW p \in Plugin, CancelTasks(th, p) PROVE QuietOK'
  <2>1. StartCancel(th, OwnedBy(p)) /\ cpc[th] = "idle" /\ OwnedBy(p) \in SUBSET Task /\ closing' = closing
    BY <1>7 DEF CancelTasks, CanCall, OwnedBy
  <2> QED
    BY <2>1, <1>c
<1>8. ASSUME NEW th \in Thread, NEW t \in Task, DoCancel(th, t) PROVE QuietOK'
  <2>1. /\ \A u \in Task : cancelled[u] => cancelled'[u]
        /\ UNCHANGED <<tasks, id, owner, enabled, raced, closing>>
        /\ cpc[th] = "doCancel"
    BY <1>8 DEF DoCancel, schedVars, histVars, TypeInv, TypeOK, TaskTypeOK
  <2>2. \A u \in Task : u = t => cancelled'[u]
    BY <1>8 DEF DoCancel, TypeInv, TypeOK, TaskTypeOK
  <2>3. /\ \A u \in Task : Taken(u) /\ u # t => Taken(u)'
        /\ \A other \in Thread \ {th} : cpc'[other] = cpc[other]
    <3>1. CASE t \in Sync
      <4>1. AfterCancelling(th, t)
        BY <1>8, <3>1 DEF DoCancel
      <4> QED
        BY <4>1, <1>a
    <3>2. CASE t \notin Sync
      BY <1>8, <3>2 DEF DoCancel, Taken, TypeInv, TypeOK, ThreadTypeOK
    <3> QED
      BY <3>1, <3>2
  <2>4. \A q \in Plugin : Sweeping(q) => Sweeping(q)'
    BY <1>m, <2>1, <2>3 DEF Sweeping
  <2>5. \A u \in Task : Registered(u)' => Registered(u)
    BY <2>1 DEF Registered
  <2>6. \A u \in Task : Taken(u) => Taken(u)' \/ cancelled'[u]
    BY <2>2, <2>3
  <2> QED
    BY <2>1, <2>4, <2>5, <2>6, QuietFrame
<1>9. ASSUME NEW th \in Thread, CheckIdle(th) PROVE QuietOK'
  <2> DEFINE t == ctask[th]
  <2>1. /\ UNCHANGED <<tasks, id, cancelled, owner, enabled, raced, closing>>
        /\ cpc[th] = "checkIdle" /\ t \in Task /\ cancelled[t]
    BY <1>9 DEF CheckIdle, schedVars, taskVars, histVars, TypeInv, TypeOK, ThreadTypeOK, ControlOK, WorkersOK, RemovingOK
  <2>2. /\ \A u \in Task : Taken(u) /\ u # t => Taken(u)'
        /\ \A other \in Thread \ {th} : cpc'[other] = cpc[other]
    <3>1. CASE Idle(t)
      BY <1>9, <3>1 DEF CheckIdle, Taken, TypeInv, TypeOK, ThreadTypeOK
    <3>2. CASE ~Idle(t)
      <4>1. AfterCancelling(th, t)
        BY <1>9, <3>2 DEF CheckIdle
      <4> HIDE DEF t
      <4> QED
        BY <2>1, <4>1, <1>a
    <3> QED
      BY <3>1, <3>2
  <2>3. \A q \in Plugin : Sweeping(q) => Sweeping(q)'
    BY <1>m, <2>1, <2>2 DEF Sweeping
  <2>4. \A u \in Task : Registered(u)' => Registered(u)
    BY <2>1 DEF Registered
  <2> HIDE DEF t
  <2>5. \A u \in Task : (cancelled[u] => cancelled'[u]) /\ (Taken(u) => Taken(u)' \/ cancelled'[u])
    BY <2>1, <2>2
  <2> QED
    BY <2>1, <2>3, <2>4, <2>5, QuietFrame
<1>10. ASSUME NEW th \in Thread, RemoveIdle(th) PROVE QuietOK'
  <2> DEFINE t == ctask[th]
  <2>1. /\ UNCHANGED <<id, cancelled, owner, enabled, raced, closing>>
        /\ cpc[th] = "remove" /\ t \in Task /\ cancelled[t]
        /\ tasks' = RemoveTask(id[t]) /\ AfterCancelling(th, t)
    BY <1>10 DEF RemoveIdle, taskVars, histVars, TypeInv, TypeOK, ThreadTypeOK, ControlOK, WorkersOK, RemovingOK
  <2> HIDE DEF t
  <2>2. /\ \A u \in Task : Taken(u) /\ u # t => Taken(u)'
        /\ \A other \in Thread \ {th} : cpc'[other] = cpc[other]
    BY <2>1, <1>a
  <2>3. \A q \in Plugin : Sweeping(q) => Sweeping(q)'
    BY <1>m, <2>1, <2>2 DEF Sweeping
  <2>4. \A u \in Task : Registered(u)' => Registered(u)
    BY <2>1, <1>b
  <2>5. \A u \in Task : (cancelled[u] => cancelled'[u]) /\ (Taken(u) => Taken(u)' \/ cancelled'[u])
    BY <2>1, <2>2
  <2> QED
    BY <2>1, <2>3, <2>4, <2>5, QuietFrame
<1>11. ASSUME NEW th \in Thread, SetFlag(th) PROVE QuietOK'
  <2>1. UNCHANGED <<tasks, id, cancelled, cset, owner, enabled, raced>>
    BY <1>11 DEF SetFlag, schedVars, taskVars, mainVars, workVars, callVars, histVars
  <2>2. /\ \A other \in Thread \ {th} : cpc'[other] = cpc[other]
        /\ cpc[th] # "disabling" /\ (th # Main => closing' = closing)
    BY <1>11 DEF SetFlag, TypeInv, TypeOK, ThreadTypeOK, CanCall, callVars
  <2>3. \A p \in Plugin : Sweeping(p) => Sweeping(p)'
    BY <1>m, <2>2 DEF Sweeping
  <2> QED
    BY <2>1, <2>3, <1>f
<1>12. ASSUME NEW p \in Plugin, DisablePlugin(p) PROVE QuietOK'
  <2>1. /\ UNCHANGED <<tasks, id, cancelled, cset, owner, raced>>
        /\ \A q \in Plugin : q # p => (enabled'[q] => enabled[q]) /\ (enabled[q] => enabled'[q])
        /\ cpc[Main] = "idle"
    BY <1>12 DEF DisablePlugin, CanCall, schedVars, taskVars, histVars, TypeInv, TypeOK, TaskTypeOK
  <2>2. Sweeping(p)' /\ \A q \in Plugin : ~Sweeping(q)
    BY <1>12, <1>m, <2>1 DEF DisablePlugin, Sweeping, TypeInv, TypeOK, ThreadTypeOK
  <2>3. \A u \in Task : (Registered(u)' => Registered(u)) /\ (Taken(u) => Taken(u)')
    BY <2>1 DEF Registered, Taken
  <2> QED
    BY <2>1, <2>2, <2>3 DEF QuietOK
<1>13. CASE CancelDisabled
  <2> DEFINE found == OwnedBy(closing)
  <2>1. /\ StartCancel(Main, found) /\ cpc[Main] = "disabling" /\ cset[Main] = {} /\ found \in SUBSET Task
        /\ UNCHANGED <<id, cancelled, owner, enabled, raced>>
    <3>1. StartCancel(Main, found) /\ cpc[Main] = "disabling" /\ found \in SUBSET Task
      BY <1>13 DEF CancelDisabled, OwnedBy
    <3>2. cset[Main] = {}
      BY <1>m, <3>1 DEF TypeInv, ControlOK
    <3> QED
      BY <3>1, <3>2 DEF StartCancel, taskVars, histVars
  <2>2. \A u \in Task : Registered(u) /\ owner[u] = closing => u \in found
    <3>1. \A u \in Task : Registered(u) => id[u] \in Id /\ tasks[id[u]] = u
      BY DEF Registered, TypeInv, TypeOK, TaskTypeOK
    <3> QED
      BY <3>1 DEF OwnedBy
  <2> HIDE DEF found
  <2>3. \A u \in Task : (Registered(u)' => Registered(u)) /\ (Taken(u) => Taken(u)') /\ (u \in found => Taken(u)')
    BY <1>m, <2>1, StartCancelFacts
  <2>4. \A q \in Plugin : Sweeping(q) => q = closing
    BY DEF Sweeping
  <2> QED
    BY <2>1, <2>2, <2>3, <2>4 DEF QuietOK
<1>14. CASE ReloadCleanup
  BY <1>14, <1>e DEF ReloadCleanup, schedVars, taskVars, mainVars, workVars, callVars, histVars
<1>15. CASE HeartbeatBegin
  BY <1>15, <1>e DEF HeartbeatBegin, schedVars, taskVars, mainVars, workVars, callVars, histVars
<1>16. CASE ExchangeFlag
  BY <1>16, <1>e DEF ExchangeFlag, schedVars, taskVars, mainVars, workVars, callVars, histVars
<1>17. ASSUME NEW t \in Task, RcDrain(t) PROVE QuietOK'
  BY <1>17, <1>e DEF RcDrain, schedVars, taskVars, mainVars, workVars, callVars, histVars
<1>18. ASSUME NEW t \in Task, RcRefill(t) PROVE QuietOK'
  BY <1>18, <1>e DEF RcRefill, schedVars, taskVars, mainVars, workVars, callVars, histVars
<1>19. ASSUME NEW t \in Task, Drain(t) PROVE QuietOK'
  BY <1>19, <1>e DEF Drain, schedVars, taskVars, mainVars, workVars, callVars, histVars
<1>20. CASE RcDrained
  BY <1>20, <1>e DEF RcDrained, schedVars, taskVars, mainVars, workVars, callVars, histVars
<1>21. CASE RcRefilled
  BY <1>21, <1>e DEF RcRefilled, schedVars, taskVars, mainVars, workVars, callVars, histVars
<1>22. CASE RcPurge
  BY <1>22, <1>e DEF RcPurge, schedVars, taskVars, mainVars, workVars, callVars, histVars
<1>23. CASE Drained
  BY <1>23, <1>e DEF Drained, schedVars, taskVars, mainVars, workVars, callVars, histVars
<1>24. ASSUME NEW k \in Tick, NEW t \in Task, Scan(k, t) PROVE QuietOK'
  BY <1>24, <1>e DEF Scan, schedVars, taskVars, mainVars, workVars, callVars, histVars
<1>25. CASE StartTask
  BY <1>25, <1>e DEF StartTask, schedVars, taskVars, mainVars, workVars, callVars, histVars
<1>26. CASE BodyEnd
  BY <1>26, <1>e DEF BodyEnd, schedVars, taskVars, mainVars, workVars, callVars, histVars
<1>27. CASE Reschedule
  BY <1>27, <1>e DEF Reschedule, schedVars, taskVars, mainVars, workVars, callVars, histVars
<1>28. CASE Finish
  BY <1>28, <1>e DEF Finish, schedVars, taskVars, mainVars, workVars, callVars, histVars
<1>29. CASE MainRemove
  <2>1. /\ UNCHANGED <<id, cancelled, cset, owner, enabled, raced, cpc, closing>>
        /\ mtask \in Task /\ tasks' = RemoveTask(id[mtask])
    BY <1>29 DEF MainRemove, taskVars, callVars, histVars, TypeInv, ControlOK, Running
  <2>2. \A u \in Task : Registered(u)' => Registered(u)
    BY <2>1, <1>b
  <2>3. \A u \in Task : Taken(u) => Taken(u)'
    BY <2>1 DEF Taken
  <2>4. \A q \in Plugin : Sweeping(q) => Sweeping(q)'
    BY <2>1 DEF Sweeping
  <2> QED
    BY <2>1, <2>2, <2>3, <2>4, QuietFrame
<1>30. CASE HeartbeatEnd
  BY <1>30, <1>e DEF HeartbeatEnd, schedVars, taskVars, mainVars, workVars, callVars, histVars
<1>31. ASSUME NEW w \in Worker, NEW t \in Task, TakeJob(w, t) PROVE QuietOK'
  BY <1>31, <1>e DEF TakeJob, schedVars, taskVars, mainVars, workVars, callVars, histVars
<1>32. ASSUME NEW w \in Worker, WorkerStart(w) PROVE QuietOK'
  BY <1>32, <1>e DEF WorkerStart, schedVars, taskVars, mainVars, workVars, callVars, histVars
<1>33. ASSUME NEW w \in Worker, WorkerFinish(w) PROVE QuietOK'
  BY <1>33, <1>e DEF WorkerFinish, schedVars, taskVars, mainVars, workVars, callVars, histVars
<1>34. ASSUME NEW w \in Worker, WorkerRemove(w) PROVE QuietOK'
  <2>1. /\ UNCHANGED <<id, cancelled, cset, owner, enabled, raced, cpc, closing>>
        /\ wtask[w] \in Task /\ tasks' = RemoveTask(id[wtask[w]])
    BY <1>34 DEF WorkerRemove, taskVars, callVars, histVars, TypeInv, ControlOK
  <2>2. \A u \in Task : Registered(u)' => Registered(u)
    BY <2>1, <1>b
  <2>3. \A u \in Task : Taken(u) => Taken(u)'
    BY <2>1 DEF Taken
  <2>4. \A q \in Plugin : Sweeping(q) => Sweeping(q)'
    BY <2>1 DEF Sweeping
  <2> QED
    BY <2>1, <2>2, <2>3, <2>4, QuietFrame
<1>35. CASE UNCHANGED vars
  BY <1>35, <1>e DEF vars, schedVars, taskVars, mainVars, workVars, callVars, histVars
<1> QED
  BY <1>1, <1>2, <1>3, <1>4, <1>5, <1>6, <1>7, <1>8, <1>9, <1>10, <1>11, <1>12, <1>13, <1>14, <1>15, <1>16, <1>17, <1>18, <1>19, <1>20, <1>21, <1>22, <1>23, <1>24, <1>25, <1>26, <1>27, <1>28, <1>29, <1>30, <1>31, <1>32, <1>33, <1>34, <1>35
     DEF Next, Register, Cancel, Disable, Heartbeat, Work

-----------------------------------------------------------------------------
\* What is known of every registered task, its id, its workers and its cancellers.
TaskInv == IdsOK /\ UnbornOK /\ WorkersOK /\ HeldOK /\ LastOneRemoves /\ QuietOK

\* Initially there is no task.
LEMMA TaskInvInit == Init => EntryInv /\ RunInv /\ TaskInv
<1> SUFFICES ASSUME Init PROVE EntryInv /\ RunInv /\ TaskInv
  OBVIOUS
<1>1. EntryInv /\ RunInv
  BY SchedulerAssumption
     DEF Init, EntryInv, EnteringOK, SingleEntry, Nowhere, Empty, Registering,
         RunInv, RunsOK, NoLostTask
<1>2. \A t \in Task : ~Registered(t) /\ ~Taken(t)
  BY DEF Init, Registered, Taken, Empty
<1>3. IdsOK /\ UnbornOK
  BY SchedulerAssumption DEF Init, IdsOK, UnbornOK, Unborn, Taken, Empty
<1>4. WorkersOK
  BY SchedulerAssumption DEF Init, WorkersOK, BodiesOK, RemovingOK, OneRunOK, Empty
<1>5. HeldOK
  <2>1. \A t \in Task : ~Live(t)
    BY SchedulerAssumption DEF Init, Live, ToRun, InQueue, Empty
  <2>2. Sync \subseteq Task
    BY SchedulerAssumption
  <2> QED
    BY <1>2, <2>1, <2>2 DEF HeldOK
<1>6. LastOneRemoves
  BY <1>2 DEF Init, LastOneRemoves, Async
<1>7. QuietOK
  BY <1>2 DEF QuietOK
<1> QED
  BY <1>1, <1>3, <1>4, <1>5, <1>6, <1>7 DEF TaskInv

\* Every step preserves it.
LEMMA TaskInvNext == TypeInv /\ EntryInv /\ RunInv /\ TaskInv /\ [Next]_vars => TaskInv'
  BY IdsNext, UnbornNext, WorkersNext, HeldNext, LastOneNext, QuietNext DEF TaskInv

\* All the scheduler's invariants together.
SchedInv == TypeInv /\ EntryInv /\ RunInv /\ TaskInv

LEMMA SchedInvAlways == Spec => []SchedInv
<1>1. Init => SchedInv
  BY TypeInvInit, TaskInvInit DEF SchedInv
<1>2. SchedInv /\ [Next]_vars => SchedInv'
  BY TypeInvNext, EntryInvNext, RunInvNext, TaskInvNext DEF SchedInv
<1> QED
  BY <1>1, <1>2, PTL DEF Spec

\* A task that will run again can always be cancelled: no interleaving of registering,
\* cancelling, finishing and cleaning up leaves one that is in queue_ or pending_ and
\* that cancelTask and cancelTasks can no longer find in tasks_.
THEOREM SchedulerCancellable == Spec => []Cancellable
<1>1. SchedInv => Cancellable
  <2> SUFFICES ASSUME SchedInv, NEW t \in Task, ToRun(t)
               PROVE  Registered(t) \/ cancelled[t] \/ Taken(t)
    BY DEF Cancellable, Taken
  <2>1. Live(t)
    BY DEF Live
  <2> QED
    BY <2>1 DEF SchedInv, TaskInv, HeldOK
<1> QED
  BY <1>1, SchedInvAlways, PTL

\* The last one out takes an async task off tasks_: not a canceller while a worker is
\* inside, not one worker while another is, and never nobody.
THEOREM SchedulerLastOneRemoves == Spec => []LastOneRemoves
<1>1. SchedInv => LastOneRemoves
  BY DEF SchedInv, TaskInv
<1> QED
  BY <1>1, SchedInvAlways, PTL

\* After disablePlugin no task of the plugin has an uncancelled run ahead of it, but
\* for those inserted after it looked and those in another canceller's hands.
THEOREM SchedulerDisabledIsQuiet == Spec => []DisabledIsQuiet
<1>1. SchedInv => DisabledIsQuiet
  <2> SUFFICES ASSUME SchedInv, NEW t \in Task \ raced, owner[t] \in Plugin, ~enabled[owner[t]],
                      closing # owner[t], ToRun(t)
               PROVE  cancelled[t] \/ Taken(t)
    BY DEF DisabledIsQuiet, Taken
  <2>1. Live(t) /\ ~Sweeping(owner[t])
    BY DEF Live, Sweeping
  <2>2. Registered(t) \/ cancelled[t] \/ Taken(t)
    BY <2>1 DEF SchedInv, TaskInv, HeldOK
  <2>3. Registered(t) => cancelled[t] \/ Taken(t)
    BY <2>1 DEF SchedInv, TaskInv, QuietOK
  <2> QED
    BY <2>2, <2>3
<1> QED
  BY <1>1, SchedInvAlways, PTL

-----------------------------------------------------------------------------
(***************************************************************************)
(* Server::reload over the scheduler.                                      *)
(***************************************************************************)
\* What every step of the scheduler keeps: a cancelled task stays cancelled, a
\* disabled plugin disabled, a canceller cancels what it took, a task enters tasks_ by
\* its insertion only, and its owner was enabled when it was set.
StepOK ==
    /\ \A u \in Task : Registered(u)' => Registered(u) \/ Inserts(u)
    /\ \A u \in Task : cancelled[u] => cancelled'[u]
    /\ \A u \in Task : owner'[u] = owner[u] \/ (id[u] = 0 /\ owner'[u] \in Plugin /\ enabled[owner'[u]])
    /\ raced \subseteq raced'
    /\ \A p \in Plugin : enabled'[p] => enabled[p]
    /\ \A th \in Thread, u \in Task : u \in cset[th] => u \in cset'[th] \/ cancelled'[u]
    /\ \A p \in Plugin : ~enabled'[p] /\ ~Sweeping(p)' => ~enabled[p] /\ (~Sweeping(p) \/ CancelDisabled)

\* Every step of the scheduler is one of these.
LEMMA StepFacts == SchedInv /\ [Next]_vars => StepOK
<1> SUFFICES ASSUME SchedInv, [Next]_vars PROVE StepOK
  OBVIOUS
<1>t. TypeInv /\ EntryInv /\ IdsOK /\ UnbornOK /\ WorkersOK
  BY DEF SchedInv, TaskInv
<1>a. ASSUME NEW th \in Thread, NEW t \in Task, AfterCancelling(th, t)
      PROVE  /\ \A other \in Thread \ {th} : cpc'[other] = cpc[other] /\ cset'[other] = cset[other]
             /\ cset'[th] = cset[th] \ {t}
  BY <1>a, <1>t, AfterCancellingFacts
<1>b. ASSUME NEW t \in Task, tasks' = RemoveTask(id[t]), id' = id
      PROVE  /\ ~Registered(t)'
             /\ \A u \in Task : (Registered(u)' => Registered(u)) /\ (Registered(u) /\ u # t => Registered(u)')
  BY <1>b, <1>t, RemoveTaskFacts
<1>m. Main \in Thread
  BY SchedulerAssumption
<1>c. ASSUME NEW th \in Thread, NEW found \in SUBSET Task, StartCancel(th, found), cset[th] = {},
             cpc[th] = "idle" \/ (th = Main /\ CancelDisabled), closing' = closing
      PROVE  StepOK
  <2>1. /\ \A u \in Task : Registered(u)' => Registered(u)
        /\ \A other \in Thread \ {th} : cset'[other] = cset[other] /\ cpc'[other] = cpc[other]
    BY <1>c, <1>t, StartCancelFacts
  <2>2. owner' = owner /\ enabled' = enabled /\ raced' = raced /\ cancelled' = cancelled
    BY <1>c DEF StartCancel, taskVars, histVars
  <2>3. \A p \in Plugin : Sweeping(p) => Sweeping(p)' \/ CancelDisabled
    BY <1>c, <1>m, <2>1 DEF Sweeping
  <2>4. \A o \in Thread, u \in Task : u \in cset[o] => u \in cset'[o]
    BY <1>c, <2>1
  <2> QED
    BY <2>1, <2>2, <2>3, <2>4 DEF StepOK
<1>f. ASSUME UNCHANGED <<owner, enabled, raced>>,
             \A u \in Task : (Registered(u)' => Registered(u)) /\ (cancelled[u] => cancelled'[u]),
             \A th \in Thread, u \in Task : u \in cset[th] => u \in cset'[th] \/ cancelled'[u],
             \A p \in Plugin : Sweeping(p) => Sweeping(p)'
      PROVE  StepOK
  BY <1>f DEF StepOK
<1>e. ASSUME UNCHANGED <<tasks, id, cancelled, cset, owner, enabled, raced>>,
             \A p \in Plugin : Sweeping(p) => Sweeping(p)'
      PROVE  StepOK
  <2>1. \A u \in Task : (Registered(u)' => Registered(u)) /\ (cancelled[u] => cancelled'[u])
    BY <1>e DEF Registered
  <2>2. \A th \in Thread, u \in Task : u \in cset[th] => u \in cset'[th]
    BY <1>e
  <2> QED
    BY <1>e, <1>f, <2>1, <2>2
<1>d. ASSUME UNCHANGED <<tasks, id, cancelled, cset, owner, enabled, raced, cpc, closing>>
      PROVE  StepOK
  BY <1>d, <1>e DEF Sweeping
<1>1. ASSUME NEW th \in Thread, NEW t \in Task, NEW p \in Plugin, NEW d \in Delays, NEW n \in Periods, Validate(th, t, p, d, n) PROVE StepOK
  <2>1. /\ UNCHANGED <<tasks, id, cancelled, cset, enabled, raced, closing>>
        /\ owner' = [owner EXCEPT ![t] = p] /\ enabled[p] /\ id[t] = 0
        /\ owner \in [Task -> Plugin \cup {NoPlugin}]
    BY <1>1, <1>t DEF Validate, Fresh, schedVars, histVars, TypeInv, TypeOK, TaskTypeOK
  <2>2. cpc[th] = "idle" /\ \A other \in Thread \ {th} : cpc'[other] = cpc[other]
    BY <1>1, <1>t DEF Validate, CanCall, TypeInv, TypeOK, ThreadTypeOK
  <2>3. \A q \in Plugin : Sweeping(q) => Sweeping(q)'
    BY <1>m, <2>1, <2>2 DEF Sweeping
  <2>4. \A u \in Task : Registered(u)' => Registered(u)
    BY <2>1 DEF Registered
  <2>5. \A u \in Task : owner'[u] = owner[u] \/ (id[u] = 0 /\ owner'[u] \in Plugin /\ enabled[owner'[u]])
    <3>1. owner'[t] = p /\ \A u \in Task : u # t => owner'[u] = owner[u]
      BY <2>1
    <3> QED
      BY <2>1, <3>1
  <2> QED
    BY <2>1, <2>3, <2>4, <2>5 DEF StepOK
<1>2. ASSUME NEW th \in Thread, NEW t \in Task, RunInternalTask(th, t) PROVE StepOK
  <2>1. UNCHANGED <<tasks, id, cancelled, cset, owner, enabled, raced>>
    BY <1>2 DEF RunInternalTask, schedVars, taskVars, mainVars, workVars, callVars, histVars
  <2>2. /\ \A other \in Thread \ {th} : cpc'[other] = cpc[other]
        /\ cpc[th] # "disabling" /\ (th # Main => closing' = closing)
    BY <1>2, <1>t DEF RunInternalTask, TypeInv, TypeOK, ThreadTypeOK, CanCall, callVars
  <2>3. \A p \in Plugin : Sweeping(p) => Sweeping(p)'
    BY <1>m, <2>2 DEF Sweeping
  <2> QED
    BY <2>1, <2>3, <1>e
<1>3. ASSUME NEW th \in Thread, NEW i \in Id, Construct(th, i) PROVE StepOK
  <2> DEFINE t == ctask[th]
  <2>1. t \in Task /\ cpc[th] = "construct"
    BY <1>3, <1>t DEF Construct, TypeInv, ControlOK, Registering
  <2>2. \A j \in Id : tasks[j] # t
    BY <1>t, <2>1 DEF UnbornOK, Unborn
  <2>3. /\ id' = [id EXCEPT ![t] = i] /\ UNCHANGED <<tasks, cancelled, cset, owner, enabled, raced, closing>>
        /\ id \in [Task -> Id \cup {0}]
        /\ \A other \in Thread \ {th} : cpc'[other] = cpc[other]
    BY <1>3, <1>t DEF Construct, TypeInv, TypeOK, TaskTypeOK, ThreadTypeOK
  <2>4. \A q \in Plugin : Sweeping(q) => Sweeping(q)'
    BY <1>m, <2>1, <2>3 DEF Sweeping
  <2> HIDE DEF t
  <2>5. \A u \in Task : Registered(u)' => Registered(u)
    BY <2>1, <2>2, <2>3 DEF Registered
  <2> QED
    BY <2>3, <2>4, <2>5, <1>f
<1>4. ASSUME NEW th \in Thread, Insert(th) PROVE StepOK
  <2> DEFINE t == ctask[th]
  <2>1. t \in Task /\ cpc[th] = "insert" /\ id[t] # 0
    BY <1>4, <1>t DEF Insert, TypeInv, ControlOK, EntryInv, EnteringOK, Registering
  <2>2. /\ tasks' = [tasks EXCEPT ![id[t]] = t] /\ UNCHANGED <<id, cancelled, cset, owner, enabled, closing>>
        /\ id \in [Task -> Id \cup {0}] /\ tasks \in [Id -> Task \cup {NoTask}]
        /\ \A other \in Thread \ {th} : cpc'[other] = cpc[other]
        /\ raced \subseteq raced'
    BY <1>4, <1>t DEF Insert, taskVars, TypeInv, TypeOK, TaskTypeOK, SchedTypeOK, ThreadTypeOK
  <2>3. \A q \in Plugin : Sweeping(q) => Sweeping(q)'
    BY <1>m, <2>1, <2>2 DEF Sweeping
  <2>4. \A u \in Task : u # t /\ id[u] # 0 => id[u] # id[t]
    BY <1>t, <2>1 DEF IdsOK
  <2>5. \A u \in Task : u = t => Inserts(u)
    BY <1>4 DEF Inserts
  <2> HIDE DEF t
  <2>6. \A u \in Task : u # t /\ Registered(u)' => Registered(u)
    BY <2>1, <2>2, <2>4 DEF Registered
  <2> QED
    BY <2>2, <2>3, <2>5, <2>6 DEF StepOK
<1>5. ASSUME NEW th \in Thread, Enqueue(th) PROVE StepOK
  <2>1. UNCHANGED <<tasks, id, cancelled, cset, owner, enabled, raced>>
    BY <1>5 DEF Enqueue, schedVars, taskVars, mainVars, workVars, callVars, histVars
  <2>2. /\ \A other \in Thread \ {th} : cpc'[other] = cpc[other]
        /\ cpc[th] # "disabling" /\ (th # Main => closing' = closing)
    BY <1>5, <1>t DEF Enqueue, TypeInv, TypeOK, ThreadTypeOK, CanCall, callVars
  <2>3. \A p \in Plugin : Sweeping(p) => Sweeping(p)'
    BY <1>m, <2>2 DEF Sweeping
  <2> QED
    BY <2>1, <2>3, <1>e
<1>6. ASSUME NEW th \in Thread, NEW i \in Id, CancelTask(th, i) PROVE StepOK
  <2>1. StartCancel(th, {tasks[i]}) /\ cpc[th] = "idle" /\ {tasks[i]} \in SUBSET Task /\ closing' = closing
    BY <1>6, <1>t DEF CancelTask, CanCall, TypeInv, TypeOK, SchedTypeOK
  <2>2. cset[th] = {}
    BY <1>t, <2>1 DEF TypeInv, ControlOK
  <2> QED
    BY <2>1, <2>2, <1>c
<1>7. ASSUME NEW th \in Thread, NEW p \in Plugin, CancelTasks(th, p) PROVE StepOK
  <2>1. StartCancel(th, OwnedBy(p)) /\ cpc[th] = "idle" /\ OwnedBy(p) \in SUBSET Task /\ closing' = closing
    BY <1>7 DEF CancelTasks, CanCall, OwnedBy
  <2>2. cset[th] = {}
    BY <1>t, <2>1 DEF TypeInv, ControlOK
  <2> QED
    BY <2>1, <2>2, <1>c
<1>8. ASSUME NEW th \in Thread, NEW t \in Task, DoCancel(th, t) PROVE StepOK
  <2>1. /\ \A u \in Task : cancelled[u] => cancelled'[u]
        /\ UNCHANGED <<tasks, id, owner, enabled, raced, closing>>
        /\ cpc[th] = "doCancel"
    BY <1>8, <1>t DEF DoCancel, schedVars, histVars, TypeInv, TypeOK, TaskTypeOK
  <2>2. \A u \in Task : u = t => cancelled'[u]
    BY <1>8, <1>t DEF DoCancel, TypeInv, TypeOK, TaskTypeOK
  <2>3. /\ \A o \in Thread, u \in Task : u \in cset[o] /\ u # t => u \in cset'[o]
        /\ \A other \in Thread \ {th} : cpc'[other] = cpc[other]
    <3>1. CASE t \in Sync
      <4>1. AfterCancelling(th, t)
        BY <1>8, <3>1 DEF DoCancel
      <4> QED
        BY <4>1, <1>a
    <3>2. CASE t \notin Sync
      BY <1>8, <1>t, <3>2 DEF DoCancel, TypeInv, TypeOK, ThreadTypeOK
    <3> QED
      BY <3>1, <3>2
  <2>4. \A q \in Plugin : Sweeping(q) => Sweeping(q)'
    BY <1>m, <2>1, <2>3 DEF Sweeping
  <2>5. \A u \in Task : Registered(u)' => Registered(u)
    BY <2>1 DEF Registered
  <2>6. \A o \in Thread, u \in Task : u \in cset[o] => u \in cset'[o] \/ cancelled'[u]
    BY <2>2, <2>3
  <2> QED
    BY <2>1, <2>4, <2>5, <2>6, <1>f
<1>9. ASSUME NEW th \in Thread, CheckIdle(th) PROVE StepOK
  <2> DEFINE t == ctask[th]
  <2>1. /\ UNCHANGED <<tasks, id, cancelled, owner, enabled, raced, closing>>
        /\ cpc[th] = "checkIdle" /\ t \in Task /\ cancelled[t]
    BY <1>9, <1>t DEF CheckIdle, schedVars, taskVars, histVars, TypeInv, TypeOK, ThreadTypeOK, ControlOK, WorkersOK, RemovingOK
  <2>2. /\ \A o \in Thread, u \in Task : u \in cset[o] /\ u # t => u \in cset'[o]
        /\ \A other \in Thread \ {th} : cpc'[other] = cpc[other]
    <3>1. CASE Idle(t)
      BY <1>9, <1>t, <3>1 DEF CheckIdle, TypeInv, TypeOK, ThreadTypeOK
    <3>2. CASE ~Idle(t)
      <4>1. AfterCancelling(th, t)
        BY <1>9, <3>2 DEF CheckIdle
      <4> HIDE DEF t
      <4> QED
        BY <2>1, <4>1, <1>a
    <3> QED
      BY <3>1, <3>2
  <2>3. \A q \in Plugin : Sweeping(q) => Sweeping(q)'
    BY <1>m, <2>1, <2>2 DEF Sweeping
  <2>4. \A u \in Task : Registered(u)' => Registered(u)
    BY <2>1 DEF Registered
  <2> HIDE DEF t
  <2>5. \A o \in Thread, u \in Task : u \in cset[o] => u \in cset'[o] \/ cancelled'[u]
    BY <2>1, <2>2
  <2> QED
    BY <2>1, <2>3, <2>4, <2>5, <1>f
<1>10. ASSUME NEW th \in Thread, RemoveIdle(th) PROVE StepOK
  <2> DEFINE t == ctask[th]
  <2>1. /\ UNCHANGED <<id, cancelled, owner, enabled, raced, closing>>
        /\ cpc[th] = "remove" /\ t \in Task /\ cancelled[t]
        /\ tasks' = RemoveTask(id[t]) /\ AfterCancelling(th, t)
    BY <1>10, <1>t DEF RemoveIdle, taskVars, histVars, TypeInv, TypeOK, ThreadTypeOK, ControlOK, WorkersOK, RemovingOK
  <2> HIDE DEF t
  <2>2. /\ \A o \in Thread, u \in Task : u \in cset[o] /\ u # t => u \in cset'[o]
        /\ \A other \in Thread \ {th} : cpc'[other] = cpc[other]
    BY <2>1, <1>a
  <2>3. \A q \in Plugin : Sweeping(q) => Sweeping(q)'
    BY <1>m, <2>1, <2>2 DEF Sweeping
  <2>4. \A u \in Task : Registered(u)' => Registered(u)
    BY <2>1, <1>b
  <2>5. \A o \in Thread, u \in Task : u \in cset[o] => u \in cset'[o] \/ cancelled'[u]
    BY <2>1, <2>2
  <2> QED
    BY <2>1, <2>3, <2>4, <2>5, <1>f
<1>11. ASSUME NEW th \in Thread, SetFlag(th) PROVE StepOK
  <2>1. UNCHANGED <<tasks, id, cancelled, cset, owner, enabled, raced>>
    BY <1>11 DEF SetFlag, schedVars, taskVars, mainVars, workVars, callVars, histVars
  <2>2. /\ \A other \in Thread \ {th} : cpc'[other] = cpc[other]
        /\ cpc[th] # "disabling" /\ (th # Main => closing' = closing)
    BY <1>11, <1>t DEF SetFlag, TypeInv, TypeOK, ThreadTypeOK, CanCall, callVars
  <2>3. \A p \in Plugin : Sweeping(p) => Sweeping(p)'
    BY <1>m, <2>2 DEF Sweeping
  <2> QED
    BY <2>1, <2>3, <1>e
<1>12. ASSUME NEW p \in Plugin, DisablePlugin(p) PROVE StepOK
  <2>1. /\ UNCHANGED <<tasks, id, cancelled, cset, owner, raced>>
        /\ \A q \in Plugin : q # p => (enabled'[q] => enabled[q]) /\ (enabled[q] => enabled'[q])
        /\ cpc[Main] = "idle" /\ enabled[p]
    BY <1>12, <1>t DEF DisablePlugin, CanCall, schedVars, taskVars, histVars, TypeInv, TypeOK, TaskTypeOK
  <2>2. Sweeping(p)' /\ \A q \in Plugin : ~Sweeping(q)
    BY <1>12, <1>m, <1>t, <2>1 DEF DisablePlugin, Sweeping, TypeInv, TypeOK, ThreadTypeOK
  <2>3. \A u \in Task : Registered(u)' => Registered(u)
    BY <2>1 DEF Registered
  <2> QED
    BY <2>1, <2>2, <2>3 DEF StepOK
<1>13. CASE CancelDisabled
  <2>1. /\ StartCancel(Main, OwnedBy(closing)) /\ cpc[Main] = "disabling"
        /\ OwnedBy(closing) \in SUBSET Task /\ closing' = closing
    BY <1>13 DEF CancelDisabled, OwnedBy
  <2>2. cset[Main] = {}
    BY <1>m, <1>t, <2>1 DEF TypeInv, ControlOK
  <2> QED
    BY <1>13, <1>m, <2>1, <2>2, <1>c
<1>14. CASE ReloadCleanup
  BY <1>14, <1>d DEF ReloadCleanup, schedVars, taskVars, mainVars, workVars, callVars, histVars
<1>15. CASE HeartbeatBegin
  BY <1>15, <1>d DEF HeartbeatBegin, schedVars, taskVars, mainVars, workVars, callVars, histVars
<1>16. CASE ExchangeFlag
  BY <1>16, <1>d DEF ExchangeFlag, schedVars, taskVars, mainVars, workVars, callVars, histVars
<1>17. ASSUME NEW t \in Task, RcDrain(t) PROVE StepOK
  BY <1>17, <1>d DEF RcDrain, schedVars, taskVars, mainVars, workVars, callVars, histVars
<1>18. ASSUME NEW t \in Task, RcRefill(t) PROVE StepOK
  BY <1>18, <1>d DEF RcRefill, schedVars, taskVars, mainVars, workVars, callVars, histVars
<1>19. ASSUME NEW t \in Task, Drain(t) PROVE StepOK
  BY <1>19, <1>d DEF Drain, schedVars, taskVars, mainVars, workVars, callVars, histVars
<1>20. CASE RcDrained
  BY <1>20, <1>d DEF RcDrained, schedVars, taskVars, mainVars, workVars, callVars, histVars
<1>21. CASE RcRefilled
  BY <1>21, <1>d DEF RcRefilled, schedVars, taskVars, mainVars, workVars, callVars, histVars
<1>22. CASE RcPurge
  BY <1>22, <1>d DEF RcPurge, schedVars, taskVars, mainVars, workVars, callVars, histVars
<1>23. CASE Drained
  BY <1>23, <1>d DEF Drained, schedVars, taskVars, mainVars, workVars, callVars, histVars
<1>24. ASSUME NEW k \in Tick, NEW t \in Task, Scan(k, t) PROVE StepOK
  BY <1>24, <1>d DEF Scan, schedVars, taskVars, mainVars, workVars, callVars, histVars
<1>25. CASE StartTask
  BY <1>25, <1>d DEF StartTask, schedVars, taskVars, mainVars, workVars, callVars, histVars
<1>26. CASE BodyEnd
  BY <1>26, <1>d DEF BodyEnd, schedVars, taskVars, mainVars, workVars, callVars, histVars
<1>27. CASE Reschedule
  BY <1>27, <1>d DEF Reschedule, schedVars, taskVars, mainVars, workVars, callVars, histVars
<1>28. CASE Finish
  BY <1>28, <1>d DEF Finish, schedVars, taskVars, mainVars, workVars, callVars, histVars
<1>29. CASE MainRemove
  <2>1. /\ UNCHANGED <<id, cancelled, cset, owner, enabled, raced, cpc, closing>>
        /\ mtask \in Task /\ tasks' = RemoveTask(id[mtask])
    BY <1>29, <1>t DEF MainRemove, taskVars, callVars, histVars, TypeInv, ControlOK, Running
  <2>2. \A u \in Task : Registered(u)' => Registered(u)
    BY <2>1, <1>b
  <2>3. \A q \in Plugin : Sweeping(q) => Sweeping(q)'
    BY <2>1 DEF Sweeping
  <2> QED
    BY <2>1, <2>2, <2>3, <1>f
<1>30. CASE HeartbeatEnd
  BY <1>30, <1>d DEF HeartbeatEnd, schedVars, taskVars, mainVars, workVars, callVars, histVars
<1>31. ASSUME NEW w \in Worker, NEW t \in Task, TakeJob(w, t) PROVE StepOK
  BY <1>31, <1>d DEF TakeJob, schedVars, taskVars, mainVars, workVars, callVars, histVars
<1>32. ASSUME NEW w \in Worker, WorkerStart(w) PROVE StepOK
  BY <1>32, <1>d DEF WorkerStart, schedVars, taskVars, mainVars, workVars, callVars, histVars
<1>33. ASSUME NEW w \in Worker, WorkerFinish(w) PROVE StepOK
  BY <1>33, <1>d DEF WorkerFinish, schedVars, taskVars, mainVars, workVars, callVars, histVars
<1>34. ASSUME NEW w \in Worker, WorkerRemove(w) PROVE StepOK
  <2>1. /\ UNCHANGED <<id, cancelled, cset, owner, enabled, raced, cpc, closing>>
        /\ wtask[w] \in Task /\ tasks' = RemoveTask(id[wtask[w]])
    BY <1>34, <1>t DEF WorkerRemove, taskVars, callVars, histVars, TypeInv, ControlOK, Running
  <2>2. \A u \in Task : Registered(u)' => Registered(u)
    BY <2>1, <1>b
  <2>3. \A q \in Plugin : Sweeping(q) => Sweeping(q)'
    BY <2>1 DEF Sweeping
  <2> QED
    BY <2>1, <2>2, <2>3, <1>f
<1>35. CASE UNCHANGED vars
  BY <1>35, <1>d DEF vars, schedVars, taskVars, mainVars, workVars, callVars, histVars
<1> QED
  BY <1>1, <1>2, <1>3, <1>4, <1>5, <1>6, <1>7, <1>8, <1>9, <1>10, <1>11, <1>12, <1>13, <1>14, <1>15, <1>16, <1>17, <1>18, <1>19, <1>20, <1>21, <1>22, <1>23, <1>24, <1>25, <1>26, <1>27, <1>28, <1>29, <1>30, <1>31, <1>32, <1>33, <1>34, <1>35
     DEF Next, Register, Cancel, Disable, Heartbeat, Work

\* The task's body is about to run on the main thread, or runs.
Executing(t) == mpc \in {"start", "body"} /\ mtask = t

\* What a step does to the places code is run from: a worker enters the body, and the
\* heartbeat fills a bucket, only with an uncancelled task that has a run ahead of it;
\* the main thread starts only what is in a bucket; a cleanup that reload began ends
\* with the purge; and disablePlugin begins only for an enabled plugin.
EffectsOK ==
    /\ \A u \in Task : Busy(u)' => Busy(u) \/ (Live(u) /\ ~cancelled[u])
    /\ \A u \in Task : InQueue(u)' => InQueue(u) \/ (Live(u) /\ ~cancelled[u])
    /\ \A u \in Task : Executing(u)' => Executing(u) \/ InQueue(u)
    /\ mpc \in RemovingCancelled /\ inReload => (mpc' \in RemovingCancelled /\ inReload') \/ RcPurge
    /\ cpc'[Main] = "disabling" => cpc[Main] = "disabling" \/ \E p \in Plugin : enabled[p]

\* Every step of the scheduler does no more than that.
LEMMA EffectsFacts == SchedInv /\ [Next]_vars => EffectsOK
<1> SUFFICES ASSUME SchedInv, [Next]_vars PROVE EffectsOK
  OBVIOUS
<1>t. TypeInv
  BY DEF SchedInv
<1>m. Main \in Thread
  BY SchedulerAssumption
<1>a. ASSUME NEW th \in Thread, NEW t \in Task, AfterCancelling(th, t)
      PROVE  cpc'[th] # "disabling" /\ \A other \in Thread \ {th} : cpc'[other] = cpc[other]
  BY <1>a, <1>t, AfterCancellingFacts
<1>f. ASSUME UNCHANGED <<workers, queue, mpc, mtask, inReload>>,
             cpc'[Main] = "disabling" => cpc[Main] = "disabling"
      PROVE  EffectsOK
  BY <1>f DEF EffectsOK, Busy, InQueue, Executing
<1>g. ASSUME UNCHANGED <<workers, queue, cpc>>,
             \A u \in Task : Executing(u)' => Executing(u),
             mpc \in RemovingCancelled /\ inReload => mpc' \in RemovingCancelled /\ inReload'
      PROVE  EffectsOK
  BY <1>g DEF EffectsOK, Busy, InQueue
<1>s. ASSUME NEW th \in Thread, NEW found \in SUBSET Task, StartCancel(th, found),
             cpc[th] = "idle" \/ cpc[th] = "disabling"
      PROVE  EffectsOK
  <2>1. cset[th] = {} /\ UNCHANGED <<workers, queue, mpc, mtask, inReload>>
    BY <1>s, <1>t DEF StartCancel, TypeInv, ControlOK, schedVars, taskVars, mainVars
  <2>2. cpc'[th] # "disabling" /\ \A other \in Thread \ {th} : cpc'[other] = cpc[other]
    BY <1>s, <1>t, <2>1, StartCancelFacts
  <2> QED
    BY <1>m, <2>1, <2>2, <1>f
<1>1. ASSUME NEW th \in Thread, NEW t \in Task, NEW p \in Plugin, NEW d \in Delays, NEW n \in Periods, Validate(th, t, p, d, n) PROVE EffectsOK
  <2>1. /\ UNCHANGED <<workers, queue, mpc, mtask, inReload>>
        /\ \A other \in Thread : cpc'[other] = "disabling" => cpc[other] = "disabling"
    BY <1>1, <1>t DEF Validate, TypeInv, TypeOK, ThreadTypeOK, schedVars, taskVars, mainVars, workVars, callVars, histVars
  <2> QED
    BY <2>1, <1>f, <1>m
<1>2. ASSUME NEW th \in Thread, NEW t \in Task, RunInternalTask(th, t) PROVE EffectsOK
  <2>1. /\ UNCHANGED <<workers, queue, mpc, mtask, inReload>>
        /\ \A other \in Thread : cpc'[other] = "disabling" => cpc[other] = "disabling"
    BY <1>2, <1>t DEF RunInternalTask, TypeInv, TypeOK, ThreadTypeOK, schedVars, taskVars, mainVars, workVars, callVars, histVars
  <2> QED
    BY <2>1, <1>f, <1>m
<1>3. ASSUME NEW th \in Thread, NEW i \in Id, Construct(th, i) PROVE EffectsOK
  <2>1. /\ UNCHANGED <<workers, queue, mpc, mtask, inReload>>
        /\ \A other \in Thread : cpc'[other] = "disabling" => cpc[other] = "disabling"
    BY <1>3, <1>t DEF Construct, TypeInv, TypeOK, ThreadTypeOK, schedVars, taskVars, mainVars, workVars, callVars, histVars
  <2> QED
    BY <2>1, <1>f, <1>m
<1>4. ASSUME NEW th \in Thread, Insert(th) PROVE EffectsOK
  <2>1. /\ UNCHANGED <<workers, queue, mpc, mtask, inReload>>
        /\ \A other \in Thread : cpc'[other] = "disabling" => cpc[other] = "disabling"
    BY <1>4, <1>t DEF Insert, TypeInv, TypeOK, ThreadTypeOK, schedVars, taskVars, mainVars, workVars, callVars, histVars
  <2> QED
    BY <2>1, <1>f, <1>m
<1>5. ASSUME NEW th \in Thread, Enqueue(th) PROVE EffectsOK
  <2>1. /\ UNCHANGED <<workers, queue, mpc, mtask, inReload>>
        /\ \A other \in Thread : cpc'[other] = "disabling" => cpc[other] = "disabling"
    BY <1>5, <1>t DEF Enqueue, TypeInv, TypeOK, ThreadTypeOK, schedVars, taskVars, mainVars, workVars, callVars, histVars
  <2> QED
    BY <2>1, <1>f, <1>m
<1>6. ASSUME NEW th \in Thread, NEW i \in Id, CancelTask(th, i) PROVE EffectsOK
  <2>1. StartCancel(th, {tasks[i]}) /\ cpc[th] = "idle" /\ {tasks[i]} \in SUBSET Task
    BY <1>6, <1>t DEF CancelTask, CanCall, OwnedBy, TypeInv, TypeOK, SchedTypeOK
  <2> QED
    BY <2>1, <1>s, <1>m
<1>7. ASSUME NEW th \in Thread, NEW p \in Plugin, CancelTasks(th, p) PROVE EffectsOK
  <2>1. StartCancel(th, OwnedBy(p)) /\ cpc[th] = "idle" /\ OwnedBy(p) \in SUBSET Task
    BY <1>7, <1>t DEF CancelTasks, CanCall, OwnedBy
  <2> QED
    BY <2>1, <1>s, <1>m
<1>8. ASSUME NEW th \in Thread, NEW t \in Task, DoCancel(th, t) PROVE EffectsOK
  <2>1. UNCHANGED <<workers, queue, mpc, mtask, inReload>> /\ cpc[th] = "doCancel"
    BY <1>8, <1>t DEF DoCancel, schedVars, taskVars, mainVars, workVars, callVars, histVars, TypeInv, TypeOK, ThreadTypeOK, ControlOK
  <2>2. cpc'[Main] = "disabling" => cpc[Main] = "disabling"
    <3>1. CASE AfterCancelling(th, t)
      BY <2>1, <3>1, <1>a, <1>m
    <3>2. CASE ~AfterCancelling(th, t)
      BY <1>8, <2>1, <3>2, <1>m, <1>t DEF DoCancel, TypeInv, TypeOK, ThreadTypeOK
    <3> QED
      BY <3>1, <3>2
  <2> QED
    BY <2>1, <2>2, <1>f
<1>9. ASSUME NEW th \in Thread, CheckIdle(th) PROVE EffectsOK
  <2>1. UNCHANGED <<workers, queue, mpc, mtask, inReload>> /\ cpc[th] = "checkIdle" /\ ctask[th] \in Task
    BY <1>9, <1>t DEF CheckIdle, schedVars, taskVars, mainVars, workVars, callVars, histVars, TypeInv, TypeOK, ThreadTypeOK, ControlOK
  <2>2. cpc'[Main] = "disabling" => cpc[Main] = "disabling"
    <3>1. CASE AfterCancelling(th, ctask[th])
      BY <2>1, <3>1, <1>a, <1>m
    <3>2. CASE ~AfterCancelling(th, ctask[th])
      BY <1>9, <2>1, <3>2, <1>m, <1>t DEF CheckIdle, TypeInv, TypeOK, ThreadTypeOK
    <3> QED
      BY <3>1, <3>2
  <2> QED
    BY <2>1, <2>2, <1>f
<1>10. ASSUME NEW th \in Thread, RemoveIdle(th) PROVE EffectsOK
  <2>1. UNCHANGED <<workers, queue, mpc, mtask, inReload>> /\ cpc[th] = "remove" /\ ctask[th] \in Task
    BY <1>10, <1>t DEF RemoveIdle, schedVars, taskVars, mainVars, workVars, callVars, histVars, TypeInv, TypeOK, ThreadTypeOK, ControlOK
  <2>2. cpc'[Main] = "disabling" => cpc[Main] = "disabling"
    <3>1. CASE AfterCancelling(th, ctask[th])
      BY <2>1, <3>1, <1>a, <1>m
    <3>2. CASE ~AfterCancelling(th, ctask[th])
      BY <1>10, <2>1, <3>2, <1>m, <1>t DEF RemoveIdle, TypeInv, TypeOK, ThreadTypeOK
    <3> QED
      BY <3>1, <3>2
  <2> QED
    BY <2>1, <2>2, <1>f
<1>11. ASSUME NEW th \in Thread, SetFlag(th) PROVE EffectsOK
  <2>1. /\ UNCHANGED <<workers, queue, mpc, mtask, inReload>>
        /\ \A other \in Thread : cpc'[other] = "disabling" => cpc[other] = "disabling"
    BY <1>11, <1>t DEF SetFlag, TypeInv, TypeOK, ThreadTypeOK, schedVars, taskVars, mainVars, workVars, callVars, histVars
  <2> QED
    BY <2>1, <1>f, <1>m
<1>12. ASSUME NEW p \in Plugin, DisablePlugin(p) PROVE EffectsOK
  <2>1. UNCHANGED <<workers, queue, mpc, mtask, inReload>> /\ enabled[p]
    BY <1>12 DEF DisablePlugin, schedVars, taskVars, mainVars, workVars, callVars, histVars
  <2> QED
    BY <2>1 DEF EffectsOK, Busy, InQueue, Executing
<1>13. CASE CancelDisabled
  <2>1. StartCancel(Main, OwnedBy(closing)) /\ cpc[Main] = "disabling" /\ OwnedBy(closing) \in SUBSET Task
    BY <1>13, <1>t DEF CancelDisabled, CanCall, OwnedBy
  <2> QED
    BY <2>1, <1>s, <1>m
<1>14. CASE ReloadCleanup
  <2>1. UNCHANGED <<workers, queue, cpc>>
    BY <1>14 DEF ReloadCleanup, schedVars, taskVars, mainVars, workVars, callVars, histVars
  <2>2. \A u \in Task : Executing(u)' => Executing(u)
    BY <1>14 DEF ReloadCleanup, Executing
  <2>3. mpc \in RemovingCancelled /\ inReload => mpc' \in RemovingCancelled /\ inReload'
    BY <1>14 DEF ReloadCleanup, RemovingCancelled, Running, schedVars, taskVars, mainVars, workVars, callVars, histVars
  <2> QED
    BY <2>1, <2>2, <2>3, <1>g
<1>15. CASE HeartbeatBegin
  <2>1. UNCHANGED <<workers, queue, cpc>>
    BY <1>15 DEF HeartbeatBegin, schedVars, taskVars, mainVars, workVars, callVars, histVars
  <2>2. \A u \in Task : Executing(u)' => Executing(u)
    BY <1>15 DEF HeartbeatBegin, Executing
  <2>3. mpc \in RemovingCancelled /\ inReload => mpc' \in RemovingCancelled /\ inReload'
    BY <1>15 DEF HeartbeatBegin, RemovingCancelled, Running, schedVars, taskVars, mainVars, workVars, callVars, histVars
  <2> QED
    BY <2>1, <2>2, <2>3, <1>g
<1>16. CASE ExchangeFlag
  <2>1. UNCHANGED <<workers, queue, cpc>>
    BY <1>16 DEF ExchangeFlag, schedVars, taskVars, mainVars, workVars, callVars, histVars
  <2>2. \A u \in Task : Executing(u)' => Executing(u)
    BY <1>16 DEF ExchangeFlag, Executing
  <2>3. mpc \in RemovingCancelled /\ inReload => mpc' \in RemovingCancelled /\ inReload'
    BY <1>16 DEF ExchangeFlag, RemovingCancelled, Running, schedVars, taskVars, mainVars, workVars, callVars, histVars
  <2> QED
    BY <2>1, <2>2, <2>3, <1>g
<1>17. ASSUME NEW t \in Task, RcDrain(t) PROVE EffectsOK
  <2>1. UNCHANGED <<workers, queue, mpc, mtask, inReload, cpc>>
    BY <1>17 DEF RcDrain, schedVars, taskVars, mainVars, workVars, callVars, histVars
  <2> QED
    BY <2>1, <1>f
<1>18. ASSUME NEW t \in Task, RcRefill(t) PROVE EffectsOK
  <2>1. UNCHANGED <<workers, queue, mpc, mtask, inReload, cpc>>
    BY <1>18 DEF RcRefill, schedVars, taskVars, mainVars, workVars, callVars, histVars
  <2> QED
    BY <2>1, <1>f
<1>19. ASSUME NEW t \in Task, Drain(t) PROVE EffectsOK
  <2>1. /\ UNCHANGED <<workers, mtask, mpc, inReload, cpc>> /\ pending[t] > 0
    BY <1>19 DEF Drain, Dequeues, schedVars, taskVars, mainVars, workVars, callVars, histVars
  <2>2. \A u \in Task : InQueue(u)' => InQueue(u) \/ (Live(u) /\ ~cancelled[u])
    <3>1. CASE cancelled[t]
      BY <1>19, <3>1 DEF Drain, InQueue
    <3>2. CASE ~cancelled[t]
      <4>1. queue' = [queue EXCEPT ![BucketOf(t)][t] = @ + 1] /\ queue \in [Tick -> [Task -> Nat]]
        BY <1>19, <1>t, <3>2 DEF Drain, TypeInv, TypeOK, SchedTypeOK
      <4>2. \A u \in Task, k \in Tick : u # t => queue'[k][u] = queue[k][u]
        BY <4>1
      <4>3. \A u \in Task : u = t => Live(u)
        BY <2>1 DEF Live, ToRun
      <4> QED
        BY <3>2, <4>2, <4>3 DEF InQueue
    <3> QED
      BY <3>1, <3>2
  <2> QED
    BY <2>1, <2>2 DEF EffectsOK, Busy, Executing
<1>20. CASE RcDrained
  <2>1. UNCHANGED <<workers, queue, cpc>>
    BY <1>20 DEF RcDrained, schedVars, taskVars, mainVars, workVars, callVars, histVars
  <2>2. \A u \in Task : Executing(u)' => Executing(u)
    BY <1>20 DEF RcDrained, Executing
  <2>3. mpc \in RemovingCancelled /\ inReload => mpc' \in RemovingCancelled /\ inReload'
    BY <1>20 DEF RcDrained, RemovingCancelled, Running, schedVars, taskVars, mainVars, workVars, callVars, histVars
  <2> QED
    BY <2>1, <2>2, <2>3, <1>g
<1>21. CASE RcRefilled
  <2>1. UNCHANGED <<workers, queue, cpc>>
    BY <1>21 DEF RcRefilled, schedVars, taskVars, mainVars, workVars, callVars, histVars
  <2>2. \A u \in Task : Executing(u)' => Executing(u)
    BY <1>21 DEF RcRefilled, Executing
  <2>3. mpc \in RemovingCancelled /\ inReload => mpc' \in RemovingCancelled /\ inReload'
    BY <1>21 DEF RcRefilled, RemovingCancelled, Running, schedVars, taskVars, mainVars, workVars, callVars, histVars
  <2> QED
    BY <2>1, <2>2, <2>3, <1>g
<1>22. CASE RcPurge
  <2>1. /\ UNCHANGED <<workers, mtask, cpc>> /\ mpc' \in {"idle", "drain"}
    BY <1>22 DEF RcPurge, schedVars, taskVars, mainVars, workVars, callVars, histVars
  <2>2. \A u \in Task : InQueue(u)' => InQueue(u)
    <3>1. \A u \in Task, k \in Tick : queue'[k][u] = IF cancelled[u] THEN 0 ELSE queue[k][u]
      BY <1>22 DEF RcPurge, Purge
    <3> QED
      BY <3>1 DEF InQueue
  <2> QED
    BY <1>22, <2>1, <2>2 DEF EffectsOK, Busy, Executing
<1>23. CASE Drained
  <2>1. UNCHANGED <<workers, queue, cpc>>
    BY <1>23 DEF Drained, schedVars, taskVars, mainVars, workVars, callVars, histVars
  <2>2. \A u \in Task : Executing(u)' => Executing(u)
    BY <1>23 DEF Drained, Executing
  <2>3. mpc \in RemovingCancelled /\ inReload => mpc' \in RemovingCancelled /\ inReload'
    BY <1>23 DEF Drained, RemovingCancelled, Running, schedVars, taskVars, mainVars, workVars, callVars, histVars
  <2> QED
    BY <2>1, <2>2, <2>3, <1>g
<1>24. ASSUME NEW k \in Tick, NEW t \in Task, Scan(k, t) PROVE EffectsOK
  <2>1. UNCHANGED <<workers, inReload, cpc>> /\ mpc = "scan" /\ queue[k][t] > 0
    BY <1>24 DEF Scan, schedVars, taskVars, mainVars, workVars, callVars, histVars
  <2>2. \A u \in Task : InQueue(u)' => InQueue(u)
    <3>1. queue' = [queue EXCEPT ![k][t] = @ - 1] /\ queue \in [Tick -> [Task -> Nat]]
      BY <1>24, <1>t DEF Scan, Walk, TypeInv, TypeOK, SchedTypeOK
    <3>2. \A u \in Task, j \in Tick : queue'[j][u] > 0 => queue[j][u] > 0
      BY <2>1, <3>1
    <3> QED
      BY <3>2 DEF InQueue
  <2>3. \A u \in Task : Executing(u)' => InQueue(u)
    BY <1>24, <2>1 DEF Scan, Executing, InQueue
  <2>4. mpc \notin RemovingCancelled
    BY <2>1 DEF RemovingCancelled
  <2> QED
    BY <2>1, <2>2, <2>3, <2>4 DEF EffectsOK, Busy
<1>25. CASE StartTask
  <2>1. UNCHANGED <<workers, queue, cpc>>
    BY <1>25 DEF StartTask, schedVars, taskVars, mainVars, workVars, callVars, histVars
  <2>2. \A u \in Task : Executing(u)' => Executing(u)
    BY <1>25 DEF StartTask, Executing
  <2>3. mpc \in RemovingCancelled /\ inReload => mpc' \in RemovingCancelled /\ inReload'
    BY <1>25 DEF StartTask, RemovingCancelled, Running, schedVars, taskVars, mainVars, workVars, callVars, histVars
  <2> QED
    BY <2>1, <2>2, <2>3, <1>g
<1>26. CASE BodyEnd
  <2>1. UNCHANGED <<workers, queue, cpc>>
    BY <1>26 DEF BodyEnd, schedVars, taskVars, mainVars, workVars, callVars, histVars
  <2>2. \A u \in Task : Executing(u)' => Executing(u)
    BY <1>26 DEF BodyEnd, Executing
  <2>3. mpc \in RemovingCancelled /\ inReload => mpc' \in RemovingCancelled /\ inReload'
    BY <1>26 DEF BodyEnd, RemovingCancelled, Running, schedVars, taskVars, mainVars, workVars, callVars, histVars
  <2> QED
    BY <2>1, <2>2, <2>3, <1>g
<1>27. CASE Reschedule
  <2>1. UNCHANGED <<workers, queue, cpc>>
    BY <1>27 DEF Reschedule, schedVars, taskVars, mainVars, workVars, callVars, histVars
  <2>2. \A u \in Task : Executing(u)' => Executing(u)
    BY <1>27 DEF Reschedule, Executing
  <2>3. mpc \in RemovingCancelled /\ inReload => mpc' \in RemovingCancelled /\ inReload'
    BY <1>27 DEF Reschedule, RemovingCancelled, Running, schedVars, taskVars, mainVars, workVars, callVars, histVars
  <2> QED
    BY <2>1, <2>2, <2>3, <1>g
<1>28. CASE Finish
  <2>1. UNCHANGED <<workers, queue, cpc>>
    BY <1>28 DEF Finish, schedVars, taskVars, mainVars, workVars, callVars, histVars
  <2>2. \A u \in Task : Executing(u)' => Executing(u)
    BY <1>28 DEF Finish, Executing
  <2>3. mpc \in RemovingCancelled /\ inReload => mpc' \in RemovingCancelled /\ inReload'
    BY <1>28 DEF Finish, RemovingCancelled, Running, schedVars, taskVars, mainVars, workVars, callVars, histVars
  <2> QED
    BY <2>1, <2>2, <2>3, <1>g
<1>29. CASE MainRemove
  <2>1. UNCHANGED <<workers, queue, cpc>>
    BY <1>29 DEF MainRemove, schedVars, taskVars, mainVars, workVars, callVars, histVars
  <2>2. \A u \in Task : Executing(u)' => Executing(u)
    BY <1>29 DEF MainRemove, Executing
  <2>3. mpc \in RemovingCancelled /\ inReload => mpc' \in RemovingCancelled /\ inReload'
    BY <1>29 DEF MainRemove, RemovingCancelled, Running, schedVars, taskVars, mainVars, workVars, callVars, histVars
  <2> QED
    BY <2>1, <2>2, <2>3, <1>g
<1>30. CASE HeartbeatEnd
  <2>1. UNCHANGED <<workers, queue, cpc>>
    BY <1>30 DEF HeartbeatEnd, schedVars, taskVars, mainVars, workVars, callVars, histVars
  <2>2. \A u \in Task : Executing(u)' => Executing(u)
    BY <1>30 DEF HeartbeatEnd, Executing
  <2>3. mpc \in RemovingCancelled /\ inReload => mpc' \in RemovingCancelled /\ inReload'
    BY <1>30 DEF HeartbeatEnd, RemovingCancelled, Running, schedVars, taskVars, mainVars, workVars, callVars, histVars
  <2> QED
    BY <2>1, <2>2, <2>3, <1>g
<1>31. ASSUME NEW w \in Worker, NEW t \in Task, TakeJob(w, t) PROVE EffectsOK
  <2>1. UNCHANGED <<workers, queue, mpc, mtask, inReload, cpc>>
    BY <1>31 DEF TakeJob, schedVars, taskVars, mainVars, workVars, callVars, histVars
  <2> QED
    BY <2>1, <1>f
<1>32. ASSUME NEW w \in Worker, WorkerStart(w) PROVE EffectsOK
  <2>1. UNCHANGED <<queue, mpc, mtask, inReload, cpc>>
    BY <1>32 DEF WorkerStart, schedVars, taskVars, mainVars, workVars, callVars, histVars
  <2>2. \A u \in Task : Busy(u)' => Busy(u) \/ (Live(u) /\ ~cancelled[u])
    <3>1. CASE cancelled[wtask[w]]
      BY <1>32, <3>1 DEF WorkerStart, Busy
    <3>2. CASE ~cancelled[wtask[w]]
      <4>1. /\ workers' = [workers EXCEPT ![wtask[w]] = @ \cup {w}] /\ workers \in [Task -> SUBSET Worker]
            /\ wpc[w] = "start"
        BY <1>32, <1>t, <3>2 DEF WorkerStart, TypeInv, TypeOK, TaskTypeOK
      <4>2. \A u \in Task : u # wtask[w] => workers'[u] = workers[u]
        BY <4>1
      <4>3. \A u \in Task : u = wtask[w] => Live(u)
        BY <4>1 DEF Live
      <4> QED
        BY <3>2, <4>2, <4>3 DEF Busy
    <3> QED
      BY <3>1, <3>2
  <2> QED
    BY <2>1, <2>2 DEF EffectsOK, InQueue, Executing
<1>33. ASSUME NEW w \in Worker, WorkerFinish(w) PROVE EffectsOK
  <2>1. UNCHANGED <<queue, mpc, mtask, inReload, cpc>>
    BY <1>33 DEF WorkerFinish, schedVars, taskVars, mainVars, workVars, callVars, histVars
  <2>2. \A u \in Task : Busy(u)' => Busy(u)
    <3>1. workers' = [workers EXCEPT ![wtask[w]] = @ \ {w}] /\ workers \in [Task -> SUBSET Worker]
      BY <1>33, <1>t DEF WorkerFinish, TypeInv, TypeOK, TaskTypeOK
    <3>2. \A u \in Task : workers'[u] \subseteq workers[u]
      BY <3>1
    <3> QED
      BY <3>2 DEF Busy
  <2> QED
    BY <2>1, <2>2 DEF EffectsOK, InQueue, Executing
<1>34. ASSUME NEW w \in Worker, WorkerRemove(w) PROVE EffectsOK
  <2>1. UNCHANGED <<workers, queue, mpc, mtask, inReload, cpc>>
    BY <1>34 DEF WorkerRemove, schedVars, taskVars, mainVars, workVars, callVars, histVars
  <2> QED
    BY <2>1, <1>f
<1>35. CASE UNCHANGED vars
  BY <1>35, <1>f DEF vars, schedVars, taskVars, mainVars, workVars, callVars, histVars
<1> QED
  BY <1>1, <1>2, <1>3, <1>4, <1>5, <1>6, <1>7, <1>8, <1>9, <1>10, <1>11, <1>12, <1>13, <1>14, <1>15, <1>16, <1>17, <1>18, <1>19, <1>20, <1>21, <1>22, <1>23, <1>24, <1>25, <1>26, <1>27, <1>28, <1>29, <1>30, <1>31, <1>32, <1>33, <1>34, <1>35
     DEF Next, Register, Cancel, Disable, Heartbeat, Work

\* Every step of reload and of the threads beside it is a step of the scheduler or
\* leaves the scheduler alone.
LEMMA ReloadStep == [ReloadNext]_allVars => [Next]_vars
<1> SUFFICES ASSUME [ReloadNext]_allVars PROVE [Next]_vars
  OBVIOUS
<1>m. Main \in Thread
  BY SchedulerAssumption
<1>1. CASE SchedulerStep
  BY <1>1, <1>m DEF SchedulerStep, MainCalls, CallStep, Next, Register, Cancel, Disable, Heartbeat
<1>2. CASE ReloadDisable
  BY <1>2 DEF ReloadDisable, Next, Disable
<1>3. CASE Cleanup
  BY <1>3 DEF Cleanup, Next
<1>4. CASE ReloadBegin \/ ReloadDisabled \/ PollBegin \/ (\E t \in Async : PollTask(t)) \/ PollEnd \/ PollTimeout \/ ClearPlugins
  BY <1>4 DEF ReloadBegin, ReloadDisabled, PollBegin, PollTask, PollEnd, PollTimeout, ClearPlugins
<1>5. CASE UNCHANGED allVars
  BY <1>5 DEF allVars
<1> QED
  BY <1>1, <1>2, <1>3, <1>4, <1>5 DEF ReloadNext

\* The composition implements the scheduler: reload, the one operation that drives the
\* heartbeat's cleanup from outside, adds no behaviour to it.  Whatever is proved of the
\* scheduler holds while plugins are reloaded.
THEOREM ReloadImplementsScheduler == ReloadSpec => Spec
<1>1. ReloadInit => Init
  BY DEF ReloadInit
<1> QED
  BY <1>1, ReloadStep, PTL DEF ReloadSpec, Spec

\* The scheduler knows the task: it can run again, or it is in tasks_.
Alive(t) == Live(t) \/ Registered(t)

\* The tasks nothing is promised for: added to tasks_ after disablePlugin had looked,
\* or in another canceller's hands when it looked.
Apart == raced \cup snatched

\* A task the scheduler gets to know was just inserted, and one inserted after its
\* owner's disablePlugin has looked is counted as raced.
LEMMA AliveStep == SchedInv /\ [Next]_vars =>
    \A u \in Task : Alive(u)' => Alive(u) \/ Inserts(u)
  BY LiveStep, StepFacts DEF SchedInv, Alive, StepOK

LEMMA InsertsFacts ==
  ASSUME SchedInv, NEW u \in Task, Inserts(u)
  PROVE  /\ owner' = owner /\ enabled' = enabled /\ ~CancelDisabled
         /\ owner[u] \in Plugin /\ ~enabled[owner[u]] /\ ~Sweeping(owner[u]) => u \in raced'
<1>1. PICK th \in Thread : Insert(th) /\ ctask[th] = u
  BY DEF Inserts
<1>2. /\ owner' = owner /\ enabled' = enabled
      /\ cpc[th] = "insert" /\ cpc' = [cpc EXCEPT ![th] = "enqueue"] /\ DOMAIN cpc = Thread
  BY <1>1 DEF Insert, taskVars, SchedInv, TypeInv, TypeOK, ThreadTypeOK
<1>3. Main \in Thread
  BY SchedulerAssumption
<1>4. ASSUME CancelDisabled PROVE FALSE
  <2>1. /\ cpc[Main] = "disabling" /\ StartCancel(Main, OwnedBy(closing)) /\ TypeInv
        /\ cset[Main] = {} /\ OwnedBy(closing) \in SUBSET Task
    BY <1>3, <1>4 DEF CancelDisabled, OwnedBy, SchedInv, TypeInv, ControlOK
  <2>2. cpc'[Main] \in {"setFlag", "doCancel"}
    BY <1>3, <2>1, StartCancelFacts
  <2> QED
    BY <1>2, <1>3, <2>1, <2>2
<1>5. MissedByDisable(u) => u \in raced'
  BY <1>1 DEF Insert
<1> QED
  BY <1>2, <1>4, <1>5 DEF MissedByDisable, Sweeping

\* disablePlugin's look at tasks_ puts the tasks other cancellers hold among the
\* snatched ones.
LEMMA SnatchedFacts ==
  ASSUME SchedInv, [ReloadNext]_allVars
  PROVE  /\ snatched \subseteq snatched'
         /\ CancelDisabled => \A u \in Task, th \in Thread \ {Main} :
               owner[u] = closing /\ ~cancelled[u] /\ u \in cset[th] => u \in snatched'
<1>m. Main \in Thread
  BY SchedulerAssumption
<1>1. CASE SchedulerStep
  <2>1. snatched \subseteq snatched'
    BY <1>1 DEF SchedulerStep
  <2>2. ASSUME CancelDisabled PROVE cpc[Main] = "disabling" /\ cpc'[Main] # "disabling"
    <3>1. /\ cpc[Main] = "disabling" /\ StartCancel(Main, OwnedBy(closing)) /\ TypeInv
          /\ cset[Main] = {} /\ OwnedBy(closing) \in SUBSET Task
      BY <1>m, <2>2 DEF CancelDisabled, OwnedBy, SchedInv, TypeInv, ControlOK
    <3> QED
      BY <1>m, <3>1, StartCancelFacts
  <2>3. cpc[Main] = "disabling" /\ cpc'[Main] # "disabling" =>
          snatched' = snatched \cup {t \in Task : owner[t] = closing /\ ~cancelled[t]
                                        /\ \E th \in Thread \ {Main} : t \in cset[th]}
    BY <1>1 DEF SchedulerStep
  <2> QED
    BY <2>1, <2>2, <2>3
<1>2. CASE ~SchedulerStep
  <2>1. snatched' = snatched /\ (cpc[Main] = "idle" \/ UNCHANGED vars)
    BY <1>2 DEF ReloadNext, ReloadBegin, ReloadDisable, ReloadDisabled, PollBegin, PollTask, PollEnd,
                PollTimeout, Cleanup, ClearPlugins, DisablePlugin, CanCall, ReloadCleanup, reloadVars, allVars
  <2>2. ASSUME CancelDisabled PROVE FALSE
    <3>1. /\ cpc[Main] = "disabling" /\ StartCancel(Main, OwnedBy(closing)) /\ TypeInv
          /\ cset[Main] = {} /\ OwnedBy(closing) \in SUBSET Task
      BY <1>m, <2>2 DEF CancelDisabled, OwnedBy, SchedInv, TypeInv, ControlOK
    <3>2. cpc'[Main] # "disabling"
      BY <1>m, <3>1, StartCancelFacts
    <3> QED
      BY <2>1, <3>1, <3>2 DEF vars, callVars
  <2> QED
    BY <2>1, <2>2
<1> QED
  BY <1>1, <1>2

\* Once disablePlugin has looked through tasks_, every task of the plugin that the
\* scheduler knows, run or no run ahead of it, is cancelled or next in disablePlugin's
\* own hands.
SettledOK ==
    \A t \in Task \ Apart :
        owner[t] \in Plugin /\ ~enabled[owner[t]] /\ ~Sweeping(owner[t]) /\ Alive(t)
            => cancelled[t] \/ t \in cset[Main]

\* No step lets such a task slip away.
LEMMA SettledNext == SchedInv /\ SettledOK /\ [ReloadNext]_allVars => SettledOK'
<1> SUFFICES ASSUME SchedInv, SettledOK, [ReloadNext]_allVars,
                    NEW t \in Task \ Apart', owner'[t] \in Plugin, ~enabled'[owner'[t]],
                    ~(cpc'[Main] = "disabling" /\ closing' = owner'[t]), Alive(t)'
             PROVE  cancelled'[t] \/ t \in cset'[Main]
  BY DEF SettledOK, Sweeping
<1>m. Main \in Thread
  BY SchedulerAssumption
<1>1. [Next]_vars /\ StepOK
  BY ReloadStep, StepFacts
<1>2. t \notin raced' /\ t \notin snatched' /\ t \notin Apart
  BY <1>1, SnatchedFacts DEF Apart, StepOK
<1>3. \A p \in Plugin : ~enabled'[p] /\ ~(cpc'[Main] = "disabling" /\ closing' = p)
          => ~enabled[p] /\ (~Sweeping(p) \/ CancelDisabled)
  BY <1>1 DEF StepOK, Sweeping
<1>4. ~enabled[owner'[t]] /\ (~Sweeping(owner'[t]) \/ CancelDisabled)
  BY <1>3
<1>5. owner'[t] = owner[t]
  BY <1>1, <1>4 DEF StepOK
<1>6. Alive(t)
  BY <1>1, <1>2, <1>4, <1>5, AliveStep, InsertsFacts
<1>7. CASE ~Sweeping(owner[t])
  <2>1. cancelled[t] \/ t \in cset[Main]
    BY <1>2, <1>4, <1>5, <1>6, <1>7 DEF SettledOK
  <2> QED
    BY <1>1, <1>m, <2>1 DEF StepOK
<1>8. CASE Sweeping(owner[t])
  <2>1. CancelDisabled /\ cpc[Main] = "disabling" /\ closing = owner[t]
    BY <1>4, <1>5, <1>8 DEF Sweeping
  <2>2. /\ StartCancel(Main, OwnedBy(closing)) /\ TypeInv
        /\ cset[Main] = {} /\ OwnedBy(closing) \in SUBSET Task
    BY <1>m, <2>1 DEF CancelDisabled, OwnedBy, SchedInv, TypeInv, ControlOK
  <2>3. cset'[Main] = OwnedBy(closing)
    BY <1>m, <2>2, StartCancelFacts
  <2>4. CASE Registered(t)
    <3>1. id[t] \in Id
      BY <2>2, <2>4 DEF Registered, TypeInv, TypeOK, TaskTypeOK
    <3> QED
      BY <2>1, <2>3, <2>4, <3>1 DEF OwnedBy, Registered
  <2>5. CASE cancelled[t]
    BY <1>1, <2>5 DEF StepOK
  <2>6. CASE Taken(t) /\ ~cancelled[t]
    <3>1. PICK th \in Thread : t \in cset[th]
      BY <2>6 DEF Taken
    <3>2. th # Main
      BY <2>2, <3>1
    <3> QED
      BY <1>2, <2>1, <2>6, <3>1, <3>2, SnatchedFacts
  <2> QED
    BY <1>6, <2>4, <2>5, <2>6 DEF Alive, SchedInv, TaskInv, HeldOK
<1> QED
  BY <1>7, <1>8

\* With every plugin disabled, a task of a plugin keeps its owner, the scheduler gets
\* to know no other, and a cancelled one stays cancelled.
LEMMA DisabledStays ==
  ASSUME SchedInv, [ReloadNext]_allVars, \A p \in Plugin : ~enabled[p], cpc[Main] # "disabling"
  PROVE  /\ \A p \in Plugin : ~enabled'[p]
         /\ cpc'[Main] # "disabling"
         /\ \A t \in Task \ Apart' : owner'[t] \in Plugin =>
               /\ t \notin Apart /\ owner'[t] = owner[t]
               /\ Alive(t)' => Alive(t)
               /\ cancelled[t] => cancelled'[t]
<1>1. [Next]_vars /\ StepOK /\ EffectsOK
  BY ReloadStep, StepFacts, EffectsFacts
<1>2. (\A p \in Plugin : ~enabled'[p]) /\ cpc'[Main] # "disabling"
  BY <1>1 DEF StepOK, EffectsOK
<1>3. ASSUME NEW t \in Task \ Apart', owner'[t] \in Plugin
      PROVE  /\ t \notin Apart /\ owner'[t] = owner[t]
             /\ Alive(t)' => Alive(t)
             /\ cancelled[t] => cancelled'[t]
  <2>1. t \notin Apart /\ t \notin raced'
    BY <1>1, SnatchedFacts DEF Apart, StepOK
  <2>2. owner'[t] = owner[t] /\ (cancelled[t] => cancelled'[t])
    BY <1>1, <1>3 DEF StepOK
  <2>3. ~enabled[owner[t]] /\ ~Sweeping(owner[t])
    BY <1>3, <2>2 DEF Sweeping
  <2>4. Alive(t)' => Alive(t)
    BY <1>1, <1>3, <2>1, <2>2, <2>3, AliveStep, InsertsFacts
  <2> QED
    BY <2>1, <2>2, <2>4
<1> QED
  BY <1>2, <1>3

\* From the moment reload starts to poll, every plugin is disabled and every task of a
\* plugin that the scheduler knows is cancelled.
AllDisabledOK ==
    rpc \notin {"none", "disable"} =>
        /\ \A p \in Plugin : ~enabled[p]
        /\ cpc[Main] # "disabling"
        /\ \A t \in Task \ Apart : owner[t] \in Plugin /\ Alive(t) => cancelled[t]

LEMMA AllDisabledNext ==
    SchedInv /\ SettledOK /\ AllDisabledOK /\ [ReloadNext]_allVars => AllDisabledOK'
<1> SUFFICES ASSUME SchedInv, SettledOK, AllDisabledOK, [ReloadNext]_allVars, rpc' \notin {"none", "disable"}
             PROVE  /\ \A p \in Plugin : ~enabled'[p]
                    /\ cpc'[Main] # "disabling"
                    /\ \A t \in Task \ Apart' : owner'[t] \in Plugin /\ Alive(t)' => cancelled'[t]
  BY DEF AllDisabledOK
<1>1. (\A p \in Plugin : ~enabled[p]) /\ cpc[Main] # "disabling"
      /\ \A t \in Task \ Apart : owner[t] \in Plugin /\ Alive(t) => cancelled[t]
  <2>1. CASE rpc \notin {"none", "disable"}
    BY <2>1 DEF AllDisabledOK
  <2>2. CASE rpc \in {"none", "disable"}
    <3>1. ReloadDisabled
      BY <2>2 DEF ReloadNext, SchedulerStep, ReloadBegin, ReloadDisable, PollBegin, PollTask, PollEnd,
                  PollTimeout, Cleanup, ClearPlugins, reloadVars, allVars
    <3>2. (\A p \in Plugin : ~enabled[p]) /\ cpc[Main] = "idle"
      BY <3>1 DEF ReloadDisabled
    <3>3. cset[Main] = {}
      BY <3>2, SchedulerAssumption DEF SchedInv, TypeInv, ControlOK
    <3>4. \A t \in Task \ Apart : owner[t] \in Plugin /\ Alive(t) => cancelled[t]
      BY <3>2, <3>3 DEF SettledOK, Sweeping
    <3> QED
      BY <3>2, <3>4
  <2> QED
    BY <2>1, <2>2
<1> QED
  BY <1>1, DisabledStays

\* The async tasks reload has looked at have no worker inside, while it polls (unless it
\* found one and polls again) and, when it did not run out of patience, ever after.
PolledOK ==
    /\ rpc = "query" /\ ~busy =>
          \A t \in Async \ (Apart \cup rset) : owner[t] \in Plugin => ~Busy(t)
    /\ rpc \in {"cleanup", "clear", "done"} /\ ~timedOut =>
          \A t \in Async \ Apart : owner[t] \in Plugin => ~Busy(t)

\* A worker that comes back to a task of a disabled plugin finds it cancelled.
LEMMA PolledNext ==
    SchedInv /\ AllDisabledOK /\ PolledOK /\ [ReloadNext]_allVars => PolledOK'
<1> SUFFICES ASSUME SchedInv, AllDisabledOK, PolledOK, [ReloadNext]_allVars PROVE PolledOK'
  OBVIOUS
<1>1. [Next]_vars /\ EffectsOK
  BY ReloadStep, EffectsFacts
<1>2. ASSUME rpc \notin {"none", "disable"}, NEW t \in Task \ Apart', owner'[t] \in Plugin
      PROVE  /\ t \notin Apart /\ owner[t] \in Plugin
             /\ Busy(t)' => Busy(t)
  <2>1. t \notin Apart /\ owner'[t] = owner[t]
    BY <1>2, DisabledStays DEF AllDisabledOK
  <2>2. Live(t) => cancelled[t]
    BY <1>2, <2>1 DEF AllDisabledOK, Alive
  <2> QED
    BY <1>1, <1>2, <2>1, <2>2 DEF EffectsOK
<1>3. Async \subseteq Task
  BY DEF Async
<1>4. CASE UNCHANGED <<rpc, rset, busy, timedOut>>
  BY <1>2, <1>3, <1>4 DEF PolledOK
<1>5. CASE PollBegin
  <2>1. rpc' = "query" /\ rpc = "poll" /\ rset' = ActiveTasks
    BY <1>5 DEF PollBegin
  <2>2. \A t \in Async : Busy(t) => t \in ActiveTasks
    <3> SUFFICES ASSUME NEW t \in Async, Busy(t) PROVE t \in ActiveTasks
      OBVIOUS
    <3>1. Registered(t)
      BY DEF SchedInv, TaskInv, LastOneRemoves, Busy
    <3>2. id[t] \in Id
      BY <1>3, <3>1 DEF Registered, SchedInv, TypeInv, TypeOK, TaskTypeOK
    <3> QED
      BY <3>1, <3>2 DEF Registered, ActiveTasks
  <2> QED
    BY <1>2, <1>3, <2>1, <2>2 DEF PolledOK
<1>6. ASSUME NEW u \in Async, PollTask(u) PROVE PolledOK'
  <2>1. /\ rpc' = "query" /\ rpc = "query" /\ rset' = rset \ {u}
        /\ ~busy' => ~busy /\ ~Busy(u)
    BY <1>6 DEF PollTask, Busy
  <2> QED
    BY <1>2, <1>3, <2>1 DEF PolledOK
<1>7. CASE PollEnd
  <2>1. /\ rpc = "query" /\ rset = {} /\ timedOut' = timedOut
        /\ (rpc' = "cleanup" /\ ~busy) \/ rpc' = "poll"
    BY <1>7 DEF PollEnd, Waits
  <2> QED
    BY <1>2, <1>3, <2>1 DEF PolledOK
<1>8. CASE ReloadBegin \/ ReloadDisabled \/ PollTimeout
  <2>1. rpc' \in {"disable", "poll"} \/ (rpc' = "cleanup" /\ timedOut')
    BY <1>8 DEF ReloadBegin, ReloadDisabled, PollTimeout
  <2> QED
    BY <2>1 DEF PolledOK
<1>9. CASE Cleanup \/ ClearPlugins
  <2>1. /\ rpc \in {"cleanup", "clear"} /\ rpc' \in {"clear", "done"} /\ timedOut' = timedOut
    BY <1>9 DEF Cleanup, ClearPlugins
  <2> QED
    BY <1>2, <1>3, <2>1 DEF PolledOK
<1>10. SchedulerStep \/ ReloadDisable => UNCHANGED <<rpc, rset, busy, timedOut>>
  BY DEF SchedulerStep, ReloadDisable, reloadVars
<1>11. UNCHANGED allVars => UNCHANGED <<rpc, rset, busy, timedOut>>
  BY DEF allVars, reloadVars
<1> QED
  BY <1>4, <1>5, <1>6, <1>7, <1>8, <1>9, <1>10, <1>11 DEF ReloadNext

\* The cleanup that reload began is under way; when it is over, and ever after, no task
\* of a plugin is in a bucket or about to be run by the main thread.
ReleasedOK ==
    /\ rpc = "clear" =>
          \/ mpc \in RemovingCancelled /\ inReload
          \/ mpc = "idle" /\ \A t \in Task \ Apart : owner[t] \in Plugin => ~InQueue(t)
    /\ rpc = "done" =>
          \A t \in Task \ Apart : owner[t] \in Plugin => ~InQueue(t) /\ ~Executing(t)
    /\ rpc # "done" => destroyed = {}
    /\ destroyed \subseteq Plugin

\* Until the plugins are destroyed the main thread is reload's: an idle heartbeat stays so.
LEMMA IdleStays ==
  ASSUME SchedulerStep, InReload, mpc = "idle"
  PROVE  mpc' = "idle" /\ queue' = queue
<1>1. CASE \E th \in Thread : Register(th)
  BY <1>1 DEF Register, Validate, RunInternalTask, Construct, Insert, Enqueue, mainVars, schedVars
<1>2. CASE \E th \in Thread : Cancel(th)
  BY <1>2 DEF Cancel, CancelTask, CancelTasks, StartCancel, DoCancel, CheckIdle, RemoveIdle, SetFlag, mainVars, schedVars
<1>3. CASE CallStep(Main)
  BY <1>3 DEF CallStep, Construct, Insert, Enqueue, DoCancel, CheckIdle, RemoveIdle, SetFlag,
              CancelDisabled, StartCancel, mainVars, schedVars
<1>4. CASE \E w \in Worker : Work(w)
  BY <1>4 DEF Work, TakeJob, WorkerStart, WorkerFinish, WorkerRemove, mainVars, schedVars
<1> QED
  BY <1>1, <1>2, <1>3, <1>4 DEF SchedulerStep

LEMMA ReleasedNext ==
    SchedInv /\ AllDisabledOK /\ ReleasedOK /\ [ReloadNext]_allVars => ReleasedOK'
<1> SUFFICES ASSUME SchedInv, AllDisabledOK, ReleasedOK, [ReloadNext]_allVars PROVE ReleasedOK'
  OBVIOUS
<1>1. [Next]_vars /\ EffectsOK
  BY ReloadStep, EffectsFacts
<1>2. ASSUME rpc \notin {"none", "disable"}, NEW t \in Task \ Apart', owner'[t] \in Plugin
      PROVE  /\ t \notin Apart /\ owner[t] \in Plugin
             /\ Alive(t) => cancelled[t]
             /\ InQueue(t)' => InQueue(t)
             /\ Executing(t)' => Executing(t) \/ InQueue(t)
  <2>1. t \notin Apart /\ owner'[t] = owner[t]
    BY <1>2, DisabledStays DEF AllDisabledOK
  <2>2. Alive(t) => cancelled[t]
    BY <1>2, <2>1 DEF AllDisabledOK
  <2> QED
    BY <1>1, <1>2, <2>1, <2>2 DEF EffectsOK, Alive
<1>3. ASSUME rpc = "clear", rpc' = "clear", UNCHANGED destroyed,
             mpc = "idle" => mpc' = "idle"
      PROVE  ReleasedOK'
  <2>1. CASE mpc \in RemovingCancelled /\ inReload /\ ~RcPurge
    <3>1. mpc' \in RemovingCancelled /\ inReload'
      BY <1>1, <2>1 DEF EffectsOK
    <3> QED
      BY <1>3, <3>1 DEF ReleasedOK
  <2>2. CASE mpc \in RemovingCancelled /\ inReload /\ RcPurge
    <3>1. mpc' = "idle"
      BY <2>2 DEF RcPurge
    <3>2. ASSUME NEW t \in Task \ Apart', owner'[t] \in Plugin PROVE ~(\E k \in Tick : queue'[k][t] > 0)
      <4>1. ~cancelled[t] => ~InQueue(t)
        BY <1>2, <1>3, <3>2 DEF Alive, Live, ToRun
      <4>2. \A k \in Tick : queue'[k][t] = IF cancelled[t] THEN 0 ELSE queue[k][t]
        BY <2>2 DEF RcPurge, Purge
      <4> QED
        BY <4>1, <4>2 DEF InQueue
    <3> QED
      BY <1>3, <3>1, <3>2 DEF ReleasedOK, InQueue
  <2>3. CASE mpc = "idle" /\ \A t \in Task \ Apart : owner[t] \in Plugin => ~InQueue(t)
    <3>1. \A t \in Task \ Apart' : owner'[t] \in Plugin => ~InQueue(t)'
      BY <1>2, <1>3, <2>3
    <3> QED
      BY <1>3, <2>3, <3>1 DEF ReleasedOK
  <2> QED
    BY <1>3, <2>1, <2>2, <2>3 DEF ReleasedOK
<1>4. ASSUME rpc' = "done", rpc = "done", UNCHANGED destroyed PROVE ReleasedOK'
  <2>1. \A t \in Task \ Apart' : owner'[t] \in Plugin => ~InQueue(t)' /\ ~Executing(t)'
    BY <1>2, <1>4 DEF ReleasedOK
  <2> QED
    BY <1>4, <2>1 DEF ReleasedOK
<1>5. ASSUME rpc' \notin {"clear", "done"}, rpc # "done", UNCHANGED destroyed PROVE ReleasedOK'
  BY <1>5 DEF ReleasedOK
<1>6. CASE UNCHANGED <<rpc, destroyed>> /\ (mpc = "idle" /\ rpc = "clear" => mpc' = "idle")
  BY <1>3, <1>4, <1>5, <1>6 DEF ReleasedOK
<1>7. CASE SchedulerStep
  <2>1. mpc = "idle" /\ rpc = "clear" => mpc' = "idle"
    BY <1>7, IdleStays DEF InReload
  <2> QED
    BY <1>6, <1>7, <2>1 DEF SchedulerStep
<1>8. CASE ReloadBegin \/ ReloadDisable \/ ReloadDisabled \/ PollBegin \/ (\E t \in Async : PollTask(t)) \/ PollEnd \/ PollTimeout
  <2>1. UNCHANGED destroyed /\ rpc' \notin {"clear", "done"} /\ rpc # "done"
    BY <1>8 DEF ReloadBegin, ReloadDisable, ReloadDisabled, PollBegin, PollTask, PollEnd, PollTimeout, reloadVars
  <2> QED
    BY <1>5, <2>1
<1>9. CASE Cleanup
  <2>1. rpc = "cleanup" /\ rpc' = "clear" /\ UNCHANGED destroyed /\ mpc' = "rcDrain" /\ inReload'
    BY <1>9 DEF Cleanup, ReloadCleanup
  <2> QED
    BY <2>1 DEF ReleasedOK, RemovingCancelled
<1>10. CASE ClearPlugins
  <2>1. rpc = "clear" /\ mpc = "idle" /\ mpc' = "idle" /\ rpc' = "done" /\ destroyed' = Plugin
    BY <1>10 DEF ClearPlugins, vars, mainVars
  <2>2. \A t \in Task \ Apart' : owner'[t] \in Plugin => ~InQueue(t)'
    BY <1>2, <2>1 DEF ReleasedOK, RemovingCancelled
  <2>3. \A t \in Task : ~Executing(t)'
    BY <2>1 DEF Executing
  <2> QED
    BY <2>1, <2>2, <2>3 DEF ReleasedOK
<1>11. UNCHANGED allVars => UNCHANGED <<rpc, destroyed>> /\ mpc' = mpc
  BY DEF allVars, reloadVars, vars, mainVars
<1> QED
  BY <1>6, <1>7, <1>8, <1>9, <1>10, <1>11 DEF ReloadNext

\* Reload's invariants together, on top of the scheduler's.
ReloadInv == SchedInv /\ SettledOK /\ AllDisabledOK /\ PolledOK /\ ReleasedOK

LEMMA ReloadInvAlways == ReloadSpec => []ReloadInv
<1>1. ReloadInit => ReloadInv
  <2> SUFFICES ASSUME ReloadInit PROVE ReloadInv
    OBVIOUS
  <2>1. Init /\ rpc = "none" /\ destroyed = {}
    BY DEF ReloadInit
  <2>2. SchedInv
    BY <2>1, TypeInvInit, TaskInvInit DEF SchedInv
  <2>3. \A p \in Plugin : enabled[p]
    BY <2>1 DEF Init
  <2> QED
    BY <2>1, <2>2, <2>3 DEF ReloadInv, SettledOK, AllDisabledOK, PolledOK, ReleasedOK
<1>2. ReloadInv /\ [ReloadNext]_allVars => ReloadInv'
  <2>1. SchedInv /\ [Next]_vars => SchedInv'
    BY TypeInvNext, EntryInvNext, RunInvNext, TaskInvNext DEF SchedInv
  <2> QED
    BY <2>1, ReloadStep, SettledNext, AllDisabledNext, PolledNext, ReleasedNext DEF ReloadInv
<1> QED
  BY <1>1, <1>2, PTL DEF ReloadSpec

\* No code of a destroyed plugin runs: when clearPlugins has destroyed the plugins and
\* reload had not given up waiting, no task of theirs is or ever again gets inside its
\* body, on the main thread or on a worker, however many workers and callers there are
\* and however their steps fall between reload's.
THEOREM ReloadNoUseAfterDestroy == ReloadSpec => []NoUseAfterDestroy
<1>1. ReloadInv => NoUseAfterDestroy
  <2> SUFFICES ASSUME ReloadInv, ~timedOut, NEW t \in Task \ Apart, owner[t] \in destroyed
               PROVE  workers[t] = {} /\ ~(mpc = "body" /\ mtask = t)
    BY DEF NoUseAfterDestroy, Apart
  <2>1. rpc = "done" /\ owner[t] \in Plugin
    BY DEF ReloadInv, ReleasedOK
  <2>2. ~Executing(t)
    BY <2>1 DEF ReloadInv, ReleasedOK
  <2>3. workers[t] = {}
    <3>1. CASE t \in Async
      BY <2>1, <3>1 DEF ReloadInv, PolledOK, Busy
    <3>2. CASE t \notin Async
      <4>1. \A w \in Worker : w \in workers[t] => wtask[w] = t /\ wtask[w] \in Async \cup {NoTask}
        BY DEF ReloadInv, SchedInv, TaskInv, WorkersOK, BodiesOK
      <4>2. workers[t] \subseteq Worker
        BY DEF ReloadInv, SchedInv, TypeInv, TypeOK, TaskTypeOK
      <4> QED
        BY <3>2, <4>1, <4>2, SchedulerAssumption
    <3> QED
      BY <3>1, <3>2
  <2> QED
    BY <2>2, <2>3 DEF Executing
<1> QED
  BY <1>1, ReloadInvAlways, PTL

\* removeCancelledTasks releases the callbacks in time: when the plugins are destroyed no
\* bucket of queue_ holds a task of theirs, and none gets one again.
THEOREM ReloadReleasesCallbacks == ReloadSpec => []CallbacksReleased
<1>1. ReloadInv => CallbacksReleased
  BY DEF ReloadInv, ReleasedOK, CallbacksReleased, Apart
<1> QED
  BY <1>1, ReloadInvAlways, PTL

-----------------------------------------------------------------------------
(***************************************************************************)
(* The heartbeat's clock.                                                  *)
(***************************************************************************)
\* The ticks of the explored session, and the delays and periods counted from them, stay
\* below 2^64: next_run_ = current_tick_ + delay does not wrap.
NoWrap == \A d \in Delays \cup Periods : MaxTick + d < TickMod

\* A tick below the width is left alone by the arithmetic of std::uint64_t, and so is one
\* the subtraction of base_tick_ has taken around once.
LEMMA TickModSmall == \A n \in Nat : n < TickMod => n % TickMod = n
  BY SchedulerAssumption, SMT

LEMMA TickModOnce == \A n \in Nat : n < TickMod => (n + TickMod) % TickMod = n
  BY SchedulerAssumption, SMT

\* Between two heartbeats, reload's cleanup included.
Between == mpc = "idle" \/ (mpc \in RemovingCancelled /\ inReload)

\* current_tick_ counts the heartbeats of the session, whatever tick the level began at:
\* base_tick_ is anchored once and the level advances by one tick per heartbeat.
ClockOK ==
    /\ curTick = beats /\ beats <= MaxTick
    /\ inReload => mpc \in RemovingCancelled
    /\ baseTick = {} => beats = 0 /\ Between
    /\ \A b \in baseTick :
          /\ baseTick = {b}
          /\ Between => levelTick = b + beats
          /\ ~Between => levelTick + 1 = b + beats

LEMMA ClockNext == TypeInv /\ ClockOK /\ [Next]_vars => ClockOK'
<1> SUFFICES ASSUME TypeInv, ClockOK, [Next]_vars PROVE ClockOK'
  OBVIOUS
<1>t. /\ levelTick \in Nat /\ baseTick \in SUBSET Nat /\ beats \in Nat /\ curTick \in Tick
      /\ MaxTick \in Nat /\ TickMod \in Nat /\ MaxTick < TickMod
  BY SchedulerAssumption DEF TypeInv, TypeOK, HistTypeOK, SchedTypeOK
<1>f. ASSUME UNCHANGED <<curTick, beats, baseTick, levelTick, mpc, inReload>> PROVE ClockOK'
  BY <1>f DEF ClockOK, Between
<1>g. ASSUME UNCHANGED <<curTick, beats, baseTick, levelTick>>, inReload' => mpc' \in RemovingCancelled,
             Between' => Between, Between => Between'
      PROVE  ClockOK'
  BY <1>g DEF ClockOK
<1>1. ASSUME NEW th \in Thread, NEW t \in Task, NEW p \in Plugin, NEW d \in Delays, NEW n \in Periods, Validate(th, t, p, d, n) PROVE ClockOK'
  BY <1>1, <1>f DEF Validate, vars, schedVars, taskVars, mainVars, workVars, callVars, histVars
<1>2. ASSUME NEW th \in Thread, NEW t \in Task, RunInternalTask(th, t) PROVE ClockOK'
  BY <1>2, <1>f DEF RunInternalTask, vars, schedVars, taskVars, mainVars, workVars, callVars, histVars
<1>3. ASSUME NEW th \in Thread, NEW i \in Id, Construct(th, i) PROVE ClockOK'
  BY <1>3, <1>f DEF Construct, vars, schedVars, taskVars, mainVars, workVars, callVars, histVars
<1>4. ASSUME NEW th \in Thread, Insert(th) PROVE ClockOK'
  BY <1>4, <1>f DEF Insert, vars, schedVars, taskVars, mainVars, workVars, callVars, histVars
<1>5. ASSUME NEW th \in Thread, Enqueue(th) PROVE ClockOK'
  BY <1>5, <1>f DEF Enqueue, vars, schedVars, taskVars, mainVars, workVars, callVars, histVars
<1>6. ASSUME NEW th \in Thread, NEW i \in Id, CancelTask(th, i) PROVE ClockOK'
  BY <1>6, <1>f DEF CancelTask, StartCancel, vars, schedVars, taskVars, mainVars, workVars, callVars, histVars
<1>7. ASSUME NEW th \in Thread, NEW p \in Plugin, CancelTasks(th, p) PROVE ClockOK'
  BY <1>7, <1>f DEF CancelTasks, StartCancel, vars, schedVars, taskVars, mainVars, workVars, callVars, histVars
<1>8. ASSUME NEW th \in Thread, NEW t \in Task, DoCancel(th, t) PROVE ClockOK'
  BY <1>8, <1>f DEF DoCancel, AfterCancelling, vars, schedVars, taskVars, mainVars, workVars, callVars, histVars
<1>9. ASSUME NEW th \in Thread, CheckIdle(th) PROVE ClockOK'
  BY <1>9, <1>f DEF CheckIdle, AfterCancelling, vars, schedVars, taskVars, mainVars, workVars, callVars, histVars
<1>10. ASSUME NEW th \in Thread, RemoveIdle(th) PROVE ClockOK'
  BY <1>10, <1>f DEF RemoveIdle, AfterCancelling, vars, schedVars, taskVars, mainVars, workVars, callVars, histVars
<1>11. ASSUME NEW th \in Thread, SetFlag(th) PROVE ClockOK'
  BY <1>11, <1>f DEF SetFlag, vars, schedVars, taskVars, mainVars, workVars, callVars, histVars
<1>12. ASSUME NEW p \in Plugin, DisablePlugin(p) PROVE ClockOK'
  BY <1>12, <1>f DEF DisablePlugin, vars, schedVars, taskVars, mainVars, workVars, callVars, histVars
<1>13. CASE CancelDisabled
  BY <1>13, <1>f DEF CancelDisabled, StartCancel, vars, schedVars, taskVars, mainVars, workVars, callVars, histVars
<1>14. CASE ReloadCleanup
  <2>1. UNCHANGED <<curTick, beats, baseTick, levelTick>>
    BY <1>14 DEF ReloadCleanup, vars, schedVars, taskVars, mainVars, workVars, callVars, histVars
  <2>2. /\ inReload' => mpc' \in RemovingCancelled
        /\ Between' => Between
        /\ Between => Between'
    BY <1>14 DEF ClockOK, Between, RemovingCancelled, ReloadCleanup, vars, schedVars, taskVars, mainVars, workVars, callVars, histVars
  <2> QED
    BY <2>1, <2>2, <1>g
<1>15. CASE HeartbeatBegin
  <2>1. /\ mpc = "idle" /\ mpc' = "flag" /\ baseTick' = {Base} /\ curTick' = SessionTick
        /\ beats' = beats + 1 /\ beats < MaxTick /\ UNCHANGED <<levelTick, inReload>>
    BY <1>15 DEF HeartbeatBegin, mainVars
  <2>2. Between /\ ~Between' /\ ~inReload'
    BY <2>1 DEF Between, ClockOK, RemovingCancelled
  <2>3. Base \in Nat /\ levelTick = Base + beats
    <3>1. CASE baseTick = {}
      BY <1>t, <2>2, <3>1 DEF ClockOK, Base
    <3>2. CASE baseTick # {}
      <4>1. PICK b \in baseTick : TRUE
        BY <3>2
      <4>2. baseTick = {b} /\ levelTick = b + beats /\ b \in Nat
        BY <1>t, <2>2, <4>1 DEF ClockOK
      <4>3. Base = b
        BY <3>2, <4>2 DEF Base
      <4> QED
        BY <4>2, <4>3
    <3> QED
      BY <3>1, <3>2
  <2>4. SessionTick = beats + 1
    <3>1. (levelTick + TickMod) - Base + 1 = (beats + 1) + TickMod
      BY ONLY <1>t, <2>3
    <3>2. beats + 1 \in Nat /\ beats + 1 < TickMod
      BY ONLY <1>t, <2>1
    <3> QED
      BY <3>1, <3>2, TickModOnce DEF SessionTick
  <2>5. levelTick + 1 = Base + (beats + 1) /\ beats + 1 <= MaxTick
    BY ONLY <1>t, <2>1, <2>3
  <2> QED
    BY <2>1, <2>2, <2>4, <2>5 DEF ClockOK
<1>16. CASE ExchangeFlag
  <2>1. UNCHANGED <<curTick, beats, baseTick, levelTick>>
    BY <1>16 DEF ExchangeFlag, vars, schedVars, taskVars, mainVars, workVars, callVars, histVars
  <2>2. /\ inReload' => mpc' \in RemovingCancelled
        /\ Between' => Between
        /\ Between => Between'
    BY <1>16 DEF ClockOK, Between, RemovingCancelled, ExchangeFlag, vars, schedVars, taskVars, mainVars, workVars, callVars, histVars
  <2> QED
    BY <2>1, <2>2, <1>g
<1>17. ASSUME NEW t \in Task, RcDrain(t) PROVE ClockOK'
  BY <1>17, <1>f DEF RcDrain, vars, schedVars, taskVars, mainVars, workVars, callVars, histVars
<1>18. ASSUME NEW t \in Task, RcRefill(t) PROVE ClockOK'
  BY <1>18, <1>f DEF RcRefill, vars, schedVars, taskVars, mainVars, workVars, callVars, histVars
<1>19. ASSUME NEW t \in Task, Drain(t) PROVE ClockOK'
  BY <1>19, <1>f DEF Drain, vars, schedVars, taskVars, mainVars, workVars, callVars, histVars
<1>20. CASE RcDrained
  <2>1. UNCHANGED <<curTick, beats, baseTick, levelTick>>
    BY <1>20 DEF RcDrained, vars, schedVars, taskVars, mainVars, workVars, callVars, histVars
  <2>2. /\ inReload' => mpc' \in RemovingCancelled
        /\ Between' => Between
        /\ Between => Between'
    BY <1>20 DEF ClockOK, Between, RemovingCancelled, RcDrained, vars, schedVars, taskVars, mainVars, workVars, callVars, histVars
  <2> QED
    BY <2>1, <2>2, <1>g
<1>21. CASE RcRefilled
  <2>1. UNCHANGED <<curTick, beats, baseTick, levelTick>>
    BY <1>21 DEF RcRefilled, vars, schedVars, taskVars, mainVars, workVars, callVars, histVars
  <2>2. /\ inReload' => mpc' \in RemovingCancelled
        /\ Between' => Between
        /\ Between => Between'
    BY <1>21 DEF ClockOK, Between, RemovingCancelled, RcRefilled, vars, schedVars, taskVars, mainVars, workVars, callVars, histVars
  <2> QED
    BY <2>1, <2>2, <1>g
<1>22. CASE RcPurge
  <2>1. UNCHANGED <<curTick, beats, baseTick, levelTick>>
    BY <1>22 DEF RcPurge, vars, schedVars, taskVars, mainVars, workVars, callVars, histVars
  <2>2. /\ inReload' => mpc' \in RemovingCancelled
        /\ Between' => Between
        /\ Between => Between'
    BY <1>22 DEF ClockOK, Between, RemovingCancelled, RcPurge, vars, schedVars, taskVars, mainVars, workVars, callVars, histVars
  <2> QED
    BY <2>1, <2>2, <1>g
<1>23. CASE Drained
  <2>1. UNCHANGED <<curTick, beats, baseTick, levelTick>>
    BY <1>23 DEF Drained, vars, schedVars, taskVars, mainVars, workVars, callVars, histVars
  <2>2. /\ inReload' => mpc' \in RemovingCancelled
        /\ Between' => Between
        /\ Between => Between'
    BY <1>23 DEF ClockOK, Between, RemovingCancelled, Drained, vars, schedVars, taskVars, mainVars, workVars, callVars, histVars
  <2> QED
    BY <2>1, <2>2, <1>g
<1>24. ASSUME NEW k \in Tick, NEW t \in Task, Scan(k, t) PROVE ClockOK'
  <2>1. UNCHANGED <<curTick, beats, baseTick, levelTick>>
    BY <1>24 DEF Scan, vars, schedVars, taskVars, mainVars, workVars, callVars, histVars
  <2>2. /\ inReload' => mpc' \in RemovingCancelled
        /\ Between' => Between
        /\ Between => Between'
    BY <1>24 DEF ClockOK, Between, RemovingCancelled, Scan, vars, schedVars, taskVars, mainVars, workVars, callVars, histVars
  <2> QED
    BY <2>1, <2>2, <1>g
<1>25. CASE StartTask
  <2>1. UNCHANGED <<curTick, beats, baseTick, levelTick>>
    BY <1>25 DEF StartTask, vars, schedVars, taskVars, mainVars, workVars, callVars, histVars
  <2>2. /\ inReload' => mpc' \in RemovingCancelled
        /\ Between' => Between
        /\ Between => Between'
    BY <1>25 DEF ClockOK, Between, RemovingCancelled, StartTask, vars, schedVars, taskVars, mainVars, workVars, callVars, histVars
  <2> QED
    BY <2>1, <2>2, <1>g
<1>26. CASE BodyEnd
  <2>1. UNCHANGED <<curTick, beats, baseTick, levelTick>>
    BY <1>26 DEF BodyEnd, vars, schedVars, taskVars, mainVars, workVars, callVars, histVars
  <2>2. /\ inReload' => mpc' \in RemovingCancelled
        /\ Between' => Between
        /\ Between => Between'
    BY <1>26 DEF ClockOK, Between, RemovingCancelled, BodyEnd, vars, schedVars, taskVars, mainVars, workVars, callVars, histVars
  <2> QED
    BY <2>1, <2>2, <1>g
<1>27. CASE Reschedule
  <2>1. UNCHANGED <<curTick, beats, baseTick, levelTick>>
    BY <1>27 DEF Reschedule, vars, schedVars, taskVars, mainVars, workVars, callVars, histVars
  <2>2. /\ inReload' => mpc' \in RemovingCancelled
        /\ Between' => Between
        /\ Between => Between'
    BY <1>27 DEF ClockOK, Between, RemovingCancelled, Reschedule, vars, schedVars, taskVars, mainVars, workVars, callVars, histVars
  <2> QED
    BY <2>1, <2>2, <1>g
<1>28. CASE Finish
  <2>1. UNCHANGED <<curTick, beats, baseTick, levelTick>>
    BY <1>28 DEF Finish, vars, schedVars, taskVars, mainVars, workVars, callVars, histVars
  <2>2. /\ inReload' => mpc' \in RemovingCancelled
        /\ Between' => Between
        /\ Between => Between'
    BY <1>28 DEF ClockOK, Between, RemovingCancelled, Finish, vars, schedVars, taskVars, mainVars, workVars, callVars, histVars
  <2> QED
    BY <2>1, <2>2, <1>g
<1>29. CASE MainRemove
  <2>1. UNCHANGED <<curTick, beats, baseTick, levelTick>>
    BY <1>29 DEF MainRemove, vars, schedVars, taskVars, mainVars, workVars, callVars, histVars
  <2>2. /\ inReload' => mpc' \in RemovingCancelled
        /\ Between' => Between
        /\ Between => Between'
    BY <1>29 DEF ClockOK, Between, RemovingCancelled, MainRemove, vars, schedVars, taskVars, mainVars, workVars, callVars, histVars
  <2> QED
    BY <2>1, <2>2, <1>g
<1>30. CASE HeartbeatEnd
  <2>1. /\ mpc = "scan" /\ mpc' = "idle" /\ levelTick' = levelTick + 1
        /\ UNCHANGED <<curTick, beats, baseTick, inReload>>
    BY <1>30 DEF HeartbeatEnd, schedVars, histVars
  <2>2. ~Between /\ Between' /\ ~inReload'
    BY <2>1 DEF Between, ClockOK, RemovingCancelled
  <2> QED
    BY <1>t, <2>1, <2>2 DEF ClockOK
<1>31. ASSUME NEW w \in Worker, NEW t \in Task, TakeJob(w, t) PROVE ClockOK'
  BY <1>31, <1>f DEF TakeJob, vars, schedVars, taskVars, mainVars, workVars, callVars, histVars
<1>32. ASSUME NEW w \in Worker, WorkerStart(w) PROVE ClockOK'
  BY <1>32, <1>f DEF WorkerStart, vars, schedVars, taskVars, mainVars, workVars, callVars, histVars
<1>33. ASSUME NEW w \in Worker, WorkerFinish(w) PROVE ClockOK'
  BY <1>33, <1>f DEF WorkerFinish, vars, schedVars, taskVars, mainVars, workVars, callVars, histVars
<1>34. ASSUME NEW w \in Worker, WorkerRemove(w) PROVE ClockOK'
  BY <1>34, <1>f DEF WorkerRemove, vars, schedVars, taskVars, mainVars, workVars, callVars, histVars
<1>35. CASE UNCHANGED vars
  BY <1>35, <1>f DEF vars, schedVars, taskVars, mainVars, workVars, callVars, histVars
<1> QED
  BY <1>1, <1>2, <1>3, <1>4, <1>5, <1>6, <1>7, <1>8, <1>9, <1>10, <1>11, <1>12, <1>13, <1>14, <1>15, <1>16, <1>17, <1>18, <1>19, <1>20, <1>21, <1>22, <1>23, <1>24, <1>25, <1>26, <1>27, <1>28, <1>29, <1>30, <1>31, <1>32, <1>33, <1>34, <1>35
     DEF Next, Register, Cancel, Disable, Heartbeat, Work

\* A task keeps the delay and the period it was asked for, and next_run_ is the tick of
\* the heartbeat it is due on.
AskedOK ==
    /\ \A t \in Task : delay[t] \in Delays \cup {0} /\ period[t] \in Periods \cup {0}
    /\ \A t \in Task : id[t] # 0 => nextRun[t] = due[t]

LEMMA AskedNext == NoWrap /\ TypeInv /\ EntryInv /\ ClockOK /\ AskedOK /\ [Next]_vars => AskedOK'
<1> SUFFICES ASSUME NoWrap, TypeInv, EntryInv, ClockOK, AskedOK, [Next]_vars PROVE AskedOK'
  OBVIOUS
<1>t. /\ delay \in [Task -> Nat] /\ period \in [Task -> Nat] /\ id \in [Task -> Id \cup {0}]
      /\ nextRun \in [Task -> Tick] /\ due \in [Task -> Nat] /\ beats \in Nat
      /\ MaxTick \in Nat /\ TickMod \in Nat /\ MaxTick < TickMod
      /\ Delays \subseteq Nat /\ Periods \subseteq Nat
  BY SchedulerAssumption DEF TypeInv, TypeOK, HistTypeOK, TaskTypeOK
<1>n. \A d \in Delays \cup Periods \cup {0} : (curTick + d) % TickMod = beats + d
  <2> SUFFICES ASSUME NEW d \in Delays \cup Periods \cup {0} PROVE (curTick + d) % TickMod = beats + d
    OBVIOUS
  <2>1. beats + d \in Nat /\ beats + d < TickMod
    <3>1. d \in Nat /\ MaxTick + d < TickMod
      BY <1>t DEF NoWrap
    <3>2. beats <= MaxTick
      BY DEF ClockOK
    <3> QED
      BY ONLY <1>t, <3>1, <3>2
  <2> QED
    BY <2>1, TickModSmall DEF ClockOK
<1>f. ASSUME UNCHANGED <<delay, period, id, nextRun, due>> PROVE AskedOK'
  BY <1>f DEF AskedOK
<1>1. ASSUME NEW th \in Thread, NEW t \in Task, NEW p \in Plugin, NEW d \in Delays, NEW n \in Periods, Validate(th, t, p, d, n) PROVE AskedOK'
  <2>1. /\ id' = id /\ UNCHANGED <<nextRun, due>>
        /\ delay' = [delay EXCEPT ![t] = d] /\ period' = [period EXCEPT ![t] = n]
    BY <1>1 DEF Validate, histVars
  <2>2. \A u \in Task : delay'[u] \in Delays \cup {0} /\ period'[u] \in Periods \cup {0}
    BY <1>t, <2>1 DEF AskedOK
  <2> QED
    BY <2>1, <2>2 DEF AskedOK
<1>2. ASSUME NEW th \in Thread, NEW t \in Task, RunInternalTask(th, t) PROVE AskedOK'
  BY <1>2, <1>f DEF RunInternalTask, vars, schedVars, taskVars, mainVars, workVars, callVars, histVars
<1>3. ASSUME NEW th \in Thread, NEW i \in Id, Construct(th, i) PROVE AskedOK'
  <2> DEFINE t == ctask[th]
  <2>1. /\ t \in Task /\ UNCHANGED <<delay, period>>
        /\ id' = [id EXCEPT ![t] = i]
        /\ nextRun' = [nextRun EXCEPT ![t] = (curTick + delay[t]) % TickMod]
        /\ due' = [due EXCEPT ![t] = beats + delay[t]]
    BY <1>3 DEF Construct, TypeInv, ControlOK, Registering
  <2>2. (curTick + delay[t]) % TickMod = beats + delay[t]
    BY <1>n, <2>1 DEF AskedOK
  <2> HIDE DEF t
  <2>3. \A u \in Task : id'[u] # 0 => nextRun'[u] = due'[u]
    <3>1. \A u \in Task : u # t => id'[u] = id[u] /\ nextRun'[u] = nextRun[u] /\ due'[u] = due[u]
      BY <1>t, <2>1
    <3>2. nextRun'[t] = due'[t]
      BY <1>t, <2>1, <2>2
    <3> QED
      BY <3>1, <3>2 DEF AskedOK
  <2> QED
    BY <2>1, <2>3 DEF AskedOK
<1>4. ASSUME NEW th \in Thread, Insert(th) PROVE AskedOK'
  BY <1>4, <1>f DEF Insert, vars, schedVars, taskVars, mainVars, workVars, callVars, histVars
<1>5. ASSUME NEW th \in Thread, Enqueue(th) PROVE AskedOK'
  BY <1>5, <1>f DEF Enqueue, vars, schedVars, taskVars, mainVars, workVars, callVars, histVars
<1>6. ASSUME NEW th \in Thread, NEW i \in Id, CancelTask(th, i) PROVE AskedOK'
  BY <1>6, <1>f DEF CancelTask, StartCancel, vars, schedVars, taskVars, mainVars, workVars, callVars, histVars
<1>7. ASSUME NEW th \in Thread, NEW p \in Plugin, CancelTasks(th, p) PROVE AskedOK'
  BY <1>7, <1>f DEF CancelTasks, StartCancel, vars, schedVars, taskVars, mainVars, workVars, callVars, histVars
<1>8. ASSUME NEW th \in Thread, NEW t \in Task, DoCancel(th, t) PROVE AskedOK'
  BY <1>8, <1>f DEF DoCancel, AfterCancelling, vars, schedVars, taskVars, mainVars, workVars, callVars, histVars
<1>9. ASSUME NEW th \in Thread, CheckIdle(th) PROVE AskedOK'
  BY <1>9, <1>f DEF CheckIdle, AfterCancelling, vars, schedVars, taskVars, mainVars, workVars, callVars, histVars
<1>10. ASSUME NEW th \in Thread, RemoveIdle(th) PROVE AskedOK'
  BY <1>10, <1>f DEF RemoveIdle, AfterCancelling, vars, schedVars, taskVars, mainVars, workVars, callVars, histVars
<1>11. ASSUME NEW th \in Thread, SetFlag(th) PROVE AskedOK'
  BY <1>11, <1>f DEF SetFlag, vars, schedVars, taskVars, mainVars, workVars, callVars, histVars
<1>12. ASSUME NEW p \in Plugin, DisablePlugin(p) PROVE AskedOK'
  BY <1>12, <1>f DEF DisablePlugin, vars, schedVars, taskVars, mainVars, workVars, callVars, histVars
<1>13. CASE CancelDisabled
  BY <1>13, <1>f DEF CancelDisabled, StartCancel, vars, schedVars, taskVars, mainVars, workVars, callVars, histVars
<1>14. CASE ReloadCleanup
  BY <1>14, <1>f DEF ReloadCleanup, vars, schedVars, taskVars, mainVars, workVars, callVars, histVars
<1>15. CASE HeartbeatBegin
  BY <1>15, <1>f DEF HeartbeatBegin, vars, schedVars, taskVars, mainVars, workVars, callVars, histVars
<1>16. CASE ExchangeFlag
  BY <1>16, <1>f DEF ExchangeFlag, vars, schedVars, taskVars, mainVars, workVars, callVars, histVars
<1>17. ASSUME NEW t \in Task, RcDrain(t) PROVE AskedOK'
  BY <1>17, <1>f DEF RcDrain, vars, schedVars, taskVars, mainVars, workVars, callVars, histVars
<1>18. ASSUME NEW t \in Task, RcRefill(t) PROVE AskedOK'
  BY <1>18, <1>f DEF RcRefill, vars, schedVars, taskVars, mainVars, workVars, callVars, histVars
<1>19. ASSUME NEW t \in Task, Drain(t) PROVE AskedOK'
  BY <1>19, <1>f DEF Drain, vars, schedVars, taskVars, mainVars, workVars, callVars, histVars
<1>20. CASE RcDrained
  BY <1>20, <1>f DEF RcDrained, vars, schedVars, taskVars, mainVars, workVars, callVars, histVars
<1>21. CASE RcRefilled
  BY <1>21, <1>f DEF RcRefilled, vars, schedVars, taskVars, mainVars, workVars, callVars, histVars
<1>22. CASE RcPurge
  BY <1>22, <1>f DEF RcPurge, vars, schedVars, taskVars, mainVars, workVars, callVars, histVars
<1>23. CASE Drained
  BY <1>23, <1>f DEF Drained, vars, schedVars, taskVars, mainVars, workVars, callVars, histVars
<1>24. ASSUME NEW k \in Tick, NEW t \in Task, Scan(k, t) PROVE AskedOK'
  BY <1>24, <1>f DEF Scan, vars, schedVars, taskVars, mainVars, workVars, callVars, histVars
<1>25. CASE StartTask
  BY <1>25, <1>f DEF StartTask, vars, schedVars, taskVars, mainVars, workVars, callVars, histVars
<1>26. CASE BodyEnd
  BY <1>26, <1>f DEF BodyEnd, vars, schedVars, taskVars, mainVars, workVars, callVars, histVars
<1>27. CASE Reschedule
  <2>1. /\ mtask \in Task /\ UNCHANGED <<delay, period, id>>
        /\ nextRun' = [nextRun EXCEPT ![mtask] = (curTick + period[mtask]) % TickMod]
        /\ due' = [due EXCEPT ![mtask] = beats + period[mtask]]
    BY <1>27 DEF Reschedule, TypeInv, ControlOK, Running
  <2>2. (curTick + period[mtask]) % TickMod = beats + period[mtask]
    BY <1>n, <2>1 DEF AskedOK
  <2>3. \A u \in Task : id'[u] # 0 => nextRun'[u] = due'[u]
    <3>1. \A u \in Task : u # mtask => nextRun'[u] = nextRun[u] /\ due'[u] = due[u]
      BY <1>t, <2>1
    <3>2. nextRun'[mtask] = due'[mtask]
      BY <1>t, <2>1, <2>2
    <3> QED
      BY <2>1, <3>1, <3>2 DEF AskedOK
  <2> QED
    BY <2>1, <2>3 DEF AskedOK
<1>28. CASE Finish
  BY <1>28, <1>f DEF Finish, vars, schedVars, taskVars, mainVars, workVars, callVars, histVars
<1>29. CASE MainRemove
  BY <1>29, <1>f DEF MainRemove, vars, schedVars, taskVars, mainVars, workVars, callVars, histVars
<1>30. CASE HeartbeatEnd
  BY <1>30, <1>f DEF HeartbeatEnd, vars, schedVars, taskVars, mainVars, workVars, callVars, histVars
<1>31. ASSUME NEW w \in Worker, NEW t \in Task, TakeJob(w, t) PROVE AskedOK'
  BY <1>31, <1>f DEF TakeJob, vars, schedVars, taskVars, mainVars, workVars, callVars, histVars
<1>32. ASSUME NEW w \in Worker, WorkerStart(w) PROVE AskedOK'
  BY <1>32, <1>f DEF WorkerStart, vars, schedVars, taskVars, mainVars, workVars, callVars, histVars
<1>33. ASSUME NEW w \in Worker, WorkerFinish(w) PROVE AskedOK'
  BY <1>33, <1>f DEF WorkerFinish, vars, schedVars, taskVars, mainVars, workVars, callVars, histVars
<1>34. ASSUME NEW w \in Worker, WorkerRemove(w) PROVE AskedOK'
  BY <1>34, <1>f DEF WorkerRemove, vars, schedVars, taskVars, mainVars, workVars, callVars, histVars
<1>35. CASE UNCHANGED vars
  BY <1>35, <1>f DEF vars, schedVars, taskVars, mainVars, workVars, callVars, histVars
<1> QED
  BY <1>1, <1>2, <1>3, <1>4, <1>5, <1>6, <1>7, <1>8, <1>9, <1>10, <1>11, <1>12, <1>13, <1>14, <1>15, <1>16, <1>17, <1>18, <1>19, <1>20, <1>21, <1>22, <1>23, <1>24, <1>25, <1>26, <1>27, <1>28, <1>29, <1>30, <1>31, <1>32, <1>33, <1>34, <1>35
     DEF Next, Register, Cancel, Disable, Heartbeat, Work

\* A task in pending_ was put there during this heartbeat or since, or during the one
\* before and this heartbeat has not drained pending_ yet.
WaitingOK(t) ==
    /\ enqBeat[t] <= beats
    /\ kept[t] > 0 => mpc \in {"rcDrain", "rcRefill"}
    /\ pending[t] > 0 \/ kept[t] > 0 =>
          \/ enqBeat[t] = beats
          \/ enqBeat[t] + 1 = beats /\ mpc \in {"flag", "drain"} \cup RemovingCancelled /\ ~inReload

\* A task in a bucket is there for the heartbeat it is due on, or for the first one after
\* it was put into pending_ if that is later; and no bucket of an earlier heartbeat holds
\* a task: what was due has been walked.
BucketOK(t) ==
    \A k \in Tick : queue[k][t] > 0 =>
        /\ due[t] <= k
        /\ k = due[t] \/ k <= enqBeat[t] + 1
        /\ beats <= k
        /\ Between => beats < k

PlacedOK == (\A t \in Task : WaitingOK(t) /\ BucketOK(t)) /\ RunsOnItsTick

\* The places of a task's next run keep to its tick.
LEMMA PlacedNext ==
    TypeInv /\ EntryInv /\ ClockOK /\ AskedOK /\ PlacedOK /\ [Next]_vars => PlacedOK'
<1> SUFFICES ASSUME TypeInv, EntryInv, ClockOK, AskedOK, PlacedOK, [Next]_vars PROVE PlacedOK'
  OBVIOUS
<1>t. /\ due \in [Task -> Nat] /\ enqBeat \in [Task -> Nat] /\ beats \in Nat /\ curTick \in Tick
      /\ pending \in [Task -> Nat] /\ kept \in [Task -> Nat] /\ queue \in [Tick -> [Task -> Nat]]
      /\ nextRun \in [Task -> Tick] /\ id \in [Task -> Id \cup {0}]
      /\ TickMod \in Nat /\ curTick = beats
  BY SchedulerAssumption DEF TypeInv, TypeOK, HistTypeOK, TaskTypeOK, SchedTypeOK, ThreadTypeOK, ClockOK
<1>n. ASSUME NEW t \in Task, Nowhere(t)
      PROVE  /\ pending[t] = 0 /\ kept[t] = 0 /\ mtask # t
             /\ \A k \in Tick : ~(queue[k][t] > 0)
  BY <1>n DEF Nowhere
<1>f. ASSUME UNCHANGED <<pending, kept, queue, due, enqBeat, beats, mpc, mtask, inReload>> PROVE PlacedOK'
  BY <1>f DEF PlacedOK, WaitingOK, BucketOK, Between, RunsOnItsTick
\* A step that moves the main thread on and changes none of the places.
<1>g. ASSUME UNCHANGED <<pending, kept, queue, due, enqBeat, beats>>,
             Between' => Between, mpc' # "start",
             \A t \in Task : WaitingOK(t) => WaitingOK(t)'
      PROVE  PlacedOK'
  BY <1>g DEF PlacedOK, BucketOK, RunsOnItsTick
<1>1. ASSUME NEW th \in Thread, NEW t \in Task, NEW p \in Plugin, NEW d \in Delays, NEW n \in Periods, Validate(th, t, p, d, n) PROVE PlacedOK'
  BY <1>1, <1>f DEF Validate, vars, schedVars, taskVars, mainVars, workVars, callVars, histVars
<1>2. ASSUME NEW th \in Thread, NEW t \in Task, RunInternalTask(th, t) PROVE PlacedOK'
  BY <1>2, <1>f DEF RunInternalTask, vars, schedVars, taskVars, mainVars, workVars, callVars, histVars
<1>3. ASSUME NEW th \in Thread, NEW i \in Id, Construct(th, i) PROVE PlacedOK'
  <2> DEFINE t == ctask[th]
  <2>1. /\ t \in Task /\ Nowhere(t) /\ due' = [due EXCEPT ![t] = beats + delay[t]]
        /\ UNCHANGED <<pending, kept, queue, enqBeat, beats, mpc, mtask, inReload>>
    BY <1>3 DEF Construct, TypeInv, ControlOK, Registering, EntryInv, EnteringOK, mainVars
  <2> HIDE DEF t
  <2>2. /\ \A u \in Task : u # t => due'[u] = due[u]
        /\ mtask # t /\ \A k \in Tick : ~(queue[k][t] > 0)
    BY <1>t, <2>1, <1>n
  <2>3. \A u \in Task : WaitingOK(u)'
    BY <2>1 DEF PlacedOK, WaitingOK
  <2>4. \A u \in Task : BucketOK(u)'
    <3>1. \A u \in Task : u = t => BucketOK(u)'
      BY <2>1, <2>2 DEF BucketOK
    <3>2. \A u \in Task : u # t => BucketOK(u)'
      BY <2>1, <2>2 DEF PlacedOK, BucketOK, Between
    <3> QED
      BY <3>1, <3>2
  <2>5. RunsOnItsTick'
    <3>1. mpc = "start" => mtask \in Task
      BY DEF TypeInv, ControlOK, Running
    <3> QED
      BY <2>1, <2>2, <3>1 DEF PlacedOK, RunsOnItsTick
  <2> QED
    BY <2>3, <2>4, <2>5 DEF PlacedOK
<1>4. ASSUME NEW th \in Thread, Insert(th) PROVE PlacedOK'
  BY <1>4, <1>f DEF Insert, vars, schedVars, taskVars, mainVars, workVars, callVars, histVars
<1>5. ASSUME NEW th \in Thread, Enqueue(th) PROVE PlacedOK'
  <2> DEFINE t == ctask[th]
  <2>1. /\ t \in Task /\ Nowhere(t) /\ pending' = [pending EXCEPT ![t] = @ + 1]
        /\ enqBeat' = [enqBeat EXCEPT ![t] = beats]
        /\ UNCHANGED <<kept, queue, due, beats, mpc, mtask, inReload>>
    BY <1>5 DEF Enqueue, TypeInv, ControlOK, Registering, EntryInv, EnteringOK, mainVars, taskVars
  <2> HIDE DEF t
  <2>2. /\ \A u \in Task : u # t => pending'[u] = pending[u] /\ enqBeat'[u] = enqBeat[u]
        /\ enqBeat'[t] = beats /\ kept[t] = 0
        /\ mtask # t /\ \A k \in Tick : ~(queue[k][t] > 0)
    BY <1>t, <2>1, <1>n
  <2>3. \A u \in Task : WaitingOK(u)'
    <3>1. \A u \in Task : u = t => WaitingOK(u)'
      BY <1>t, <2>1, <2>2 DEF WaitingOK
    <3>2. \A u \in Task : u # t => WaitingOK(u)'
      BY <2>1, <2>2 DEF PlacedOK, WaitingOK
    <3> QED
      BY <3>1, <3>2
  <2>4. \A u \in Task : BucketOK(u)'
    <3>1. \A u \in Task : u = t => BucketOK(u)'
      BY <2>1, <2>2 DEF BucketOK
    <3>2. \A u \in Task : u # t => BucketOK(u)'
      BY <2>1, <2>2 DEF PlacedOK, BucketOK, Between
    <3> QED
      BY <3>1, <3>2
  <2>5. RunsOnItsTick'
    <3>1. mpc = "start" => mtask \in Task
      BY DEF TypeInv, ControlOK, Running
    <3> QED
      BY <2>1, <2>2, <3>1 DEF PlacedOK, RunsOnItsTick
  <2> QED
    BY <2>3, <2>4, <2>5 DEF PlacedOK
<1>6. ASSUME NEW th \in Thread, NEW i \in Id, CancelTask(th, i) PROVE PlacedOK'
  BY <1>6, <1>f DEF CancelTask, StartCancel, vars, schedVars, taskVars, mainVars, workVars, callVars, histVars
<1>7. ASSUME NEW th \in Thread, NEW p \in Plugin, CancelTasks(th, p) PROVE PlacedOK'
  BY <1>7, <1>f DEF CancelTasks, StartCancel, vars, schedVars, taskVars, mainVars, workVars, callVars, histVars
<1>8. ASSUME NEW th \in Thread, NEW t \in Task, DoCancel(th, t) PROVE PlacedOK'
  BY <1>8, <1>f DEF DoCancel, AfterCancelling, vars, schedVars, taskVars, mainVars, workVars, callVars, histVars
<1>9. ASSUME NEW th \in Thread, CheckIdle(th) PROVE PlacedOK'
  BY <1>9, <1>f DEF CheckIdle, AfterCancelling, vars, schedVars, taskVars, mainVars, workVars, callVars, histVars
<1>10. ASSUME NEW th \in Thread, RemoveIdle(th) PROVE PlacedOK'
  BY <1>10, <1>f DEF RemoveIdle, AfterCancelling, vars, schedVars, taskVars, mainVars, workVars, callVars, histVars
<1>11. ASSUME NEW th \in Thread, SetFlag(th) PROVE PlacedOK'
  BY <1>11, <1>f DEF SetFlag, vars, schedVars, taskVars, mainVars, workVars, callVars, histVars
<1>12. ASSUME NEW p \in Plugin, DisablePlugin(p) PROVE PlacedOK'
  BY <1>12, <1>f DEF DisablePlugin, vars, schedVars, taskVars, mainVars, workVars, callVars, histVars
<1>13. CASE CancelDisabled
  BY <1>13, <1>f DEF CancelDisabled, StartCancel, vars, schedVars, taskVars, mainVars, workVars, callVars, histVars
<1>14. CASE ReloadCleanup
  <2>1. UNCHANGED <<pending, kept, queue, due, enqBeat, beats>> /\ mpc' # "start"
    BY <1>14 DEF ReloadCleanup, vars, schedVars, taskVars, mainVars, workVars, callVars, histVars
  <2>2. Between' => Between
    BY <1>14 DEF Between, RemovingCancelled, ClockOK, ReloadCleanup, vars, schedVars, taskVars, mainVars, workVars, callVars, histVars
  <2>3. \A t \in Task : WaitingOK(t) => WaitingOK(t)'
    BY <1>14, <2>1 DEF WaitingOK, ClockOK, RemovingCancelled, ReloadCleanup, vars, schedVars, taskVars, mainVars, workVars, callVars, histVars
  <2> QED
    BY <2>1, <2>2, <2>3, <1>g
<1>15. CASE HeartbeatBegin
  <2>1. /\ mpc = "idle" /\ mpc' = "flag" /\ beats' = beats + 1
        /\ UNCHANGED <<pending, kept, queue, due, enqBeat, inReload>>
    BY <1>15 DEF HeartbeatBegin, mainVars
  <2>2. Between /\ ~Between' /\ ~inReload
    BY <2>1 DEF Between, ClockOK, RemovingCancelled
  <2>3. \A u \in Task : WaitingOK(u)'
    BY <1>t, <2>1, <2>2 DEF PlacedOK, WaitingOK, RemovingCancelled
  <2>4. \A u \in Task : BucketOK(u)'
    <3>1. \A k \in Tick : k \in Nat
      BY <1>t DEF Tick
    <3>2. \A u \in Task, k \in Tick : queue[k][u] > 0 =>
            due[u] <= k /\ (k = due[u] \/ k <= enqBeat[u] + 1) /\ beats + 1 <= k
      BY <1>t, <2>2, <3>1 DEF PlacedOK, BucketOK
    <3> QED
      BY <2>1, <2>2, <3>2 DEF BucketOK
  <2>5. RunsOnItsTick'
    BY <2>1 DEF RunsOnItsTick
  <2> QED
    BY <2>3, <2>4, <2>5 DEF PlacedOK
<1>16. CASE ExchangeFlag
  <2>1. UNCHANGED <<pending, kept, queue, due, enqBeat, beats>> /\ mpc' # "start"
    BY <1>16 DEF ExchangeFlag, vars, schedVars, taskVars, mainVars, workVars, callVars, histVars
  <2>2. Between' => Between
    BY <1>16 DEF Between, RemovingCancelled, ClockOK, ExchangeFlag, vars, schedVars, taskVars, mainVars, workVars, callVars, histVars
  <2>3. \A t \in Task : WaitingOK(t) => WaitingOK(t)'
    BY <1>16, <2>1 DEF WaitingOK, ClockOK, RemovingCancelled, ExchangeFlag, vars, schedVars, taskVars, mainVars, workVars, callVars, histVars
  <2> QED
    BY <2>1, <2>2, <2>3, <1>g
<1>17. ASSUME NEW t \in Task, RcDrain(t) PROVE PlacedOK'
  <2>1. /\ mpc = "rcDrain" /\ mpc' = "rcDrain"
        /\ UNCHANGED <<queue, due, enqBeat, beats, inReload>>
    BY <1>17 DEF RcDrain, mainVars, taskVars, histVars
  <2>2. \A u \in Task : pending'[u] > 0 \/ kept'[u] > 0 => pending[u] > 0 \/ kept[u] > 0
    BY <1>17, <1>t DEF RcDrain, Dequeues, Keep
  <2>3. \A u \in Task : WaitingOK(u)'
    BY <2>1, <2>2 DEF PlacedOK, WaitingOK
  <2>4. \A u \in Task : BucketOK(u)'
    BY <2>1 DEF PlacedOK, BucketOK, Between
  <2>5. RunsOnItsTick'
    BY <2>1 DEF RunsOnItsTick
  <2> QED
    BY <2>3, <2>4, <2>5 DEF PlacedOK
<1>18. ASSUME NEW t \in Task, RcRefill(t) PROVE PlacedOK'
  <2>1. /\ mpc = "rcRefill" /\ mpc' = "rcRefill"
        /\ UNCHANGED <<queue, due, enqBeat, beats, inReload>>
    BY <1>18 DEF RcRefill, mainVars, taskVars, histVars
  <2>2. \A u \in Task : pending'[u] > 0 \/ kept'[u] > 0 => pending[u] > 0 \/ kept[u] > 0
    BY <1>18, <1>t DEF RcRefill, Dequeues, Keep
  <2>3. \A u \in Task : WaitingOK(u)'
    BY <2>1, <2>2 DEF PlacedOK, WaitingOK
  <2>4. \A u \in Task : BucketOK(u)'
    BY <2>1 DEF PlacedOK, BucketOK, Between
  <2>5. RunsOnItsTick'
    BY <2>1 DEF RunsOnItsTick
  <2> QED
    BY <2>3, <2>4, <2>5 DEF PlacedOK
<1>19. ASSUME NEW t \in Task, Drain(t) PROVE PlacedOK'
  <2>1. /\ mpc = "drain" /\ mpc' = "drain" /\ pending[t] > 0
        /\ pending' = [pending EXCEPT ![t] = @ - 1]
        /\ UNCHANGED <<kept, due, enqBeat, beats, inReload>>
    BY <1>19 DEF Drain, Dequeues, mainVars, taskVars, histVars
  <2>2. \A u \in Task : WaitingOK(u)'
    <3>1. \A u \in Task : pending'[u] > 0 => pending[u] > 0
      BY <1>t, <2>1
    <3> QED
      BY <2>1, <3>1 DEF PlacedOK, WaitingOK
  <2>3. ~Between /\ ~Between'
    BY <2>1 DEF Between, RemovingCancelled
  <2>4. /\ BucketOf(t) \in Tick
        /\ BucketOf(t) \in Nat /\ due[t] <= BucketOf(t) /\ beats <= BucketOf(t)
        /\ BucketOf(t) = due[t] \/ BucketOf(t) = beats
    <3>1. nextRun[t] = due[t]
      <4>1. id[t] # 0
        BY <1>n, <2>1 DEF EntryInv, EnteringOK
      <4> QED
        BY <4>1 DEF AskedOK
    <3>2. nextRun[t] \in Nat /\ beats \in Nat /\ nextRun[t] \in Tick
      BY <1>t DEF Tick
    <3>3. CASE nextRun[t] > curTick
      BY <1>t, <3>1, <3>2, <3>3 DEF BucketOf
    <3>4. CASE ~(nextRun[t] > curTick)
      BY <1>t, <3>1, <3>2, <3>4 DEF BucketOf
    <3> QED
      BY <3>3, <3>4
  <2>5. beats <= enqBeat[t] + 1
    <3>1. enqBeat[t] = beats \/ enqBeat[t] + 1 = beats
      BY <2>1 DEF PlacedOK, WaitingOK
    <3> QED
      BY <1>t, <3>1
  <2>6. \A u \in Task, k \in Tick : queue'[k][u] > 0 => queue[k][u] > 0 \/ (u = t /\ k = BucketOf(t))
    <3>1. queue' = queue \/ queue' = [queue EXCEPT ![BucketOf(t)][t] = @ + 1]
      BY <1>19 DEF Drain
    <3> HIDE DEF BucketOf
    <3> QED
      BY <1>t, <2>4, <3>1
  <2>7. \A u \in Task : BucketOK(u)'
    <3> SUFFICES ASSUME NEW u \in Task, NEW k \in Tick, queue'[k][u] > 0
                 PROVE  due[u] <= k /\ (k = due[u] \/ k <= enqBeat[u] + 1) /\ beats <= k
      BY <2>1, <2>3 DEF BucketOK
    <3>1. CASE queue[k][u] > 0
      BY <3>1 DEF PlacedOK, BucketOK
    <3>2. CASE u = t /\ k = BucketOf(t)
      BY <2>4, <2>5, <3>2
    <3> QED
      BY <2>6, <3>1, <3>2
  <2>8. RunsOnItsTick'
    BY <2>1 DEF RunsOnItsTick
  <2> QED
    BY <2>2, <2>7, <2>8 DEF PlacedOK
<1>20. CASE RcDrained
  <2>1. UNCHANGED <<pending, kept, queue, due, enqBeat, beats>> /\ mpc' # "start"
    BY <1>20 DEF RcDrained, vars, schedVars, taskVars, mainVars, workVars, callVars, histVars
  <2>2. Between' => Between
    BY <1>20 DEF Between, RemovingCancelled, ClockOK, RcDrained, vars, schedVars, taskVars, mainVars, workVars, callVars, histVars
  <2>3. \A t \in Task : WaitingOK(t) => WaitingOK(t)'
    BY <1>20, <2>1 DEF WaitingOK, ClockOK, RemovingCancelled, RcDrained, vars, schedVars, taskVars, mainVars, workVars, callVars, histVars
  <2> QED
    BY <2>1, <2>2, <2>3, <1>g
<1>21. CASE RcRefilled
  <2>1. /\ UNCHANGED <<pending, kept, queue, due, enqBeat, beats, inReload>> /\ mpc' # "start"
        /\ mpc = "rcRefill" /\ mpc' = "rcPurge" /\ kept = Empty
    BY <1>21 DEF RcRefilled, vars, schedVars, taskVars, mainVars, workVars, callVars, histVars
  <2>2. Between' => Between
    BY <2>1 DEF Between, RemovingCancelled
  <2>3. \A t \in Task : kept[t] = 0
    BY <2>1 DEF Empty
  <2>4. \A t \in Task : WaitingOK(t) => WaitingOK(t)'
    BY <1>t, <2>1, <2>3 DEF WaitingOK, RemovingCancelled
  <2> QED
    BY <2>1, <2>2, <2>4, <1>g
<1>22. CASE RcPurge
  <2>1. /\ mpc = "rcPurge" /\ ((mpc' = "idle" /\ inReload) \/ (mpc' = "drain" /\ ~inReload)) /\ ~inReload'
        /\ UNCHANGED <<pending, kept, due, enqBeat, beats>>
    BY <1>22 DEF RcPurge, taskVars, histVars
  <2>2. \A u \in Task, k \in Tick : queue'[k][u] > 0 => queue[k][u] > 0
    <3>1. \A u \in Task, k \in Tick : queue'[k][u] = IF cancelled[u] THEN 0 ELSE queue[k][u]
      BY <1>22 DEF RcPurge, Purge
    <3> QED
      BY <3>1
  <2>3. Between' => Between
    BY <2>1 DEF Between, RemovingCancelled
  <2>4. \A u \in Task : WaitingOK(u)'
    BY <2>1 DEF PlacedOK, WaitingOK, RemovingCancelled
  <2>5. \A u \in Task : BucketOK(u)'
    BY <2>1, <2>2, <2>3 DEF PlacedOK, BucketOK
  <2>6. RunsOnItsTick'
    BY <2>1 DEF RunsOnItsTick
  <2> QED
    BY <2>4, <2>5, <2>6 DEF PlacedOK
<1>23. CASE Drained
  <2>1. /\ UNCHANGED <<pending, kept, queue, due, enqBeat, beats, inReload>> /\ mpc' # "start"
        /\ mpc = "drain" /\ mpc' = "scan" /\ pending = Empty
    BY <1>23 DEF Drained, vars, schedVars, taskVars, mainVars, workVars, callVars, histVars
  <2>2. Between' => Between
    BY <2>1 DEF Between, RemovingCancelled
  <2>3. \A t \in Task : pending[t] = 0
    BY <2>1 DEF Empty
  <2>4. \A t \in Task : WaitingOK(t) => WaitingOK(t)'
    BY <1>t, <2>1, <2>3 DEF WaitingOK, RemovingCancelled
  <2> QED
    BY <2>1, <2>2, <2>4, <1>g
<1>24. ASSUME NEW k \in Tick, NEW t \in Task, Scan(k, t) PROVE PlacedOK'
  <2>1. /\ mpc = "scan" /\ (mpc' = "scan" \/ (mpc' \in {"remove", "start"} /\ mtask' = t))
        /\ First(k) /\ queue[k][t] > 0 /\ queue' = Walk(k, t)
        /\ UNCHANGED <<pending, kept, due, enqBeat, beats, inReload>>
    BY <1>24 DEF Scan, taskVars, histVars
  <2>2. \A u \in Task, j \in Tick : queue'[j][u] > 0 => queue[j][u] > 0
    BY <1>t, <2>1 DEF Walk
  <2>3. ~Between /\ ~Between'
    BY <2>1 DEF Between, RemovingCancelled
  <2>4. \A u \in Task : WaitingOK(u)'
    BY <2>1 DEF PlacedOK, WaitingOK, RemovingCancelled
  <2>5. \A u \in Task : BucketOK(u)'
    BY <2>1, <2>2, <2>3 DEF PlacedOK, BucketOK
  <2>6. RunsOnItsTick'
    <3>1. k \in Nat /\ k <= beats
      BY <1>t, <2>1 DEF First, Due, Tick
    <3>2. due[t] <= k /\ (k = due[t] \/ k <= enqBeat[t] + 1) /\ beats <= k
      BY <2>1 DEF PlacedOK, BucketOK
    <3>3. k = beats
      BY ONLY <1>t, <3>1, <3>2
    <3>4. due[t] <= beats /\ (beats <= due[t] \/ beats <= enqBeat[t] + 1)
      BY <1>t, <3>2, <3>3
    <3> QED
      BY <2>1, <3>4 DEF RunsOnItsTick
  <2> QED
    BY <2>4, <2>5, <2>6 DEF PlacedOK
<1>25. CASE StartTask
  <2>1. UNCHANGED <<pending, kept, queue, due, enqBeat, beats>> /\ mpc' # "start"
    BY <1>25 DEF StartTask, vars, schedVars, taskVars, mainVars, workVars, callVars, histVars
  <2>2. Between' => Between
    BY <1>25 DEF Between, RemovingCancelled, ClockOK, StartTask, vars, schedVars, taskVars, mainVars, workVars, callVars, histVars
  <2>3. \A t \in Task : WaitingOK(t) => WaitingOK(t)'
    BY <1>25, <2>1 DEF WaitingOK, ClockOK, RemovingCancelled, StartTask, vars, schedVars, taskVars, mainVars, workVars, callVars, histVars
  <2> QED
    BY <2>1, <2>2, <2>3, <1>g
<1>26. CASE BodyEnd
  <2>1. UNCHANGED <<pending, kept, queue, due, enqBeat, beats>> /\ mpc' # "start"
    BY <1>26 DEF BodyEnd, vars, schedVars, taskVars, mainVars, workVars, callVars, histVars
  <2>2. Between' => Between
    BY <1>26 DEF Between, RemovingCancelled, ClockOK, BodyEnd, vars, schedVars, taskVars, mainVars, workVars, callVars, histVars
  <2>3. \A t \in Task : WaitingOK(t) => WaitingOK(t)'
    BY <1>26, <2>1 DEF WaitingOK, ClockOK, RemovingCancelled, BodyEnd, vars, schedVars, taskVars, mainVars, workVars, callVars, histVars
  <2> QED
    BY <2>1, <2>2, <2>3, <1>g
<1>27. CASE Reschedule
  <2>1. /\ mpc = "after" /\ mpc' = "scan" /\ mtask \in Task
        /\ pending' = [pending EXCEPT ![mtask] = @ + 1]
        /\ enqBeat' = [enqBeat EXCEPT ![mtask] = beats]
        /\ due' = [due EXCEPT ![mtask] = beats + period[mtask]]
        /\ UNCHANGED <<kept, queue, beats, inReload>>
    BY <1>27 DEF Reschedule, TypeInv, ControlOK, Running
  <2>2. kept[mtask] = 0 /\ \A k \in Tick : ~(queue[k][mtask] > 0)
    <3>1. pending[mtask] + kept[mtask] = 0
      BY <2>1 DEF EntryInv, SingleEntry
    <3>2. \A k \in Tick : queue[k][mtask] <= 1 /\ queue[k][mtask] # 1
      BY <2>1 DEF EntryInv, SingleEntry
    <3> QED
      BY ONLY <1>t, <2>1, <3>1, <3>2
  <2>3. \A u \in Task : u # mtask => pending'[u] = pending[u] /\ enqBeat'[u] = enqBeat[u] /\ due'[u] = due[u]
    BY <1>t, <2>1
  <2>4. ~Between /\ ~Between' /\ mpc \notin {"flag", "drain", "rcDrain", "rcRefill"} \cup RemovingCancelled
    BY <2>1 DEF Between, RemovingCancelled
  <2>5. \A u \in Task : WaitingOK(u)'
    <3>1. \A u \in Task : u = mtask => WaitingOK(u)'
      <4>1. enqBeat'[mtask] = beats
        BY <1>t, <2>1
      <4> QED
        BY <1>t, <2>1, <2>2, <4>1 DEF WaitingOK
    <3>2. \A u \in Task : u # mtask => WaitingOK(u)'
      BY <2>1, <2>3, <2>4 DEF PlacedOK, WaitingOK
    <3> QED
      BY <3>1, <3>2
  <2>6. \A u \in Task : BucketOK(u)'
    <3>1. \A u \in Task : u = mtask => BucketOK(u)'
      BY <2>1, <2>2 DEF BucketOK
    <3>2. \A u \in Task : u # mtask => BucketOK(u)'
      BY <2>1, <2>3, <2>4 DEF PlacedOK, BucketOK
    <3> QED
      BY <3>1, <3>2
  <2>7. RunsOnItsTick'
    BY <2>1 DEF RunsOnItsTick
  <2> QED
    BY <2>5, <2>6, <2>7 DEF PlacedOK
<1>28. CASE Finish
  <2>1. UNCHANGED <<pending, kept, queue, due, enqBeat, beats>> /\ mpc' # "start"
    BY <1>28 DEF Finish, vars, schedVars, taskVars, mainVars, workVars, callVars, histVars
  <2>2. Between' => Between
    BY <1>28 DEF Between, RemovingCancelled, ClockOK, Finish, vars, schedVars, taskVars, mainVars, workVars, callVars, histVars
  <2>3. \A t \in Task : WaitingOK(t) => WaitingOK(t)'
    BY <1>28, <2>1 DEF WaitingOK, ClockOK, RemovingCancelled, Finish, vars, schedVars, taskVars, mainVars, workVars, callVars, histVars
  <2> QED
    BY <2>1, <2>2, <2>3, <1>g
<1>29. CASE MainRemove
  <2>1. UNCHANGED <<pending, kept, queue, due, enqBeat, beats>> /\ mpc' # "start"
    BY <1>29 DEF MainRemove, vars, schedVars, taskVars, mainVars, workVars, callVars, histVars
  <2>2. Between' => Between
    BY <1>29 DEF Between, RemovingCancelled, ClockOK, MainRemove, vars, schedVars, taskVars, mainVars, workVars, callVars, histVars
  <2>3. \A t \in Task : WaitingOK(t) => WaitingOK(t)'
    BY <1>29, <2>1 DEF WaitingOK, ClockOK, RemovingCancelled, MainRemove, vars, schedVars, taskVars, mainVars, workVars, callVars, histVars
  <2> QED
    BY <2>1, <2>2, <2>3, <1>g
<1>30. CASE HeartbeatEnd
  <2>1. /\ mpc = "scan" /\ mpc' = "idle" /\ (\A k \in Tick : ~Due(k))
        /\ UNCHANGED <<pending, kept, queue, due, enqBeat, beats, inReload>>
    BY <1>30 DEF HeartbeatEnd, schedVars, taskVars, histVars
  <2>2. \A u \in Task : WaitingOK(u)'
    BY <2>1 DEF PlacedOK, WaitingOK, RemovingCancelled
  <2>3. \A u \in Task, k \in Tick : queue[k][u] > 0 => beats < k
    <3> SUFFICES ASSUME NEW u \in Task, NEW k \in Tick, queue[k][u] > 0 PROVE beats < k
      OBVIOUS
    <3>1. queue[k] # Empty
      BY DEF Empty
    <3>2. ~(k <= curTick)
      BY <2>1, <3>1 DEF Due
    <3> QED
      BY <1>t, <3>2 DEF Tick
  <2>4. \A u \in Task : BucketOK(u)'
    BY <2>1, <2>3 DEF PlacedOK, BucketOK
  <2>5. RunsOnItsTick'
    BY <2>1 DEF RunsOnItsTick
  <2> QED
    BY <2>2, <2>4, <2>5 DEF PlacedOK
<1>31. ASSUME NEW w \in Worker, NEW t \in Task, TakeJob(w, t) PROVE PlacedOK'
  BY <1>31, <1>f DEF TakeJob, vars, schedVars, taskVars, mainVars, workVars, callVars, histVars
<1>32. ASSUME NEW w \in Worker, WorkerStart(w) PROVE PlacedOK'
  BY <1>32, <1>f DEF WorkerStart, vars, schedVars, taskVars, mainVars, workVars, callVars, histVars
<1>33. ASSUME NEW w \in Worker, WorkerFinish(w) PROVE PlacedOK'
  BY <1>33, <1>f DEF WorkerFinish, vars, schedVars, taskVars, mainVars, workVars, callVars, histVars
<1>34. ASSUME NEW w \in Worker, WorkerRemove(w) PROVE PlacedOK'
  BY <1>34, <1>f DEF WorkerRemove, vars, schedVars, taskVars, mainVars, workVars, callVars, histVars
<1>35. CASE UNCHANGED vars
  BY <1>35, <1>f DEF vars, schedVars, taskVars, mainVars, workVars, callVars, histVars
<1> QED
  BY <1>1, <1>2, <1>3, <1>4, <1>5, <1>6, <1>7, <1>8, <1>9, <1>10, <1>11, <1>12, <1>13, <1>14, <1>15, <1>16, <1>17, <1>18, <1>19, <1>20, <1>21, <1>22, <1>23, <1>24, <1>25, <1>26, <1>27, <1>28, <1>29, <1>30, <1>31, <1>32, <1>33, <1>34, <1>35
     DEF Next, Register, Cancel, Disable, Heartbeat, Work

\* "a task registered with delay N runs on the Nth tick": on the heartbeat it was asked
\* for, or the first after it entered pending_ if that is later, in every session whose
\* ticks do not wrap, whatever level tick the session starts at, and whatever the other
\* threads register and cancel meanwhile.
THEOREM SchedulerRunsOnItsTick == NoWrap /\ Spec => []RunsOnItsTick
<1> DEFINE TimeInv == NoWrap /\ TypeInv /\ EntryInv /\ ClockOK /\ AskedOK /\ PlacedOK
<1>1. NoWrap /\ Init => TimeInv
  <2> SUFFICES ASSUME NoWrap, Init PROVE TimeInv
    OBVIOUS
  <2>1. TypeInv /\ EntryInv
    BY TypeInvInit, TaskInvInit
  <2>2. ClockOK /\ AskedOK
    BY SchedulerAssumption DEF Init, ClockOK, Between, AskedOK, Empty
  <2>3. PlacedOK
    BY SchedulerAssumption DEF Init, PlacedOK, WaitingOK, BucketOK, RunsOnItsTick, Empty
  <2> QED
    BY <2>1, <2>2, <2>3
<1>2. TimeInv /\ [Next]_vars => TimeInv'
  <2>1. NoWrap => NoWrap'
    BY DEF NoWrap
  <2> QED
    BY <2>1, TypeInvNext, EntryInvNext, ClockNext, AskedNext, PlacedNext
<1>3. TimeInv => RunsOnItsTick
  BY DEF PlacedOK
<1> QED
  BY <1>1, <1>2, <1>3, PTL DEF Spec

=============================================================================
