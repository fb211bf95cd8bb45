-------------------------- MODULE ThreadPoolExecutor --------------------------
(***************************************************************************)
(* ThreadPoolExecutor (src/endstone/core/scheduler/thread_pool_executor):  *)
(* worker threads over a lock-free queue, a condition variable that is     *)
(* notified without its mutex, and a destructor that drains the queue.     *)
(*                                                                         *)
(* The owner submits from outside until it destroys the pool; a job may    *)
(* submit further jobs while it runs, also while the pool is draining.     *)
(***************************************************************************)
EXTENDS Naturals, FiniteSets

CONSTANTS
    Job,      \* functions that may be submitted, each at most once
    Worker,   \* the pool's threads
    Owner,    \* the thread that owns the pool
    NoJob     \* an empty std::function

ASSUME PoolAssumption ==
    /\ Worker # {}          \* the constructor starts at least one thread
    /\ Owner \notin Worker
    /\ NoJob \notin Job

VARIABLES
    tasks,     \* jobs in the moodycamel queue (its order is left open)
    done,      \* the atomic flag
    wpc,       \* control point of each worker
    wjob,      \* the job a worker holds
    notify,    \* threads between tasks.enqueue and condition.notify_one in submit
    dpc,       \* control point of the destructor
    submitted, \* history: every job ever submitted
    executed   \* history: how often each job ran to its end

vars == <<tasks, done, wpc, wjob, notify, dpc, submitted, executed>>

\* Control points of worker(): the loop test, try_dequeue, the job, about to wait,
\* waiting, and the loop that processes the remaining tasks.
WorkerPC == {"loop", "try", "run", "sleep", "wait", "rest", "restRun", "exit"}
InJob(w) == wpc[w] \in {"run", "restRun"}

TypeOK ==
    /\ tasks \in SUBSET Job
    /\ done \in BOOLEAN
    /\ wpc \in [Worker -> WorkerPC]
    /\ wjob \in [Worker -> Job \cup {NoJob}]
    /\ notify \in SUBSET (Worker \cup {Owner})
    /\ dpc \in {"alive", "notify", "join", "gone"}
    /\ submitted \in SUBSET Job
    /\ executed \in [Job -> Nat]

Init ==
    /\ tasks = {}
    /\ done = FALSE
    /\ wpc = [w \in Worker |-> "loop"]
    /\ wjob = [w \in Worker |-> NoJob]
    /\ notify = {}
    /\ dpc = "alive"
    /\ submitted = {}
    /\ executed = [j \in Job |-> 0]

-----------------------------------------------------------------------------
\* submit: enqueue, then notify_one.  The caller is the owner, while it has not
\* begun to destroy the pool, or a worker from inside a job.
Submit(th, j) ==
    /\ th \notin notify
    /\ (th = Owner /\ dpc = "alive") \/ (th \in Worker /\ InJob(th))
    /\ j \notin submitted
    /\ tasks' = tasks \cup {j}
    /\ submitted' = submitted \cup {j}
    /\ notify' = notify \cup {th}
    /\ UNCHANGED <<done, wpc, wjob, dpc, executed>>

\* notify_one: wakes one waiting worker if there is one, and is lost otherwise.
Waiting == {w \in Worker : wpc[w] = "wait"}

NotifyOne(th) ==
    /\ th \in notify
    /\ notify' = notify \ {th}
    /\ \/ Waiting = {} /\ UNCHANGED wpc
       \/ \E w \in Waiting : wpc' = [wpc EXCEPT ![w] = "loop"]
    /\ UNCHANGED <<tasks, done, wjob, dpc, submitted, executed>>

-----------------------------------------------------------------------------
\* Mutants: the remaining tasks are not processed; done is not looked at.
LoopTestNoDrain == IF done THEN "exit" ELSE "try"
LoopTestForever == "try"
\* worker(): while (!done)
LoopTest == IF done THEN "rest" ELSE "try"

Loop(w) ==
    /\ wpc[w] = "loop"
    /\ wpc' = [wpc EXCEPT ![w] = LoopTest]
    /\ UNCHANGED <<tasks, done, wjob, notify, dpc, submitted, executed>>

\* try_dequeue in the loop and in the drain.
Take(j) == tasks \ {j}

Dequeue(w, j) ==
    /\ wpc[w] \in {"try", "rest"}
    /\ j \in tasks
    /\ tasks' = Take(j)
    /\ wjob' = [wjob EXCEPT ![w] = j]
    /\ wpc' = [wpc EXCEPT ![w] = IF @ = "try" THEN "run" ELSE "restRun"]
    /\ UNCHANGED <<done, notify, dpc, submitted, executed>>

\* The queue was empty: take the mutex to wait, or leave the drain.
DequeueFails(w) ==
    /\ wpc[w] \in {"try", "rest"}
    /\ tasks = {}
    /\ wpc' = [wpc EXCEPT ![w] = IF @ = "try" THEN "sleep" ELSE "exit"]
    /\ UNCHANGED <<tasks, done, wjob, notify, dpc, submitted, executed>>

\* The job returns; what it throws stays in its std::future (packaged_task).
JobEnds(w) ==
    /\ InJob(w)
    /\ w \notin notify
    /\ executed' = [executed EXCEPT ![wjob[w]] = @ + 1]
    /\ wjob' = [wjob EXCEPT ![w] = NoJob]
    /\ wpc' = [wpc EXCEPT ![w] = IF @ = "run" THEN "loop" ELSE "rest"]
    /\ UNCHANGED <<tasks, done, notify, dpc, submitted>>

\* condition.wait_for: the worker blocks ...
Sleep(w) ==
    /\ wpc[w] = "sleep"
    /\ wpc' = [wpc EXCEPT ![w] = "wait"]
    /\ UNCHANGED <<tasks, done, wjob, notify, dpc, submitted, executed>>

\* ... until it is notified or 10 ms have passed.  Mutant: wait, not wait_for.
TimeoutNever(w) == FALSE /\ UNCHANGED vars
Timeout(w) ==
    /\ wpc[w] = "wait"
    /\ wpc' = [wpc EXCEPT ![w] = "loop"]
    /\ UNCHANGED <<tasks, done, wjob, notify, dpc, submitted, executed>>

-----------------------------------------------------------------------------
\* ~ThreadPoolExecutor: done = true ...
DestroyBegin ==
    /\ dpc = "alive"
    /\ Owner \notin notify
    /\ done' = TRUE
    /\ dpc' = "notify"
    /\ UNCHANGED <<tasks, wpc, wjob, notify, submitted, executed>>

\* ... notify_all ...
NotifyAll ==
    /\ dpc = "notify"
    /\ wpc' = [w \in Worker |-> IF wpc[w] = "wait" THEN "loop" ELSE wpc[w]]
    /\ dpc' = "join"
    /\ UNCHANGED <<tasks, done, wjob, notify, submitted, executed>>

\* ... and join every thread.
AllExited == \A w \in Worker : wpc[w] = "exit"

Join ==
    /\ dpc = "join"
    /\ AllExited
    /\ dpc' = "gone"
    /\ UNCHANGED <<tasks, done, wpc, wjob, notify, submitted, executed>>

\* The pool is gone: nothing runs any more.
Gone == dpc = "gone" /\ UNCHANGED vars

WorkerStep(w) ==
    \/ Loop(w) \/ (\E j \in Job : Dequeue(w, j)) \/ DequeueFails(w)
    \/ JobEnds(w) \/ Sleep(w) \/ Timeout(w)

Destroy == DestroyBegin \/ NotifyAll \/ Join

Next ==
    \/ \E th \in Worker \cup {Owner} : NotifyOne(th) \/ \E j \in Job : Submit(th, j)
    \/ \E w \in Worker : WorkerStep(w)
    \/ Destroy
    \/ Gone

Spec == Init /\ [][Next]_vars

\* Threads run, jobs return, the timed wait ends; a destructor that has begun goes
\* on.  Nothing makes the owner destroy the pool.
Fairness ==
    /\ \A w \in Worker : WF_vars(WorkerStep(w))
    /\ \A th \in Worker \cup {Owner} : WF_vars(NotifyOne(th))
    /\ WF_vars(NotifyAll) /\ WF_vars(Join)

LiveSpec == Spec /\ Fairness

-----------------------------------------------------------------------------
\* Every submitted job is in exactly one place: queued, held by one worker, or
\* executed, and then once.
JobsConserved ==
    \A j \in submitted :
        /\ executed[j] <= 1
        /\ j \in tasks => executed[j] = 0
        /\ \A w \in Worker : wjob[w] = j =>
              /\ j \notin tasks
              /\ executed[j] = 0
              /\ \A v \in Worker : wjob[v] = j => v = w
        /\ j \in tasks \/ executed[j] = 1 \/ \E w \in Worker : wjob[w] = j

\* The destructor waits for tasks (test DestructorWaitsForTasks): when it returns,
\* every job submitted before, or by a job during the drain, has run.
DestructorDrains == dpc = "gone" => \A j \in submitted : executed[j] = 1

\* The pool implements the executor the scheduler relies on.
Abstract == INSTANCE Executor WITH
    executed <- {j \in Job : executed[j] > 0},
    closed <- dpc = "gone"
ImplementsExecutor == Abstract!Spec

\* A submitted job runs although notify_one may come between a worker's failed
\* try_dequeue and its wait: the timed wait makes up for the lost wake-up.
SubmittedRuns == \A j \in Job : j \in submitted ~> executed[j] > 0

\* The destructor returns once it has begun.
DestructorReturns == done ~> dpc = "gone"
=============================================================================
