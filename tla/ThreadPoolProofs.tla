--------------------------- MODULE ThreadPoolProofs ---------------------------
(***************************************************************************)
(* Proofs about ThreadPoolExecutor, for any number of jobs and workers.    *)
(***************************************************************************)
EXTENDS ThreadPoolExecutor, TLAPS

\* A worker holds a job exactly while it is inside one.
HoldsWhileRunning == \A w \in Worker : InJob(w) <=> wjob[w] # NoJob

\* Nothing happens to a job before it is submitted.
SubmittedFirst ==
    /\ tasks \subseteq submitted
    /\ \A w \in Worker : wjob[w] # NoJob => wjob[w] \in submitted
    /\ \A j \in Job \ submitted : executed[j] = 0

\* Workers leave the loop only after the destructor has begun, and while a job is
\* queued some worker has not left: the one that is to drain it.
SomeoneDrains ==
    /\ done => dpc # "alive"
    /\ dpc # "alive" => done
    /\ \A w \in Worker : wpc[w] = "exit" => done
    /\ \A w \in Worker : wpc[w] \in {"rest", "restRun"} => done
    /\ tasks # {} => \E w \in Worker : wpc[w] # "exit"
    /\ dpc = "gone" => \A w \in Worker : wpc[w] = "exit"

PoolInv == TypeOK /\ HoldsWhileRunning /\ SubmittedFirst /\ SomeoneDrains /\ JobsConserved

\* The initial state of the pool satisfies the inductive invariant.
LEMMA PoolInvInit == Init => PoolInv
<1> SUFFICES ASSUME Init PROVE PoolInv
  OBVIOUS
<1>1. TypeOK
  BY DEF Init, TypeOK, WorkerPC
<1>2. HoldsWhileRunning /\ SubmittedFirst /\ JobsConserved
  BY DEF Init, HoldsWhileRunning, SubmittedFirst, JobsConserved, InJob
<1>3. SomeoneDrains
  BY PoolAssumption DEF Init, SomeoneDrains
<1> QED
  BY <1>1, <1>2, <1>3 DEF PoolInv

\* Every step of submit(), worker() and the destructor preserves it.
LEMMA PoolInvNext == PoolInv /\ [Next]_vars => PoolInv'
<1> SUFFICES ASSUME PoolInv, [Next]_vars PROVE PoolInv'
  OBVIOUS
<1> USE PoolAssumption DEF PoolInv, TypeOK, HoldsWhileRunning, SubmittedFirst,
        SomeoneDrains, JobsConserved, WorkerPC, InJob
<1>1. ASSUME NEW th \in Worker \cup {Owner}, NEW j \in Job, Submit(th, j) PROVE PoolInv'
  BY <1>1 DEF Submit
<1>2. ASSUME NEW th \in Worker \cup {Owner}, NotifyOne(th) PROVE PoolInv'
  BY <1>2 DEF NotifyOne, Waiting
<1>3. ASSUME NEW w \in Worker, Loop(w) PROVE PoolInv'
  BY <1>3 DEF Loop, LoopTest
<1>4. ASSUME NEW w \in Worker, NEW j \in Job, Dequeue(w, j) PROVE PoolInv'
  BY <1>4 DEF Dequeue, Take
<1>5. ASSUME NEW w \in Worker, DequeueFails(w) PROVE PoolInv'
  BY <1>5 DEF DequeueFails
<1>6. ASSUME NEW w \in Worker, JobEnds(w) PROVE PoolInv'
  BY <1>6 DEF JobEnds
<1>7. ASSUME NEW w \in Worker, Sleep(w) PROVE PoolInv'
  BY <1>7 DEF Sleep
<1>8. ASSUME NEW w \in Worker, Timeout(w) PROVE PoolInv'
  BY <1>8 DEF Timeout
<1>9. CASE DestroyBegin
  BY <1>9 DEF DestroyBegin
<1>10. CASE NotifyAll
  BY <1>10 DEF NotifyAll
<1>11. CASE Join
  BY <1>11 DEF Join, AllExited
<1>12. CASE UNCHANGED vars
  BY <1>12 DEF vars
<1> QED
  BY <1>1, <1>2, <1>3, <1>4, <1>5, <1>6, <1>7, <1>8, <1>9, <1>10, <1>11, <1>12
     DEF Next, WorkerStep, Destroy, Gone

\* A submitted job is never lost, duplicated or run twice, however many workers
\* race for the queue, and also while the destructor drains it.
THEOREM PoolConserves == Spec => []JobsConserved
<1>1. PoolInv => JobsConserved
  BY DEF PoolInv
<1> QED
  BY PoolInvInit, PoolInvNext, <1>1, PTL DEF Spec

\* When ~ThreadPoolExecutor has returned, every submitted job has run.
THEOREM PoolDrains == Spec => []DestructorDrains
<1>1. PoolInv => DestructorDrains
  BY PoolAssumption DEF PoolInv, TypeOK, HoldsWhileRunning, SubmittedFirst,
     SomeoneDrains, JobsConserved, InJob, DestructorDrains
<1> QED
  BY PoolInvInit, PoolInvNext, <1>1, PTL DEF Spec

\* Each step of the pool is a step of the abstract executor, or leaves it alone.
LEMMA PoolStepSimulation ==
    PoolInv /\ PoolInv' /\ [Next]_vars
        => [Abstract!Next]_<<submitted, {j \in Job : executed[j] > 0}, dpc = "gone">>
<1> DEFINE ex == {j \in Job : executed[j] > 0}
<1> DEFINE cl == (dpc = "gone")
<1> SUFFICES ASSUME PoolInv, PoolInv', [Next]_vars
             PROVE  Abstract!Next \/ (submitted' = submitted /\ ex' = ex /\ cl' = cl)
  OBVIOUS
<1> USE PoolAssumption DEF PoolInv, TypeOK, HoldsWhileRunning, SubmittedFirst,
        SomeoneDrains, JobsConserved, InJob
<1>1. ASSUME NEW th \in Worker \cup {Owner}, NEW j \in Job, Submit(th, j)
      PROVE  Abstract!Next
  BY <1>1 DEF Submit, Abstract!Submit, Abstract!Next
<1>2. ASSUME NEW w \in Worker, JobEnds(w) PROVE Abstract!Next
  <2>1. PICK j \in Job : j = wjob[w]
    BY <1>2 DEF JobEnds
  <2>2. Abstract!Execute(j)
    BY <1>2, <2>1 DEF JobEnds, Abstract!Execute
  <2> QED
    BY <2>2 DEF Abstract!Next
<1>3. CASE Join
  BY <1>3 DEF Join, AllExited, Abstract!Next, Abstract!Close
<1>4. ASSUME NEW th \in Worker \cup {Owner}, NotifyOne(th)
      PROVE  submitted' = submitted /\ ex' = ex /\ cl' = cl
  BY <1>4 DEF NotifyOne
<1>5. ASSUME NEW w \in Worker, WorkerStep(w), ~JobEnds(w)
      PROVE  submitted' = submitted /\ ex' = ex /\ cl' = cl
  BY <1>5 DEF WorkerStep, Loop, Dequeue, DequeueFails, Sleep, Timeout
<1>6. CASE DestroyBegin \/ NotifyAll \/ Gone \/ UNCHANGED vars
  BY <1>6 DEF DestroyBegin, NotifyAll, Gone, vars
<1> QED
  BY <1>1, <1>2, <1>3, <1>4, <1>5, <1>6 DEF Next, WorkerStep, Destroy

\* The pool implements Executor: jobs are run at most once, only after they were
\* submitted, and the destructor returns only when all of them have run.
THEOREM PoolImplementsExecutor == Spec => ImplementsExecutor
<1>1. Init => Abstract!Init
  BY DEF Init, Abstract!Init
<1> QED
  BY PoolInvInit, PoolInvNext, PoolStepSimulation, <1>1, PTL
     DEF Spec, ImplementsExecutor, Abstract!Spec
=============================================================================
