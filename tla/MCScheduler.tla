----------------------------- MODULE MCScheduler -----------------------------
(***************************************************************************)
(* Instances of Scheduler for TLC.                                         *)
(***************************************************************************)
EXTENDS Scheduler, TLC

\* Worker threads are interchangeable.
WorkerSymmetry == Permutations(Worker)
=============================================================================
