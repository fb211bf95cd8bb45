------------------------------ MODULE Executor -------------------------------
(***************************************************************************)
(* What the scheduler expects of its executor: a job that is submitted is  *)
(* run once, by some thread, and the destructor returns only after every   *)
(* submitted job has run to its end.                                       *)
(***************************************************************************)
CONSTANT Job

VARIABLES
    submitted,  \* jobs handed to submit()
    executed,   \* jobs whose function has returned
    closed      \* the destructor has returned

Init == submitted = {} /\ executed = {} /\ closed = FALSE

Submit(j) ==
    /\ ~closed
    /\ j \notin submitted
    /\ submitted' = submitted \cup {j}
    /\ UNCHANGED <<executed, closed>>

Execute(j) ==
    /\ ~closed
    /\ j \in submitted \ executed
    /\ executed' = executed \cup {j}
    /\ UNCHANGED <<submitted, closed>>

Close ==
    /\ ~closed
    /\ executed = submitted
    /\ closed' = TRUE
    /\ UNCHANGED <<submitted, executed>>

Next == (\E j \in Job : Submit(j) \/ Execute(j)) \/ Close

Spec == Init /\ [][Next]_<<submitted, executed, closed>>
=============================================================================
