---------------------------- MODULE SerialExecutor ----------------------------
(***************************************************************************)
(* What a caller of Duktype::AsyncJobScheduler relies on: jobs handed in   *)
(* are run one at a time, in the order they were handed in, each once; a   *)
(* scheduler that is being destroyed starts nothing more.  The queue here  *)
(* has no threads, locks or condition variables: AsyncJobScheduler adds    *)
(* those and is shown to implement this module, and AsyncJob is built on   *)
(* two instances of it.                                                    *)
(***************************************************************************)
EXTENDS Sequences

CONSTANTS Jobs,   \* the functions handed to addWork
          NoJob   \* what current is between two jobs: no job itself

VARIABLES pending,  \* handed in, not started: oldest first
          current,  \* the job being run
          closed    \* the scheduler is being destroyed

vars == <<pending, current, closed>>

Init == pending = << >> /\ current = NoJob /\ closed = FALSE

\* A caller hands in one job.  (closed' = closed and not UNCHANGED: a scheduler
\* that is never destroyed is this module with FALSE for closed.)
Submit(j) == /\ ~closed
             /\ pending' = Append(pending, j)
             /\ UNCHANGED current
             /\ closed' = closed

\* The oldest job is started; nothing else is running.
Start == /\ ~closed
         /\ current = NoJob
         /\ pending # << >>
         /\ current' = Head(pending)
         /\ pending' = Tail(pending)
         /\ closed' = closed

\* The running job returns (or throws: the caller cannot tell).
Finish == /\ current # NoJob
          /\ current' = NoJob
          /\ UNCHANGED pending
          /\ closed' = closed

\* Destruction begins; what is still pending is dropped.
Close == /\ ~closed
         /\ closed' = TRUE
         /\ UNCHANGED <<pending, current>>

Next == Start \/ Finish \/ Close \/ \E j \in Jobs : Submit(j)

SafeSpec == Init /\ [][Next]_vars

\* Work that can be started is started, and every job ends.
Spec == SafeSpec /\ WF_vars(Start) /\ WF_vars(Finish)
===============================================================================
