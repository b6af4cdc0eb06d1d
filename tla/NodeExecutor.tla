----------------------------- MODULE NodeExecutor -----------------------------
(***************************************************************************)
(* What the users of Duktype::AsyncNodeScheduler rely on: tasks handed in  *)
(* from any thread are run on the node thread, one at a time, each once;   *)
(* ordinary tasks in the order they came, and before any of them the       *)
(* priority tasks, the newest first.  AsyncNodeScheduler implements this   *)
(* with a thread, a uv_async_t and two condition variables.                *)
(***************************************************************************)
EXTENDS Sequences

CONSTANTS Tasks,   \* what may be handed in
          NoTask   \* no task at all

VARIABLES normal,    \* ordinary tasks, oldest first
          priority,  \* priority tasks, newest first
          picked,    \* the task the node thread has been asked to run
          running    \* the node thread is inside it

vars == <<normal, priority, picked, running>>

Init == normal = << >> /\ priority = << >> /\ picked = NoTask /\ running = FALSE

Submit(t) == /\ normal' = Append(normal, t)
             /\ UNCHANGED <<priority, picked, running>>

SubmitPriority(t) == /\ priority' = <<t>> \o priority
                     /\ UNCHANGED <<normal, picked, running>>

\* The next task is chosen before the node thread is free to run it; a priority
\* task that arrives in between has to wait for it.
Pick == /\ picked = NoTask
        /\ \/ /\ priority # << >>
              /\ picked' = Head(priority)
              /\ priority' = Tail(priority)
              /\ UNCHANGED normal
           \/ /\ priority = << >>
              /\ normal # << >>
              /\ picked' = Head(normal)
              /\ normal' = Tail(normal)
              /\ UNCHANGED priority
        /\ UNCHANGED running

Run == /\ picked # NoTask
       /\ ~running
       /\ running' = TRUE
       /\ UNCHANGED <<normal, priority, picked>>

Return == /\ running
          /\ running' = FALSE
          /\ picked' = NoTask
          /\ UNCHANGED <<normal, priority>>

Next == Pick \/ Run \/ Return \/ \E t \in Tasks : Submit(t) \/ SubmitPriority(t)

SafeSpec == Init /\ [][Next]_vars

Spec == SafeSpec /\ WF_vars(Pick) /\ WF_vars(Run) /\ WF_vars(Return)
===============================================================================
