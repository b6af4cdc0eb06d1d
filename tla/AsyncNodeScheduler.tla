--------------------------- MODULE AsyncNodeScheduler ---------------------------
(***************************************************************************)
(* Duktype::AsyncNodeScheduler (AsyncNodeScheduler.cpp): runs functions on *)
(* the node thread for the background threads.  A scheduler thread takes   *)
(* one NodeJob at a time, leaves it in the data field of a single          *)
(* uv_async_t, rings it, and waits for jobDone; the node thread's event    *)
(* loop calls handleRunInContext, which runs the function, marks the       *)
(* NodeJob done, initializes the same uv_async_t afresh and notifies.      *)
(*                                                                         *)
(* The queue's mutex is used as in AsyncJobScheduler, where its grain is   *)
(* examined; here its critical sections, and the start-up handshake, are   *)
(* single steps.  The jobMutex handshake is modelled step by step.  The    *)
(* destructor is not part of this module.                                  *)
(*                                                                         *)
(* A NodeJob is known by the number of the addWork call that made it.  The *)
(* shared_ptr in run() is its last owner: when the loop goes round, it is  *)
(* freed.                                                                  *)
(***************************************************************************)
EXTENDS Naturals, Sequences

CONSTANTS Producers,      \* threads that call addWork
          NoTask,
          MaxAdds,        \* bound on the calls of addWork
          SpuriousWaits,  \* waits that may return without a notify
          MaxSpurious     \* bound on how often they do

ASSUME NodeBoundAssumption == /\ MaxAdds \in Nat /\ MaxSpurious \in Nat
                              /\ SpuriousWaits \subseteq {"await", "jobAwait"}
ASSUME NodeTaskAssumption == NoTask \notin Nat

Tasks == 1..MaxAdds

VARIABLES workQueue,      \* _workQueue
          priorityQueue,  \* _priorityQueue
          nextFunc,       \* the scheduler thread's NodeJob
          jobMutex,       \* holder of nextFunc->jobMutex
          jobDone,        \* NodeJobs whose jobDone is set
          freed,          \* NodeJobs deleted by the scheduler thread
          async,          \* _asyncWork: pending (rung) and data
          threadPC,       \* the scheduler thread
          nodePC,         \* the node thread
          asyncData,      \* the NodeJob handleRunInContext works on
          ran,            \* NodeJobs whose function has returned
          producerPC,
          adds, spurious

vars == <<workQueue, priorityQueue, nextFunc, jobMutex, jobDone, freed, async,
          threadPC, nodePC, asyncData, ran, producerPC, adds, spurious>>

queues   == <<workQueue, priorityQueue>>
counters == <<adds, spurious>>

\* The constructor has returned on the node thread; _exiting is false.
Init == /\ workQueue = << >> /\ priorityQueue = << >>
        /\ nextFunc = NoTask /\ jobMutex = "free"
        /\ jobDone = {} /\ freed = {} /\ ran = {}
        /\ async = [pending |-> FALSE, data |-> NoTask]
        /\ threadPC = "test" /\ nodePC = "loop" /\ asyncData = NoTask
        /\ producerPC = [p \in Producers |-> "idle"]
        /\ adds = 0 /\ spurious = 0

--------------------------------------------------------------------------------
\* Mutant: a null pointer is queued.
AddWork_Null(p, priority) ==
  /\ producerPC[p] = "idle"
  /\ adds < MaxAdds
  /\ adds' = adds + 1
  /\ workQueue' = Append(workQueue, NoTask)
  /\ producerPC' = [producerPC EXCEPT ![p] = "notify"]
  /\ UNCHANGED <<priorityQueue, nextFunc, jobMutex, jobDone, freed, async,
                 threadPC, nodePC, asyncData, ran, spurious>>

\* addWork by producer p: the push under the lock, then the notify.
AddWork(p, priority) ==
  /\ producerPC[p] = "idle"
  /\ adds < MaxAdds
  /\ adds' = adds + 1
  /\ IF priority
     THEN priorityQueue' = <<adds + 1>> \o priorityQueue /\ UNCHANGED workQueue
     ELSE workQueue' = Append(workQueue, adds + 1) /\ UNCHANGED priorityQueue
  /\ producerPC' = [producerPC EXCEPT ![p] = "notify"]
  /\ UNCHANGED <<nextFunc, jobMutex, jobDone, freed, async, threadPC, nodePC,
                 asyncData, ran, spurious>>

AddNotify(p) ==
  /\ producerPC[p] = "notify"
  /\ producerPC' = [producerPC EXCEPT ![p] = "idle"]
  /\ threadPC' = IF threadPC = "await" THEN "test" ELSE threadPC
  /\ UNCHANGED <<queues, nextFunc, jobMutex, jobDone, freed, async, nodePC,
                 asyncData, ran, counters>>

--------------------------------------------------------------------------------
(* run(), the scheduler thread.                                               *)

WaitForWork == /\ threadPC = "test"
               /\ workQueue = << >> /\ priorityQueue = << >>
               /\ threadPC' = "await"
               /\ UNCHANGED <<queues, nextFunc, jobMutex, jobDone, freed, async,
                              nodePC, asyncData, ran, producerPC, counters>>

\* Mutant: ordinary tasks are taken before priority tasks.
PopWork_OrdinaryFirst ==
  /\ threadPC = "test"
  /\ \/ /\ workQueue # << >>
        /\ nextFunc' = Head(workQueue)
        /\ workQueue' = Tail(workQueue)
        /\ UNCHANGED priorityQueue
     \/ /\ workQueue = << >> /\ priorityQueue # << >>
        /\ nextFunc' = Head(priorityQueue)
        /\ priorityQueue' = Tail(priorityQueue)
        /\ UNCHANGED workQueue
  /\ threadPC' = "send"
  /\ UNCHANGED <<jobMutex, jobDone, freed, async, nodePC, asyncData, ran,
                 producerPC, counters>>

PopWork == /\ threadPC = "test"
           /\ \/ /\ priorityQueue # << >>
                 /\ nextFunc' = Head(priorityQueue)
                 /\ priorityQueue' = Tail(priorityQueue)
                 /\ UNCHANGED workQueue
              \/ /\ priorityQueue = << >> /\ workQueue # << >>
                 /\ nextFunc' = Head(workQueue)
                 /\ workQueue' = Tail(workQueue)
                 /\ UNCHANGED priorityQueue
           /\ threadPC' = "send"
           /\ UNCHANGED <<jobMutex, jobDone, freed, async, nodePC, asyncData, ran,
                          producerPC, counters>>

\* Lock jobMutex, hand the NodeJob over, ring; the lock is kept until the wait.
SendAsync == /\ threadPC = "send"
             /\ jobMutex = "free"
             /\ jobMutex' = "thread"
             /\ async' = [pending |-> TRUE, data |-> nextFunc]
             /\ threadPC' = "jobTest"
             /\ UNCHANGED <<queues, nextFunc, jobDone, freed, nodePC, asyncData,
                            ran, producerPC, counters>>

\* The predicate is false: block, which releases the lock.
JobWait == /\ threadPC = "jobTest"
           /\ nextFunc \notin jobDone
           /\ threadPC' = "jobAwait"
           /\ jobMutex' = "free"
           /\ UNCHANGED <<queues, nextFunc, jobDone, freed, async, nodePC,
                          asyncData, ran, producerPC, counters>>

\* Mutant: the loop goes round without the wait.
JobFinished_Unchecked ==
  /\ threadPC = "jobTest"
  /\ freed' = freed \cup {nextFunc}
  /\ nextFunc' = NoTask
  /\ jobMutex' = "free"
  /\ threadPC' = "test"
  /\ UNCHANGED <<queues, jobDone, async, nodePC, asyncData, ran, producerPC,
                 counters>>

\* The predicate is true: go round; nextFunc was the last reference.
JobFinished == /\ threadPC = "jobTest"
               /\ nextFunc \in jobDone
               /\ freed' = freed \cup {nextFunc}
               /\ nextFunc' = NoTask
               /\ jobMutex' = "free"
               /\ threadPC' = "test"
               /\ UNCHANGED <<queues, jobDone, async, nodePC, asyncData, ran,
                              producerPC, counters>>

JobRelock == /\ threadPC = "jobLock"
             /\ jobMutex = "free"
             /\ jobMutex' = "thread"
             /\ threadPC' = "jobTest"
             /\ UNCHANGED <<queues, nextFunc, jobDone, freed, async, nodePC,
                            asyncData, ran, producerPC, counters>>

\* A condition variable's wait may return without a notify.
SpuriousWakeup == /\ spurious < MaxSpurious
                  /\ spurious' = spurious + 1
                  /\ threadPC \in SpuriousWaits
                  /\ threadPC' = IF threadPC = "await" THEN "test" ELSE "jobLock"
                  /\ UNCHANGED <<queues, nextFunc, jobMutex, jobDone, freed, async,
                                 nodePC, asyncData, ran, producerPC, adds>>

--------------------------------------------------------------------------------
(* The node thread.                                                           *)

\* libuv finds the handle rung, clears the ring and calls handleRunInContext.
AsyncFires == /\ nodePC = "loop"
              /\ async.pending
              /\ async' = [async EXCEPT !.pending = FALSE]
              /\ asyncData' = async.data
              /\ nodePC' = "run"
              /\ UNCHANGED <<queues, nextFunc, jobMutex, jobDone, freed, threadPC,
                             ran, producerPC, counters>>

\* runFunc() returns or throws: a std::exception is caught and dropped.
RunFunc == /\ nodePC = "run"
           /\ ran' = ran \cup {asyncData}
           /\ nodePC' = "done"
           /\ UNCHANGED <<queues, nextFunc, jobMutex, jobDone, freed, async,
                          threadPC, asyncData, producerPC, counters>>

\* Mutant: jobWait is notified before the handle is initialized afresh.
MarkDone_Notifies ==
  /\ nodePC = "done"
  /\ jobMutex = "free"
  /\ jobDone' = jobDone \cup {asyncData}
  /\ nodePC' = "reinit"
  /\ threadPC' = IF threadPC = "jobAwait" THEN "jobLock" ELSE threadPC
  /\ UNCHANGED <<queues, nextFunc, jobMutex, freed, async, asyncData, ran,
                 producerPC, counters>>

\* jobDone is set under jobMutex.
MarkDone == /\ nodePC = "done"
            /\ jobMutex = "free"
            /\ jobDone' = jobDone \cup {asyncData}
            /\ nodePC' = "reinit"
            /\ UNCHANGED <<queues, nextFunc, jobMutex, freed, async, threadPC,
                           asyncData, ran, producerPC, counters>>

\* uv_async_init on the live handle: whatever was rung is forgotten.
Reinit == /\ nodePC = "reinit"
          /\ async' = [async EXCEPT !.pending = FALSE]
          /\ nodePC' = "notify"
          /\ UNCHANGED <<queues, nextFunc, jobMutex, jobDone, freed, threadPC,
                         asyncData, ran, producerPC, counters>>

\* asyncData->jobWait.notify_one()
NotifyJob == /\ nodePC = "notify"
             /\ threadPC' = IF threadPC = "jobAwait" /\ asyncData = nextFunc
                            THEN "jobLock" ELSE threadPC
             /\ nodePC' = "after"
             /\ UNCHANGED <<queues, nextFunc, jobMutex, jobDone, freed, async,
                            asyncData, ran, producerPC, counters>>

\* afterWork, from a copy made before: nothing of the NodeJob is touched.
AfterWork == /\ nodePC = "after"
             /\ asyncData' = NoTask
             /\ nodePC' = "loop"
             /\ UNCHANGED <<queues, nextFunc, jobMutex, jobDone, freed, async,
                            threadPC, ran, producerPC, counters>>

--------------------------------------------------------------------------------
ThreadStep == WaitForWork \/ PopWork \/ SendAsync \/ JobWait \/ JobFinished
              \/ JobRelock
NodeStep   == AsyncFires \/ RunFunc \/ MarkDone \/ Reinit \/ NotifyJob
              \/ AfterWork

\* Every call of addWork has been served and the bound is reached.
Quiet == /\ adds = MaxAdds /\ threadPC = "await" /\ nodePC = "loop"
         /\ \A p \in Producers : producerPC[p] = "idle"
         /\ UNCHANGED vars

Next == \/ ThreadStep \/ NodeStep \/ SpuriousWakeup \/ Quiet
        \/ \E p \in Producers :
             AddNotify(p) \/ \E priority \in BOOLEAN : AddWork(p, priority)

SafeSpec == Init /\ [][Next]_vars

\* Each thread goes on while it can; the event loop serves a rung handle; the
\* functions run on the node thread return.  Nothing makes a thread call addWork.
Spec == /\ SafeSpec
        /\ WF_vars(ThreadStep)
        /\ WF_vars(NodeStep)
        /\ \A p \in Producers : WF_vars(AddNotify(p))

--------------------------------------------------------------------------------
(* Properties.                                                                *)

TypeOK == /\ workQueue \in Seq(Tasks) /\ priorityQueue \in Seq(Tasks)
          /\ nextFunc \in Tasks \cup {NoTask}
          /\ jobMutex \in {"free", "thread"}
          /\ jobDone \subseteq Tasks /\ freed \subseteq Tasks /\ ran \subseteq Tasks
          /\ async \in [pending : BOOLEAN, data : Tasks \cup {NoTask}]
          /\ threadPC \in {"test", "await", "send", "jobTest", "jobAwait",
                           "jobLock"}
          /\ nodePC \in {"loop", "run", "done", "reinit", "notify", "after"}
          /\ asyncData \in Tasks \cup {NoTask}
          /\ producerPC \in [Producers -> {"idle", "notify"}]
          /\ adds \in 0..MaxAdds /\ spurious \in 0..MaxSpurious

\* A NodeJob is touched by handleRunInContext (its function, its mutex, its async
\* field, its condition variable) only while run() still owns it.
NodeJobAlive == nodePC \in {"run", "done", "reinit", "notify"}
                  => asyncData \notin freed

\* The single uv_async_t never loses a ring: a NodeJob that has been sent and not
\* yet run is still rung, although every handler initializes the handle afresh.
NoLostSend == threadPC \in {"jobTest", "jobAwait", "jobLock"}
              /\ nextFunc \notin ran /\ asyncData # nextFunc
                => async.pending /\ async.data = nextFunc

\* The scheduler thread never sleeps through a queued task ...
NoLostWakeup == threadPC = "await" /\ (workQueue # << >> \/ priorityQueue # << >>)
                  => \E p \in Producers : producerPC[p] = "notify"

\* ... nor through the completion of the one it waits for.
NoLostCompletion == threadPC = "jobAwait" /\ nextFunc \in jobDone
                      => nodePC \in {"reinit", "notify"} /\ asyncData = nextFunc

\* So nothing the scheduler thread or the node thread waits for is ever lost
\* (AsyncNodeScheduler.cpp:63, 76-88, 149-187).
NoLostSignal == NoLostSend /\ NoLostWakeup /\ NoLostCompletion

\* The inductive invariant behind them.  Queued NodeJobs are distinct and new ...
QueueInv ==
  /\ ran \subseteq 1..adds
  /\ nextFunc # NoTask => nextFunc \in 1..adds
  /\ \A i \in DOMAIN workQueue :
       /\ workQueue[i] \in (1..adds) \ ran /\ workQueue[i] # nextFunc
       /\ \A k \in DOMAIN workQueue : workQueue[i] = workQueue[k] => i = k
       /\ \A k \in DOMAIN priorityQueue : workQueue[i] # priorityQueue[k]
  /\ \A i \in DOMAIN priorityQueue :
       /\ priorityQueue[i] \in (1..adds) \ ran /\ priorityQueue[i] # nextFunc
       /\ \A k \in DOMAIN priorityQueue : priorityQueue[i] = priorityQueue[k] => i = k

\* ... a NodeJob is run, marked done and freed in this order ...
LifeInv == /\ jobDone \subseteq ran
           /\ freed \subseteq jobDone
           /\ nextFunc \notin freed

\* ... the lock is the scheduler thread's while it tests jobDone ...
MutexInv == /\ jobMutex = "thread" <=> threadPC = "jobTest"
            /\ nextFunc = NoTask <=> threadPC \in {"test", "await"}

\* ... and with the NodeJob that has been handed over exactly one thing is going on:
\* nothing yet, or it is rung, in the handler, done and to be notified, or notified.
NotSent   == threadPC \in {"test", "await", "send"} /\ nodePC \in {"loop", "after"}
             /\ ~async.pending /\ nextFunc \notin ran
Rung      == threadPC \in {"jobTest", "jobAwait"} /\ nodePC \in {"loop", "after"}
             /\ async.pending /\ async.data = nextFunc /\ nextFunc \notin ran
InHandler == threadPC \in {"jobTest", "jobAwait"} /\ nodePC \in {"run", "done"}
             /\ ~async.pending /\ asyncData = nextFunc /\ nextFunc \notin jobDone
             /\ (nextFunc \in ran <=> nodePC = "done")
Done      == threadPC = "jobAwait" /\ nodePC \in {"reinit", "notify"}
             /\ ~async.pending /\ asyncData = nextFunc /\ nextFunc \in jobDone
Notified  == threadPC \in {"jobLock", "jobTest"} /\ nodePC \in {"loop", "after"}
             /\ ~async.pending /\ nextFunc \in jobDone
HandOverInv == NotSent \/ Rung \/ InHandler \/ Done \/ Notified

Inv == TypeOK /\ QueueInv /\ LifeInv /\ MutexInv /\ HandOverInv /\ NoLostWakeup

\* The scheduler's users see NodeExecutor: one task at a time on the node thread,
\* priority first, each task run exactly once, none forgotten.
Executor == INSTANCE NodeExecutor
              WITH normal <- workQueue, priority <- priorityQueue,
                   picked <- IF nextFunc \in ran THEN NoTask ELSE nextFunc,
                   running <- (nodePC = "run")
ExecutorSafe == Executor!SafeSpec
ExecutorSpec == Executor!Spec
================================================================================
