--------------------------- MODULE AsyncJobScheduler ---------------------------
(***************************************************************************)
(* Duktype::AsyncJobScheduler (AsyncJobScheduler.cpp): one worker thread   *)
(* that runs the functions handed to addWork.  AsyncContext owns two, one  *)
(* that carries whole jobs and one that is the only background user of the *)
(* Duktape heap.  The model is at the grain of the mutex: every lock,      *)
(* unlock, test of a wait's predicate, block and notify is a step.         *)
(*                                                                         *)
(* Threads: the Owner constructs and destroys the scheduler, the Worker is *)
(* the thread in run(), each Producer calls addWork.  A blocked            *)
(* wait(lk, pred) is a pc of its own ("await" for _workNotify, "ctorWait"  *)
(* for _threadStartWait); notify_one moves it on, and so may a spurious    *)
(* wakeup, after which the lock is retaken and the predicate tested again. *)
(***************************************************************************)
EXTENDS Naturals, Sequences

CONSTANTS Jobs,       \* functions that may be handed to addWork
          NoJob,      \* nextFunc is empty
          Producers,  \* threads that call addWork
          Owner,      \* the thread that constructs and destroys
          Worker,     \* the thread in run()
          Free,       \* holder of an unlocked mutex
          MaxAdds,    \* bound on the calls of addWork
          MaxSpurious \* bound on the waits that return without a notify

Threads == Producers \cup {Owner, Worker}

ASSUME JobAssumption == NoJob \notin Jobs
ASSUME ThreadAssumption == /\ Owner \notin Producers
                           /\ Worker \notin Producers
                           /\ Owner # Worker
                           /\ Free \notin Threads
ASSUME BoundAssumption == MaxAdds \in Nat /\ MaxSpurious \in Nat

VARIABLES workQueue,      \* _workQueue
          exiting,        \* _exiting
          threadRunning,  \* _threadRunning
          queueMutex,     \* holder of _queueMutex
          startMutex,     \* holder of _threadStartMutex
          nextFunc,       \* the worker's nextFunc while it is being called
          pc,             \* where each thread is
          adds,           \* calls of addWork so far
          spurious        \* spurious wakeups so far

vars == <<workQueue, exiting, threadRunning, queueMutex, startMutex, nextFunc,
          pc, adds, spurious>>

OwnerPC    == {"ctor", "ctorTest", "ctorWait", "ctorLock", "live",
               "dtorSet", "dtorNotify", "join", "gone"}
WorkerPC   == {"none", "begin", "beginNotify", "loop", "lock", "test", "block",
               "await", "exec", "end", "exited"}
ProducerPC == {"idle", "push", "notify"}

\* Thread t goes from one label to the next.
Go(t, from, to) == pc[t] = from /\ pc' = [pc EXCEPT ![t] = to]

\* _workNotify.notify_one() by thread t, which then goes on at label to.
NotifyWorker(t, from, to) ==
  /\ pc[t] = from
  /\ pc' = IF pc[Worker] = "await"
           THEN [pc EXCEPT ![t] = to, ![Worker] = "lock"]
           ELSE [pc EXCEPT ![t] = to]

Lock(mutex, t) == mutex = Free /\ mutex' = t
Unlock(mutex)  == mutex' = Free

\* _threadRunning has no initializer (AsyncJobScheduler.h): it may start TRUE.
Init == /\ workQueue = << >>
        /\ exiting = FALSE
        /\ threadRunning \in BOOLEAN
        /\ queueMutex = Free
        /\ startMutex = Free
        /\ nextFunc = NoJob
        /\ pc = [t \in Threads |-> IF t = Owner THEN "ctor"
                                ELSE IF t = Worker THEN "none" ELSE "idle"]
        /\ adds = 0
        /\ spurious = 0

--------------------------------------------------------------------------------
(* The constructor: start the thread under _threadStartMutex and wait until   *)
(* it says that it runs.                                                      *)

CtorSpawn == /\ pc[Owner] = "ctor"
             /\ Lock(startMutex, Owner)
             /\ pc' = [pc EXCEPT ![Owner] = "ctorTest", ![Worker] = "begin"]
             /\ UNCHANGED <<workQueue, exiting, threadRunning, queueMutex,
                            nextFunc, adds, spurious>>

\* The predicate is tested with the lock held; either way the lock is released.
CtorTest == /\ Go(Owner, "ctorTest",
                  IF threadRunning THEN "live" ELSE "ctorWait")
            /\ Unlock(startMutex)
            /\ UNCHANGED <<workQueue, exiting, threadRunning, queueMutex,
                           nextFunc, adds, spurious>>

CtorLock == /\ Go(Owner, "ctorLock", "ctorTest")
            /\ Lock(startMutex, Owner)
            /\ UNCHANGED <<workQueue, exiting, threadRunning, queueMutex,
                           nextFunc, adds, spurious>>

--------------------------------------------------------------------------------
(* The destructor.  It runs when the last shared_ptr is dropped, and a caller *)
(* of addWork holds one for the length of the call, so no call is under way.  *)

DtorLock == /\ \A p \in Producers : pc[p] = "idle"
            /\ Go(Owner, "live", "dtorSet")
            /\ Lock(queueMutex, Owner)
            /\ UNCHANGED <<workQueue, exiting, threadRunning, startMutex,
                           nextFunc, adds, spurious>>

\* Mutant: _exiting is never set.
DtorSet_Forgotten ==
  /\ Go(Owner, "dtorSet", "dtorNotify")
  /\ Unlock(queueMutex)
  /\ UNCHANGED <<workQueue, exiting, threadRunning, startMutex, nextFunc, adds,
                 spurious>>

DtorSet == /\ Go(Owner, "dtorSet", "dtorNotify")
           /\ exiting' = TRUE
           /\ Unlock(queueMutex)
           /\ UNCHANGED <<workQueue, threadRunning, startMutex, nextFunc, adds,
                          spurious>>

DtorNotify == /\ NotifyWorker(Owner, "dtorNotify", "join")
              /\ UNCHANGED <<workQueue, exiting, threadRunning, queueMutex,
                             startMutex, nextFunc, adds, spurious>>

\* Mutant: the thread is detached, not joined.
DtorJoin_Detached ==
  /\ Go(Owner, "join", "gone")
  /\ UNCHANGED <<workQueue, exiting, threadRunning, queueMutex, startMutex,
                 nextFunc, adds, spurious>>

DtorJoin == /\ pc[Worker] = "exited"
            /\ Go(Owner, "join", "gone")
            /\ UNCHANGED <<workQueue, exiting, threadRunning, queueMutex,
                           startMutex, nextFunc, adds, spurious>>

--------------------------------------------------------------------------------
(* addWork, called by producer p through a weak_ptr it has locked.            *)

AddLock(p) == /\ pc[Owner] = "live"
              /\ adds < MaxAdds
              /\ Go(p, "idle", "push")
              /\ Lock(queueMutex, p)
              /\ adds' = adds + 1
              /\ UNCHANGED <<workQueue, exiting, threadRunning, startMutex,
                             nextFunc, spurious>>

\* Mutant: an empty function is pushed.
AddPush_MovedFrom(p, j) ==
  /\ Go(p, "push", "notify")
  /\ workQueue' = Append(workQueue, NoJob)
  /\ Unlock(queueMutex)
  /\ UNCHANGED <<exiting, threadRunning, startMutex, nextFunc, adds, spurious>>

AddPush(p, j) == /\ Go(p, "push", "notify")
                 /\ workQueue' = Append(workQueue, j)
                 /\ Unlock(queueMutex)
                 /\ UNCHANGED <<exiting, threadRunning, startMutex, nextFunc,
                                adds, spurious>>

\* Mutant: addWork forgets to notify.
AddNotify_Omitted(p) ==
  /\ Go(p, "notify", "idle")
  /\ UNCHANGED <<workQueue, exiting, threadRunning, queueMutex, startMutex,
                 nextFunc, adds, spurious>>

AddNotify(p) == /\ NotifyWorker(p, "notify", "idle")
                /\ UNCHANGED <<workQueue, exiting, threadRunning, queueMutex,
                               startMutex, nextFunc, adds, spurious>>

--------------------------------------------------------------------------------
(* run(), the worker thread.                                                  *)

\* Nobody can look at threadRunning between the lock and the unlock, so the
\* critical section is one step.
RunBegin == /\ startMutex = Free
            /\ Go(Worker, "begin", "beginNotify")
            /\ threadRunning' = TRUE
            /\ UNCHANGED <<workQueue, exiting, queueMutex, startMutex, nextFunc,
                           adds, spurious>>

\* Mutant: run() forgets to notify the constructor.
RunNotify_Omitted ==
  /\ Go(Worker, "beginNotify", "loop")
  /\ UNCHANGED <<workQueue, exiting, threadRunning, queueMutex, startMutex,
                 nextFunc, adds, spurious>>

RunNotify == /\ pc[Worker] = "beginNotify"
             /\ pc' = IF pc[Owner] = "ctorWait"
                      THEN [pc EXCEPT ![Worker] = "loop", ![Owner] = "ctorLock"]
                      ELSE [pc EXCEPT ![Worker] = "loop"]
             /\ UNCHANGED <<workQueue, exiting, threadRunning, queueMutex,
                            startMutex, nextFunc, adds, spurious>>

\* while (!_exiting), read without the lock.
LoopTest == /\ Go(Worker, "loop", IF exiting THEN "end" ELSE "lock")
            /\ UNCHANGED <<workQueue, exiting, threadRunning, queueMutex,
                           startMutex, nextFunc, adds, spurious>>

LockQueue == /\ Go(Worker, "lock", "test")
             /\ Lock(queueMutex, Worker)
             /\ UNCHANGED <<workQueue, exiting, threadRunning, startMutex,
                            nextFunc, adds, spurious>>

\* The predicate is false: the worker is about to block and still holds the lock.
WaitTest == /\ workQueue = << >> /\ ~exiting
            /\ Go(Worker, "test", "block")
            /\ UNCHANGED <<workQueue, exiting, threadRunning, queueMutex,
                           startMutex, nextFunc, adds, spurious>>

\* wait() releases the lock and blocks in one step.
WaitBlock == /\ Go(Worker, "block", "await")
             /\ Unlock(queueMutex)
             /\ UNCHANGED <<workQueue, exiting, threadRunning, startMutex,
                            nextFunc, adds, spurious>>

BreakOut == /\ exiting
            /\ Go(Worker, "test", "end")
            /\ Unlock(queueMutex)
            /\ UNCHANGED <<workQueue, exiting, threadRunning, startMutex,
                           nextFunc, adds, spurious>>

\* Mutant: the newest job is taken, not the oldest.
PopWork_Newest ==
  /\ ~exiting /\ workQueue # << >>
  /\ Go(Worker, "test", "exec")
  /\ nextFunc' = workQueue[Len(workQueue)]
  /\ workQueue' = SubSeq(workQueue, 1, Len(workQueue) - 1)
  /\ Unlock(queueMutex)
  /\ UNCHANGED <<exiting, threadRunning, startMutex, adds, spurious>>

PopWork == /\ ~exiting /\ workQueue # << >>
           /\ Go(Worker, "test", "exec")
           /\ nextFunc' = Head(workQueue)
           /\ workQueue' = Tail(workQueue)
           /\ Unlock(queueMutex)
           /\ UNCHANGED <<exiting, threadRunning, startMutex, adds, spurious>>

\* The function returns or throws: catch(...) makes the two the same.
ExecDone == /\ Go(Worker, "exec", "loop")
            /\ nextFunc' = NoJob
            /\ UNCHANGED <<workQueue, exiting, threadRunning, queueMutex,
                           startMutex, adds, spurious>>

RunEnd == /\ startMutex = Free
          /\ Go(Worker, "end", "exited")
          /\ threadRunning' = FALSE
          /\ UNCHANGED <<workQueue, exiting, queueMutex, startMutex, nextFunc,
                         adds, spurious>>

--------------------------------------------------------------------------------
\* A wait may return without a notify.
SpuriousWakeup == /\ spurious < MaxSpurious
                  /\ spurious' = spurious + 1
                  /\ \/ Go(Worker, "await", "lock")
                     \/ Go(Owner, "ctorWait", "ctorLock")
                  /\ UNCHANGED <<workQueue, exiting, threadRunning, queueMutex,
                                 startMutex, nextFunc, adds>>

\* The scheduler is destroyed: nothing is left to do.
Terminated == pc[Owner] = "gone" /\ UNCHANGED vars

OwnerStep == CtorSpawn \/ CtorTest \/ CtorLock \/ DtorLock \/ DtorSet
             \/ DtorNotify \/ DtorJoin
ProducerStep(p) == AddLock(p) \/ AddNotify(p) \/ \E j \in Jobs : AddPush(p, j)
WorkerStep == RunBegin \/ RunNotify \/ LoopTest \/ LockQueue \/ WaitTest
              \/ WaitBlock \/ BreakOut \/ PopWork \/ ExecDone \/ RunEnd

Next == OwnerStep \/ WorkerStep \/ SpuriousWakeup \/ Terminated
        \/ \E p \in Producers : ProducerStep(p)

SafeSpec == Init /\ [][Next]_vars

(***************************************************************************)
(* A thread that can run does run, and the jobs return.  Nothing forces a  *)
(* call of addWork or the destructor to begin; once begun, they go on.     *)
(***************************************************************************)
OwnerGoesOn       == CtorSpawn \/ CtorTest \/ CtorLock \/ DtorSet \/ DtorNotify
                     \/ DtorJoin
ProducerGoesOn(p) == AddNotify(p) \/ \E j \in Jobs : AddPush(p, j)

Spec == /\ SafeSpec
        /\ WF_vars(WorkerStep)
        /\ WF_vars(OwnerGoesOn)
        /\ \A p \in Producers : WF_vars(ProducerGoesOn(p))

--------------------------------------------------------------------------------
(* Properties.                                                                *)

TypeOK == /\ workQueue \in Seq(Jobs)
          /\ exiting \in BOOLEAN
          /\ threadRunning \in BOOLEAN
          /\ queueMutex \in Threads \cup {Free}
          /\ startMutex \in {Owner, Free}
          /\ nextFunc \in Jobs \cup {NoJob}
          /\ pc \in [Threads -> OwnerPC \cup WorkerPC \cup ProducerPC]
          /\ pc[Owner] \in OwnerPC
          /\ pc[Worker] \in WorkerPC
          /\ \A p \in Producers : pc[p] \in ProducerPC
          /\ adds \in 0..MaxAdds
          /\ spurious \in 0..MaxSpurious

\* The worker never sleeps through work or through the order to stop: while it is
\* blocked and the predicate it waits for is true, a notify_one is still to come
\* (addWork and the destructor notify after they unlock).
NoLostWork == pc[Worker] = "await" /\ (workQueue # << >> \/ exiting)
                  => \/ pc[Owner] = "dtorNotify"
                     \/ \E p \in Producers : pc[p] = "notify"

\* Nor the constructor through the thread's start: it waits for _threadRunning.
NoLostStart == pc[Owner] = "ctorWait" /\ threadRunning
                 => pc[Worker] = "beginNotify"

\* Nobody sleeps through what it waits for (AsyncJobScheduler.cpp:11, 45).
NoLostWakeup == NoLostWork /\ NoLostStart

\* When the destructor has joined, the members can be freed: no mutex is held, no
\* job is being called and no thread is inside a member function.
DestroyedUnused == pc[Owner] = "gone" =>
                     /\ queueMutex = Free /\ startMutex = Free
                     /\ nextFunc = NoJob
                     /\ pc[Worker] = "exited"
                     /\ \A p \in Producers : pc[p] = "idle"

\* The inductive invariant behind them: who holds each mutex, what the worker has
\* already established when it is about to block, and which phase of the object's
\* life allows which labels.
QueueMutexInv == /\ queueMutex = Worker <=> pc[Worker] \in {"test", "block"}
                 /\ queueMutex = Owner <=> pc[Owner] = "dtorSet"
                 /\ \A p \in Producers : queueMutex = p <=> pc[p] = "push"
StartMutexInv == startMutex = Owner <=> pc[Owner] = "ctorTest"
BlockInv == pc[Worker] = "block" => workQueue = << >> /\ ~exiting
ExecInv  == nextFunc # NoJob <=> pc[Worker] = "exec"
PhaseInv == /\ pc[Owner] = "ctor" <=> pc[Worker] = "none"
            /\ exiting <=> pc[Owner] \in {"dtorNotify", "join", "gone"}
            /\ pc[Worker] \in {"end", "exited"} => exiting
            /\ pc[Owner] = "gone" => pc[Worker] = "exited"
            /\ pc[Owner] # "live" => \A p \in Producers : pc[p] = "idle"

Inv == /\ TypeOK /\ QueueMutexInv /\ StartMutexInv /\ BlockInv /\ ExecInv
       /\ PhaseInv /\ NoLostWork /\ NoLostStart

\* Callers see a serial executor: first in first out, one job at a time, nothing
\* started once _exiting is set, and no job left waiting while the worker sleeps.
Executor == INSTANCE SerialExecutor
              WITH pending <- workQueue, current <- nextFunc, closed <- exiting
ExecutorSafe == Executor!SafeSpec
ExecutorSpec == Executor!Spec

\* The constructor returns, whatever _threadRunning holds at first, and so does a
\* destructor that has begun, whatever is queued or running (AsyncJobScheduler.cpp:7-22).
OwnerReturns == /\ <>(pc[Owner] = "live")
                /\ (pc[Owner] = "dtorSet") ~> (pc[Owner] = "gone")

================================================================================
