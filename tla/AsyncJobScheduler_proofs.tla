----------------------- MODULE AsyncJobScheduler_proofs -----------------------
(***************************************************************************)
(* Safety of AsyncJobScheduler for any set of jobs, any set of producers   *)
(* and any number of calls: its inductive invariant, what follows from it, *)
(* and that it implements the safety part of SerialExecutor.               *)
(***************************************************************************)
EXTENDS AsyncJobScheduler, TLAPS

USE JobAssumption, ThreadAssumption, BoundAssumption

\* The invariant holds when the constructor is entered.
LEMMA InitInv == Init => Inv
<1> SUFFICES ASSUME Init PROVE Inv
  OBVIOUS
<1>1. /\ pc \in [Threads -> {"ctor", "none", "idle"}]
      /\ pc[Owner] = "ctor"
      /\ pc[Worker] = "none"
      /\ \A p \in Producers : pc[p] = "idle"
  BY DEF Init, Threads
<1>2. TypeOK
  <2>1. pc \in [Threads -> OwnerPC \cup WorkerPC \cup ProducerPC]
    BY <1>1 DEF OwnerPC, WorkerPC, ProducerPC
  <2>2. workQueue \in Seq(Jobs) /\ adds \in 0..MaxAdds /\ spurious \in 0..MaxSpurious
    BY BoundAssumption DEF Init
  <2> QED
    BY <1>1, <2>1, <2>2 DEF Init, TypeOK, OwnerPC, WorkerPC, ProducerPC
<1>3. QueueMutexInv /\ StartMutexInv
  BY <1>1 DEF Init, QueueMutexInv, StartMutexInv, Threads
<1>4. BlockInv /\ ExecInv /\ PhaseInv /\ NoLostWork /\ NoLostStart
  BY <1>1 DEF Init, BlockInv, ExecInv, PhaseInv, NoLostWork, NoLostStart
<1> QED
  BY <1>2, <1>3, <1>4 DEF Inv

\* Every step of every thread preserves the invariant.
LEMMA StepInv == Inv /\ [Next]_vars => Inv'
<1> SUFFICES ASSUME Inv, [Next]_vars PROVE Inv'
  OBVIOUS
<1> USE DEF Inv, TypeOK, QueueMutexInv, StartMutexInv, BlockInv, ExecInv,
            PhaseInv, NoLostWork, NoLostStart, Threads, OwnerPC, WorkerPC,
            ProducerPC, Go, Lock, Unlock, NotifyWorker
<1>1. CASE CtorSpawn
  BY <1>1 DEF CtorSpawn
<1>2. CASE CtorTest
  BY <1>2 DEF CtorTest
<1>3. CASE CtorLock
  BY <1>3 DEF CtorLock
<1>4. CASE DtorLock
  BY <1>4 DEF DtorLock
<1>5. CASE DtorSet
  BY <1>5 DEF DtorSet
<1>6. CASE DtorNotify
  BY <1>6 DEF DtorNotify
<1>7. CASE DtorJoin
  BY <1>7 DEF DtorJoin
<1>8. ASSUME NEW p \in Producers, AddLock(p) PROVE Inv'
  BY <1>8 DEF AddLock
<1>9. ASSUME NEW p \in Producers, NEW j \in Jobs, AddPush(p, j) PROVE Inv'
  BY <1>9 DEF AddPush
<1>10. ASSUME NEW p \in Producers, AddNotify(p) PROVE Inv'
  BY <1>10 DEF AddNotify
<1>11. CASE RunBegin
  BY <1>11 DEF RunBegin
<1>12. CASE RunNotify
  BY <1>12 DEF RunNotify
<1>13. CASE LoopTest
  BY <1>13 DEF LoopTest
<1>14. CASE LockQueue
  BY <1>14 DEF LockQueue
<1>15. CASE WaitTest
  BY <1>15 DEF WaitTest
<1>16. CASE WaitBlock
  BY <1>16 DEF WaitBlock
<1>17. CASE BreakOut
  BY <1>17 DEF BreakOut
<1>18. CASE PopWork
  BY <1>18 DEF PopWork
<1>19. CASE ExecDone
  BY <1>19 DEF ExecDone
<1>20. CASE RunEnd
  BY <1>20 DEF RunEnd
<1>21. CASE SpuriousWakeup
  BY <1>21 DEF SpuriousWakeup
<1>22. CASE UNCHANGED vars
  BY <1>22 DEF vars
<1> QED
  BY <1>1, <1>2, <1>3, <1>4, <1>5, <1>6, <1>7, <1>8, <1>9, <1>10, <1>11, <1>12,
     <1>13, <1>14, <1>15, <1>16, <1>17, <1>18, <1>19, <1>20, <1>21, <1>22
     DEF Next, OwnerStep, ProducerStep, WorkerStep, Terminated

\* Every reachable state satisfies the invariant.
LEMMA Invariance == SafeSpec => []Inv
<1> QED
  BY InitInv, StepInv, PTL DEF SafeSpec

\* Type correctness: no empty function is ever queued or called, every mutex is
\* held by a thread that exists, every thread is in a function of its own.
THEOREM TypeCorrect == SafeSpec => []TypeOK
<1>1. Inv => TypeOK
  BY DEF Inv
<1> QED
  BY <1>1, Invariance, PTL

\* The worker never sleeps through a job or through the order to stop, nor the
\* constructor through the start of the thread.
THEOREM NoWakeupLost == SafeSpec => []NoLostWakeup
<1>1. Inv => NoLostWakeup
  BY DEF Inv, NoLostWakeup
<1> QED
  BY <1>1, Invariance, PTL

\* A destroyed scheduler is unused: the members of the object can be freed.
THEOREM Destroyed == SafeSpec => []DestroyedUnused
<1>1. Inv => DestroyedUnused
  <2> SUFFICES ASSUME Inv, pc[Owner] = "gone" PROVE DestroyedUnused
    BY DEF DestroyedUnused
  <2>1. pc[Worker] = "exited" /\ \A p \in Producers : pc[p] = "idle"
    BY DEF Inv, PhaseInv
  <2>2. queueMutex = Free
    BY <2>1 DEF Inv, TypeOK, QueueMutexInv, Threads
  <2>3. startMutex = Free
    BY DEF Inv, TypeOK, StartMutexInv
  <2>4. nextFunc = NoJob
    BY <2>1 DEF Inv, ExecInv
  <2> QED
    BY <2>1, <2>2, <2>3, <2>4 DEF DestroyedUnused
<1> QED
  BY <1>1, Invariance, PTL

-------------------------------------------------------------------------------
\* The initial states are initial states of the serial executor.
LEMMA InitRefines == Init => Executor!Init
  BY DEF Init, Executor!Init

\* Every step hands in a job, starts the oldest, ends the one that runs, begins
\* the destruction, or is invisible to the callers.
LEMMA StepRefines == Inv /\ [Next]_vars => [Executor!Next]_(Executor!vars)
<1> SUFFICES ASSUME Inv, [Next]_vars PROVE [Executor!Next]_(Executor!vars)
  OBVIOUS
<1> USE DEF Executor!vars
<1>1. CASE OwnerStep
  <2>1. CASE DtorSet
    <3>1. ~exiting
      BY <2>1 DEF DtorSet, Go, Inv, PhaseInv
    <3> QED
      BY <2>1, <3>1 DEF DtorSet, Executor!Close, Executor!Next
  <2>2. CASE OwnerStep /\ ~DtorSet
    BY <2>2 DEF OwnerStep, CtorSpawn, CtorTest, CtorLock, DtorLock, DtorNotify,
       DtorJoin
  <2> QED
    BY <1>1, <2>1, <2>2
<1>2. CASE WorkerStep
  <2>1. CASE PopWork
    <3>1. nextFunc = NoJob
      BY <2>1 DEF PopWork, Go, Inv, ExecInv
    <3> QED
      BY <2>1, <3>1 DEF PopWork, Executor!Start, Executor!Next
  <2>2. CASE ExecDone
    <3>1. nextFunc # NoJob
      BY <2>2 DEF ExecDone, Go, Inv, ExecInv
    <3> QED
      BY <2>2, <3>1 DEF ExecDone, Executor!Finish, Executor!Next
  <2>3. CASE WorkerStep /\ ~PopWork /\ ~ExecDone
    BY <2>3 DEF WorkerStep, RunBegin, RunNotify, LoopTest, LockQueue, WaitTest,
       WaitBlock, BreakOut, RunEnd
  <2> QED
    BY <1>2, <2>1, <2>2, <2>3
<1>3. ASSUME NEW p \in Producers, ProducerStep(p)
      PROVE  [Executor!Next]_(Executor!vars)
  <2>1. ASSUME NEW j \in Jobs, AddPush(p, j)
        PROVE  [Executor!Next]_(Executor!vars)
    <3>1. ~exiting
      BY <2>1 DEF AddPush, Go, Inv, PhaseInv
    <3> QED
      BY <2>1, <3>1 DEF AddPush, Executor!Submit, Executor!Next
  <2>2. CASE AddLock(p) \/ AddNotify(p)
    BY <2>2 DEF AddLock, AddNotify
  <2> QED
    BY <1>3, <2>1, <2>2 DEF ProducerStep
<1>4. CASE SpuriousWakeup \/ Terminated \/ UNCHANGED vars
  BY <1>4 DEF SpuriousWakeup, Terminated, vars
<1> QED
  BY <1>1, <1>2, <1>3, <1>4 DEF Next

\* Callers of AsyncJobScheduler may reason with SerialExecutor instead: first in
\* first out, one job at a time, nothing started once destruction has begun.
THEOREM ImplementsExecutor == SafeSpec => ExecutorSafe
<1> QED
  BY InitRefines, StepRefines, Invariance, PTL
     DEF SafeSpec, ExecutorSafe, Executor!SafeSpec
===============================================================================
