----------------------- MODULE AsyncNodeScheduler_proofs -----------------------
(***************************************************************************)
(* Safety of AsyncNodeScheduler for any set of producers and any number of *)
(* tasks, as long as the wait for jobDone returns only when notified: its  *)
(* inductive invariant, what follows from it, and that it implements the   *)
(* safety part of NodeExecutor.                                            *)
(***************************************************************************)
EXTENDS AsyncNodeScheduler, TLAPS

USE NodeBoundAssumption, NodeTaskAssumption

\* The invariant holds when the constructor has returned.
LEMMA InitInv == Init => Inv
<1> SUFFICES ASSUME Init PROVE Inv
  OBVIOUS
<1>1. TypeOK
  <2>1. workQueue \in Seq(Tasks) /\ priorityQueue \in Seq(Tasks)
    BY DEF Init
  <2>2. adds \in 0..MaxAdds /\ spurious \in 0..MaxSpurious
    BY DEF Init
  <2> QED
    BY <2>1, <2>2 DEF Init, TypeOK
<1>2. QueueInv /\ LifeInv /\ MutexInv /\ NoLostWakeup
  BY DEF Init, QueueInv, LifeInv, MutexInv, NoLostWakeup
<1>3. HandOverInv
  BY DEF Init, HandOverInv, NotSent
<1> QED
  BY <1>1, <1>2, <1>3 DEF Inv

\* What Head and Tail are of, element by element.
LEMMA HeadTail ==
  ASSUME NEW s \in Seq(Tasks), s # << >>
  PROVE  /\ Head(s) \in Tasks /\ Tail(s) \in Seq(Tasks)
         /\ 1 \in DOMAIN s /\ Head(s) = s[1]
         /\ \A i \in DOMAIN Tail(s) : /\ i \in Nat /\ i # 0 /\ i + 1 \in DOMAIN s
                                     /\ Tail(s)[i] = s[i + 1]
OBVIOUS

\* The two ways in which a queue grows, element by element.
LEMMA Grown ==
  ASSUME NEW s \in Seq(Tasks), NEW t \in Tasks
  PROVE  /\ Append(s, t) \in Seq(Tasks) /\ <<t>> \o s \in Seq(Tasks)
         /\ \A i \in DOMAIN Append(s, t) :
              \/ i \in DOMAIN s /\ Append(s, t)[i] = s[i]
              \/ i = Len(s) + 1 /\ Append(s, t)[i] = t
         /\ \A i \in DOMAIN (<<t>> \o s) :
              /\ i \in Nat
              /\ \/ i = 1 /\ (<<t>> \o s)[i] = t
                 \/ i # 1 /\ i - 1 \in DOMAIN s /\ (<<t>> \o s)[i] = s[i - 1]
OBVIOUS

\* Every step of every thread preserves the invariant.
LEMMA StepInv ==
  ASSUME "jobAwait" \notin SpuriousWaits, Inv, [Next]_vars
  PROVE  Inv'
<1> USE DEF Inv, LifeInv, MutexInv, HandOverInv, NotSent, Rung, InHandler, Done,
            Notified, NoLostWakeup
<1>1. CASE WaitForWork
  <2>1. TypeOK'
    BY <1>1 DEF WaitForWork, TypeOK, queues, counters
  <2>2. QueueInv'
    BY <1>1 DEF WaitForWork, QueueInv, queues, counters
  <2>3. LifeInv' /\ MutexInv'
    BY <1>1 DEF WaitForWork, TypeOK, QueueInv
  <2>4. HandOverInv' /\ NoLostWakeup'
    BY <1>1 DEF WaitForWork, TypeOK, queues
  <2> QED
    BY <2>1, <2>2, <2>3, <2>4
<1>2. CASE SendAsync
  <2>1. TypeOK'
    BY <1>2 DEF SendAsync, TypeOK, queues, counters
  <2>2. QueueInv'
    BY <1>2 DEF SendAsync, QueueInv, queues, counters
  <2>3. LifeInv' /\ MutexInv'
    BY <1>2 DEF SendAsync, TypeOK, QueueInv
  <2>4. HandOverInv' /\ NoLostWakeup'
    BY <1>2 DEF SendAsync, TypeOK, queues
  <2> QED
    BY <2>1, <2>2, <2>3, <2>4
<1>3. CASE JobWait
  <2>1. TypeOK'
    BY <1>3 DEF JobWait, TypeOK, queues, counters
  <2>2. QueueInv'
    BY <1>3 DEF JobWait, QueueInv, queues, counters
  <2>3. LifeInv' /\ MutexInv'
    BY <1>3 DEF JobWait, TypeOK, QueueInv
  <2>4. HandOverInv' /\ NoLostWakeup'
    BY <1>3 DEF JobWait, TypeOK, queues
  <2> QED
    BY <2>1, <2>2, <2>3, <2>4
<1>4. CASE JobFinished
  <2>1. TypeOK'
    BY <1>4 DEF JobFinished, TypeOK, queues, counters
  <2>2. QueueInv'
    BY <1>4 DEF JobFinished, QueueInv, queues, counters
  <2>3. NoTask \notin Tasks
    BY DEF Tasks
  <2>4. /\ nextFunc # NoTask /\ nextFunc \in ran
        /\ nodePC \in {"loop", "after"} /\ ~async.pending
    BY <1>4 DEF JobFinished
  <2>5. LifeInv' /\ MutexInv'
    BY <1>4, <2>3, <2>4 DEF JobFinished, TypeOK
  <2>6. HandOverInv'
    <3>1. NotSent'
      BY <1>4, <2>3, <2>4 DEF JobFinished, TypeOK
    <3> QED
      BY <3>1
  <2>7. NoLostWakeup'
    BY <1>4 DEF JobFinished
  <2> QED
    BY <2>1, <2>2, <2>5, <2>6, <2>7
<1>5. CASE JobRelock
  <2>1. TypeOK'
    BY <1>5 DEF JobRelock, TypeOK, queues, counters
  <2>2. QueueInv'
    BY <1>5 DEF JobRelock, QueueInv, queues, counters
  <2>3. LifeInv' /\ MutexInv'
    BY <1>5 DEF JobRelock, TypeOK, QueueInv
  <2>4. HandOverInv' /\ NoLostWakeup'
    BY <1>5 DEF JobRelock, TypeOK, queues
  <2> QED
    BY <2>1, <2>2, <2>3, <2>4
<1>6. CASE AsyncFires
  <2>1. TypeOK'
    BY <1>6 DEF AsyncFires, TypeOK, queues, counters
  <2>2. QueueInv'
    BY <1>6 DEF AsyncFires, QueueInv, queues, counters
  <2>3. LifeInv' /\ MutexInv'
    BY <1>6 DEF AsyncFires, TypeOK, QueueInv
  <2>4. HandOverInv' /\ NoLostWakeup'
    BY <1>6 DEF AsyncFires, TypeOK, queues
  <2> QED
    BY <2>1, <2>2, <2>3, <2>4
<1>7. CASE RunFunc
  <2>1. TypeOK'
    BY <1>7 DEF RunFunc, TypeOK, queues, counters
  <2>2. QueueInv'
    BY <1>7 DEF RunFunc, QueueInv, queues, counters
  <2>3. LifeInv' /\ MutexInv'
    BY <1>7 DEF RunFunc, TypeOK, QueueInv
  <2>4. HandOverInv' /\ NoLostWakeup'
    BY <1>7 DEF RunFunc, TypeOK, queues
  <2> QED
    BY <2>1, <2>2, <2>3, <2>4
<1>8. CASE MarkDone
  <2>1. TypeOK'
    BY <1>8 DEF MarkDone, TypeOK, queues, counters
  <2>2. QueueInv'
    BY <1>8 DEF MarkDone, QueueInv, queues, counters
  <2>3. LifeInv' /\ MutexInv'
    BY <1>8 DEF MarkDone, TypeOK, QueueInv
  <2>4. HandOverInv' /\ NoLostWakeup'
    BY <1>8 DEF MarkDone, TypeOK, queues
  <2> QED
    BY <2>1, <2>2, <2>3, <2>4
<1>9. CASE Reinit
  <2>1. TypeOK'
    BY <1>9 DEF Reinit, TypeOK, queues, counters
  <2>2. QueueInv'
    BY <1>9 DEF Reinit, QueueInv, queues, counters
  <2>3. LifeInv' /\ MutexInv'
    BY <1>9 DEF Reinit, TypeOK, QueueInv
  <2>4. HandOverInv' /\ NoLostWakeup'
    BY <1>9 DEF Reinit, TypeOK, queues
  <2> QED
    BY <2>1, <2>2, <2>3, <2>4
<1>10. CASE NotifyJob
  <2>1. TypeOK'
    BY <1>10 DEF NotifyJob, TypeOK, queues, counters
  <2>2. QueueInv'
    BY <1>10 DEF NotifyJob, QueueInv, queues, counters
  <2>3. LifeInv' /\ MutexInv'
    BY <1>10 DEF NotifyJob, TypeOK, QueueInv
  <2>4. HandOverInv' /\ NoLostWakeup'
    BY <1>10 DEF NotifyJob, TypeOK, queues
  <2> QED
    BY <2>1, <2>2, <2>3, <2>4
<1>11. CASE AfterWork
  <2>1. TypeOK'
    BY <1>11 DEF AfterWork, TypeOK, queues, counters
  <2>2. QueueInv'
    BY <1>11 DEF AfterWork, QueueInv, queues, counters
  <2>3. LifeInv' /\ MutexInv'
    BY <1>11 DEF AfterWork, TypeOK, QueueInv
  <2>4. HandOverInv' /\ NoLostWakeup'
    BY <1>11 DEF AfterWork, TypeOK, queues
  <2> QED
    BY <2>1, <2>2, <2>3, <2>4
<1>12. CASE SpuriousWakeup
  <2>1. TypeOK'
    BY <1>12 DEF SpuriousWakeup, TypeOK, queues, counters
  <2>2. QueueInv'
    BY <1>12 DEF SpuriousWakeup, QueueInv, queues, counters
  <2>3. LifeInv' /\ MutexInv'
    BY <1>12 DEF SpuriousWakeup, TypeOK, QueueInv
  <2>4. HandOverInv' /\ NoLostWakeup'
    BY <1>12 DEF SpuriousWakeup, TypeOK, queues
  <2> QED
    BY <2>1, <2>2, <2>3, <2>4
<1>13. CASE PopWork
  <2>1. CASE priorityQueue # << >>
    <3>1. /\ nextFunc' = Head(priorityQueue) /\ priorityQueue' = Tail(priorityQueue)
          /\ UNCHANGED <<workQueue, ran, adds>>
      BY <1>13, <2>1 DEF PopWork, counters
    <3>2. TypeOK'
      BY <1>13, <2>1, <3>1, HeadTail DEF PopWork, TypeOK, counters
    <3>3. QueueInv'
      <4> DEFINE q == priorityQueue
      <4>1. q \in Seq(Tasks)
        BY DEF TypeOK
      <4>2. 1 \in DOMAIN q /\ nextFunc' = q[1]
        BY <2>1, <3>1, <4>1, HeadTail
      <4>3. \A i \in DOMAIN q' : i \in Nat /\ i # 0 /\ i + 1 \in DOMAIN q /\ q'[i] = q[i + 1]
        BY <2>1, <3>1, <4>1, HeadTail
      <4>4. \A i \in DOMAIN q' : /\ q'[i] \in (1..adds) \ ran /\ q'[i] # nextFunc'
                                 /\ \A k \in DOMAIN q' : q'[i] = q'[k] => i = k
        BY <4>2, <4>3 DEF QueueInv
      <4> QED
        BY <3>1, <4>2, <4>3, <4>4 DEF QueueInv
    <3>4. LifeInv' /\ MutexInv' /\ HandOverInv' /\ NoLostWakeup'
      <4>1. nextFunc' \in Tasks /\ nextFunc' \notin ran
        BY <2>1, <3>1, HeadTail DEF TypeOK, QueueInv
      <4> QED
        BY <1>13, <4>1 DEF PopWork, TypeOK, Tasks
    <3> QED
      BY <3>2, <3>3, <3>4
  <2>2. CASE priorityQueue = << >>
    <3>1. /\ workQueue # << >>
          /\ nextFunc' = Head(workQueue) /\ workQueue' = Tail(workQueue)
          /\ UNCHANGED <<priorityQueue, ran, adds>>
      BY <1>13, <2>2 DEF PopWork, counters
    <3>2. TypeOK'
      BY <1>13, <2>2, <3>1, HeadTail DEF PopWork, TypeOK, counters
    <3>3. QueueInv'
      <4> DEFINE q == workQueue
      <4>1. q \in Seq(Tasks)
        BY DEF TypeOK
      <4>2. 1 \in DOMAIN q /\ nextFunc' = q[1]
        BY <3>1, <4>1, HeadTail
      <4>3. \A i \in DOMAIN q' : i \in Nat /\ i # 0 /\ i + 1 \in DOMAIN q /\ q'[i] = q[i + 1]
        BY <3>1, <4>1, HeadTail
      <4>4. \A i \in DOMAIN q' : /\ q'[i] \in (1..adds) \ ran /\ q'[i] # nextFunc'
                                 /\ \A k \in DOMAIN q' : q'[i] = q'[k] => i = k
        BY <4>2, <4>3 DEF QueueInv
      <4>5. DOMAIN priorityQueue' = {}
        BY <2>2, <3>1
      <4> QED
        BY <3>1, <4>2, <4>4, <4>5 DEF QueueInv
    <3>4. LifeInv' /\ MutexInv' /\ HandOverInv' /\ NoLostWakeup'
      <4>1. nextFunc' \in Tasks /\ nextFunc' \notin ran
        BY <3>1, HeadTail DEF TypeOK, QueueInv
      <4> QED
        BY <1>13, <4>1 DEF PopWork, TypeOK, Tasks
    <3> QED
      BY <3>2, <3>3, <3>4
  <2> QED
    BY <2>1, <2>2
<1>14. ASSUME NEW p \in Producers, NEW priority \in BOOLEAN, AddWork(p, priority)
      PROVE  Inv'
  <2>1. adds + 1 \in Tasks /\ adds' = adds + 1 /\ UNCHANGED <<ran, nextFunc>>
    BY <1>14 DEF AddWork, TypeOK, Tasks
  <2>2. workQueue \in Seq(Tasks) /\ priorityQueue \in Seq(Tasks)
    BY DEF TypeOK
  <2>3. /\ ran' \subseteq 1..adds' /\ adds + 1 \notin ran
        /\ nextFunc' # NoTask => nextFunc' \in 1..adds' /\ adds + 1 # nextFunc
        /\ nextFunc # adds + 1
    BY <2>1 DEF QueueInv, TypeOK, Tasks
  <2>4. /\ \A i \in DOMAIN workQueue : workQueue[i] # adds + 1
        /\ \A i \in DOMAIN priorityQueue : priorityQueue[i] # adds + 1
        /\ 1..adds \subseteq 1..adds' /\ adds + 1 \in 1..adds'
    BY <2>1 DEF QueueInv, TypeOK
  <2>5. CASE priority
    <3>1. priorityQueue' = <<adds + 1>> \o priorityQueue /\ UNCHANGED workQueue
      BY <1>14, <2>5 DEF AddWork
    <3>2. TypeOK'
      BY <1>14, <2>1, <3>1, Grown DEF AddWork, TypeOK
    <3>3. \A i \in DOMAIN priorityQueue' :
            /\ i \in Nat
            /\ \/ i = 1 /\ priorityQueue'[i] = adds + 1
               \/ /\ i # 1 /\ i - 1 \in DOMAIN priorityQueue
                  /\ priorityQueue'[i] = priorityQueue[i - 1]
      BY <2>1, <2>2, <3>1, Grown
    <3>4. QueueInv'
      BY <2>1, <2>3, <2>4, <3>1, <3>3 DEF QueueInv
    <3> QED
      BY <1>14, <3>2, <3>4 DEF AddWork, TypeOK
  <2>6. CASE ~priority
    <3>1. workQueue' = Append(workQueue, adds + 1) /\ UNCHANGED priorityQueue
      BY <1>14, <2>6 DEF AddWork
    <3>2. TypeOK'
      BY <1>14, <2>1, <3>1, Grown DEF AddWork, TypeOK
    <3>3. \A i \in DOMAIN workQueue' :
            \/ i \in DOMAIN workQueue /\ workQueue'[i] = workQueue[i]
            \/ i = Len(workQueue) + 1 /\ workQueue'[i] = adds + 1
      BY <2>1, <2>2, <3>1, Grown
    <3>4. QueueInv'
      BY <2>1, <2>3, <2>4, <3>1, <3>3 DEF QueueInv
    <3> QED
      BY <1>14, <3>2, <3>4 DEF AddWork, TypeOK
  <2> QED
    BY <2>5, <2>6
<1>15. ASSUME NEW p \in Producers, AddNotify(p) PROVE Inv'
  <2>1. TypeOK'
    BY <1>15 DEF AddNotify, TypeOK, queues, counters
  <2>2. QueueInv'
    BY <1>15 DEF AddNotify, QueueInv, queues, counters
  <2>3. LifeInv' /\ MutexInv' /\ HandOverInv' /\ NoLostWakeup'
    BY <1>15 DEF AddNotify, TypeOK, queues
  <2> QED
    BY <2>1, <2>2, <2>3
<1>16. CASE UNCHANGED vars
  BY <1>16 DEF vars, TypeOK, QueueInv
<1> QED
  BY <1>1, <1>2, <1>3, <1>4, <1>5, <1>6, <1>7, <1>8,
     <1>9, <1>10, <1>11, <1>12, <1>13, <1>14, <1>15, <1>16
     DEF Next, ThreadStep, NodeStep, Quiet

\* Every reachable state satisfies the invariant.
LEMMA Invariance ==
  ASSUME "jobAwait" \notin SpuriousWaits
  PROVE  SafeSpec => []Inv
<1>1. Inv /\ [Next]_vars => Inv'
  BY StepInv
<1> QED
  BY InitInv, <1>1, PTL DEF SafeSpec

\* Type correctness: what is queued, handed over or worked on is a NodeJob.
THEOREM TypeCorrect ==
  ASSUME "jobAwait" \notin SpuriousWaits
  PROVE  SafeSpec => []TypeOK
<1>1. Inv => TypeOK
  BY DEF Inv
<1> QED
  BY <1>1, Invariance, PTL

\* The handler never works on a NodeJob that run() has freed.
THEOREM HandlerSafe ==
  ASSUME "jobAwait" \notin SpuriousWaits
  PROVE  SafeSpec => []NodeJobAlive
<1>1. Inv => NodeJobAlive
  BY DEF Inv, NodeJobAlive, LifeInv, MutexInv, HandOverInv, NotSent, Rung,
         InHandler, Done, Notified
<1> QED
  BY <1>1, Invariance, PTL

\* Neither thread waits for something that has already happened: no ring, no queued
\* task and no completion is lost.
THEOREM NothingLost ==
  ASSUME "jobAwait" \notin SpuriousWaits
  PROVE  SafeSpec => []NoLostSignal
<1>1. Inv => NoLostSend /\ NoLostCompletion
  BY DEF Inv, NoLostSend, NoLostCompletion, LifeInv, MutexInv, HandOverInv, NotSent,
         Rung, InHandler, Done, Notified
<1>2. Inv => NoLostSignal
  BY <1>1 DEF Inv, NoLostSignal
<1> QED
  BY <1>2, Invariance, PTL

--------------------------------------------------------------------------------
\* The initial states are initial states of the node executor.
LEMMA InitRefines == Init => Executor!Init
  BY DEF Init, Executor!Init

\* Every step hands in a task, chooses the next, begins it, ends it, or is invisible.
LEMMA StepRefines ==
  ASSUME Inv, [Next]_vars
  PROVE  [Executor!Next]_(Executor!vars)
<1> USE DEF Executor!vars
<1> NoTask \notin Tasks
  BY DEF Tasks
<1>1. ASSUME NEW p \in Producers, NEW priority \in BOOLEAN, AddWork(p, priority)
      PROVE  [Executor!Next]_(Executor!vars)
  <2>1. adds + 1 \in Tasks
    BY <1>1 DEF AddWork, Inv, TypeOK, Tasks
  <2>2. CASE priority
    <3>1. Executor!SubmitPriority(adds + 1)
      BY <1>1, <2>2 DEF AddWork, Executor!SubmitPriority
    <3> QED
      BY <2>1, <3>1 DEF Executor!Next
  <2>3. CASE ~priority
    <3>1. Executor!Submit(adds + 1)
      BY <1>1, <2>3 DEF AddWork, Executor!Submit
    <3> QED
      BY <2>1, <3>1 DEF Executor!Next
  <2> QED
    BY <2>2, <2>3
<1>2. CASE PopWork
  <2>1. nextFunc = NoTask
    BY <1>2 DEF PopWork, Inv, MutexInv
  <2>2. nextFunc' \notin ran
    <3>1. CASE priorityQueue # << >>
      BY <1>2, <3>1, HeadTail DEF PopWork, Inv, TypeOK, QueueInv
    <3>2. CASE priorityQueue = << >>
      BY <1>2, <3>2, HeadTail DEF PopWork, Inv, TypeOK, QueueInv
    <3> QED
      BY <3>1, <3>2
  <2>3. Executor!Pick
    BY <1>2, <2>1, <2>2 DEF PopWork, Executor!Pick
  <2> QED
    BY <2>3 DEF Executor!Next
<1>3. CASE AsyncFires
  <2>1. nextFunc # NoTask /\ nextFunc \notin ran
    BY <1>3 DEF AsyncFires, Inv, MutexInv, LifeInv, HandOverInv, NotSent, Rung,
                InHandler, Done, Notified
  <2>2. Executor!Run
    BY <1>3, <2>1 DEF AsyncFires, queues, Executor!Run
  <2> QED
    BY <2>2 DEF Executor!Next
<1>4. CASE RunFunc
  <2>1. asyncData = nextFunc
    BY <1>4 DEF RunFunc, Inv, HandOverInv, NotSent, Rung, InHandler, Done, Notified
  <2>2. Executor!Return
    BY <1>4, <2>1 DEF RunFunc, queues, Executor!Return
  <2> QED
    BY <2>2 DEF Executor!Next
<1>5. CASE JobFinished
  <2>1. nextFunc \in ran
    BY <1>5 DEF JobFinished, Inv, LifeInv
  <2> QED
    BY <1>5, <2>1 DEF JobFinished, queues
<1>6. CASE \/ WaitForWork \/ SendAsync \/ JobWait \/ JobRelock \/ MarkDone \/ Reinit
           \/ NotifyJob \/ AfterWork \/ SpuriousWakeup \/ UNCHANGED vars
           \/ \E p \in Producers : AddNotify(p)
  BY <1>6 DEF WaitForWork, SendAsync, JobWait, JobRelock, MarkDone, Reinit, NotifyJob,
              AfterWork, SpuriousWakeup, AddNotify, vars, queues
<1> QED
  BY <1>1, <1>2, <1>3, <1>4, <1>5, <1>6 DEF Next, ThreadStep, NodeStep, Quiet

\* Users of AsyncNodeScheduler may reason with NodeExecutor instead: one task at a
\* time on the node thread, each once, priority tasks first.
THEOREM ImplementsExecutor ==
  ASSUME "jobAwait" \notin SpuriousWaits
  PROVE  SafeSpec => ExecutorSafe
<1>1. Inv /\ [Next]_vars => [Executor!Next]_(Executor!vars)
  BY StepRefines
<1> QED
  BY InitRefines, <1>1, Invariance, PTL
     DEF SafeSpec, ExecutorSafe, Executor!SafeSpec

================================================================================
