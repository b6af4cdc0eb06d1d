---------------------------- MODULE Teardown_proofs ----------------------------
(***************************************************************************)
(* Safety of Teardown for any set of scopes and any number of calls: its   *)
(* inductive invariant, which says where a job can be and which thread can *)
(* destroy the context, and what follows from it.                          *)
(***************************************************************************)
EXTENDS Teardown, TLAPS

\* How many jobs J has taken: the jobs queue for it in the order of their numbers.
Taken == Len(jobs) - Len(jobQueue)

\* A job waits for J, is in it, or is past it.
JobsInv ==
  /\ Len(jobQueue) <= Len(jobs)
  /\ \A i \in DOMAIN jobQueue : jobQueue[i] = Taken + i
  /\ IF jobPc \in {"loop", "exited"} THEN jobJob = NoJob ELSE jobJob = Taken /\ Taken # 0
  /\ settled \cup finished \cup answered \subseteq 1 .. Taken
  /\ jobPc = "submit" => jobJob \notin finished \cup settled \cup answered
  /\ jobPc = "wait" => jobJob \notin settled
  /\ jobPc = "release" => jobJob \in finished

\* D has the job that J waits for, or none.
DukInv ==
  /\ dukQueue # << >> =>
       /\ dukQueue = <<jobJob>> /\ jobPc = "wait"
       /\ jobJob \notin finished \cup answered /\ dukPc \in {"loop", "exited"}
  /\ dukPc \in {"loop", "exited"} => dukJob = NoJob
  /\ dukPc \notin {"loop", "exited"} =>
       dukJob = jobJob /\ jobPc = "wait" /\ jobJob \notin finished
  /\ dukPc \in {"ask", "asked", "pops", "popped"} => jobs[dukJob] = "call"
  /\ dukPc = "ask" => dukJob \notin answered

\* M converts for D while it waits, and settles for jobs that D is done with.
TasksInv ==
  \A i \in DOMAIN nodeQueue : LET task == nodeQueue[i] IN
    /\ task.does = "convert" =>
         /\ dukPc = "asked" /\ task.job = dukJob /\ dukJob \notin answered
         /\ \A k \in DOMAIN nodeQueue : nodeQueue[k].does = "convert" => k = i
    /\ task.does = "settle" =>
         /\ task.job \in 1 .. Taken
         /\ jobPc \in {"submit", "wait"} => task.job # jobJob

\* The destructor runs when nobody refers to the context, on the thread that was the
\* last to do so, and the job scheduler's thread is gone before D's scheduler is.
RefsInv ==
  /\ teardown = "none" <=> refs # {}
  /\ D \in refs <=> dukPc = "popped"
  /\ destroyer = Nobody <=> teardown \in {"none", "gone"}
  /\ teardown \in {"none", "node"} => Context \in nodeRefs
  /\ teardown \in {"duk", "joinDuk", "gone"} => jobPc = "exited"
  /\ teardown = "gone" => dukPc = "exited"

\* Nothing has crashed before the destructor, nor after it began with every promise
\* settled, and then no call is left.
QuietInv ==
  /\ teardown = "none" => ~crashed /\ ~early
  /\ ~early => ~crashed /\ destroyer # D
  /\ teardown # "none" /\ ~early => Pending = {}

IInv == Types /\ JobsInv /\ DukInv /\ TasksInv /\ RefsInv /\ QuietInv

--------------------------------------------------------------------------------
(* What the operations of queues do.                                          *)

\* Appending to a queue.
LEMMA AppendFacts ==
  ASSUME NEW S, NEW q \in Seq(S), NEW e \in S
  PROVE  /\ Append(q, e) \in Seq(S) /\ Len(Append(q, e)) = Len(q) + 1
         /\ DOMAIN Append(q, e) = 1 .. (Len(q) + 1) /\ DOMAIN q = 1 .. Len(q)
         /\ Append(q, e)[Len(q) + 1] = e
         /\ \A i \in DOMAIN q : Append(q, e)[i] = q[i]
<1> QED
  OBVIOUS

\* Taking the first of a queue.
LEMMA TailFacts ==
  ASSUME NEW S, NEW q \in Seq(S), q # << >>
  PROVE  /\ Len(q) \in Nat \ {0} /\ DOMAIN q = 1 .. Len(q)
         /\ Head(q) = q[1] /\ Head(q) \in S
         /\ Tail(q) \in Seq(S) /\ Len(Tail(q)) = Len(q) - 1
         /\ DOMAIN Tail(q) = 1 .. (Len(q) - 1)
         /\ \A i \in 1 .. (Len(q) - 1) : Tail(q)[i] = q[i + 1]
<1> QED
  OBVIOUS

\* What is in a queue.
LEMMA ElementFacts ==
  ASSUME NEW S, NEW q \in Seq(S), NEW i \in DOMAIN q
  PROVE  q[i] \in S
<1> QED
  OBVIOUS

\* What M has to do.
LEMMA TaskFacts ==
  ASSUME Types, NEW i \in DOMAIN nodeQueue
  PROVE  nodeQueue[i].does \in {"settle", "convert"} /\ nodeQueue[i].job \in Job
<1>1. nodeQueue[i] \in [does : {"settle", "convert"}, job : Job]
  BY ElementFacts DEF Types
<1> QED
  BY <1>1

\* Numbers and names that the steps below need.
LEMMA Facts ==
  ASSUME IInv
  PROVE  /\ Taken \in Nat /\ Len(jobs) \in Nat /\ Len(jobQueue) \in Nat
         /\ DOMAIN jobs = 1 .. Len(jobs)
         /\ 1 .. Taken \subseteq DOMAIN jobs
         /\ jobPc \notin {"loop", "exited"} => jobJob = Taken /\ jobJob \in DOMAIN jobs
         /\ dukPc \notin {"loop", "exited"} => dukJob = jobJob /\ dukJob \in DOMAIN jobs
         /\ jobQueue # << >> => Head(jobQueue) = Taken + 1 /\ Taken + 1 \in DOMAIN jobs
         /\ dukQueue # << >> => Head(dukQueue) = jobJob /\ Tail(dukQueue) = << >>
<1> USE DEF IInv
<1>1. Taken \in Nat /\ Len(jobs) \in Nat /\ Len(jobQueue) \in Nat
  BY DEF Types, JobsInv, Taken
<1>2. DOMAIN jobs = 1 .. Len(jobs) /\ 1 .. Taken \subseteq DOMAIN jobs
  BY <1>1 DEF Types, JobsInv, Taken
<1>3. jobPc \notin {"loop", "exited"} => jobJob = Taken /\ jobJob \in DOMAIN jobs
  BY <1>1, <1>2 DEF JobsInv
<1>4. dukPc \notin {"loop", "exited"} => dukJob = jobJob /\ dukJob \in DOMAIN jobs
  BY <1>3 DEF DukInv
<1>5. jobQueue # << >> => Head(jobQueue) = Taken + 1 /\ Taken + 1 \in DOMAIN jobs
  <2> SUFFICES ASSUME jobQueue # << >>
               PROVE  Head(jobQueue) = Taken + 1 /\ Taken + 1 \in DOMAIN jobs
    OBVIOUS
  <2>1. Head(jobQueue) = jobQueue[1] /\ 1 \in DOMAIN jobQueue /\ Len(jobQueue) \in Nat \ {0}
    BY TailFacts DEF Types
  <2> QED
    BY <1>1, <1>2, <2>1 DEF JobsInv, Taken
<1>6. dukQueue # << >> => Head(dukQueue) = jobJob /\ Tail(dukQueue) = << >>
  <2> SUFFICES ASSUME dukQueue # << >>
               PROVE  Head(dukQueue) = jobJob /\ Tail(dukQueue) = << >>
    OBVIOUS
  <2>1. dukQueue = <<jobJob>> /\ dukQueue \in Seq(Job)
    BY DEF DukInv, Types
  <2>2. Len(dukQueue) = 1 /\ dukQueue[1] = jobJob
    BY <2>1
  <2> QED
    BY <2>1, <2>2, TailFacts
<1> QED
  BY <1>1, <1>2, <1>3, <1>4, <1>5, <1>6

--------------------------------------------------------------------------------
(* The invariant.                                                             *)

USE TeardownAssumption

\* Nothing has happened yet.
LEMMA InitIInv == Init => IInv
<1> SUFFICES ASSUME Init PROVE IInv
  OBVIOUS
<1> USE DEF Init
<1>1. Types
  <2>1. \A S : << >> \in Seq(S)
    OBVIOUS
  <2>2. jobs \in Seq(Kinds) /\ jobQueue \in Seq(Job) /\ dukQueue \in Seq(Job)
        /\ nodeQueue \in Seq([does : {"settle", "convert"}, job : Job])
    BY <2>1
  <2> QED
    BY <2>2 DEF Types, NoJob, Context
<1>2. JobsInv /\ DukInv /\ TasksInv
  BY DEF JobsInv, DukInv, TasksInv, Taken, NoJob
<1>3. RefsInv /\ QuietInv
  BY DEF RefsInv, QuietInv, Context, D
<1> QED
  BY <1>1, <1>2, <1>3 DEF IInv

\* The destructor's steps and the collection of the wrapper concern no job.
LEMMA NoJobsConcerned ==
  ASSUME CollectWrapper \/ DestructorStep \/ UNCHANGED vars
  PROVE  UNCHANGED <<jobs, settled, finished, answered, jobQueue, dukQueue, nodeQueue,
                     jVars, dVars>>
<1> QED
  BY DEF CollectWrapper, DestructorStep, DropNodeScheduler, StopJobs, JoinJobs, StopDuk,
         JoinDuk, OthersUnchanged, vars

\* Jobs are taken in order, and are settled, finished and answered when taken.
LEMMA JobsStepInv == IInv /\ [Next]_vars => JobsInv'
<1> SUFFICES ASSUME IInv, [Next]_vars PROVE JobsInv'
  OBVIOUS
<1> USE Facts DEF IInv, jVars, dVars
<1>1. ASSUME NEW kind \in Kinds, jobs' = Append(jobs, kind),
             jobQueue' = Append(jobQueue, Len(jobs')),
             UNCHANGED <<settled, finished, answered, jVars>>
      PROVE  JobsInv'
  <2>1. Len(jobs') = Len(jobs) + 1 /\ Len(jobs') \in Job
    BY <1>1, AppendFacts DEF Types, Job, NoJob
  <2>2. /\ Len(jobQueue') = Len(jobQueue) + 1
        /\ DOMAIN jobQueue' = 1 .. (Len(jobQueue) + 1) /\ DOMAIN jobQueue = 1 .. Len(jobQueue)
        /\ jobQueue'[Len(jobQueue) + 1] = Len(jobs) + 1
        /\ \A i \in DOMAIN jobQueue : jobQueue'[i] = jobQueue[i]
    BY <1>1, <2>1, AppendFacts DEF Types
  <2>3. Taken' = Taken
    BY <2>1, <2>2 DEF Taken
  <2>4. \A i \in DOMAIN jobQueue' : jobQueue'[i] = Taken' + i
    <3> TAKE i \in DOMAIN jobQueue'
    <3>1. CASE i \in DOMAIN jobQueue
      BY <2>2, <2>3, <3>1 DEF JobsInv
    <3>2. CASE i = Len(jobQueue) + 1
      BY <2>2, <2>3, <3>2 DEF Taken
    <3> QED
      BY <2>2, <3>1, <3>2
  <2> QED
    BY <1>1, <2>1, <2>2, <2>3, <2>4 DEF JobsInv
<1>2. CASE Call
  BY <1>1, <1>2 DEF Call, Kinds
<1>3. ASSUME NEW s \in Scopes, CollectScope(s) PROVE JobsInv'
  BY <1>1, <1>3 DEF CollectScope, Kinds
<1>4. CASE RunTask
  <2>1. nodeQueue # << >> /\ Head(nodeQueue) = nodeQueue[1] /\ 1 \in DOMAIN nodeQueue
        /\ UNCHANGED <<jobs, jobQueue, finished, jVars>> /\ Taken' = Taken
    BY <1>4, TailFacts DEF RunTask, Types, Taken
  <2>2. CASE Head(nodeQueue).does = "settle"
    BY <1>4, <2>1, <2>2 DEF RunTask, TasksInv, JobsInv
  <2>3. CASE Head(nodeQueue).does = "convert"
    <3>1. settled' = settled /\ answered' = answered \cup {dukJob} /\ dukPc = "asked"
      BY <1>4, <2>1, <2>3 DEF RunTask, TasksInv
    <3> QED
      BY <2>1, <3>1 DEF JobsInv, DukInv
  <2>4. Head(nodeQueue).does \in {"settle", "convert"}
    BY <2>1, TaskFacts
  <2> QED
    BY <2>2, <2>3, <2>4
<1>5. CASE JobsTake
  <2>1. /\ Taken' = Taken + 1 /\ jobJob' = Taken' /\ Len(jobQueue') = Len(jobQueue) - 1
        /\ DOMAIN jobQueue' = 1 .. (Len(jobQueue) - 1) /\ DOMAIN jobQueue = 1 .. Len(jobQueue)
        /\ \A i \in DOMAIN jobQueue' : jobQueue'[i] = jobQueue[i + 1]
        /\ UNCHANGED <<jobs, settled, finished, answered>> /\ jobPc' = "submit"
    BY <1>5, TailFacts DEF JobsTake, Types, Taken
  <2>2. \A i \in DOMAIN jobQueue' : jobQueue'[i] = Taken' + i
    <3> TAKE i \in DOMAIN jobQueue'
    <3>1. i \in Nat /\ i + 1 \in DOMAIN jobQueue
      BY <2>1
    <3>2. jobQueue[i + 1] = Taken + (i + 1)
      BY <3>1 DEF JobsInv
    <3> QED
      BY <2>1, <3>1, <3>2
  <2> QED
    BY <2>1, <2>2 DEF JobsInv
<1>6. CASE JobsExit \/ Submit \/ Resolve \/ ReleaseNode
  BY <1>6 DEF JobsExit, Submit, Resolve, ReleaseNode, Crash, dying, JobsInv, Taken, Types
<1>7. CASE DukStep /\ ~Finish
  BY <1>7 DEF DukStep, DukTake, DukExit, Ask, Work, LockContext, UnlockContext, Crash,
              dying, JobsInv, Taken
<1>8. CASE Finish
  BY <1>8 DEF Finish, JobsInv, DukInv, Taken
<1>9. CASE CollectWrapper \/ DestructorStep \/ UNCHANGED vars
  BY <1>9, NoJobsConcerned DEF JobsInv, Taken
<1> QED
  BY <1>2, <1>3, <1>4, <1>5, <1>6, <1>7, <1>8, <1>9 DEF Next, JobsStep

\* D works on the job that J waits for, while J waits.
LEMMA DukStepInv == IInv /\ [Next]_vars => DukInv'
<1> SUFFICES ASSUME IInv, [Next]_vars PROVE DukInv'
  OBVIOUS
<1> USE Facts DEF IInv, jVars, dVars
<1>1. ASSUME NEW kind \in Kinds, jobs' = Append(jobs, kind),
             UNCHANGED <<finished, answered, dukQueue, jVars, dVars>>
      PROVE  DukInv'
  <2>1. \A j \in DOMAIN jobs : jobs'[j] = jobs[j]
    BY <1>1, AppendFacts DEF Types
  <2> QED
    BY <1>1, <2>1 DEF DukInv
<1>2. CASE Call
  BY <1>1, <1>2 DEF Call, Kinds
<1>3. ASSUME NEW s \in Scopes, CollectScope(s) PROVE DukInv'
  BY <1>1, <1>3 DEF CollectScope, Kinds
<1>4. CASE RunTask
  <2>1. /\ UNCHANGED <<jobs, finished, dukQueue, jVars, dVars>>
        /\ answered' = answered \/ (answered' = answered \cup {dukJob} /\ dukPc = "asked")
    <3>1. nodeQueue # << >> /\ Head(nodeQueue) = nodeQueue[1] /\ 1 \in DOMAIN nodeQueue
      BY <1>4, TailFacts DEF RunTask, Types
    <3>2. Head(nodeQueue).does \in {"settle", "convert"}
      BY <3>1, TaskFacts
    <3> QED
      BY <1>4, <3>1, <3>2 DEF RunTask, TasksInv
  <2> QED
    BY <2>1 DEF DukInv
<1>5. CASE JobsTake
  BY <1>5 DEF JobsTake, DukInv
<1>6. CASE JobsExit
  BY <1>6 DEF JobsExit, DukInv
<1>7. CASE Submit
  <2>1. CASE DukLocks
    <3>1. dukQueue = << >> /\ dukQueue \in Seq(Job) /\ jobJob \in Job
      BY <1>7, <2>1 DEF Submit, DukInv, Types, JobsInv, Job, NoJob
    <3>2. dukQueue' = <<jobJob>>
      BY <1>7, <2>1, <3>1 DEF Submit
    <3> QED
      BY <1>7, <2>1, <3>2 DEF Submit, DukInv, JobsInv
  <2>2. CASE ~DukLocks
    BY <1>7, <2>2 DEF Submit, Crash, DukInv
  <2> QED
    BY <2>1, <2>2
<1>8. CASE Resolve
  BY <1>8 DEF Resolve, DukInv
<1>9. CASE ReleaseNode
  BY <1>9 DEF ReleaseNode, DukInv
<1>10. CASE DukTake
  BY <1>10 DEF DukTake, DukInv, Types, Kinds
<1>11. CASE DukExit
  BY <1>11 DEF DukExit, DukInv
<1>12. CASE Ask \/ Work \/ LockContext \/ UnlockContext
  BY <1>12 DEF Ask, Work, LockContext, UnlockContext, Crash, DukInv
<1>13. CASE Finish
  BY <1>13 DEF Finish, DukInv
<1>14. CASE CollectWrapper \/ DestructorStep \/ UNCHANGED vars
  BY <1>14, NoJobsConcerned DEF DukInv
<1> QED
  BY <1>2, <1>3, <1>4, <1>5, <1>6, <1>7, <1>8, <1>9, <1>10, <1>11, <1>12, <1>13, <1>14
     DEF Next, JobsStep, DukStep

\* M has one thing to convert at most, and settles no job that D is not done with.
LEMMA TasksStepInv == IInv /\ [Next]_vars => TasksInv'
<1> SUFFICES ASSUME IInv, [Next]_vars PROVE TasksInv'
  OBVIOUS
<1> USE Facts DEF IInv, jVars, dVars
<1> DEFINE Tasks == [does : {"settle", "convert"}, job : Job]
<1>0. nodeQueue \in Seq(Tasks) /\ DOMAIN nodeQueue = 1 .. Len(nodeQueue)
      /\ Len(nodeQueue) \in Nat
  BY DEF Types
<1>1. ASSUME NEW kind \in Kinds, jobs' = Append(jobs, kind),
             jobQueue' = Append(jobQueue, Len(jobs')),
             UNCHANGED <<answered, nodeQueue, jVars, dVars>>
      PROVE  TasksInv'
  <2>1. Len(jobs') = Len(jobs) + 1 /\ Len(jobs') \in Job
    BY <1>1, AppendFacts DEF Types, Job, NoJob
  <2>2. Taken' = Taken
    BY <1>1, <2>1, AppendFacts DEF Types, Taken
  <2> QED
    BY <1>1, <2>2 DEF TasksInv
<1>2. CASE Call
  BY <1>1, <1>2 DEF Call, Kinds
<1>3. ASSUME NEW s \in Scopes, CollectScope(s) PROVE TasksInv'
  BY <1>1, <1>3 DEF CollectScope, Kinds
<1>4. CASE RunTask
  <2>1. nodeQueue # << >> /\ nodeQueue' = Tail(nodeQueue)
        /\ UNCHANGED <<jVars, dVars>> /\ Taken' = Taken
    BY <1>4 DEF RunTask, Taken
  <2>2. /\ Head(nodeQueue) = nodeQueue[1] /\ 1 \in DOMAIN nodeQueue
        /\ DOMAIN nodeQueue' = 1 .. (Len(nodeQueue) - 1)
        /\ \A i \in 1 .. (Len(nodeQueue) - 1) : nodeQueue'[i] = nodeQueue[i + 1]
    BY <1>0, <2>1, TailFacts
  <2>3. \A i \in DOMAIN nodeQueue' : /\ i + 1 \in DOMAIN nodeQueue /\ i \in Nat \ {0}
                                     /\ nodeQueue'[i] = nodeQueue[i + 1]
    BY <1>0, <2>2
  <2>4. CASE Head(nodeQueue).does = "settle"
    <3>1. answered' = answered
      BY <1>4, <2>4 DEF RunTask
    <3> QED
      BY <2>1, <2>3, <3>1 DEF TasksInv
  <2>5. CASE Head(nodeQueue).does = "convert"
    <3>1. \A k \in DOMAIN nodeQueue : nodeQueue[k].does = "convert" => k = 1
      BY <2>2, <2>5 DEF TasksInv
    <3>2. \A i \in DOMAIN nodeQueue' : nodeQueue'[i].does # "convert"
      BY <2>3, <3>1
    <3> QED
      BY <2>1, <2>3, <3>2 DEF TasksInv
  <2> QED
    BY <2>2, <2>4, <2>5, TaskFacts
<1>5. CASE JobsTake
  <2>1. /\ Taken' = Taken + 1 /\ jobJob' = Taken'
        /\ UNCHANGED <<answered, nodeQueue, dVars>>
        /\ jobPc = "loop" /\ jobPc' = "submit"
    BY <1>5, TailFacts DEF JobsTake, Types, Taken
  <2> QED
    BY <2>1 DEF TasksInv, DukInv
<1>6. CASE JobsExit \/ Submit \/ ReleaseNode
  BY <1>6 DEF JobsExit, Submit, ReleaseNode, Crash, dying, TasksInv, Taken, DukInv
<1>7. CASE Resolve
  <2>1. UNCHANGED <<answered, dVars>> /\ Taken' = Taken /\ jobPc = "wait"
        /\ jobJob \in finished
    BY <1>7 DEF Resolve, Taken
  <2>2. \A i \in DOMAIN nodeQueue : nodeQueue[i].does # "convert"
    BY <2>1 DEF TasksInv, DukInv
  <2>3. CASE nodeQueue' = nodeQueue
    BY <1>7, <2>1, <2>2, <2>3 DEF Resolve, TasksInv
  <2>4. CASE nodeQueue' = Append(nodeQueue, [does |-> "settle", job |-> jobJob])
             /\ jobPc' = "release"
    <3>1. [does |-> "settle", job |-> jobJob] \in Tasks
      BY <2>1 DEF Types, JobsInv, Job, NoJob
    <3>2. /\ DOMAIN nodeQueue' = 1 .. (Len(nodeQueue) + 1)
          /\ nodeQueue'[Len(nodeQueue) + 1] = [does |-> "settle", job |-> jobJob]
          /\ \A i \in DOMAIN nodeQueue : nodeQueue'[i] = nodeQueue[i]
      BY <1>0, <2>4, <3>1, AppendFacts
    <3>3. \A i \in DOMAIN nodeQueue' : /\ nodeQueue'[i].does = "settle"
                                       /\ nodeQueue'[i].job \in 1 .. Taken
      <4> TAKE i \in DOMAIN nodeQueue'
      <4>1. CASE i \in DOMAIN nodeQueue
        <5>1. nodeQueue[i].does = "settle"
          BY <2>2, <4>1, TaskFacts
        <5> QED
          BY <3>2, <4>1, <5>1 DEF TasksInv
      <4>2. CASE i = Len(nodeQueue) + 1
        BY <2>1, <3>2, <4>2 DEF JobsInv
      <4> QED
        BY <1>0, <3>2, <4>1, <4>2
    <3> QED
      BY <2>1, <2>4, <3>3 DEF TasksInv
  <2> QED
    BY <1>7, <2>3, <2>4 DEF Resolve
<1>8. CASE Ask
  <2>1. UNCHANGED <<answered, jVars, dukJob>> /\ Taken' = Taken /\ dukPc = "ask"
    BY <1>8 DEF Ask, Crash, Taken
  <2>2. \A i \in DOMAIN nodeQueue : nodeQueue[i].does = "settle"
    <3> TAKE i \in DOMAIN nodeQueue
    <3>1. nodeQueue[i].does \in {"settle", "convert"}
      BY TaskFacts
    <3> QED
      BY <2>1, <3>1 DEF TasksInv
  <2>3. CASE NodeLocks
    <3> DEFINE task == [does |-> "convert", job |-> dukJob]
    <3>1. task \in Tasks
      BY <2>1 DEF Types, DukInv, JobsInv, Job, NoJob
    <3>2. /\ DOMAIN nodeQueue' = 1 .. (Len(nodeQueue) + 1) /\ dukPc' = "asked"
          /\ nodeQueue'[Len(nodeQueue) + 1] = task
          /\ \A i \in DOMAIN nodeQueue : nodeQueue'[i] = nodeQueue[i]
      BY <1>0, <1>8, <2>3, <3>1, AppendFacts DEF Ask
    <3>3. \A i \in DOMAIN nodeQueue' :
            \/ i = Len(nodeQueue) + 1 /\ nodeQueue'[i] = task
            \/ i \in DOMAIN nodeQueue /\ nodeQueue'[i] = nodeQueue[i]
      BY <1>0, <3>2
    <3> QED
      BY <2>1, <2>2, <3>2, <3>3 DEF TasksInv, DukInv
  <2>4. CASE ~NodeLocks
    BY <1>8, <2>4 DEF Ask, Crash, TasksInv, Taken
  <2> QED
    BY <2>3, <2>4
<1>9. CASE DukTake \/ DukExit \/ Work \/ LockContext \/ UnlockContext \/ Finish
  BY <1>9 DEF DukTake, DukExit, Work, LockContext, UnlockContext, Finish, Crash,
              TasksInv, Taken
<1>10. CASE CollectWrapper \/ DestructorStep \/ UNCHANGED vars
  BY <1>10, NoJobsConcerned DEF TasksInv, Taken
<1> QED
  BY <1>2, <1>3, <1>4, <1>5, <1>6, <1>7, <1>8, <1>9, <1>10 DEF Next, JobsStep, DukStep

\* Who may destroy the context, and how far the threads are by then.
LEMMA RefsStepInv == IInv /\ [Next]_vars => RefsInv'
<1> SUFFICES ASSUME IInv, [Next]_vars PROVE RefsInv'
  OBVIOUS
<1> USE DEF IInv, RefsInv, Types, jVars, dVars, dying, D, M
<1>1. CASE Call \/ RunTask
  BY <1>1 DEF Call, RunTask
<1>2. ASSUME NEW s \in Scopes, CollectScope(s) PROVE RefsInv'
  BY <1>2 DEF CollectScope, Release
<1>3. CASE CollectWrapper
  BY <1>3 DEF CollectWrapper, Release
<1>4. CASE JobsTake \/ JobsExit
  BY <1>4 DEF JobsTake, JobsExit
<1>5. CASE Submit \/ Resolve \/ ReleaseNode
  BY <1>5 DEF Submit, Resolve, ReleaseNode, Crash, Context, J
<1>6. CASE DukTake \/ DukExit
  BY <1>6 DEF DukTake, DukExit
<1>7. CASE Ask \/ Work \/ Finish
  BY <1>7 DEF Ask, Work, Finish, Crash
<1>8. CASE LockContext
  BY <1>8 DEF LockContext, ContextLocks, Crash
<1>9. CASE UnlockContext
  BY <1>9 DEF UnlockContext, Release
<1>10. CASE DestructorStep
  BY <1>10 DEF DestructorStep, DropNodeScheduler, StopJobs, JoinJobs, StopDuk, JoinDuk,
               Going, OthersUnchanged
<1>11. CASE UNCHANGED vars
  BY <1>11 DEF vars
<1> QED
  BY <1>1, <1>2, <1>3, <1>4, <1>5, <1>6, <1>7, <1>8, <1>9, <1>10, <1>11
     DEF Next, JobsStep, DukStep

\* D holds a job with a promise that is not settled while it asks M or holds the
\* context; J, until it has asked for the promise to be settled.
LEMMA PendingFacts ==
  ASSUME IInv
  PROVE  /\ dukPc \in {"ask", "asked", "pops", "popped"} => Pending # {}
         /\ jobPc = "wait" /\ jobs[jobJob] # "deref" => Pending # {}
<1> USE Facts DEF IInv
<1>1. jobPc = "wait" => jobJob \in DOMAIN jobs \ settled
  BY DEF JobsInv
<1>2. ASSUME NEW j \in DOMAIN jobs PROVE jobs[j] \in Kinds
  BY ElementFacts DEF Types
<1>3. dukPc \in {"ask", "asked", "pops", "popped"} =>
        jobPc = "wait" /\ dukJob = jobJob /\ jobs[dukJob] = "call"
  BY DEF DukInv
<1> QED
  BY <1>1, <1>2, <1>3 DEF Pending, Kinds

\* No step leads to a crash unless the destructor began too early.
LEMMA QuietStepInv == IInv /\ [Next]_vars => QuietInv'
<1> SUFFICES ASSUME IInv, [Next]_vars PROVE QuietInv'
  OBVIOUS
<1> USE DEF IInv, QuietInv, jVars, dVars, dying
<1>1. CASE Call
  <2>1. teardown = "none" /\ teardown' = "none"
    BY <1>1 DEF Call, RefsInv
  <2> QED
    BY <1>1, <2>1 DEF Call
<1>2. ASSUME NEW ref \in Scopes \cup {Wrapper}, ref \in refs, Release(M, ref),
             Pending' = Pending
      PROVE  QuietInv'
  <2>1. teardown = "none" /\ UNCHANGED crashed
    BY <1>2 DEF Release, RefsInv
  <2>2. CASE refs = {ref}
    <3>1. teardown' = "node" /\ destroyer' = M /\ (early' <=> Pending # {})
      BY <1>2, <2>2 DEF Release
    <3>2. ~crashed' /\ destroyer' # D
      BY <2>1, <3>1 DEF D, M
    <3> QED
      BY <1>2, <3>1, <3>2
  <2>3. CASE refs # {ref}
    BY <1>2, <2>1, <2>3 DEF Release
  <2> QED
    BY <2>2, <2>3
<1>3. ASSUME NEW s \in Scopes, CollectScope(s) PROVE QuietInv'
  <2>1. Pending' = Pending
    <3>1. jobs \in Seq(Kinds) /\ jobs' = Append(jobs, "deref") /\ settled' = settled
      BY <1>3 DEF CollectScope, Types
    <3>2. /\ DOMAIN jobs' = DOMAIN jobs \cup {Len(jobs) + 1}
          /\ jobs'[Len(jobs) + 1] = "deref"
          /\ \A j \in DOMAIN jobs : jobs'[j] = jobs[j]
      BY <3>1, AppendFacts DEF Kinds
    <3> QED
      BY <3>1, <3>2 DEF Pending
  <2> QED
    BY <1>2, <1>3, <2>1 DEF CollectScope
<1>4. CASE CollectWrapper
  BY <1>2, <1>4 DEF CollectWrapper, Pending
<1>5. CASE RunTask
  <2>1. Pending' \subseteq Pending
    BY <1>5 DEF RunTask, Pending
  <2> QED
    BY <1>5, <2>1 DEF RunTask
<1>6. CASE JobsTake \/ JobsExit \/ ReleaseNode \/ DukTake \/ DukExit \/ Finish
  BY <1>6 DEF JobsTake, JobsExit, ReleaseNode, DukTake, DukExit, Finish, Pending
<1>7. CASE Submit
  <2>1. DukLocks
    BY <1>7 DEF Submit, DukLocks, RefsInv, Types
  <2> QED
    BY <1>7, <2>1 DEF Submit, Pending
<1>8. CASE Resolve
  <2>1. jobs[jobJob] = "deref" \/ NodeLocks \/ early
    BY <1>8, PendingFacts DEF Resolve, NodeLocks, RefsInv
  <2> QED
    BY <1>8, <2>1, PendingFacts DEF Resolve, Pending
<1>9. CASE Ask
  <2>1. NodeLocks \/ early
    BY <1>9, PendingFacts DEF Ask, NodeLocks, RefsInv
  <2> QED
    BY <1>9, <2>1, PendingFacts DEF Ask, Crash, Pending
<1>10. CASE Work
  <2>1. HeapThere
    BY <1>10 DEF Work, HeapThere, RefsInv
  <2> QED
    BY <1>10, <2>1 DEF Work, Pending
<1>11. CASE LockContext
  <2>1. ContextLocks \/ early
    BY <1>11, PendingFacts DEF LockContext, ContextLocks, RefsInv
  <2> QED
    BY <1>11, <2>1, PendingFacts DEF LockContext, Crash, ContextLocks, RefsInv, Pending
<1>12. CASE UnlockContext
  <2>1. teardown = "none" /\ Pending # {} /\ Pending' = Pending
    BY <1>12, PendingFacts DEF UnlockContext, RefsInv, Pending
  <2> QED
    BY <1>12, <2>1 DEF UnlockContext, Release
<1>13. CASE DestructorStep
  <2>1. Pending' = Pending
    BY <1>13, NoJobsConcerned DEF Pending
  <2>2. CASE DropNodeScheduler \/ StopJobs \/ JoinJobs
    BY <2>1, <2>2 DEF DropNodeScheduler, StopJobs, JoinJobs, Going, OthersUnchanged
  <2>3. CASE StopDuk
    <3>1. /\ teardown = "duk" /\ teardown' = "joinDuk" /\ (crashed' <=> destroyer = D)
          /\ UNCHANGED <<destroyer, early>>
      BY <2>3 DEF StopDuk, Going, OthersUnchanged
    <3> QED
      BY <2>1, <3>1
  <2>4. CASE JoinDuk
    <3>1. /\ teardown = "joinDuk" /\ teardown' = "gone" /\ destroyer' = Nobody
          /\ UNCHANGED <<crashed, early>>
      BY <2>4 DEF JoinDuk, Going
    <3> QED
      BY <2>1, <3>1
  <2> QED
    BY <1>13, <2>2, <2>3, <2>4 DEF DestructorStep
<1>14. CASE UNCHANGED vars
  BY <1>14 DEF vars, Pending
<1> QED
  BY <1>1, <1>3, <1>4, <1>5, <1>6, <1>7, <1>8, <1>9, <1>10, <1>11, <1>12, <1>13, <1>14
     DEF Next, JobsStep, DukStep

\* Every step keeps the variables in their types.
LEMMA TypesStepInv == IInv /\ [Next]_vars => Types'
<1> SUFFICES ASSUME IInv, [Next]_vars PROVE Types'
  OBVIOUS
<1> USE Facts DEF IInv, jVars, dVars, dying
<1>1. ASSUME NEW kind \in Kinds, jobs' = Append(jobs, kind),
             jobQueue' = Append(jobQueue, Len(jobs')),
             UNCHANGED <<settled, finished, answered>>
      PROVE  /\ jobs' \in Seq(Kinds) /\ jobQueue' \in Seq(Job)
             /\ (settled \cup finished \cup answered)' \subseteq DOMAIN jobs'
  <2>1. /\ jobs' \in Seq(Kinds) /\ Len(jobs') \in Job
        /\ DOMAIN jobs' = 1 .. (Len(jobs) + 1)
    BY <1>1, AppendFacts DEF Types, Job, NoJob
  <2>2. jobQueue' \in Seq(Job)
    BY <1>1, <2>1, AppendFacts DEF Types
  <2> QED
    BY <1>1, <2>1, <2>2 DEF Types
<1>2. CASE Call
  BY <1>1, <1>2 DEF Call, Types, Kinds
<1>3. ASSUME NEW s \in Scopes, CollectScope(s) PROVE Types'
  BY <1>1, <1>3 DEF CollectScope, Release, Types, Kinds, M
<1>4. CASE CollectWrapper
  BY <1>4 DEF CollectWrapper, Release, Types, M
<1>5. CASE RunTask
  <2>1. /\ nodeQueue # << >> /\ Head(nodeQueue) = nodeQueue[1] /\ 1 \in DOMAIN nodeQueue
        /\ nodeQueue' \in Seq([does : {"settle", "convert"}, job : Job])
    BY <1>5, TailFacts DEF RunTask, Types
  <2>2. Head(nodeQueue).does \in {"settle", "convert"} /\ Head(nodeQueue).job \in DOMAIN jobs
    <3>1. Head(nodeQueue).does \in {"settle", "convert"}
      BY <2>1, TaskFacts
    <3> QED
      BY <2>1, <3>1 DEF TasksInv
  <2> QED
    BY <1>5, <2>1, <2>2 DEF RunTask, Types
<1>6. CASE JobsTake
  <2>1. jobQueue' \in Seq(Job) /\ jobJob' \in Job
    BY <1>6, TailFacts DEF JobsTake, Types
  <2> QED
    BY <1>6, <2>1 DEF JobsTake, Types
<1>7. CASE JobsExit \/ ReleaseNode
  BY <1>7 DEF JobsExit, ReleaseNode, Types, NoJob
<1>8. CASE Submit
  <2>1. jobJob \in Job
    BY <1>8 DEF Submit, Job, NoJob, Types
  <2>2. Append(dukQueue, jobJob) \in Seq(Job)
    BY <2>1, AppendFacts DEF Types
  <2> QED
    BY <1>8, <2>2 DEF Submit, Crash, Types
<1>9. CASE Resolve
  <2> DEFINE task == [does |-> "settle", job |-> jobJob]
  <2>1. task \in [does : {"settle", "convert"}, job : Job]
    BY <1>9 DEF Resolve, Job, NoJob, Types
  <2>2. Append(nodeQueue, task) \in Seq([does : {"settle", "convert"}, job : Job])
    BY <2>1, AppendFacts DEF Types
  <2> QED
    BY <1>9, <2>2 DEF Resolve, Types, NoJob, J
<1>10. CASE DukTake
  <2>1. dukQueue' = << >> /\ dukJob' \in Job
    BY <1>10, TailFacts DEF DukTake, Types
  <2> QED
    BY <1>10, <2>1 DEF DukTake, Types
<1>11. CASE Ask
  <2> DEFINE task == [does |-> "convert", job |-> dukJob]
  <2>1. task \in [does : {"settle", "convert"}, job : Job]
    BY <1>11 DEF Ask, Job, NoJob, Types
  <2>2. Append(nodeQueue, task) \in Seq([does : {"settle", "convert"}, job : Job])
    BY <2>1, AppendFacts DEF Types
  <2> QED
    BY <1>11, <2>2 DEF Ask, Crash, Types
<1>12. CASE DukExit \/ Work \/ LockContext \/ UnlockContext
  BY <1>12 DEF DukExit, Work, LockContext, UnlockContext, Release, Crash, Types, D
<1>13. CASE Finish
  <2>1. dukJob \in DOMAIN jobs
    BY <1>13 DEF Finish
  <2> QED
    BY <1>13, <2>1 DEF Finish, Types, NoJob
<1>14. CASE DestructorStep
  BY <1>14 DEF DestructorStep, DropNodeScheduler, StopJobs, JoinJobs, StopDuk, JoinDuk,
               Going, OthersUnchanged, Types
<1>15. CASE UNCHANGED vars
  BY <1>15 DEF vars, Types
<1> QED
  BY <1>2, <1>3, <1>4, <1>5, <1>6, <1>7, <1>8, <1>9, <1>10, <1>11, <1>12, <1>13, <1>14,
     <1>15 DEF Next, JobsStep, DukStep

\* Every reachable state satisfies the invariant.
LEMMA Invariance == Spec => []IInv
<1>1. IInv /\ [Next]_vars => IInv'
  BY TypesStepInv, JobsStepInv, DukStepInv, TasksStepInv, RefsStepInv, QuietStepInv DEF IInv
<1> QED
  BY InitIInv, <1>1, PTL DEF Spec

\* Type correctness; and a job is in one queue or thread at a time.
THEOREM TypeCorrect == Spec => []TypeOK
<1>1. IInv => TypeOK
  <2> SUFFICES ASSUME IInv PROVE OneForDuk
    BY DEF IInv, TypeOK
  <2>1. dukQueue \in Seq(Job) /\ (dukQueue # << >> => dukQueue = <<jobJob>>)
    BY DEF IInv, Types, DukInv
  <2>2. Len(dukQueue) <= 1
    <3>1. Len(<<jobJob>>) = 1 /\ Len(<< >>) = 0
      OBVIOUS
    <3>2. CASE dukQueue = << >>
      BY <3>1, <3>2
    <3>3. CASE dukQueue = <<jobJob>>
      BY <3>1, <3>3
    <3> QED
      BY <2>1, <3>2, <3>3
  <2> QED
    BY <2>2 DEF IInv, OneForDuk, TasksInv, DukInv
<1> QED
  BY <1>1, Invariance, PTL

\* If every promise was settled when the last wrapper was collected, no thread finds a
\* null pointer, uses the heap when it is gone or joins itself, whatever dereferences are
\* still queued (AsyncJob.cpp:112, 131, 200-212).
THEOREM TeardownSafe == Spec => []SafeWhenSettled
<1>1. IInv => SafeWhenSettled
  BY DEF IInv, QuietInv, SafeWhenSettled
<1> QED
  BY <1>1, Invariance, PTL
================================================================================
