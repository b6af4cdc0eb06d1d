------------------------------- MODULE Teardown --------------------------------
(***************************************************************************)
(* The end of an AsyncContext.  Its wrapper and those of its object scopes *)
(* share it; the jobs do not: they hold weak pointers, and their lambdas a *)
(* raw one.  When Node's collector has taken the last wrapper,             *)
(* ~AsyncContext destroys the node scheduler, the job scheduler (J) and    *)
(* the Duktape scheduler (D), in this order, with whatever jobs are then   *)
(* under way, and joins the threads of the latter two.                     *)
(*                                                                         *)
(* A job "deref" is what the destructor of an object scope leaves behind:  *)
(* it needs only D.  A job "call" has a promise: D asks the node thread M  *)
(* for its arguments or its result, and M settles the promise.  What the   *)
(* schedulers' own threads do is as in AsyncJobScheduler; the thread of    *)
(* the node scheduler is left out, M serves its tasks.                     *)
(***************************************************************************)
EXTENDS Naturals, Sequences, FiniteSets

CONSTANTS Scopes,    \* the wrappers of object scopes and callbacks
          Wrapper,   \* the wrapper of the context
          Nobody,    \* no thread
          MaxCalls   \* bound on the jobs with a promise

Context == "context"
D       == "D"
J       == "J"
M       == "M"

ASSUME TeardownAssumption == /\ D \notin Scopes \cup {Wrapper}
                             /\ Nobody \notin {D, M}
                             /\ Wrapper \notin Scopes
                             /\ MaxCalls \in Nat

Kinds == {"call", "deref"}
NoJob == 0
Job   == Nat \ {NoJob}

VARIABLES refs,        \* who holds a shared_ptr to the context: wrappers, or D
          jobs,        \* the kinds of the jobs made so far, in order
          settled,     \* jobs whose promise is settled
          finished,    \* _dukFinished of each job
          answered,    \* _nodeFinished
          jobQueue,    \* _workQueue of J, of D, and the node scheduler's tasks
          dukQueue,
          nodeQueue,
          jobPc, jobJob,   \* where J is, and in which job
          dukPc, dukJob,
          jobExiting, dukExiting,  \* _exiting of the two schedulers
          nodeRefs,    \* who holds a shared_ptr to the node scheduler
          teardown,    \* how far ~AsyncContext is
          destroyer,   \* the thread that is in it
          early,       \* history: it began before every promise was settled
          crashed      \* a null pointer was used, or a thread joined itself

jVars == <<jobPc, jobJob>>
dVars == <<dukPc, dukJob>>
dying == <<teardown, destroyer, early, crashed>>
vars  == <<refs, jobs, settled, finished, answered, jobQueue, dukQueue, nodeQueue,
           jVars, dVars, jobExiting, dukExiting, nodeRefs, dying>>

Init == /\ refs = Scopes \cup {Wrapper}
        /\ jobs = << >> /\ settled = {} /\ finished = {} /\ answered = {}
        /\ jobQueue = << >> /\ dukQueue = << >> /\ nodeQueue = << >>
        /\ jobPc = "loop" /\ jobJob = NoJob
        /\ dukPc = "loop" /\ dukJob = NoJob
        /\ jobExiting = FALSE /\ dukExiting = FALSE
        /\ nodeRefs = {Context}
        /\ teardown = "none" /\ destroyer = Nobody
        /\ early = FALSE /\ crashed = FALSE

\* What a weak_ptr's lock() finds.
ContextLocks == refs # {}
NodeLocks    == nodeRefs # {}
DukLocks     == teardown \in {"none", "node", "jobs", "joinJobs"}
HeapThere    == teardown # "gone"

\* The event loop goes on.
NodeFree == destroyer # M /\ ~crashed

Pending == {j \in DOMAIN jobs : jobs[j] = "call" /\ j \notin settled}

\* Thread t lets go of its shared_ptr to the context, which may be the last.
Release(t, ref) ==
  /\ refs' = refs \ {ref}
  /\ IF refs = {ref}
     THEN /\ teardown' = "node" /\ destroyer' = t
          /\ early' = (Pending # {})
     ELSE UNCHANGED <<teardown, destroyer, early>>
  /\ UNCHANGED crashed

Crash == /\ crashed' = TRUE
         /\ UNCHANGED <<refs, jobs, settled, finished, answered, jobQueue, dukQueue,
                        nodeQueue, jVars, dVars, jobExiting, dukExiting, nodeRefs,
                        teardown, destroyer, early>>

--------------------------------------------------------------------------------
(* The node thread.                                                           *)

\* An AsyncContext method with a promise.
Call ==
  /\ NodeFree /\ refs \ {D} # {}
  /\ Cardinality({j \in DOMAIN jobs : jobs[j] = "call"}) < MaxCalls
  /\ jobs' = Append(jobs, "call")
  /\ jobQueue' = Append(jobQueue, Len(jobs'))
  /\ UNCHANGED <<refs, settled, finished, answered, dukQueue, nodeQueue, jVars, dVars,
                 jobExiting, dukExiting, nodeRefs, dying>>

\* The collector takes the wrapper of a scope: ~ObjectScope dereferences its handle.
CollectScope(s) ==
  /\ NodeFree /\ s \in refs
  /\ jobs' = Append(jobs, "deref")
  /\ jobQueue' = Append(jobQueue, Len(jobs'))
  /\ Release(M, s)
  /\ UNCHANGED <<settled, finished, answered, dukQueue, nodeQueue, jVars, dVars,
                 jobExiting, dukExiting, nodeRefs>>

CollectWrapper ==
  /\ NodeFree /\ Wrapper \in refs
  /\ Release(M, Wrapper)
  /\ UNCHANGED <<jobs, settled, finished, answered, jobQueue, dukQueue, nodeQueue,
                 jVars, dVars, jobExiting, dukExiting, nodeRefs>>

\* M runs a task of the node scheduler: it converts for D, or settles a promise.
RunTask ==
  /\ NodeFree /\ NodeLocks /\ nodeQueue # << >>
  /\ LET task == Head(nodeQueue) IN
       IF task.does = "settle"
       THEN settled' = settled \cup {task.job} /\ UNCHANGED answered
       ELSE answered' = answered \cup {task.job} /\ UNCHANGED settled
  /\ nodeQueue' = Tail(nodeQueue)
  /\ UNCHANGED <<refs, jobs, finished, jobQueue, dukQueue, jVars, dVars,
                 jobExiting, dukExiting, nodeRefs, dying>>

--------------------------------------------------------------------------------
(* J: AsyncJobScheduler::run and AsyncJob::workFunc.                          *)

JobsTake ==
  /\ ~crashed /\ jobPc = "loop" /\ ~jobExiting /\ jobQueue # << >>
  /\ jobJob' = Head(jobQueue) /\ jobQueue' = Tail(jobQueue)
  /\ jobPc' = "submit"
  /\ UNCHANGED <<refs, jobs, settled, finished, answered, dukQueue, nodeQueue, dVars,
                 jobExiting, dukExiting, nodeRefs, dying>>

JobsExit ==
  /\ ~crashed /\ jobPc = "loop" /\ jobExiting
  /\ jobPc' = "exited"
  /\ UNCHANGED <<refs, jobs, settled, finished, answered, jobQueue, dukQueue, nodeQueue,
                 jobJob, dVars, jobExiting, dukExiting, nodeRefs, dying>>

\* _dukScheduler.lock()->addWork
Submit ==
  /\ ~crashed /\ jobPc = "submit"
  /\ IF DukLocks
     THEN /\ dukQueue' = Append(dukQueue, jobJob)
          /\ jobPc' = "wait"
          /\ UNCHANGED <<refs, jobs, settled, finished, answered, jobQueue, nodeQueue,
                         jobJob, dVars, jobExiting, dukExiting, nodeRefs, dying>>
     ELSE Crash

\* _nodeScheduler.lock()->resolvePromise, if there is a promise: the temporary
\* shared_ptr lives until the call has returned.
Resolve ==
  /\ ~crashed /\ jobPc = "wait" /\ jobJob \in finished
  /\ IF jobs[jobJob] = "deref"
     THEN /\ jobPc' = "loop" /\ jobJob' = NoJob
          /\ UNCHANGED <<nodeQueue, nodeRefs, crashed>>
     ELSE IF NodeLocks
     THEN /\ nodeRefs' = nodeRefs \cup {J}
          /\ nodeQueue' = Append(nodeQueue, [does |-> "settle", job |-> jobJob])
          /\ jobPc' = "release"
          /\ UNCHANGED <<jobJob, crashed>>
     ELSE crashed' = TRUE /\ UNCHANGED <<jVars, nodeQueue, nodeRefs>>
  /\ UNCHANGED <<refs, jobs, settled, finished, answered, jobQueue, dukQueue, dVars,
                 jobExiting, dukExiting, teardown, destroyer, early>>

\* The temporary goes, and delete this.  It may be the last one: then
\* ~AsyncNodeScheduler runs on J.
ReleaseNode ==
  /\ ~crashed /\ jobPc = "release"
  /\ nodeRefs' = nodeRefs \ {J}
  /\ jobPc' = "loop" /\ jobJob' = NoJob
  /\ UNCHANGED <<refs, jobs, settled, finished, answered, jobQueue, dukQueue, nodeQueue,
                 dVars, jobExiting, dukExiting, dying>>

--------------------------------------------------------------------------------
(* D: AsyncJobScheduler::run and AsyncJob::dukFunc.                           *)

DukTake ==
  /\ ~crashed /\ dukPc = "loop" /\ ~dukExiting /\ dukQueue # << >>
  /\ dukJob' = Head(dukQueue) /\ dukQueue' = Tail(dukQueue)
  /\ dukPc' = IF jobs[dukJob'] = "call" THEN "ask" ELSE "work"
  /\ UNCHANGED <<refs, jobs, settled, finished, answered, jobQueue, nodeQueue, jVars,
                 jobExiting, dukExiting, nodeRefs, dying>>

DukExit ==
  /\ ~crashed /\ dukPc = "loop" /\ dukExiting
  /\ dukPc' = "exited"
  /\ UNCHANGED <<refs, jobs, settled, finished, answered, jobQueue, dukQueue, nodeQueue,
                 jVars, dukJob, jobExiting, dukExiting, nodeRefs, dying>>

\* Mutant: D goes on without waiting for M.
Ask_Unwaited ==
  /\ ~crashed /\ dukPc = "ask"
  /\ nodeQueue' = Append(nodeQueue, [does |-> "convert", job |-> dukJob])
  /\ dukPc' = "work"
  /\ UNCHANGED <<refs, jobs, settled, finished, answered, jobQueue, dukQueue,
                 jVars, dukJob, jobExiting, dukExiting, nodeRefs, dying>>

\* _nodeScheduler.lock()->addWork, for the arguments or for the result.
Ask ==
  /\ ~crashed /\ dukPc = "ask"
  /\ IF NodeLocks
     THEN /\ nodeQueue' = Append(nodeQueue, [does |-> "convert", job |-> dukJob])
          /\ dukPc' = "asked"
          /\ UNCHANGED <<refs, jobs, settled, finished, answered, jobQueue, dukQueue,
                         jVars, dukJob, jobExiting, dukExiting, nodeRefs, dying>>
     ELSE Crash

\* D goes on; its work uses the heap through the raw pointer.
Work ==
  /\ ~crashed
  /\ dukPc = "work" \/ (dukPc = "asked" /\ dukJob \in answered)
  /\ IF HeapThere
     THEN /\ dukPc' = IF jobs[dukJob] = "call" THEN "pops" ELSE "finish"
          /\ UNCHANGED <<refs, jobs, settled, finished, answered, jobQueue, dukQueue,
                         nodeQueue, jVars, dukJob, jobExiting, dukExiting, nodeRefs, dying>>
     ELSE Crash

\* _ctx.lock()->getDuktape(), when there is something to pop.
LockContext ==
  /\ ~crashed /\ dukPc = "pops"
  /\ IF ContextLocks
     THEN /\ refs' = refs \cup {D}
          /\ dukPc' = "popped"
          /\ UNCHANGED <<jobs, settled, finished, answered, jobQueue, dukQueue, nodeQueue,
                         jVars, dukJob, jobExiting, dukExiting, nodeRefs, dying>>
     ELSE Crash

\* The end of the statement.
UnlockContext ==
  /\ ~crashed /\ dukPc = "popped"
  /\ dukPc' = "finish"
  /\ Release(D, D)
  /\ UNCHANGED <<jobs, settled, finished, answered, jobQueue, dukQueue, nodeQueue,
                 jVars, dukJob, jobExiting, dukExiting, nodeRefs>>

\* _dukFinished, unless D is in the destructor.
Finish ==
  /\ ~crashed /\ dukPc = "finish" /\ destroyer # D
  /\ finished' = finished \cup {dukJob}
  /\ dukPc' = "loop" /\ dukJob' = NoJob
  /\ UNCHANGED <<refs, jobs, settled, answered, jobQueue, dukQueue, nodeQueue, jVars,
                 jobExiting, dukExiting, nodeRefs, dying>>

--------------------------------------------------------------------------------
(* ~AsyncContext, by the thread that released it last.  Members are destroyed in
   the opposite order of their declaration.                                   *)

Going(from, to) == ~crashed /\ teardown = from /\ teardown' = to

OthersUnchanged == UNCHANGED <<refs, jobs, settled, finished, answered, jobQueue,
                               dukQueue, nodeQueue, jVars, dVars, destroyer, early>>

\* ~AsyncNodeScheduler, if J does not hold it for a moment longer.
DropNodeScheduler ==
  /\ Going("node", "jobs")
  /\ nodeRefs' = nodeRefs \ {Context}
  /\ UNCHANGED <<jobExiting, dukExiting, crashed>> /\ OthersUnchanged

\* Mutant: J is not told to stop.
StopJobs_Forgotten ==
  /\ Going("jobs", "joinJobs")
  /\ UNCHANGED <<nodeRefs, jobExiting, dukExiting, crashed>> /\ OthersUnchanged

\* ~AsyncJobScheduler of J: the order to stop, and the join.
StopJobs ==
  /\ Going("jobs", "joinJobs")
  /\ jobExiting' = TRUE
  /\ UNCHANGED <<nodeRefs, dukExiting, crashed>> /\ OthersUnchanged

\* Mutant: J's thread is detached, as the node scheduler's is.
JoinJobs_Detached ==
  /\ Going("joinJobs", "duk")
  /\ UNCHANGED <<nodeRefs, jobExiting, dukExiting, crashed>> /\ OthersUnchanged

JoinJobs ==
  /\ Going("joinJobs", "duk") /\ jobPc = "exited"
  /\ UNCHANGED <<nodeRefs, jobExiting, dukExiting, crashed>> /\ OthersUnchanged

\* The same of D.  A thread that joins itself throws in a destructor.
StopDuk ==
  /\ Going("duk", "joinDuk")
  /\ dukExiting' = TRUE
  /\ crashed' = (destroyer = D)
  /\ UNCHANGED <<nodeRefs, jobExiting>> /\ OthersUnchanged

\* The rest goes, the heap too.
JoinDuk ==
  /\ Going("joinDuk", "gone") /\ dukPc = "exited"
  /\ UNCHANGED <<nodeRefs, jobExiting, dukExiting, crashed>>
  /\ destroyer' = Nobody
  /\ UNCHANGED <<refs, jobs, settled, finished, answered, jobQueue, dukQueue, nodeQueue,
                 jVars, dVars, early>>

DestructorStep == DropNodeScheduler \/ StopJobs \/ JoinJobs \/ StopDuk \/ JoinDuk
JobsStep == JobsTake \/ JobsExit \/ Submit \/ Resolve \/ ReleaseNode
DukStep  == DukTake \/ DukExit \/ Ask \/ Work \/ LockContext \/ UnlockContext \/ Finish

Next == \/ Call \/ CollectWrapper \/ RunTask
        \/ \E s \in Scopes : CollectScope(s)
        \/ JobsStep \/ DukStep \/ DestructorStep

\* The threads go on, and the event loop serves the node scheduler.
Spec == Init /\ [][Next]_vars
        /\ WF_vars(JobsStep) /\ WF_vars(DukStep) /\ WF_vars(DestructorStep)
        /\ WF_vars(RunTask)

--------------------------------------------------------------------------------
(* Properties.                                                                *)

Types ==
  /\ refs \subseteq Scopes \cup {Wrapper, D}
  /\ jobs \in Seq(Kinds)
  /\ settled \cup finished \cup answered \subseteq DOMAIN jobs
  /\ jobQueue \in Seq(Job) /\ dukQueue \in Seq(Job)
  /\ nodeQueue \in Seq([does : {"settle", "convert"}, job : Job])
  /\ jobPc \in {"loop", "submit", "wait", "release", "exited"}
  /\ dukPc \in {"loop", "ask", "asked", "work", "pops", "popped", "finish", "exited"}
  /\ {jobJob, dukJob} \subseteq Job \cup {NoJob}
  /\ nodeRefs \subseteq {Context, J}
  /\ teardown \in {"none", "node", "jobs", "joinJobs", "duk", "joinDuk", "gone"}
  /\ destroyer \in {Nobody, M, D}
  /\ {jobExiting, dukExiting, early, crashed} \subseteq BOOLEAN

\* D has one job at most, which waits in its queue or for M.
OneForDuk ==
  /\ Len(dukQueue) <= 1
  /\ \A i, k \in DOMAIN nodeQueue :
       nodeQueue[i].does = "convert" =>
         dukQueue = << >> /\ (nodeQueue[k].does = "convert" => i = k)

\* The variables are of their types, and a job is in one queue or thread at a time.
TypeOK == Types /\ OneForDuk

\* As long as every promise was settled before the last wrapper was collected, no
\* thread finds a null pointer and the context dies on the node thread, whatever
\* dereferences are still queued (AsyncJob.cpp:112, 131, 200-212).
SafeWhenSettled == crashed \/ destroyer = D => early

\* And then ~AsyncContext returns: it never joins a thread that waits for its own.
TeardownReturns == (teardown # "none" /\ ~early) ~> (teardown = "gone")
================================================================================
