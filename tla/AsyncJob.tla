-------------------------------- MODULE AsyncJob --------------------------------
(***************************************************************************)
(* The life of a Duktype::AsyncJob, from the AsyncContext method that makes*)
(* it on the node thread to the promise it settles (AsyncJob.cpp and the   *)
(* job-making methods of AsyncContext.cpp).                                *)
(*                                                                         *)
(* Threads: J runs workFunc (AsyncContext::_jobScheduler), D runs dukFunc  *)
(* (_dukScheduler), M is the node thread, which makes the jobs, runs the   *)
(* tasks of _nodeScheduler and settles the promises.  The schedulers are   *)
(* the abstract ones, SerialExecutor twice and NodeExecutor, which the     *)
(* modules AsyncJobScheduler and AsyncNodeScheduler implement.             *)
(*                                                                         *)
(* J waits for D with _dukWorkMutex, _dukWait and _dukFinished; D waits    *)
(* for M, up to twice for the job itself and once per node function that   *)
(* its script calls, with _nodeWorkMutex, _nodeWait and _nodeFinished.     *)
(* Each lock, test of a predicate, block and notify is a step.  A node     *)
(* function called from a script has an AsyncJob of its own                *)
(* (AsyncContext::functionCall): D's is Nested, M's is Stuck.              *)
(*                                                                         *)
(* The value stack of the Duktape heap is its height, top; left is how much*)
(* of it nobody accounts for, the promises of DukValue::fromV8.            *)
(***************************************************************************)
EXTENDS Integers, Sequences, FiniteSets

CONSTANTS Jobs,          \* the AsyncJobs made by AsyncContext's methods
          NoJob,
          Nested,        \* the AsyncJob of a node function called by D's script
          Stuck,         \* the AsyncJob of one called while M converts a value
          NoTask,
          Kinds,         \* the AsyncContext methods that are called
          ResultValues,  \* what the scripts evaluate to
          MaxCalls,      \* bound on the node functions one job's script calls
          MaxPromises,   \* bound on the promises in one job's arguments
          SpuriousWaits, \* threads whose waits may return without a notify
          MaxSpurious    \* bound on how often they do

(* What each AsyncContext method asks of its job:                             *)
(*   settles   it has a promise (runWithPromise, not run)                     *)
(*   fetch     who asks for the return value: nobody, the work, or dukFunc    *)
(*   makes     the return value is made by a setReturnValueWork               *)
(*   args      how many arguments setArgs may be given                        *)
(*   receiver  how many values _preArgsWork pushes and _pops takes off: the   *)
(*             stash, the global object, or the stash and an object in it     *)
(*   name      what it pushes on top of them: the name of what is called      *)
(*   access    as receiver, but pushed by the work                            *)
(*   done      what the work leaves, for the name or nothing, as its result   *)
(*   failed    and what it leaves more or less than the name when it throws   *)
(*   script    the work runs script code, which may call node functions       *)

Plain == [settles |-> TRUE, fetch |-> "no", makes |-> FALSE, args |-> {0},
          receiver |-> {0}, name |-> 0, access |-> {0}, done |-> 0, failed |-> {},
          script |-> FALSE]

\* evalInternal wraps the result in a DukValue, and an error too, which it pops.
Eval == [Plain EXCEPT !.fetch = "work", !.done = 1, !.failed = {0}, !.script = TRUE]

\* DuktapeContext::runCallback leaves the error where the name was.
RunCallback == [Plain EXCEPT !.fetch = "dukFunc", !.args = {0, 1}, !.receiver = {1},
                             !.name = 1, !.failed = {0}, !.script = TRUE]

\* The error is popped.
ResolvePromise == [Plain EXCEPT !.fetch = "dukFunc", !.args = {1}, !.receiver = {1},
                                !.name = 1, !.failed = {-1}, !.script = TRUE]

CatchPromise == [Plain EXCEPT !.fetch = "dukFunc", !.args = {1}, !.receiver = {1},
                              !.name = 1, !.failed = {-1}, !.script = TRUE]

DerefObject == [Plain EXCEPT !.settles = FALSE]

DerefCallback == [Plain EXCEPT !.settles = FALSE]

SetPropertyFunction == [Plain EXCEPT !.access = {1, 2}]

\* A setter may run.
SetPropertyValue == [Plain EXCEPT !.args = {1}, !.receiver = {1, 2}, !.script = TRUE]

\* A getter may run.
GetProperty == [Plain EXCEPT !.fetch = "dukFunc", !.access = {1, 2}, !.done = 1,
                             !.script = TRUE]

DeleteProperty == [Plain EXCEPT !.access = {1, 2}]

CreateObjectAsync == [Plain EXCEPT !.fetch = "dukFunc", !.makes = TRUE]

\* If what was looked up by name is no object, it is left on the stack.
GetObject == [Plain EXCEPT !.fetch = "dukFunc", !.makes = TRUE, !.failed = {0, 1}]

\* The error is left where the name was.
CallMethod == [Plain EXCEPT !.fetch = "dukFunc", !.args = {0, 1},
                            !.receiver = {1, 2}, !.name = 1, !.failed = {0},
                            !.script = TRUE]

RunGC == Plain

Method == [eval |-> Eval, runCallback |-> RunCallback,
           resolvePromise |-> ResolvePromise, catchPromise |-> CatchPromise,
           derefObject |-> DerefObject, derefCallback |-> DerefCallback,
           setPropertyFunction |-> SetPropertyFunction,
           setPropertyValue |-> SetPropertyValue, getProperty |-> GetProperty,
           deleteProperty |-> DeleteProperty, createObject |-> CreateObjectAsync,
           getObject |-> GetObject, callMethod |-> CallMethod, runGC |-> RunGC]

\* A plain value, a Duktape promise that is already settled, or a promise whose
\* then() throws.
AllValues == {"plain", "settledPromise", "throwingThen"}

ASSUME KindAssumption == /\ Kinds \subseteq DOMAIN Method
                         /\ ResultValues \subseteq AllValues
ASSUME JobsAssumption == /\ NoJob \notin Jobs /\ Nested \notin Jobs
                         /\ Stuck \notin Jobs /\ Nested # Stuck
ASSUME JobBoundAssumption == /\ MaxCalls \in Nat /\ MaxSpurious \in Nat
                             /\ MaxPromises \in Nat
                             /\ SpuriousWaits \subseteq {"J", "D"}

--------------------------------------------------------------------------------
Objects == Jobs \cup {Nested, Stuck}
Task == [job : Objects, func : {"args", "return", "marshal", "resolve"}]

VARIABLES
  jobQueue, jobCurrent,               \* _jobScheduler
  dukQueue, dukCurrent,               \* _dukScheduler
  normal, priority, picked, running,  \* _nodeScheduler
  jPC, dPC, mPC,                      \* where J, D and M are
  dObj, dNext,                        \* the AsyncJob D waits in; where it goes on
  mTask,                              \* the task M is running
  dukMutex, nodeMutex,                \* holders of the two mutexes of an AsyncJob
  dukFinished, nodeFinished,          \* the two flags of an AsyncJob
  alive,                              \* AsyncJobs made and not deleted
  job,                                \* the other fields of the Jobs
  top, pops,                          \* height of the value stack; _pops
  left,                               \* the part of top that fromV8 pushed too much
  calls,                              \* node functions called by D's script
  called, executed,                   \* Jobs in the order made, run by D
  spurious                            \* wakeups without a notify

jVars == <<jobQueue, jobCurrent>>
dVars == <<dukQueue, dukCurrent>>
nVars == <<normal, priority, picked, running>>
flags == <<dukMutex, nodeMutex, dukFinished, nodeFinished>>
stack == <<top, pops, left>>
history == <<called, executed, spurious>>
vars == <<jVars, dVars, nVars, jPC, dPC, mPC, dObj, dNext, mTask, flags, alive,
          job, stack, calls, history>>

J == INSTANCE SerialExecutor
       WITH pending <- jobQueue, current <- jobCurrent, closed <- FALSE
D == INSTANCE SerialExecutor
       WITH pending <- dukQueue, current <- dukCurrent, closed <- FALSE
N == INSTANCE NodeExecutor WITH Tasks <- Task

Init == /\ J!Init /\ D!Init /\ N!Init
        /\ jPC = "idle" /\ dPC = "idle" /\ mPC = "loop"
        /\ dObj = NoJob /\ dNext = "idle" /\ mTask = NoTask
        /\ dukMutex = [j \in Jobs |-> "free"]
        /\ nodeMutex = [o \in Objects |-> "free"]
        /\ dukFinished = [j \in Jobs |-> FALSE]
        /\ nodeFinished = [o \in Objects |-> FALSE]
        /\ alive = {}
        /\ job = [j \in Jobs |-> [kind |-> "none", args |-> 0, error |-> FALSE,
                                  returned |-> FALSE, promise |-> "none"]]
        /\ top = 0 /\ pops = 0 /\ left = 0 /\ calls = 0
        /\ called = << >> /\ executed = << >> /\ spurious = 0

--------------------------------------------------------------------------------
(* The node thread calls an AsyncContext method: from its event loop, or from *)
(* a node function that a script has called.                                  *)

\* Mutant: what releases a handle is queued first.
Call_SilentFirst(j, k, n) ==
  /\ mPC \in {"loop", "callback"}
  /\ job[j].kind = "none"
  /\ job' = [job EXCEPT ![j].kind = k, ![j].args = n,
                        ![j].promise = IF Method[k].settles THEN "pending" ELSE "none"]
  /\ jobQueue' = IF Method[k].settles THEN Append(jobQueue, j) ELSE <<j>> \o jobQueue
  /\ alive' = alive \cup {j}
  /\ called' = Append(called, j)
  /\ UNCHANGED <<jobCurrent, dVars, nVars, jPC, dPC, mPC, dObj, dNext, mTask,
                 flags, stack, calls, executed, spurious>>

Call(j, k, n) ==
  /\ mPC \in {"loop", "callback"}
  /\ job[j].kind = "none"
  /\ job' = [job EXCEPT ![j].kind = k, ![j].args = n,
                        ![j].promise = IF Method[k].settles THEN "pending" ELSE "none"]
  /\ J!Submit(j)
  /\ alive' = alive \cup {j}
  /\ called' = Append(called, j)
  /\ UNCHANGED <<dVars, nVars, jPC, dPC, mPC, dObj, dNext, mTask, flags, stack,
                 calls, executed, spurious>>

--------------------------------------------------------------------------------
(* J: workFunc.                                                               *)

JStart == /\ jPC = "idle"
          /\ J!Start
          /\ jPC' = "submit"
          /\ UNCHANGED <<dVars, nVars, dPC, mPC, dObj, dNext, mTask, flags, alive,
                         job, stack, calls, history>>

\* _dukFinished = false; lock; hand dukFunc to D; the lock is kept until the wait.
JSubmit == /\ jPC = "submit"
           /\ dukMutex[jobCurrent] = "free"
           /\ dukMutex' = [dukMutex EXCEPT ![jobCurrent] = "J"]
           /\ dukFinished' = [dukFinished EXCEPT ![jobCurrent] = FALSE]
           /\ D!Submit(jobCurrent)
           /\ jPC' = "test"
           /\ UNCHANGED <<jVars, nVars, dPC, mPC, dObj, dNext, mTask, nodeMutex,
                          nodeFinished, alive, job, stack, calls, history>>

JWait == /\ jPC = "test"
         /\ ~dukFinished[jobCurrent]
         /\ dukMutex' = [dukMutex EXCEPT ![jobCurrent] = "free"]
         /\ jPC' = "blocked"
         /\ UNCHANGED <<jVars, dVars, nVars, dPC, mPC, dObj, dNext, mTask,
                        nodeMutex, dukFinished, nodeFinished, alive, job, stack,
                        calls, history>>

JRelock == /\ jPC = "relock"
           /\ dukMutex[jobCurrent] = "free"
           /\ dukMutex' = [dukMutex EXCEPT ![jobCurrent] = "J"]
           /\ jPC' = "test"
           /\ UNCHANGED <<jVars, dVars, nVars, dPC, mPC, dObj, dNext, mTask,
                          nodeMutex, dukFinished, nodeFinished, alive, job, stack,
                          calls, history>>

\* Mutant: workFunc does not wait for dukFunc.
JSettle_Unchecked ==
  /\ jPC = "test"
  /\ dukMutex' = [dukMutex EXCEPT ![jobCurrent] = "free"]
  /\ IF Method[job[jobCurrent].kind].settles
     THEN N!SubmitPriority([job |-> jobCurrent, func |-> "resolve"])
     ELSE UNCHANGED nVars
  /\ alive' = alive \ {jobCurrent}
  /\ J!Finish
  /\ jPC' = "idle"
  /\ UNCHANGED <<dVars, dPC, mPC, dObj, dNext, mTask, nodeMutex, dukFinished,
                 nodeFinished, job, stack, calls, history>>

\* D is done with the job: queue the settling of its promise, then delete this.
JSettle == /\ jPC = "test"
           /\ dukFinished[jobCurrent]
           /\ dukMutex' = [dukMutex EXCEPT ![jobCurrent] = "free"]
           /\ IF Method[job[jobCurrent].kind].settles
              THEN N!SubmitPriority([job |-> jobCurrent, func |-> "resolve"])
              ELSE UNCHANGED nVars
           /\ alive' = alive \ {jobCurrent}
           /\ J!Finish
           /\ jPC' = "idle"
           /\ UNCHANGED <<dVars, dPC, mPC, dObj, dNext, mTask, nodeMutex,
                          dukFinished, nodeFinished, job, stack, calls, history>>

--------------------------------------------------------------------------------
(* D: dukFunc.                                                                *)

DStart == /\ dPC = "idle"
          /\ D!Start
          /\ executed' = Append(executed, Head(dukQueue))
          /\ dPC' = "lock"
          /\ UNCHANGED <<jVars, nVars, jPC, mPC, dObj, dNext, mTask, flags, alive,
                         job, stack, calls, called, spurious>>

DLock == /\ dPC = "lock"
         /\ dukMutex[dukCurrent] = "free"
         /\ dukMutex' = [dukMutex EXCEPT ![dukCurrent] = "D"]
         /\ calls' = 0
         /\ pops' = 0
         /\ dPC' = "preArgs"
         /\ UNCHANGED <<jVars, dVars, nVars, jPC, mPC, dObj, dNext, mTask,
                        nodeMutex, dukFinished, nodeFinished, alive, job, top, left,
                        history>>

\* Mutant: D hands over and goes on without waiting.
AskNode_NoWait(o, f, next) ==
  /\ nodeFinished' = [nodeFinished EXCEPT ![o] = FALSE]
  /\ N!Submit([job |-> o, func |-> f])
  /\ dPC' = next
  /\ UNCHANGED <<dObj, dNext, nodeMutex, dukMutex, dukFinished>>

\* _nodeFinished = false; lock; hand a function to the node thread.  D keeps the
\* lock until it waits, and goes on at next when the flag is set.
AskNode(o, f, next) ==
  /\ nodeMutex[o] = "free"
  /\ nodeMutex' = [nodeMutex EXCEPT ![o] = "D"]
  /\ nodeFinished' = [nodeFinished EXCEPT ![o] = FALSE]
  /\ N!Submit([job |-> o, func |-> f])
  /\ dObj' = o
  /\ dNext' = next
  /\ dPC' = "test"
  /\ UNCHANGED <<dukMutex, dukFinished>>

DGoOn(label) == /\ dPC' = label
                /\ UNCHANGED <<nVars, dObj, dNext, flags>>

\* What D's job was asked to do, and with how many arguments.
DukMethod == Method[job[dukCurrent].kind]
DukArgs   == job[dukCurrent].args

\* _preArgsWork, and if there are arguments the node thread is asked for them.
DPreArgs ==
  /\ dPC = "preArgs"
  /\ \E n \in DukMethod.receiver : pops' = n /\ top' = top + n + DukMethod.name
  /\ IF DukArgs > 0 THEN AskNode(dukCurrent, "args", "work") ELSE DGoOn("work")
  /\ UNCHANGED <<jVars, dVars, jPC, mPC, mTask, alive, job, left, calls, history>>

\* The script calls a node function: AsyncContext::functionCall makes an AsyncJob
\* and marshalToNodeThread waits for it inside the call.
DCallNode == /\ dPC = "work"
             /\ DukMethod.script
             /\ calls < MaxCalls
             /\ calls' = calls + 1
             /\ alive' = alive \cup {Nested}
             /\ AskNode(Nested, "marshal", "work")
             /\ UNCHANGED <<jVars, dVars, jPC, mPC, mTask, job, stack, history>>

\* _work throws; there is no return value to ask for.
DFail == /\ dPC = "work"
         /\ \E n \in DukMethod.failed : top' = top - DukArgs + n
         /\ job' = [job EXCEPT ![dukCurrent].error = TRUE]
         /\ DGoOn("finish")
         /\ UNCHANGED <<jVars, dVars, jPC, mPC, mTask, alive, pops, left, calls,
                        history>>

\* Mutant: dukFunc forgets the return value.
FetchReturn_Never == IF DukMethod.fetch = "work"
                     THEN AskNode(dukCurrent, "return", "evalDone")
                     ELSE DGoOn("finish")

\* The node thread is asked for the return value if there is to be one: by the work
\* itself for eval (setReturnValue), by dukFunc for the others.
FetchReturn == CASE DukMethod.fetch = "work" ->
                      AskNode(dukCurrent, "return", "evalDone")
                 [] DukMethod.fetch = "dukFunc" ->
                      AskNode(dukCurrent, "return", "finish")
                 [] DukMethod.fetch = "no" -> DGoOn("finish")

\* _work returns: arguments are used up, a receiver pushed by the work will be popped.
DSucceed == /\ dPC = "work"
            /\ \E n \in DukMethod.access :
                 /\ pops' = pops + n
                 /\ top' = top - DukArgs + n + DukMethod.done
            /\ FetchReturn
            /\ UNCHANGED <<jVars, dVars, jPC, mPC, mTask, alive, job, left, calls,
                           history>>

\* eval's DukValue goes out of scope and pops the result.
DEvalDone == /\ dPC = "evalDone"
             /\ top' = top - 1
             /\ DGoOn("finish")
             /\ UNCHANGED <<jVars, dVars, jPC, mPC, mTask, alive, job, pops, left,
                            calls, history>>

\* The wait for the node thread: the predicate is true, unlock and go on ...
DTestTrue == /\ dPC = "test"
             /\ nodeFinished[dObj]
             /\ nodeMutex' = [nodeMutex EXCEPT ![dObj] = "free"]
             /\ alive' = alive \ {Nested}
             /\ dPC' = dNext
             /\ dObj' = NoJob
             /\ dNext' = "idle"
             /\ UNCHANGED <<jVars, dVars, nVars, jPC, mPC, mTask, dukMutex,
                            dukFinished, nodeFinished, job, stack, calls, history>>

DWaiting(from, to) ==
  /\ dPC = from
  /\ dPC' = to
  /\ UNCHANGED <<jVars, dVars, nVars, jPC, mPC, dObj, dNext, mTask, dukMutex,
                 dukFinished, nodeFinished, alive, job, stack, calls, history>>

\* ... or false: D is about to block and still holds the lock ...
DTestFalse == /\ dPC = "test" /\ ~nodeFinished[dObj]
              /\ DWaiting("test", "block")
              /\ UNCHANGED nodeMutex

\* ... blocks, which releases it ...
DBlock == /\ DWaiting("block", "blocked")
          /\ nodeMutex' = [nodeMutex EXCEPT ![dObj] = "free"]

\* ... and when notified takes it again.
DRelock == /\ dPC = "relock" /\ nodeMutex[dObj] = "free"
           /\ DWaiting("relock", "test")
           /\ nodeMutex' = [nodeMutex EXCEPT ![dObj] = "D"]

\* Pop what _pops says, set _dukFinished, unlock.
DFinish == /\ dPC = "finish"
           /\ top' = top - pops
           /\ dukFinished' = [dukFinished EXCEPT ![dukCurrent] = TRUE]
           /\ dukMutex' = [dukMutex EXCEPT ![dukCurrent] = "free"]
           /\ dPC' = "notify"
           /\ UNCHANGED <<jVars, dVars, nVars, jPC, mPC, dObj, dNext, mTask,
                          nodeMutex, nodeFinished, alive, job, pops, left, calls,
                          history>>

\* Mutant: dukFunc does not notify.
DNotify_Omitted ==
  /\ dPC = "notify"
  /\ D!Finish
  /\ dPC' = "idle"
  /\ UNCHANGED <<jVars, nVars, jPC, mPC, dObj, dNext, mTask, flags, alive, job,
                 stack, calls, history>>

\* _dukWait.notify_one(), after the unlock.
DNotify == /\ dPC = "notify"
           /\ jPC' = IF jPC = "blocked" /\ jobCurrent = dukCurrent
                     THEN "relock" ELSE jPC
           /\ D!Finish
           /\ dPC' = "idle"
           /\ UNCHANGED <<jVars, nVars, mPC, dObj, dNext, mTask, flags, alive, job,
                          stack, calls, history>>

--------------------------------------------------------------------------------
(* M: the tasks of the node scheduler.                                        *)

\* The node scheduler's own thread chooses the next task.
Pick == /\ N!Pick
        /\ UNCHANGED <<jVars, dVars, jPC, dPC, mPC, dObj, dNext, mTask, flags,
                       alive, job, stack, calls, history>>

\* Only the branch of nodeReturnValueFunc that calls _returnValueWork, and the
\* settling of a promise, take no lock.
MBegin == /\ mPC = "loop"
          /\ N!Run
          /\ mTask' = picked
          /\ mPC' = CASE picked.func = "resolve" -> "settle"
                      [] picked.func = "return"
                         /\ Method[job[picked.job].kind].makes -> "make"
                      [] OTHER -> "lock"
          /\ UNCHANGED <<jVars, dVars, jPC, dPC, dObj, dNext, flags, alive, job,
                         stack, calls, history>>

MLock == /\ mPC = "lock"
         /\ nodeMutex[mTask.job] = "free"
         /\ nodeMutex' = [nodeMutex EXCEPT ![mTask.job] = "M"]
         /\ mPC' = CASE mTask.func = "args"    -> "args"
                     [] mTask.func = "return"  -> "return"
                     [] mTask.func = "marshal" -> "callback"
         /\ UNCHANGED <<jVars, dVars, nVars, jPC, dPC, dObj, dNext, mTask, dukMutex,
                        dukFinished, nodeFinished, alive, job, stack, calls, history>>

\* The end of a critical section that sets _nodeFinished before it unlocks.
SetAndUnlock == /\ nodeFinished' = [nodeFinished EXCEPT ![mTask.job] = TRUE]
                /\ nodeMutex' = [nodeMutex EXCEPT ![mTask.job] = "free"]
                /\ mPC' = "notify"

\* nodeArgsFunc: fromV8 makes each argument one value on the stack, and one more
\* for each promise in it if the heap has no Promise: the error of duk_pnew, under
\* the undefined that stands for the promise.  Whether it has one is up to what has
\* been evaluated in it: it is chosen here.  The work counts one value for each
\* argument, so that setProperty then sets a property of the error, and what is
\* called is looked up too high; it takes as many values off the stack as ever.
MArgs == /\ mPC = "args"
         /\ \E promises \in 0 .. MaxPromises :
              /\ top' = top + job[mTask.job].args + promises
              /\ left' = left + promises
         /\ SetAndUnlock
         /\ UNCHANGED <<jVars, dVars, nVars, jPC, dPC, dObj, dNext, mTask, dukMutex,
                        dukFinished, alive, job, pops, calls, history>>

\* nodeMarshalFunc: the node function has returned or thrown; both are recorded in
\* the nested job and the script goes on with a value or an error.
MCallbackDone == /\ mPC = "callback"
                 /\ SetAndUnlock
                 /\ UNCHANGED <<jVars, dVars, nVars, jPC, dPC, dObj, dNext, mTask,
                                dukMutex, dukFinished, alive, job, stack, calls,
                                history>>

\* Mutant: the value is popped whoever owns it.
MReturn_AlwaysPops ==
  /\ mPC = "return"
  /\ "plain" \in ResultValues
  /\ top' = top - 1
  /\ job' = [job EXCEPT ![mTask.job].returned = TRUE]
  /\ nodeMutex' = [nodeMutex EXCEPT ![mTask.job] = "free"]
  /\ mPC' = "flag"
  /\ UNCHANGED <<jVars, dVars, nVars, jPC, dPC, dObj, dNext, mTask, dukMutex,
                 dukFinished, nodeFinished, alive, pops, left, calls, history>>

\* nodeReturnValueFunc, the branch that converts: the DukValue pops the value
\* unless eval owns it.  The lock is released before the flag is set.
MReturn == /\ mPC = "return"
           /\ "plain" \in ResultValues
           /\ top' = IF Method[job[mTask.job].kind].fetch = "work" THEN top ELSE top - 1
           /\ job' = [job EXCEPT ![mTask.job].returned = TRUE]
           /\ nodeMutex' = [nodeMutex EXCEPT ![mTask.job] = "free"]
           /\ mPC' = "flag"
           /\ UNCHANGED <<jVars, dVars, nVars, jPC, dPC, dObj, dNext, mTask,
                          dukMutex, dukFinished, nodeFinished, alive, pops, left,
                          calls, history>>

\* toV8 of a settled promise calls its then(), the polyfill calls setImmediate, a
\* node function: functionCall waits for a task that only M could run.
MReturnSettled == /\ mPC = "return"
                  /\ "settledPromise" \in ResultValues
                  /\ alive' = alive \cup {Stuck}
                  /\ N!Submit([job |-> Stuck, func |-> "marshal"])
                  /\ mPC' = "stuck"
                  /\ UNCHANGED <<jVars, dVars, jPC, dPC, dObj, dNext, mTask, flags,
                                 job, stack, calls, history>>

\* toV8 throws: the lock is released by the unwinding, handleRunInContext drops the
\* exception, and nobody sets the flag.  (D does not run again: what is left on
\* the stack is never looked at.)
MReturnThrows == /\ mPC = "return"
                 /\ "throwingThen" \in ResultValues
                 /\ nodeMutex' = [nodeMutex EXCEPT ![mTask.job] = "free"]
                 /\ N!Return
                 /\ mTask' = NoTask
                 /\ mPC' = "loop"
                 /\ UNCHANGED <<jVars, dVars, jPC, dPC, dObj, dNext, dukMutex,
                                dukFinished, nodeFinished, alive, job, stack, calls,
                                history>>

\* The branch that calls _returnValueWork: no lock.
MMake == /\ mPC = "make"
         /\ job' = [job EXCEPT ![mTask.job].returned = TRUE]
         /\ mPC' = "flag"
         /\ UNCHANGED <<jVars, dVars, nVars, jPC, dPC, dObj, dNext, mTask, flags,
                        alive, stack, calls, history>>

\* _nodeFinished = true, outside the lock in both branches.
MFlag == /\ mPC = "flag"
         /\ nodeFinished' = [nodeFinished EXCEPT ![mTask.job] = TRUE]
         /\ mPC' = "notify"
         /\ UNCHANGED <<jVars, dVars, nVars, jPC, dPC, dObj, dNext, mTask, dukMutex,
                        nodeMutex, dukFinished, alive, job, stack, calls, history>>

\* Mutant: the node thread does not notify.
MNotify_Omitted ==
  /\ mPC = "notify"
  /\ N!Return
  /\ mTask' = NoTask
  /\ mPC' = "loop"
  /\ UNCHANGED <<jVars, dVars, jPC, dPC, dObj, dNext, flags, alive, job, stack,
                 calls, history>>

\* _nodeWait.notify_one(), after the unlock; the task is over.
MNotify == /\ mPC = "notify"
           /\ dPC' = IF dPC = "blocked" /\ dObj = mTask.job THEN "relock" ELSE dPC
           /\ N!Return
           /\ mTask' = NoTask
           /\ mPC' = "loop"
           /\ UNCHANGED <<jVars, dVars, jPC, dObj, dNext, flags, alive, job, stack,
                          calls, history>>

\* The task queued by AsyncNodeScheduler::resolvePromise.
MSettle == /\ mPC = "settle"
           /\ job' = [job EXCEPT ![mTask.job].promise =
                        IF @ # "pending" THEN "twice"
                        ELSE IF job[mTask.job].error THEN "rejected"
                        ELSE "resolved"]
           /\ N!Return
           /\ mTask' = NoTask
           /\ mPC' = "loop"
           /\ UNCHANGED <<jVars, dVars, jPC, dPC, dObj, dNext, flags, alive, stack,
                          calls, history>>

--------------------------------------------------------------------------------
\* A condition variable's wait may return without a notify.
SpuriousWakeup ==
  /\ spurious < MaxSpurious
  /\ spurious' = spurious + 1
  /\ \/ "J" \in SpuriousWaits /\ jPC = "blocked" /\ jPC' = "relock" /\ UNCHANGED dPC
     \/ "D" \in SpuriousWaits /\ dPC = "blocked" /\ dPC' = "relock" /\ UNCHANGED jPC
  /\ UNCHANGED <<jVars, dVars, nVars, mPC, dObj, dNext, mTask, flags, alive, job,
                 stack, calls, called, executed>>

--------------------------------------------------------------------------------
JStep == JStart \/ JSubmit \/ JWait \/ JRelock \/ JSettle
DStep == DStart \/ DLock \/ DPreArgs \/ DCallNode \/ DFail \/ DSucceed
         \/ DEvalDone \/ DTestTrue \/ DTestFalse \/ DBlock \/ DRelock \/ DFinish
         \/ DNotify
MStep == MBegin \/ MLock \/ MArgs \/ MCallbackDone \/ MReturn \/ MReturnSettled
         \/ MReturnThrows \/ MMake \/ MFlag \/ MNotify \/ MSettle
SomeCall == \E j \in Jobs, k \in Kinds : \E n \in Method[k].args : Call(j, k, n)

\* Every job has been made and carried through: the threads wait for more.
Quiet == /\ \A j \in Jobs : job[j].kind # "none"
         /\ alive = {} /\ jPC = "idle" /\ dPC = "idle" /\ mPC = "loop"
         /\ picked = NoTask /\ normal = << >> /\ priority = << >>
         /\ UNCHANGED vars

Next == SomeCall \/ JStep \/ DStep \/ Pick \/ MStep \/ SpuriousWakeup \/ Quiet

SafeSpec == Init /\ [][Next]_vars

\* Each thread goes on while it can; scripts and node functions end.  Nothing
\* makes the application call.
Spec == /\ SafeSpec
        /\ WF_vars(JStep) /\ WF_vars(DStep) /\ WF_vars(Pick) /\ WF_vars(MStep)

--------------------------------------------------------------------------------
(* Properties.                                                                *)

Fields == [kind : Kinds \cup {"none"}, args : {0, 1}, error : BOOLEAN,
           returned : BOOLEAN,
           promise : {"none", "pending", "resolved", "rejected", "twice"}]

Types ==
  /\ jobQueue \in Seq(Jobs) /\ jobCurrent \in Jobs \cup {NoJob}
  /\ dukQueue \in Seq(Jobs) /\ dukCurrent \in Jobs \cup {NoJob}
  /\ normal \in Seq(Task) /\ priority \in Seq(Task)
  /\ picked \in Task \cup {NoTask} /\ running \in BOOLEAN
  /\ jPC \in {"idle", "submit", "test", "blocked", "relock"}
  /\ dPC \in {"idle", "lock", "preArgs", "work", "evalDone", "test", "block",
              "blocked", "relock", "finish", "notify"}
  /\ mPC \in {"loop", "lock", "args", "return", "callback", "make", "flag",
              "notify", "settle", "stuck"}
  /\ dObj \in Jobs \cup {NoJob, Nested}
  /\ dNext \in {"idle", "work", "evalDone", "finish"}
  /\ mTask \in Task \cup {NoTask}
  /\ dukMutex \in [Jobs -> {"free", "J", "D"}]
  /\ nodeMutex \in [Objects -> {"free", "D", "M"}]
  /\ dukFinished \in [Jobs -> BOOLEAN] /\ nodeFinished \in [Objects -> BOOLEAN]
  /\ alive \subseteq Objects
  /\ job \in [Jobs -> Fields]
  /\ top \in Int /\ pops \in {0, 1, 2} /\ left \in Nat /\ calls \in 0..MaxCalls
  /\ called \in Seq(Jobs) /\ executed \in Seq(Jobs)
  /\ spurious \in 0..MaxSpurious

\* The variables are of their types, and nothing is popped that was not pushed.
TypeOK == Types /\ top >= 0

\* The Duktape heap has no lock: D and the node thread take turns by the waits
\* in dukFunc, setReturnValue and marshalToNodeThread alone.
OneHeapUser == dPC \in {"preArgs", "work", "evalDone", "finish"}
                 => mPC \notin {"args", "return", "callback", "stuck"}

\* D never sleeps on after the node thread has set the flag it waits for, in any of
\* the three places where it waits, nor J after dukFunc is done with its job
\* (AsyncJob.cpp:114, 149, 170, 237).
NoLostAnswer ==
  /\ dPC = "blocked" /\ nodeFinished[dObj] => mPC = "notify" /\ mTask.job = dObj
  /\ jPC = "blocked" /\ dukFinished[jobCurrent] => dPC = "notify" /\ dukCurrent = jobCurrent

\* A job is deleted by J, whose only news of the other threads is _dukFinished: no
\* thread locks, reads, sets or notifies in an AsyncJob that has been deleted, and
\* none will when its task comes up.
NoUseAfterDelete ==
  /\ jPC # "idle" => jobCurrent \in alive
  /\ dPC # "idle" => dukCurrent \in alive
  /\ dObj # NoJob => dObj \in alive
  /\ mPC \notin {"loop", "settle"} => mTask.job \in alive
  /\ \A i \in 1..Len(normal) : normal[i].job \in alive

\* Seen from the node thread an AsyncContext is a serial executor again: through two
\* schedulers and all the hand-overs, jobs run on the heap one at a time and in the
\* order in which they were made.  What releases a handle never overtakes an earlier
\* use of it.
Turns == INSTANCE SerialExecutor
           WITH pending <- SubSeq(called, Len(executed) + 1, Len(called)),
                current <- dukCurrent, closed <- FALSE
TurnsSpec == Turns!Spec

\* A promise is settled once, when its job is over; it is resolved only if the job
\* did not fail, and then with the value the job returned, where it returns one.
Settlement ==
  \A j \in Jobs :
    /\ job[j].promise # "twice"
    /\ job[j].promise \in {"resolved", "rejected"} => j \notin alive
    /\ job[j].promise = "resolved" /\ Method[job[j].kind].fetch # "no"
         => job[j].returned

\* Every job leaves the value stack as it found it, but for an error for each promise
\* given as or in an argument to a heap without Promise (DukValue.cpp:216-221), and
\* for what three methods leave when they fail: callMethod and runCallback the error,
\* getObject perhaps the value that is no object.
StackAccounted ==
  LET Failed(kinds) == Cardinality({j \in Jobs : job[j].error /\ job[j].kind \in kinds})
  IN dPC = "idle" =>
       top - left \in Failed({"callMethod", "runCallback"}) ..
                      Failed({"callMethod", "runCallback", "getObject"})

\* Every promise is settled in the end.
PromisesSettle == \A j \in Jobs : job[j].promise = "pending"
                                  ~> job[j].promise \in {"resolved", "rejected"}

\* A job leaves the node thread free to carry on with life: a comment's promise
\* (AsyncJob.cpp:102) that a run of its own refutes.
NodeNeverWaits == mPC # "stuck"

================================================================================
