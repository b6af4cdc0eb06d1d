---------------------------- MODULE AsyncJob_proofs ----------------------------
(***************************************************************************)
(* Safety of AsyncJob for any jobs, any methods and any node functions     *)
(* called by scripts, whether or not waits return without a notify: its    *)
(* inductive invariant, which says what each of the three threads may be   *)
(* doing given where the others are, and what follows from it.             *)
(***************************************************************************)
EXTENDS AsyncJob, FiniteSetTheorems, SequenceTheorems, TLAPS

\* What a job is like before D has worked on it.
Owed(j)  == IF Method[job[j].kind].settles THEN "pending" ELSE "none"
Fresh(j) == /\ j \in alive /\ job[j].kind \in Kinds /\ job[j].promise = Owed(j)
            /\ ~job[j].error /\ ~job[j].returned

\* It has failed, or has what its promise is to be resolved with.
Done(j) == job[j].error \/ Method[job[j].kind].fetch = "no" \/ job[j].returned

JWaits == {"test", "blocked", "relock"}

\* The jobs that were not made yet, wait for J or are in J.
JobInv ==
  /\ \A j \in Jobs : job[j].kind = "none" =>
       /\ j \notin alive /\ job[j].promise = "none" /\ ~job[j].error /\ ~job[j].returned
  /\ \A i \in DOMAIN jobQueue :
       /\ Fresh(jobQueue[i]) /\ jobQueue[i] # jobCurrent
       /\ \A k \in DOMAIN jobQueue : jobQueue[k] = jobQueue[i] => k = i
  /\ jPC = "idle" <=> jobCurrent = NoJob
  /\ jPC # "idle" => /\ jobCurrent \in alive /\ job[jobCurrent].kind \in Kinds
                     /\ job[jobCurrent].promise = Owed(jobCurrent)
  /\ jPC = "submit" => Fresh(jobCurrent)

\* D has the job that J waits for, or is about to leave one.
DukInv ==
  /\ dPC = "idle" <=> dukCurrent = NoJob
  /\ dukQueue # << >> =>
       /\ dukQueue = <<jobCurrent>> /\ jPC \in JWaits
       /\ ~dukFinished[jobCurrent] /\ dPC \in {"idle", "notify"} /\ Fresh(jobCurrent)
  /\ dPC \notin {"idle", "notify"} =>
       dukCurrent = jobCurrent /\ jPC \in JWaits /\ ~dukFinished[jobCurrent]
  /\ dPC = "lock" => Fresh(dukCurrent)
  /\ dPC = "evalDone" => job[dukCurrent].returned
  /\ dPC = "finish" => Done(dukCurrent)
  /\ jPC \in JWaits /\ dukFinished[jobCurrent] => Done(jobCurrent)

\* A promise is to be settled by one task, after its job, and is settled by it.
Settling(t) == /\ t.func = "resolve" /\ t.job \in Jobs \ alive
               /\ job[t.job].kind \in Kinds /\ job[t.job].promise = "pending"
               /\ Done(t.job)

SettleInv ==
  /\ \A i \in DOMAIN priority :
       /\ Settling(priority[i])
       /\ \A k \in DOMAIN priority : priority[k].job = priority[i].job => k = i
       /\ picked # NoTask /\ picked.func = "resolve" => picked.job # priority[i].job
  /\ picked # NoTask /\ picked.func = "resolve" => Settling(picked)
  /\ Settlement

\* D waits for the node thread.
Waiting == dPC \in {"test", "block", "blocked", "relock"}

\* What D waits for has not been done.
Asked(t) == /\ Waiting /\ t.func # "resolve" /\ t.job = dObj /\ ~nodeFinished[dObj]
            /\ t.func = "return" <=> dNext # "work"
            /\ t.func = "marshal" <=> dObj = Nested

InTask == {"lock", "args", "return", "callback", "make", "flag", "stuck"}

AskInv ==
  /\ dObj \in IF Waiting THEN {dukCurrent, Nested} ELSE {NoJob}
  /\ Waiting => dNext # "idle" /\ (dObj = Nested => dNext = "work")
  /\ Waiting /\ dNext = "evalDone" => DukMethod.fetch = "work"
  /\ Waiting /\ dNext = "finish" => DukMethod.fetch = "dukFunc"
  /\ running <=> mPC # "loop"
  /\ running => picked # NoTask /\ mTask = picked
  /\ mPC = "settle" => mTask.func = "resolve"
  /\ mPC = "args" => mTask.func = "args"
  /\ mPC = "callback" => mTask.func = "marshal"
  /\ mPC \in {"return", "make", "flag", "stuck"} => mTask.func = "return"
  /\ mPC = "lock" /\ mTask.func = "return" => ~DukMethod.makes
  /\ mPC = "return" => ~DukMethod.makes
  /\ mPC = "make" => DukMethod.makes
  /\ mPC = "flag" => job[mTask.job].returned
  /\ mPC = "notify" => mTask.func # "resolve"
  /\ mPC \in InTask => Asked(mTask) /\ (mPC # "stuck" => normal = << >>)
  /\ picked # NoTask /\ ~running /\ picked.func # "resolve" => Asked(picked) /\ normal = << >>
  /\ normal # << >> /\ mPC # "stuck" => Len(normal) = 1 /\ Asked(normal[1])
  /\ Waiting /\ nodeFinished[dObj] /\ dNext # "work" => job[dukCurrent].returned

\* The jobs that failed, and how many of them are known to have left something on
\* the stack, and may have.
AllFailed     == {j \in Jobs : job[j].error}
Failed(kinds) == {j \in AllFailed : job[j].kind \in kinds}
Fewest        == Cardinality(Failed({"callMethod", "runCallback"}))
Most          == Cardinality(Failed({"callMethod", "runCallback", "getObject"}))

\* What lies on the stack on top of that: what was pushed for D's job, and its result.
Pushed == pops + DukMethod.name
Height == CASE dPC = "work" -> Pushed + DukArgs
            [] dPC = "evalDone" -> pops + 1
            [] dPC = "finish" -> pops
            [] Waiting /\ dNext = "work" ->
                 IF dObj = Nested \/ nodeFinished[dObj] THEN Pushed + DukArgs ELSE Pushed
            [] Waiting /\ dNext = "evalDone" -> pops + 1
            [] Waiting /\ dNext = "finish" ->
                 IF DukMethod.makes \/ mPC = "flag" \/ nodeFinished[dObj]
                 THEN pops ELSE pops + 1
            [] OTHER -> 0

StackInv ==
  /\ IsFiniteSet(AllFailed)
  /\ Waiting \/ dPC \in {"preArgs", "work"} => ~job[dukCurrent].error
  /\ dPC = "work" \/ (Waiting /\ dNext = "work") => pops \in DukMethod.receiver
  /\ top - Height - left \in Fewest .. Most

IInv == Types /\ JobInv /\ DukInv /\ SettleInv /\ AskInv /\ StackInv

--------------------------------------------------------------------------------
(* What the steps below need to know of the data.                             *)

USE JobsAssumption, JobBoundAssumption

\* Appending to a queue.
LEMMA AppendFacts ==
  ASSUME NEW S, NEW q \in Seq(S), NEW e \in S
  PROVE  /\ Append(q, e) \in Seq(S) /\ Len(Append(q, e)) = Len(q) + 1
         /\ DOMAIN Append(q, e) = 1 .. (Len(q) + 1) /\ DOMAIN q = 1 .. Len(q)
         /\ Append(q, e)[Len(q) + 1] = e /\ Len(q) \in Nat
         /\ \A i \in DOMAIN q : Append(q, e)[i] = q[i]
<1> QED
  OBVIOUS

\* Putting something in front of a queue.
LEMMA PrependFacts ==
  ASSUME NEW S, NEW q \in Seq(S), NEW e \in S
  PROVE  /\ <<e>> \o q \in Seq(S) /\ Len(<<e>> \o q) = Len(q) + 1
         /\ DOMAIN (<<e>> \o q) = 1 .. (Len(q) + 1) /\ DOMAIN q = 1 .. Len(q)
         /\ (<<e>> \o q)[1] = e /\ Len(q) \in Nat
         /\ \A i \in DOMAIN q : (<<e>> \o q)[i + 1] = q[i]
<1> QED
  OBVIOUS

\* Taking the first of a queue.
LEMMA TailFacts ==
  ASSUME NEW S, NEW q \in Seq(S), q # << >>
  PROVE  /\ Len(q) \in Nat \ {0} /\ DOMAIN q = 1 .. Len(q)
         /\ Head(q) = q[1] /\ Head(q) \in S
         /\ Tail(q) \in Seq(S) /\ Len(Tail(q)) = Len(q) - 1
         /\ DOMAIN Tail(q) = 1 .. (Len(q) - 1)
         /\ \A i \in 1 .. (Len(q) - 1) : Tail(q)[i] = q[i + 1]
<1> QED
  OBVIOUS

\* What is in a queue.
LEMMA ElementFacts ==
  ASSUME NEW S, NEW q \in Seq(S), NEW i \in DOMAIN q
  PROVE  q[i] \in S
<1> QED
  OBVIOUS

\* What holds of every method, and of those that have a return value to fetch.
Sound(m) ==
  /\ m.settles \in BOOLEAN /\ m.makes \in BOOLEAN /\ m.script \in BOOLEAN
  /\ m.fetch \in {"no", "work", "dukFunc"}
  /\ m.args \subseteq {0, 1} /\ m.receiver \subseteq {0, 1, 2}
  /\ m.access \subseteq {0, 1, 2} /\ (m.receiver = {0} \/ m.access = {0})
  /\ m.name \in {0, 1} /\ m.done \in {0, 1}
  /\ \A n \in m.failed : n \in Int
  /\ m.name + m.done = IF m.fetch = "no" \/ m.makes THEN 0 ELSE 1
  /\ m.fetch = "work" => ~m.makes

\* All of AsyncContext's methods are sound, and only three leave something on the stack
\* when they fail.
LEMMA MethodFacts ==
  ASSUME NEW k \in Kinds
  PROVE  /\ Sound(Method[k]) /\ k # "none"
         /\ \A n \in Method[k].failed :
              Method[k].name + n \in CASE k \in {"callMethod", "runCallback"} -> {1}
                                       [] k = "getObject" -> {0, 1}
                                       [] OTHER -> {0}
<1> USE DEF Sound
<1>1. Sound(Plain)
  BY DEF Plain
<1>2. Sound(Eval)
  BY DEF Plain, Eval
<1>3. Sound(RunCallback)
  BY DEF Plain, RunCallback
<1>4. Sound(ResolvePromise) /\ Sound(CatchPromise)
  BY DEF Plain, ResolvePromise, CatchPromise
<1>5. Sound(DerefObject) /\ Sound(DerefCallback)
  BY DEF Plain, DerefObject, DerefCallback
<1>6. Sound(SetPropertyFunction) /\ Sound(SetPropertyValue)
  BY DEF Plain, SetPropertyFunction, SetPropertyValue
<1>7. Sound(GetProperty) /\ Sound(DeleteProperty)
  BY DEF Plain, GetProperty, DeleteProperty
<1>8. Sound(CreateObjectAsync) /\ Sound(GetObject)
  BY DEF Plain, CreateObjectAsync, GetObject
<1>9. Sound(CallMethod) /\ Sound(RunGC)
  BY <1>1 DEF Plain, CallMethod, RunGC
<1>10. k \in DOMAIN Method
  BY KindAssumption
<1>11. /\ Plain.failed = {} /\ Eval.failed = {0} /\ Eval.name = 0
       /\ RunCallback.failed = {0} /\ RunCallback.name = 1
       /\ ResolvePromise.failed = {-1} /\ ResolvePromise.name = 1
       /\ CatchPromise.failed = {-1} /\ CatchPromise.name = 1
       /\ DerefObject.failed = {} /\ DerefCallback.failed = {}
       /\ SetPropertyFunction.failed = {} /\ SetPropertyValue.failed = {}
       /\ GetProperty.failed = {} /\ DeleteProperty.failed = {} /\ RunGC.failed = {}
       /\ CreateObjectAsync.failed = {} /\ GetObject.failed = {0, 1} /\ GetObject.name = 0
       /\ CallMethod.failed = {0} /\ CallMethod.name = 1
  BY DEF Plain, Eval, RunCallback, ResolvePromise, CatchPromise, DerefObject,
         DerefCallback, SetPropertyFunction, SetPropertyValue, GetProperty,
         DeleteProperty, RunGC, CreateObjectAsync, GetObject, CallMethod
<1> HIDE DEF Sound
<1> QED
  BY <1>1, <1>2, <1>3, <1>4, <1>5, <1>6, <1>7, <1>8, <1>9, <1>10, <1>11 DEF Method

\* Changing fields of an AsyncJob.
LEMMA FieldsFacts ==
  ASSUME Types, NEW j \in Jobs,
         NEW p \in {"none", "pending", "resolved", "rejected", "twice"}
  PROVE  /\ job[j] \in Fields
         /\ [job EXCEPT ![j].error = TRUE] \in [Jobs -> Fields]
         /\ [job EXCEPT ![j].returned = TRUE] \in [Jobs -> Fields]
         /\ [job EXCEPT ![j].promise = p] \in [Jobs -> Fields]
<1>1. job \in [Jobs -> Fields] /\ job[j] \in Fields
  BY DEF Types
<1>2. [job[j] EXCEPT !.error = TRUE] \in Fields /\ [job[j] EXCEPT !.returned = TRUE] \in Fields
  BY <1>1 DEF Fields
<1>3. [job[j] EXCEPT !.promise = p] \in Fields
  BY <1>1 DEF Fields
<1> QED
  BY <1>1, <1>2, <1>3

\* Making one.
LEMMA MadeFacts ==
  ASSUME Types, NEW j \in Jobs, NEW k \in Kinds, NEW n \in {0, 1},
         NEW p \in {"none", "pending"}
  PROVE  [job EXCEPT ![j].kind = k, ![j].args = n, ![j].promise = p] \in [Jobs -> Fields]
<1>1. job \in [Jobs -> Fields] /\ job[j] \in Fields
  BY DEF Types
<1>2. [job[j] EXCEPT !.kind = k, !.args = n, !.promise = p] \in Fields
  BY <1>1 DEF Fields
<1> QED
  BY <1>1, <1>2

\* The node thread is done with a task.
LEMMA Returned == N!Return => /\ running' \in BOOLEAN /\ ~running' /\ picked' = NoTask
                              /\ UNCHANGED <<normal, priority>>
<1> QED
  BY DEF N!Return

\* The job that D is in, what it waits for and the task M is in.
LEMMA Facts ==
  ASSUME IInv
  PROVE  /\ jPC # "idle" => jobCurrent \in Jobs /\ Sound(Method[job[jobCurrent].kind])
         /\ dPC # "idle" => dukCurrent \in Jobs
         /\ dPC \notin {"idle", "notify"} =>
              dukCurrent \in alive /\ job[dukCurrent].kind \in Kinds /\ Sound(DukMethod)
         /\ DukArgs \in {0, 1} \/ dPC = "idle"
         /\ Waiting => dObj \in Objects
         /\ dPC \in {"test", "block", "blocked", "relock"} => Waiting
         /\ mPC # "loop" => mTask \in Task
         /\ mPC \in InTask => mTask.job \in Objects /\ Waiting
         /\ mPC \in {"args", "return", "make", "flag"} \/ (mPC = "lock" /\ mTask.func = "return")
              => mTask.job = dukCurrent /\ dObj = dukCurrent /\ dukCurrent \in Jobs
         /\ mPC = "settle" => mTask.job \in Jobs /\ mTask = picked
<1> USE DEF IInv
<1>1. jPC # "idle" => jobCurrent \in Jobs /\ Sound(Method[job[jobCurrent].kind])
  BY MethodFacts DEF Types, JobInv
<1>2. dPC # "idle" => dukCurrent \in Jobs
  BY DEF Types, DukInv
<1>3. dPC \notin {"idle", "notify"} =>
        dukCurrent \in alive /\ job[dukCurrent].kind \in Kinds /\ Sound(DukMethod)
  BY <1>1, MethodFacts DEF DukInv, JobInv, DukMethod, JWaits
<1>4. DukArgs \in {0, 1} \/ dPC = "idle"
  BY <1>2 DEF Types, DukArgs, Fields
<1>5. Waiting => dObj \in Objects
  BY <1>2 DEF Waiting, AskInv, Objects
<1>6. mPC # "loop" => mTask \in Task
  BY DEF Types, AskInv
<1>7. mPC \in InTask => mTask.job \in Objects /\ Waiting
  BY <1>6 DEF AskInv, Asked, InTask, Task
<1>8. mPC \in {"args", "return", "make", "flag"} \/ (mPC = "lock" /\ mTask.func = "return")
        => mTask.job = dukCurrent /\ dObj = dukCurrent /\ dukCurrent \in Jobs
  BY <1>2 DEF AskInv, Asked, InTask, Waiting
<1>9. mPC = "settle" => mTask.job \in Jobs /\ mTask = picked
  BY DEF AskInv, SettleInv, Settling
<1>10. dPC \in {"test", "block", "blocked", "relock"} => Waiting
  BY DEF Waiting
<1> QED
  BY <1>1, <1>2, <1>3, <1>4, <1>5, <1>6, <1>7, <1>8, <1>9, <1>10

--------------------------------------------------------------------------------
(* The invariant.                                                             *)

\* Nothing has happened yet.
LEMMA InitIInv == Init => IInv
<1> SUFFICES ASSUME Init PROVE IInv
  OBVIOUS
<1> USE DEF Init, J!Init, D!Init, N!Init
<1>0. \A S : << >> \in Seq(S)
  OBVIOUS
<1>1. Types
  <2>1. /\ jobQueue \in Seq(Jobs) /\ dukQueue \in Seq(Jobs)
        /\ normal \in Seq(Task) /\ priority \in Seq(Task)
        /\ called \in Seq(Jobs) /\ executed \in Seq(Jobs)
    BY <1>0
  <2>2. job \in [Jobs -> Fields]
    BY DEF Fields
  <2>3. running \in BOOLEAN
    OBVIOUS
  <2>4. calls \in 0 .. MaxCalls /\ spurious \in 0 .. MaxSpurious
    OBVIOUS
  <2> QED
    BY <2>1, <2>2, <2>3, <2>4 DEF Types
<1>2. JobInv /\ DukInv
  BY DEF JobInv, DukInv, JWaits
<1>3. SettleInv /\ AskInv
  BY DEF SettleInv, Settlement, AskInv, Waiting, InTask
<1>4. StackInv
  <2>1. AllFailed = {} /\ \A kinds : Failed(kinds) = {}
    BY DEF AllFailed, Failed
  <2>2. IsFiniteSet(AllFailed) /\ Fewest = 0 /\ Most = 0
    BY <2>1, FS_EmptySet DEF Fewest, Most
  <2>3. Height = 0
    BY DEF Height, Waiting
  <2> QED
    BY <2>2, <2>3 DEF StackInv, Waiting
<1> QED
  BY <1>1, <1>2, <1>3, <1>4 DEF IInv

\* What a step leaves alone.
LEMMA Stuttering == ASSUME IInv, UNCHANGED vars PROVE IInv'
<1>1. Types'
  BY DEF IInv, Types, vars, jVars, dVars, nVars, flags, stack, history
<1>2. JobInv' /\ DukInv'
  BY DEF IInv, JobInv, DukInv, Fresh, Owed, Done, vars, jVars, dVars, nVars, flags, stack,
         history
<1>3. SettleInv'
  BY DEF IInv, SettleInv, Settling, Settlement, Done, vars, jVars, nVars, flags
<1>4. AskInv'
  BY DEF IInv, AskInv, Asked, Waiting, DukMethod, vars, jVars, dVars, nVars, flags
<1>5. StackInv'
  BY DEF IInv, StackInv, Fewest, Most, Failed, AllFailed, Height, Pushed, Waiting,
         DukMethod, DukArgs, vars, dVars, nVars, flags, stack
<1> QED
  BY <1>1, <1>2, <1>3, <1>4, <1>5 DEF IInv

\* The variables keep their types.
LEMMA TypesStep == IInv /\ [Next]_vars => Types'
<1> SUFFICES ASSUME IInv, Next PROVE Types'
  BY Stuttering DEF IInv
<1> USE Facts DEF jVars, dVars, nVars, flags, stack, history
<1>0. Types /\ StackInv
  BY DEF IInv
<1>1. ASSUME NEW j \in Jobs, NEW k \in Kinds, NEW n \in Method[k].args, Call(j, k, n)
      PROVE  Types'
  <2>1. n \in {0, 1} /\ Method[k].settles \in BOOLEAN
    BY MethodFacts DEF Sound
  <2>2. jobQueue' \in Seq(Jobs) /\ called' \in Seq(Jobs) /\ UNCHANGED jobCurrent
    BY <1>0, <1>1, AppendFacts DEF Call, J!Submit, Types
  <2>3. job' \in [Jobs -> Fields]
    <3> DEFINE p == IF Method[k].settles THEN "pending" ELSE "none"
    <3> p \in {"none", "pending"}
      OBVIOUS
    <3> HIDE DEF p
    <3>1. [job EXCEPT ![j].kind = k, ![j].args = n, ![j].promise = p] \in [Jobs -> Fields]
      BY <1>0, <2>1, MadeFacts
    <3> QED
      BY <1>1, <3>1 DEF Call, p
  <2>4. alive' \subseteq Objects
    BY <1>0, <1>1 DEF Call, Types, Objects
  <2> QED
    BY <1>0, <1>1, <2>2, <2>3, <2>4 DEF Call, Types
<1>2. CASE JStart
  BY <1>0, <1>2, TailFacts DEF JStart, J!Start, Types
<1>3. CASE JSubmit
  <2>1. dukQueue' \in Seq(Jobs) /\ UNCHANGED dukCurrent
    BY <1>0, <1>3, AppendFacts DEF JSubmit, D!Submit, Types
  <2> QED
    BY <1>0, <1>3, <2>1 DEF JSubmit, Types
<1>4. CASE JWait
  BY <1>0, <1>4 DEF JWait, Types
<1>5. CASE JRelock
  BY <1>0, <1>5 DEF JRelock, Types
<1>6. CASE JSettle
  <2>1. UNCHANGED <<normal, picked, running>> /\ priority' \in Seq(Task)
    <3>1. CASE UNCHANGED nVars
      BY <1>0, <3>1 DEF Types
    <3>2. CASE N!SubmitPriority([job |-> jobCurrent, func |-> "resolve"])
      <4>1. [job |-> jobCurrent, func |-> "resolve"] \in Task
        BY <1>6 DEF JSettle, Task, Objects
      <4> QED
        BY <1>0, <3>2, <4>1, PrependFacts DEF N!SubmitPriority, Types
    <3> QED
      BY <1>6, <3>1, <3>2 DEF JSettle
  <2> QED
    BY <1>0, <1>6, <2>1 DEF JSettle, J!Finish, Types
<1>7. CASE DStart
  <2>1. dukQueue' \in Seq(Jobs) /\ dukCurrent' \in Jobs /\ executed' \in Seq(Jobs)
    BY <1>0, <1>7, TailFacts, AppendFacts DEF DStart, D!Start, Types
  <2> QED
    BY <1>0, <1>7, <2>1 DEF DStart, Types
<1>8. CASE DLock
  BY <1>0, <1>8 DEF DLock, Types
<1>9. ASSUME NEW o \in {dukCurrent, Nested}, NEW f \in {"args", "return", "marshal"},
             NEW next \in {"work", "evalDone", "finish"}, dPC # "idle",
             AskNode(o, f, next)
      PROVE  /\ nodeMutex' \in [Objects -> {"free", "D", "M"}]
             /\ nodeFinished' \in [Objects -> BOOLEAN]
             /\ normal' \in Seq(Task) /\ dObj' = o /\ dNext' = next /\ dPC' = "test"
             /\ UNCHANGED <<priority, picked, running, dukMutex, dukFinished>>
  <2>1. o \in Objects /\ [job |-> o, func |-> f] \in Task
    BY <1>9 DEF Task, Objects
  <2> QED
    BY <1>0, <1>9, <2>1, AppendFacts DEF AskNode, N!Submit, Types
<1>10. CASE DPreArgs
  <2>1. pops' \in {0, 1, 2} /\ top' \in Int
    BY <1>0, <1>10 DEF DPreArgs, Sound, Types
  <2>2. CASE AskNode(dukCurrent, "args", "work")
    BY <1>0, <1>9, <1>10, <2>1, <2>2 DEF DPreArgs, Types
  <2>3. CASE DGoOn("work")
    BY <1>0, <1>10, <2>1, <2>3 DEF DPreArgs, DGoOn, Types
  <2> QED
    BY <1>10, <2>2, <2>3 DEF DPreArgs
<1>11. CASE DCallNode
  <2>1. calls' \in 0 .. MaxCalls /\ alive' \subseteq Objects
    BY <1>0, <1>11 DEF DCallNode, Types, Objects
  <2> QED
    BY <1>0, <1>9, <1>11, <2>1 DEF DCallNode, Types
<1>12. CASE DFail
  <2>1. top' \in Int
    <3>1. top \in Int /\ DukArgs \in Int /\ DukMethod.failed \subseteq Int
      BY <1>0, <1>12 DEF DFail, Sound, Types
    <3>2. PICK n \in DukMethod.failed : top' = top - DukArgs + n
      BY <1>12 DEF DFail
    <3> QED
      BY <3>1, <3>2
  <2>2. job' \in [Jobs -> Fields]
    BY <1>0, <1>12, FieldsFacts DEF DFail
  <2> QED
    BY <1>0, <1>12, <2>1, <2>2 DEF DFail, DGoOn, Types
<1>13. CASE DSucceed
  <2>1. pops' \in {0, 1, 2} /\ top' \in Int
    <3>1. Sound(DukMethod) /\ pops \in DukMethod.receiver /\ DukArgs \in {0, 1}
      BY <1>0, <1>13 DEF DSucceed, StackInv
    <3>2. PICK n \in DukMethod.access : pops' = pops + n
                                        /\ top' = top - DukArgs + n + DukMethod.done
      BY <1>13 DEF DSucceed
    <3>3. n \in {0, 1, 2} /\ pops \in {0, 1, 2} /\ (n = 0 \/ pops = 0)
          /\ DukMethod.done \in {0, 1}
      <4>1. pops \in {0, 1, 2}
        BY <1>0 DEF Types
      <4> QED
        BY <3>1, <3>2, <4>1 DEF Sound
    <3>4. top \in Int
      BY <1>0 DEF Types
    <3> QED
      BY <3>1, <3>2, <3>3, <3>4
  <2>2. \/ AskNode(dukCurrent, "return", "evalDone")
        \/ AskNode(dukCurrent, "return", "finish")
        \/ DGoOn("finish")
    BY <1>13 DEF DSucceed, FetchReturn, Sound
  <2>3. CASE DGoOn("finish")
    BY <1>0, <1>13, <2>1, <2>3 DEF DSucceed, DGoOn, Types
  <2>4. CASE AskNode(dukCurrent, "return", "evalDone")
    BY <1>0, <1>9, <1>13, <2>1, <2>4 DEF DSucceed, Types
  <2>5. CASE AskNode(dukCurrent, "return", "finish")
    BY <1>0, <1>9, <1>13, <2>1, <2>5 DEF DSucceed, Types
  <2> QED
    BY <2>2, <2>3, <2>4, <2>5
<1>14. CASE DEvalDone
  BY <1>0, <1>14 DEF DEvalDone, DGoOn, Types
<1>15. CASE DTestTrue
  BY <1>0, <1>15 DEF DTestTrue, Types
<1>16. CASE DTestFalse \/ DBlock \/ DRelock
  <2>1. nodeMutex' \in [Objects -> {"free", "D", "M"}] /\ dPC' \in {"block", "blocked", "test"}
    BY <1>0, <1>16 DEF DTestFalse, DBlock, DRelock, DWaiting, Types
  <2>2. UNCHANGED <<jVars, dVars, nVars, jPC, mPC, dObj, dNext, mTask, dukMutex,
                    dukFinished, nodeFinished, alive, job, stack, calls, history>>
    BY <1>16 DEF DTestFalse, DBlock, DRelock, DWaiting
  <2> QED
    BY <1>0, <2>1, <2>2 DEF Types
<1>17. CASE DFinish
  BY <1>0, <1>17 DEF DFinish, Types
<1>18. CASE DNotify
  BY <1>0, <1>18 DEF DNotify, D!Finish, Types
<1>19. CASE Pick
  <2>1. normal' \in Seq(Task) /\ priority' \in Seq(Task) /\ picked' \in Task
    <3>1. CASE /\ priority # << >> /\ picked' = Head(priority)
               /\ priority' = Tail(priority) /\ normal' = normal
      BY <1>0, <3>1, TailFacts DEF Types
    <3>2. CASE /\ normal # << >> /\ picked' = Head(normal)
               /\ normal' = Tail(normal) /\ priority' = priority
      BY <1>0, <3>2, TailFacts DEF Types
    <3> QED
      BY <1>19, <3>1, <3>2 DEF Pick, N!Pick
  <2>2. UNCHANGED <<running, jVars, dVars, jPC, dPC, mPC, dObj, dNext, mTask, flags,
                    alive, job, stack, calls, history>>
    BY <1>19 DEF Pick, N!Pick
  <2> QED
    BY <1>0, <2>1, <2>2 DEF Types
<1>20. CASE MBegin
  BY <1>0, <1>20 DEF MBegin, N!Run, Types
<1>21. CASE MLock
  <2>1. mPC' \in {"args", "return", "callback"} /\ mTask.job \in Objects
    BY <1>21 DEF MLock, InTask, IInv, AskInv, Asked, Task
  <2>2. nodeMutex' \in [Objects -> {"free", "D", "M"}]
    BY <1>0, <1>21, <2>1 DEF MLock, Types
  <2>3. UNCHANGED <<jVars, dVars, nVars, jPC, dPC, dObj, dNext, mTask, dukMutex,
                    dukFinished, nodeFinished, alive, job, stack, calls, history>>
    BY <1>21 DEF MLock
  <2> QED
    BY <1>0, <2>1, <2>2, <2>3 DEF Types
<1>22. CASE MArgs
  BY <1>0, <1>22 DEF MArgs, SetAndUnlock, Types, InTask
<1>23. CASE MCallbackDone
  BY <1>0, <1>23 DEF MCallbackDone, SetAndUnlock, Types, InTask
<1>24. CASE MReturn
  <2>1. job' \in [Jobs -> Fields] /\ mTask.job \in Objects
    BY <1>0, <1>24, FieldsFacts DEF MReturn, InTask
  <2>2. top' \in Int /\ nodeMutex' \in [Objects -> {"free", "D", "M"}]
    BY <1>0, <1>24, <2>1 DEF MReturn, Types
  <2> QED
    BY <1>0, <1>24, <2>1, <2>2 DEF MReturn, Types
<1>25. CASE MReturnSettled
  <2>1. [job |-> Stuck, func |-> "marshal"] \in Task /\ Stuck \in Objects
    BY DEF Task, Objects
  <2>2. normal' \in Seq(Task) /\ UNCHANGED <<priority, picked, running>>
    BY <1>0, <1>25, <2>1, AppendFacts DEF MReturnSettled, N!Submit, Types
  <2> QED
    BY <1>0, <1>25, <2>1, <2>2 DEF MReturnSettled, Types
<1>26. CASE MReturnThrows
  <2>1. nodeMutex' \in [Objects -> {"free", "D", "M"}]
    BY <1>0, <1>26 DEF MReturnThrows, Types, InTask
  <2>2. mTask' = NoTask /\ mPC' = "loop"
        /\ UNCHANGED <<jVars, dVars, jPC, dPC, dObj, dNext, dukMutex, dukFinished,
                       nodeFinished, alive, job, stack, calls, history>>
    BY <1>26 DEF MReturnThrows
  <2> QED
    BY <1>0, <1>26, <2>1, <2>2, Returned DEF MReturnThrows, Types
<1>27. CASE MMake
  <2>1. job' \in [Jobs -> Fields]
    BY <1>0, <1>27, FieldsFacts DEF MMake
  <2>2. mPC' = "flag" /\ UNCHANGED <<jVars, dVars, nVars, jPC, dPC, dObj, dNext, mTask, flags,
                                    alive, stack, calls, history>>
    BY <1>27 DEF MMake
  <2> QED
    BY <1>0, <2>1, <2>2 DEF Types
<1>28. CASE MFlag
  BY <1>0, <1>28 DEF MFlag, Types, InTask
<1>29. CASE MNotify
  <2>1. /\ dPC' \in {dPC, "relock"} /\ mPC' = "loop" /\ mTask' = NoTask
        /\ UNCHANGED <<jVars, dVars, jPC, dObj, dNext, normal, priority, flags, alive, job, stack,
                       calls, history>>
    BY <1>29 DEF MNotify, N!Return
  <2> QED
    BY <1>0, <1>29, <2>1, Returned DEF MNotify, Types
<1>30. CASE MSettle
  <2>1. job' \in [Jobs -> Fields]
    <3> DEFINE p == IF job[mTask.job].promise # "pending" THEN "twice"
                    ELSE IF job[mTask.job].error THEN "rejected" ELSE "resolved"
    <3>1. [job EXCEPT ![mTask.job].promise = p] \in [Jobs -> Fields]
      BY <1>0, <1>30, FieldsFacts DEF MSettle
    <3> QED
      BY <1>0, <1>30, <3>1 DEF MSettle, Types
  <2>2. mTask' = NoTask /\ mPC' = "loop"
        /\ UNCHANGED <<jVars, dVars, jPC, dPC, dObj, dNext, flags, alive, stack, calls,
                       history>>
    BY <1>30 DEF MSettle
  <2> QED
    BY <1>0, <1>30, <2>1, <2>2, Returned DEF MSettle, Types
<1>31. CASE SpuriousWakeup
  BY <1>0, <1>31 DEF SpuriousWakeup, Types
<1>32. CASE Quiet
  BY <1>32, Stuttering DEF Quiet, IInv
<1> QED
  BY <1>1, <1>2, <1>3, <1>4, <1>5, <1>6, <1>7, <1>8, <1>10, <1>11, <1>12, <1>13, <1>14,
     <1>15, <1>16, <1>17, <1>18, <1>19, <1>20, <1>21, <1>22, <1>23, <1>24, <1>25, <1>26,
     <1>27, <1>28, <1>29, <1>30, <1>31, <1>32
     DEF Next, SomeCall, JStep, DStep, MStep

\* D fails, or M converts the return value: one field of D's job.
Progress ==
  /\ dukCurrent = jobCurrent /\ jobCurrent \in Jobs /\ jPC \in JWaits
  /\ \A j \in Jobs : job'[j].kind = job[j].kind /\ job'[j].promise = job[j].promise
                     /\ job'[j].args = job[j].args
  /\ \A j \in Jobs \ {dukCurrent} : job'[j] = job[j]
  /\ job[dukCurrent].error => job'[dukCurrent].error
  /\ job[dukCurrent].returned => job'[dukCurrent].returned

\* While D has a job and J waits for it, D can only fail it and M only return a value for it.
LEMMA ProgressFacts ==
  ASSUME IInv
  PROVE  /\ DFail => Progress /\ job'[dukCurrent].error
         /\ MReturn \/ MMake => Progress /\ job'[dukCurrent].returned
<1> USE Facts
<1>0. job \in [Jobs -> Fields]
  BY DEF IInv, Types
<1>1. dPC \notin {"idle", "notify"} => dukCurrent = jobCurrent /\ jPC \in JWaits
  BY DEF IInv, DukInv
<1>2. ASSUME DFail PROVE Progress /\ job'[dukCurrent].error
  <2>1. dukCurrent \in Jobs /\ dukCurrent = jobCurrent /\ jPC \in JWaits
        /\ job' = [job EXCEPT ![dukCurrent].error = TRUE]
    BY <1>1, <1>2 DEF DFail
  <2> QED
    BY <1>0, <2>1 DEF Progress, Fields
<1>3. ASSUME MReturn \/ MMake PROVE Progress /\ job'[dukCurrent].returned
  <2>1. mTask.job = dukCurrent /\ dukCurrent \in Jobs
        /\ job' = [job EXCEPT ![dukCurrent].returned = TRUE]
    BY <1>3 DEF MReturn, MMake
  <2>2. dukCurrent = jobCurrent /\ jPC \in JWaits
    BY <1>1, <1>3 DEF MReturn, MMake, InTask, Waiting
  <2> QED
    BY <1>0, <2>1, <2>2 DEF Progress, Fields
<1> QED
  BY <1>2, <1>3

\* The jobs of D and J are Jobs: those of node functions are not.
LEMMA JobsAlive ==
  ASSUME alive' = alive \cup {Nested} \/ alive' = alive \ {Nested} \/ alive' = alive \cup {Stuck}
         \/ alive' = alive
  PROVE  \A j \in Jobs : j \in alive' <=> j \in alive
<1> QED
  OBVIOUS

\* J takes the jobs that have been made and nobody has touched, each once.
LEMMA JobStepInv == IInv /\ [Next]_vars => JobInv'
<1> SUFFICES ASSUME IInv, Next PROVE JobInv'
  BY Stuttering DEF IInv
<1> USE Facts DEF jVars, dVars, nVars, flags, stack, history
<1>0. Types /\ JobInv /\ \A i \in DOMAIN jobQueue : jobQueue[i] \in Jobs
  BY ElementFacts DEF IInv, Types
<1>1. ASSUME NEW j \in Jobs, NEW k \in Kinds, NEW n \in Method[k].args, Call(j, k, n)
      PROVE  JobInv'
  <2>1. /\ alive' = alive \cup {j} /\ jobQueue' = Append(jobQueue, j) /\ job[j].kind = "none"
        /\ UNCHANGED <<jPC, jobCurrent>>
        /\ \A i \in Jobs \ {j} : job'[i] = job[i]
        /\ job'[j].kind = k /\ job'[j].promise = Owed(j)' /\ job'[j].error = job[j].error
        /\ job'[j].returned = job[j].returned
    BY <1>0, <1>1 DEF Call, J!Submit, Types, Owed, Fields
  <2>2. /\ Fresh(j)' /\ j # jobCurrent /\ \A i \in DOMAIN jobQueue : jobQueue[i] # j
        /\ k # "none"
    BY <1>0, <2>1, MethodFacts DEF JobInv, Fresh
  <2>3. /\ DOMAIN jobQueue' = 1 .. (Len(jobQueue) + 1) /\ DOMAIN jobQueue = 1 .. Len(jobQueue)
        /\ jobQueue'[Len(jobQueue) + 1] = j /\ Len(jobQueue) \in Nat
        /\ \A i \in DOMAIN jobQueue : jobQueue'[i] = jobQueue[i]
    BY <1>0, <2>1, AppendFacts DEF Types
  <2>4. \A i \in DOMAIN jobQueue' :
          \/ i \in DOMAIN jobQueue /\ jobQueue'[i] = jobQueue[i]
          \/ i = Len(jobQueue) + 1 /\ jobQueue'[i] = j
    BY <2>3
  <2>5. \A i \in DOMAIN jobQueue' :
          /\ Fresh(jobQueue[i])' /\ jobQueue'[i] # jobCurrent
          /\ \A m \in DOMAIN jobQueue' : jobQueue'[m] = jobQueue'[i] => m = i
    <3> TAKE i \in DOMAIN jobQueue'
    <3>1. CASE i \in DOMAIN jobQueue /\ jobQueue'[i] = jobQueue[i]
      <4>1. Fresh(jobQueue[i]) /\ jobQueue[i] # jobCurrent /\ jobQueue[i] \in Jobs \ {j}
        BY <1>0, <2>2, <3>1 DEF JobInv
      <4>2. Fresh(jobQueue[i])'
        BY <2>1, <3>1, <4>1 DEF Fresh, Owed
      <4>3. ASSUME NEW m \in DOMAIN jobQueue', jobQueue'[m] = jobQueue'[i] PROVE m = i
        BY <1>0, <2>4, <3>1, <4>1, <4>3 DEF JobInv
      <4> QED
        BY <3>1, <4>1, <4>2, <4>3
    <3>2. CASE i = Len(jobQueue) + 1 /\ jobQueue'[i] = j
      BY <2>2, <2>3, <2>4, <3>2 DEF Fresh, Owed
    <3> QED
      BY <2>4, <3>1, <3>2
  <2>6. \A i \in Jobs : job'[i].kind = "none" =>
          /\ i \notin alive' /\ job'[i].promise = "none" /\ ~job'[i].error /\ ~job'[i].returned
    BY <1>0, <2>1, <2>2 DEF JobInv
  <2>7. jPC # "idle" => /\ jobCurrent \in alive' /\ job'[jobCurrent].kind \in Kinds
                        /\ job'[jobCurrent].promise = Owed(jobCurrent)'
    BY <1>0, <2>1, <2>2 DEF JobInv, Owed
  <2> QED
    BY <1>0, <2>1, <2>2, <2>5, <2>6, <2>7 DEF JobInv, Fresh, Owed
<1>2. CASE JStart
  <2>1. /\ DOMAIN jobQueue' = 1 .. (Len(jobQueue) - 1) /\ DOMAIN jobQueue = 1 .. Len(jobQueue)
        /\ \A i \in DOMAIN jobQueue' : jobQueue'[i] = jobQueue[i + 1] /\ i + 1 \in DOMAIN jobQueue
        /\ 1 \in DOMAIN jobQueue /\ jobCurrent' = jobQueue[1]
        /\ jPC' = "submit" /\ UNCHANGED <<job, alive>>
    BY <1>0, <1>2, TailFacts DEF JStart, J!Start, Types
  <2>2. \A i \in DOMAIN jobQueue' : i + 1 # 1 /\ i \in Nat
    BY <2>1
  <2> QED
    BY <1>0, <2>1, <2>2 DEF JobInv, Fresh, Owed
<1>3. CASE JSettle
  <2>1. /\ jobCurrent' = NoJob /\ jPC' = "idle" /\ UNCHANGED <<job, jobQueue>>
        /\ alive' = alive \ {jobCurrent}
    BY <1>3 DEF JSettle, J!Finish
  <2> QED
    BY <1>0, <2>1 DEF JobInv, Fresh, Owed
<1>4. CASE Progress /\ UNCHANGED <<jobQueue, jobCurrent, jPC, alive>>
  <2>1. \A i \in DOMAIN jobQueue : jobQueue[i] # dukCurrent
    BY <1>0, <1>4 DEF Progress, JobInv
  <2>2. job[jobCurrent].kind # "none"
    BY <1>0, <1>4, MethodFacts DEF Progress, JobInv, JWaits
  <2> QED
    BY <1>0, <1>4, <2>1, <2>2 DEF Progress, JobInv, Fresh, Owed, JWaits
<1>5. CASE DFail \/ MReturn \/ MMake
  BY <1>4, <1>5, ProgressFacts DEF DFail, DGoOn, MReturn, MMake
<1>6. CASE MSettle
  <2>1. /\ UNCHANGED <<jobQueue, jobCurrent, jPC, alive>>
        /\ mTask.job \in Jobs \ alive /\ job[mTask.job].kind \in Kinds
        /\ \A j \in Jobs \ {mTask.job} : job'[j] = job[j]
        /\ job'[mTask.job].kind = job[mTask.job].kind
    BY <1>0, <1>6 DEF MSettle, IInv, SettleInv, Settling, AskInv, Types, Fields
  <2> QED
    BY <1>0, <2>1, MethodFacts DEF JobInv, Fresh, Owed
<1>7. ASSUME UNCHANGED <<jobQueue, jobCurrent, job>>, jPC' = "idle" <=> jPC = "idle",
             jPC' = "submit" => jPC = "submit", \A j \in Jobs : j \in alive' <=> j \in alive
      PROVE  JobInv'
  BY <1>0, <1>7 DEF JobInv, Fresh, Owed
<1>8. CASE JSubmit \/ JWait \/ JRelock
  BY <1>7, <1>8, JobsAlive DEF JSubmit, JWait, JRelock
<1>9. CASE DStart \/ DLock \/ DPreArgs \/ DCallNode \/ DSucceed \/ DEvalDone
  BY <1>7, <1>9, JobsAlive DEF DStart, DLock, DPreArgs, DCallNode, DSucceed, DEvalDone
<1>10. CASE DTestTrue \/ DTestFalse \/ DBlock \/ DRelock \/ DFinish \/ DNotify
  BY <1>7, <1>10, JobsAlive DEF DTestTrue, DTestFalse, DBlock, DRelock, DWaiting, DFinish,
     DNotify
<1>11. CASE Pick \/ MBegin \/ MLock \/ MArgs \/ MCallbackDone
  BY <1>7, <1>11, JobsAlive DEF Pick, MBegin, MLock, MArgs, MCallbackDone
<1>12. CASE MReturnSettled \/ MReturnThrows \/ MFlag \/ MNotify
  BY <1>7, <1>12, JobsAlive DEF MReturnSettled, MReturnThrows, MFlag, MNotify
<1>13. CASE SpuriousWakeup \/ Quiet
  BY <1>7, <1>13, JobsAlive DEF SpuriousWakeup, Quiet, vars
<1> QED
  BY <1>1, <1>2, <1>3, <1>5, <1>6, <1>8, <1>9, <1>10, <1>11, <1>12, <1>13
     DEF Next, SomeCall, JStep, DStep, MStep

\* D works on the job that J waits for, while J waits.
LEMMA DukStepInv == IInv /\ [Next]_vars => DukInv'
<1> SUFFICES ASSUME IInv, Next PROVE DukInv'
  BY Stuttering DEF IInv
<1> USE Facts DEF jVars, dVars, nVars, flags, stack, history
<1>0. Types /\ JobInv /\ DukInv /\ AskInv
  BY DEF IInv
<1>1. ASSUME NEW j \in Jobs, NEW k \in Kinds, NEW n \in Method[k].args, Call(j, k, n)
      PROVE  DukInv'
  <2>1. /\ alive' = alive \cup {j} /\ job[j].kind = "none"
        /\ UNCHANGED <<dVars, jPC, dPC, jobCurrent, dukFinished>>
        /\ \A i \in Jobs \ {j} : job'[i] = job[i]
    BY <1>0, <1>1 DEF Call, J!Submit, Types, Fields
  <2>2. jPC # "idle" => job'[jobCurrent] = job[jobCurrent]
    BY <1>0, <2>1, MethodFacts DEF JobInv
  <2> QED
    BY <1>0, <2>1, <2>2 DEF DukInv, Fresh, Owed, Done, JWaits
<1>2. CASE JStart
  BY <1>0, <1>2 DEF JStart, J!Start, JobInv, DukInv, JWaits
<1>3. CASE JSubmit
  <2>1. dukQueue = << >> /\ Fresh(jobCurrent) /\ dPC \in {"idle", "notify"}
    BY <1>0, <1>3 DEF JSubmit, JobInv, DukInv, JWaits, Types
  <2>2. dukQueue' = <<jobCurrent>>
    BY <1>3, <2>1 DEF JSubmit, D!Submit
  <2> QED
    BY <1>0, <1>3, <2>1, <2>2 DEF JSubmit, D!Submit, DukInv, Fresh, Owed, Done, JWaits, Types
<1>4. CASE JWait \/ JRelock
  BY <1>0, <1>4 DEF JWait, JRelock, DukInv, Fresh, Owed, Done, JWaits
<1>5. CASE JSettle
  BY <1>0, <1>5 DEF JSettle, J!Finish, DukInv, JWaits
<1>6. CASE DStart
  <2>1. Head(dukQueue) = jobCurrent /\ Tail(dukQueue) = << >> /\ Fresh(jobCurrent)
        /\ jPC \in JWaits /\ ~dukFinished[jobCurrent] /\ jobCurrent # NoJob
    <3>1. dukQueue # << >> /\ dukQueue = <<jobCurrent>>
      BY <1>0, <1>6 DEF DStart, D!Start, DukInv
    <3>2. dukQueue \in Seq(Jobs) /\ Len(dukQueue) = 1 /\ dukQueue[1] = jobCurrent
      BY <1>0, <3>1 DEF Types
    <3>3. Head(dukQueue) = jobCurrent /\ Tail(dukQueue) = << >>
      BY <3>1, <3>2, TailFacts
    <3> QED
      BY <1>0, <3>1, <3>3 DEF DukInv, JWaits, Types, JobInv
  <2> QED
    BY <1>0, <1>6, <2>1 DEF DStart, D!Start, DukInv, Fresh, Owed, Done, JWaits
<1>7. CASE DLock
  BY <1>0, <1>7 DEF DLock, DukInv, Done, JWaits
<1>8. CASE dPC' \in {"work", "test", "block", "blocked", "relock"}
           /\ dPC \notin {"idle", "notify"}
           /\ UNCHANGED <<dVars, jPC, jobCurrent, dukFinished, job>>
  BY <1>0, <1>8 DEF DukInv, Done, JWaits
<1>9. CASE DPreArgs \/ DCallNode
  BY <1>8, <1>9 DEF DPreArgs, DCallNode, AskNode, DGoOn
<1>10. CASE DSucceed
  <2>1. \/ AskNode(dukCurrent, "return", "evalDone")
        \/ AskNode(dukCurrent, "return", "finish")
        \/ DukMethod.fetch = "no" /\ DGoOn("finish")
    BY <1>10 DEF DSucceed, FetchReturn, Sound
  <2>2. CASE DukMethod.fetch = "no" /\ DGoOn("finish")
    BY <1>0, <1>10, <2>2 DEF DSucceed, DGoOn, DukMethod, DukInv, Done, JWaits
  <2> QED
    BY <1>8, <1>10, <2>1, <2>2 DEF DSucceed, AskNode
<1>11. CASE DFail
  <2>1. Progress /\ job'[dukCurrent].error
    BY <1>11, ProgressFacts
  <2> QED
    BY <1>0, <1>11, <2>1 DEF DFail, DGoOn, Progress, DukInv, Done, JWaits
<1>12. CASE DEvalDone
  BY <1>0, <1>12 DEF DEvalDone, DGoOn, DukInv, Done, JWaits
<1>13. CASE DTestTrue
  BY <1>0, <1>13 DEF DTestTrue, DukInv, AskInv, Done, JWaits, Types
<1>14. CASE DTestFalse \/ DBlock \/ DRelock
  BY <1>8, <1>14 DEF DTestFalse, DBlock, DRelock, DWaiting
<1>15. CASE DFinish
  BY <1>0, <1>15 DEF DFinish, DukInv, Done, JWaits, Types
<1>16. CASE DNotify
  BY <1>0, <1>16 DEF DNotify, D!Finish, DukInv, Fresh, Owed, Done, JWaits, Types
<1>17. CASE MReturn \/ MMake
  <2>1. Progress /\ dPC \notin {"idle", "notify", "lock", "evalDone", "finish"}
    BY <1>17, ProgressFacts DEF MReturn, MMake, InTask, Waiting
  <2>2. UNCHANGED <<dVars, jPC, dPC, jobCurrent, dukFinished>>
    BY <1>17 DEF MReturn, MMake
  <2> QED
    BY <1>0, <2>1, <2>2 DEF Progress, DukInv, JWaits
<1>18. CASE MSettle
  <2>1. /\ UNCHANGED <<dVars, jPC, dPC, jobCurrent, dukFinished, alive>>
        /\ mTask.job \in Jobs \ alive
        /\ \A j \in Jobs \ {mTask.job} : job'[j] = job[j]
    BY <1>0, <1>18 DEF MSettle, IInv, SettleInv, Settling, AskInv, Types, Fields
  <2>2. jPC # "idle" => job'[jobCurrent] = job[jobCurrent]
    BY <1>0, <2>1 DEF JobInv
  <2> QED
    BY <1>0, <2>1, <2>2 DEF DukInv, Fresh, Owed, Done, JWaits
<1>19. ASSUME UNCHANGED <<dVars, dPC, jobCurrent, dukFinished, job>>,
              \A j \in Jobs : j \in alive' <=> j \in alive,
              jPC' = jPC \/ (jPC \in JWaits /\ jPC' \in JWaits)
       PROVE  DukInv'
  BY <1>0, <1>19 DEF DukInv, Fresh, Owed, Done, JWaits
<1>20. CASE Pick \/ MBegin \/ MLock \/ MArgs \/ MCallbackDone
  BY <1>19, <1>20, JobsAlive DEF Pick, MBegin, MLock, MArgs, MCallbackDone
<1>21. CASE MReturnSettled \/ MReturnThrows \/ MFlag \/ Quiet
  BY <1>19, <1>21, JobsAlive DEF MReturnSettled, MReturnThrows, MFlag, Quiet, vars
<1>22. CASE MNotify
  <2>1. CASE dPC = "blocked" /\ dPC' = "relock"
    BY <1>8, <1>22, <2>1 DEF MNotify
  <2> QED
    BY <1>19, <1>22, <2>1, JobsAlive DEF MNotify
<1>23. CASE SpuriousWakeup
  <2>1. CASE dPC = "blocked" /\ dPC' = "relock" /\ UNCHANGED jPC
    BY <1>8, <1>23, <2>1 DEF SpuriousWakeup
  <2> QED
    BY <1>19, <1>23, <2>1, JobsAlive DEF SpuriousWakeup, JWaits
<1> QED
  BY <1>1, <1>2, <1>3, <1>4, <1>5, <1>6, <1>7, <1>9, <1>10, <1>11, <1>12, <1>13, <1>14,
     <1>15, <1>16, <1>17, <1>18, <1>20, <1>21, <1>22, <1>23
     DEF Next, SomeCall, JStep, DStep, MStep

\* Each promise is settled by one task, made when its job is over.
LEMMA SettleStepInv == IInv /\ [Next]_vars => SettleInv'
<1> SUFFICES ASSUME IInv, Next PROVE SettleInv'
  BY Stuttering DEF IInv
<1> USE Facts DEF jVars, dVars, nVars, flags, stack, history
<1>0. Types /\ JobInv /\ SettleInv
  BY DEF IInv
<1>1. ASSUME UNCHANGED priority, picked' = picked \/ picked' = NoTask,
             \A j \in Jobs : job[j].kind \in Kinds /\ job[j].promise # "none" /\ j \notin alive
                               => j \notin alive' /\ job'[j] = job[j],
             Settlement'
      PROVE  SettleInv'
  BY <1>0, <1>1 DEF SettleInv, Settling, Done
<1>2. ASSUME NEW j \in Jobs, NEW k \in Kinds, NEW n \in Method[k].args, Call(j, k, n)
      PROVE  SettleInv'
  <2>1. /\ alive' = alive \cup {j} /\ job[j].kind = "none" /\ UNCHANGED <<priority, picked>>
        /\ \A i \in Jobs \ {j} : job'[i] = job[i]
        /\ job'[j].promise \in {"none", "pending"}
    BY <1>0, <1>2 DEF Call, Types, Fields
  <2>2. \A i \in Jobs : job[i].kind \in Kinds => i # j
    BY <2>1, MethodFacts
  <2>3. Settlement'
    BY <1>0, <2>1 DEF SettleInv, Settlement
  <2> QED
    BY <1>1, <2>1, <2>2, <2>3
<1>3. CASE JSettle
  <2>1. /\ jPC = "test" /\ dukFinished[jobCurrent] /\ alive' = alive \ {jobCurrent}
        /\ UNCHANGED <<job, picked>> /\ jobCurrent \in Jobs \cap alive
        /\ job[jobCurrent].kind \in Kinds /\ job[jobCurrent].promise = Owed(jobCurrent)
        /\ Done(jobCurrent)
    <3>1. UNCHANGED picked
      BY <1>3 DEF JSettle, N!SubmitPriority
    <3> QED
      BY <1>0, <1>3, <3>1 DEF JSettle, JobInv, IInv, DukInv, JWaits
  <2>2. Settlement'
    BY <1>0, <2>1 DEF SettleInv, Settlement, Owed
  <2>3. CASE UNCHANGED nVars
    BY <1>1, <2>1, <2>2, <2>3
  <2>4. CASE Method[job[jobCurrent].kind].settles
             /\ N!SubmitPriority([job |-> jobCurrent, func |-> "resolve"])
    <3> DEFINE t == [job |-> jobCurrent, func |-> "resolve"]
    <3>1. t \in Task /\ priority' = <<t>> \o priority
      BY <2>1, <2>4 DEF Task, Objects, N!SubmitPriority
    <3>2. /\ DOMAIN priority' = 1 .. (Len(priority) + 1) /\ DOMAIN priority = 1 .. Len(priority)
          /\ Len(priority) \in Nat /\ priority'[1] = t
          /\ \A i \in DOMAIN priority : priority'[i + 1] = priority[i]
      BY <1>0, <3>1, PrependFacts DEF Types
    <3>3. \A i \in DOMAIN priority' : \/ i = 1 /\ priority'[i] = t
                                      \/ /\ i \in Nat /\ i # 1 /\ i - 1 \in DOMAIN priority
                                         /\ priority'[i] = priority[i - 1]
      <4> TAKE i \in DOMAIN priority'
      <4>1. CASE i = 1
        BY <3>2, <4>1
      <4>2. CASE i # 1
        <5>1. i \in Nat /\ i - 1 \in DOMAIN priority /\ (i - 1) + 1 = i
          BY <3>2, <4>2
        <5> QED
          BY <3>2, <4>2, <5>1
      <4> QED
        BY <4>1, <4>2
    <3>4. job[jobCurrent].promise = "pending"
          /\ \A i \in DOMAIN priority : priority[i].job # jobCurrent
      BY <1>0, <2>1, <2>4 DEF Settling, Owed, SettleInv
    <3>5. picked # NoTask /\ picked.func = "resolve" => picked.job # jobCurrent /\ Settling(picked)'
      BY <1>0, <2>1 DEF SettleInv, Settling, Done
    <3>6. \A i \in DOMAIN priority : /\ priority[i].func = "resolve"
                                     /\ priority[i].job \in Jobs \ alive'
                                     /\ job'[priority[i].job].kind \in Kinds
                                     /\ job'[priority[i].job].promise = "pending"
                                     /\ Done(priority[i].job)
      BY <1>0, <2>1 DEF SettleInv, Settling
    <3>7. ASSUME NEW i \in DOMAIN priority'
          PROVE  /\ Settling(priority[i])'
                 /\ \A k \in DOMAIN priority' : priority'[k].job = priority'[i].job => k = i
                 /\ picked' # NoTask /\ picked'.func = "resolve"
                      => picked'.job # priority'[i].job
      <4>1. CASE i = 1 /\ priority'[i] = t
        <5>1. Settling(priority[i])'
          BY <2>1, <3>4, <4>1 DEF Settling, Done
        <5> QED
          BY <2>1, <3>3, <3>4, <3>5, <4>1, <5>1
      <4>2. CASE /\ i \in Nat /\ i # 1 /\ i - 1 \in DOMAIN priority
                 /\ priority'[i] = priority[i - 1]
        <5>1. Settling(priority[i])'
          BY <2>1, <3>6, <4>2 DEF Settling, Done
        <5>2. ASSUME NEW k \in DOMAIN priority', priority'[k].job = priority'[i].job
              PROVE  k = i
          <6>1. k \in Nat /\ k - 1 \in DOMAIN priority /\ priority'[k] = priority[k - 1]
            BY <3>3, <3>4, <4>2, <5>2
          <6>2. k - 1 = i - 1
            BY <1>0, <4>2, <5>2, <6>1 DEF SettleInv
          <6> QED
            BY <4>2, <6>1, <6>2
        <5>3. picked' # NoTask /\ picked'.func = "resolve" => picked'.job # priority'[i].job
          BY <1>0, <2>1, <4>2 DEF SettleInv
        <5> QED
          BY <5>1, <5>2, <5>3
      <4> QED
        BY <3>3, <4>1, <4>2
    <3> QED
      BY <2>1, <2>2, <3>5, <3>7 DEF SettleInv
  <2> QED
    BY <1>3, <2>3, <2>4 DEF JSettle
<1>4. CASE Progress /\ UNCHANGED <<priority, alive>> /\ (picked' = picked \/ picked' = NoTask)
  <2>1. jobCurrent \in alive /\ job[jobCurrent].promise \in {"none", "pending"}
        /\ job'[jobCurrent].promise = job[jobCurrent].promise
    BY <1>0, <1>4 DEF Progress, JobInv, JWaits, Owed
  <2>2. Settlement'
    BY <1>0, <1>4, <2>1 DEF SettleInv, Settlement, Progress
  <2> QED
    BY <1>1, <1>4, <2>1, <2>2 DEF Progress
<1>5. CASE DFail \/ MReturn \/ MMake
  BY <1>4, <1>5, ProgressFacts DEF DFail, DGoOn, MReturn, MMake
<1>6. CASE Pick
  <2>1. UNCHANGED <<job, alive>> /\ picked = NoTask /\ Settlement'
    BY <1>0, <1>6 DEF Pick, N!Pick, SettleInv, Settlement
  <2>2. CASE priority # << >> /\ picked' = Head(priority) /\ priority' = Tail(priority)
    <3>1. /\ DOMAIN priority' = 1 .. (Len(priority) - 1) /\ DOMAIN priority = 1 .. Len(priority)
          /\ Len(priority) \in Nat \ {0} /\ picked' = priority[1]
          /\ \A i \in DOMAIN priority' : priority'[i] = priority[i + 1]
      BY <1>0, <2>2, TailFacts DEF Types
    <3>2. \A i \in DOMAIN priority' : i \in Nat /\ i + 1 \in DOMAIN priority /\ i + 1 # 1
      BY <3>1
    <3>3. Settling(picked)'
      BY <1>0, <2>1, <3>1 DEF SettleInv, Settling, Done
    <3>4. ASSUME NEW i \in DOMAIN priority'
          PROVE  /\ Settling(priority[i])'
                 /\ \A k \in DOMAIN priority' : priority'[k].job = priority'[i].job => k = i
                 /\ picked'.job # priority'[i].job
      <4>1. Settling(priority[i])'
        BY <1>0, <2>1, <3>1, <3>2 DEF SettleInv, Settling, Done
      <4>2. ASSUME NEW k \in DOMAIN priority', priority'[k].job = priority'[i].job PROVE k = i
        <5>1. k + 1 = i + 1
          BY <1>0, <3>1, <3>2, <4>2 DEF SettleInv
        <5> QED
          BY <3>2, <5>1
      <4>3. picked'.job # priority'[i].job
        BY <1>0, <3>1, <3>2 DEF SettleInv
      <4> QED
        BY <4>1, <4>2, <4>3
    <3> QED
      BY <2>1, <3>3, <3>4 DEF SettleInv
  <2>3. CASE priority = << >> /\ normal # << >> /\ picked' = Head(normal) /\ UNCHANGED priority
    <3>1. picked' = normal[1] /\ mPC # "stuck" /\ DOMAIN priority = {}
      <4>1. mPC # "stuck"
        BY <2>1 DEF IInv, AskInv
      <4> QED
        BY <1>0, <2>3, <4>1, TailFacts DEF Types
    <3>2. picked'.func # "resolve"
      BY <2>3, <3>1 DEF IInv, AskInv, Asked
    <3> QED
      BY <2>1, <2>3, <3>1, <3>2 DEF SettleInv
  <2> QED
    BY <1>6, <2>2, <2>3 DEF Pick, N!Pick
<1>7. CASE MSettle
  <2>1. /\ mTask = picked /\ Settling(picked) /\ picked # NoTask
        /\ UNCHANGED <<priority, alive>> /\ picked' = NoTask
        /\ \A j \in Jobs \ {picked.job} : job'[j] = job[j]
        /\ job'[picked.job] = [job[picked.job] EXCEPT !.promise =
                                 IF job[picked.job].error THEN "rejected" ELSE "resolved"]
    BY <1>0, <1>7 DEF MSettle, N!Return, IInv, AskInv, SettleInv, Settling, Types
  <2>2. Settlement'
    <3> SUFFICES ASSUME NEW j \in Jobs
                 PROVE  /\ job'[j].promise # "twice"
                        /\ job'[j].promise \in {"resolved", "rejected"} => j \notin alive
                        /\ job'[j].promise = "resolved" /\ Method[job'[j].kind].fetch # "no"
                             => job'[j].returned
      BY <2>1 DEF Settlement
    <3>1. CASE j = picked.job
      <4>1. job[j] \in Fields
        BY <1>0, FieldsFacts
      <4>2. /\ job'[j].promise = IF job[j].error THEN "rejected" ELSE "resolved"
            /\ job'[j].kind = job[j].kind /\ job'[j].returned = job[j].returned
        BY <2>1, <3>1, <4>1 DEF Fields
      <4> QED
        BY <2>1, <3>1, <4>2 DEF Settling, Done
    <3>2. CASE j # picked.job
      BY <1>0, <2>1, <3>2 DEF SettleInv, Settlement
    <3> QED
      BY <3>1, <3>2
  <2>3. picked.func = "resolve" /\ \A i \in DOMAIN priority : priority[i].job # picked.job
    BY <1>0, <2>1 DEF SettleInv, Settling
  <2>4. ASSUME NEW i \in DOMAIN priority
        PROVE  job'[priority[i].job] = job[priority[i].job] /\ Settling(priority[i])
    <3>1. Settling(priority[i]) /\ priority[i].job # picked.job
      BY <1>0, <2>3 DEF SettleInv
    <3> QED
      BY <2>1, <3>1 DEF Settling
  <2>5. ASSUME NEW i \in DOMAIN priority
        PROVE  Settling(priority[i])'
    BY <2>1, <2>4 DEF Settling, Done
  <2> QED
    BY <1>0, <2>1, <2>2, <2>5 DEF SettleInv
<1>8. ASSUME UNCHANGED <<priority, job>>, picked' = picked \/ picked' = NoTask,
             \A j \in Jobs : j \in alive' <=> j \in alive
      PROVE  SettleInv'
  <2>1. Settlement'
    BY <1>0, <1>8 DEF SettleInv, Settlement
  <2> QED
    BY <1>1, <1>8, <2>1
<1>9. CASE JStart \/ JSubmit \/ JWait \/ JRelock
  BY <1>8, <1>9, JobsAlive DEF JStart, JSubmit, JWait, JRelock
<1>10. ASSUME NEW o, NEW f, NEW next, AskNode(o, f, next) \/ DGoOn(next)
       PROVE  UNCHANGED <<priority, picked>>
  BY <1>10 DEF AskNode, DGoOn, N!Submit
<1>11. CASE DPreArgs
  BY <1>8, <1>10, <1>11, JobsAlive DEF DPreArgs
<1>12. CASE DCallNode
  BY <1>8, <1>10, <1>12, JobsAlive DEF DCallNode
<1>13. CASE DSucceed
  <2>1. UNCHANGED <<priority, picked>>
    BY <1>10, <1>13 DEF DSucceed, FetchReturn, Sound
  <2> QED
    BY <1>8, <1>13, <2>1, JobsAlive DEF DSucceed
<1>14. CASE DStart \/ DLock \/ DEvalDone
  BY <1>8, <1>14, JobsAlive DEF DStart, DLock, DEvalDone, DGoOn
<1>15. CASE DTestTrue \/ DTestFalse \/ DBlock \/ DRelock \/ DFinish \/ DNotify
  BY <1>8, <1>15, JobsAlive DEF DTestTrue, DTestFalse, DBlock, DRelock, DWaiting, DFinish,
     DNotify
<1>16. CASE MBegin \/ MLock \/ MArgs \/ MCallbackDone \/ MFlag
  BY <1>8, <1>16, JobsAlive DEF MBegin, N!Run, MLock, MArgs, MCallbackDone, MFlag
<1>17. CASE MReturnSettled \/ MReturnThrows \/ MNotify
  BY <1>8, <1>17, JobsAlive DEF MReturnSettled, MReturnThrows, MNotify, N!Submit, N!Return
<1>18. CASE SpuriousWakeup \/ Quiet
  BY <1>8, <1>18, JobsAlive DEF SpuriousWakeup, Quiet, vars
<1> QED
  BY <1>2, <1>3, <1>5, <1>6, <1>7, <1>9, <1>11, <1>12, <1>13, <1>14, <1>15, <1>16, <1>17,
     <1>18 DEF Next, SomeCall, JStep, DStep, MStep

\* What D waits for is with M, in one of its tasks, until it is done.
LEMMA AskStepInv == IInv /\ [Next]_vars => AskInv'
<1> SUFFICES ASSUME IInv, Next PROVE AskInv'
  BY Stuttering DEF IInv
<1> USE Facts DEF jVars, dVars, nVars, flags, stack, history
<1>0. Types /\ JobInv /\ DukInv /\ AskInv
  BY DEF IInv
<1>1. ASSUME UNCHANGED <<dObj, dNext, nodeFinished, normal, picked, running, mPC, mTask>>,
             Waiting' <=> Waiting,
             Waiting => /\ dukCurrent' = dukCurrent
                        /\ job'[dukCurrent].kind = job[dukCurrent].kind
                        /\ job'[dukCurrent].returned = job[dukCurrent].returned
      PROVE  AskInv'
  <2>1. Waiting => DukMethod' = DukMethod
    BY <1>1 DEF DukMethod
  <2>2. \A t : Asked(t) => Waiting /\ Asked(t)'
    BY <1>1 DEF Asked
  <2> QED
    BY <1>0, <1>1, <2>1, <2>2 DEF AskInv, Asked, InTask
<1>2. ASSUME NEW j \in Jobs, NEW k \in Kinds, NEW n \in Method[k].args, Call(j, k, n)
      PROVE  AskInv'
  <2>1. job[j].kind = "none" /\ \A i \in Jobs \ {j} : job'[i] = job[i]
    BY <1>0, <1>2 DEF Call, Types
  <2>2. Waiting => dukCurrent \in Jobs \ {j}
    BY <2>1, MethodFacts DEF Waiting
  <2> QED
    BY <1>1, <1>2, <2>1, <2>2 DEF Call, Waiting
<1>3. CASE JStep
  <2>1. UNCHANGED <<dPC, mPC, dObj, dNext, mTask, nodeFinished, job, normal, picked,
                    running, dukCurrent>>
    BY <1>3 DEF JStep, JStart, JSubmit, JWait, JRelock, JSettle, D!Submit, N!SubmitPriority
  <2> QED
    BY <1>1, <2>1 DEF Waiting
<1>4. CASE DStart \/ DLock \/ DEvalDone \/ DFinish \/ DNotify
  BY <1>1, <1>4 DEF DStart, DLock, DEvalDone, DGoOn, DFinish, DNotify, Waiting
<1>5. CASE DFail
  BY <1>1, <1>5 DEF DFail, DGoOn, Waiting
<1>6. CASE DTestFalse \/ DBlock \/ DRelock \/ SpuriousWakeup \/ Quiet
  BY <1>1, <1>6 DEF DTestFalse, DBlock, DRelock, DWaiting, SpuriousWakeup, Quiet, vars,
     Waiting
<1>7. ASSUME NEW o \in {dukCurrent, Nested}, NEW f \in {"args", "return", "marshal"},
             NEW next \in {"work", "evalDone", "finish"}, dPC \in {"preArgs", "work"},
             f = "return" <=> next # "work", f = "marshal" <=> o = Nested,
             o = Nested => next = "work",
             next = "evalDone" => DukMethod.fetch = "work",
             next = "finish" => DukMethod.fetch = "dukFunc",
             AskNode(o, f, next), UNCHANGED <<dukCurrent, mPC, mTask, job>>
      PROVE  AskInv'
  <2> DEFINE t == [job |-> o, func |-> f]
  <2>1. o \in Objects /\ t \in Task /\ ~Waiting
    BY <1>7 DEF Task, Objects, Waiting
  <2>2. /\ mPC \notin InTask /\ normal = << >>
        /\ picked # NoTask /\ ~running => picked.func = "resolve"
    BY <1>0, <2>1 DEF AskInv, Asked, InTask
  <2>3. normal' = <<t>> /\ UNCHANGED <<picked, running>>
    BY <1>7, <2>2 DEF AskNode, N!Submit
  <2>4. Len(normal') = 1 /\ normal'[1] = t
    BY <2>3
  <2>5. /\ dObj' = o /\ dNext' = next /\ dPC' = "test" /\ ~nodeFinished'[o]
        /\ DukMethod' = DukMethod
    BY <1>0, <1>7, <2>1 DEF AskNode, Types, DukMethod
  <2>6. Asked(normal[1])'
    BY <1>7, <2>4, <2>5 DEF Asked, Waiting
  <2> QED
    BY <1>0, <1>7, <2>2, <2>3, <2>4, <2>5, <2>6 DEF AskInv, InTask, Waiting
<1>8. CASE DPreArgs
  <2>1. dukCurrent # Nested
    BY <1>8 DEF DPreArgs
  <2>2. CASE AskNode(dukCurrent, "args", "work")
    BY <1>7, <1>8, <2>1, <2>2 DEF DPreArgs
  <2>3. CASE DGoOn("work")
    BY <1>1, <1>8, <2>3 DEF DPreArgs, DGoOn, Waiting
  <2> QED
    BY <1>8, <2>2, <2>3 DEF DPreArgs
<1>9. CASE DCallNode
  BY <1>7, <1>9 DEF DCallNode
<1>10. CASE DSucceed
  <2>1. dukCurrent # Nested
    BY <1>10 DEF DSucceed
  <2>2. CASE DukMethod.fetch = "work" /\ AskNode(dukCurrent, "return", "evalDone")
    BY <1>7, <1>10, <2>1, <2>2 DEF DSucceed
  <2>3. CASE DukMethod.fetch = "dukFunc" /\ AskNode(dukCurrent, "return", "finish")
    BY <1>7, <1>10, <2>1, <2>3 DEF DSucceed
  <2>4. CASE DGoOn("finish")
    BY <1>1, <1>10, <2>4 DEF DSucceed, DGoOn, Waiting
  <2> QED
    BY <1>10, <2>2, <2>3, <2>4 DEF DSucceed, FetchReturn, Sound
<1>11. CASE DTestTrue
  <2>1. Waiting /\ nodeFinished[dObj] /\ ~Waiting' /\ dObj' = NoJob
        /\ UNCHANGED <<nVars, mPC, mTask, job>>
    BY <1>0, <1>11 DEF DTestTrue, AskInv, Waiting, Types
  <2>2. /\ mPC \notin InTask /\ normal = << >>
        /\ picked # NoTask /\ ~running => picked.func = "resolve"
    BY <1>0, <2>1 DEF AskInv, Asked, InTask
  <2> QED
    BY <1>0, <2>1, <2>2 DEF AskInv, InTask
<1>12. CASE Pick
  <2>1. ~running /\ mPC = "loop" /\ picked = NoTask
        /\ UNCHANGED <<running, dukCurrent, dPC, mPC, dObj, dNext, mTask, nodeFinished, job>>
    BY <1>0, <1>12 DEF Pick, N!Pick, AskInv
  <2>2. CASE priority # << >> /\ picked' = Head(priority) /\ UNCHANGED normal
    <3>1. picked' = priority[1] /\ 1 \in DOMAIN priority
      BY <1>0, <2>2, TailFacts DEF Types
    <3>2. picked'.func = "resolve"
      BY <3>1 DEF IInv, SettleInv, Settling
    <3> QED
      BY <1>0, <2>1, <2>2, <3>2 DEF AskInv, Asked, InTask, Waiting, DukMethod
  <2>3. CASE normal # << >> /\ picked' = Head(normal) /\ normal' = Tail(normal)
    <3>1. picked' = normal[1] /\ Len(normal) = 1 /\ Asked(normal[1])
      BY <1>0, <2>1, <2>3, TailFacts DEF Types, AskInv
    <3>2. normal \in Seq(Task) /\ normal' \in Seq(Task) /\ Len(normal') = 0
      BY <1>0, <2>3, <3>1, TailFacts DEF Types
    <3>3. normal' = << >>
      BY <3>2
    <3>4. Asked(picked)'
      BY <2>1, <3>1 DEF Asked, Waiting
    <3> QED
      BY <1>0, <2>1, <3>3, <3>4 DEF AskInv, InTask, Waiting, DukMethod
  <2> QED
    BY <1>12, <2>2, <2>3 DEF Pick, N!Pick
<1>13. CASE MBegin
  <2>1. /\ picked # NoTask /\ ~running /\ running' /\ mTask' = picked
        /\ UNCHANGED <<normal, picked, dukCurrent, dPC, dObj, dNext, nodeFinished, job>>
    BY <1>13 DEF MBegin, N!Run
  <2>2. CASE picked.func = "resolve"
    BY <1>0, <1>13, <2>1, <2>2 DEF MBegin, AskInv, Asked, InTask, Waiting, DukMethod
  <2>3. CASE picked.func # "resolve"
    <3>1. Asked(picked) /\ normal = << >> /\ Asked(picked)'
      BY <1>0, <2>1, <2>3 DEF AskInv, Asked, Waiting
    <3>2. picked.func = "return" => picked.job = dukCurrent
      BY <1>0, <3>1 DEF AskInv, Asked
    <3>3. mPC' = IF picked.func = "return" /\ DukMethod.makes THEN "make" ELSE "lock"
      BY <1>13, <2>3, <3>2 DEF MBegin, DukMethod
    <3> QED
      BY <1>0, <2>1, <2>3, <3>1, <3>2, <3>3 DEF AskInv, InTask, Waiting, DukMethod
  <2> QED
    BY <2>2, <2>3
<1>14. ASSUME UNCHANGED <<dObj, dNext, dPC, dukCurrent, picked, running, mTask>>,
              mPC \in InTask \ {"stuck"}, mPC' \in {"args", "return", "callback", "flag", "stuck"},
              nodeFinished' = nodeFinished,
              job' = job \/ (Progress /\ job'[dukCurrent].returned),
              mPC' = "args" => mTask.func = "args",
              mPC' = "callback" => mTask.func = "marshal",
              mPC' \in {"return", "flag", "stuck"} => mTask.func = "return",
              mPC' = "return" => ~DukMethod.makes,
              mPC' = "flag" => job'[mTask.job].returned,
              mPC' = "stuck" \/ UNCHANGED normal
       PROVE  AskInv'
  <2>1. Asked(mTask) /\ Waiting /\ mPC # "loop" /\ running /\ normal = << >>
        /\ picked # NoTask /\ mTask = picked
    BY <1>0, <1>14 DEF AskInv, InTask, Asked
  <2>2. Asked(mTask)' /\ Waiting' /\ DukMethod' = DukMethod
    BY <1>14, <2>1 DEF Asked, Waiting, DukMethod, Progress
  <2>3. mPC' # "stuck" => normal' = << >>
    BY <1>14, <2>1
  <2> QED
    BY <1>0, <1>14, <2>1, <2>2, <2>3 DEF AskInv, InTask, Waiting
<1>15. CASE MLock
  <2>1. mTask.func \in {"args", "return", "marshal"} /\ mPC \in InTask \ {"stuck"}
    BY <1>0, <1>15 DEF MLock, InTask, AskInv, Asked, Task
  <2>2. mPC' = CASE mTask.func = "args" -> "args" [] mTask.func = "return" -> "return"
                 [] mTask.func = "marshal" -> "callback"
    BY <1>15 DEF MLock
  <2>3. mTask.func = "return" => ~DukMethod.makes
    BY <1>0, <1>15 DEF MLock, AskInv
  <2> QED
    BY <1>14, <1>15, <2>1, <2>2, <2>3 DEF MLock
<1>16. CASE MReturn \/ MMake
  <2>1. Progress /\ job'[dukCurrent].returned /\ mTask.job = dukCurrent
        /\ mTask.func = "return"
    BY <1>0, <1>16, ProgressFacts DEF MReturn, MMake, AskInv
  <2> QED
    BY <1>14, <1>16, <2>1 DEF MReturn, MMake, InTask
<1>17. CASE MReturnSettled
  <2>1. mTask.func = "return" /\ mPC \in InTask \ {"stuck"}
    BY <1>0, <1>17 DEF MReturnSettled, AskInv, InTask
  <2> QED
    BY <1>14, <1>17, <2>1 DEF MReturnSettled, N!Submit
<1>18. ASSUME UNCHANGED <<dObj, dNext, dPC, dukCurrent, normal, picked, running, mTask, job>>,
              mPC \in InTask \ {"stuck"}, mPC' = "notify",
              nodeFinished' = [nodeFinished EXCEPT ![mTask.job] = TRUE],
              dNext # "work" => job[dukCurrent].returned
       PROVE  AskInv'
  <2>1. Asked(mTask) /\ Waiting /\ mPC # "loop" /\ running /\ normal = << >>
        /\ picked # NoTask /\ mTask = picked
    BY <1>0, <1>18 DEF AskInv, InTask, Asked
  <2>2. Waiting' /\ DukMethod' = DukMethod
    BY <1>18, <2>1 DEF Waiting, DukMethod
  <2> QED
    BY <1>0, <1>18, <2>1, <2>2 DEF AskInv, InTask, Asked, Waiting
<1>19. CASE MArgs \/ MCallbackDone
  <2>1. dNext = "work" /\ mPC \in InTask \ {"stuck"}
    BY <1>0, <1>19 DEF MArgs, MCallbackDone, AskInv, Asked, InTask
  <2> QED
    BY <1>18, <1>19, <2>1 DEF MArgs, MCallbackDone, SetAndUnlock
<1>20. CASE MFlag
  <2>1. job[dukCurrent].returned /\ mPC \in InTask \ {"stuck"}
    BY <1>0, <1>20 DEF MFlag, AskInv, InTask
  <2> QED
    BY <1>18, <1>20, <2>1 DEF MFlag
<1>21. CASE MReturnThrows \/ MNotify \/ MSettle
  <2>1. /\ mPC' = "loop" /\ mPC \in {"return", "notify", "settle"} /\ picked' = NoTask
        /\ ~running' /\ Waiting' = Waiting
        /\ UNCHANGED <<normal, dukCurrent, dObj, dNext, nodeFinished>>
    BY <1>0, <1>21 DEF MReturnThrows, MNotify, MSettle, N!Return, Waiting
  <2>2. mPC = "return" => normal = << >>
    BY <1>0, <2>1 DEF AskInv, InTask
  <2>3. normal # << >> => Len(normal) = 1 /\ Asked(normal[1]) /\ Asked(normal[1])'
    BY <1>0, <2>1, <2>2 DEF AskInv, Asked
  <2>4. Waiting => /\ job'[dukCurrent].kind = job[dukCurrent].kind
                   /\ job'[dukCurrent].returned = job[dukCurrent].returned
    <3>1. CASE MReturnThrows \/ MNotify
      BY <3>1 DEF MReturnThrows, MNotify
    <3>2. CASE MSettle
      BY <1>0, <3>2 DEF MSettle, Waiting, Types, Fields
    <3> QED
      BY <1>21, <3>1, <3>2
  <2>5. Waiting => DukMethod' = DukMethod
    BY <2>1, <2>4 DEF DukMethod
  <2> QED
    BY <1>0, <2>1, <2>2, <2>3, <2>4, <2>5 DEF AskInv, InTask
<1> QED
  BY <1>2, <1>3, <1>4, <1>5, <1>6, <1>8, <1>9, <1>10, <1>11, <1>12, <1>13, <1>15, <1>16,
     <1>17, <1>19, <1>20, <1>21 DEF Next, SomeCall, DStep, MStep

\* The bounds of the stack's height are numbers.
LEMMA FailedFacts ==
  ASSUME IsFiniteSet(AllFailed)
  PROVE  /\ \A kinds : IsFiniteSet(Failed(kinds))
         /\ Fewest \in Nat /\ Most \in Nat
<1>1. ASSUME NEW kinds PROVE IsFiniteSet(Failed(kinds))
  BY FS_Subset DEF Failed
<1> QED
  BY <1>1, FS_CardinalityType DEF Fewest, Most

\* They change only when a job fails.
LEMMA NoMoreFail ==
  ASSUME \A j \in Jobs : job'[j].error = job[j].error,
         \A j \in Jobs : job[j].error => job'[j].kind = job[j].kind
  PROVE  AllFailed' = AllFailed /\ Fewest' = Fewest /\ Most' = Most
<1>1. AllFailed' = AllFailed /\ \A kinds : Failed(kinds)' = Failed(kinds)
  BY DEF AllFailed, Failed
<1> QED
  BY <1>1 DEF Fewest, Most

\* No more is popped than was pushed, and no less but for three methods that fail.
LEMMA StackStepInv == IInv /\ [Next]_vars => StackInv'
<1> SUFFICES ASSUME IInv, Next PROVE StackInv'
  BY Stuttering DEF IInv
<1> USE Facts DEF jVars, dVars, nVars, flags, stack, history
<1>0. /\ Types /\ JobInv /\ AskInv /\ StackInv /\ job \in [Jobs -> Fields]
      /\ top \in Int /\ left \in Nat /\ pops \in {0, 1, 2} /\ Fewest \in Nat /\ Most \in Nat
      /\ (Waiting \/ dPC \in {"preArgs", "work"} =>
            DukMethod.name \in {0, 1} /\ DukArgs \in {0, 1})
  BY FailedFacts DEF IInv, Types, Sound, Waiting, StackInv
<1>a. DukInv
  BY DEF IInv
<1>1. ASSUME \A j \in Jobs : job'[j].error = job[j].error,
             \A j \in Jobs : job[j].error => job'[j].kind = job[j].kind,
             Waiting' \/ dPC' \in {"preArgs", "work"} => ~job'[dukCurrent'].error,
             dPC' = "work" \/ (Waiting' /\ dNext' = "work") => pops' \in DukMethod'.receiver,
             top' - Height' - left' = top - Height - left
      PROVE  StackInv'
  BY <1>0, <1>1, NoMoreFail DEF StackInv
<1>2. ASSUME UNCHANGED <<top, pops, left, dNext, dPC, dObj, dukCurrent>>,
             \A j \in Jobs : job'[j].error = job[j].error,
             \A j \in Jobs : job[j].error => job'[j].kind = job[j].kind,
             Waiting \/ dPC \in {"preArgs", "work"} =>
               /\ job'[dukCurrent].kind = job[dukCurrent].kind
               /\ job'[dukCurrent].args = job[dukCurrent].args,
             Waiting => IF mPC = "flag" \/ nodeFinished[dObj] THEN mPC' = "flag" \/ nodeFinished'[dObj]
                        ELSE ~nodeFinished'[dObj] /\ (mPC' # "flag" \/ DukMethod.makes),
             Waiting /\ dNext = "work" => nodeFinished'[dObj] = nodeFinished[dObj]
      PROVE  StackInv'
  <2>1. Waiting \/ dPC \in {"preArgs", "work"} => DukMethod' = DukMethod /\ DukArgs' = DukArgs
    BY <1>2 DEF DukMethod, DukArgs
  <2>2. Waiting' = Waiting
    BY <1>2 DEF Waiting
  <2>3. Height' = Height
    BY <1>2, <2>1, <2>2 DEF Height, Pushed
  <2>4. Waiting \/ dPC \in {"preArgs", "work"} => ~job'[dukCurrent].error
    BY <1>0, <1>2 DEF StackInv, Waiting
  <2>5. dPC' = "work" \/ (Waiting' /\ dNext' = "work") => pops' \in DukMethod'.receiver
    BY <1>0, <1>2, <2>1, <2>2 DEF StackInv
  <2> QED
    BY <1>1, <1>2, <2>2, <2>3, <2>4, <2>5
<1>3. ASSUME NEW j \in Jobs, NEW k \in Kinds, NEW n \in Method[k].args, Call(j, k, n)
      PROVE  StackInv'
  <2>1. job[j].kind = "none" /\ ~job[j].error /\ (\A i \in Jobs \ {j} : job'[i] = job[i])
        /\ ~job'[j].error
    BY <1>0, <1>3 DEF Call, JobInv, Fields
  <2>2. Waiting \/ dPC \in {"preArgs", "work"} => dukCurrent \in Jobs \ {j}
    BY <2>1, MethodFacts DEF Waiting
  <2>3. \A i \in Jobs : job'[i].error = job[i].error /\ (job[i].error => job'[i].kind = job[i].kind)
    BY <1>0, <1>3, <2>1 DEF Call, Fields
  <2> QED
    BY <1>2, <1>3, <2>1, <2>2, <2>3 DEF Call
<1>4. CASE JStep
  <2>1. UNCHANGED <<dPC, mPC, dObj, dNext, nodeFinished, job, top, pops, left, dukCurrent>>
    BY <1>4 DEF JStep, JStart, JSubmit, JWait, JRelock, JSettle, D!Submit
  <2> QED
    BY <1>2, <2>1
<1>5. CASE DStart \/ DNotify
  <2>1. UNCHANGED <<top, left, job>> /\ dPC \in {"idle", "notify"} /\ dPC' \in {"lock", "idle"}
    BY <1>5 DEF DStart, DNotify
  <2>2. Height' = 0 /\ Height = 0
    BY <2>1 DEF Height, Waiting
  <2> QED
    BY <1>0, <1>1, <2>1, <2>2 DEF Waiting
<1>6. CASE DLock
  <2>1. UNCHANGED <<top, left, job, dukCurrent>> /\ dPC = "lock" /\ dPC' = "preArgs"
        /\ ~job[dukCurrent].error
    BY <1>6, <1>a DEF DLock, DukInv, Fresh
  <2>2. Height' = 0 /\ Height = 0
    BY <2>1 DEF Height, Waiting
  <2> QED
    BY <1>0, <1>1, <2>1, <2>2 DEF Waiting
<1>7. CASE DPreArgs
  <2>1. PICK n \in DukMethod.receiver : pops' = n /\ top' = top + n + DukMethod.name
    BY <1>7 DEF DPreArgs
  <2>2. n \in {0, 1, 2} /\ DukMethod' = DukMethod /\ DukArgs' = DukArgs
        /\ UNCHANGED <<job, left, dukCurrent>> /\ dPC = "preArgs"
    BY <1>7, <2>1 DEF DPreArgs, DukMethod, DukArgs, Sound
  <2>3. Height = 0
    BY <2>2 DEF Height, Waiting
  <2>4. CASE AskNode(dukCurrent, "args", "work")
    <3>1. dPC' = "test" /\ dNext' = "work" /\ dObj' = dukCurrent /\ ~nodeFinished'[dukCurrent]
          /\ dukCurrent # Nested
      BY <1>0, <1>7, <2>4 DEF DPreArgs, AskNode, Types, Objects
    <3>2. Waiting' /\ Height' = n + DukMethod.name
      BY <2>1, <2>2, <3>1 DEF Height, Pushed, Waiting
    <3> QED
      BY <1>0, <1>1, <2>1, <2>2, <2>3, <3>1, <3>2 DEF StackInv
  <2>5. CASE DukArgs = 0 /\ DGoOn("work")
    <3>1. dPC' = "work" /\ Pushed' = n + DukMethod.name
      BY <2>1, <2>2, <2>5 DEF DGoOn, Pushed
    <3>2. Height' = n + DukMethod.name + DukArgs
      BY <2>2, <3>1 DEF Height, Waiting
    <3> QED
      BY <1>0, <1>1, <2>1, <2>2, <2>3, <2>5, <3>1, <3>2 DEF StackInv, Waiting
  <2> QED
    BY <1>0, <1>7, <2>4, <2>5 DEF DPreArgs
<1>8. CASE DCallNode
  <2>1. /\ DukMethod' = DukMethod /\ DukArgs' = DukArgs /\ dPC = "work" /\ dPC' = "test"
        /\ dNext' = "work" /\ dObj' = Nested /\ UNCHANGED <<top, pops, left, job, dukCurrent>>
    BY <1>8 DEF DCallNode, AskNode, DukMethod, DukArgs
  <2>2. Height' = Height
    BY <2>1 DEF Height, Pushed, Waiting
  <2> QED
    BY <1>0, <1>1, <2>1, <2>2 DEF StackInv, Waiting
<1>9. CASE DFail
  <2> DEFINE k == job[dukCurrent].kind
             b == top - (Pushed + DukArgs) - left
  <2>1. PICK n \in DukMethod.failed : top' = top - DukArgs + n
    BY <1>9 DEF DFail
  <2>2. n \in Int /\ k \in Kinds /\ dukCurrent \in Jobs /\ ~job[dukCurrent].error
        /\ dPC = "work" /\ dPC' = "finish" /\ pops' = pops
        /\ left' = left
    BY <1>0, <1>9, <2>1 DEF DFail, DGoOn, StackInv, Sound
  <2>3. DukMethod.name + n \in CASE k \in {"callMethod", "runCallback"} -> {1}
                                 [] k = "getObject" -> {0, 1}
                                 [] OTHER -> {0}
    BY <2>1, <2>2, MethodFacts DEF DukMethod
  <2>4. b \in Fewest .. Most /\ Height' = pops
        /\ top' - Height' - left' = b + (DukMethod.name + n)
    <3>1. Height = Pushed + DukArgs /\ Height' = pops
      BY <2>2 DEF Height, Waiting
    <3>2. b \in Fewest .. Most
      BY <1>0, <3>1 DEF StackInv
    <3>3. top' - pops - left' = b + (DukMethod.name + n)
      <4>1. b = top - (pops + DukMethod.name + DukArgs) - left
        BY <2>2, <3>1 DEF Pushed
      <4> QED
        BY <1>0, <1>9, <2>1, <2>2, <4>1
    <3> QED
      BY <3>1, <3>2, <3>3
  <2>5. \A j \in Jobs : (job'[j].error <=> job[j].error \/ j = dukCurrent)
                        /\ job'[j].kind = job[j].kind
    <3>1. job' = [job EXCEPT ![dukCurrent].error = TRUE] /\ \A j \in Jobs : job[j] \in Fields
      BY <1>0, <1>9 DEF DFail
    <3>2. job' = [job EXCEPT ![dukCurrent] = [job[dukCurrent] EXCEPT !.error = TRUE]]
      BY <3>1
    <3>3. /\ [job[dukCurrent] EXCEPT !.error = TRUE].error = TRUE
          /\ [job[dukCurrent] EXCEPT !.error = TRUE].kind = job[dukCurrent].kind
      BY <2>2, <3>1 DEF Fields
    <3>4. \A j \in Jobs : job'[j] = IF j = dukCurrent THEN [job[dukCurrent] EXCEPT !.error = TRUE]
                                   ELSE job[j]
      BY <1>0, <3>2
    <3> QED
      BY <3>1, <3>3, <3>4 DEF Fields
  <2>6. AllFailed' = AllFailed \cup {dukCurrent} /\ dukCurrent \notin AllFailed
    BY <2>2, <2>5 DEF AllFailed
  <2>7. ASSUME NEW kinds
        PROVE  /\ IsFiniteSet(Failed(kinds)) /\ dukCurrent \notin Failed(kinds)
               /\ Failed(kinds)' = IF k \in kinds THEN Failed(kinds) \cup {dukCurrent}
                                   ELSE Failed(kinds)
    <3>1. IsFiniteSet(Failed(kinds)) /\ dukCurrent \notin Failed(kinds)
      BY <1>0, <2>6, FailedFacts DEF StackInv, Failed
    <3>2. Failed(kinds)' = {j \in AllFailed' : job'[j].kind \in kinds}
      BY DEF Failed
    <3>3. \A j \in AllFailed' : j \in Jobs /\ job'[j].kind = job[j].kind
      BY <2>2, <2>5, <2>6 DEF AllFailed
    <3> QED
      BY <2>6, <3>1, <3>2, <3>3 DEF Failed
  <2>8. IsFiniteSet(AllFailed)'
    BY <1>0, <2>6, FS_AddElement DEF StackInv
  <2>9. ASSUME NEW kinds
        PROVE  Cardinality(Failed(kinds)') = Cardinality(Failed(kinds))
                                             + (IF k \in kinds THEN 1 ELSE 0)
    BY <2>7, FS_AddElement, FS_CardinalityType
  <2>10. /\ Fewest' = Fewest + (IF k \in {"callMethod", "runCallback"} THEN 1 ELSE 0)
         /\ Most' = Most + (IF k \in {"callMethod", "runCallback", "getObject"} THEN 1 ELSE 0)
    BY <2>9 DEF Fewest, Most
  <2>11. top' - Height' - left' \in Fewest' .. Most'
    <3> HIDE DEF k, b
    <3>1. b \in Int
      BY <1>0, <2>4
    <3> QED
      BY <1>0, <2>3, <2>4, <2>10, <3>1
  <2> QED
    BY <2>2, <2>8, <2>11 DEF StackInv, Waiting
<1>10. CASE DSucceed
  <2>1. PICK n \in DukMethod.access : /\ pops' = pops + n
                                      /\ top' = top - DukArgs + n + DukMethod.done
    BY <1>10 DEF DSucceed
  <2>2. n \in {0, 1, 2} /\ DukMethod.done \in {0, 1} /\ DukMethod' = DukMethod
        /\ dPC = "work" /\ dukCurrent \in Jobs /\ ~job[dukCurrent].error
        /\ UNCHANGED <<job, left, dukCurrent>>
    BY <1>0, <1>10, <2>1 DEF DSucceed, StackInv, Sound, DukMethod
  <2>3. Height = pops + DukMethod.name + DukArgs
        /\ DukMethod.name + DukMethod.done = IF DukMethod.fetch = "no" \/ DukMethod.makes
                                             THEN 0 ELSE 1
    <3>1. Height = Pushed + DukArgs
      BY <2>2 DEF Height, Waiting
    <3> QED
      BY <2>2, <3>1 DEF Pushed, Sound
  <2>4. top' - (pops' + IF DukMethod.fetch = "no" \/ DukMethod.makes THEN 0 ELSE 1)
          = top - Height
    BY <1>0, <1>10, <2>1, <2>2, <2>3 DEF DSucceed
  <2>5. CASE DukMethod.fetch = "work" /\ AskNode(dukCurrent, "return", "evalDone")
    <3>1. Waiting' /\ dPC' = "test" /\ dNext' = "evalDone" /\ ~DukMethod.makes
      BY <1>10, <2>5 DEF DSucceed, AskNode, Waiting, Sound
    <3>2. Height' = pops' + 1
      BY <3>1 DEF Height
    <3> QED
      BY <1>1, <2>2, <2>4, <2>5, <3>1, <3>2
  <2>6. CASE DukMethod.fetch = "dukFunc" /\ AskNode(dukCurrent, "return", "finish")
    <3>1. Waiting' /\ dPC' = "test" /\ dNext' = "finish" /\ dObj' = dukCurrent
          /\ ~nodeFinished'[dukCurrent] /\ mPC' # "flag"
      BY <1>0, <1>10, <2>6 DEF DSucceed, AskNode, Types, Objects, AskInv, InTask, Asked, Waiting
    <3>2. Height' = IF DukMethod.makes THEN pops' ELSE pops' + 1
      BY <2>2, <3>1 DEF Height
    <3>3. pops' \in Int
      BY <1>0, <2>1, <2>2
    <3> QED
      BY <1>1, <2>2, <2>4, <2>6, <3>1, <3>2, <3>3
  <2>7. CASE DukMethod.fetch = "no" /\ DGoOn("finish")
    <3>1. dPC' = "finish" /\ Height' = pops' /\ pops' \in Int
      BY <1>0, <2>1, <2>2, <2>7 DEF DGoOn, Height, Waiting
    <3> QED
      BY <1>1, <2>2, <2>4, <2>7, <3>1 DEF Waiting
  <2> QED
    BY <1>10, <2>5, <2>6, <2>7 DEF DSucceed, FetchReturn, Sound
<1>11. CASE DEvalDone
  <2>1. UNCHANGED <<job, pops, left>> /\ dPC = "evalDone" /\ dPC' = "finish" /\ top' = top - 1
    BY <1>11 DEF DEvalDone, DGoOn
  <2>2. Height' = pops /\ Height = pops + 1
    BY <2>1 DEF Height, Waiting
  <2> QED
    BY <1>0, <1>1, <2>1, <2>2 DEF Waiting
<1>12. CASE DTestTrue
  <2>1. Waiting /\ nodeFinished[dObj] /\ dPC' = dNext /\ dNext \in {"work", "evalDone", "finish"}
        /\ dPC = "test" /\ UNCHANGED <<top, pops, left, dukCurrent, job>> /\ ~Waiting'
    BY <1>0, <1>12 DEF DTestTrue, AskInv, Waiting, Types
  <2>2. DukMethod' = DukMethod /\ DukArgs' = DukArgs
    BY <2>1 DEF DukMethod, DukArgs
  <2>3. Height' = Height
    BY <2>1, <2>2 DEF Height, Pushed
  <2> QED
    BY <1>0, <1>1, <2>1, <2>2, <2>3 DEF StackInv
<1>13. CASE DTestFalse \/ DBlock \/ DRelock \/ SpuriousWakeup \/ MNotify \/ Quiet
  <2>1. UNCHANGED <<top, pops, left, dObj, dNext, dukCurrent, nodeFinished, job>>
        /\ Waiting' = Waiting /\ (dPC' = dPC \/ Waiting) /\ (mPC' = mPC \/ mPC = "notify")
        /\ mPC' \in {mPC, "loop"}
    BY <1>13 DEF DTestFalse, DBlock, DRelock, DWaiting, SpuriousWakeup, MNotify, Quiet, vars,
       Waiting
  <2>2. DukMethod' = DukMethod /\ DukArgs' = DukArgs
    BY <2>1 DEF DukMethod, DukArgs
  <2>3. dPC' # dPC => {dPC, dPC'} \cap {"preArgs", "work", "evalDone", "finish"} = {}
    BY <2>1 DEF Waiting
  <2>4. Height' = Height
    BY <2>1, <2>2, <2>3 DEF Height, Pushed
  <2> QED
    BY <1>0, <1>1, <2>1, <2>2, <2>3, <2>4 DEF StackInv
<1>14. CASE DFinish
  <2>1. UNCHANGED <<job, pops, left>> /\ dPC = "finish" /\ dPC' = "notify" /\ top' = top - pops
    BY <1>14 DEF DFinish
  <2>2. Height' = 0 /\ Height = pops
    BY <2>1 DEF Height, Waiting
  <2> QED
    BY <1>0, <1>1, <2>1, <2>2 DEF Waiting
<1>15. CASE Pick \/ MBegin \/ MLock \/ MReturnSettled \/ MReturnThrows
  <2>1. mPC' # "flag" /\ mPC # "flag"
    BY <1>0, <1>15 DEF Pick, N!Pick, MBegin, MLock, MReturnSettled, MReturnThrows, AskInv,
       Asked, InTask, Task
  <2>2. UNCHANGED <<top, pops, left, dPC, dObj, dNext, dukCurrent, nodeFinished, job>>
    BY <1>15 DEF Pick, MBegin, MLock, MReturnSettled, MReturnThrows
  <2> QED
    BY <1>2, <2>1, <2>2
<1>16. CASE MArgs
  <2>1. Waiting /\ dNext = "work" /\ dObj = dukCurrent /\ ~nodeFinished[dObj]
        /\ dukCurrent # Nested /\ mTask.job = dukCurrent
    BY <1>0, <1>16 DEF MArgs, AskInv, Asked, InTask
  <2>2. PICK e \in 0 .. MaxPromises : top' = top + DukArgs + e /\ left' = left + e
    BY <1>16, <2>1 DEF MArgs, DukArgs
  <2>3. UNCHANGED <<pops, dPC, dObj, dNext, dukCurrent, job>> /\ nodeFinished'[dukCurrent]
    BY <1>0, <1>16, <2>1 DEF MArgs, SetAndUnlock, Types, Objects
  <2>4. DukMethod' = DukMethod /\ DukArgs' = DukArgs /\ Waiting' /\ Pushed' = Pushed
    BY <2>1, <2>3 DEF DukMethod, DukArgs, Waiting, Pushed
  <2>5. Height = Pushed /\ Height' = Pushed + DukArgs
    BY <2>1, <2>3, <2>4 DEF Height, Waiting
  <2>6. top' - Height' - left' = top - Height - left
    BY <1>0, <2>1, <2>2, <2>5 DEF Pushed
  <2> QED
    BY <1>0, <1>1, <2>1, <2>3, <2>4, <2>6 DEF StackInv
<1>17. CASE MCallbackDone
  <2>1. Waiting /\ dNext = "work" /\ dObj = Nested
    BY <1>0, <1>17 DEF MCallbackDone, AskInv, Asked, InTask
  <2>2. UNCHANGED <<top, pops, left, dPC, dObj, dNext, dukCurrent, job>>
    BY <1>17 DEF MCallbackDone
  <2>3. DukMethod' = DukMethod /\ DukArgs' = DukArgs /\ Waiting' /\ Pushed' = Pushed
    BY <2>1, <2>2 DEF DukMethod, DukArgs, Waiting, Pushed
  <2>4. Height' = Height
    BY <2>1, <2>2, <2>3 DEF Height
  <2> QED
    BY <1>0, <1>1, <2>1, <2>2, <2>3, <2>4 DEF StackInv
<1>18. CASE MReturn
  <2>1. /\ Waiting /\ dNext \in {"evalDone", "finish"} /\ ~nodeFinished[dObj]
        /\ mTask.job = dukCurrent /\ mPC = "return" /\ mPC' = "flag" /\ ~DukMethod.makes
        /\ dNext = "evalDone" <=> DukMethod.fetch = "work"
    BY <1>0, <1>18 DEF MReturn, AskInv, Asked, InTask, Types
  <2>2. top' = (IF dNext = "evalDone" THEN top ELSE top - 1)
        /\ UNCHANGED <<pops, left, dPC, dObj, dNext, dukCurrent, nodeFinished>>
    BY <1>18, <2>1 DEF MReturn, DukMethod
  <2>3. Height' = (IF dNext = "evalDone" THEN Height ELSE Height - 1) /\ Height \in Int
    BY <1>0, <2>1, <2>2 DEF Height, Waiting
  <2>4. top' - Height' = top - Height
    BY <1>0, <2>2, <2>3
  <2>5. Progress /\ job' = [job EXCEPT ![dukCurrent].returned = TRUE] /\ dukCurrent \in Jobs
    BY <1>18, <2>1, ProgressFacts DEF MReturn
  <2>6. \A j \in Jobs : job'[j].error = job[j].error /\ job'[j].kind = job[j].kind
    BY <1>0, <2>5 DEF Fields
  <2> QED
    BY <1>0, <1>1, <2>1, <2>2, <2>4, <2>5, <2>6 DEF StackInv, Waiting
<1>19. CASE MMake
  <2>1. Progress /\ DukMethod.makes /\ mTask.job = dukCurrent /\ dukCurrent \in Jobs
    BY <1>0, <1>19, ProgressFacts DEF MMake, AskInv
  <2>2. \A j \in Jobs : /\ job'[j].error = job[j].error /\ job'[j].kind = job[j].kind
                        /\ job'[j].args = job[j].args
    BY <1>0, <1>19, <2>1 DEF MMake, Fields
  <2> QED
    BY <1>2, <1>19, <2>1, <2>2 DEF MMake
<1>20. CASE MFlag
  <2>1. mTask.job = dObj /\ dObj \in Objects /\ dNext # "work"
    BY <1>0, <1>20 DEF MFlag, InTask, AskInv, Asked
  <2> QED
    BY <1>0, <1>2, <1>20, <2>1 DEF MFlag, Types
<1>21. CASE MSettle
  <2>1. \A j \in Jobs : /\ job'[j].error = job[j].error /\ job'[j].kind = job[j].kind
                        /\ job'[j].args = job[j].args
    BY <1>0, <1>21 DEF MSettle, Fields
  <2> QED
    BY <1>2, <1>21, <2>1 DEF MSettle, Waiting
<1> QED
  BY <1>3, <1>4, <1>5, <1>6, <1>7, <1>8, <1>9, <1>10, <1>11, <1>12, <1>13, <1>14, <1>15,
     <1>16, <1>17, <1>18, <1>19, <1>20, <1>21 DEF Next, SomeCall, DStep, MStep

\* The invariant is one.
LEMMA Invariance == SafeSpec => []IInv
<1>1. IInv /\ [Next]_vars => IInv'
  BY TypesStep, JobStepInv, DukStepInv, SettleStepInv, AskStepInv, StackStepInv DEF IInv
<1> QED
  BY InitIInv, <1>1, PTL DEF SafeSpec

--------------------------------------------------------------------------------
(* What follows.                                                              *)

\* The variables keep their types, and no method pops from the heap's value stack what
\* it or its arguments did not push (AsyncJob.cpp:93-180).
THEOREM TypeCorrect == SafeSpec => []TypeOK
<1>1. IInv => TypeOK
  <2> SUFFICES ASSUME IInv PROVE top >= 0
    BY DEF TypeOK, IInv
  <2>1. /\ top \in Int /\ left \in Nat /\ pops \in {0, 1, 2} /\ Fewest \in Nat /\ Most \in Nat
        /\ top - Height - left \in Fewest .. Most
    BY FailedFacts DEF IInv, Types, StackInv
  <2>2. Waiting \/ dPC = "work" => DukMethod.name \in {0, 1} /\ DukArgs \in {0, 1}
    BY Facts DEF Sound, Waiting
  <2>3. Height \in Nat
    BY <2>1, <2>2 DEF Height, Pushed, Waiting
  <2> QED
    BY <2>1, <2>3
<1> QED
  BY <1>1, Invariance, PTL

\* Every job leaves the heap's value stack as it found it, but for what fromV8 leaves of
\* promises that find no Promise, and for the three methods that leave something when
\* they fail (AsyncContext.cpp:15-630, DukValue.cpp:216-221).
THEOREM StackKept == SafeSpec => []StackAccounted
<1>1. IInv => StackAccounted
  <2> SUFFICES ASSUME IInv, dPC = "idle" PROVE top - left \in Fewest .. Most
    BY DEF StackAccounted, Fewest, Most, Failed, AllFailed
  <2>1. Height = 0 /\ top \in Int /\ left \in Nat
    BY DEF IInv, Types, Height, Waiting
  <2> QED
    BY <2>1, FailedFacts DEF IInv, StackInv
<1> QED
  BY <1>1, Invariance, PTL

\* The node thread never touches the Duktape heap while D does, although neither locks
\* it, and even if waits return by themselves (AsyncJob.cpp:106-250).
THEOREM HeapHasOneUser == SafeSpec => []OneHeapUser
<1>1. IInv => OneHeapUser
  BY DEF IInv, AskInv, Asked, InTask, Waiting, OneHeapUser
<1> QED
  BY <1>1, Invariance, PTL

\* Each promise is settled at most once, when its job is over, and resolved only with
\* what the job returned (AsyncJob.cpp:221-232).
THEOREM SettledOnce == SafeSpec => []Settlement
<1>1. IInv => Settlement
  BY DEF IInv, SettleInv
<1> QED
  BY <1>1, Invariance, PTL

--------------------------------------------------------------------------------
(* Order.                                                                     *)

\* J has taken a job, and D has not.
Handed == jPC = "submit" \/ dukQueue # << >>

\* The jobs made and not executed are that one and those that wait for J, in order.
OrderInv ==
  /\ Len(called) = Len(executed) + Len(jobQueue) + IF Handed THEN 1 ELSE 0
  /\ Handed => called[Len(executed) + 1] = jobCurrent
  /\ \A i \in DOMAIN jobQueue : called[Len(called) - Len(jobQueue) + i] = jobQueue[i]

Awaiting == SubSeq(called, Len(executed) + 1, Len(called))

\* No more jobs are executed than were made.
LEMMA AwaitingFacts ==
  ASSUME IInv, OrderInv
  PROVE  /\ Len(called) \in Nat /\ Len(executed) \in Nat /\ Len(executed) <= Len(called)
         /\ Awaiting \in Seq(Jobs) /\ Len(Awaiting) = Len(called) - Len(executed)
         /\ \A i \in 1 .. Len(Awaiting) : Awaiting[i] = called[Len(executed) + i]
<1>1. called \in Seq(Jobs) /\ Len(called) \in Nat /\ Len(executed) \in Nat
      /\ Len(jobQueue) \in Nat
  BY DEF IInv, Types
<1>2. Len(executed) <= Len(called)
  BY <1>1 DEF OrderInv
<1>3. \A i \in Len(executed) + 1 .. Len(called) : called[i] \in Jobs
  BY <1>1
<1>4. /\ Awaiting \in Seq(Jobs)
      /\ Len(Awaiting) = IF Len(executed) + 1 <= Len(called)
                         THEN Len(called) - (Len(executed) + 1) + 1 ELSE 0
      /\ \A i \in 1 .. Len(called) - (Len(executed) + 1) + 1 :
           Awaiting[i] = called[Len(executed) + 1 + i - 1]
  BY <1>1, <1>3, SubSeqProperties DEF Awaiting
<1>5. Len(Awaiting) = Len(called) - Len(executed)
  BY <1>1, <1>2, <1>4
<1>6. ASSUME NEW i \in 1 .. Len(Awaiting) PROVE Awaiting[i] = called[Len(executed) + i]
  <2>1. Len(executed) + 1 + i - 1 = Len(executed) + i
    BY <1>1
  <2> QED
    BY <1>1, <1>2, <1>4, <1>5, <2>1
<1> QED
  BY <1>1, <1>2, <1>4, <1>5, <1>6

\* Jobs are executed in the order in which they are made, and one at a time.
LEMMA OrderStep == IInv /\ OrderInv /\ [Next]_vars => OrderInv' /\ [Turns!Next]_(Turns!vars)
<1> SUFFICES ASSUME IInv, OrderInv, [Next]_vars
             PROVE  OrderInv' /\ [Turns!Next]_(Turns!vars)
  OBVIOUS
<1> USE Facts DEF jVars, dVars, nVars, flags, stack, history
<1>0. /\ Types /\ JobInv /\ DukInv /\ OrderInv
      /\ Len(called) \in Nat /\ Len(executed) \in Nat /\ Len(jobQueue) \in Nat
      /\ DOMAIN jobQueue = 1 .. Len(jobQueue)
  BY DEF IInv, Types
<1>1. ASSUME UNCHANGED <<called, executed, jobQueue, dukCurrent>>, Handed' <=> Handed,
             Handed => jobCurrent' = jobCurrent
      PROVE  OrderInv' /\ [Turns!Next]_(Turns!vars)
  BY <1>0, <1>1 DEF OrderInv, Turns!vars
<1>2. ASSUME NEW j \in Jobs, NEW k \in Kinds, NEW n \in Method[k].args, Call(j, k, n)
      PROVE  OrderInv' /\ [Turns!Next]_(Turns!vars)
  <2>1. /\ called' = Append(called, j) /\ jobQueue' = Append(jobQueue, j)
        /\ UNCHANGED <<executed, jPC, dukQueue, dukCurrent, jobCurrent>>
    BY <1>2 DEF Call, J!Submit
  <2>2. /\ called' \in Seq(Jobs) /\ Len(called') = Len(called) + 1
        /\ called'[Len(called) + 1] = j /\ \A i \in 1 .. Len(called) : called'[i] = called[i]
        /\ Len(jobQueue') = Len(jobQueue) + 1 /\ DOMAIN jobQueue' = 1 .. (Len(jobQueue) + 1)
        /\ jobQueue'[Len(jobQueue) + 1] = j
        /\ \A i \in 1 .. Len(jobQueue) : jobQueue'[i] = jobQueue[i]
    BY <1>0, <2>1, AppendFacts DEF Types
  <2>3. Handed' = Handed
    BY <2>1 DEF Handed
  <2>4. \A i \in DOMAIN jobQueue' : called'[Len(called') - Len(jobQueue') + i] = jobQueue'[i]
    <3> TAKE i \in DOMAIN jobQueue'
    <3>1. CASE i \in 1 .. Len(jobQueue)
      <4>1. Len(called) - Len(jobQueue) + i \in 1 .. Len(called)
        BY <1>0, <3>1 DEF OrderInv
      <4>2. called[Len(called) - Len(jobQueue) + i] = jobQueue[i]
        BY <1>0, <3>1 DEF OrderInv
      <4>3. Len(called') - Len(jobQueue') = Len(called) - Len(jobQueue)
        BY <1>0, <2>2
      <4> QED
        BY <2>2, <3>1, <4>1, <4>2, <4>3
    <3>2. CASE i = Len(jobQueue) + 1
      BY <1>0, <2>2, <3>2
    <3> QED
      BY <1>0, <2>2, <3>1, <3>2
  <2>5. OrderInv'
    <3>1. Len(called') = Len(executed') + Len(jobQueue') + IF Handed' THEN 1 ELSE 0
      BY <1>0, <2>1, <2>2, <2>3 DEF OrderInv
    <3>2. Handed' => called'[Len(executed') + 1] = jobCurrent'
      <4>1. Handed => Len(executed) + 1 \in 1 .. Len(called)
        BY <1>0 DEF OrderInv
      <4> QED
        BY <1>0, <2>1, <2>2, <2>3, <4>1 DEF OrderInv
    <3> QED
      BY <2>4, <3>1, <3>2 DEF OrderInv
  <2>6. Awaiting' = Append(Awaiting, j)
    <3>1. Len(executed) + 1 \in 1 .. Len(called') /\ Len(called') \in Len(executed) + 1 .. Len(called')
      BY <1>0, <2>2, AwaitingFacts
    <3>2. SubSeq(called', Len(executed) + 1, Len(called'))
            = SubSeq(called', Len(executed) + 1, Len(called') - 1) \o <<called'[Len(called')]>>
      BY <2>2, <3>1, SubSeqRecursiveSecond
    <3>3. SubSeq(called', Len(executed) + 1, Len(called)) = Awaiting
      <4> DEFINE w == SubSeq(called', Len(executed) + 1, Len(called))
      <4>1. \A i \in Len(executed) + 1 .. Len(called) : called'[i] \in Jobs /\ called'[i] = called[i]
        BY <1>0, <2>2 DEF Types
      <4>2. /\ w \in Seq(Jobs)
            /\ Len(w) = IF Len(executed) + 1 <= Len(called)
                        THEN Len(called) - (Len(executed) + 1) + 1 ELSE 0
            /\ \A i \in 1 .. Len(called) - (Len(executed) + 1) + 1 :
                 w[i] = called'[Len(executed) + 1 + i - 1]
        BY <1>0, <4>1, SubSeqProperties
      <4> HIDE DEF w
      <4>3. Len(w) = Len(Awaiting)
        BY <1>0, <4>2, AwaitingFacts
      <4>4. ASSUME NEW i \in 1 .. Len(w) PROVE w[i] = Awaiting[i]
        <5>1. /\ Len(executed) + 1 + i - 1 = Len(executed) + i
              /\ Len(executed) + i \in Len(executed) + 1 .. Len(called)
              /\ i \in 1 .. Len(called) - (Len(executed) + 1) + 1
          BY <1>0, <4>2
        <5> QED
          BY <4>1, <4>2, <4>3, <5>1, AwaitingFacts
      <4>5. w = Awaiting
        BY <4>2, <4>3, <4>4, SeqEqual, AwaitingFacts
      <4> QED
        BY <4>5 DEF w
    <3>4. Len(called') - 1 = Len(called) /\ called'[Len(called')] = j
      BY <1>0, <2>2
    <3>5. Awaiting \o <<j>> = Append(Awaiting, j)
      BY AwaitingFacts
    <3> QED
      BY <2>1, <3>2, <3>3, <3>4, <3>5 DEF Awaiting
  <2>7. Turns!Submit(j)
    BY <2>1, <2>6 DEF Turns!Submit, Awaiting
  <2> QED
    BY <2>5, <2>7 DEF Turns!Next
<1>3. CASE JStart
  <2>1. /\ UNCHANGED <<called, executed, dukCurrent, dukQueue>> /\ jPC = "idle" /\ jPC' = "submit"
        /\ jobCurrent' = jobQueue[1] /\ 1 \in DOMAIN jobQueue
        /\ Len(jobQueue') = Len(jobQueue) - 1 /\ DOMAIN jobQueue' = 1 .. (Len(jobQueue) - 1)
        /\ \A i \in DOMAIN jobQueue' : jobQueue'[i] = jobQueue[i + 1]
    BY <1>0, <1>3, TailFacts DEF JStart, J!Start, Types
  <2>2. ~Handed /\ Handed'
    BY <1>0, <2>1 DEF Handed, DukInv, JWaits
  <2>3. Len(called) = Len(executed) + Len(jobQueue) /\ Len(jobQueue) >= 1
    BY <1>0, <2>1, <2>2 DEF OrderInv
  <2>4. called[Len(executed) + 1] = jobQueue[1]
    <3>1. Len(called) - Len(jobQueue) + 1 = Len(executed) + 1
      BY <1>0, <2>3
    <3> QED
      BY <1>0, <2>1, <3>1 DEF OrderInv
  <2>5. ASSUME NEW i \in DOMAIN jobQueue'
        PROVE  called[Len(called) - Len(jobQueue') + i] = jobQueue'[i]
    <3>1. Len(called) - Len(jobQueue') + i = Len(called) - Len(jobQueue) + (i + 1)
          /\ i + 1 \in DOMAIN jobQueue
      BY <1>0, <2>1
    <3> QED
      BY <1>0, <2>1, <3>1 DEF OrderInv
  <2> QED
    <3>1. Len(called') = Len(executed') + Len(jobQueue') + 1
      BY <1>0, <2>1, <2>3
    <3>2. called'[Len(executed') + 1] = jobCurrent'
      BY <2>1, <2>4
    <3>3. OrderInv'
      BY <2>1, <2>2, <2>5, <3>1, <3>2 DEF OrderInv
    <3> QED
      BY <2>1, <3>3 DEF Turns!vars
<1>4. CASE JSubmit
  <2>1. UNCHANGED <<called, executed, jobQueue, jobCurrent, dukCurrent>> /\ Handed
    BY <1>4 DEF JSubmit, D!Submit, Handed
  <2>2. dukQueue' = Append(dukQueue, jobCurrent) /\ jobCurrent \in Jobs /\ dukQueue \in Seq(Jobs)
    BY <1>0, <1>4 DEF JSubmit, D!Submit, Types
  <2>3. dukQueue' # << >>
    BY <2>2
  <2>4. Handed' = Handed
    BY <2>1, <2>3 DEF Handed
  <2> QED
    BY <1>1, <2>1, <2>4
<1>5. CASE DStart
  <2>1. /\ dukCurrent = NoJob /\ dukCurrent' = jobCurrent /\ Handed /\ ~Handed'
        /\ UNCHANGED <<called, jobQueue, jobCurrent>> /\ executed' = Append(executed, jobCurrent)
        /\ jobCurrent \in Jobs
    <3>1. dukQueue # << >> /\ dukQueue = <<jobCurrent>> /\ jPC \in JWaits
      BY <1>0, <1>5 DEF DStart, D!Start, DukInv
    <3>2. dukQueue \in Seq(Jobs) /\ Len(dukQueue) = 1 /\ dukQueue[1] = jobCurrent
      BY <1>0, <3>1 DEF Types
    <3>3. Head(dukQueue) = jobCurrent /\ Tail(dukQueue) = << >>
      BY <3>1, <3>2, TailFacts
    <3> QED
      BY <1>5, <3>1, <3>3 DEF DStart, D!Start, Handed, JWaits
  <2>2. Len(executed') = Len(executed) + 1
    BY <1>0, <2>1, AppendFacts DEF Types
  <2>3. OrderInv'
    BY <1>0, <2>1, <2>2 DEF OrderInv
  <2>4. Len(executed) + 1 \in 1 .. Len(called) /\ Len(called) \in Len(executed) + 1 .. Len(called)
        /\ called[Len(executed) + 1] = jobCurrent
    BY <1>0, <2>1 DEF OrderInv
  <2>5. Head(Awaiting) = jobCurrent /\ Tail(Awaiting) = SubSeq(called, Len(executed) + 2, Len(called))
    <3>1. Len(executed) + 1 + 1 = Len(executed) + 2 /\ called \in Seq(Jobs)
      BY <1>0 DEF Types
    <3> QED
      BY <2>4, <3>1, HeadTailOfSubSeq DEF Awaiting
  <2>6. Awaiting # << >>
    BY <1>0, <2>4, AwaitingFacts
  <2>7. Awaiting' = Tail(Awaiting)
    <3>1. Len(executed') + 1 = Len(executed) + 2
      BY <1>0, <2>2
    <3> QED
      BY <2>1, <2>5, <3>1 DEF Awaiting
  <2>8. Turns!Start
    BY <2>1, <2>5, <2>6, <2>7 DEF Turns!Start, Awaiting
  <2> QED
    BY <2>3, <2>8 DEF Turns!Next
<1>6. CASE DNotify
  <2>1. UNCHANGED <<called, executed, jobQueue, jobCurrent, dukQueue>>
        /\ dukCurrent # NoJob /\ dukCurrent' = NoJob /\ (jPC' = "submit" <=> jPC = "submit")
    BY <1>6 DEF DNotify, D!Finish
  <2>2. OrderInv'
    BY <1>0, <2>1 DEF OrderInv, Handed
  <2>3. Turns!Finish
    BY <2>1 DEF Turns!Finish
  <2> QED
    BY <2>2, <2>3 DEF Turns!Next
<1>7. CASE JSettle
  <2>1. ~Handed /\ ~Handed' /\ UNCHANGED <<called, executed, jobQueue, dukCurrent>>
    BY <1>0, <1>7 DEF JSettle, J!Finish, Handed, DukInv
  <2> QED
    BY <1>1, <2>1
<1>8. CASE JWait \/ JRelock \/ SpuriousWakeup \/ Quiet \/ UNCHANGED vars
  BY <1>1, <1>8 DEF JWait, JRelock, SpuriousWakeup, Quiet, vars, Handed
<1>9. CASE DLock \/ DPreArgs \/ DCallNode \/ DFail \/ DSucceed \/ DEvalDone
  BY <1>1, <1>9 DEF DLock, DPreArgs, DCallNode, DFail, DSucceed, DEvalDone, Handed
<1>10. CASE DTestTrue \/ DTestFalse \/ DBlock \/ DRelock \/ DFinish
  BY <1>1, <1>10 DEF DTestTrue, DTestFalse, DBlock, DRelock, DWaiting, DFinish, Handed
<1>11. CASE Pick \/ MStep
  BY <1>1, <1>11 DEF Pick, MStep, MBegin, MLock, MArgs, MCallbackDone, MReturn,
     MReturnSettled, MReturnThrows, MMake, MFlag, MNotify, MSettle, Handed
<1> QED
  BY <1>2, <1>3, <1>4, <1>5, <1>6, <1>7, <1>8, <1>9, <1>10, <1>11
     DEF Next, SomeCall, JStep, DStep

\* Through two schedulers and all the hand-overs, jobs run on the Duktape heap one at a
\* time and in the order in which the node thread made them (AsyncJob.cpp:183-250).
THEOREM ImplementsTurns == SafeSpec => Turns!SafeSpec
<1>1. Init => OrderInv /\ Turns!Init
  <2> SUFFICES ASSUME Init PROVE OrderInv /\ Turns!Init
    OBVIOUS
  <2>1. called = << >> /\ executed = << >> /\ jobQueue = << >> /\ dukQueue = << >>
        /\ jPC = "idle" /\ dukCurrent = NoJob
    BY DEF Init, J!Init, D!Init
  <2>2. SubSeq(called, Len(executed) + 1, Len(called)) = << >>
    BY <2>1, SubSeqEmpty
  <2> QED
    BY <2>1, <2>2 DEF OrderInv, Handed, Turns!Init
<1> QED
  BY <1>1, OrderStep, Invariance, PTL DEF SafeSpec, Turns!SafeSpec

--------------------------------------------------------------------------------
(* When no wait returns without a notify, and every method's return value is  *)
(* converted under the lock.                                                  *)

Prompt == SpuriousWaits = {} /\ \A k \in Kinds : ~Method[k].makes

\* J sleeps while D works, and D while M does, until they are told.
SleepInv ==
  /\ jPC = "test" /\ ~dukFinished[jobCurrent] => dukMutex[jobCurrent] = "J"
  /\ jPC = "relock" => dukFinished[jobCurrent]
  /\ jPC = "blocked" /\ dukFinished[jobCurrent] => dPC = "notify"
  /\ dPC \notin {"idle", "lock"} => jPC = "blocked" /\ dukCurrent = jobCurrent
  /\ dPC = "notify" => dukFinished[jobCurrent]
  /\ dPC \in {"test", "block"} => nodeMutex[dObj] = "D"
  /\ dPC = "block" => ~nodeFinished[dObj]
  /\ dPC = "relock" => nodeFinished[dObj]
  /\ dPC = "blocked" /\ nodeFinished[dObj] => mPC = "notify"
  /\ mPC \in {"args", "return", "callback", "flag", "stuck", "notify"}
       => dPC = "blocked" /\ mTask.job = dObj
  /\ mPC = "notify" => nodeFinished[dObj]
  /\ mPC # "make"
  /\ Waiting /\ dObj = Nested => Nested \in alive
  /\ mPC = "stuck" => \A i \in DOMAIN normal : normal[i].job \in alive

\* With Prompt, every sleeper is told.
LEMMA SleepStep == ASSUME Prompt PROVE IInv /\ SleepInv /\ [Next]_vars => SleepInv'
<1> SUFFICES ASSUME IInv, SleepInv, [Next]_vars PROVE SleepInv'
  OBVIOUS
<1> USE Facts DEF jVars, dVars, nVars, flags, stack, history
<1>0. Types /\ JobInv /\ DukInv /\ AskInv /\ SleepInv
  BY DEF IInv
<1>1. CASE UNCHANGED vars \/ Quiet
  BY <1>0, <1>1 DEF Quiet, vars, SleepInv, Waiting
<1>2. ASSUME NEW j \in Jobs, NEW k \in Kinds, NEW n \in Method[k].args, Call(j, k, n)
      PROVE  SleepInv'
  BY <1>0, <1>2 DEF Call, J!Submit, SleepInv, Waiting
<1>3. CASE JStart
  BY <1>0, <1>3 DEF JStart, J!Start, SleepInv, DukInv, JWaits, Waiting
<1>4. CASE JSubmit
  <2>1. dPC \in {"idle", "notify"} /\ dPC # "notify"
    BY <1>0, <1>4 DEF JSubmit, DukInv, JWaits, SleepInv
  <2> QED
    BY <1>0, <1>4, <2>1 DEF JSubmit, D!Submit, SleepInv, Waiting, Types
<1>5. CASE JWait
  BY <1>0, <1>5 DEF JWait, SleepInv, Waiting
<1>6. CASE JRelock
  BY <1>0, <1>6 DEF JRelock, SleepInv, Waiting, Types
<1>7. CASE JSettle
  <2>1. dPC = "idle"
    BY <1>0, <1>7 DEF JSettle, DukInv, SleepInv
  <2>2. UNCHANGED <<normal, dPC, mPC, mTask, dObj, nodeFinished, nodeMutex>> /\ jPC' = "idle"
    BY <1>7 DEF JSettle, N!SubmitPriority
  <2> QED
    BY <1>0, <2>1, <2>2 DEF SleepInv, Waiting
<1>8. CASE DStart
  <2>1. dPC' = "lock" /\ dPC = "idle"
        /\ UNCHANGED <<jPC, jobCurrent, flags, mPC, mTask, dObj, normal, alive>>
    BY <1>8 DEF DStart
  <2> QED
    BY <1>0, <2>1 DEF SleepInv, Waiting
<1>9. CASE DLock
  <2>1. jPC = "blocked" /\ dukCurrent = jobCurrent
    BY <1>0, <1>9 DEF DLock, DukInv, JWaits, SleepInv
  <2>2. dPC' = "preArgs" /\ dPC = "lock" /\ UNCHANGED <<jPC, jobCurrent, dukCurrent, dukFinished,
                  nodeMutex, nodeFinished, mPC, mTask, dObj, normal, alive>>
    BY <1>9 DEF DLock
  <2> QED
    BY <1>0, <2>1, <2>2 DEF SleepInv, DukInv, Waiting
<1>10. ASSUME UNCHANGED <<jPC, jobCurrent, dukCurrent, dukMutex, dukFinished, mPC, mTask>>,
              dPC \in {"preArgs", "work", "evalDone"},
              \/ /\ dPC' \in {"work", "finish"}
                 /\ UNCHANGED <<nodeMutex, nodeFinished, dObj, alive, normal>>
              \/ \E o \in {dukCurrent, Nested} :
                   \E f, next : AskNode(o, f, next) /\ (o = Nested => Nested \in alive')
       PROVE  SleepInv'
  <2>1. jPC = "blocked" /\ dukCurrent = jobCurrent /\ ~dukFinished[jobCurrent]
        /\ mPC \notin {"args", "return", "callback", "flag", "stuck", "notify"}
    BY <1>0, <1>10 DEF SleepInv, DukInv
  <2>2. CASE dPC' \in {"work", "finish"}
    BY <1>0, <1>10, <2>1, <2>2 DEF SleepInv, Waiting, AskNode
  <2>3. ASSUME NEW o \in {dukCurrent, Nested}, NEW f, NEW next, AskNode(o, f, next),
               o = Nested => Nested \in alive'
        PROVE  SleepInv'
    <3>1. dPC' = "test" /\ dObj' = o /\ nodeMutex'[o] = "D" /\ ~nodeFinished'[o]
      BY <1>0, <1>10, <2>3 DEF AskNode, Types, Objects
    <3> QED
      BY <1>0, <1>10, <2>1, <2>3, <3>1 DEF SleepInv
  <2> QED
    BY <1>10, <2>2, <2>3
<1>11. CASE DPreArgs
  <2>1. CASE AskNode(dukCurrent, "args", "work")
    BY <1>10, <1>11, <2>1 DEF DPreArgs, AskNode
  <2>2. CASE DGoOn("work")
    BY <1>10, <1>11, <2>2 DEF DPreArgs, DGoOn
  <2> QED
    BY <1>11, <2>1, <2>2 DEF DPreArgs
<1>12. CASE DCallNode
  BY <1>10, <1>12 DEF DCallNode, AskNode
<1>13. CASE DSucceed
  <2>1. \/ AskNode(dukCurrent, "return", "evalDone")
        \/ AskNode(dukCurrent, "return", "finish")
        \/ DGoOn("finish")
    BY <1>13 DEF DSucceed, FetchReturn, Sound
  <2>2. CASE DGoOn("finish")
    BY <1>10, <1>13, <2>2 DEF DSucceed, DGoOn
  <2>3. CASE AskNode(dukCurrent, "return", "evalDone")
    BY <1>10, <1>13, <2>3 DEF DSucceed, AskNode
  <2>4. CASE AskNode(dukCurrent, "return", "finish")
    BY <1>10, <1>13, <2>4 DEF DSucceed, AskNode
  <2> QED
    BY <2>1, <2>2, <2>3, <2>4
<1>14. CASE DFail \/ DEvalDone
  BY <1>10, <1>14 DEF DFail, DEvalDone, DGoOn
<1>15. CASE DTestTrue
  <2>1. dPC' \in {"work", "evalDone", "finish"}
    BY <1>0, <1>15 DEF DTestTrue, AskInv, Waiting, Types
  <2>2. mPC \notin {"args", "return", "callback", "flag", "stuck", "notify"}
    BY <1>0, <1>15 DEF DTestTrue, SleepInv
  <2> QED
    BY <1>0, <1>15, <2>1, <2>2 DEF DTestTrue, SleepInv, Waiting
<1>16. CASE DTestFalse \/ DBlock \/ DRelock
  <2>1. UNCHANGED <<jPC, jobCurrent, dukCurrent, dukMutex, dukFinished, mPC, mTask, dObj,
                    nodeFinished, normal, alive>>
        /\ dPC \in {"test", "block", "relock"}
    BY <1>16 DEF DTestFalse, DBlock, DRelock, DWaiting
  <2>2. \/ dPC = "test" /\ dPC' = "block" /\ ~nodeFinished[dObj] /\ nodeMutex' = nodeMutex
        \/ dPC = "block" /\ dPC' = "blocked"
        \/ dPC = "relock" /\ dPC' = "test" /\ nodeMutex'[dObj] = "D"
    BY <1>0, <1>16, <2>1 DEF DTestFalse, DBlock, DRelock, DWaiting, Types
  <2> QED
    BY <1>0, <2>1, <2>2 DEF SleepInv, Waiting
<1>17. CASE DFinish
  <2>1. jPC = "blocked" /\ dukCurrent = jobCurrent /\ dPC' = "notify" /\ dPC = "finish"
        /\ UNCHANGED <<jPC, jobCurrent, dukCurrent, mPC, mTask, dObj, nodeFinished, nodeMutex,
                       alive, normal>>
    BY <1>0, <1>17 DEF DFinish, SleepInv
  <2>2. dukFinished'[jobCurrent]
    BY <1>0, <1>17, <2>1 DEF DFinish, Types
  <2> QED
    BY <1>0, <2>1, <2>2 DEF SleepInv, Waiting
<1>18. CASE DNotify
  <2>1. jPC = "blocked" /\ dukCurrent = jobCurrent /\ dPC' = "idle" /\ dPC = "notify"
        /\ jPC' = "relock"
        /\ UNCHANGED <<jobCurrent, dukFinished, mPC, mTask, dObj, nodeFinished, nodeMutex>>
    BY <1>0, <1>18 DEF DNotify, D!Finish, SleepInv
  <2>2. dukFinished[jobCurrent]
    BY <1>0, <2>1 DEF SleepInv
  <2> QED
    BY <1>0, <2>1, <2>2 DEF SleepInv, Waiting
<1>19. ASSUME UNCHANGED <<jVars, dVars, jPC, dPC, dObj, dNext, dukMutex, dukFinished, alive>>,
              nodeMutex' = nodeMutex \/ dPC = "blocked",
              nodeFinished' = nodeFinished \/ (mPC' = "notify" /\ dPC = "blocked"
                                                 /\ nodeFinished'[dObj]),
              mPC' \in {"args", "return", "callback", "flag", "stuck", "notify"}
                => dPC = "blocked" /\ mTask'.job = dObj,
              mPC' = "notify" => nodeFinished'[dObj],
              mPC = "notify" => mPC' = "notify",
              mPC' # "make",
              mPC' = "stuck" => \A i \in DOMAIN normal' : normal'[i].job \in alive
       PROVE  SleepInv'
  BY <1>0, <1>19 DEF SleepInv, Waiting
<1>20. CASE Pick
  <2>1. mPC = "loop"
    BY <1>0, <1>20 DEF Pick, N!Pick, AskInv
  <2> QED
    BY <1>19, <1>20, <2>1 DEF Pick
<1>21. CASE MBegin
  <2>1. mPC' \in {"settle", "lock"}
    <3>1. CASE picked.func = "return"
      <4>1. picked.job = dukCurrent /\ Waiting
        BY <1>0, <1>21, <3>1 DEF MBegin, N!Run, AskInv, Asked
      <4>2. job[picked.job].kind \in Kinds
        BY <4>1 DEF Waiting
      <4> QED
        BY <1>21, <3>1, <4>2 DEF MBegin, Prompt
    <3>2. CASE picked.func # "return"
      BY <1>21, <3>2 DEF MBegin
    <3> QED
      BY <3>1, <3>2
  <2> QED
    BY <1>19, <1>21, <2>1 DEF MBegin
<1>22. CASE MLock
  <2>1. Asked(mTask) /\ mTask.job = dObj /\ mPC = "lock"
    BY <1>0, <1>22 DEF MLock, AskInv, InTask, Asked
  <2>2. dPC = "blocked"
    BY <1>0, <1>22, <2>1 DEF MLock, SleepInv, Asked, Waiting
  <2>3. mPC' \in {"args", "return", "callback"}
    BY <1>0, <1>22, <2>1 DEF MLock, AskInv, Asked, Task
  <2> QED
    BY <1>19, <1>22, <2>1, <2>2, <2>3 DEF MLock
<1>23. CASE MArgs \/ MCallbackDone
  <2>1. dPC = "blocked" /\ mTask.job = dObj /\ dObj \in Objects
    BY <1>0, <1>23 DEF MArgs, MCallbackDone, SleepInv, Waiting
  <2>2. nodeFinished'[dObj]
    BY <1>0, <1>23, <2>1 DEF MArgs, MCallbackDone, SetAndUnlock, Types
  <2> QED
    BY <1>19, <1>23, <2>1, <2>2 DEF MArgs, MCallbackDone, SetAndUnlock
<1>24. CASE MReturn \/ MReturnThrows
  <2>1. dPC = "blocked" /\ mTask.job = dObj
    BY <1>0, <1>24 DEF MReturn, MReturnThrows, SleepInv
  <2> QED
    BY <1>19, <1>24, <2>1 DEF MReturn, MReturnThrows
<1>25. CASE MReturnSettled
  <2>1. dPC = "blocked" /\ mTask.job = dObj /\ normal = << >>
    BY <1>0, <1>25 DEF MReturnSettled, SleepInv, AskInv, InTask
  <2>2. normal' = <<[job |-> Stuck, func |-> "marshal"]>>
    BY <1>25, <2>1 DEF MReturnSettled, N!Submit
  <2>3. \A i \in DOMAIN normal' : normal'[i].job = Stuck
    BY <2>2
  <2> QED
    BY <1>0, <1>25, <2>1, <2>3 DEF MReturnSettled, SleepInv, Waiting
<1>26. CASE MMake
  BY <1>0, <1>26 DEF MMake, SleepInv
<1>27. CASE MFlag
  <2>1. dPC = "blocked" /\ mTask.job = dObj /\ dObj \in Objects
    BY <1>0, <1>27 DEF MFlag, SleepInv, Waiting
  <2>2. nodeFinished'[dObj]
    BY <1>0, <1>27, <2>1 DEF MFlag, Types
  <2> QED
    BY <1>19, <1>27, <2>1, <2>2 DEF MFlag
<1>28. CASE MNotify
  <2>1. dPC = "blocked" /\ mTask.job = dObj /\ nodeFinished[dObj] /\ dPC' = "relock"
        /\ mPC' = "loop" /\ mPC = "notify"
        /\ UNCHANGED <<jVars, dVars, jPC, dObj, dNext, flags, alive>>
    BY <1>0, <1>28 DEF MNotify, SleepInv
  <2> QED
    BY <1>0, <2>1 DEF SleepInv, Waiting
<1>29. CASE MSettle
  BY <1>19, <1>29 DEF MSettle
<1>30. CASE SpuriousWakeup
  BY <1>30 DEF SpuriousWakeup, Prompt
<1> QED
  BY <1>1, <1>2, <1>3, <1>4, <1>5, <1>6, <1>7, <1>8, <1>9, <1>11, <1>12, <1>13, <1>14,
     <1>15, <1>16, <1>17, <1>18, <1>20, <1>21, <1>22, <1>23, <1>24, <1>25, <1>26, <1>27,
     <1>28, <1>29, <1>30 DEF Next, SomeCall, JStep, DStep, MStep

\* Nobody sleeps through an answer, in any of the places where D waits for the node
\* thread or J for D, if waits return only when notified and no return value is made
\* outside the lock (AsyncJob.cpp:114, 149, 170, 237).
THEOREM AnswersHeard == ASSUME Prompt PROVE SafeSpec => []NoLostAnswer
<1>1. Init => SleepInv
  BY DEF Init, SleepInv, Waiting
<1>2. IInv /\ SleepInv => NoLostAnswer
  BY DEF IInv, DukInv, JWaits, SleepInv, NoLostAnswer
<1> QED
  BY <1>1, <1>2, SleepStep, Invariance, PTL DEF SafeSpec

\* And nobody uses an AsyncJob that J has deleted (AsyncJob.cpp:241-247).
THEOREM DeletedUnused == ASSUME Prompt PROVE SafeSpec => []NoUseAfterDelete
<1>1. Init => SleepInv
  BY DEF Init, SleepInv, Waiting
<1>2. IInv /\ SleepInv => NoUseAfterDelete
  <2> SUFFICES ASSUME IInv, SleepInv PROVE NoUseAfterDelete
    OBVIOUS
  <2>1. jPC # "idle" => jobCurrent \in alive
    BY DEF IInv, JobInv
  <2>2. dPC # "idle" => dukCurrent \in alive
    BY <2>1, Facts DEF SleepInv
  <2>3. dObj # NoJob => dObj \in alive
    BY <2>2 DEF IInv, AskInv, SleepInv, Waiting
  <2>4. mPC \notin {"loop", "settle"} => mTask.job \in alive
    <3>1. Waiting => dObj \in alive
      BY <2>2, <2>3 DEF IInv, AskInv, SleepInv, Waiting
    <3>2. mPC \in InTask \cup {"notify"} => mTask.job = dObj /\ Waiting
      BY DEF IInv, AskInv, Asked, SleepInv, InTask, Waiting
    <3>3. mPC \in InTask \cup {"notify", "loop", "settle"}
      BY DEF IInv, Types, InTask
    <3> QED
      BY <3>1, <3>2, <3>3
  <2>5. \A i \in 1 .. Len(normal) : normal[i].job \in alive
    <3>1. DOMAIN normal = 1 .. Len(normal) /\ Len(normal) \in Nat
      BY DEF IInv, Types
    <3>2. CASE mPC = "stuck"
      BY <3>1, <3>2 DEF SleepInv
    <3>3. CASE mPC # "stuck" /\ normal # << >>
      <4>1. Len(normal) = 1 /\ Asked(normal[1])
        BY <3>3 DEF IInv, AskInv
      <4>2. normal[1].job \in alive
        BY <2>2, <2>3, <4>1 DEF Asked, IInv, AskInv, SleepInv, Waiting
      <4> QED
        BY <4>1, <4>2
    <3>4. CASE normal = << >>
      BY <3>4
    <3> QED
      BY <3>2, <3>3, <3>4
  <2> QED
    BY <2>1, <2>2, <2>3, <2>4, <2>5 DEF NoUseAfterDelete
<1> QED
  BY <1>1, <1>2, SleepStep, Invariance, PTL DEF SafeSpec

================================================================================
