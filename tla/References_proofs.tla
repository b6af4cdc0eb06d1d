--------------------------- MODULE References_proofs ---------------------------
(***************************************************************************)
(* Safety of References for any number of objects, functions and           *)
(* callbacks, any length of D's queue and both contexts.                   *)
(***************************************************************************)
EXTENDS References, SequenceTheorems, TLAPS

MakeOps  == {"createObject", "getObject"}
DerefOps == {"derefObject", "derefCallback"}

\* Job j finds its object or function by handle h; it takes h back.
FindsBy(j, h) == \/ j.op \in {"setProperty", "deleteMethod", "runCallback"} /\ j.target = h
                 \/ j.op = "createObject" /\ j.arg = h
Derefs(j, h)  == j.op \in DerefOps /\ j.target = h

\* A job's operands.
Operands(j) ==
  /\ j.op # "addCallback"
  /\ j.op = "setProperty"  => j.target \in Handles /\ j.arg \in Functions \ (fresh \cup functions)
  /\ j.op = "createObject" => j.target \in Objects \ heap /\ j.arg \in Handles
  /\ j.op = "getObject"    => j.target = Global
  /\ j.op \in {"deleteMethod", "derefObject"} => j.target \in Handles
  /\ j.op = "deleteChild"  => j.target \in Objects

\* A job that gives a handle to the program or takes it back is the only one that
\* has to do with it, and the handle is not the program's meanwhile.
Transit(j) ==
  j.op \in MakeOps \cup DerefOps =>
    j.target \notin fresh \cup wrappers /\ (answer # None => answer.target # j.target)

Resolves(j) == \A h \in Handles \cup Callbacks : FindsBy(j, h) => h \in stash

JobInv(j) == Operands(j) /\ Transit(j) /\ Resolves(j)

\* What an earlier job has to do with a later one.
Apart(j, l) ==
  /\ {j.op, l.op} \subseteq MakeOps \cup DerefOps => j.target # l.target
  /\ j.op = "setProperty" /\ l.op = "setProperty" => j.arg # l.arg
  /\ \A h \in Handles \cup Callbacks : ~(Derefs(j, h) /\ FindsBy(l, h))

QueueInv ==
  /\ \A i \in DOMAIN jobs : JobInv(jobs[i])
  /\ \A i, k \in DOMAIN jobs : i < k => Apart(jobs[i], jobs[k])

\* What an unfinished method of a Context has left to do, and what M has for D.
WorkInv ==
  /\ async => rest = None
  /\ ~async => jobs = << >> /\ answer = None
  /\ answer # None => /\ answer.op \in MakeOps /\ answer.target \in Handles
                      /\ answer.target \in stash \ (fresh \cup wrappers)
  /\ rest # None =>
       /\ rest.op \in {"addCallback"} \cup MakeOps \cup DerefOps
       /\ rest.op = "addCallback" => rest.target \in wrappers \cap Handles
       /\ rest.op \in MakeOps => rest.target \in (Handles \cap stash) \ (fresh \cup wrappers)
       /\ rest.op \in DerefOps => rest.target \notin fresh \cup wrappers
       /\ rest.op = "derefObject" => rest.target \in Handles

\* A wrapper's handle is in use and in the stash.
HandleInv ==
  /\ wrappers \subseteq stash /\ wrappers \cap fresh = {}
  /\ Usable \subseteq wrappers
  /\ heap \cap fresh \subseteq {Global}
  /\ \A o \in Handles : method[o] # None => o \in heap

\* The function that a Context's setProperty has made but not registered yet
Adding == IF rest # None /\ rest.op = "addCallback" THEN {rest.arg} ELSE {}

\* The functions that D will make
ToMake == {jobs[i].arg : i \in {k \in DOMAIN jobs : jobs[k].op = "setProperty"}}

\* The objects that D will create
ToCreate == {jobs[i].target : i \in {k \in DOMAIN jobs : jobs[k].op = "createObject"}}

\* The functions registered are those made or to be made, and they alone are kept alive.
Registered ==
  /\ nodeCallbacks \subseteq functions \cup ToMake
  /\ \A f \in Functions : persistent[f] = "strong" <=> f \in nodeCallbacks \cup Adding

\* Nothing is known of a function that has not been set yet.
Unknown ==
  \A f \in fresh \cap Functions :
    /\ f \notin functions \cup nodeCallbacks /\ persistent[f] = "none"
    /\ \A h \in DOMAIN objects : f \notin objects[h]

\* A Context registers a function for the object that has it as a method.
AddingInv ==
  rest # None /\ rest.op = "addCallback" =>
    /\ rest.arg \in functions \ (nodeCallbacks \cup fresh)
    /\ method[rest.target] = rest.arg
    /\ \A o \in Handles : method[o] = rest.arg => o = rest.target

\* A function is registered, or about to be, from when it is made on, unless cleanRefs
\* has dropped it or, in a Context, no live object has it as a method any more.
\* There, only the object that it is a method of lists it.
AsyncFound == async => functions \cup ToMake \subseteq nodeCallbacks \cup cleaned
SyncFound ==
  ~async =>
    /\ LiveMethods \ cleaned \subseteq nodeCallbacks \cup Adding
    /\ \A h \in DOMAIN objects, o \in Handles : method[o] \in objects[h] => o = h

\* So is a function that is being called.
CallInv ==
  inCall # None /\ (async \/ inCall.this # None) =>
    /\ inCall.f \in nodeCallbacks
    /\ ~async => \A h \in DOMAIN objects : inCall.f \in objects[h] => h = inCall.this

FunctionInv == Registered /\ Unknown /\ AddingInv /\ AsyncFound /\ SyncFound /\ CallInv

IInv == TypeOK /\ WorkInv /\ QueueInv /\ HandleInv /\ FunctionInv /\ CountExact

USE ReferencesAssumption, NoneAssumption

--------------------------------------------------------------------------------
(* Lemmas.                                                                    *)

\* Garbage is objects only, none of them a root or the child of a live object.
LEMMA GarbageFacts ==
  ASSUME TypeOK
  PROVE  /\ Garbage \subseteq (heap \ Roots) \cap Objects
         /\ \A o \in Garbage : parent[o] \in Garbage \cup {None}
BY DEF TypeOK, Garbage, Roots, Handles

\* What is garbage stays so if none of it becomes a root or another's child.
LEMMA GarbageStays ==
  ASSUME TypeOK,
         Garbage \subseteq heap' \ Roots',
         \A o \in Garbage : parent'[o] \in Garbage \cup {None}
  PROVE  Garbage \subseteq Garbage'
<1> DEFINE S == Garbage
<1>1. S \in SUBSET (heap' \ Roots') /\ \A o \in S : parent'[o] \in S \cup {None}
  OBVIOUS
<1> HIDE DEF S
<1>2. S \subseteq Garbage'
  BY <1>1 DEF Garbage
<1> QED
  BY <1>2 DEF S

\* Then no method becomes a live object's.
LEMMA LiveMethodsShrink ==
  ASSUME TypeOK,
         Garbage \subseteq heap' \ Roots',
         \A o \in Garbage : parent'[o] \in Garbage \cup {None},
         \A o \in heap' : method'[o] = None \/ (o \in heap /\ method'[o] = method[o])
  PROVE  LiveMethods' \subseteq LiveMethods
<1>1. Garbage \subseteq Garbage'
  BY GarbageStays
<1> QED
  BY <1>1 DEF LiveMethods

\* Usable wrappers come only from the program's variables, or from a closure that
\* becomes reachable.
LEMMA UsableGrows ==
  ASSUME NEW W, held' \subseteq held \cup W,
         \A f \in Functions : persistent'[f] = "strong" =>
            \/ captures'[f] \subseteq W
            \/ persistent[f] = "strong" /\ captures'[f] = captures[f]
  PROVE  Usable' \subseteq Usable \cup W
BY DEF Usable

\* The queue when a job is appended.
LEMMA Appended ==
  ASSUME NEW S, NEW s \in Seq(S), NEW e \in S
  PROVE  /\ Append(s, e) \in Seq(S)
         /\ DOMAIN Append(s, e) = DOMAIN s \cup {Len(s) + 1}
         /\ \A i \in DOMAIN s : Append(s, e)[i] = s[i] /\ i < Len(s) + 1
         /\ Append(s, e)[Len(s) + 1] = e
         /\ DOMAIN s \subseteq Nat /\ Len(s) \in Nat
BY AppendProperties

\* The queue when its first job is taken.
LEMMA Taken ==
  ASSUME NEW S, NEW s \in Seq(S), s # << >>
  PROVE  /\ Tail(s) \in Seq(S)
         /\ Head(s) = s[1] /\ 1 \in DOMAIN s /\ Head(s) \in S
         /\ \A i \in DOMAIN Tail(s) : Tail(s)[i] = s[i + 1] /\ i + 1 \in DOMAIN s /\ 1 < i + 1 /\ i \in Nat
         /\ \A i \in DOMAIN s : i = 1 \/ (i - 1 \in DOMAIN Tail(s) /\ s[i] = Tail(s)[i - 1])
<1>1. Len(s) \in Nat /\ Len(s) # 0 /\ DOMAIN s = 1 .. Len(s) /\ \A i \in 1 .. Len(s) : s[i] \in S
  BY EmptySeq
<1>2. Tail(s) \in Seq(S) /\ Len(Tail(s)) = Len(s) - 1 /\ \A i \in 1 .. Len(s) - 1 : Tail(s)[i] = s[i + 1]
  BY HeadTailProperties
<1>3. DOMAIN Tail(s) = 1 .. Len(s) - 1
  BY <1>2
<1>4. Head(s) = s[1]
  BY HeadTailProperties
<1> QED
  BY <1>1, <1>2, <1>3, <1>4

\* Identifiers are used up, wrappers collected, functions and objects finalized.
Onward ==
  /\ fresh' \subseteq fresh /\ functions' \subseteq functions /\ heap' \subseteq heap
  /\ stash \subseteq stash' /\ wrappers' \subseteq wrappers \cup fresh
  /\ answer' = answer \/ answer' = None

\* A job stays as it should be while identifiers are used up and wrappers collected.
LEMMA JobKept ==
  ASSUME NEW CONSTANT j, JobInv(j),
         Onward
  PROVE  JobInv(j)'
<1>1. Operands(j)'
  BY DEF JobInv, Operands, Onward
<1>2. Transit(j)'
  BY DEF JobInv, Transit, Onward
<1>3. Resolves(j)'
  BY DEF JobInv, Resolves, FindsBy, Onward
<1> QED
  BY <1>1, <1>2, <1>3 DEF JobInv

\* So do all jobs of the queue.
LEMMA QueueKept ==
  ASSUME QueueInv, jobs' = jobs,
         Onward
  PROVE  QueueInv' /\ ToMake' = ToMake /\ ToCreate' = ToCreate
<1>1. ASSUME NEW i \in DOMAIN jobs'
      PROVE  JobInv(jobs[i])'
  <2>1. PICK j : j = jobs[i]
    OBVIOUS
  <2>2. JobInv(j)
    BY <2>1 DEF QueueInv
  <2>3. JobInv(j)'
    BY <2>2, JobKept
  <2>4. j = jobs'[i]
    BY <2>1
  <2> QED
    BY <2>3, <2>4 DEF JobInv, Operands, Transit, Resolves, FindsBy
<1>2. \A i, k \in DOMAIN jobs' : i < k => Apart(jobs'[i], jobs'[k])
  BY DEF QueueInv
<1>3. QueueInv'
  BY <1>1, <1>2 DEF QueueInv, Apart, Derefs, FindsBy
<1> QED
  BY <1>3 DEF ToMake, ToCreate

\* A method appends its job: what the job gives, takes back or uses is unused or the
\* program's until now.
LEMMA QueueGrows ==
  ASSUME TypeOK, QueueInv, NEW CONSTANT e \in JobType, jobs' = Append(jobs, e),
         Onward,
         JobInv(e)',
         e.op \in MakeOps \cup DerefOps => e.target \in fresh \cup wrappers,
         e.op = "setProperty" => e.arg \in fresh,
         \A h \in Handles \cup Callbacks : FindsBy(e, h) => h \in wrappers
  PROVE  /\ QueueInv' /\ jobs' \in Seq(JobType)
         /\ ToMake' = ToMake \cup (IF e.op = "setProperty" THEN {e.arg} ELSE {})
         /\ ToCreate' = ToCreate \cup (IF e.op = "createObject" THEN {e.target} ELSE {})
<1> DEFINE n == Len(jobs) + 1
<1>1. /\ jobs' \in Seq(JobType)
      /\ DOMAIN jobs' = DOMAIN jobs \cup {n} /\ jobs'[n] = e
      /\ \A i \in DOMAIN jobs : jobs'[i] = jobs[i] /\ i < n
      /\ DOMAIN jobs \subseteq Nat /\ n \in Nat
  BY Appended DEF TypeOK
<1> HIDE DEF n
<1>2. ASSUME NEW i \in DOMAIN jobs'
      PROVE  JobInv(jobs[i])'
  <2>1. PICK j : j = jobs'[i]
    OBVIOUS
  <2>2. CASE i \in DOMAIN jobs
    <3>1. JobInv(j)
      BY <1>1, <2>1, <2>2 DEF QueueInv
    <3>2. JobInv(j)'
      BY <3>1, JobKept
    <3> QED
      BY <2>1, <3>2 DEF JobInv, Operands, Transit, Resolves, FindsBy
  <2>3. CASE i = n
    BY <1>1, <2>3 DEF JobInv, Operands, Transit, Resolves, FindsBy
  <2> QED
    BY <1>1, <2>2, <2>3
<1>3. ASSUME NEW i \in DOMAIN jobs', NEW k \in DOMAIN jobs', i < k
      PROVE  Apart(jobs'[i], jobs'[k])
  <2>1. CASE k \in DOMAIN jobs
    <3>1. i \in DOMAIN jobs
      BY <1>1, <1>3, <2>1
    <3> QED
      BY <1>1, <1>3, <2>1, <3>1 DEF QueueInv
  <2>2. CASE k = n
    <3>1. i \in DOMAIN jobs
      BY <1>1, <1>3, <2>2
    <3>2. PICK j : j = jobs[i]
      OBVIOUS
    <3>3. JobInv(j)
      BY <3>1, <3>2 DEF QueueInv
    <3>4. Apart(j, e)
      BY <3>3 DEF JobInv, Operands, Transit, Apart, Derefs
    <3> QED
      BY <1>1, <2>2, <3>1, <3>2, <3>4
  <2> QED
    BY <1>1, <2>1, <2>2
<1>4. QueueInv'
  BY <1>2, <1>3 DEF QueueInv, Apart, Derefs, FindsBy
<1>5. ToMake' = ToMake \cup (IF e.op = "setProperty" THEN {e.arg} ELSE {})
  BY <1>1 DEF ToMake
<1>6. ToCreate' = ToCreate \cup (IF e.op = "createObject" THEN {e.target} ELSE {})
  BY <1>1 DEF ToCreate
<1> QED
  BY <1>1, <1>4, <1>5, <1>6

\* A Context has no queue.
LEMMA NoQueue ==
  ASSUME jobs' = << >>
  PROVE  QueueInv' /\ jobs' \in Seq(JobType)
BY DEF QueueInv

\* The functions stay as they should be when nothing is registered, released or made.
LEMMA FunctionsKept ==
  ASSUME TypeOK, FunctionInv,
         UNCHANGED <<functions, nodeCallbacks, persistent, cleaned, async>>,
         ToMake' = ToMake, Adding' = Adding, fresh' \subseteq fresh,
         \A h \in DOMAIN objects' : objects'[h] = {} \/ (h \in DOMAIN objects /\ objects'[h] = objects[h]),
         rest' # None /\ rest'.op = "addCallback" => rest' = rest /\ method' = method,
         \A o \in Handles : method'[o] = None \/ method'[o] = method[o],
         ~async => LiveMethods' \subseteq LiveMethods,
         inCall' = None \/ inCall' = inCall
  PROVE  FunctionInv'
<1> USE DEF FunctionInv
<1>1. Registered' /\ Unknown'
  BY DEF Registered, Unknown
<1>2. AddingInv'
  BY DEF AddingInv, Unknown
<1>3. AsyncFound'
  BY DEF AsyncFound
<1>4. SyncFound'
  <2>1. \A h \in DOMAIN objects : None \notin objects[h]
    BY DEF TypeOK
  <2> QED
    BY <2>1 DEF SyncFound
<1>5. CallInv'
  BY DEF CallInv
<1> QED
  BY <1>1, <1>2, <1>3, <1>4, <1>5

\* What CountExact counts.
Counted(h) ==
  \/ h \in wrappers \cap Handles
  \/ h \in ToCreate
  \/ answer # None /\ answer.op = "createObject" /\ h = answer.target
  \/ rest # None /\ rest.op = "derefObject" /\ h = rest.target

\* CountExact, handle by handle.
LEMMA CountIs ==
  /\ CountExact <=> \A h : h \in DOMAIN objects <=> Counted(h)
  /\ CountExact' <=> \A h : h \in DOMAIN objects' <=> Counted(h)'
<1> DEFINE creating  == IF answer # None /\ answer.op = "createObject" THEN {answer.target} ELSE {}
           dropping  == IF rest # None /\ rest.op = "derefObject" THEN {rest.target} ELSE {}
           All       == (wrappers \cap Handles) \cup ToCreate \cup creating \cup dropping
<1>1. (CountExact <=> DOMAIN objects = All) /\ (CountExact' <=> DOMAIN objects' = All')
  BY DEF CountExact, ToCreate
<1>2. \A h : (h \in All <=> Counted(h)) /\ (h \in All' <=> Counted(h)')
  BY DEF Counted
<1> HIDE DEF All
<1>3. ASSUME NEW D, NEW E
      PROVE  D = E <=> \A h : h \in D <=> h \in E
  OBVIOUS
<1> QED
  BY <1>1, <1>2, <1>3

\* A set with one of its members is the set.
LEMMA WithMember ==
  ASSUME NEW S, NEW x \in S
  PROVE  S \cup {x} = S
OBVIOUS

--------------------------------------------------------------------------------
(* The program's calls.                                                       *)

\* The specification starts with the invariant.
LEMMA Start ==
  ASSUME Init
  PROVE  IInv
<1>1. TypeOK /\ WorkInv /\ QueueInv /\ HandleInv /\ CountExact
  BY DEF Init, TypeOK, WorkInv, QueueInv, HandleInv, CountExact, Usable, Handles
<1>2. FunctionInv
  BY DEF Init, FunctionInv, Registered, Unknown, AddingInv, AsyncFound, SyncFound, CallInv,
            LiveMethods, Adding, ToMake, Handles
<1> QED
  BY <1>1, <1>2 DEF IInv

\* What the program can use it has a wrapper of, and is in the stash.
LEMMA UsableFacts ==
  ASSUME IInv, NEW o \in Usable
  PROVE  /\ o \in wrappers /\ o \in stash /\ o \notin fresh
         /\ o \in Handles => o \in heap /\ o \in DOMAIN objects
BY DEF IInv, HandleInv, TypeOK, CountExact, Handles

\* SetProperty preserves the invariant.
LEMMA SetPropertyKeeps ==
  ASSUME IInv, NEW o \in Handles, NEW f \in Functions, NEW closure \in SUBSET {o},
         SetProperty(o, f, closure)
  PROVE  IInv'
<1> USE DEF Job
<1>0. /\ o \in wrappers /\ o \in stash /\ o \in heap /\ o \in DOMAIN objects /\ o \notin fresh
      /\ f \in fresh /\ f \notin functions \cup nodeCallbacks /\ persistent[f] = "none"
      /\ \A h \in DOMAIN objects : f \notin objects[h]
      /\ rest = None /\ (async => inCall = None)
  BY UsableFacts DEF SetProperty, IInv, FunctionInv, Unknown, MFree
<1>1. /\ persistent' = [persistent EXCEPT ![f] = "strong"]
      /\ captures' = [captures EXCEPT ![f] = closure]
      /\ fresh' = fresh \ {f}
      /\ UNCHANGED <<wrappers, held, dukCallbacks, answer, inCall, cleaned, async>>
  BY DEF SetProperty, NewFunction
<1>2. Usable' \subseteq wrappers'
  <2>1. Usable' \subseteq Usable \cup wrappers
    BY <1>0, <1>1, UsableGrows DEF IInv, TypeOK
  <2> QED
    BY <1>1, <2>1 DEF IInv, HandleInv
<1>3. CASE async
  <2>1. /\ addCallbackFromNode(o, f) /\ UNCHANGED <<heapVars, rest>>
        /\ jobs' = Append(jobs, Job("setProperty", o, f))
        /\ UNCHANGED <<heap, functions, stash>>
    BY <1>3 DEF SetProperty, heapVars
  <2>2. PICK e \in JobType : /\ e.op = "setProperty" /\ e.target = o /\ e.arg = f
                             /\ jobs' = Append(jobs, e)
    <3>1. Job("setProperty", o, f) \in JobType
      BY DEF JobType
    <3> QED
      BY <2>1, <3>1
  <2>3. JobInv(e)'
    BY <1>0, <1>1, <2>1, <2>2 DEF JobInv, Operands, Transit, Resolves, FindsBy, MakeOps, DerefOps
  <2>4. QueueInv' /\ jobs' \in Seq(JobType) /\ ToMake' = ToMake \cup {f} /\ ToCreate' = ToCreate
    <3>1. \A h \in Handles \cup Callbacks : FindsBy(e, h) => h \in wrappers
      BY <1>0, <2>2 DEF FindsBy
    <3>2. e.op \notin MakeOps \cup DerefOps /\ e.arg \in fresh
      BY <1>0, <2>2 DEF MakeOps, DerefOps
    <3>3. Onward
      BY <1>1, <2>1 DEF Onward
    <3>4. TypeOK /\ QueueInv
      BY DEF IInv
    <3> QED
      BY <2>2, <2>3, <3>1, <3>2, <3>3, <3>4, QueueGrows
  <2>5. TypeOK'
    BY <1>0, <1>1, <2>1, <2>4 DEF IInv, TypeOK, addCallbackFromNode, heapVars
  <2>6. WorkInv'
    BY <1>0, <1>1, <1>3, <2>1 DEF IInv, WorkInv, heapVars
  <2>7. HandleInv'
    BY <1>0, <1>1, <1>2, <2>1 DEF IInv, HandleInv, heapVars
  <2>8. FunctionInv'
    <3> USE <1>0, <1>1, <1>3, <2>1, <2>4 DEF IInv, FunctionInv, addCallbackFromNode, heapVars
    <3>1. Registered' /\ AddingInv'
      BY DEF Registered, AddingInv, Adding, TypeOK
    <3>2. Unknown'
      BY DEF Unknown, TypeOK
    <3>3. AsyncFound' /\ SyncFound' /\ CallInv'
      BY DEF AsyncFound, SyncFound, CallInv
    <3> QED
      BY <3>1, <3>2, <3>3
  <2>9. CountExact'
    BY <1>0, <1>1, <2>1, <2>4, CountIs DEF IInv, Counted, addCallbackFromNode
  <2> QED
    BY <2>4, <2>5, <2>6, <2>7, <2>8, <2>9 DEF IInv
<1>4. CASE ~async
  <2>1. /\ PutFunction(o, f) /\ rest' = Job("addCallback", o, f)
        /\ UNCHANGED <<nodeCallbacks, objects, jobs>>
    BY <1>4 DEF SetProperty
  <2>2. Job("addCallback", o, f) \in JobType /\ rest' # None
    BY <2>1 DEF JobType
  <2>3. jobs = << >> /\ answer = None
    BY <1>4 DEF IInv, WorkInv
  <2>4. QueueInv' /\ jobs' \in Seq(JobType) /\ ToMake' = ToMake /\ ToCreate' = ToCreate
    BY <2>1, <2>3, NoQueue DEF ToMake, ToCreate
  <2>5. TypeOK'
    BY <1>0, <1>1, <2>1, <2>2, <2>4 DEF IInv, TypeOK, PutFunction
  <2>6. WorkInv'
    BY <1>0, <1>1, <1>4, <2>1, <2>3 DEF IInv, WorkInv, PutFunction, MakeOps, DerefOps
  <2>7. HandleInv'
    BY <1>0, <1>1, <1>2, <2>1 DEF IInv, HandleInv, PutFunction, TypeOK
  <2>8. FunctionInv'
    <3>1. LiveMethods' \subseteq LiveMethods \cup {f}
      BY <1>1, <2>1 DEF LiveMethods, PutFunction, Garbage, Roots, IInv, TypeOK
    <3>2. Adding = {} /\ Adding' = {f}
      BY <1>0, <2>1, <2>2 DEF Adding
    <3> USE <1>0, <1>1, <1>4, <2>1, <2>4, <3>2 DEF IInv, FunctionInv, PutFunction
    <3>3. Registered' /\ Unknown'
      BY DEF Registered, Unknown, TypeOK
    <3>4. AddingInv' /\ CallInv'
      BY DEF AddingInv, CallInv, TypeOK
    <3>5. AsyncFound' /\ SyncFound'
      BY <3>1 DEF AsyncFound, SyncFound, TypeOK
    <3> QED
      BY <3>3, <3>4, <3>5
  <2>9. CountExact'
    BY <1>0, <1>1, <2>1, <2>4, CountIs DEF IInv, Counted
  <2> QED
    BY <2>4, <2>5, <2>6, <2>7, <2>8, <2>9 DEF IInv
<1> QED
  BY <1>3, <1>4

\* Deleting a method or a child makes no more methods live and keeps the objects' books.
LEMMA HeapShrinks ==
  ASSUME IInv, NEW o \in Handles,
         \/ DeleteMethod(o)
         \/ o \in Objects /\ DeleteChild(o),
         UNCHANGED <<managerVars, nodeVars, cleaned, async, jobs, answer>>,
         rest = None /\ rest' = None, inCall' = inCall
  PROVE  IInv'
<1>1. /\ UNCHANGED <<heap, functions, scriptVars, stash, nodeCallbacks, objects, dukCallbacks,
                     persistent, fresh, wrappers, held, captures>>
      /\ \A x \in Handles : method'[x] \in {method[x], None}
      /\ \A x \in Objects : parent'[x] \in {parent[x], None}
  BY DEF DeleteMethod, DeleteChild, managerVars, nodeVars, IInv, TypeOK
<1>2. TypeOK'
  BY <1>1 DEF IInv, TypeOK, DeleteMethod, DeleteChild
<1>3. WorkInv'
  BY <1>1 DEF IInv, WorkInv
<1>4. QueueInv' /\ ToMake' = ToMake /\ ToCreate' = ToCreate
  BY <1>1, QueueKept DEF IInv, Onward
<1>5. HandleInv'
  BY <1>1 DEF IInv, HandleInv, Usable
<1>6. LiveMethods' \subseteq LiveMethods
  <2>1. Garbage \subseteq heap' \ Roots' /\ \A x \in Garbage : parent'[x] \in Garbage \cup {None}
    BY <1>1, GarbageFacts DEF Roots, IInv
  <2>2. \A x \in heap' : method'[x] = None \/ (x \in heap /\ method'[x] = method[x])
    BY <1>1 DEF IInv, TypeOK
  <2> QED
    BY <2>1, <2>2, LiveMethodsShrink DEF IInv
<1>7. FunctionInv'
  BY <1>1, <1>4, <1>6, FunctionsKept DEF IInv, Adding
<1>8. CountExact'
  BY <1>1, <1>4, CountIs DEF IInv, Counted
<1> QED
  BY <1>2, <1>3, <1>4, <1>5, <1>7, <1>8 DEF IInv

\* An AsyncContext's method that only appends a job preserves the invariant.
LEMMA OnlyAppends ==
  ASSUME IInv, async, NEW CONSTANT e \in JobType, jobs' = Append(jobs, e),
         UNCHANGED <<heapVars, managerVars, answer, rest, inCall, cleaned, async>>,
         UNCHANGED <<wrappers, held, captures>>, fresh' \subseteq fresh,
         e.op \in {"deleteMethod", "deleteChild", "getObject", "runCallback"},
         e.op = "deleteMethod" => e.target \in Handles \cap wrappers,
         e.op = "runCallback" => e.target \in wrappers,
         e.op = "deleteChild" => e.target \in Objects,
         e.op = "getObject" => e.target = Global /\ Global \in fresh \ fresh'
  PROVE  IInv'
<1>1. /\ UNCHANGED <<heap, parent, method, functions, scriptVars, stash>>
      /\ UNCHANGED <<nodeCallbacks, objects, dukCallbacks, persistent>>
  BY DEF heapVars, managerVars
<1>2. QueueInv' /\ jobs' \in Seq(JobType) /\ ToMake' = ToMake /\ ToCreate' = ToCreate
  <2>1. \A h \in Handles \cup Callbacks : FindsBy(e, h) => h \in wrappers
    BY DEF FindsBy
  <2>2. e.op \in MakeOps \cup DerefOps => e.target \in fresh \cup wrappers
    BY DEF MakeOps, DerefOps
  <2>3. JobInv(e)'
    <3>1. Operands(e)'
      BY DEF Operands
    <3>2. Transit(e)'
      BY DEF Transit, MakeOps, DerefOps, IInv, WorkInv, HandleInv
    <3>3. Resolves(e)'
      BY <1>1, <2>1 DEF Resolves, FindsBy, IInv, HandleInv
    <3> QED
      BY <3>1, <3>2, <3>3 DEF JobInv
  <2>4. Onward
    BY <1>1 DEF Onward
  <2>5. e.op # "setProperty" /\ e.op # "createObject"
    OBVIOUS
  <2>6. TypeOK /\ QueueInv
    BY DEF IInv
  <2>7. /\ QueueInv' /\ jobs' \in Seq(JobType)
         /\ ToMake' = ToMake \cup (IF e.op = "setProperty" THEN {e.arg} ELSE {})
         /\ ToCreate' = ToCreate \cup (IF e.op = "createObject" THEN {e.target} ELSE {})
    BY <2>1, <2>2, <2>3, <2>4, <2>5, <2>6, QueueGrows
  <2> QED
    BY <2>5, <2>7
<1>3. TypeOK'
  BY <1>1, <1>2 DEF IInv, TypeOK
<1>4. WorkInv'
  BY <1>1 DEF IInv, WorkInv
<1>5. HandleInv'
  BY <1>1 DEF IInv, HandleInv, Usable
<1>6. FunctionInv'
  BY <1>1, <1>2, FunctionsKept DEF IInv, Adding
<1>7. CountExact'
  BY <1>1, <1>2, CountIs DEF IInv, Counted
<1> QED
  BY <1>2, <1>3, <1>4, <1>5, <1>6, <1>7 DEF IInv

\* DeleteProperty preserves the invariant.
LEMMA DeletePropertyKeeps ==
  ASSUME IInv, NEW o \in Handles, NEW op \in {"deleteMethod", "deleteChild"},
         DeleteProperty(op, o)
  PROVE  IInv'
<1>1. CASE async
  <2>1. PICK e \in JobType : e.op = op /\ e.target = o /\ jobs' = Append(jobs, e)
    <3>1. Job(op, o, None) \in JobType
      BY DEF Job, JobType
    <3> QED
      BY <1>1, <3>1 DEF DeleteProperty, Job
  <2>2. op = "deleteMethod" => o \in wrappers
    BY UsableFacts DEF DeleteProperty
  <2>3. /\ UNCHANGED <<heapVars, managerVars, nodeVars, answer, rest, inCall, cleaned, async>>
        /\ op = "deleteChild" => o \in Objects
    BY <1>1 DEF DeleteProperty
  <2> QED
    BY <1>1, <2>1, <2>2, <2>3, OnlyAppends DEF nodeVars
<1>2. CASE ~async
  <2>1. /\ DeleteMethod(o) \/ (o \in Objects /\ DeleteChild(o))
        /\ UNCHANGED <<managerVars, nodeVars, jobs, answer, rest, inCall, cleaned, async>>
        /\ rest = None
    BY <1>2 DEF DeleteProperty, MFree
  <2> QED
    BY <2>1, HeapShrinks
<1> QED
  BY <1>1, <1>2

\* GetGlobalObject preserves the invariant.
LEMMA GetGlobalObjectKeeps ==
  ASSUME IInv, GetGlobalObject
  PROVE  IInv'
<1>1. CASE async
  <2>1. PICK e \in JobType : e.op = "getObject" /\ e.target = Global /\ jobs' = Append(jobs, e)
    <3>1. Job("getObject", Global, None) \in JobType
      BY DEF Job, JobType, Handles
    <3> QED
      BY <1>1, <3>1 DEF GetGlobalObject, Job
  <2>2. /\ UNCHANGED <<heapVars, managerVars, wrappers, held, captures, answer, rest, inCall,
                       cleaned, async>>
        /\ Global \in fresh /\ fresh' = fresh \ {Global}
    BY <1>1 DEF GetGlobalObject
  <2> QED
    BY <1>1, <2>1, <2>2, OnlyAppends
<1>2. CASE ~async
  <2>1. /\ stash' = stash \cup {Global} /\ fresh' = fresh \ {Global} /\ Global \in fresh
        /\ rest = None /\ rest' = Job("getObject", Global, None)
        /\ UNCHANGED <<heap, parent, method, functions, scriptVars, jobs>>
        /\ UNCHANGED <<nodeCallbacks, objects, dukCallbacks, persistent>>
        /\ UNCHANGED <<wrappers, held, captures, answer, inCall, cleaned, async>>
    BY <1>2 DEF GetGlobalObject, Stash, managerVars, MFree
  <2>2. rest' \in JobType /\ rest'.op = "getObject" /\ rest'.target = Global
    BY <2>1 DEF Job, JobType, Handles
  <2>3. jobs = << >> /\ answer = None
    BY <1>2 DEF IInv, WorkInv
  <2>4. QueueInv' /\ ToMake' = ToMake /\ ToCreate' = ToCreate
    BY <2>1, <2>3, NoQueue DEF ToMake, ToCreate
  <2>5. TypeOK'
    BY <2>1, <2>2, <2>4 DEF IInv, TypeOK
  <2>6. WorkInv'
    BY <1>2, <2>1, <2>2, <2>3 DEF IInv, WorkInv, HandleInv, MakeOps, DerefOps, Handles
  <2>7. HandleInv'
    BY <2>1 DEF IInv, HandleInv, Usable
  <2>8. FunctionInv'
    <3>1. LiveMethods' = LiveMethods
      BY <2>1 DEF LiveMethods, Garbage, Roots
    <3>2. Adding' = Adding
      BY <2>1, <2>2 DEF Adding
    <3> QED
      BY <2>1, <2>2, <2>4, <3>1, <3>2, FunctionsKept DEF IInv
  <2>9. CountExact'
    BY <2>1, <2>2, <2>4, CountIs DEF IInv, Counted
  <2> QED
    BY <2>4, <2>5, <2>6, <2>7, <2>8, <2>9 DEF IInv
<1> QED
  BY <1>1, <1>2

\* CreateObject preserves the invariant.
LEMMA CreateObjectKeeps ==
  ASSUME IInv, NEW p \in Handles, NEW o \in Objects, CreateObject(p, o)
  PROVE  IInv'
<1>0. /\ p \in wrappers /\ p \in stash /\ p \in heap /\ o \in fresh /\ fresh' = fresh \ {o}
      /\ o \in Handles /\ o \notin heap /\ o # Global /\ method[o] = None
      /\ rest = None
      /\ UNCHANGED <<nodeCallbacks, dukCallbacks, persistent, wrappers, held, captures,
                     answer, inCall, cleaned, async>>
  BY UsableFacts DEF CreateObject, IInv, HandleInv, MFree, Handles
<1>1. CASE async
  <2>1. PICK e \in JobType : /\ e.op = "createObject" /\ e.target = o /\ e.arg = p
                             /\ jobs' = Append(jobs, e)
    <3>1. Job("createObject", o, p) \in JobType
      BY DEF Job, JobType, Handles
    <3> QED
      BY <1>1, <3>1 DEF CreateObject, Job
  <2>2. /\ addDukObjectForNode(o)
        /\ UNCHANGED <<heap, parent, method, functions, scriptVars, stash, rest>>
    BY <1>1 DEF CreateObject, heapVars
  <2>3. QueueInv' /\ jobs' \in Seq(JobType) /\ ToMake' = ToMake /\ ToCreate' = ToCreate \cup {o}
    <3>1. \A h \in Handles \cup Callbacks : FindsBy(e, h) => h \in wrappers /\ h \in stash
      BY <1>0, <2>1 DEF FindsBy
    <3>2. JobInv(e)'
      <4>1. Operands(e)'
        BY <1>0, <2>1, <2>2 DEF Operands
      <4>2. Transit(e)'
        BY <1>0, <2>1 DEF Transit, MakeOps, DerefOps, IInv, WorkInv, HandleInv
      <4>3. Resolves(e)'
        BY <2>2, <3>1 DEF Resolves, FindsBy
      <4> QED
        BY <4>1, <4>2, <4>3 DEF JobInv
    <3>3. Onward
      BY <1>0, <2>2 DEF Onward
    <3>4. e.op # "setProperty" /\ e.target \in fresh
      BY <1>0, <2>1
    <3>5. TypeOK /\ QueueInv
      BY DEF IInv
    <3> QED
      BY <2>1, <3>1, <3>2, <3>3, <3>4, <3>5, QueueGrows
  <2>4. TypeOK'
    BY <1>0, <2>2, <2>3 DEF IInv, TypeOK, addDukObjectForNode
  <2>5. WorkInv'
    BY <1>0, <1>1, <2>2 DEF IInv, WorkInv
  <2>6. HandleInv'
    BY <1>0, <2>2 DEF IInv, HandleInv, Usable
  <2>7. FunctionInv'
    BY <1>0, <1>1, <2>2, <2>3, FunctionsKept DEF IInv, Adding, addDukObjectForNode
  <2>8. CountExact'
    BY <1>0, <2>2, <2>3, CountIs DEF IInv, Counted, addDukObjectForNode
  <2> QED
    BY <2>3, <2>4, <2>5, <2>6, <2>7, <2>8 DEF IInv
<1>2. CASE ~async
  <2>1. /\ PutObject(p, o) /\ rest' = Job("createObject", o, p)
        /\ UNCHANGED <<objects, jobs>>
    BY <1>2 DEF CreateObject
  <2>2. rest' \in JobType /\ rest'.op = "createObject" /\ rest'.target = o
    BY <1>0, <2>1 DEF Job, JobType
  <2>3. jobs = << >> /\ answer = None
    BY <1>2 DEF IInv, WorkInv
  <2>4. QueueInv' /\ ToMake' = ToMake /\ ToCreate' = ToCreate
    BY <2>1, <2>3, NoQueue DEF ToMake, ToCreate
  <2>5. TypeOK'
    BY <1>0, <2>1, <2>2 DEF IInv, TypeOK, PutObject
  <2>6. WorkInv'
    BY <1>0, <1>2, <2>1, <2>2, <2>3 DEF IInv, WorkInv, HandleInv, MakeOps, DerefOps, PutObject
  <2>7. HandleInv'
    BY <1>0, <2>1 DEF IInv, HandleInv, Usable, PutObject
  <2>8. FunctionInv'
    <3>1. Garbage \subseteq heap' \ Roots' /\ \A x \in Garbage : parent'[x] \in Garbage \cup {None}
      <4>1. o \notin Garbage /\ Garbage \subseteq heap \ Roots /\ Garbage \subseteq Objects
        BY <1>0, GarbageFacts DEF IInv
      <4>2. \A x \in Garbage : parent'[x] = parent[x]
        BY <2>1, <4>1 DEF PutObject, IInv, TypeOK
      <4> QED
        BY <1>0, <2>1, <4>1, <4>2, GarbageFacts DEF Roots, PutObject, IInv
    <3>2. LiveMethods' \subseteq LiveMethods
      <4>1. \A x \in heap' : method'[x] = None \/ (x \in heap /\ method'[x] = method[x])
        BY <1>0, <2>1 DEF PutObject
      <4> QED
        BY <3>1, <4>1, LiveMethodsShrink DEF IInv
    <3>3. Adding' = Adding
      BY <1>0, <2>2 DEF Adding
    <3> QED
      BY <1>0, <2>1, <2>2, <2>4, <3>2, <3>3, FunctionsKept DEF IInv, PutObject
  <2>9. CountExact'
    BY <1>0, <2>1, <2>2, <2>4, CountIs DEF IInv, Counted
  <2> QED
    BY <2>4, <2>5, <2>6, <2>7, <2>8, <2>9 DEF IInv
<1> QED
  BY <1>1, <1>2

\* CleanRefs preserves the invariant.
LEMMA CleanRefsKeeps ==
  ASSUME IInv, CleanRefs
  PROVE  IInv'
<1>1. /\ UNCHANGED <<heap, parent, method, functions, scriptVars, stash>>
      /\ UNCHANGED <<fresh, wrappers, held, captures, jobs, answer, rest, inCall, async>>
      /\ UNCHANGED <<objects, dukCallbacks>>
      /\ rest = None /\ inCall = None /\ cleaned' = cleaned \cup nodeCallbacks
      /\ nodeCallbacks' = {}
      /\ persistent' = [f \in Functions |-> IF f \in nodeCallbacks THEN "weak" ELSE persistent[f]]
  BY DEF CleanRefs, MFree, heapVars, nodeVars, workVars, cleanAll, Release
<1>2. TypeOK'
  BY <1>1 DEF IInv, TypeOK
<1>3. WorkInv'
  BY <1>1 DEF IInv, WorkInv
<1>4. QueueInv' /\ ToMake' = ToMake /\ ToCreate' = ToCreate
  BY <1>1, QueueKept DEF IInv, Onward
<1>5. HandleInv'
  <2>1. Usable' \subseteq Usable \cup {}
    BY <1>1, UsableGrows
  <2> QED
    BY <1>1, <2>1 DEF IInv, HandleInv
<1>6. FunctionInv'
  <2>1. Adding = {} /\ Adding' = {} /\ LiveMethods' = LiveMethods
    BY <1>1 DEF Adding, LiveMethods, Garbage, Roots
  <2>2. Registered' /\ Unknown' /\ AddingInv'
    BY <1>1, <1>4, <2>1 DEF IInv, FunctionInv, Registered, Unknown, AddingInv
  <2>3. AsyncFound' /\ SyncFound' /\ CallInv'
    BY <1>1, <1>4, <2>1 DEF IInv, FunctionInv, AsyncFound, SyncFound, CallInv
  <2> QED
    BY <2>2, <2>3 DEF FunctionInv
<1>7. CountExact'
  BY <1>1, <1>4, CountIs DEF IInv, Counted
<1> QED
  BY <1>2, <1>3, <1>4, <1>5, <1>6, <1>7 DEF IInv

\* GiveCallback preserves the invariant.
LEMMA GiveCallbackKeeps ==
  ASSUME IInv, NEW c \in Callbacks, GiveCallback(c)
  PROVE  IInv'
<1>1. /\ UNCHANGED <<heap, parent, method, functions, scriptVars>>
      /\ UNCHANGED <<nodeCallbacks, objects, persistent, captures, jobs, answer, rest, inCall,
                     cleaned, async>>
      /\ rest = None /\ c \in fresh /\ fresh' = fresh \ {c}
      /\ stash' = stash \cup {c} /\ wrappers' = wrappers \cup {c} /\ held' = held \cup {c}
      /\ dukCallbacks' = dukCallbacks \cup {c}
      /\ c \notin Handles
  BY DEF GiveCallback, MFree, Stash, workVars, Handles
<1>2. TypeOK'
  BY <1>1 DEF IInv, TypeOK
<1>3. WorkInv'
  BY <1>1 DEF IInv, WorkInv
<1>4. QueueInv' /\ ToMake' = ToMake /\ ToCreate' = ToCreate
  BY <1>1, QueueKept DEF IInv, Onward
<1>5. HandleInv'
  <2>1. Usable' \subseteq Usable \cup {c}
    BY <1>1, UsableGrows
  <2> QED
    BY <1>1, <2>1 DEF IInv, HandleInv
<1>6. FunctionInv'
  <2>1. LiveMethods' \subseteq LiveMethods
    <3>1. heap' \ Roots' = heap \ Roots
      BY <1>1 DEF Roots, IInv, TypeOK
    <3> QED
      BY <1>1, <3>1 DEF LiveMethods, Garbage
  <2> QED
    BY <1>1, <1>4, <2>1, FunctionsKept DEF IInv, Adding
<1>7. CountExact'
  BY <1>1, <1>4, CountIs DEF IInv, Counted
<1> QED
  BY <1>2, <1>3, <1>4, <1>5, <1>6, <1>7 DEF IInv

\* CallCallback preserves the invariant.
LEMMA CallCallbackKeeps ==
  ASSUME IInv, NEW c \in Callbacks, CallCallback(c)
  PROVE  IInv'
<1>1. PICK e \in JobType : e.op = "runCallback" /\ e.target = c /\ jobs' = Append(jobs, e)
  <2>1. Job("runCallback", c, None) \in JobType
    BY DEF Job, JobType
  <2> QED
    BY <2>1 DEF CallCallback, Job
<1>2. /\ async /\ c \in wrappers
      /\ UNCHANGED <<heapVars, managerVars, answer, rest, inCall, cleaned, async>>
      /\ UNCHANGED <<wrappers, held, captures, fresh>>
  BY UsableFacts DEF CallCallback, nodeVars
<1> QED
  BY <1>1, <1>2, OnlyAppends

\* A step preserves the invariant that changes neither the queue nor the books, and
\* the roots and properties of the heap only so that no method becomes live.
LEMMA HeapOnly ==
  ASSUME IInv, TypeOK',
         UNCHANGED <<heap, method, functions, stash, managerVars, fresh, wrappers, captures>>,
         UNCHANGED <<jobs, answer, rest, cleaned, async>>,
         held' \subseteq held,
         LiveMethods' \subseteq LiveMethods,
         inCall' = None \/ inCall' = inCall
  PROVE  IInv'
<1>1. UNCHANGED <<nodeCallbacks, objects, dukCallbacks, persistent>>
  BY DEF managerVars
<1>2. WorkInv'
  BY DEF IInv, WorkInv
<1>3. QueueInv' /\ ToMake' = ToMake /\ ToCreate' = ToCreate
  BY QueueKept DEF IInv, Onward
<1>4. HandleInv'
  BY <1>1 DEF IInv, HandleInv, Usable
<1>5. FunctionInv'
  BY <1>1, <1>3, FunctionsKept DEF IInv, Adding
<1>6. CountExact'
  BY <1>1, <1>3, CountIs DEF IInv, Counted
<1> QED
  BY <1>2, <1>3, <1>4, <1>5, <1>6 DEF IInv

\* Drop preserves the invariant.
LEMMA DropKeeps ==
  ASSUME IInv, NEW w, Drop(w)
  PROVE  IInv'
<1>1. /\ UNCHANGED <<heapVars, managerVars, fresh, wrappers, captures, workVars, cleaned, async>>
      /\ held' \subseteq held
  BY DEF Drop
<1>2. TypeOK'
  BY <1>1 DEF IInv, TypeOK, heapVars, managerVars, workVars
<1>3. LiveMethods' = LiveMethods
  BY <1>1 DEF LiveMethods, Garbage, Roots, heapVars, workVars
<1> QED
  BY <1>1, <1>2, <1>3, HeapOnly DEF heapVars, workVars

\* FreePersistent preserves the invariant.
LEMMA FreePersistentKeeps ==
  ASSUME IInv, NEW f \in Functions, FreePersistent(f)
  PROVE  IInv'
<1>1. /\ UNCHANGED <<heap, parent, method, functions, scriptVars, stash>>
      /\ UNCHANGED <<nodeCallbacks, objects, dukCallbacks, fresh, wrappers, held, captures>>
      /\ UNCHANGED <<jobs, answer, rest, inCall, cleaned, async>>
      /\ persistent[f] = "weak" /\ persistent' = [persistent EXCEPT ![f] = "freed"]
  BY DEF FreePersistent, heapVars, nodeVars, workVars
<1>2. TypeOK'
  BY <1>1 DEF IInv, TypeOK
<1>3. WorkInv'
  BY <1>1 DEF IInv, WorkInv
<1>4. QueueInv' /\ ToMake' = ToMake /\ ToCreate' = ToCreate
  BY <1>1, QueueKept DEF IInv, Onward
<1>5. HandleInv'
  <2>1. Usable' \subseteq Usable \cup {}
    BY <1>1, UsableGrows DEF IInv, TypeOK
  <2> QED
    BY <1>1, <2>1 DEF IInv, HandleInv
<1>6. FunctionInv'
  <2>1. Adding' = Adding /\ LiveMethods' = LiveMethods
    BY <1>1 DEF Adding, LiveMethods, Garbage, Roots
  <2>2. Registered' /\ Unknown' /\ AddingInv'
    BY <1>1, <1>4, <2>1 DEF IInv, FunctionInv, Registered, Unknown, AddingInv, TypeOK
  <2>3. AsyncFound' /\ SyncFound' /\ CallInv'
    BY <1>1, <1>4, <2>1 DEF IInv, FunctionInv, AsyncFound, SyncFound, CallInv
  <2> QED
    BY <2>2, <2>3 DEF FunctionInv
<1>7. CountExact'
  BY <1>1, <1>4, CountIs DEF IInv, Counted
<1> QED
  BY <1>2, <1>3, <1>4, <1>5, <1>6, <1>7 DEF IInv

--------------------------------------------------------------------------------
(* V8's collector, the rest of a Context's method, and the jobs.              *)

\* CollectWrapper preserves the invariant.
LEMMA CollectWrapperKeeps ==
  ASSUME IInv, NEW w \in Handles \cup Callbacks, CollectWrapper(w)
  PROVE  IInv'
<1> DEFINE op == IF w \in Callbacks THEN "derefCallback" ELSE "derefObject"
<1>0. /\ w \in wrappers /\ w \notin Usable /\ w \in stash /\ w \notin fresh /\ w # None
      /\ w \in Handles <=> w \notin Callbacks
      /\ wrappers' = wrappers \ {w} /\ rest = None
      /\ UNCHANGED <<fresh, held, captures, answer, inCall, cleaned, async>>
  BY DEF CollectWrapper, IInv, HandleInv, Handles
<1>1. Job(op, w, None) \in JobType
  BY DEF Job, JobType
<1>2. held' \subseteq wrappers'
  BY <1>0 DEF Usable, IInv, TypeOK
<1>3. CASE async
  <2>1. PICK e \in JobType : e.op = op /\ e.target = w /\ jobs' = Append(jobs, e)
    BY <1>1, <1>3 DEF CollectWrapper, Job
  <2>2. /\ UNCHANGED <<heap, parent, method, functions, scriptVars, stash, rest>>
        /\ UNCHANGED <<nodeCallbacks, dukCallbacks, persistent>>
        /\ IF w \in Callbacks THEN objects' = objects
           ELSE objects' = [h \in DOMAIN objects \ {w} |-> objects[h]]
    BY <1>3 DEF CollectWrapper, heapVars, managerVars, removeNodeObjectHandle
  <2>3. QueueInv' /\ jobs' \in Seq(JobType) /\ ToMake' = ToMake /\ ToCreate' = ToCreate
    <3>1. \A h \in Handles \cup Callbacks : ~FindsBy(e, h)
      BY <2>1 DEF FindsBy
    <3>2. JobInv(e)'
      <4>1. Operands(e)'
        BY <1>0, <2>1 DEF Operands
      <4>2. Transit(e)'
        BY <1>0, <2>1 DEF Transit, IInv, WorkInv
      <4>3. Resolves(e)'
        BY <3>1 DEF Resolves, FindsBy
      <4> QED
        BY <4>1, <4>2, <4>3 DEF JobInv
    <3>3. e.op # "setProperty" /\ e.op # "createObject"
      BY <2>1
    <3>4. Onward
      BY <1>0, <2>2 DEF Onward
    <3>5. e.target \in fresh \cup wrappers
      BY <1>0, <2>1
    <3>6. TypeOK /\ QueueInv
      BY DEF IInv
    <3> QED
      BY <2>1, <3>1, <3>2, <3>3, <3>4, <3>5, <3>6, QueueGrows
  <2>4. TypeOK'
    BY <1>0, <1>2, <2>2, <2>3 DEF IInv, TypeOK
  <2>5. WorkInv'
    BY <1>0, <2>2, <1>3 DEF IInv, WorkInv
  <2>6. HandleInv'
    BY <1>0, <2>2 DEF IInv, HandleInv, Usable
  <2>7. FunctionInv'
    BY <1>0, <1>3, <2>2, <2>3, FunctionsKept DEF IInv, Adding
  <2>8. CountExact'
    <3>1. w \notin ToCreate
      <4>1. ASSUME NEW i \in DOMAIN jobs, jobs[i].op = "createObject", jobs[i].target = w
            PROVE  FALSE
        <5>1. Transit(jobs[i])
          BY DEF IInv, QueueInv, JobInv
        <5> QED
          BY <1>0, <4>1, <5>1 DEF Transit, MakeOps, DerefOps
      <4> QED
        BY <4>1 DEF ToCreate
    <3>2. answer # None => answer.target # w
      BY <1>0 DEF IInv, WorkInv
    <3> QED
      BY <1>0, <2>2, <2>3, <3>1, <3>2, CountIs DEF IInv, Counted
  <2> QED
    BY <2>3, <2>4, <2>5, <2>6, <2>7, <2>8 DEF IInv
<1>4. CASE ~async
  <2>1. /\ stash' = stash \ {w} /\ rest' = Job(op, w, None)
        /\ UNCHANGED <<heap, parent, method, functions, scriptVars, jobs>>
        /\ UNCHANGED <<nodeCallbacks, objects, dukCallbacks, persistent>>
    BY <1>4 DEF CollectWrapper, Unstash, managerVars
  <2>2. rest' \in JobType /\ rest'.op = op /\ rest'.target = w /\ rest' # None
    BY <1>1, <2>1 DEF Job
  <2>3. jobs = << >> /\ answer = None
    BY <1>4 DEF IInv, WorkInv
  <2>4. QueueInv' /\ ToMake' = ToMake /\ ToCreate' = ToCreate
    BY <2>1, <2>3, NoQueue DEF ToMake, ToCreate
  <2>5. TypeOK'
    BY <1>0, <1>2, <2>1, <2>2 DEF IInv, TypeOK
  <2>6. WorkInv'
    BY <1>0, <1>4, <2>1, <2>2, <2>3 DEF IInv, WorkInv, MakeOps, DerefOps
  <2>7. HandleInv'
    BY <1>0, <2>1 DEF IInv, HandleInv, Usable
  <2>8. FunctionInv'
    <3>1. LiveMethods' \subseteq LiveMethods
      <4>1. Garbage \subseteq heap' \ Roots' /\ \A x \in Garbage : parent'[x] \in Garbage \cup {None}
        BY <1>0, <2>1, GarbageFacts DEF Roots, IInv
      <4>2. \A x \in heap' : method'[x] = None \/ (x \in heap /\ method'[x] = method[x])
        BY <2>1
      <4> QED
        BY <4>1, <4>2, LiveMethodsShrink DEF IInv
    <3>2. Adding' = Adding /\ rest'.op # "addCallback"
      BY <1>0, <2>2 DEF Adding
    <3> QED
      BY <1>0, <2>1, <2>4, <3>1, <3>2, FunctionsKept DEF IInv
  <2>9. CountExact'
    BY <1>0, <2>1, <2>2, <2>4, CountIs DEF IInv, Counted
  <2> QED
    BY <2>4, <2>5, <2>6, <2>7, <2>8, <2>9 DEF IInv
<1> QED
  BY <1>3, <1>4

\* Finish preserves the invariant.
LEMMA FinishKeeps ==
  ASSUME IInv, Finish
  PROVE  IInv'
<1>0. /\ rest # None /\ rest' = None /\ ~async /\ jobs = << >> /\ answer = None
      /\ UNCHANGED <<heap, parent, method, functions, scriptVars, stash>>
      /\ UNCHANGED <<fresh, captures, jobs, answer, inCall, cleaned, async>>
      /\ Adding' = {}
  BY DEF Finish, IInv, WorkInv, TypeOK, Adding, heapVars
<1>1. QueueInv' /\ ToMake' = ToMake /\ ToCreate' = ToCreate /\ LiveMethods' = LiveMethods
  BY <1>0, NoQueue DEF ToMake, ToCreate, LiveMethods, Garbage, Roots
<1>2. CASE rest.op = "addCallback"
  <2>1. PICK o \in Handles, f \in Functions :
          /\ o = rest.target /\ f = rest.arg /\ o \in wrappers /\ o \in DOMAIN objects
          /\ f \in functions /\ f \notin nodeCallbacks /\ f \notin fresh /\ method[o] = f
          /\ \A x \in Handles : method[x] = f => x = o
    <3>1. rest.target \in wrappers \cap Handles
      BY <1>0, <1>2 DEF IInv, WorkInv
    <3>2. /\ rest.arg \in functions \ (nodeCallbacks \cup fresh)
          /\ method[rest.target] = rest.arg
          /\ \A o \in Handles : method[o] = rest.arg => o = rest.target
      BY <1>0, <1>2 DEF IInv, FunctionInv, AddingInv
    <3>3. rest.target \in DOMAIN objects /\ rest.arg \in Functions
      BY <3>1, <3>2 DEF IInv, CountExact, TypeOK
    <3> QED
      BY <3>1, <3>2, <3>3
  <2>2. /\ nodeCallbacks' = nodeCallbacks \cup {f}
        /\ objects' = [h \in DOMAIN objects |-> IF h = o THEN {f} \cup objects[o] ELSE objects[h]]
        /\ UNCHANGED <<dukCallbacks, persistent, wrappers, held>>
    <3>1. DOMAIN objects \cup {o} = DOMAIN objects
      BY <2>1, WithMember
    <3>2. addCallbackFromNode(o, f) /\ UNCHANGED <<dukCallbacks, persistent, wrappers, held>>
      BY <1>2, <2>1 DEF Finish
    <3> QED
      BY <2>1, <3>1, <3>2 DEF addCallbackFromNode
  <2>3. TypeOK'
    BY <1>0, <2>2 DEF IInv, TypeOK
  <2>4. WorkInv'
    BY <1>0 DEF IInv, WorkInv
  <2>5. HandleInv'
    BY <1>0, <2>2 DEF IInv, HandleInv, Usable
  <2>6. FunctionInv'
    <3> USE <1>0, <1>1, <2>1, <2>2 DEF IInv, FunctionInv
    <3>1. Adding = {f}
      BY <1>2 DEF Adding
    <3>2. Registered' /\ Unknown'
      BY <3>1 DEF Registered, Unknown
    <3>3. AddingInv' /\ AsyncFound' /\ CallInv'
      BY DEF AddingInv, AsyncFound, CallInv
    <3>4. SyncFound'
      BY <3>1 DEF SyncFound
    <3> QED
      BY <3>2, <3>3, <3>4
  <2>7. CountExact'
    BY <1>0, <1>1, <1>2, <2>2, CountIs DEF IInv, Counted
  <2> QED
    BY <1>1, <2>3, <2>4, <2>5, <2>6, <2>7 DEF IInv
<1>3. CASE rest.op \in MakeOps
  <2>1. PICK o \in Handles : o = rest.target /\ o \in stash /\ o \notin fresh
    BY <1>0, <1>3 DEF IInv, WorkInv
  <2>2. /\ objects' = [h \in DOMAIN objects \cup {o} |-> IF h = o THEN {} ELSE objects[h]]
        /\ wrappers' = wrappers \cup {o} /\ held' = held \cup {o}
        /\ UNCHANGED <<nodeCallbacks, dukCallbacks, persistent>>
    BY <1>3, <2>1 DEF Finish, addDukObjectForNode, MakeScope, MakeOps
  <2>3. TypeOK'
    BY <1>0, <2>2 DEF IInv, TypeOK
  <2>4. WorkInv'
    BY <1>0 DEF IInv, WorkInv
  <2>5. HandleInv'
    <3>1. Usable' \subseteq Usable \cup {o}
      BY <1>0, <2>2, UsableGrows
    <3> QED
      BY <1>0, <2>1, <2>2, <3>1 DEF IInv, HandleInv
  <2>6. FunctionInv'
    <3>1. Adding = {}
      BY <1>3 DEF Adding, MakeOps
    <3> QED
      BY <1>0, <1>1, <2>2, <3>1, FunctionsKept DEF IInv
  <2>7. CountExact'
    BY <1>0, <1>1, <1>3, <2>2, CountIs DEF IInv, Counted, MakeOps
  <2> QED
    BY <1>1, <2>3, <2>4, <2>5, <2>6, <2>7 DEF IInv
<1>4. CASE rest.op \in DerefOps
  <2>1. /\ UNCHANGED <<nodeCallbacks, persistent, wrappers, held>>
        /\ dukCallbacks' \subseteq dukCallbacks
        /\ \/ rest.op = "derefObject"
              /\ objects' = [h \in DOMAIN objects \ {rest.target} |-> objects[h]]
           \/ rest.op = "derefCallback" /\ objects' = objects
    BY <1>4 DEF Finish, removeNodeObjectHandle, DerefOps
  <2>2. TypeOK'
    BY <1>0, <2>1 DEF IInv, TypeOK
  <2>3. WorkInv'
    BY <1>0 DEF IInv, WorkInv
  <2>4. HandleInv'
    BY <1>0, <2>1 DEF IInv, HandleInv, Usable
  <2>5. FunctionInv'
    <3>1. Adding = {}
      BY <1>4 DEF Adding, DerefOps
    <3> QED
      BY <1>0, <1>1, <2>1, <3>1, FunctionsKept DEF IInv
  <2>6. CountExact'
    <3>1. rest.target \notin wrappers /\ ToCreate = {}
      BY <1>0, <1>4 DEF IInv, WorkInv, ToCreate
    <3> QED
      BY <1>0, <1>1, <2>1, <3>1, CountIs DEF IInv, Counted
  <2> QED
    BY <1>1, <2>2, <2>3, <2>4, <2>5, <2>6 DEF IInv
<1> QED
  BY <1>0, <1>2, <1>3, <1>4 DEF IInv, WorkInv

\* Answer preserves the invariant.
LEMMA AnswerKeeps ==
  ASSUME IInv, Answer
  PROVE  IInv'
<1>1. PICK o \in Handles : /\ o = answer.target /\ o \in stash /\ o \notin fresh
                           /\ answer # None /\ answer.op \in MakeOps /\ async /\ rest = None
  BY DEF Answer, IInv, WorkInv, TypeOK
<1>2. /\ answer' = None /\ wrappers' = wrappers \cup {o} /\ held' = held \cup {o}
      /\ UNCHANGED <<heap, parent, method, functions, scriptVars, stash>>
      /\ UNCHANGED <<nodeCallbacks, dukCallbacks, persistent, fresh, captures, jobs, rest, inCall,
                     cleaned, async>>
      /\ IF answer.op = "getObject"
         THEN objects' = [h \in DOMAIN objects \cup {o} |-> IF h = o THEN {} ELSE objects[h]]
         ELSE objects' = objects
  BY <1>1 DEF Answer, MakeScope, addDukObjectForNode, heapVars
<1>3. TypeOK'
  BY <1>1, <1>2 DEF IInv, TypeOK
<1>4. WorkInv'
  BY <1>1, <1>2 DEF IInv, WorkInv
<1>5. QueueInv'
  <2>1. ASSUME NEW i \in DOMAIN jobs'
        PROVE  JobInv(jobs[i])'
    <3>1. JobInv(jobs[i]) /\ jobs'[i] = jobs[i]
      BY <1>2, <2>1 DEF IInv, QueueInv
    <3>2. Operands(jobs[i])'
      BY <1>2, <3>1 DEF JobInv, Operands
    <3>3. Transit(jobs[i])'
      BY <1>1, <1>2, <3>1 DEF JobInv, Transit
    <3>4. Resolves(jobs[i])'
      BY <1>2, <3>1 DEF JobInv, Resolves, FindsBy
    <3> QED
      BY <3>2, <3>3, <3>4 DEF JobInv
  <2>2. \A i, k \in DOMAIN jobs' : i < k => Apart(jobs'[i], jobs'[k])
    BY <1>2 DEF IInv, QueueInv
  <2> QED
    BY <2>1, <2>2 DEF QueueInv, Apart, Derefs, FindsBy
<1>6. HandleInv'
  <2>1. Usable' \subseteq Usable \cup {o}
    BY <1>2, UsableGrows
  <2> QED
    BY <1>1, <1>2, <2>1 DEF IInv, HandleInv
<1>7. ToMake' = ToMake /\ ToCreate' = ToCreate
  BY <1>2 DEF ToMake, ToCreate
<1>8. FunctionInv'
  BY <1>1, <1>2, <1>7, FunctionsKept DEF IInv, Adding
<1>9. CountExact'
  BY <1>1, <1>2, <1>7, CountIs DEF IInv, Counted, MakeOps
<1> QED
  BY <1>3, <1>4, <1>5, <1>6, <1>8, <1>9 DEF IInv

\* What is left of the queue when D has taken its first job j.
LEMMA RestOfQueue ==
  ASSUME IInv, NEW CONSTANT j, jobs # << >>, j = Head(jobs), jobs' = Tail(jobs),
         \A l : JobInv(l) /\ Apart(j, l) => JobInv(l)'
  PROVE  QueueInv'
<1>1. /\ j = jobs[1] /\ 1 \in DOMAIN jobs
      /\ \A i \in DOMAIN jobs' : jobs'[i] = jobs[i + 1] /\ i + 1 \in DOMAIN jobs /\ 1 < i + 1 /\ i \in Nat
  BY Taken DEF IInv, TypeOK
<1>2. ASSUME NEW i \in DOMAIN jobs'
      PROVE  JobInv(jobs[i])'
  <2>1. PICK l : l = jobs[i + 1]
    OBVIOUS
  <2>2. JobInv(l) /\ Apart(j, l)
    BY <1>1, <2>1 DEF IInv, QueueInv
  <2>3. JobInv(l)'
    BY <2>2
  <2>4. l = jobs'[i]
    BY <1>1, <2>1
  <2> QED
    BY <2>3, <2>4 DEF JobInv, Operands, Transit, Resolves, FindsBy
<1>3. ASSUME NEW i \in DOMAIN jobs', NEW k \in DOMAIN jobs', i < k
      PROVE  Apart(jobs'[i], jobs'[k])
  <2>1. i + 1 < k + 1
    BY <1>1, <1>3
  <2>2. Apart(jobs[i + 1], jobs[k + 1])
    BY <1>1, <2>1 DEF IInv, QueueInv
  <2> QED
    BY <1>1, <2>2
<1> QED
  BY <1>2, <1>3 DEF QueueInv, Apart, Derefs, FindsBy

\* The functions and objects that D has still to make: only those of j are done.
LEMMA StillToMake ==
  ASSUME IInv, NEW CONSTANT j, jobs # << >>, j = Head(jobs), jobs' = Tail(jobs)
  PROVE  /\ JobInv(j) /\ j \in JobType /\ jobs' \in Seq(JobType)
         /\ \A f : f \in ToMake <=> f \in ToMake' \/ (j.op = "setProperty" /\ f = j.arg)
         /\ \A h : h \in ToCreate <=> h \in ToCreate' \/ (j.op = "createObject" /\ h = j.target)
         /\ j.op \in MakeOps => j.target \notin ToCreate'
<1>1. /\ j = jobs[1] /\ 1 \in DOMAIN jobs /\ j \in JobType /\ jobs' \in Seq(JobType)
      /\ \A i \in DOMAIN jobs' : jobs'[i] = jobs[i + 1] /\ i + 1 \in DOMAIN jobs /\ 1 < i + 1
      /\ \A i \in DOMAIN jobs : i = 1 \/ (i - 1 \in DOMAIN jobs' /\ jobs[i] = jobs'[i - 1])
  BY Taken DEF IInv, TypeOK
<1>2. JobInv(j)
  BY <1>1 DEF IInv, QueueInv
<1>3. \A f : f \in ToMake <=> f \in ToMake' \/ (j.op = "setProperty" /\ f = j.arg)
  BY <1>1 DEF ToMake
<1>4. \A h : h \in ToCreate <=> h \in ToCreate' \/ (j.op = "createObject" /\ h = j.target)
  BY <1>1 DEF ToCreate
<1>5. ASSUME j.op \in MakeOps, j.target \in ToCreate'
      PROVE  FALSE
  <2>1. PICK i \in DOMAIN jobs' : jobs'[i].op = "createObject" /\ jobs'[i].target = j.target
    BY <1>5 DEF ToCreate
  <2>2. Apart(j, jobs[i + 1])
    BY <1>1 DEF IInv, QueueInv
  <2> QED
    BY <1>1, <1>5, <2>1, <2>2 DEF Apart, MakeOps
<1> QED
  BY <1>1, <1>2, <1>3, <1>4, <1>5

\* RunJob preserves the invariant.
LEMMA RunJobKeeps ==
  ASSUME IInv, RunJob
  PROVE  IInv'
<1>0. PICK j : j = Head(jobs)
  OBVIOUS
<1>1. /\ jobs # << >> /\ jobs' = Tail(jobs) /\ answer = None /\ inCall = None
      /\ answer' = IF j.op \in MakeOps THEN j ELSE None
      /\ UNCHANGED <<nodeCallbacks, objects, persistent, fresh, wrappers, held, captures, rest,
                     inCall, cleaned, async>>
      /\ dukCallbacks' \subseteq dukCallbacks
  BY <1>0 DEF RunJob, DFree, MakeOps, nodeVars
<1>2. /\ JobInv(j) /\ j \in JobType /\ jobs' \in Seq(JobType)
      /\ \A f : f \in ToMake <=> f \in ToMake' \/ (j.op = "setProperty" /\ f = j.arg)
      /\ \A h : h \in ToCreate <=> h \in ToCreate' \/ (j.op = "createObject" /\ h = j.target)
      /\ j.op \in MakeOps => j.target \notin ToCreate'
  BY <1>0, <1>1, StillToMake
<1>3. async /\ rest = None /\ j # None
  BY <1>1, <1>2 DEF IInv, WorkInv, TypeOK
<1>4. CountExact'
  BY <1>1, <1>2, <1>3, CountIs DEF IInv, Counted, MakeOps
<1>5. Usable' = Usable
  BY <1>1 DEF Usable
<1>6. CASE j.op = "setProperty"
  <2>1. PICK o \in Handles, f \in Functions :
          /\ o = j.target /\ f = j.arg /\ o \in heap /\ f \notin fresh /\ f \notin functions
    <3>1. j.target \in Handles /\ j.arg \in Functions \ (fresh \cup functions)
      BY <1>2, <1>6 DEF JobInv, Operands
    <3>2. j.target \in heap
      BY <1>2, <1>6, <3>1 DEF JobInv, Resolves, FindsBy, IInv, TypeOK, Handles
    <3> QED
      BY <3>1, <3>2
  <2>2. /\ method' = [method EXCEPT ![o] = f] /\ functions' = functions \cup {f} /\ answer' = None
        /\ UNCHANGED <<heap, parent, scriptVars, stash>>
    BY <1>0, <1>1, <1>6, <2>1 DEF RunJob, PutFunction, MakeOps
  <2>3. TypeOK'
    BY <1>1, <1>2, <2>2 DEF IInv, TypeOK
  <2>4. WorkInv'
    BY <1>1, <1>3, <2>2 DEF IInv, WorkInv
  <2>5. QueueInv'
    <3>1. ASSUME NEW l, JobInv(l), Apart(j, l)
          PROVE  JobInv(l)'
      BY <1>1, <1>6, <2>1, <2>2, <3>1 DEF JobInv, Operands, Transit, Resolves, FindsBy, Apart
    <3> QED
      BY <1>0, <1>1, <3>1, RestOfQueue
  <2>6. HandleInv'
    BY <1>1, <1>5, <2>1, <2>2 DEF IInv, HandleInv, TypeOK
  <2>7. FunctionInv'
    <3> USE <1>1, <1>2, <1>3, <1>6, <2>1, <2>2 DEF IInv, FunctionInv
    <3>1. Registered' /\ Unknown'
      BY DEF Registered, Unknown, Adding
    <3>2. AddingInv' /\ AsyncFound' /\ SyncFound' /\ CallInv'
      BY DEF AddingInv, AsyncFound, SyncFound, CallInv
    <3> QED
      BY <3>1, <3>2
  <2> QED
    BY <1>4, <2>3, <2>4, <2>5, <2>6, <2>7 DEF IInv
<1>7. CASE j.op # "setProperty"
  <2>1. FunctionInv'
    <3>1. functions' = functions /\ ToMake' = ToMake
      <4>1. \/ DeleteMethod(j.target) \/ DeleteChild(j.target) \/ PutObject(j.arg, j.target)
            \/ Stash(j.target) \/ Unstash(j.target) \/ UNCHANGED heapVars
        BY <1>0, <1>7 DEF RunJob
      <4>2. functions' = functions
        BY <4>1 DEF DeleteMethod, DeleteChild, PutObject, Stash, Unstash, heapVars
      <4>3. \A f : f \in ToMake <=> f \in ToMake'
        BY <1>2, <1>7
      <4>4. ASSUME NEW D, NEW E, \A f : f \in D <=> f \in E
            PROVE  E = D
        BY <4>4
      <4> QED
        BY <4>2, <4>3, <4>4
    <3>2. UNCHANGED <<functions, nodeCallbacks, persistent, cleaned, async, rest, inCall, fresh, objects>>
      BY <1>1, <3>1
    <3> USE <1>3, <3>1, <3>2 DEF IInv, FunctionInv
    <3>3. Registered' /\ Unknown'
      BY DEF Registered, Unknown, Adding
    <3>4. AddingInv' /\ AsyncFound' /\ SyncFound' /\ CallInv'
      BY DEF AddingInv, AsyncFound, SyncFound, CallInv
    <3> QED
      BY <3>3, <3>4
  <2>2. CASE j.op \in {"deleteMethod", "deleteChild", "runCallback"}
    <3>1. /\ UNCHANGED <<heap, functions, scriptVars, stash>> /\ answer' = None
          /\ \A x \in Handles : method'[x] \in {method[x], None}
          /\ method' \in [Handles -> functions \cup {None}]
          /\ parent' \in [Objects -> heap \cup {None}]
      <4>1. j.op = "deleteMethod" => j.target \in Handles
        BY <1>2 DEF JobInv, Operands
      <4>2. \/ j.op = "deleteMethod" /\ DeleteMethod(j.target)
            \/ j.op = "deleteChild" /\ DeleteChild(j.target)
            \/ j.op = "runCallback" /\ UNCHANGED heapVars
        BY <1>0, <2>2 DEF RunJob
      <4>3. answer' = None
        BY <1>1, <2>2 DEF MakeOps
      <4> QED
        BY <4>1, <4>2, <4>3 DEF DeleteMethod, DeleteChild, heapVars, IInv, TypeOK
    <3>2. TypeOK'
      BY <1>1, <1>2, <3>1 DEF IInv, TypeOK
    <3>3. WorkInv'
      BY <1>1, <1>3, <3>1 DEF IInv, WorkInv
    <3>4. QueueInv'
      <4>1. ASSUME NEW l, JobInv(l)
            PROVE  JobInv(l)'
        BY <1>1, <3>1, <4>1, JobKept DEF Onward
      <4> QED
        BY <1>0, <1>1, <4>1, RestOfQueue
    <3>5. HandleInv'
      BY <1>1, <1>5, <3>1 DEF IInv, HandleInv
    <3> QED
      BY <1>4, <2>1, <3>2, <3>3, <3>4, <3>5 DEF IInv
  <2>3. CASE j.op \in MakeOps
    <3>1. PICK o \in Handles :
            /\ o = j.target /\ o \notin fresh /\ o \notin wrappers /\ answer' = j
            /\ heap' = heap \cup {o} /\ stash' = stash \cup {o}
            /\ UNCHANGED <<method, functions, scriptVars>>
            /\ parent' \in [Objects -> heap' \cup {None}]
            /\ \/ j.op = "createObject" /\ o \notin heap
               \/ j.op = "getObject" /\ o \in heap
      <4>1. /\ j.target \notin fresh \cup wrappers
            /\ j.op = "createObject" => j.target \in Objects \ heap /\ j.arg \in heap
            /\ j.op = "getObject" => j.target = Global
        BY <1>2, <2>3 DEF JobInv, Operands, Transit, Resolves, FindsBy, IInv, TypeOK, Handles
      <4>2. CASE j.op = "createObject"
        <5>1. PutObject(j.arg, j.target)
          BY <1>0, <4>2 DEF RunJob
        <5> QED
          BY <1>1, <2>3, <4>1, <4>2, <5>1 DEF PutObject, IInv, TypeOK, Handles
      <4>3. CASE j.op = "getObject"
        <5>1. Stash(j.target)
          BY <1>0, <4>3 DEF RunJob
        <5>2. heap' = heap \cup {Global} /\ Global \in Handles
          BY <4>1, <4>3, <5>1 DEF Stash, IInv, TypeOK, Handles
        <5> QED
          BY <1>1, <2>3, <4>1, <4>3, <5>1, <5>2 DEF Stash, IInv, TypeOK
      <4> QED
        BY <2>3, <4>2, <4>3 DEF MakeOps
    <3>2. TypeOK'
      BY <1>1, <1>2, <3>1 DEF IInv, TypeOK
    <3>3. WorkInv'
      BY <1>1, <1>3, <2>3, <3>1 DEF IInv, WorkInv
    <3>4. QueueInv'
      <4>1. ASSUME NEW l, JobInv(l), Apart(j, l)
            PROVE  JobInv(l)'
        <5>1. {j.op, l.op} \subseteq MakeOps \cup DerefOps => j.target # l.target
          BY <4>1 DEF Apart
        <5>2. Operands(l)'
          BY <1>1, <2>3, <3>1, <4>1, <5>1 DEF JobInv, Operands, MakeOps
        <5>3. Transit(l)'
          BY <1>1, <2>3, <3>1, <4>1, <5>1 DEF JobInv, Transit
        <5>4. Resolves(l)'
          BY <3>1, <4>1 DEF JobInv, Resolves, FindsBy
        <5> QED
          BY <5>2, <5>3, <5>4 DEF JobInv
      <4> QED
        BY <1>0, <1>1, <4>1, RestOfQueue
    <3>5. HandleInv'
      BY <1>1, <1>5, <3>1 DEF IInv, HandleInv
    <3> QED
      BY <1>4, <2>1, <3>2, <3>3, <3>4, <3>5 DEF IInv
  <2>4. CASE j.op \in DerefOps
    <3>1. /\ stash' = stash \ {j.target} /\ j.target \notin wrappers /\ answer' = None
          /\ UNCHANGED <<heap, parent, method, functions, scriptVars>>
      BY <1>0, <1>1, <1>2, <2>4 DEF RunJob, Unstash, JobInv, Transit, MakeOps, DerefOps
    <3>2. TypeOK'
      BY <1>1, <1>2, <3>1 DEF IInv, TypeOK
    <3>3. WorkInv'
      BY <1>1, <1>3, <3>1 DEF IInv, WorkInv
    <3>4. QueueInv'
      <4>1. ASSUME NEW l, JobInv(l), Apart(j, l)
            PROVE  JobInv(l)'
        <5>1. Operands(l)' /\ Transit(l)'
          BY <1>1, <3>1, <4>1 DEF JobInv, Operands, Transit
        <5>2. Resolves(l)'
          BY <2>4, <3>1, <4>1 DEF JobInv, Resolves, Apart, Derefs, FindsBy
        <5> QED
          BY <5>1, <5>2 DEF JobInv
      <4> QED
        BY <1>0, <1>1, <4>1, RestOfQueue
    <3>5. HandleInv'
      BY <1>1, <1>5, <3>1 DEF IInv, HandleInv
    <3> QED
      BY <1>4, <2>1, <3>2, <3>3, <3>4, <3>5 DEF IInv
  <2>5. j.op # "addCallback" /\ j \in JobType
    BY <1>2 DEF JobInv, Operands
  <2> QED
    BY <1>7, <2>2, <2>3, <2>4, <2>5 DEF JobType, MakeOps, DerefOps
<1> QED
  BY <1>6, <1>7

--------------------------------------------------------------------------------
(* Scripts and finalizers.                                                    *)

\* A script that takes an object or function it can reach preserves the invariant.
LEMMA ScriptTakesKeeps ==
  ASSUME IInv, NEW x \in Objects \cup Functions, ScriptTakes(x)
  PROVE  IInv'
<1>1. /\ UNCHANGED <<heap, parent, method, functions, stash, managerVars, nodeVars, workVars,
                     cleaned, async>>
      /\ scriptVars' = scriptVars \cup {x}
      /\ x \in (Objects \cap (heap \ Garbage)) \cup LiveFunctions
  BY DEF ScriptTakes
<1>2. x \notin Garbage /\ x \in heap \cup functions
  <2>1. Garbage \subseteq Objects
    BY GarbageFacts DEF IInv
  <2>2. functions \subseteq Functions
    BY DEF IInv, TypeOK
  <2> QED
    BY <1>1, <2>1, <2>2 DEF LiveFunctions
<1>3. TypeOK'
  BY <1>1, <1>2 DEF IInv, TypeOK, managerVars, nodeVars, workVars
<1>4. Garbage \subseteq heap' \ Roots' /\ \A y \in Garbage : parent'[y] \in Garbage \cup {None}
  BY <1>1, <1>2, GarbageFacts DEF Roots, IInv, workVars
<1>5. \A y \in heap' : method'[y] = None \/ (y \in heap /\ method'[y] = method[y])
  BY <1>1
<1>6. LiveMethods' \subseteq LiveMethods
  BY <1>4, <1>5, LiveMethodsShrink DEF IInv
<1> QED
  BY <1>1, <1>3, <1>6, HeapOnly DEF nodeVars, workVars

\* A script that drops one, or the end of a call, preserves the invariant.
LEMMA RootsShrink ==
  ASSUME IInv, NEW x, ScriptDrops(x) \/ UseCallback
  PROVE  IInv'
<1>1. /\ UNCHANGED <<heap, parent, method, functions, stash, managerVars, nodeVars>>
      /\ UNCHANGED <<jobs, answer, rest, cleaned, async>>
      /\ scriptVars' \subseteq scriptVars /\ (inCall' = None \/ inCall' = inCall)
  BY DEF ScriptDrops, UseCallback, heapVars, workVars
<1>2. TypeOK'
  BY <1>1 DEF IInv, TypeOK, managerVars, nodeVars
<1>3. Garbage \subseteq heap' \ Roots' /\ \A y \in Garbage : parent'[y] \in Garbage \cup {None}
  BY <1>1, GarbageFacts DEF Roots, IInv
<1>4. \A y \in heap' : method'[y] = None \/ (y \in heap /\ method'[y] = method[y])
  BY <1>1
<1>5. LiveMethods' \subseteq LiveMethods
  BY <1>3, <1>4, LiveMethodsShrink DEF IInv
<1> QED
  BY <1>1, <1>2, <1>5, HeapOnly DEF nodeVars

\* ScriptDeletes preserves the invariant.
LEMMA ScriptDeletesKeeps ==
  ASSUME IInv, NEW o \in Handles, ScriptDeletes(o)
  PROVE  IInv'
<1>1. /\ DeleteMethod(o) \/ (o \in Objects /\ DeleteChild(o))
      /\ UNCHANGED <<managerVars, nodeVars, workVars, cleaned, async>>
      /\ rest = None
  BY DEF ScriptDeletes, ScriptRuns, IInv, WorkInv
<1> QED
  BY <1>1, HeapShrinks DEF workVars

\* BeginCall preserves the invariant: the function is one of a live object's, or a
\* script's.
LEMMA BeginCallKeeps ==
  ASSUME IInv, NEW o \in Handles \cup {None}, NEW f \in Functions, BeginCall(o, f)
  PROVE  IInv'
<1>1. /\ UNCHANGED <<heap, parent, method, functions, scriptVars, stash>>
      /\ UNCHANGED <<nodeCallbacks, objects, dukCallbacks, persistent>>
      /\ UNCHANGED <<fresh, wrappers, held, captures, jobs, answer, rest, cleaned, async>>
      /\ inCall' = [f |-> f, this |-> o]
      /\ f \in functions /\ f \in nodeCallbacks
      /\ o = None \/ (o \in Handles /\ o \in heap /\ o \notin Garbage /\ method[o] = f)
  BY DEF BeginCall, heapVars, managerVars, nodeVars, IInv, TypeOK
<1>2. inCall'.f = f /\ inCall'.this = o
  BY <1>1
<1>3. TypeOK'
  BY <1>1, <1>2 DEF IInv, TypeOK
<1>4. WorkInv'
  BY <1>1 DEF IInv, WorkInv
<1>5. QueueInv' /\ ToMake' = ToMake /\ ToCreate' = ToCreate
  BY <1>1, QueueKept DEF IInv, Onward
<1>6. HandleInv'
  BY <1>1 DEF IInv, HandleInv, Usable
<1>7. LiveMethods' \subseteq LiveMethods
  <2>1. Garbage \subseteq heap' \ Roots' /\ \A y \in Garbage : parent'[y] \in Garbage \cup {None}
    <3>1. Garbage \subseteq (heap \ Roots) \cap Objects
          /\ \A y \in Garbage : parent[y] \in Garbage \cup {None}
      BY GarbageFacts DEF IInv
    <3>2. Roots' \subseteq Roots \cup {f, o}
      BY <1>1, <1>2 DEF Roots
    <3>3. f \notin Garbage /\ o \notin Garbage
      BY <1>1, <3>1 DEF Handles
    <3> QED
      BY <1>1, <3>1, <3>2, <3>3
  <2>2. \A y \in heap' : method'[y] = None \/ (y \in heap /\ method'[y] = method[y])
    BY <1>1
  <2> QED
    BY <2>1, <2>2, LiveMethodsShrink DEF IInv
<1>8. FunctionInv'
  <2>1. Adding' = Adding
    BY <1>1 DEF Adding
  <2>2. Registered' /\ Unknown' /\ AddingInv'
    BY <1>1, <1>5, <2>1 DEF IInv, FunctionInv, Registered, Unknown, AddingInv
  <2>3. AsyncFound' /\ SyncFound'
    BY <1>1, <1>5, <1>7, <2>1 DEF IInv, FunctionInv, AsyncFound, SyncFound
  <2>4. CallInv'
    BY <1>1, <1>2 DEF IInv, FunctionInv, CallInv, SyncFound
  <2> QED
    BY <2>2, <2>3, <2>4 DEF FunctionInv
<1>9. CountExact'
  BY <1>1, <1>5, CountIs DEF IInv, Counted
<1> QED
  BY <1>3, <1>4, <1>5, <1>6, <1>8, <1>9 DEF IInv

\* FinaliseObject preserves the invariant: no other object's method, and no function
\* that is being called as one, is released.
LEMMA FinaliseObjectKeeps ==
  ASSUME IInv, NEW o \in Handles, FinaliseObject(o)
  PROVE  IInv'
<1> DEFINE released == UNION {objects[h] : h \in DOMAIN objects \cap {o}}
<1>1. /\ heap' = heap \ {o} /\ method' = [method EXCEPT ![o] = None]
      /\ parent' = [x \in Objects |-> IF o \in {x, parent[x]} THEN None ELSE parent[x]]
      /\ UNCHANGED <<functions, scriptVars, stash, fresh, wrappers, held, captures>>
      /\ UNCHANGED <<jobs, answer, rest, inCall, cleaned, async, dukCallbacks>>
      /\ nodeCallbacks' = nodeCallbacks \ released
      /\ persistent' = [f \in Functions |-> IF f \in released \cap nodeCallbacks
                                            THEN "weak" ELSE persistent[f]]
      /\ objects' = [h \in DOMAIN objects |-> IF h = o THEN {} ELSE objects[h]]
      /\ o \in Garbage
  BY DEF FinaliseObject, dukObjectDestroyed, Release, nodeVars, workVars
<1>2. /\ o \in heap /\ o \notin Roots /\ o \in Objects
      /\ Garbage \subseteq (heap \ Roots) \cap Objects
      /\ \A x \in Garbage : parent[x] \in Garbage \cup {None}
  BY <1>1, GarbageFacts DEF IInv
<1>3. \A f : f \in released <=> o \in DOMAIN objects /\ f \in objects[o]
  OBVIOUS
<1> HIDE DEF released
<1>4. o # Global /\ o \notin stash /\ o \notin scriptVars /\ (inCall # None => inCall.this # o)
  BY <1>2 DEF Roots
<1>5. async => released = {}
  <2>1. ASSUME async, o \in DOMAIN objects
        PROVE  FALSE
    <3>1. Counted(o)
      BY <2>1, CountIs DEF IInv
    <3>2. o \notin ToCreate
      <4>1. ASSUME NEW i \in DOMAIN jobs, jobs[i].op = "createObject", jobs[i].target = o
            PROVE  FALSE
        <5>1. Operands(jobs[i])
          BY DEF IInv, QueueInv, JobInv
        <5> QED
          BY <1>2, <4>1, <5>1 DEF Operands
      <4> QED
        BY <4>1 DEF ToCreate
    <3> QED
      BY <1>4, <2>1, <3>1, <3>2 DEF Counted, IInv, WorkInv, HandleInv
  <2> QED
    BY <1>3, <2>1
<1>6. TypeOK'
  <2>1. heap' \subseteq Handles /\ Global \in heap' /\ stash \subseteq heap' \cup Callbacks
        /\ scriptVars \subseteq heap' \cup functions
    BY <1>1, <1>4 DEF IInv, TypeOK
  <2>2. parent' \in [Objects -> heap' \cup {None}]
    BY <1>1 DEF IInv, TypeOK
  <2>3. inCall = None \/ (inCall.f \in functions /\ inCall.this \in heap' \cup {None})
    BY <1>1, <1>4 DEF IInv, TypeOK
  <2>4. method' \in [Handles -> functions \cup {None}]
    BY <1>1 DEF IInv, TypeOK
  <2> QED
    BY <1>1, <2>1, <2>2, <2>3, <2>4 DEF IInv, TypeOK
<1>7. WorkInv'
  BY <1>1 DEF IInv, WorkInv
<1>8. QueueInv' /\ ToMake' = ToMake /\ ToCreate' = ToCreate
  BY <1>1, QueueKept DEF IInv, Onward
<1>9. HandleInv'
  <2>1. Usable' \subseteq Usable \cup {}
    BY <1>1, UsableGrows
  <2>2. \A x \in Handles : method'[x] # None => x \in heap'
    BY <1>1 DEF IInv, HandleInv, TypeOK
  <2> QED
    BY <1>1, <2>1, <2>2 DEF IInv, HandleInv
<1>10. LiveMethods' \subseteq LiveMethods
  <2> DEFINE S == Garbage \ {o}
  <2>1. S \in SUBSET (heap' \ Roots') /\ \A x \in S : parent'[x] \in S \cup {None}
    <3>1. Roots' = Roots
      BY <1>1 DEF Roots
    <3>2. \A x \in S : x \in Objects /\ parent'[x] = IF parent[x] = o THEN None ELSE parent[x]
      BY <1>1, <1>2
    <3> QED
      BY <1>1, <1>2, <3>1, <3>2
  <2> HIDE DEF S
  <2>2. S \subseteq Garbage'
    BY <2>1 DEF Garbage
  <2>3. heap' \ Garbage' \subseteq heap \ Garbage /\ o \notin heap'
    BY <1>1, <2>2 DEF S
  <2> QED
    BY <1>1, <2>3 DEF LiveMethods, IInv, TypeOK
<1>11. FunctionInv'
  <2>1. Adding' = Adding /\ (\A f \in Adding : f \notin nodeCallbacks)
    BY <1>1 DEF Adding, IInv, FunctionInv, AddingInv
  <2>2. Registered' /\ Unknown'
    BY <1>1, <1>8, <2>1 DEF IInv, FunctionInv, Registered, Unknown
  <2>3. AddingInv'
    <3>1. ASSUME rest # None, rest.op = "addCallback"
          PROVE  rest.target # o /\ rest.target \in Handles
      BY <1>4, <3>1 DEF IInv, WorkInv, HandleInv
    <3> QED
      BY <1>1, <3>1 DEF IInv, FunctionInv, AddingInv, TypeOK
  <2>4. AsyncFound'
    BY <1>1, <1>5, <1>8 DEF IInv, FunctionInv, AsyncFound
  <2>5. SyncFound'
    <3>1. ASSUME ~async, NEW f \in LiveMethods', f \in released
          PROVE  FALSE
      <4>1. PICK x \in heap' : method'[x] = f /\ f # None
        BY <3>1 DEF LiveMethods
      <4>2. x # o /\ x \in Handles /\ method[x] = f
        BY <1>1, <4>1 DEF IInv, TypeOK
      <4> QED
        BY <1>3, <3>1, <4>2 DEF IInv, FunctionInv, SyncFound
    <3>2. ~async => LiveMethods' \ cleaned' \subseteq nodeCallbacks' \cup Adding'
      BY <1>1, <1>10, <2>1, <3>1 DEF IInv, FunctionInv, SyncFound
    <3>3. ASSUME ~async, NEW h \in DOMAIN objects', NEW x \in Handles, method'[x] \in objects'[h]
          PROVE  x = h
      <4>1. h \in DOMAIN objects /\ method'[x] \in objects[h] /\ None \notin objects[h]
        BY <1>1, <3>3 DEF IInv, TypeOK
      <4>2. method'[x] = method[x]
        BY <1>1, <4>1 DEF IInv, TypeOK
      <4> QED
        BY <3>3, <4>1, <4>2 DEF IInv, FunctionInv, SyncFound
    <3> QED
      BY <1>1, <3>2, <3>3 DEF SyncFound
  <2>6. CallInv'
    BY <1>1, <1>3, <1>4, <1>5 DEF IInv, FunctionInv, CallInv
  <2> QED
    BY <2>2, <2>3, <2>4, <2>5, <2>6 DEF FunctionInv
<1>12. CountExact'
  BY <1>1, <1>8, CountIs DEF IInv, Counted
<1> QED
  BY <1>6, <1>7, <1>8, <1>9, <1>11, <1>12 DEF IInv

\* FinaliseFunction preserves the invariant: the function is nobody's any more.
LEMMA FinaliseFunctionKeeps ==
  ASSUME IInv, NEW f \in Functions, FinaliseFunction(f)
  PROVE  IInv'
<1>1. /\ f \in functions /\ f \notin LiveFunctions
      /\ functions' = functions \ {f}
      /\ method' = [o \in Handles |-> IF method[o] = f THEN None ELSE method[o]]
      /\ UNCHANGED <<heap, parent, scriptVars, stash, fresh, wrappers, held, captures>>
      /\ UNCHANGED <<jobs, answer, rest, inCall, cleaned, async, dukCallbacks>>
      /\ nodeCallbacks' = nodeCallbacks \ {f}
      /\ persistent' = [g \in Functions |-> IF g \in {f} \cap nodeCallbacks
                                            THEN "weak" ELSE persistent[g]]
      /\ objects' = [h \in DOMAIN objects |-> objects[h] \ {f}]
  BY DEF FinaliseFunction, nodeCallbackDereferencedInDuk, Release, nodeVars, workVars
<1>2. f \notin Roots /\ (\A o \in heap \ Garbage : method[o] # f)
  BY <1>1 DEF LiveFunctions
<1>3. f \notin scriptVars /\ (inCall # None => inCall.f # f)
  BY <1>2 DEF Roots
<1>4. f \notin Adding
  <2>1. ASSUME rest # None, rest.op = "addCallback", rest.arg = f
        PROVE  FALSE
    <3>1. rest.target \in stash /\ rest.target \in Handles /\ method[rest.target] = f
      BY <2>1 DEF IInv, WorkInv, HandleInv, FunctionInv, AddingInv
    <3>2. rest.target \in heap /\ rest.target \in Roots
      BY <3>1 DEF Roots, IInv, TypeOK, Handles
    <3>3. rest.target \notin Garbage
      BY <3>2, GarbageFacts DEF IInv
    <3> QED
      BY <1>2, <3>1, <3>2, <3>3
  <2> QED
    BY <2>1 DEF Adding
<1>5. TypeOK'
  BY <1>1, <1>3 DEF IInv, TypeOK
<1>6. WorkInv'
  BY <1>1 DEF IInv, WorkInv
<1>7. QueueInv' /\ ToMake' = ToMake /\ ToCreate' = ToCreate
  BY <1>1, QueueKept DEF IInv, Onward
<1>8. HandleInv'
  <2>1. Usable' \subseteq Usable \cup {}
    BY <1>1, UsableGrows
  <2> QED
    BY <1>1, <2>1 DEF IInv, HandleInv
<1>9. f \notin ToMake
  <2>1. ASSUME NEW i \in DOMAIN jobs, jobs[i].op = "setProperty", jobs[i].arg = f
        PROVE  FALSE
    <3>1. Operands(jobs[i])
      BY DEF IInv, QueueInv, JobInv
    <3> QED
      BY <1>1, <2>1, <3>1 DEF Operands
  <2> QED
    BY <2>1 DEF ToMake
<1>10. FunctionInv'
  <2>1. Adding' = Adding /\ LiveMethods' \subseteq LiveMethods \ {f}
    BY <1>1, <1>2 DEF Adding, LiveMethods, Garbage, Roots, IInv, TypeOK
  <2>2. Registered' /\ Unknown'
    BY <1>1, <1>4, <1>7, <2>1 DEF IInv, FunctionInv, Registered, Unknown
  <2>3. AddingInv'
    <3>1. rest # None /\ rest.op = "addCallback" => rest.arg # f /\ rest.target \in Handles
      BY <1>4 DEF Adding, IInv, WorkInv
    <3> QED
      BY <1>1, <3>1 DEF IInv, FunctionInv, AddingInv, TypeOK
  <2>4. AsyncFound' /\ CallInv'
    BY <1>1, <1>3, <1>7, <1>9 DEF IInv, FunctionInv, AsyncFound, CallInv
  <2>5. SyncFound'
    <3>1. \A h \in DOMAIN objects : None \notin objects[h]
      BY DEF IInv, TypeOK
    <3> QED
      BY <1>1, <2>1, <3>1 DEF IInv, FunctionInv, SyncFound
  <2> QED
    BY <2>2, <2>3, <2>4, <2>5 DEF FunctionInv
<1>11. CountExact'
  BY <1>1, <1>7, CountIs DEF IInv, Counted
<1> QED
  BY <1>5, <1>6, <1>7, <1>8, <1>10, <1>11 DEF IInv

--------------------------------------------------------------------------------
(* The theorems.                                                              *)

\* Every step preserves the invariant.
LEMMA Step ==
  ASSUME IInv, [Next]_vars
  PROVE  IInv'
<1>1. CASE UNCHANGED vars
  <2>1. /\ UNCHANGED <<heap, method, functions, scriptVars, stash, managerVars, fresh>>
        /\ UNCHANGED <<parent, wrappers, captures, held, jobs, answer, rest, inCall, cleaned, async>>
    BY <1>1 DEF vars, heapVars, managerVars, nodeVars, workVars
  <2>2. TypeOK'
    BY <2>1 DEF IInv, TypeOK, managerVars
  <2>3. LiveMethods' = LiveMethods
    BY <2>1 DEF LiveMethods, Garbage, Roots
  <2> QED
    BY <2>1, <2>2, <2>3, HeapOnly
<1>2. ASSUME NEW o \in Handles, NEW f \in Functions, NEW closure \in SUBSET {o},
             SetProperty(o, f, closure)
      PROVE  IInv'
  BY <1>2, SetPropertyKeeps
<1>3. ASSUME NEW o \in Handles, NEW op \in {"deleteMethod", "deleteChild"}, DeleteProperty(op, o)
      PROVE  IInv'
  BY <1>3, DeletePropertyKeeps
<1>4. ASSUME NEW o \in Handles, NEW x \in Objects, CreateObject(o, x)
      PROVE  IInv'
  BY <1>4, CreateObjectKeeps
<1>5. ASSUME NEW o \in Handles, ScriptDeletes(o) \/ FinaliseObject(o)
      PROVE  IInv'
  BY <1>5, ScriptDeletesKeeps, FinaliseObjectKeeps
<1>6. ASSUME NEW w \in Handles \cup Callbacks, Drop(w) \/ CollectWrapper(w)
      PROVE  IInv'
  BY <1>6, DropKeeps, CollectWrapperKeeps
<1>7. ASSUME NEW c \in Callbacks, GiveCallback(c) \/ CallCallback(c)
      PROVE  IInv'
  BY <1>7, GiveCallbackKeeps, CallCallbackKeeps
<1>8. ASSUME NEW f \in Functions,
             \/ \E o \in Handles \cup {None} : BeginCall(o, f)
             \/ FinaliseFunction(f)
             \/ FreePersistent(f)
      PROVE  IInv'
  BY <1>8, BeginCallKeeps, FinaliseFunctionKeeps, FreePersistentKeeps
<1>9. ASSUME NEW x \in Objects \cup Functions, ScriptTakes(x) \/ ScriptDrops(x)
      PROVE  IInv'
  BY <1>9, ScriptTakesKeeps, RootsShrink
<1>10. ASSUME GetGlobalObject \/ CleanRefs \/ Finish \/ RunJob \/ Answer \/ UseCallback
       PROVE  IInv'
  BY <1>10, GetGlobalObjectKeeps, CleanRefsKeeps, FinishKeeps, RunJobKeeps, AnswerKeeps, RootsShrink
<1>11. CASE Next
  <2>1. ASSUME NEW o \in Handles,
               \/ \E f \in Functions, closure \in {{}, {o}} : SetProperty(o, f, closure)
               \/ \E op \in {"deleteMethod", "deleteChild"} : DeleteProperty(op, o)
               \/ \E x \in Objects : CreateObject(o, x)
               \/ ScriptDeletes(o)
               \/ FinaliseObject(o)
        PROVE  IInv'
    BY <1>2, <1>3, <1>4, <1>5, <2>1
  <2> QED
    BY <1>6, <1>7, <1>8, <1>9, <1>10, <1>11, <2>1 DEF Next
<1> QED
  BY <1>1, <1>11

\* The invariant holds in every state.
THEOREM Invariance == SafeSpec => []IInv
<1>1. Init => IInv
  BY Start
<1>2. IInv /\ [Next]_vars => IInv'
  BY Step
<1> QED
  BY <1>1, <1>2, PTL DEF SafeSpec

\* The variables of References are of their types.
THEOREM TypeCorrect == SafeSpec => []TypeOK
<1>1. IInv => TypeOK
  BY DEF IInv
<1> QED
  BY <1>1, Invariance, PTL

\* A method's node function is found by its callback ID and is alive, and a handle
\* found is not deleted before it is used (functionCall, functionFinalised).
THEOREM CallbacksFound == SafeSpec => []CallbackFound
<1>1. ASSUME IInv
      PROVE  CallbackFound
  <2>1. LiveMethods \subseteq functions /\ LiveFunctions \subseteq functions
        /\ functions \subseteq Functions
    BY <1>1 DEF IInv, TypeOK, LiveMethods, LiveFunctions
  <2>2. rest = None => Adding = {}
    BY DEF Adding
  <2>3. Found(IF async THEN LiveFunctions ELSE LiveMethods)
    <3>1. ASSUME rest = None, NEW f \in (IF async THEN LiveFunctions ELSE LiveMethods) \ cleaned
          PROVE  f \in nodeCallbacks
      BY <1>1, <2>1, <2>2, <3>1 DEF IInv, FunctionInv, AsyncFound, SyncFound
    <3>2. \A f \in nodeCallbacks : persistent[f] = "strong"
      BY <1>1 DEF IInv, FunctionInv, Registered, TypeOK
    <3> QED
      BY <3>1, <3>2 DEF Found
  <2>4. inCall # None /\ (async \/ inCall.this # None) => persistent[inCall.f] # "freed"
    BY <1>1 DEF IInv, FunctionInv, CallInv, Registered, TypeOK
  <2> QED
    BY <2>3, <2>4 DEF CallbackFound
<1> QED
  BY <1>1, Invariance, PTL

\* What is registered and kept alive is what Duktape has, or is about to be given
\* (addCallbackFromNode, nodeCallbackDereferencedInDuk, dukObjectDestroyed, cleanAll).
THEOREM NothingIsKept == SafeSpec => []NothingKept
<1>1. IInv => NothingKept
  BY DEF IInv, FunctionInv, Registered, Adding, ToMake, NothingKept, TypeOK
<1> QED
  BY <1>1, Invariance, PTL

\* A wrapper's handle and those of the job that D comes to are in the stash
\* (derefObject, derefCallback).
THEOREM HandlesAlwaysResolve == SafeSpec => []HandlesResolve
<1>1. ASSUME IInv
      PROVE  HandlesResolve
  <2>1. wrappers \subseteq stash
    BY <1>1 DEF IInv, HandleInv
  <2>2. ASSUME jobs # << >>
        PROVE  /\ Head(jobs).op \in {"setProperty", "deleteMethod", "runCallback"}
                    => Head(jobs).target \in stash
               /\ Head(jobs).op = "createObject" => Head(jobs).arg \in stash
    <3>1. PICK j \in JobType : j = Head(jobs) /\ j = jobs[1] /\ 1 \in DOMAIN jobs
      BY <1>1, <2>2, Taken DEF IInv, TypeOK
    <3>2. JobInv(j)
      BY <1>1, <3>1 DEF IInv, QueueInv
    <3>3. j.target \in Handles \cup Callbacks
      BY <3>1 DEF JobType
    <3> QED
      BY <3>1, <3>2, <3>3 DEF JobInv, Operands, Resolves, FindsBy
  <2> QED
    BY <2>1, <2>2 DEF HandlesResolve
<1> QED
  BY <1>1, Invariance, PTL

\* getObjectReferenceCount counts the scopes and the objects being created.
THEOREM CountStaysExact == SafeSpec => []CountExact
<1>1. IInv => CountExact
  BY DEF IInv
<1> QED
  BY <1>1, Invariance, PTL

\* A persistent handle that V8 has freed is not used again (SetWeak).
THEOREM HandlesFreedOnce == SafeSpec => WeakOnce
<1> DEFINE Once == \A f \in Functions : persistent[f] = "freed" => persistent'[f] = "freed"
<1>1. ASSUME IInv, Next
      PROVE  Once
  <2>1. CASE UNCHANGED persistent
    BY <2>1
  <2>2. ASSUME NEW o, NEW f \in Functions, NEW closure, SetProperty(o, f, closure)
        PROVE  Once
    <3>1. persistent[f] = "none" /\ persistent' = [persistent EXCEPT ![f] = "strong"]
      BY <1>1, <2>2 DEF SetProperty, NewFunction, IInv, FunctionInv, Unknown
    <3> QED
      BY <1>1, <3>1 DEF IInv, TypeOK
  <2>3. ASSUME NEW released, Release(released)
        PROVE  Once
    <3>1. \A f \in nodeCallbacks : persistent[f] = "strong"
      BY <1>1 DEF IInv, FunctionInv, Registered, TypeOK
    <3> QED
      BY <2>3, <3>1 DEF Release
  <2>4. ASSUME NEW o \in Handles, FinaliseObject(o)
        PROVE  Once
    BY <2>3, <2>4 DEF FinaliseObject, dukObjectDestroyed
  <2>5. ASSUME NEW f \in Functions, FinaliseFunction(f)
        PROVE  Once
    BY <2>3, <2>5 DEF FinaliseFunction, nodeCallbackDereferencedInDuk
  <2>6. CASE CleanRefs
    BY <2>3, <2>6 DEF CleanRefs, cleanAll
  <2>7. ASSUME NEW f \in Functions, FreePersistent(f)
        PROVE  Once
    BY <1>1, <2>7 DEF FreePersistent, IInv, TypeOK
  <2>8. ASSUME NEW o \in Handles,
               \/ \E op \in {"deleteMethod", "deleteChild"} : DeleteProperty(op, o)
               \/ \E x \in Objects : CreateObject(o, x)
               \/ ScriptDeletes(o)
        PROVE  UNCHANGED persistent
    BY <2>8 DEF DeleteProperty, CreateObject, ScriptDeletes, managerVars
  <2>9. ASSUME NEW w \in Handles \cup Callbacks, Drop(w) \/ CollectWrapper(w)
        PROVE  UNCHANGED persistent
    BY <2>9 DEF Drop, CollectWrapper, managerVars, removeNodeObjectHandle
  <2>10. ASSUME NEW c \in Callbacks, GiveCallback(c) \/ CallCallback(c)
         PROVE  UNCHANGED persistent
    BY <2>10 DEF GiveCallback, CallCallback, managerVars
  <2>11. ASSUME NEW o, NEW f, BeginCall(o, f)
         PROVE  UNCHANGED persistent
    BY <2>11 DEF BeginCall, managerVars
  <2>12. ASSUME NEW x, ScriptTakes(x) \/ ScriptDrops(x)
         PROVE  UNCHANGED persistent
    BY <2>12 DEF ScriptTakes, ScriptDrops, managerVars
  <2>13. CASE GetGlobalObject \/ RunJob \/ Answer \/ UseCallback
    BY <2>13 DEF GetGlobalObject, RunJob, Answer, UseCallback, managerVars
  <2>14. CASE Finish
    <3>1. rest.op \in {"addCallback"} \cup MakeOps \cup DerefOps
      BY <1>1, <2>14 DEF Finish, IInv, WorkInv
    <3> QED
      BY <2>14, <3>1 DEF Finish, removeNodeObjectHandle, MakeOps, DerefOps
  <2> HIDE DEF Once
  <2> QED
    BY <1>1, <2>1, <2>2, <2>4, <2>5, <2>6, <2>7, <2>8, <2>9, <2>10, <2>11, <2>12, <2>13, <2>14
       DEF Next
<1>2. IInv /\ [Next]_vars => [Once]_vars
  BY <1>1
<1> QED
  BY <1>2, Invariance, PTL DEF SafeSpec, WeakOnce

================================================================================
