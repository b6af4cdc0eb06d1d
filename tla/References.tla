------------------------------- MODULE References ------------------------------
(***************************************************************************)
(* The references that V8 and Duktape hold across the border between them, *)
(* for a Context (~async) and an AsyncContext (async), and the             *)
(* ResourceManager that keeps the books:                                   *)
(*                                                                         *)
(*  - an ObjectScope on the node thread M refers to a Duktape object by a  *)
(*    handle; the stash of the Duktape heap keeps the object alive until   *)
(*    V8 collects the scope.  A DukCallback refers to a script's function  *)
(*    in the same way.                                                     *)
(*  - a Duktape function made by setProperty refers to a node function by  *)
(*    a callback ID; a persistent handle keeps the node function alive     *)
(*    until Duktape finalizes its function.                                *)
(*                                                                         *)
(* In a Context all of it happens on M.  In an AsyncContext a method does  *)
(* its part on M and queues a job, and jobs are done in order by the       *)
(* Duktape thread D (which is what AsyncJob's TurnsSpec says).             *)
(***************************************************************************)
EXTENDS Naturals, Sequences, FiniteSets

CONSTANTS Supplies,  \* for a Context (FALSE) and an AsyncContext (TRUE): the sets
                     \* of identifiers that a program may come to use
          Global,    \* handle of the scope that getGlobalObject returns
          Objects,   \* handles of the objects that createObject makes
          Functions, \* callback IDs, one for each setProperty of a function
          Callbacks, \* handles of script functions that node is given
          None,
          MaxJobs    \* bound on the jobs queued when another is

Handles == Objects \cup {Global}

ASSUME ReferencesAssumption ==
  /\ Supplies \in [BOOLEAN -> SUBSET SUBSET (Handles \cup Functions \cup Callbacks)]
  /\ MaxJobs \in Nat
  /\ Global \notin Objects \cup Functions \cup Callbacks
  /\ None \notin Handles \cup Functions \cup Callbacks
  /\ Objects \cap (Functions \cup Callbacks) = {}
  /\ Functions \cap Callbacks = {}

\* A job, or the end of a method: an operation on a handle.
JobType == [op : {"addCallback", "setProperty", "deleteMethod", "deleteChild",
                  "createObject", "getObject", "runCallback", "derefObject",
                  "derefCallback"},
            target : Handles \cup Callbacks, arg : Handles \cup Functions \cup {None}]

ASSUME NoneAssumption == None \notin JobType

VARIABLES
  async,         \* which of the two contexts; never changes
  \* the Duktape heap
  heap,          \* the objects in it that setProperty or createObject can use
  parent,        \* the object whose property holds an object, or None
  method,        \* the function that is an object's property, or None
  functions,     \* the Duktape functions in it that stand for node functions
  scriptVars,    \* what the scripts' variables hold
  stash,         \* the names in its global stash
  \* ResourceManager
  nodeCallbacks, \* _nodeCallbacks: the callback IDs in it
  objects,       \* _objects: from handles to callback IDs
  dukCallbacks,  \* _dukCallbacks
  persistent,    \* the persistent handle of each node function
  \* the node side
  fresh,         \* identifiers not yet used
  wrappers,      \* the ObjectScopes and DukCallbacks not yet collected
  held,          \* those that the program's own variables hold
  captures,      \* those that a node function's closure holds
  \* work under way
  jobs,          \* AsyncContext: the jobs queued for D
  answer,        \* AsyncContext: the job whose result M has yet to make, or None
  rest,          \* Context: the bookkeeping at the end of a method, or None
  inCall,        \* the functionCall that converts its arguments, or None
  cleaned        \* history: the callbacks that cleanRefs has dropped

heapVars    == <<heap, parent, method, functions, scriptVars, stash>>
managerVars == <<nodeCallbacks, objects, dukCallbacks, persistent>>
nodeVars    == <<fresh, wrappers, held, captures>>
workVars    == <<jobs, answer, rest, inCall>>
vars        == <<async, heapVars, managerVars, nodeVars, workVars, cleaned>>

Job(op, target, arg) == [op |-> op, target |-> target, arg |-> arg]

Init == /\ async \in BOOLEAN
        /\ heap = {Global}
        /\ parent = [o \in Objects |-> None]
        /\ method = [o \in Handles |-> None]
        /\ functions = {}
        /\ scriptVars = {}
        /\ stash = {}
        /\ nodeCallbacks = {}
        /\ objects = [h \in {} |-> {}]
        /\ dukCallbacks = {}
        /\ persistent = [f \in Functions |-> "none"]
        /\ fresh \in Supplies[async]
        /\ wrappers = {}
        /\ held = {}
        /\ captures = [f \in Functions |-> {}]
        /\ jobs = << >>
        /\ answer = None
        /\ rest = None
        /\ inCall = None
        /\ cleaned = {}

--------------------------------------------------------------------------------
(* What the two garbage collectors go by.                                     *)

\* The heap's roots; a call holds its function and the object it is a method of.
Roots == {Global} \cup stash \cup scriptVars
           \cup (IF inCall = None THEN {} ELSE {inCall.f, inCall.this})

\* A set of objects is garbage when nothing else leads to it.
Garbage == UNION {S \in SUBSET (heap \ Roots) :
                    \A o \in S : parent[o] \in S \cup {None}}

LiveFunctions == functions \cap (Roots \cup {method[o] : o \in heap \ Garbage})

\* The wrappers that the program can reach: its variables hold them, or the
\* closure of a node function does that a persistent handle keeps.
Usable == held \cup UNION {captures[f] : f \in {g \in Functions : persistent[g] = "strong"}}

\* M runs the program's JavaScript; it does not during a job's last part on M or
\* while an AsyncContext converts the arguments of a node function.
MFree == rest = None /\ (async => inCall = None)

\* The bound on D's queue.
QueueOpen == Len(jobs) < MaxJobs

\* D takes the next job; it waits while M works for the last one or for a script.
DFree == answer = None /\ inCall = None

--------------------------------------------------------------------------------
(* ResourceManager.                                                           *)

addCallbackFromNode(o, f) ==
  /\ nodeCallbacks' = nodeCallbacks \cup {f}
  /\ objects' = [h \in DOMAIN objects \cup {o} |->
                   IF h # o THEN objects[h]
                   ELSE {f} \cup (IF o \in DOMAIN objects THEN objects[o] ELSE {})]

addDukObjectForNode(o) ==
  objects' = [h \in DOMAIN objects \cup {o} |-> IF h = o THEN {} ELSE objects[h]]

\* A plausible mistake: it is left to dukObjectDestroyed.
removeNodeObjectHandle_Kept(o) == UNCHANGED managerVars

removeNodeObjectHandle(o) ==
  /\ objects' = [h \in DOMAIN objects \ {o} |-> objects[h]]
  /\ UNCHANGED <<nodeCallbacks, dukCallbacks, persistent>>

\* Callbacks are forgotten and their persistent handles made weak.
Release(released) ==
  /\ nodeCallbacks' = nodeCallbacks \ released
  /\ persistent' = [f \in Functions |-> IF f \in released \cap nodeCallbacks
                                        THEN "weak" ELSE persistent[f]]

\* A plausible mistake: the entry stays when it has been made weak.
nodeCallbackDereferencedInDuk_Stays(f) ==
  /\ persistent' = [persistent EXCEPT ![f] = "weak"]
  /\ objects' = [h \in DOMAIN objects |-> objects[h] \ {f}]
  /\ UNCHANGED <<nodeCallbacks, dukCallbacks>>

\* Only the entry of the handle that f was set with can list f.
nodeCallbackDereferencedInDuk(f) ==
  /\ Release({f})
  /\ objects' = [h \in DOMAIN objects |-> objects[h] \ {f}]
  /\ UNCHANGED dukCallbacks

dukObjectDestroyed(o) ==
  /\ Release(UNION {objects[h] : h \in DOMAIN objects \cap {o}})
  /\ objects' = [h \in DOMAIN objects |-> IF h = o THEN {} ELSE objects[h]]
  /\ UNCHANGED dukCallbacks

\* A plausible mistake: the map is not cleared.
cleanAll_Kept ==
  /\ persistent' = [f \in Functions |->
       IF f \in nodeCallbacks THEN "weak" ELSE persistent[f]]
  /\ UNCHANGED <<nodeCallbacks, objects, dukCallbacks>>

cleanAll == Release(nodeCallbacks) /\ UNCHANGED <<objects, dukCallbacks>>

--------------------------------------------------------------------------------
(* What the methods do to the heap.                                           *)

\* A plausible mistake: the function is made without its finalizer.
PutFunction_NoFinalizer(o, f) ==
  /\ method' = [method EXCEPT ![o] = f]
  /\ UNCHANGED <<heap, parent, functions, scriptVars, stash>>

\* setProperty: a Duktape function for f becomes a property of o.
PutFunction(o, f) ==
  /\ method' = [method EXCEPT ![o] = f]
  /\ functions' = functions \cup {f}
  /\ UNCHANGED <<heap, parent, scriptVars, stash>>

\* A plausible mistake: the object is not put in the stash.
PutObject_Unstashed(p, o) ==
  /\ heap' = heap \cup {o}
  /\ parent' = [parent EXCEPT ![o] = p]
  /\ UNCHANGED <<method, functions, scriptVars, stash>>

\* createObject: object o, a property of p and in the stash.
PutObject(p, o) ==
  /\ heap' = heap \cup {o}
  /\ parent' = [parent EXCEPT ![o] = p]
  /\ stash' = stash \cup {o}
  /\ UNCHANGED <<method, functions, scriptVars>>

Stash(h)   == stash' = stash \cup {h} /\ UNCHANGED <<heap, parent, method, functions, scriptVars>>
Unstash(h) == stash' = stash \ {h} /\ UNCHANGED <<heap, parent, method, functions, scriptVars>>

\* deleteProperty: o loses its method, or its child x.
DeleteMethod(o) == /\ method' = [method EXCEPT ![o] = None]
                   /\ UNCHANGED <<heap, parent, functions, scriptVars, stash>>
DeleteChild(x)  == /\ parent' = [parent EXCEPT ![x] = None]
                   /\ UNCHANGED <<heap, method, functions, scriptVars, stash>>

--------------------------------------------------------------------------------
(* The program on M calls the methods.  A Context's method changes the heap    *)
(* and then the books, and Duktape may finalize objects in between; an         *)
(* AsyncContext's method changes the books and queues a job.                   *)

NewFunction(f, closure) ==
  /\ persistent' = [persistent EXCEPT ![f] = "strong"]
  /\ captures' = [captures EXCEPT ![f] = closure]
  /\ fresh' = fresh \ {f}
  /\ UNCHANGED <<wrappers, held, dukCallbacks>>

\* A plausible mistake: an AsyncContext makes the entry when the job is done.
SetProperty_Late(o, f, closure) ==
  /\ MFree /\ QueueOpen /\ o \in Usable /\ f \in fresh
  /\ NewFunction(f, closure)
  /\ PutFunction(o, f)
  /\ IF async THEN rest' = None ELSE rest' = Job("addCallback", o, f)
  /\ UNCHANGED <<nodeCallbacks, objects, jobs, answer, inCall, cleaned, async>>

\* ObjectScope.setProperty of a function whose closure captures some wrappers
SetProperty(o, f, closure) ==
  /\ MFree /\ QueueOpen /\ o \in Usable /\ f \in fresh
  /\ NewFunction(f, closure)
  /\ IF async
     THEN /\ addCallbackFromNode(o, f)
          /\ jobs' = Append(jobs, Job("setProperty", o, f))
          /\ UNCHANGED <<heapVars, rest>>
     ELSE /\ PutFunction(o, f)
          /\ rest' = Job("addCallback", o, f)
          /\ UNCHANGED <<nodeCallbacks, objects, jobs>>
  /\ UNCHANGED <<answer, inCall, cleaned, async>>

\* ObjectScope.deleteProperty of a method of o, or of its child
DeleteProperty(op, o) ==
  /\ MFree /\ QueueOpen
  /\ \/ op = "deleteMethod" /\ o \in Usable
     \/ op = "deleteChild" /\ o \in Objects /\ parent[o] \in Usable
  /\ IF async
     THEN jobs' = Append(jobs, Job(op, o, None)) /\ UNCHANGED heapVars
     ELSE /\ IF op = "deleteMethod" THEN DeleteMethod(o) ELSE DeleteChild(o)
          /\ UNCHANGED jobs
  /\ UNCHANGED <<managerVars, nodeVars, answer, rest, inCall, cleaned, async>>

\* ObjectScope.createObject: object o with parent p
CreateObject(p, o) ==
  /\ MFree /\ QueueOpen /\ p \in Usable /\ o \in fresh \cap Objects
  /\ fresh' = fresh \ {o}
  /\ IF async
     THEN /\ addDukObjectForNode(o)
          /\ jobs' = Append(jobs, Job("createObject", o, p))
          /\ UNCHANGED <<heapVars, rest>>
     ELSE /\ PutObject(p, o)
          /\ rest' = Job("createObject", o, p)
          /\ UNCHANGED <<objects, jobs>>
  /\ UNCHANGED <<nodeCallbacks, dukCallbacks, persistent, wrappers, held, captures,
                 answer, inCall, cleaned, async>>

\* Context.getGlobalObject, which is getObject without a name
GetGlobalObject ==
  /\ MFree /\ QueueOpen /\ Global \in fresh
  /\ fresh' = fresh \ {Global}
  /\ IF async
     THEN jobs' = Append(jobs, Job("getObject", Global, None)) /\ UNCHANGED <<heapVars, rest>>
     ELSE Stash(Global) /\ rest' = Job("getObject", Global, None) /\ UNCHANGED jobs
  /\ UNCHANGED <<managerVars, wrappers, held, captures, answer, inCall, cleaned, async>>

\* cleanRefs.  (A node function that an argument's getter calls could do it
\* while inCall: then the call would use a handle that has become weak.)
CleanRefs ==
  /\ MFree /\ inCall = None
  /\ cleanAll
  /\ cleaned' = cleaned \cup nodeCallbacks
  /\ UNCHANGED <<heapVars, nodeVars, workVars, async>>

\* toV8 of a script's function: node is given a DukCallback.
GiveCallback(c) ==
  /\ MFree /\ c \in fresh \cap Callbacks
  /\ fresh' = fresh \ {c}
  /\ Stash(c)
  /\ wrappers' = wrappers \cup {c} /\ held' = held \cup {c}
  /\ dukCallbacks' = dukCallbacks \cup {c}
  /\ UNCHANGED <<nodeCallbacks, objects, persistent, captures, workVars, cleaned, async>>

\* DukCallback.call.  (A Context calls the function in the stash at once.)
CallCallback(c) ==
  /\ MFree /\ async /\ QueueOpen /\ c \in Usable \cap Callbacks
  /\ jobs' = Append(jobs, Job("runCallback", c, None))
  /\ UNCHANGED <<heapVars, managerVars, nodeVars, answer, rest, inCall, cleaned, async>>

\* The program drops a wrapper.
Drop(w) == /\ MFree
           /\ w \in held
           /\ held' = held \ {w}
           /\ UNCHANGED <<heapVars, managerVars, fresh, wrappers, captures, workVars,
                          cleaned, async>>

--------------------------------------------------------------------------------
(* V8's collector on M.                                                       *)

\* A plausible mistake: the stash is not left to the job.
CollectWrapper_AtOnce(w) ==
  /\ rest = None /\ QueueOpen /\ w \in wrappers \ Usable
  /\ wrappers' = wrappers \ {w}
  /\ Unstash(w)
  /\ IF w \in Callbacks
     THEN dukCallbacks' = dukCallbacks \ {w} /\ UNCHANGED <<nodeCallbacks, objects, persistent>>
     ELSE removeNodeObjectHandle(w)
  /\ UNCHANGED <<fresh, held, captures, workVars, cleaned, async>>

\* ~ObjectScope calls derefObject, ~Callback calls derefCallback.
CollectWrapper(w) ==
  /\ rest = None /\ QueueOpen /\ w \in wrappers \ Usable
  /\ wrappers' = wrappers \ {w}
  /\ IF async
     THEN /\ jobs' = Append(jobs, Job(IF w \in Callbacks THEN "derefCallback"
                                                         ELSE "derefObject", w, None))
          /\ IF w \in Callbacks THEN UNCHANGED managerVars ELSE removeNodeObjectHandle(w)
          /\ UNCHANGED <<heapVars, rest>>
     ELSE /\ Unstash(w)
          /\ rest' = Job(IF w \in Callbacks THEN "derefCallback" ELSE "derefObject", w, None)
          /\ UNCHANGED <<managerVars, jobs>>
  /\ UNCHANGED <<fresh, held, captures, answer, inCall, cleaned, async>>

\* finaliseDestroyFunction, when nothing but the weak handle refers to f
FreePersistent(f) ==
  /\ persistent[f] = "weak"
  /\ persistent' = [persistent EXCEPT ![f] = "freed"]
  /\ UNCHANGED <<heapVars, nodeCallbacks, objects, dukCallbacks, nodeVars, workVars, cleaned, async>>

--------------------------------------------------------------------------------
(* The rest of a Context's method; D's jobs and what M does for them.         *)

\* ::ObjectScope for handle o
MakeScope(o) == wrappers' = wrappers \cup {o} /\ held' = held \cup {o}

Finish ==
  /\ rest # None
  /\ rest' = None
  /\ CASE rest.op = "addCallback" ->
            /\ addCallbackFromNode(rest.target, rest.arg)
            /\ UNCHANGED <<dukCallbacks, persistent, wrappers, held>>
       [] rest.op \in {"createObject", "getObject"} ->
            /\ addDukObjectForNode(rest.target)
            /\ MakeScope(rest.target)
            /\ UNCHANGED <<nodeCallbacks, dukCallbacks, persistent>>
       [] rest.op = "derefObject" ->
            removeNodeObjectHandle(rest.target) /\ UNCHANGED <<wrappers, held>>
       [] rest.op = "derefCallback" ->
            /\ dukCallbacks' = dukCallbacks \ {rest.target}
            /\ UNCHANGED <<nodeCallbacks, objects, persistent, wrappers, held>>
  /\ UNCHANGED <<heapVars, fresh, captures, jobs, answer, inCall, cleaned, async>>

\* D does the work of the first job.
RunJob ==
  /\ DFree /\ jobs # << >>
  /\ LET j == Head(jobs) IN
       /\ jobs' = Tail(jobs)
       /\ answer' = IF j.op \in {"createObject", "getObject"} THEN j ELSE None
       /\ CASE j.op = "setProperty"  -> PutFunction(j.target, j.arg)
            [] j.op = "deleteMethod" -> DeleteMethod(j.target)
            [] j.op = "deleteChild"  -> DeleteChild(j.target)
            [] j.op = "createObject" -> PutObject(j.arg, j.target)
            [] j.op = "getObject"    -> Stash(j.target)
            [] j.op = "runCallback"  -> UNCHANGED heapVars
            [] OTHER                 -> Unstash(j.target)
       /\ dukCallbacks' = IF j.op = "derefCallback" THEN dukCallbacks \ {j.target}
                          ELSE dukCallbacks
  /\ UNCHANGED <<nodeCallbacks, objects, persistent, nodeVars, rest, inCall, cleaned, async>>

\* M runs a job's return-value work: the wrapper and, for getObject, the entry.
Answer ==
  /\ answer # None
  /\ answer' = None
  /\ MakeScope(answer.target)
  /\ IF answer.op = "getObject" THEN addDukObjectForNode(answer.target)
     ELSE UNCHANGED objects
  /\ UNCHANGED <<heapVars, nodeCallbacks, dukCallbacks, persistent, fresh, captures,
                 jobs, rest, inCall, cleaned, async>>

--------------------------------------------------------------------------------
(* Scripts, on M in a Context and on D in an AsyncContext, and finalizers.     *)

ScriptRuns == IF async THEN answer = None ELSE rest = None

ScriptTakes(x) ==
  /\ ScriptRuns
  /\ x \in (Objects \cap (heap \ Garbage)) \cup LiveFunctions
  /\ scriptVars' = scriptVars \cup {x}
  /\ UNCHANGED <<heap, parent, method, functions, stash, managerVars, nodeVars, workVars,
                 cleaned, async>>

ScriptDrops(x) ==
  /\ ScriptRuns
  /\ x \in scriptVars
  /\ scriptVars' = scriptVars \ {x}
  /\ UNCHANGED <<heap, parent, method, functions, stash, managerVars, nodeVars, workVars,
                 cleaned, async>>

ScriptDeletes(o) ==
  /\ ScriptRuns
  /\ o \in heap \ Garbage
  /\ \/ method[o] # None /\ DeleteMethod(o)
     \/ o \in Objects /\ parent[o] # None /\ DeleteChild(o)
  /\ UNCHANGED <<managerVars, nodeVars, workVars, cleaned, async>>

\* functionCall up to getNodeCallback: as a method of o, or by itself (o = None).
\* A callback that is not found throws.
BeginCall(o, f) ==
  /\ ScriptRuns /\ inCall = None
  /\ \/ o \in heap \ Garbage /\ method[o] = f
     \/ o = None /\ f \in scriptVars
  /\ f \in functions \cap nodeCallbacks
  /\ inCall' = [f |-> f, this |-> o]
  /\ UNCHANGED <<heapVars, managerVars, nodeVars, jobs, answer, rest, cleaned, async>>

\* functionCall after the conversion of its arguments uses the handle it found.
UseCallback ==
  /\ inCall # None /\ rest = None
  /\ inCall' = None
  /\ UNCHANGED <<heapVars, managerVars, nodeVars, jobs, answer, rest, cleaned, async>>

\* objectFinalised
FinaliseObject(o) ==
  /\ o \in Garbage
  /\ dukObjectDestroyed(o)
  /\ heap' = heap \ {o}
  /\ method' = [method EXCEPT ![o] = None]
  /\ parent' = [x \in Objects |-> IF o \in {x, parent[x]} THEN None ELSE parent[x]]
  /\ UNCHANGED <<functions, scriptVars, stash, nodeVars, workVars, cleaned, async>>

\* functionFinalised
FinaliseFunction(f) ==
  /\ f \in functions \ LiveFunctions
  /\ nodeCallbackDereferencedInDuk(f)
  /\ functions' = functions \ {f}
  /\ method' = [o \in Handles |-> IF method[o] = f THEN None ELSE method[o]]
  /\ UNCHANGED <<heap, parent, scriptVars, stash, nodeVars, workVars, cleaned, async>>

Next ==
  \/ \E o \in Handles : \/ \E f \in Functions, closure \in {{}, {o}} : SetProperty(o, f, closure)
                        \/ \E op \in {"deleteMethod", "deleteChild"} : DeleteProperty(op, o)
                        \/ \E x \in Objects : CreateObject(o, x)
                        \/ ScriptDeletes(o)
                        \/ FinaliseObject(o)
  \/ \E w \in Handles \cup Callbacks : Drop(w) \/ CollectWrapper(w)
  \/ \E c \in Callbacks : GiveCallback(c) \/ CallCallback(c)
  \/ \E f \in Functions : \/ \E o \in Handles \cup {None} : BeginCall(o, f)
                          \/ FinaliseFunction(f)
                          \/ FreePersistent(f)
  \/ \E x \in Objects \cup Functions : ScriptTakes(x) \/ ScriptDrops(x)
  \/ GetGlobalObject \/ CleanRefs \/ Finish \/ RunJob \/ Answer \/ UseCallback

SafeSpec == Init /\ [][Next]_vars

\* The collectors run now and then, and the threads go on.
Spec == /\ SafeSpec
        /\ WF_vars(Finish) /\ WF_vars(RunJob) /\ WF_vars(Answer) /\ WF_vars(UseCallback)
        /\ \A w \in Handles \cup Callbacks : WF_vars(CollectWrapper(w))
        /\ \A o \in Objects : WF_vars(FinaliseObject(o))
        /\ \A f \in Functions : WF_vars(FinaliseFunction(f)) /\ WF_vars(FreePersistent(f))

--------------------------------------------------------------------------------
(* Properties.                                                                *)

\* The variables are of their types.
TypeOK ==
  /\ async \in BOOLEAN
  /\ heap \subseteq Handles /\ Global \in heap
  /\ parent \in [Objects -> heap \cup {None}]
  /\ method \in [Handles -> functions \cup {None}]
  /\ functions \subseteq Functions
  /\ scriptVars \subseteq heap \cup functions
  /\ stash \subseteq heap \cup Callbacks
  /\ nodeCallbacks \subseteq Functions
  /\ DOMAIN objects \subseteq Handles /\ \A h \in DOMAIN objects : objects[h] \subseteq Functions
  /\ dukCallbacks \subseteq Callbacks
  /\ persistent \in [Functions -> {"none", "strong", "weak", "freed"}]
  /\ fresh \subseteq Handles \cup Functions \cup Callbacks
  /\ held \subseteq wrappers /\ wrappers \subseteq Handles \cup Callbacks
  /\ captures \in [Functions -> SUBSET Handles]
  /\ jobs \in Seq(JobType)
  /\ answer \in JobType \cup {None} /\ rest \in JobType \cup {None}
  /\ inCall = None \/ (inCall.f \in functions /\ inCall.this \in heap \cup {None})
  /\ cleaned \subseteq Functions

\* The node functions that are properties of live objects
LiveMethods == {method[o] : o \in heap \ Garbage} \ {None}

\* Every one of the functions is found by its callback ID and kept alive, unless
\* cleanRefs has dropped it.
Found(called) ==
  rest = None => \A f \in called \ cleaned : f \in nodeCallbacks /\ persistent[f] = "strong"

\* The node function of a method that scripts can call is found and alive; in an
\* AsyncContext so is one that a script keeps without its object, of which a Context
\* forgets the callback (Context.cpp:159, 270, AsyncContext.cpp:362).  And a persistent
\* handle found is not deleted before it is used (Context.cpp:302), as long as a
\* Context's function is called as a method.
CallbackFound ==
  /\ Found(IF async THEN LiveFunctions ELSE LiveMethods)
  /\ inCall # None /\ (async \/ inCall.this # None) => persistent[inCall.f] # "freed"

\* A callback is registered only as long as Duktape has, or is about to be
\* given, the function; and exactly those registered are kept from V8's collector.
NothingKept ==
  /\ \A f \in nodeCallbacks :
       f \in functions \/ \E i \in DOMAIN jobs : jobs[i].op = "setProperty" /\ jobs[i].arg = f
  /\ \A f \in Functions :
       persistent[f] = "strong" <=>
         f \in nodeCallbacks \/ (rest # None /\ rest.op = "addCallback" /\ rest.arg = f)

\* A wrapper's handle is in the stash as long as the wrapper can be used, and
\* still is when D comes to a job that was queued by means of it: derefObject and
\* derefCallback do not overtake earlier calls.
HandlesResolve ==
  /\ wrappers \subseteq stash
  /\ jobs # << >> =>
       LET j == Head(jobs) IN
         /\ j.op \in {"setProperty", "deleteMethod", "runCallback"} => j.target \in stash
         /\ j.op = "createObject" => j.arg \in stash

\* What getObjectReferenceCount counts are the ObjectScopes that V8 has not
\* collected and the objects being created ("Should be the global object only",
\* ts-src/tests/Context.ts:533); so an entry is never made by a callback
\* (ResourceManager.cpp:50-53).
CountExact ==
  DOMAIN objects = (wrappers \cap Handles)
    \cup {jobs[i].target : i \in {k \in DOMAIN jobs : jobs[k].op = "createObject"}}
    \cup (IF answer # None /\ answer.op = "createObject" THEN {answer.target} ELSE {})
    \cup (IF rest # None /\ rest.op = "derefObject" THEN {rest.target} ELSE {})

\* A persistent handle is made weak once and deleted once: SetWeak is not called
\* on it again, whichever of functionFinalised, objectFinalised and cleanRefs
\* comes first (ResourceManager.cpp:18-27, 104-158).
WeakOnce == [][\A f \in Functions :
                 persistent[f] = "freed" => persistent'[f] = "freed"]_vars

\* The memory of a context can be given back: if some day the program holds no
\* wrapper any more and no node function, whose closure might hold one, is
\* registered, because Duktape has finalized it or cleanRefs was called, then the
\* stash and the books become empty and V8 is allowed to free every function
\* (~ObjectScope, derefObject, derefCallback, cleanRefs).
AllReleased ==
  <>[](held = {} /\ nodeCallbacks = {})
    => <>[](/\ stash = {} /\ DOMAIN objects = {} /\ dukCallbacks = {}
            /\ \A f \in Functions : persistent[f] \in {"none", "freed"})
================================================================================
