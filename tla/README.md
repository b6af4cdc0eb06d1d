# Verification of duktype

duktype is a Node.js add-on that embeds the Duktape JavaScript engine. A
`Context` runs scripts on the node thread; an `AsyncContext` runs them on a
background thread and answers with promises. These TLA+ modules model what makes
the second one hard: three threads, two kinds of scheduler and one heap without a
lock, tied together by flags, mutexes and condition variables. They also model what
both have in common: the references that two garbage collectors hold across the
border between V8 and Duktape, the promises and values that cross it, and the timers
that scripts are given.

Paths below are relative to the repository's root. The Duktape engine itself
(`duktape/`, four copies of some hundred thousand lines) is vendored and appears only
as a heap of objects and a stack of values.

## The system

| Part | Code | State | Operations | Interacts with |
|---|---|---|---|---|
| Job scheduler | `src/duktype/AsyncJobScheduler.*` | `_workQueue`, `_exiting`, `_threadRunning`, two mutexes, two condition variables, a thread | constructor, `addWork`, `run`, destructor | AsyncContext owns two: *J* carries whole jobs, *D* is the only background user of the heap |
| Node scheduler | `src/duktype/AsyncNodeScheduler.*` | two queues, one `uv_async_t`, a `NodeJob` per task with its own mutex, flag and condition variable | `addWork`, `run`, `handleRunInContext`, `resolvePromise`, destructor | called from J and D, runs tasks on the node thread *M* through libuv |
| Job | `src/duktype/AsyncJob.*` | `_dukFinished`, `_nodeFinished`, two mutexes, two condition variables, arguments, return value, error, `_pops` | `workFunc` on J, `dukFunc` on D, `nodeArgsFunc`, `nodeReturnValueFunc`, `nodeMarshalFunc` on M, `setReturnValue`, `marshalToNodeThread` | all three schedulers; deletes itself |
| AsyncContext | `src/duktype/AsyncContext.*` | the three schedulers, and what Context keeps | fourteen methods that make a job; `functionCall`, `handleDukThen`, `handleDukCatch` called by scripts | makes jobs on M, its lambdas run on D and M |
| Context | `src/duktype/Context.*` | the heap, the resource manager | the same methods, synchronously | ResourceManager, conversion |
| ResourceManager | `src/duktype/ResourceManager.*` | maps of callbacks, handles and promises under one mutex | add, remove, resolve, clean-up, finalizer and weak-reference callbacks | both garbage collectors |
| Promise bridge | `src/duktype/Promise*.*`, parts of Context | promise identifiers, resolvers in the stash | register, then, catch, resolve, reject, finalize | ResourceManager, conversion |
| Object scopes, callbacks | `src/duktype/*Scope.*`, `ObjectHandle.*`, `Callback.*` | a handle or callback name | forward to the context, dereference when collected | Context, AsyncContext |
| Conversion | `src/duktape/*` | the value stack of the heap | `fromV8`, `toV8`, enumeration, calls | everything |
| Timers, promises in JavaScript | `index.js` | `pendingTimers`, `timersEnabled`, `promisesEnabled` | enable, disable, the six timer functions | the contexts' methods |
| Add-on wrappers | `main.cpp`, `src/*.cpp` | none of their own | argument checks, exceptions to thrown errors | the contexts |

How a call travels. An AsyncContext method on M makes an AsyncJob, a promise, and
queues `workFunc` on J. J queues `dukFunc` on D and waits. D pushes a receiver,
asks M to push the arguments (and waits), runs the script, asks M to convert the
result (and waits), restores the stack and wakes J. J queues the settling of the
promise on the node scheduler's priority queue and deletes the job. A script that
calls a node function makes D wait for M in the middle of all that, with a job of
its own.

What is hard about it: each of these hand-overs is a flag, a lock and a
notification that must not be missed; the heap is used by D and M without a lock,
by turns; jobs, NodeJobs and schedulers are freed by one thread while others may
be inside them; M must never wait for itself; and a stack that is not restored
stays so for the life of the context. `PROJECT.json` lists these hazards line by
line.

What makes each part correct:

* Job scheduler: jobs run in order, one at a time, each once; no wakeup is lost;
  constructor and destructor return; nothing is used after the join.
* Node scheduler: one task at a time on M, each exactly once, priority first; the
  one `uv_async_t` loses no ring; no NodeJob is used after it is freed.
* Job: the heap has one user at a time; no answer is missed; nothing is used after
  it is deleted; every promise settles, once and rightly; the stack is balanced.
* ResourceManager: a reference is weak exactly when the other side has let go, and
  is freed once, and everything is given back in the end.
* Promise bridge: the copy of a promise settles after its source, once and in the same
  way; whoever is to be told finds it in the books.
* Conversion: a value that both sides can have comes back as it went, and the stack of
  values is as it was.
* Timers: a pending timer is in the table, a cleared one never fires.
* Teardown: the destructor of an AsyncContext returns, on the node thread, whatever is
  still queued.

## Modules

| Module | Models | Uses |
|---|---|---|
| `SerialExecutor` | what callers rely on from a job scheduler | |
| `AsyncJobScheduler` | the job scheduler, one step per lock, unlock, test, block and notify | refines `SerialExecutor` |
| `AsyncJobScheduler_proofs` | its inductive invariant and refinement, proved | |
| `NodeExecutor` | what callers rely on from the node scheduler | |
| `AsyncNodeScheduler` | the node scheduler with the `uv_async_t` and the NodeJobs | refines `NodeExecutor` |
| `AsyncNodeScheduler_proofs` | its inductive invariant and refinement, proved | |
| `AsyncJob` | the life of a job across J, D and M, and the stack | two `SerialExecutor`s, a `NodeExecutor`; refines `SerialExecutor` |
| `AsyncJob_proofs` | its inductive invariant and refinement, proved | |
| `Timers` | the timer functions of `index.js`, for both contexts | |
| `Timers_proofs` | its inductive invariant, proved | |
| `References` | `ResourceManager` and the handles and callbacks of both contexts, between the two collectors | |
| `References_proofs` | its inductive invariant, proved | |
| `PromiseLinks` | what programs and scripts rely on when promises cross | |
| `PromiseBridge` | promises that cross, in both contexts, with what settles them and what cuts them off | refines `PromiseLinks` |
| `PromiseBridge_proofs` | its inductive invariant and refinement, proved | |
| `Teardown` | the end of an AsyncContext with jobs under way | |
| `Teardown_proofs` | its inductive invariant, proved | |
| `DukValue` | the conversions `fromV8` and `toV8`, step by step on the stack of values | |
| `ContextCalls` | the methods of a Context that convert, with its stack of values | `DukValue` |
| `ContextCalls_proofs` | its inductive invariant, with that of the conversions, proved | |
| `MC*` | instances for TLC | |

The composition is by abstraction. `AsyncJob` would be too large with the
schedulers' own locks in it; it is built on their abstract specifications, which
the detailed modules are shown (TLC, with liveness) and proved (TLAPS, safety) to
implement.

### AsyncJobScheduler

`workQueue`, `exiting`, `threadRunning`, `nextFunc` are the members and the local
of the same names; `queueMutex` and `startMutex` say who holds a mutex; `pc` says
where each thread is. `Ctor*`, `Dtor*`, `Add*` and the rest (`RunBegin` to
`RunEnd`) are the statements of the constructor, destructor, `addWork` and
`run()`. A wait is four steps: the test with the lock held (`WaitTest`), the
block that releases it (`WaitBlock`), a notification or `SpuriousWakeup`, and the
retaking of the lock (`LockQueue`, whose next step tests again). `_threadRunning`
has no initializer, so it starts with either value. A job that throws is one that
returns: `catch(...)`. The destructor starts only when no `addWork` is under way,
because every caller holds a `shared_ptr` for the length of its call.

### AsyncNodeScheduler

A NodeJob is the number of the `addWork` call that made it. `async` is the
`uv_async_t`: rung or not, and its `data`. Ringing an already rung handle is one
ring; `Reinit`, the `uv_async_init` in the handler, forgets a ring. `freed` is the
set of NodeJobs whose last `shared_ptr` is gone. The queue's critical sections are
single steps, since `AsyncJobScheduler` examines the same code at a finer grain;
the `jobMutex` protocol is modelled step by step. `resolvePromise` is a call of
`addWork` with priority. The destructor is not modelled (see below).

### AsyncJob

`Method` says for each AsyncContext method what its job is given: a promise or
not, arguments, what is pushed before and by the work, what a success and a
failure leave on the stack, whether script code runs, and who fetches the result.
The `J...` actions are `workFunc`, the `D...` actions `dukFunc` with
`setReturnValue` and `marshalToNodeThread`, which wait the same way (`AskNode`,
`DTestTrue`, `DTestFalse`, `DBlock`, `DRelock`), the `M...` actions the tasks that
M runs. `top` is the height of the value stack, `pops` is `_pops`; `left` is a history
variable, what of `top` are errors that `fromV8` pushed for promises, in arguments, that
found no `Promise` in the heap (`MArgs`; whether it has one is up to what was evaluated in
it, and is chosen there). Values have no places in this model: that such an error moves
what is set or called next shows in whether the work fails, which is open. `Nested` is
the AsyncJob that `functionCall` makes when D's script calls a node function;
`Stuck` the one made when a script function runs on M during a conversion.
While M is inside a node function it may call AsyncContext methods again.

If a deleted job is touched, the model goes on as if its memory were intact; the
property that forbids it is what reports it.

### Timers

`pendingTimers`, `lastTimerID`, `timersEnabled` and `promisesEnabled` are the
properties of the context that `index.js` keeps; `installed` says which of the six
functions the script's global object has; `async` says which context it is, `timers` are the Node timers made, and
whether each can still fire. For a Context a call of `enableTimers`,
`enablePromises` or `disableTimers` is one step; for an AsyncContext each await ends a
step, and up to `MaxCalls` calls may be under way (`calls` says how far each is). A
timer function runs on the node thread even when a script of an AsyncContext calls it,
so `Set` and `Clear` are steps. `Fire` is Node calling the closure: in a Context the
script's callback runs in it, in an AsyncContext it joins `queue`. Node's `clearTimeout`
leaves an Immediate alone, which is why `Clear` of an immediate disarms nothing.

### References

`heap`, `parent`, `method`, `functions`, `scriptVars` and `stash` are as much of a
Duktape heap as matters: objects, each with one method, held by a parent, a script's
variable or the stash. `nodeCallbacks`, `objects`, `dukCallbacks` are the maps of
`ResourceManager` and `persistent` the state of each `Nan::Persistent`. `wrappers` are
the ObjectScopes and DukCallbacks, which the program's variables (`held`) or the
closures of its node functions (`captures`) hold. Duktape's collector may finalize
whatever its roots do not reach (`FinaliseObject`, `FinaliseFunction`), V8's may collect
whatever the program does not reach (`CollectWrapper`, `FreePersistent`), at any
time; a set of objects that only refer to each other is garbage too.

A Context's method changes the heap and then the books: the second half is `Finish`,
and Duktape's finalizers may run in between. An AsyncContext's method changes the
books, or not, and queues a job; `RunJob` is D's work on it and `Answer` what M does
for its return value. That jobs are done in order is what `TurnsSpec` in `AsyncJob`
says. `functionCall` is two steps, look-up (`BeginCall`) and use (`UseCallback`), since
converting its arguments comes between them. Every identifier is used once, as the
code's UUIDs are; `Supplies` bounds which a run uses. `cleaned` is a history variable: what `cleanRefs` has dropped.

### PromiseBridge

Promises are numbered in the order in which they are made. `side` is the engine that
a promise belongs to, `source` what it is a copy of (`Origin` for one that a program or
a script made), `outcome` how it is settled. `stage` is how far the handlers are that
will settle a copy: `linked` to a pending source, `due` as a microtask or an immediate,
a `job` of an AsyncContext, `done`, or `lost`. `nodePromises` and `dukPromises` are the
two maps of `ResourceManager`, `resolvers` the `Nan::Persistent`s not deleted, `stash`
the copies whose resolvers Duktape's stash holds. `CrossToDuk` is `fromV8` of a promise
with `registerNodePromise`, `CrossToNode` is `toV8` with the two calls that attach the
handlers and `registerDukPromise`. What runs them are `RunMicrotask`
(`Promise::handleThen`, `handleCatch`), `RunImmediate` and, in an AsyncContext,
`RunResolveJob` and `RunHandlerJob`. Of the polyfill there is as much as decides what
becomes of handlers: each is an immediate, and once `disableTimers` has deleted
`setImmediate` (`DisableTimers`, `DeleteSetImmediate`) settling a promise that has
handlers rejects it and loses them. `alarms` and `reported` are the promises returned by
the polyfill's `then` that nobody handles. `CollectContext` is V8 taking a context
that no immediate holds. Jobs do not hold it: those that are queued are lost with it.

### Teardown

`refs` are the holders of a `shared_ptr` to an AsyncContext: its wrapper, those of its
scopes, and for a moment D (`LockContext` to `UnlockContext`, `dukFunc`'s pops). Jobs
only have weak pointers, and their lambdas raw ones. Whoever lets go last is the
`destroyer` and goes through `~AsyncContext` in the order in which members are destroyed:
the node scheduler (`DropNodeScheduler`), J (`StopJobs`, `JoinJobs`), D (`StopDuk`,
`JoinDuk`), the rest. J and D go on meanwhile: each `lock()` that may find nothing is a
step, and dereferencing nothing, or a thread joining itself, is `crashed`. `early` says
that the end began with a promise unsettled. The threads of J and D do what
`AsyncJobScheduler` does, in steps as coarse as the destruction can tell apart.

### DukValue and ContextCalls

A value is a record of what a conversion may keep or lose: its kind, class, items,
properties of its own and inherited, the bytes below a view. `fromV8` and `toV8` call
themselves for the parts of a value. Here each call, each push and each pop is a step:
`value` is what the innermost call is given or returns, `doing` how far it is, and the
calls that wait for it are the sequences `pushing` and `reading`, with what they still
have to do. `fromV8` pushes an empty copy and fills it (`PushEmpty`, `PushPart`,
`SetPart`, `Filled`), each time with what is then on top of the stack; `toV8` keeps an
enumerator, a key and a value on the stack for each call that waits (`Enumerate`,
`ReadPart`, `KeepPart`, `AllRead`). `Kept` is the set of values that are to survive, and
`BothHave` what such a value may be: any of a kind that both sides have, its parts in
`Kept` again.

In `ContextCalls` a method pushes the receiver and the name (`ObjectHandle`, `Calls`),
converts its arguments one after the other (`NextArgument`), lets Duktape act on what is
then on the stack (`PutProperty`, `EnterScript`, `NotFound`), converts the result and
pops. The script sets the property, calls a node function, which works in a `frame` of
its own, returns or throws. `left` is what methods are known to leave, `altered` what
came back changed; `origin`, `sent` and the `was` of `held` remember what a value was
where it came from.

## Runs

| Run | Question | Bounds | Result |
|---|---|---|---|
| `job_scheduler` | is AsyncJobScheduler correct on its own, from constructor to destructor? | 2 jobs, 2 producers, 4 `addWork` calls, 2 spurious wakeups | all hold |
| `node_scheduler` | is AsyncNodeScheduler correct on its own? | 2 producers, 4 tasks of either priority, 2 spurious wakeups of the wait for work | all hold |
| `async_job` | do the hand-overs work for jobs whose result, if any, is a plain value to convert? | 2 jobs of any of 12 methods, 1 node function and 1 promise that finds no `Promise` per job | all hold |
| `async_job_hangs` | what survives lost wakeups, throwing and blocking conversions and spurious wakeups? | 2 jobs of 5 methods that differ in kind, all three kinds of value, 1 promise that finds no `Promise` per job, 1 spurious wakeup | safety holds; the system may stop, so deadlock is not checked |
| `create_object_lost_wakeup` | does the wait for a `createObject` end? | 2 jobs | it need not |
| `settled_promise_blocks_node` | does a job leave the node thread free? | 2 jobs | not if the result is a settled promise |
| `timers` | does the table tell the truth, and do cleared timers stay quiet? | Context: 4 calls, 3 timers; AsyncContext: 2 calls, suspended at any await, 2 timers, 2 queued callbacks | all hold |
| `references` | does each side keep what the other uses, and give it back? | the global object and another; Context: 2 node functions, or 1 and 1 script function; AsyncContext: the latter, 2 jobs queued | all hold |
| `promises` | do copies of promises follow their sources? | 4 promises, both contexts | all hold; programs may stop making promises, so deadlock is not checked |
| `rejected_promise_reported` | is a rejection that Node is told of reported as unhandled? | 2 promises, both contexts | it is |
| `teardown` | does an AsyncContext die well? | 3 scopes, 3 calls | all hold; the end is a stop, so deadlock is not checked |
| `context_calls` | do values survive, and is the stack balanced? | 7 values of Node and 8 of scripts, nested up to three deep, all kinds among them and their parts, calls with up to 2 arguments, 1 node function per script, 2 slots left | all hold |

Why the bounds are enough. Two producers and a worker give every pair of
interleaved critical sections; a third `addWork` finds the worker before, in and
after its wait; four leave something queued when the destructor begins. Two jobs
are what it takes for one to overtake, wake, delete or settle for another, and for
J to start the next job while D and M are still leaving the last. One node
function per job puts D's wait inside a script; a second one is a repetition.
Arguments matter as none or some; a second promise among them leaves one more of the
same. `setProperty` is called with the number of
arguments its documentation gives. Three timers are one of each type, or two that may
be taken for each other and one beside them; two suspended calls are two enabling ones
that overlap, or one that disables under one that enables. An object with a method beside the global object is the smallest heap
with a reference that crosses the border both ways, and a second node function can
replace the first as the method while the first is being finalized or called. Every
collection may happen before, between and after any other two steps. Four promises let
one cross, come back and cross again, or two copies be made of one source and one of them
be copied. Three calls under way are one in D, one in J and one queued; three scopes
leave a dereference in each of these places while the wrapper goes. Each kind of value
goes each way, alone or as a part of another; two arguments tell first, last, one place
off and swapped; what methods leave on the stack is never read again, so two slots are
as good as many.

What the checks say, property by property, is in the comments of the modules. The
ones that a reader should know first:

* `ExecutorSpec` in both schedulers: refinement of the abstract one, liveness
  included.
* `NoLostSignal`: the handler's `uv_async_init` on a live handle never wipes out a
  ring, because the scheduler thread rings again only after the notification that
  follows it. Moving the notification up two lines breaks it.
* `OwnerReturns`: the constructor and the destructor return, whatever `_threadRunning`
  is before it is set.
* `OneHeapUser`: the absence of a lock on the heap is made good by the waits.
* `TurnsSpec`: seen from M the whole AsyncContext is again a `SerialExecutor`, so a
  handle's removal never overtakes an earlier use.
* `TableExact`: the table, the IDs and Node's timers agree whatever fires or is cleared
  between two steps; two overlapping `enableTimers` are the one way to lose timers.
* `CallbackFound` and `NothingKept`: a node function is kept exactly as long as Duktape
  can call it. `AllReleased`: nothing is kept for ever once the program has let go.
* `HandlesResolve`: the deletion of a handle never overtakes a use of it.
* `LinkSpec`: refinement of `PromiseLinks`, liveness included, with copies of copies.
* `BooksExact`: what the two maps, the persistents and the stash hold at every step,
  and the only reasons for a copy to be cut off.
* `SafeWhenSettled` and `TeardownReturns`: if every promise was settled when the last
  wrapper was collected, the dereferences still queued do no harm.
* `ThereAndBack`: no value changes on its way but those that `BothHave` rules out, or
  that contain such a one.
* `StackAccounted`: exactly what leaves how much on the stack, and that nothing else
  does; in `AsyncJob` for jobs that fail, in `ContextCalls` for a Context's methods.

## Findings

1. `src/duktype/AsyncJob.cpp:331`: `_nodeFinished` is set outside the lock, and for
   `createObject` and `getObject` the lock is never taken. The notification can fall
   between D's test of the flag and its block: D sleeps for ever, with the job's
   promise and every later job of the context. (For the other methods the lock taken
   at line 314 happens to make M wait until D sleeps.)
2. `src/duktype/AsyncJob.cpp:235`: when the result of a job is a promise that the
   script has already settled, converting it on M runs the polyfill's `then`, which
   calls `setImmediate`, a node function. The call waits on M for a task of M.
3. `src/duktape/DukValue.cpp:552`: `catch` is called on the original promise, not on the
   one that `then` has returned, as the comment at line 533 has it. The returned promise
   is rejected with nobody to handle it, and the script's polyfill reports a rejection
   that the program has received.

No text of the repository speaks of the following. The models have them, and the
properties named except them or say what they amount to:

* `StackAccounted`: a failing `callMethod` or `runCallback` of an AsyncContext, and
  `getObject` of what is no object, leave a value on the stack for good
  (`AsyncContext.cpp:618`); in a Context each `getProperty` does (`Context.cpp:413`) and
  each `getObject` of no object, a plain buffer among them. In both contexts each promise
  given to a script without `enablePromises` does, alone or in an array or object: for it
  `fromV8` pushes two values (`DukValue.cpp:216-221`). That also puts whatever is called
  or set next one place off: an AsyncContext's `setProperty` succeeds, having set a property
  of the error.
* `NoUseAfterDelete`: `dukFunc` notifies after it unlocks (`AsyncJob.cpp:213`); if
  `workFunc` wakes up by itself in between, the job is deleted before it is notified.
* `EnabledHasTimers`: `disableTimers` does not reset `timersEnabled` (`index.js:8`, `110`),
  so timers cannot be enabled again, and a later `enablePromises` may evaluate a polyfill
  that finds no `setTimeout`.
* `TableExact`, `ClearedIsDisarmed`, `DisableStopsAll`: the scripts' `clearImmediate`
  calls Node's `clearTimeout` (`index.js:63`, `163`), so a cleared immediate fires all
  the same; a timer that a script sets between the awaits of an AsyncContext's
  `disableTimers` (`index.js:229`) stays armed.
* `CallbackFound`: a Context's `derefObject` lets Duktape finalize an object before it
  removes its entry (`Context.cpp:159`), and the finalizer drops the callbacks of all
  methods set on it, even of one that a script has kept in a variable. AsyncContext does
  it in the other order.
* `BooksExact`: an AsyncContext's `catchPromise` leaves the promise registered
  (`AsyncContext.cpp:98`), its handlers never delete the resolver's `Persistent` (line 143)
  and take the promise off the books before a conversion that may throw (line 129), which
  leaves the copy pending for good. `disableTimers` cuts copies off or rejects them.
* `ThereAndBack`: a view of a part of an `ArrayBuffer` brings all of it, a string ends at
  its first NUL, enumerations include what is inherited, the message of an `Error` gains
  an `Uncaught Error: ` each time it goes into Duktape.
* `SafeWhenSettled`: with a promise unsettled, the end of an AsyncContext may find null
  pointers, or run on D, which then joins itself.

## Fairness

`AsyncJobScheduler`, `AsyncNodeScheduler` and `AsyncJob` assume weak fairness of
each thread: a thread that can run goes on running. The operating system's
scheduler gives that. It includes that jobs, scripts and node functions return and
that the node thread's event loop serves a rung handle. A thread that waits for a
mutex is given it if it stays free; no lock is held in a loop, so nothing stronger
is needed. Nothing is assumed of calls into the system: nobody has to call
`addWork`, an AsyncContext method or the destructor, and a wait never has to wake
up by itself. `Teardown` assumes the same of J, D, the destroying thread and the event loop;
`PromiseBridge` that the event loop serves microtasks and immediates and the Duktape
thread its jobs, but not that anybody settles a promise of their own.

`References` assumes, for `AllReleased`, that what is under way goes on and that each
collector in the end collects what it finds to be garbage: V8's runs as the program
allocates, Duktape's by reference counting and in `runGC`. `Timers` has no liveness
property: nothing makes Node's timers fire within a bound, nor scripts clear them.
`ContextCalls` has none either: whether its methods return is up to the scripts.

## Proofs

The proof modules are checked by TLAPS for every value of the constants: any sets
of jobs, producers and scopes, any bounds on calls, promises and spurious wakeups.

`AsyncJobScheduler_proofs`. The invariant `Inv` adds to the properties what makes
them inductive: who holds each mutex at which label (`QueueMutexInv`,
`StartMutexInv`); that a worker about to block has seen an empty queue and no order
to stop, and nobody has changed that since, because it still holds the lock
(`BlockInv`) - the heart of the argument that no wakeup is lost; when `nextFunc` is
set (`ExecInv`); and which phases of the object's life go together (`PhaseInv`).
From it follow `TypeCorrect`, `NoWakeupLost`, `Destroyed`, and, step by step,
`ImplementsExecutor`.

`AsyncNodeScheduler_proofs`. The invariant says that queued NodeJobs are distinct
and not yet run (`QueueInv`), that a NodeJob is run, marked and freed in this order
(`LifeInv`), and, in `HandOverInv`, that the two threads are in one of five
situations: nothing sent, rung, in the handler, done but not notified, notified.
The theorems `TypeCorrect`, `HandlerSafe`, `NothingLost` and `ImplementsExecutor`
assume that the wait for `jobDone` returns only when notified (`"jobAwait" \notin
SpuriousWaits`). Without that they are false: TLC refutes `NodeJobAlive` within a
few steps, because the NodeJob can then be freed between the handler's unlock and
its notification (`src/duktype/AsyncNodeScheduler.cpp:78-83`). The wait for work may
wake up spuriously.

`AsyncJob_proofs`. `IInv` says, of each thread, what it may be doing given where the
others are, and has a part for each of them. `JobInv`: jobs that wait for J are distinct
and nobody has touched them. `DukInv`: D has the job that J waits for, or is about to leave
one. `SettleInv`: one settling task per promise, and not before its job is over. `AskInv`:
what D waits for is with M until it is done, and nothing else of that job is; so M touches
the heap only while D waits (`HeapHasOneUser`), which is all there is to protect it.
`StackInv`: the height of the value stack at each label of D and of M, less what is left
of promises, from what the job has pushed; hence `StackKept`. `OrderInv` places the jobs that wait in the order of the calls,
for `ImplementsTurns`. All this holds with spurious wakeups, of methods that make their
return value outside the lock, and of jobs that hang. `SleepInv` does not: it says that
whoever sleeps is still to be told, and is inductive only under `Prompt` (waits return only
when notified, and no method is `createObject` or `getObject`), from which `AnswersHeard`
and `DeletedUnused` follow. Without `Prompt` both are false, as the run
`create_object_lost_wakeup` and the Findings say.

`PromiseBridge_proofs`. `IInv` adds to the books two things. `CopiesInv`: a copy is on
the other side than its source, its handlers wait exactly as long as the source is
pending, and are done exactly when it is settled itself. `AliveInv`: immediates that
tell Node keep the context alive, jobs are not outlived by it, and what Node's promises
have to tell it is lost only with it. Together they say that whatever is settled was pending and registered, from
which the books stay exact; a step then is a settlement, a copy that follows, or nothing
for `PromiseLinks`. The lemma `SettleEffect` says once what settling does to the handlers
of all copies.

`Timers_proofs`. `TableInv`: there is a table exactly if timers are enabled or being
enabled, and nothing uses it before; so a call that makes one anew without overlapping
another finds no timers. `ExactInv`: unless calls overlapped, timer number h has ID h - 1,
so no two timers share an entry, from which the table stays exact. `HasInv`: a call that
has come to step k has added the first functions, the flags come last, and only
`disableTimers` takes any away. All five properties of the run follow.

`References_proofs`. `QueueInv` follows a handle through D's queue: the job that makes it
and the one that takes it back are alone with it, the program has it only in between, and no
job that finds something by it comes after the latter. `HandleInv`: what the program can use
it has a wrapper of, and wrappers are in the stash; so the jobs find what they look for
(`HandlesAlwaysResolve`) and the object of an entry in the books is in the heap
(`CountStaysExact`). `FunctionInv`: in an AsyncContext a function is registered from before it
is made until it is finalized; in a Context as long as a live object has it as a method, and
only that object's entry lists it, so an object finalized takes no other object's functions
with it. That needs what garbage is: the lemmas `GarbageFacts` and `GarbageStays` say that it
is not among the roots, and stays garbage under every step. `CallbacksFound`, `NothingIsKept`
and `HandlesFreedOnce` follow.

`Teardown_proofs`. `JobsInv` numbers the jobs: those up to `Taken` are J's or past it, the
last of them may be in J, the others queue in order. `DukInv`: D has the job that J waits
for or none. `TasksInv`: M converts for D while it waits, and settles what D is done with.
Hence a job in D that needs M or the context is one whose promise is not settled
(`PendingFacts`), and if none was when the end began no later `lock()` of a weak pointer
is made but those whose target is still there (`RefsInv`).

`ContextCalls_proofs`. What a recursive function computes would have to be proved by
induction over values, which the prover does not reach. As steps of a state machine the
recursion needs none: its induction is that over the steps. `FillInv` says of every call
of `fromV8` that waits that the copy at its index of the stack has exactly the parts that
it is through with, that the copies lie above each other with the innermost on top unless
something is left above it, and that each call is for the part its caller is at; so what
is pushed for a part arrives at that part and at no other. `ReadInv` says the same of
`toV8`, with the items so far of an array as a prefix of it. `OriginInv` ties the outermost
call to the value that was given, from which it follows that the finished copy is that
value (`ConvertOrigin`), and `KeepInv` follows values through properties, scripts and node
functions. The height of the stack is given at every step (`HeightInv`): what is left, the
receiver, name and arguments so far, an element for each copy and three for each
enumeration. `NameInv` is why arguments do not get mixed up: the name has its place, only
one slot holds it, and the arguments are at theirs unless a promise that could not be made
has left its error between them; then the call finds no method of that name
(`Called` is false) and throws, so no script sees them moved. `ArrivesUnchanged` and
`NothingElseLeft` follow, for any values, however deep, and any number of arguments.
`KeptAssumption` asks of `Kept` only that it is closed under taking parts and has none of
what `BothHave` rules out; the largest such set is as good as any. Two bounds that are in
the actions remain: a script calls one node function, and only `eval` calls one without
an argument.

The assumptions on constants only say, but for `KeptAssumption`, that distinct things are
distinct (a job is not `NoJob`, a producer is neither the owner nor the worker) and that
bounds are natural numbers.

Only model-checked: liveness (`OwnerReturns`, `PromisesSettle`, `AllReleased`,
`TeardownReturns` and the liveness part of `ExecutorSpec`, `TurnsSpec` and `LinkSpec`),
which the prover does not reach.

## Not modelled

* The Duktape engine, which is vendored and makes up nearly all of the repository's
  lines, and the polyfill and the TypeScript compiler, which are too. The promise
  polyfill is modelled as far as what becomes of handlers.
* `~AsyncNodeScheduler` detaches a thread that goes on using the members: undefined, and
  left out of `Teardown`.
* In `AsyncJob`: the contents of values; arguments other than the documented ones;
  `nodeArgsFunc` always succeeds (a conversion of an argument that throws would leave D
  waiting as `MReturnThrows` does).
* Spurious wakeups of the wait for `jobDone`, as said above.
* In `References`: a second scope for an object that has one already; the
  unlocked accesses to the maps (undefined if they overlap with a finalizer's); a
  `cleanRefs` in the middle of a call. An AsyncContext's registration of a script function
  (`GiveCallback`) is one step, since D waits while M does it.
* In `PromiseBridge`: what promises are settled with, but for whether it converts; the
  order of handlers, on which nothing depends.
* In `DukValue` and `ContextCalls`: encodings of strings, symbols and big integers,
  cyclic objects (`fromV8` and `toV8` do not return), getters that throw; what a node
  function does to the Context before it returns, which `References` has for references.
  `DukContextStack` is used by nothing. `Context::resolvePromise` and `catchPromise` skip
  their `duk_pop` when the call fails, which the polyfill's resolvers never do.
* Logging, argument checking, the add-on's glue, UUIDs (taken to be distinct).

## Plan

1. (done) `AsyncJobScheduler`, `AsyncNodeScheduler`, their abstractions and proofs;
   `AsyncJob` on top of them.
2. (done) `References` and `Timers`.
3. (done) `PromiseBridge` with `PromiseLinks`, and its proofs.
4. (done) `DukValue` and `ContextCalls`.
5. (done) `Teardown`, and its proofs.
6. (done) `AsyncJob_proofs`.
7. (done) `Timers_proofs`.
8. (done) `References_proofs`.
9. (done) `ContextCalls_proofs`, for which `DukValue` became a state machine.
