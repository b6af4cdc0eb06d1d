----------------------------- MODULE PromiseBridge -----------------------------
(***************************************************************************)
(* Promises that cross between Node and Duktape (DukValue::fromV8 and      *)
(* toV8, Promise, and the promise functions of Context, AsyncContext and   *)
(* ResourceManager).  A promise that crosses is copied: handlers attached  *)
(* to the source settle the copy.  A copy may cross again.                 *)
(*                                                                         *)
(* Node's handlers run as microtasks.  Those of the polyfill that          *)
(* index.js gives to Duktape run as immediates, which a Context runs on    *)
(* the spot and an AsyncContext makes a job for.  What settles a copy in   *)
(* an AsyncContext's heap is a job too.  No two promises' handlers depend  *)
(* on their order, so they are taken in any.                               *)
(*                                                                         *)
(* The engine's own promises and the polyfill's are modelled only as far   *)
(* as what becomes of handlers.                                            *)
(***************************************************************************)
EXTENDS Naturals

CONSTANTS Contexts,     \* those considered: FALSE is a Context, TRUE an AsyncContext
          MaxPromises,  \* bound on the promises made
          Unmade,       \* the source of a promise that is not made yet
          Origin        \* the source of a promise that the program or a script made

ASSUME PromisesAssumption == /\ Contexts \subseteq BOOLEAN
                             /\ MaxPromises \in Nat
                             /\ {Unmade, Origin} \cap (1 .. MaxPromises) = {}
                             /\ Unmade # Origin

Promise  == 1 .. MaxPromises
Outcomes == {"fulfilled", "rejected"}

VARIABLES async,        \* which of the two contexts; never changes
          side,         \* which engine's promise it is
          source,       \* what it is a copy of
          outcome,      \* how it is settled
          unconvertible,\* promises settled with what toV8 throws on
          stage,        \* how far the handlers that will settle a copy are
          nodePromises, \* ResourceManager::_promises
          dukPromises,  \* ResourceManager::_dukPromises
          resolvers,    \* the Nan::Persistents of resolvers not deleted
          stash,        \* copies whose resolvers are in Duktape's stash
          alarms,       \* copies whose source has left an unhandled promise
          reported,     \* those that the polyfill has reported
          immediates,   \* what scripts' setImmediate can do
          alive         \* the context exists

vars == <<async, side, source, outcome, unconvertible, stage, nodePromises, dukPromises,
          resolvers, stash, alarms, reported, immediates, alive>>

books    == <<nodePromises, dukPromises, resolvers, stash>>
crossing == <<side, source>>
reports  == <<alarms, reported>>

Made       == {p \in Promise : source[p] # Unmade}
Settled(p) == outcome[p] # "pending"
Copies(p)  == {c \in Promise : source[c] = p}
ToDuk(b)   == source[b] \in Promise /\ side[b] = "duk"
ToNode(c)  == source[c] \in Promise /\ side[c] = "node"

Init == /\ async \in Contexts
        /\ side = [p \in Promise |-> "none"]
        /\ source = [p \in Promise |-> Unmade]
        /\ outcome = [p \in Promise |-> "pending"]
        /\ stage = [p \in Promise |-> "none"]
        /\ unconvertible = {}
        /\ nodePromises = {} /\ dukPromises = {} /\ resolvers = {} /\ stash = {}
        /\ alarms = {} /\ reported = {}
        /\ immediates = "on"
        /\ alive = TRUE

\* Promises are made in the order of their numbers.
New(p, s, from, st) == /\ source[p] = Unmade
                       /\ \A q \in 1 .. (p - 1) : q \in Made
                       /\ side' = [side EXCEPT ![p] = s]
                       /\ source' = [source EXCEPT ![p] = from]
                       /\ stage' = [stage EXCEPT ![p] = st]

\* The handlers of the copies in cs that wait for their source move on.
Handlers(cs, st) == [c \in Promise |-> IF c \in cs /\ stage[c] = "linked"
                                       THEN st ELSE stage[c]]

--------------------------------------------------------------------------------
(* Settling.                                                                  *)

\* Promise p of Node is settled as o; its own handlers, if any, have done st.
SettleNode(p, o, st) ==
  /\ outcome' = [outcome EXCEPT ![p] = o]
  /\ stage' = [Handlers(Copies(p), "due") EXCEPT ![p] = st]

\* Promise p of Duktape is settled as o.  The polyfill sets an immediate for each
\* handler.  Once disableTimers has deleted setImmediate it throws at the first
\* handler, and what it does about that rejects p and loses the handlers.  When p
\* is rejected, so is the promise that then returned, which has no handlers.
SettleDuk(p, o, st) ==
  LET linked == {c \in Copies(p) : stage[c] = "linked"} IN
    IF immediates = "off" /\ linked # {}
    THEN /\ outcome' = [outcome EXCEPT ![p] = "rejected"]
         /\ stage' = [Handlers(linked, "lost") EXCEPT ![p] = st]
         /\ UNCHANGED alarms
    ELSE /\ outcome' = [outcome EXCEPT ![p] = o]
         /\ stage' = [Handlers(linked, "due") EXCEPT ![p] = st]
         /\ alarms' = IF o = "rejected" THEN alarms \cup linked ELSE alarms

\* The program makes a promise, or a script does.
Create(p, s) == /\ s = "duk" => alive
                /\ New(p, s, Origin, "none")
                /\ UNCHANGED <<async, outcome, unconvertible, books, reports,
                               immediates, alive>>

\* It settles its promise.  In an AsyncContext with a value that toV8 may throw on:
\* in a Context the exception would unwind Duktape's own frames.
Settle(p, o) ==
  /\ source[p] = Origin /\ ~Settled(p)
  /\ IF side[p] = "node"
     THEN SettleNode(p, o, "none") /\ UNCHANGED <<alarms, unconvertible>>
     ELSE /\ alive
          /\ SettleDuk(p, o, "none")
          /\ unconvertible' \in {unconvertible} \cup
                                (IF async THEN {unconvertible \cup {p}} ELSE {})
  /\ UNCHANGED <<async, crossing, books, reported, immediates, alive>>

--------------------------------------------------------------------------------
(* Into Duktape.                                                              *)

\* Mutant: the promise is registered under its source's identifier.
CrossToDuk_WrongID(p, b) ==
  /\ alive /\ p \in Made /\ side[p] = "node"
  /\ New(b, "duk", p, IF Settled(p) THEN "due" ELSE "linked")
  /\ stash' = stash \cup {b}
  /\ nodePromises' = nodePromises \cup {source[p]}
  /\ UNCHANGED <<async, outcome, unconvertible, dukPromises, resolvers, reports,
                 immediates, alive>>

\* fromV8: b becomes the copy of p.  Its resolvers are stored in the stash.
CrossToDuk(p, b) ==
  /\ alive /\ p \in Made /\ side[p] = "node"
  /\ New(b, "duk", p, IF Settled(p) THEN "due" ELSE "linked")
  /\ stash' = stash \cup {b}
  /\ nodePromises' = nodePromises \cup {b}
  /\ UNCHANGED <<async, outcome, unconvertible, dukPromises, resolvers, reports,
                 immediates, alive>>

\* resolveNodePromise
ResolveNodePromise(b) == nodePromises' = nodePromises \ {b}

\* Context: the resolver in the stash is called.
ResolveNow(b) ==
  /\ ~async /\ b \in nodePromises
  /\ ResolveNodePromise(b)
  /\ SettleDuk(b, outcome[source[b]], "done")

\* AsyncContext: a job is made that will call it.  Only resolvePromise looks the
\* promise up; catchPromise leaves it registered.
ResolveLater(b) ==
  /\ async
  /\ IF outcome[source[b]] = "fulfilled"
     THEN b \in nodePromises /\ ResolveNodePromise(b)
     ELSE UNCHANGED nodePromises
  /\ stage' = [stage EXCEPT ![b] = "job"]
  /\ UNCHANGED <<outcome, alarms>>

\* Promise::handleThen and Promise::handleCatch
RunMicrotask(b) ==
  /\ ToDuk(b) /\ stage[b] = "due"
  /\ IF alive THEN ResolveNow(b) \/ ResolveLater(b)
     ELSE /\ stage' = [stage EXCEPT ![b] = "lost"]
          /\ UNCHANGED <<outcome, alarms, nodePromises>>
  /\ UNCHANGED <<async, crossing, unconvertible, dukPromises, resolvers, stash,
                 reported, immediates, alive>>

\* The work of the job, on the Duktape thread.
RunResolveJob(b) ==
  /\ ToDuk(b) /\ stage[b] = "job" /\ b \in stash
  /\ SettleDuk(b, outcome[source[b]], "done")
  /\ UNCHANGED <<async, crossing, unconvertible, books, reported, immediates, alive>>

--------------------------------------------------------------------------------
(* Out of Duktape.                                                            *)

\* toV8: c becomes the copy of p.  Handlers are attached to p, then c is registered.
\* then throws on a settled promise if there is no setImmediate.  In an AsyncContext
\* it never returns for a settled promise.
CrossToNode(p, c) ==
  /\ alive /\ p \in Made /\ side[p] = "duk"
  /\ Settled(p) => ~async /\ immediates = "on"
  /\ New(c, "node", p, IF Settled(p) THEN "due" ELSE "linked")
  /\ alarms' = IF outcome[p] = "rejected" THEN alarms \cup {c} ELSE alarms
  /\ dukPromises' = dukPromises \cup {c}
  /\ resolvers' = resolvers \cup {c}
  /\ UNCHANGED <<async, outcome, unconvertible, nodePromises, stash, reported,
                 immediates, alive>>

\* resolveDukPromise
ResolveDukPromise(c) == dukPromises' = dukPromises \ {c}

\* Mutant: handleDukCatch resolves.
HandleDuk_Resolves(c) ==
  /\ c \in dukPromises
  /\ ResolveDukPromise(c)
  /\ SettleNode(c, "fulfilled", "done")
  /\ resolvers' = resolvers \ {c}

\* Context::handleDukThen and handleDukCatch
HandleDuk(c) ==
  /\ c \in dukPromises
  /\ ResolveDukPromise(c)
  /\ SettleNode(c, outcome[source[c]], "done")
  /\ resolvers' = resolvers \ {c}

\* Mutant: handleDukCatch takes the promise off the books and settles nothing.
HandleDukAsync_Forgets(c) ==
  /\ c \in dukPromises
  /\ ResolveDukPromise(c)
  /\ IF source[c] \in unconvertible \/ outcome[source[c]] = "rejected"
     THEN /\ stage' = [stage EXCEPT ![c] = "lost"]
          /\ alarms' = alarms \cup {c}
          /\ UNCHANGED outcome
     ELSE SettleNode(c, outcome[source[c]], "done") /\ UNCHANGED alarms
  /\ UNCHANGED resolvers

\* AsyncContext::handleDukThen and handleDukCatch.  The promise is off the books
\* when the conversion of the value throws, and then c stays pending.  The Persistent
\* is not deleted.
HandleDukAsync(c) ==
  /\ c \in dukPromises
  /\ ResolveDukPromise(c)
  /\ IF source[c] \in unconvertible
     THEN /\ stage' = [stage EXCEPT ![c] = "lost"]
          /\ alarms' = alarms \cup {c}
          /\ UNCHANGED outcome
     ELSE SettleNode(c, outcome[source[c]], "done") /\ UNCHANGED alarms
  /\ UNCHANGED resolvers

\* Node calls the immediate: a Context runs the handler, an AsyncContext makes a job.
RunImmediate(c) ==
  /\ ToNode(c) /\ stage[c] = "due"
  /\ IF async THEN /\ stage' = [stage EXCEPT ![c] = "job"]
                   /\ UNCHANGED <<outcome, dukPromises, resolvers>>
              ELSE HandleDuk(c)
  /\ UNCHANGED <<async, crossing, unconvertible, nodePromises, stash, reports,
                 immediates, alive>>

\* The job runs the handler.
RunHandlerJob(c) ==
  /\ ToNode(c) /\ stage[c] = "job"
  /\ HandleDukAsync(c)
  /\ UNCHANGED <<async, crossing, unconvertible, nodePromises, stash, reported,
                 immediates, alive>>

\* The polyfill reports a rejected promise that nobody has handled.
Report(c) == /\ alive /\ c \in alarms
             /\ alarms' = alarms \ {c}
             /\ reported' = reported \cup {c}
             /\ UNCHANGED <<async, crossing, outcome, unconvertible, stage, books,
                            immediates, alive>>

--------------------------------------------------------------------------------
(* What cuts promises off.                                                    *)

\* disableTimers clears the pending immediates; an AsyncContext's scripts have
\* setImmediate for a while longer.
DisableTimers ==
  /\ immediates = "on" /\ alive
  /\ immediates' = IF async THEN "disabling" ELSE "off"
  /\ stage' = [c \in Promise |-> IF ToNode(c) /\ stage[c] = "due" THEN "lost" ELSE stage[c]]
  /\ alarms' = {}
  /\ UNCHANGED <<async, crossing, outcome, unconvertible, books, reported, alive>>

DeleteSetImmediate ==
  /\ immediates = "disabling"
  /\ immediates' = "off"
  /\ UNCHANGED <<async, crossing, outcome, unconvertible, stage, books, reports, alive>>

\* Nothing refers to the context any more.  What waits for a node immediate does, by
\* the callback, and so does a disableTimers that is not through; a job does not: it
\* has weak pointers and a bare this (AsyncJob.cpp:20), and index.js:153 does not wait
\* for the one that an immediate makes.  The jobs that are queued go with the context.
\* The report of an alarm, too, may have become such a job.
CollectContext ==
  /\ alive /\ immediates # "disabling"
  /\ immediates = "on" /\ ~async => alarms = {}
  /\ \A c \in Promise : ToNode(c) => stage[c] # "due"
  /\ alive' = FALSE
  /\ stage' = [c \in Promise |-> IF stage[c] = "job" THEN "lost" ELSE stage[c]]
  /\ UNCHANGED <<async, crossing, outcome, unconvertible, books, reports, immediates>>

Next == \/ \E p \in Promise : \/ \E s \in {"node", "duk"} : Create(p, s)
                              \/ \E o \in Outcomes : Settle(p, o)
                              \/ \E c \in Promise : CrossToDuk(p, c) \/ CrossToNode(p, c)
                              \/ RunMicrotask(p) \/ RunResolveJob(p)
                              \/ RunImmediate(p) \/ RunHandlerJob(p) \/ Report(p)
        \/ DisableTimers \/ DeleteSetImmediate \/ CollectContext

\* The event loop serves microtasks and immediates, and the Duktape thread its jobs.
Fairness == \A p \in Promise : /\ WF_vars(RunMicrotask(p)) /\ WF_vars(RunResolveJob(p))
                               /\ WF_vars(RunImmediate(p)) /\ WF_vars(RunHandlerJob(p))

Spec == Init /\ [][Next]_vars /\ Fairness

--------------------------------------------------------------------------------
(* Properties.                                                                *)

\* The variables are of their types.
TypeOK ==
  /\ async \in BOOLEAN /\ alive \in BOOLEAN
  /\ side \in [Promise -> {"none", "node", "duk"}]
  /\ source \in [Promise -> Promise \cup {Unmade, Origin}]
  /\ outcome \in [Promise -> Outcomes \cup {"pending"}]
  /\ stage \in [Promise -> {"none", "linked", "due", "job", "done", "lost"}]
  /\ {unconvertible, nodePromises, dukPromises, resolvers, stash, alarms, reported}
       \subseteq SUBSET Promise
  /\ immediates \in {"on", "disabling", "off"}

\* Whoever will be told of a promise finds it registered, and nobody else is: the
\* handlers look promises up without a second chance (Context.cpp:538, 71).  What
\* stays for the life of the context: in an AsyncContext the promises that Node has
\* rejected (AsyncContext.cpp:98) and every resolver (AsyncContext.cpp:143); copies
\* that are lost with their timers; and in the stash the resolvers of every copy.
Registered ==
  alive =>
    /\ nodePromises = {b \in Promise : ToDuk(b) /\
                         \/ stage[b] \in {"linked", "due"}
                         \/ async /\ outcome[source[b]] = "rejected"}
    /\ {c \in Promise : ToNode(c) /\ stage[c] \in {"linked", "due", "job"}} \subseteq dukPromises
    /\ dukPromises \subseteq {c \in Promise : ToNode(c) /\ stage[c] # "done"}
    /\ \A c \in Promise : ToNode(c) /\ stage[c] = "lost" /\ c \notin dukPromises =>
         source[c] \in unconvertible
    /\ resolvers = IF async THEN {c \in Promise : ToNode(c)} ELSE dukPromises
    /\ stash = {b \in Promise : ToDuk(b)}

\* A copy stays behind only when its script's timers have been disabled, when its
\* context is gone, or when an AsyncContext could not convert the value: the promise
\* is taken off the books before that (AsyncContext.cpp:131).
LostForAReason ==
  \A p \in Promise : stage[p] = "lost" =>
    ~alive \/ immediates # "on" \/ (async /\ source[p] \in unconvertible)

\* So the books of promises are exact, and nothing but these falls out of them.
BooksExact == Registered /\ LostForAReason

Link == INSTANCE PromiseLinks WITH lost <- {p \in Promise : stage[p] = "lost"},
                                   timersOff <- immediates = "off"

\* A copy settles after its source, once and in the same way, whatever crosses in
\* between and how often, and it does settle if it is not lost (Promise.cpp:9-63).
LinkSpec == Link!Spec

\* A rejection that the other side is told of is not reported as unhandled: "callMethod
\* "catch" on the returned object" (DukValue.cpp:532).
DeliveredNotReported == \A c \in reported : ~Settled(c)
================================================================================
