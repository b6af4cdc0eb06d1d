------------------------- MODULE PromiseBridge_proofs -------------------------
(***************************************************************************)
(* Safety of PromiseBridge for any number of promises, in both contexts:   *)
(* its inductive invariant, that the books of promises are exact, and that *)
(* it implements the safety part of PromiseLinks.                          *)
(***************************************************************************)
EXTENDS PromiseBridge, TLAPS

\* A copy is on the other side than its source.  Its handlers wait as long as the
\* source is pending, and are done when it is settled itself.
CopiesInv ==
  \A p \in Promise :
    /\ source[p] = Unmade => side[p] = "none" /\ outcome[p] = "pending"
    /\ source[p] # Unmade => side[p] \in {"node", "duk"}
    /\ source[p] \notin Promise => stage[p] = "none"
    /\ source[p] \in Promise =>
         /\ source[source[p]] # Unmade
         /\ side[p] # side[source[p]]
         /\ stage[p] # "none"
         /\ stage[p] = "linked" <=> outcome[source[p]] = "pending"
         /\ stage[p] = "done" <=> outcome[p] # "pending"

\* Jobs are an AsyncContext's and go with it; immediates that are to tell Node keep it.
\* What Node's promises have to tell a context is lost only with the context.
AliveInv ==
  \A p \in Promise :
    /\ stage[p] = "job" => async /\ alive
    /\ stage[p] = "due" /\ side[p] = "node" => alive
    /\ stage[p] = "lost" /\ side[p] = "duk" => ~alive

IInv == TypeOK /\ CopiesInv /\ AliveInv /\ Registered /\ LostForAReason

--------------------------------------------------------------------------------
(* What the helpers do.                                                       *)

\* Neither Unmade nor Origin is a promise.
LEMMA Sources == Unmade \notin Promise /\ Origin \notin Promise /\ Unmade # Origin
<1> QED
  BY PromisesAssumption DEF Promise

\* A settled promise sets the handlers of its copies off, or loses them, and touches
\* no other promise.
LEMMA SettleEffect ==
  ASSUME TypeOK, CopiesInv, NEW p \in Promise, NEW o \in Outcomes,
         NEW st \in {"none", "done"},
         \/ SettleNode(p, o, st)
         \/ SettleDuk(p, o, st)
  PROVE  /\ outcome' \in [Promise -> Outcomes \cup {"pending"}]
         /\ outcome'[p] \in Outcomes
         /\ outcome'[p] = o \/ (immediates = "off" /\ outcome'[p] = "rejected")
         /\ \A q \in Promise \ {p} : outcome'[q] = outcome[q]
         /\ stage' \in [Promise -> {"none", "linked", "due", "job", "done", "lost"}]
         /\ stage'[p] = st
         /\ \A q \in Promise \ {p} :
              IF source[q] = p /\ stage[q] = "linked"
              THEN \/ stage'[q] = "due"
                   \/ stage'[q] = "lost" /\ immediates = "off" /\ SettleDuk(p, o, st)
              ELSE stage'[q] = stage[q]
<1>1. CASE SettleNode(p, o, st)
  BY <1>1 DEF SettleNode, Handlers, Copies, TypeOK, Outcomes
<1>2. CASE SettleDuk(p, o, st)
  <2> DEFINE linked == {c \in Copies(p) : stage[c] = "linked"}
  <2>1. CASE immediates = "off" /\ linked # {}
    BY <1>2, <2>1 DEF SettleDuk, Handlers, Copies, TypeOK, Outcomes
  <2>2. CASE ~(immediates = "off" /\ linked # {})
    BY <1>2, <2>2 DEF SettleDuk, Handlers, Copies, TypeOK, Outcomes
  <2> QED
    BY <2>1, <2>2
<1> QED
  BY <1>1, <1>2

\* What settling in Duktape's heap does to the alarms keeps them promises.
LEMMA AlarmsOfSettle ==
  ASSUME TypeOK, NEW p \in Promise, NEW o, NEW st, SettleDuk(p, o, st)
  PROVE  alarms' \subseteq Promise
<1> QED
  BY DEF SettleDuk, Copies, TypeOK

--------------------------------------------------------------------------------
(* The invariant.                                                             *)

\* No promise is made yet.
LEMMA InitIInv == Init => IInv
<1> QED
  BY Sources, PromisesAssumption
     DEF Init, IInv, TypeOK, CopiesInv, AliveInv, Registered, LostForAReason, ToDuk,
         ToNode

\* A new promise, or a new copy, fits in.
LEMMA MakeStep ==
  ASSUME IInv, NEW p \in Promise, NEW q \in Promise,
         \/ \E s \in {"node", "duk"} : Create(p, s)
         \/ CrossToDuk(p, q)
         \/ CrossToNode(p, q)
  PROVE  IInv'
<1> USE Sources DEF IInv, New, books, reports, crossing
<1>1. ASSUME NEW s \in {"node", "duk"}, Create(p, s) PROVE IInv'
  BY <1>1 DEF Create, TypeOK, CopiesInv, AliveInv, Registered, LostForAReason, ToDuk, ToNode
<1>2. CASE CrossToDuk(p, q)
  BY <1>2 DEF CrossToDuk, TypeOK, CopiesInv, AliveInv, Registered, LostForAReason, ToDuk, ToNode, Made, Settled
<1>3. CASE CrossToNode(p, q)
  BY <1>3 DEF CrossToNode, TypeOK, CopiesInv, AliveInv, Registered, LostForAReason, ToDuk, ToNode, Made, Settled
<1> QED
  BY <1>1, <1>2, <1>3

\* The program or a script settles a promise of its own.
LEMMA SettleStep ==
  ASSUME IInv, NEW p \in Promise, NEW o \in Outcomes, Settle(p, o)
  PROVE  IInv'
<1> USE DEF IInv
<1>1. /\ source[p] = Origin /\ outcome[p] = "pending" /\ stage[p] = "none"
      /\ UNCHANGED <<async, crossing, books, reported, immediates, alive>>
      /\ \/ side[p] = "node" /\ SettleNode(p, o, "none") /\ UNCHANGED <<alarms, unconvertible>>
         \/ /\ side[p] # "node" /\ SettleDuk(p, o, "none") /\ alive
            /\ unconvertible \subseteq unconvertible' /\ unconvertible' \subseteq Promise
            /\ alarms' \subseteq Promise
  BY Sources, AlarmsOfSettle DEF Settle, Settled, CopiesInv, TypeOK
<1>2. /\ outcome' \in [Promise -> Outcomes \cup {"pending"}]
      /\ outcome'[p] # "pending"
      /\ \A q \in Promise \ {p} : outcome'[q] = outcome[q]
      /\ stage' \in [Promise -> {"none", "linked", "due", "job", "done", "lost"}]
      /\ stage'[p] = "none"
      /\ \A q \in Promise \ {p} :
           IF source[q] = p /\ stage[q] = "linked"
           THEN \/ stage'[q] = "due"
                \/ stage'[q] = "lost" /\ immediates = "off" /\ side[p] # "node"
           ELSE stage'[q] = stage[q]
  <2>1. CASE side[p] = "node"
    <3>1. /\ outcome' = [outcome EXCEPT ![p] = o]
          /\ stage' = [Handlers(Copies(p), "due") EXCEPT ![p] = "none"]
      BY <1>1, <2>1 DEF SettleNode
    <3> QED
      BY <3>1 DEF Outcomes, TypeOK, Handlers, Copies
  <2>2. CASE side[p] # "node"
    BY <1>1, <2>2, SettleEffect DEF Outcomes
  <2> QED
    BY <2>1, <2>2
<1>3. TypeOK'
  BY <1>1, <1>2 DEF TypeOK, crossing, books
<1>4. CopiesInv'
  BY <1>1, <1>2, Sources DEF CopiesInv, crossing, TypeOK
<1>5. AliveInv'
  BY <1>1, <1>2, Sources DEF AliveInv, CopiesInv, crossing, TypeOK
<1>6. Registered'
  BY <1>1, <1>2, Sources
     DEF Registered, CopiesInv, ToDuk, ToNode, crossing, books, TypeOK
<1>7. LostForAReason'
  BY <1>1, <1>2 DEF LostForAReason, crossing, TypeOK
<1> QED
  BY <1>3, <1>4, <1>5, <1>6, <1>7

\* Node tells a copy in Duktape.
LEMMA MicrotaskStep ==
  ASSUME IInv, NEW b \in Promise, RunMicrotask(b)
  PROVE  IInv'
<1> USE DEF IInv
<1> DEFINE o == outcome[source[b]]
<1>1. /\ ToDuk(b) /\ stage[b] = "due" /\ o \in Outcomes /\ outcome[b] = "pending"
      /\ source[b] # b
  BY DEF RunMicrotask, ToDuk, CopiesInv, TypeOK
<1>2. UNCHANGED <<async, crossing, unconvertible, dukPromises, resolvers, stash,
                  reported, immediates, alive>>
  BY DEF RunMicrotask
<1>3. CASE ~alive
  BY <1>1, <1>2, <1>3
     DEF RunMicrotask, TypeOK, CopiesInv, AliveInv, Registered, LostForAReason, ToDuk,
         ToNode, crossing
<1>4. CASE alive /\ ResolveNow(b)
  <2>1. /\ ~async /\ nodePromises' = nodePromises \ {b} /\ SettleDuk(b, o, "done")
        /\ alarms' \subseteq Promise
    BY <1>4, AlarmsOfSettle DEF ResolveNow, ResolveNodePromise
  <2>2. /\ outcome' \in [Promise -> Outcomes \cup {"pending"}]
        /\ outcome'[b] \in Outcomes
        /\ \A q \in Promise \ {b} : outcome'[q] = outcome[q]
        /\ stage' \in [Promise -> {"none", "linked", "due", "job", "done", "lost"}]
        /\ stage'[b] = "done"
        /\ \A q \in Promise \ {b} :
             IF source[q] = b /\ stage[q] = "linked"
             THEN stage'[q] = "due" \/ (stage'[q] = "lost" /\ immediates = "off")
             ELSE stage'[q] = stage[q]
    BY <1>1, <2>1, SettleEffect
  <2>3. TypeOK'
    BY <1>2, <2>1, <2>2 DEF TypeOK, crossing
  <2>4. CopiesInv'
    BY <1>1, <1>2, <2>2, Sources DEF CopiesInv, crossing, TypeOK, ToDuk, Outcomes
  <2>5. AliveInv'
    BY <1>1, <1>2, <1>4, <2>2 DEF AliveInv, CopiesInv, crossing, TypeOK, ToDuk
  <2>6. Registered'
    BY <1>1, <1>2, <1>4, <2>1, <2>2
       DEF Registered, CopiesInv, ToDuk, ToNode, crossing, TypeOK
  <2>7. LostForAReason'
    BY <1>1, <1>2, <2>2 DEF LostForAReason, crossing, TypeOK
  <2> QED
    BY <2>3, <2>4, <2>5, <2>6, <2>7
<1>5. CASE alive /\ ResolveLater(b)
  BY <1>1, <1>2, <1>5
     DEF ResolveLater, ResolveNodePromise, TypeOK, CopiesInv, AliveInv, Registered,
         LostForAReason, ToDuk, ToNode, crossing, Outcomes
<1> QED
  BY <1>3, <1>4, <1>5 DEF RunMicrotask

\* A job tells a copy in Duktape.
LEMMA ResolveJobStep ==
  ASSUME IInv, NEW b \in Promise, RunResolveJob(b)
  PROVE  IInv'
<1> USE DEF IInv
<1> DEFINE o == outcome[source[b]]
<1>1. /\ ToDuk(b) /\ stage[b] = "job" /\ o \in Outcomes /\ outcome[b] = "pending"
      /\ source[b] # b /\ async /\ alive
  BY DEF RunResolveJob, ToDuk, CopiesInv, AliveInv, TypeOK
<1>2. /\ UNCHANGED <<async, crossing, unconvertible, books, reported, immediates, alive>>
      /\ SettleDuk(b, o, "done") /\ alarms' \subseteq Promise
  BY AlarmsOfSettle DEF RunResolveJob
<1>3. /\ outcome' \in [Promise -> Outcomes \cup {"pending"}]
      /\ outcome'[b] \in Outcomes
      /\ \A q \in Promise \ {b} : outcome'[q] = outcome[q]
      /\ stage' \in [Promise -> {"none", "linked", "due", "job", "done", "lost"}]
      /\ stage'[b] = "done"
      /\ \A q \in Promise \ {b} :
           IF source[q] = b /\ stage[q] = "linked"
           THEN stage'[q] = "due" \/ (stage'[q] = "lost" /\ immediates = "off")
           ELSE stage'[q] = stage[q]
  BY <1>1, <1>2, SettleEffect
<1>4. TypeOK'
  BY <1>2, <1>3 DEF TypeOK, crossing, books
<1>5. CopiesInv'
  BY <1>1, <1>2, <1>3, Sources DEF CopiesInv, crossing, TypeOK, ToDuk, Outcomes
<1>6. AliveInv'
  BY <1>1, <1>2, <1>3 DEF AliveInv, CopiesInv, crossing, TypeOK, ToDuk
<1>7. Registered'
  BY <1>1, <1>2, <1>3 DEF Registered, CopiesInv, ToDuk, ToNode, crossing, books, TypeOK
<1>8. LostForAReason'
  BY <1>1, <1>2, <1>3 DEF LostForAReason, crossing, TypeOK
<1> QED
  BY <1>4, <1>5, <1>6, <1>7, <1>8

\* Duktape tells a copy in Node, when the immediate is served or in the job it made.
LEMMA ImmediateStep ==
  ASSUME IInv, NEW c \in Promise, RunImmediate(c)
  PROVE  IInv'
<1> USE DEF IInv
<1>1. /\ ToNode(c) /\ stage[c] = "due" /\ outcome[source[c]] \in Outcomes
      /\ outcome[c] = "pending" /\ source[c] # c /\ alive
  BY DEF RunImmediate, ToNode, CopiesInv, AliveInv, TypeOK
<1>2. UNCHANGED <<async, crossing, unconvertible, nodePromises, stash, reports,
                  immediates, alive>>
  BY DEF RunImmediate
<1>3. CASE async
  BY <1>1, <1>2, <1>3
     DEF RunImmediate, TypeOK, CopiesInv, AliveInv, Registered, LostForAReason, ToDuk,
         ToNode, crossing, reports
<1>4. CASE ~async
  <2>1. HandleDuk(c)
    BY <1>4 DEF RunImmediate
  <2>2. /\ outcome' = [outcome EXCEPT ![c] = outcome[source[c]]]
        /\ stage' = [Handlers(Copies(c), "due") EXCEPT ![c] = "done"]
        /\ dukPromises' = dukPromises \ {c} /\ resolvers' = resolvers \ {c}
    BY <2>1 DEF HandleDuk, SettleNode, ResolveDukPromise
  <2>3. TypeOK' /\ LostForAReason'
    BY <1>1, <1>2, <2>2 DEF TypeOK, LostForAReason, Handlers, crossing, reports
  <2>4. CopiesInv'
    BY <1>1, <1>2, <2>2, Sources
       DEF CopiesInv, TypeOK, Handlers, Copies, crossing, ToNode, Outcomes
  <2>5. AliveInv'
    BY <1>1, <1>2, <2>2 DEF AliveInv, CopiesInv, TypeOK, Handlers, Copies, crossing, ToNode
  <2>6. Registered'
    BY <1>1, <1>2, <1>4, <2>2
       DEF Registered, CopiesInv, ToDuk, ToNode, Handlers, Copies, crossing, TypeOK
  <2> QED
    BY <2>3, <2>4, <2>5, <2>6
<1> QED
  BY <1>3, <1>4

\* The job that an AsyncContext makes for an immediate.
LEMMA HandlerJobStep ==
  ASSUME IInv, NEW c \in Promise, RunHandlerJob(c)
  PROVE  IInv'
<1> USE DEF IInv
<1>1. /\ ToNode(c) /\ stage[c] = "job" /\ outcome[source[c]] \in Outcomes
      /\ outcome[c] = "pending" /\ source[c] # c /\ async /\ alive
  BY DEF RunHandlerJob, ToNode, CopiesInv, AliveInv, TypeOK
<1>2. /\ UNCHANGED <<async, crossing, unconvertible, nodePromises, stash, reported,
                     immediates, alive, resolvers>>
      /\ dukPromises' = dukPromises \ {c}
  BY DEF RunHandlerJob, HandleDukAsync, ResolveDukPromise
<1>3. CASE source[c] \in unconvertible
  BY <1>1, <1>2, <1>3
     DEF RunHandlerJob, HandleDukAsync, TypeOK, CopiesInv, AliveInv, Registered,
         LostForAReason, ToDuk, ToNode, crossing
<1>4. CASE source[c] \notin unconvertible
  <2>1. /\ outcome' = [outcome EXCEPT ![c] = outcome[source[c]]]
        /\ stage' = [Handlers(Copies(c), "due") EXCEPT ![c] = "done"]
        /\ alarms' = alarms
    BY <1>4 DEF RunHandlerJob, HandleDukAsync, SettleNode
  <2>2. TypeOK' /\ LostForAReason'
    BY <1>1, <1>2, <2>1 DEF TypeOK, LostForAReason, Handlers, crossing
  <2>3. CopiesInv'
    BY <1>1, <1>2, <2>1, Sources
       DEF CopiesInv, TypeOK, Handlers, Copies, crossing, ToNode, Outcomes
  <2>4. AliveInv'
    BY <1>1, <1>2, <2>1 DEF AliveInv, CopiesInv, TypeOK, Handlers, Copies, crossing, ToNode
  <2>5. Registered'
    BY <1>1, <1>2, <2>1
       DEF Registered, CopiesInv, ToDuk, ToNode, Handlers, Copies, crossing, TypeOK
  <2> QED
    BY <2>2, <2>3, <2>4, <2>5
<1> QED
  BY <1>3, <1>4

\* What is left: reports, the end of the timers, the end of the context.
LEMMA OtherStep ==
  ASSUME IInv,
         \/ \E p \in Promise : Report(p)
         \/ DisableTimers
         \/ DeleteSetImmediate
         \/ CollectContext
         \/ UNCHANGED vars
  PROVE  IInv'
<1> USE DEF IInv
<1>1. ASSUME NEW p \in Promise, Report(p) PROVE IInv'
  BY <1>1 DEF Report, TypeOK, CopiesInv, AliveInv, Registered, LostForAReason, ToDuk,
              ToNode, crossing, books
<1>2. CASE DisableTimers
  BY <1>2 DEF DisableTimers, TypeOK, CopiesInv, AliveInv, Registered, LostForAReason,
              ToDuk, ToNode, crossing, books
<1>3. CASE DeleteSetImmediate
  BY <1>3 DEF DeleteSetImmediate, TypeOK, CopiesInv, AliveInv, Registered,
              LostForAReason, ToDuk, ToNode, crossing, books, reports
<1>4. CASE CollectContext
  BY <1>4, Sources DEF CollectContext, TypeOK, CopiesInv, AliveInv, Registered,
              LostForAReason, ToDuk, ToNode, crossing, books, reports
<1>5. CASE UNCHANGED vars
  BY <1>5 DEF vars, TypeOK, CopiesInv, AliveInv, Registered, LostForAReason, ToDuk,
              ToNode, crossing, books, reports
<1> QED
  BY <1>1, <1>2, <1>3, <1>4, <1>5

\* Every step preserves the invariant.
LEMMA StepIInv == IInv /\ [Next]_vars => IInv'
<1> QED
  BY MakeStep, SettleStep, MicrotaskStep, ResolveJobStep, ImmediateStep, HandlerJobStep,
     OtherStep DEF Next

\* Every reachable state satisfies the invariant.
LEMMA Invariance == Spec => []IInv
<1> QED
  BY InitIInv, StepIInv, PTL DEF Spec

\* Type correctness.
THEOREM TypeCorrect == Spec => []TypeOK
<1>1. IInv => TypeOK
  BY DEF IInv
<1> QED
  BY <1>1, Invariance, PTL

\* Whoever will be told of a promise finds it registered, nobody else is, and a copy
\* stays behind only for one of the reasons that there are.
THEOREM BooksStayExact == Spec => []BooksExact
<1>1. IInv => BooksExact
  BY DEF IInv, BooksExact
<1> QED
  BY <1>1, Invariance, PTL

--------------------------------------------------------------------------------
(* The refinement.                                                            *)

\* The initial states are PromiseLinks'.
LEMMA InitLink == Init => Link!Init
<1> QED
  BY DEF Init, Link!Init


\* Settling in Duktape's heap changes the outcome of one promise, as it should or, once
\* setImmediate is gone, to a rejection; and no copy that is lost comes back.
LEMMA SettleDukLink ==
  ASSUME TypeOK, NEW p \in Promise, NEW o \in Outcomes, NEW st,
         stage[p] # "lost", SettleDuk(p, o, st)
  PROVE  /\ \E r \in {o} \cup (IF immediates = "off" THEN {"rejected"} ELSE {}) :
              outcome' = [outcome EXCEPT ![p] = r]
         /\ \A c \in Promise : stage[c] = "lost" => stage'[c] = "lost"
<1> DEFINE linked == {c \in Copies(p) : stage[c] = "linked"}
<1>1. CASE immediates = "off" /\ linked # {}
  BY <1>1 DEF SettleDuk, Handlers, TypeOK, Copies
<1>2. CASE ~(immediates = "off" /\ linked # {})
  BY <1>2 DEF SettleDuk, Handlers, TypeOK, Copies
<1> QED
  BY <1>1, <1>2

\* So it does in Node.
LEMMA SettleNodeLink ==
  ASSUME TypeOK, NEW p \in Promise, NEW o, NEW st,
         stage[p] # "lost", SettleNode(p, o, st)
  PROVE  /\ outcome' = [outcome EXCEPT ![p] = o]
         /\ \A c \in Promise : stage[c] = "lost" => stage'[c] = "lost"
<1> QED
  BY DEF SettleNode, Handlers, TypeOK, Copies

\* Every step makes a promise, settles one that is no copy, lets a copy follow its
\* source, or leaves outcomes alone.
LEMMA StepLink == IInv /\ [Next]_vars => [Link!Next]_Link!linkVars
<1> SUFFICES ASSUME IInv, [Next]_vars PROVE [Link!Next]_Link!linkVars
  OBVIOUS
<1> DEFINE Kept == \A c \in Promise : stage[c] = "lost" => stage'[c] = "lost"
           Off == immediates = "off" => immediates' = "off"
           Same == UNCHANGED <<source, outcome>>
           Step == Same \/ \E p \in Promise : Link!Make(p) \/ Link!Settle(p) \/ Link!Follow(p)
<1> USE DEF IInv
<1>0. ASSUME Kept, Off, Step PROVE Link!Next
  BY <1>0 DEF Link!Next
<1>1. ASSUME NEW p \in Promise, NEW s \in {"node", "duk"}, Create(p, s) PROVE Link!Next
  <2>1. Kept /\ Off /\ Link!Make(p)
    BY <1>1, Sources DEF Create, New, TypeOK, CopiesInv, Link!Make, Link!Made
  <2> QED
    BY <1>0, <2>1
<1>2. ASSUME NEW p \in Promise, NEW q \in Promise, CrossToDuk(p, q) \/ CrossToNode(p, q)
      PROVE  Link!Next
  <2>1. Kept /\ Off /\ Link!Make(q)
    BY <1>2, Sources DEF CrossToDuk, CrossToNode, New, TypeOK, CopiesInv, Made,
                         Link!Make, Link!Made
  <2> QED
    BY <1>0, <2>1
<1>3. ASSUME NEW p \in Promise, NEW o \in Outcomes, Settle(p, o) PROVE Link!Next
  <2>1. source[p] = Origin /\ outcome[p] = "pending" /\ stage[p] # "lost"
    BY <1>3, Sources DEF Settle, Settled, CopiesInv
  <2>2. Kept /\ \E r \in Outcomes : outcome' = [outcome EXCEPT ![p] = r]
    <3>1. CASE side[p] = "node"
      BY <1>3, <2>1, <3>1, SettleNodeLink DEF Settle
    <3>2. CASE side[p] # "node"
      BY <1>3, <2>1, <3>2, SettleDukLink DEF Settle, Outcomes
    <3> QED
      BY <3>1, <3>2
  <2>3. Off /\ Link!Settle(p)
    BY <1>3, <2>1, <2>2 DEF Settle, crossing, Link!Settle, Outcomes
  <2> QED
    BY <1>0, <2>2, <2>3
<1>4. ASSUME NEW b \in Promise, RunMicrotask(b) PROVE Link!Next
  <2>1. /\ stage[b] = "due" /\ source[b] \in Promise /\ outcome[source[b]] \in Outcomes
        /\ outcome[b] = "pending" /\ UNCHANGED <<source, immediates>>
    BY <1>4 DEF RunMicrotask, ToDuk, CopiesInv, TypeOK, crossing
  <2>2. CASE ~alive \/ ResolveLater(b)
    <3>1. Kept /\ Off /\ Same
      BY <1>4, <2>1, <2>2 DEF RunMicrotask, ResolveNow, ResolveLater, TypeOK
    <3> QED
      BY <1>0, <3>1
  <2>3. CASE alive /\ ResolveNow(b)
    <3>1. SettleDuk(b, outcome[source[b]], "done")
      BY <2>3 DEF ResolveNow
    <3>2. Kept /\ Off /\ Link!Follow(b)
      BY <2>1, <3>1, SettleDukLink, Sources DEF Link!Follow, Link!Behind, Link!Made, Outcomes
    <3> QED
      BY <1>0, <3>2
  <2> QED
    BY <1>4, <2>2, <2>3 DEF RunMicrotask
<1>5. ASSUME NEW b \in Promise, RunResolveJob(b) PROVE Link!Next
  <2>1. /\ stage[b] = "job" /\ source[b] \in Promise /\ outcome[source[b]] \in Outcomes
        /\ outcome[b] = "pending" /\ UNCHANGED <<source, immediates>>
        /\ SettleDuk(b, outcome[source[b]], "done")
    BY <1>5 DEF RunResolveJob, ToDuk, CopiesInv, TypeOK, crossing
  <2>2. Kept /\ Off /\ Link!Follow(b)
    BY <2>1, SettleDukLink, Sources DEF Link!Follow, Link!Behind, Link!Made, Outcomes
  <2> QED
    BY <1>0, <2>2
<1>6. ASSUME NEW c \in Promise, RunImmediate(c) \/ RunHandlerJob(c) PROVE Link!Next
  <2>1. /\ stage[c] \in {"due", "job"} /\ source[c] \in Promise
        /\ outcome[source[c]] \in Outcomes
        /\ outcome[c] = "pending" /\ UNCHANGED <<source, immediates>>
    BY <1>6 DEF RunImmediate, RunHandlerJob, ToNode, CopiesInv, TypeOK, crossing
  <2>2. \/ UNCHANGED outcome /\ \E st \in {"job", "lost"} : stage' = [stage EXCEPT ![c] = st]
        \/ SettleNode(c, outcome[source[c]], "done")
    BY <1>6 DEF RunImmediate, RunHandlerJob, HandleDuk, HandleDukAsync
  <2>3. CASE UNCHANGED outcome /\ \E st \in {"job", "lost"} : stage' = [stage EXCEPT ![c] = st]
    <3>1. Kept /\ Off /\ Same
      BY <2>1, <2>3 DEF TypeOK
    <3> QED
      BY <1>0, <3>1
  <2>4. CASE SettleNode(c, outcome[source[c]], "done")
    <3>1. Kept /\ Off /\ Link!Follow(c)
      BY <2>1, <2>4, SettleNodeLink, Sources
         DEF Link!Follow, Link!Behind, Link!Made, Outcomes
    <3> QED
      BY <1>0, <3>1
  <2> QED
    BY <2>2, <2>3, <2>4
<1>7. ASSUME \/ \E p \in Promise : Report(p)
             \/ DisableTimers \/ DeleteSetImmediate \/ CollectContext
      PROVE  Link!Next
  <2>1. Kept /\ Off /\ Same
    BY <1>7 DEF Report, DisableTimers, DeleteSetImmediate, CollectContext, crossing, TypeOK
  <2> QED
    BY <1>0, <2>1
<1>8. CASE UNCHANGED vars
  BY <1>8 DEF vars, Link!linkVars
<1> QED
  BY <1>1, <1>2, <1>3, <1>4, <1>5, <1>6, <1>7, <1>8 DEF Next

\* However often promises cross, each copy settles after its source, once and in the
\* same way, unless setImmediate is gone (Promise.cpp:9-63).
THEOREM ImplementsLinks == Spec => Link!SafeSpec
<1>1. Init => Link!Init
  BY InitLink
<1> QED
  BY <1>1, StepLink, Invariance, PTL DEF Spec, Link!SafeSpec
================================================================================
