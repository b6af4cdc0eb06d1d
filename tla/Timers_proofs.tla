----------------------------- MODULE Timers_proofs -----------------------------
(***************************************************************************)
(* Safety of Timers for any number of calls, of timers and of callbacks    *)
(* queued, in both contexts, however the calls' awaits interleave.         *)
(***************************************************************************)
EXTENDS Timers, SequenceTheorems, TLAPS

\* A Node timer; how far a call is.
Timer == [type : Types, id : 0 .. MaxTimers[async], armed : BOOLEAN]
Progress == [op : {"none", "enable", "promises", "disable", "failed"}, step : 0 .. Returned]

Typed ==
  /\ {async, timersEnabled, promisesEnabled, overlapped} \subseteq BOOLEAN
  /\ lastTimerID \in Nat /\ lastTimerID <= Len(timers)
  /\ installed \subseteq Range(Added)
  /\ calls \in [Calls -> Progress]
  /\ timers \in Seq(Timer) /\ Len(timers) <= MaxTimers[async]
  /\ queue \in Seq(1 .. Len(timers)) /\ Len(queue) <= MaxQueue
  /\ asked \subseteq 1 .. Len(timers)
  /\ pendingTimers # NoTable =>
       /\ pendingTimers \in [DOMAIN pendingTimers -> 1 .. Len(timers)]
       /\ \A id \in DOMAIN pendingTimers : id \in Nat /\ id < lastTimerID

\* There is a table from the first call on that enables timers, and nothing uses
\* it before.  A Context's calls are over at once.
TableInv ==
  /\ pendingTimers # NoTable <=> timersEnabled \/ \E c \in Calls : Enabling(c)
  /\ pendingTimers = NoTable => timers = << >> /\ installed = {}
  /\ ~async => \A c \in Calls : calls[c].step \in {0, Returned}
  /\ \A c \in Calls : calls[c].op = "none" <=> calls[c].step = 0

\* Unless enableTimers has overlapped, the IDs are distinct.
ExactInv ==
  /\ ~overlapped => /\ lastTimerID = Len(timers)
                    /\ \A h \in 1 .. Len(timers) : timers[h].id = h - 1
  /\ TableExact
  /\ ClearedIsDisarmed

\* Until disableTimers is called, functions are only added, in their order, and
\* then the flags are set.
NoDisable == \A c \in Calls : calls[c].op # "disable"
HasInv ==
  /\ promisesEnabled => timersEnabled
  /\ \A c \in Calls : calls[c].op \in {"enable", "promises"} /\ calls[c].step > FlagStep
       => timersEnabled
  /\ NoDisable =>
       /\ timersEnabled => installed = Range(Added)
       /\ \A c \in Calls :
            /\ Enabling(c) => \A i \in 1 .. 6 : i < calls[c].step - 1 => Added[i] \in installed
            /\ calls[c].op = "promises" /\ calls[c].step = Returned => promisesEnabled

IInv == Typed /\ TableInv /\ ExactInv /\ HasInv

USE TimersAssumption

--------------------------------------------------------------------------------
(* Data.                                                                      *)

\* What maps IDs to timers is a table.
LEMMA IsTable ==
  ASSUME async \in BOOLEAN, NEW ids, \A id \in ids : id \in 0 .. MaxTimers[async],
         NEW n \in Nat, n <= MaxTimers[async], NEW table \in [ids -> 1 .. n]
  PROVE  table # NoTable /\ table \in Tables(async)
<1>1. ids \in SUBSET (0 .. MaxTimers[async])
  OBVIOUS
<1>2. MaxTimers[async] \in Nat /\ table \in [ids -> 1 .. MaxTimers[async]]
  OBVIOUS
<1>3. table \in Tables(async)
  BY <1>1, <1>2 DEF Tables
<1> QED
  BY <1>3, NoTableAssumption

\* The empty table.
LEMMA Empty == << >> \in [{} -> {}] /\ DOMAIN << >> = {} /\ Range(<< >>) = {}
<1>1. << >> \in Seq({}) /\ Len(<< >>) = 0
  OBVIOUS
<1>2. DOMAIN << >> = {}
  BY <1>1
<1>3. << >> = [i \in {} |-> i]
  BY <1>2
<1> QED
  BY <1>2, <1>3 DEF Range

\* The six functions, in two orders.
LEMMA Six ==
  /\ Range(Added) = {"setTimeout", "setInterval", "setImmediate",
                     "clearTimeout", "clearInterval", "clearImmediate"}
  /\ Range(Deleted) = Range(Added)
  /\ Range(Added) = {Added[i] : i \in 1 .. 6}
  /\ Types = {"timeout", "interval", "immediate"}
  /\ \A type \in Types : Setter[type] \in Range(Added) /\ Clearer[type] \in Range(Added)
<1>1. DOMAIN Added = 1 .. 6 /\ DOMAIN Deleted = 1 .. 6
  BY DEF Added, Deleted
<1>2. 1 .. 6 = {1, 2, 3, 4, 5, 6}
  OBVIOUS
<1>3. Range(Added) = {Added[1], Added[2], Added[3], Added[4], Added[5], Added[6]}
  BY <1>1, <1>2 DEF Range
<1>4. Range(Deleted) = {Deleted[1], Deleted[2], Deleted[3], Deleted[4], Deleted[5], Deleted[6]}
  BY <1>1, <1>2 DEF Range
<1>5. Range(Added) = {Added[i] : i \in 1 .. 6}
  BY <1>1 DEF Range
<1>6. Types = {"timeout", "interval", "immediate"}
  BY DEF Types, Setter
<1> QED
  BY <1>3, <1>4, <1>5, <1>6 DEF Added, Deleted, Setter, Clearer

\* A function from an initial segment of the numbers is a sequence.
LEMMA IsSeq ==
  ASSUME NEW T, NEW n \in Nat, NEW s \in [1 .. n -> T]
  PROVE  s \in Seq(T) /\ Len(s) = n
<1>1. s \in Seq(T)
  BY SeqDef
<1>2. DOMAIN s = 1 .. Len(s) /\ DOMAIN s = 1 .. n /\ Len(s) \in Nat
  BY <1>1
<1> QED
  BY <1>1, <1>2

\* What Disarm does.
LEMMA DisarmFacts ==
  ASSUME timers \in Seq(Timer), NEW cleared, Disarm(cleared), async' = async
  PROVE  /\ timers' \in Seq(Timer') /\ Len(timers') = Len(timers)
         /\ \A h \in 1 .. Len(timers) :
              /\ timers'[h].type = timers[h].type /\ timers'[h].id = timers[h].id
              /\ timers'[h].armed <=> timers[h].armed /\ h \notin cleared
<1>1. DOMAIN timers = 1 .. Len(timers) /\ Len(timers) \in Nat
      /\ \A h \in 1 .. Len(timers) : timers[h] \in Timer
  OBVIOUS
<1>2. \A h \in 1 .. Len(timers) :
        /\ timers'[h] \in Timer
        /\ timers'[h].type = timers[h].type /\ timers'[h].id = timers[h].id
        /\ timers'[h].armed <=> timers[h].armed /\ h \notin cleared
  BY <1>1 DEF Disarm, Timer
<1>3. timers' \in [1 .. Len(timers) -> Timer]
  BY <1>1, <1>2 DEF Disarm
<1>4. timers' \in Seq(Timer) /\ Len(timers') = Len(timers)
  BY <1>1, <1>3, IsSeq
<1>5. Timer' = Timer
  BY DEF Timer
<1> QED
  BY <1>2, <1>4, <1>5

\* What Call and Proceed do.
LEMMA CallFacts ==
  ASSUME Typed, NEW c \in Calls, async' = async
  PROVE  /\ Calls' = Calls /\ Progress' = Progress /\ Calls \subseteq Nat
         /\ \A op \in {"enable", "promises", "disable", "failed"}, step \in 1 .. Returned :
              Call(c, op, step) =>
                /\ calls[c].op = "none" /\ calls[c].step = 0
                /\ calls' \in [Calls -> Progress]
                /\ calls'[c].op = op /\ calls'[c].step = step
                /\ \A d \in Calls \ {c} : calls'[d] = calls[d]
         /\ \A step \in 0 .. Returned :
              Proceed(c, step) =>
                /\ calls' \in [Calls -> Progress]
                /\ calls'[c].op = calls[c].op /\ calls'[c].step = step
                /\ \A d \in Calls \ {c} : calls'[d] = calls[d]
<1>1. calls \in [Calls -> Progress] /\ calls[c] \in Progress
  BY DEF Typed
<1>2. Calls' = Calls /\ Progress' = Progress /\ Calls \subseteq Nat
  BY DEF Calls, Progress, Typed
<1>3. ASSUME NEW op \in {"enable", "promises", "disable", "failed"}, NEW step \in 1 .. Returned,
             Call(c, op, step)
      PROVE  /\ calls[c].op = "none" /\ calls[c].step = 0
             /\ calls' \in [Calls -> Progress]
             /\ calls'[c].op = op /\ calls'[c].step = step
             /\ \A d \in Calls \ {c} : calls'[d] = calls[d]
  <2>1. [op |-> op, step |-> step] \in Progress
    BY DEF Progress, Returned
  <2> QED
    BY <1>1, <1>3, <2>1 DEF Call, NotCalled
<1>4. ASSUME NEW step \in 0 .. Returned, Proceed(c, step)
      PROVE  /\ calls' \in [Calls -> Progress]
             /\ calls'[c].op = calls[c].op /\ calls'[c].step = step
             /\ \A d \in Calls \ {c} : calls'[d] = calls[d]
  <2>1. calls' = [calls EXCEPT ![c] = [calls[c] EXCEPT !.step = step]]
    BY <1>4 DEF Proceed
  <2>2. [calls[c] EXCEPT !.step = step] \in Progress
        /\ [calls[c] EXCEPT !.step = step].op = calls[c].op
        /\ [calls[c] EXCEPT !.step = step].step = step
    BY <1>1 DEF Progress, Returned
  <2> QED
    BY <1>1, <2>1, <2>2
<1> QED
  BY <1>2, <1>3, <1>4

\* A new table is one, and empty.
LEMMA NewTableFacts ==
  ASSUME async \in BOOLEAN, pendingTimers' = << >>
  PROVE  /\ pendingTimers' # NoTable /\ DOMAIN pendingTimers' = {}
         /\ \A n \in Nat : pendingTimers' \in [DOMAIN pendingTimers' -> 1 .. n]
<1>1. << >> \in [{} -> 1 .. MaxTimers[async]] /\ {} \in SUBSET (0 .. MaxTimers[async])
  BY Empty
<1>2. << >> \in Tables(async)
  BY <1>1 DEF Tables
<1>3. << >> # NoTable
  BY <1>2, NoTableAssumption
<1> QED
  BY <1>3, Empty

--------------------------------------------------------------------------------
(* The invariant holds in the beginning.                                      *)

\* There is no table and no call yet.
LEMMA InitIInv == Init => IInv
<1> SUFFICES ASSUME Init PROVE IInv
  OBVIOUS
<1>0. async \in BOOLEAN /\ MaxTimers[async] \in Nat
  BY DEF Init
<1>1. /\ timersEnabled = FALSE /\ promisesEnabled = FALSE /\ overlapped = FALSE
      /\ pendingTimers = NoTable /\ lastTimerID = 0 /\ installed = {} /\ asked = {}
      /\ timers = << >> /\ queue = << >> /\ Len(timers) = 0 /\ Len(queue) = 0
      /\ timers \in Seq(Timer) /\ queue \in Seq(1 .. Len(timers))
      /\ calls = [c \in Calls |-> NotCalled]
  BY DEF Init
<1>2. NotCalled \in Progress /\ \A c \in Calls : calls[c].op = "none" /\ calls[c].step = 0
  BY <1>1 DEF NotCalled, Progress, Returned
<1>3. \A c \in Calls : ~Enabling(c)
  BY <1>2 DEF Enabling
<1>4. Typed
  <2>1. calls \in [Calls -> Progress]
    BY <1>1, <1>2
  <2>2. {async, timersEnabled, promisesEnabled, overlapped} \subseteq BOOLEAN
    BY <1>0, <1>1
  <2> QED
    BY <1>0, <1>1, <2>1, <2>2 DEF Typed
<1>5. TableInv
  BY <1>1, <1>2, <1>3 DEF TableInv
<1>6. DOMAIN timers = {}
  BY <1>1
<1>7. ExactInv
  BY <1>1, <1>6 DEF ExactInv, TableExact, ClearedIsDisarmed
<1>8. HasInv
  BY <1>1, <1>2, <1>3 DEF HasInv, FlagStep
<1> QED
  BY <1>4, <1>5, <1>7, <1>8 DEF IInv

--------------------------------------------------------------------------------
(* It is preserved: types.                                                    *)

\* What every step leaves as it is.
LEMMA AsyncKept == Next => async' = async
  BY DEF Next, EnableNow, Enable, EnablePromises, Install, Enabled, EvalPolyfill, Disable,
         Remove, Set, Clear, Fire, RunCallback, TimerSide

\* Every variable keeps its type.
LEMMA TypedStep == IInv /\ [Next]_vars => Typed'
<1> SUFFICES ASSUME IInv, [Next]_vars PROVE Typed'
  OBVIOUS
<1>1. CASE UNCHANGED vars
  BY <1>1 DEF IInv, Typed, Timer, Progress, Calls, vars
<1> SUFFICES ASSUME Next PROVE Typed'
  BY <1>1
<1>0. /\ Typed /\ TableInv /\ async' = async /\ Timer' = Timer /\ Progress' = Progress
      /\ Calls' = Calls /\ MaxTimers[async] \in Nat
  BY AsyncKept DEF IInv, Typed, Timer, Progress, Calls
<1> USE DEF ScriptSide, TimerSide
\* The timers stay; the table does or is made anew.
<1>2. ASSUME UNCHANGED <<timers, queue, asked>>,
             {timersEnabled', promisesEnabled', overlapped'} \subseteq BOOLEAN,
             installed' \subseteq Range(Added), calls' \in [Calls -> Progress],
             NewTable \/ UNCHANGED <<pendingTimers, lastTimerID>>
      PROVE  Typed'
  <2>1. CASE NewTable
    <3>1. /\ pendingTimers' \in [DOMAIN pendingTimers' -> 1 .. Len(timers)]
          /\ DOMAIN pendingTimers' = {} /\ lastTimerID' = 0 /\ Len(timers) \in Nat
      BY <1>0, <2>1, NewTableFacts DEF Typed, NewTable
    <3>2. {async', timersEnabled', promisesEnabled', overlapped'} \subseteq BOOLEAN
      BY <1>0, <1>2 DEF Typed
    <3>3. pendingTimers' # NoTable =>
            /\ pendingTimers' \in [DOMAIN pendingTimers' -> 1 .. Len(timers)]
            /\ \A id \in DOMAIN pendingTimers' : id \in Nat /\ id < lastTimerID'
      BY <3>1
    <3>4. lastTimerID' \in Nat /\ lastTimerID' <= Len(timers)
      BY <3>1
    <3> QED
      BY <1>0, <1>2, <3>2, <3>3, <3>4 DEF Typed
  <2>2. CASE UNCHANGED <<pendingTimers, lastTimerID>>
    BY <1>0, <1>2, <2>2 DEF Typed
  <2> QED
    BY <1>2, <2>1, <2>2
\* And they are no others.
<1>3. ASSUME timers' \in Seq(Timer), Len(timers') = Len(timers),
             calls' \in [Calls -> Progress], installed' \subseteq Range(Added),
             UNCHANGED <<timersEnabled, promisesEnabled, overlapped, lastTimerID>>,
             asked' \subseteq 1 .. Len(timers), queue' \in Seq(1 .. Len(timers)),
             Len(queue') <= MaxQueue,
             \/ pendingTimers' = << >> \/ UNCHANGED pendingTimers
             \/ \E id : pendingTimers # NoTable /\
                  pendingTimers' = Restrict(pendingTimers, DOMAIN pendingTimers \ {id})
      PROVE  Typed'
  <2>1. pendingTimers' # NoTable =>
          /\ pendingTimers' \in [DOMAIN pendingTimers' -> 1 .. Len(timers)]
          /\ \A id \in DOMAIN pendingTimers' : id \in Nat /\ id < lastTimerID
    <3>1. CASE pendingTimers' = << >>
      BY <1>0, <3>1, NewTableFacts DEF Typed
    <3>2. CASE UNCHANGED pendingTimers
      BY <1>0, <3>2 DEF Typed
    <3>3. ASSUME pendingTimers # NoTable,
                 NEW id,
                 pendingTimers' = Restrict(pendingTimers, DOMAIN pendingTimers \ {id})
          PROVE  /\ pendingTimers' \in [DOMAIN pendingTimers' -> 1 .. Len(timers)]
                 /\ \A i \in DOMAIN pendingTimers' : i \in Nat /\ i < lastTimerID
      BY <1>0, <3>3 DEF Typed, Restrict
    <3> QED
      BY <1>3, <3>1, <3>2, <3>3
  <2>2. {async', timersEnabled', promisesEnabled', overlapped'} \subseteq BOOLEAN
    BY <1>0, <1>3 DEF Typed
  <2> QED
    BY <1>0, <1>3, <2>1, <2>2 DEF Typed
<1>4. ASSUME NEW c \in Calls, NEW op \in {"enable", "promises"}, EnableNow(c, op)
      PROVE  Typed'
  <2>1. calls' \in [Calls -> Progress]
    BY <1>0, <1>4, CallFacts DEF EnableNow, Returned
  <2> QED
    BY <1>0, <1>2, <1>4, <2>1 DEF EnableNow, Polyfill, Typed
<1>5. ASSUME NEW c \in Calls, Enable(c) PROVE Typed'
  <2>1. calls' \in [Calls -> Progress]
    BY <1>0, <1>5, CallFacts DEF Enable, Returned
  <2> QED
    BY <1>0, <1>2, <1>5, <2>1 DEF Enable, StartEnabling, Typed
<1>6. ASSUME NEW c \in Calls, EnablePromises(c) PROVE Typed'
  <2>1. calls' \in [Calls -> Progress]
    BY <1>0, <1>6, CallFacts DEF EnablePromises, Returned, EvalStep
  <2> QED
    BY <1>0, <1>2, <1>6, <2>1 DEF EnablePromises, StartEnabling, Typed
<1>7. ASSUME NEW c \in Calls, Install(c) PROVE Typed'
  <2>1. calls[c].step \in 1 .. 7
    BY <1>7 DEF Install, Enabling, FlagStep
  <2>2. calls' \in [Calls -> Progress]
    BY <1>0, <1>7, <2>1, CallFacts DEF Install, Returned
  <2>3. installed' \subseteq Range(Added)
    <3>1. calls[c].step # 1 => calls[c].step - 1 \in 1 .. 6
      BY <2>1
    <3>2. calls[c].step # 1 => Added[calls[c].step - 1] \in Range(Added)
      BY <3>1, Six
    <3> QED
      BY <1>0, <1>7, <3>2 DEF Install, Typed
  <2> QED
    BY <1>0, <1>2, <1>7, <2>2, <2>3 DEF Install, Typed
<1>8. ASSUME NEW c \in Calls, Enabled(c) \/ EvalPolyfill(c) PROVE Typed'
  <2>1. calls' \in [Calls -> Progress]
    BY <1>0, <1>8, CallFacts DEF Enabled, EvalPolyfill, Returned, EvalStep
  <2> QED
    BY <1>0, <1>2, <1>8, <2>1 DEF Enabled, EvalPolyfill, Polyfill, Typed
<1>9. ASSUME NEW c \in Calls, Disable(c) PROVE Typed'
  <2>1. calls' \in [Calls -> Progress]
    BY <1>0, <1>9, CallFacts DEF Disable, Returned
  <2>2. timers' \in Seq(Timer) /\ Len(timers') = Len(timers)
    BY <1>0, <1>9, DisarmFacts DEF Disable, ClearAll, Typed
  <2> QED
    BY <1>0, <1>3, <1>9, <2>1, <2>2 DEF Disable, ClearAll, Typed
<1>10. ASSUME NEW c \in Calls, Remove(c) PROVE Typed'
  <2>1. calls[c].step \in 0 .. 7
    <3>1. calls[c] \in Progress
      BY <1>0 DEF Typed
    <3> QED
      BY <1>10, <3>1 DEF Remove, FlagStep, Progress, Returned
  <2>2. calls' \in [Calls -> Progress]
    BY <1>0, <1>10, <2>1, CallFacts DEF Remove, Returned
  <2> QED
    BY <1>0, <1>2, <1>10, <2>2 DEF Remove, Typed
<1>11. ASSUME NEW type \in Types, Set(type) PROVE Typed'
  <2>1. pendingTimers # NoTable
    BY <1>0, <1>11 DEF Set, TableInv
  <2> DEFINE t == [type |-> type, id |-> lastTimerID, armed |-> TRUE]
  <2>2. t \in Timer
    BY <1>0, <1>11 DEF Set, Typed, Timer
  <2>3. timers' \in Seq(Timer) /\ Len(timers') = Len(timers) + 1
    BY <1>0, <1>11, <2>2 DEF Set, Typed
  <2>4. /\ lastTimerID' \in Nat /\ lastTimerID' = lastTimerID + 1 /\ lastTimerID' <= Len(timers')
        /\ Len(timers') <= MaxTimers[async]
    BY <1>0, <1>11, <2>3 DEF Set, Typed
  <2>5. queue' \in Seq(1 .. Len(timers')) /\ asked' \subseteq 1 .. Len(timers')
    <3>1. 1 .. Len(timers) \subseteq 1 .. Len(timers')
      BY <1>0, <2>3 DEF Typed
    <3>2. queue \in Seq(1 .. Len(timers')) /\ asked \subseteq 1 .. Len(timers')
      <4>1. queue \in Seq(1 .. Len(timers)) /\ asked \subseteq 1 .. Len(timers)
        BY <1>0 DEF Typed
      <4>2. DOMAIN queue = 1 .. Len(queue) /\ Len(queue) \in Nat
            /\ queue \in [1 .. Len(queue) -> 1 .. Len(timers)]
        BY <4>1
      <4>3. queue \in [1 .. Len(queue) -> 1 .. Len(timers')]
        BY <3>1, <4>2
      <4>4. queue \in Seq(1 .. Len(timers'))
        BY <4>2, <4>3, IsSeq
      <4> QED
        BY <3>1, <4>1, <4>4
    <3> QED
      BY <1>11, <3>2 DEF Set
  <2>6. /\ pendingTimers' \in [DOMAIN pendingTimers' -> 1 .. Len(timers')]
        /\ \A id \in DOMAIN pendingTimers' : id \in Nat /\ id < lastTimerID'
    <3>1. /\ pendingTimers \in [DOMAIN pendingTimers -> 1 .. Len(timers)]
          /\ \A id \in DOMAIN pendingTimers : id \in Nat /\ id < lastTimerID
          /\ lastTimerID \in Nat /\ Len(timers) \in Nat
      BY <1>0, <2>1 DEF Typed
    <3>2. /\ DOMAIN pendingTimers' = DOMAIN pendingTimers \cup {lastTimerID}
          /\ \A id \in DOMAIN pendingTimers' : pendingTimers'[id] \in 1 .. Len(timers')
          /\ pendingTimers' = [id \in DOMAIN pendingTimers' |-> pendingTimers'[id]]
      BY <1>11, <2>3, <3>1 DEF Set
    <3> QED
      BY <2>4, <3>1, <3>2
  <2> QED
    BY <1>0, <1>11, <2>3, <2>4, <2>5, <2>6 DEF Set, Typed
<1>12. ASSUME NEW type \in Types, NEW h \in DOMAIN timers, Clear(type, h) PROVE Typed'
  <2>1. timers' \in Seq(Timer) /\ Len(timers') = Len(timers) /\ h \in 1 .. Len(timers)
    BY <1>0, <1>12, DisarmFacts DEF Clear, Typed
  <2>2. pendingTimers # NoTable
    BY <1>0, <1>12 DEF Clear, TableInv
  <2>3. \/ UNCHANGED pendingTimers
        \/ \E id : pendingTimers' = Restrict(pendingTimers, DOMAIN pendingTimers \ {id})
    BY <1>12 DEF Clear, Found
  <2> QED
    BY <1>0, <1>3, <1>12, <2>1, <2>2, <2>3 DEF Clear, Typed
<1>13. ASSUME NEW h \in DOMAIN timers, Fire(h) PROVE Typed'
  <2>1. timers' \in Seq(Timer) /\ Len(timers') = Len(timers) /\ h \in 1 .. Len(timers)
    <3>1. timers \in [1 .. Len(timers) -> Timer] /\ Len(timers) \in Nat
      BY <1>0 DEF Typed
    <3>2. [timers[h] EXCEPT !.armed = FALSE] \in Timer
      BY <3>1 DEF Timer
    <3>3. timers' \in [1 .. Len(timers) -> Timer]
      BY <1>13, <3>1, <3>2 DEF Fire
    <3> QED
      BY <3>1, <3>3, IsSeq
  <2>2. pendingTimers # NoTable
    BY <1>0, <2>1 DEF TableInv
  <2>3. queue' \in Seq(1 .. Len(timers)) /\ Len(queue') <= MaxQueue
    <3>1. h \in 1 .. Len(timers) /\ queue \in Seq(1 .. Len(timers)) /\ Len(queue) <= MaxQueue
      BY <1>0, <2>1 DEF Typed
    <3>2. CASE Len(queue) < MaxQueue /\ queue' = Append(queue, h)
      <4>1. queue' \in Seq(1 .. Len(timers)) /\ Len(queue') = Len(queue) + 1
            /\ Len(queue) \in Nat
        BY <3>1, <3>2
      <4> QED
        BY <3>2, <4>1
    <3>3. CASE UNCHANGED queue
      BY <3>1, <3>3
    <3> QED
      BY <1>13, <3>2, <3>3 DEF Fire
  <2>4. /\ UNCHANGED <<calls, installed, timersEnabled, promisesEnabled, overlapped,
                       lastTimerID, asked>>
        /\ \/ UNCHANGED pendingTimers
           \/ \E id : pendingTimers' = Restrict(pendingTimers, DOMAIN pendingTimers \ {id})
    BY <1>13 DEF Fire
  <2> QED
    BY <1>0, <1>3, <2>1, <2>2, <2>3, <2>4 DEF Typed
<1>14. CASE RunCallback
  <2>1. queue' \in Seq(1 .. Len(timers)) /\ Len(queue') <= MaxQueue
    <3>1. queue \in Seq(1 .. Len(timers)) /\ queue # << >> /\ queue' = Tail(queue)
          /\ Len(queue) <= MaxQueue
      BY <1>0, <1>14 DEF RunCallback, Typed
    <3>2. queue' \in Seq(1 .. Len(timers)) /\ Len(queue') = Len(queue) - 1 /\ Len(queue) \in Nat
      BY <3>1
    <3> QED
      BY <3>1, <3>2
  <2> QED
    BY <1>0, <1>3, <1>14, <2>1 DEF RunCallback, Typed
<1> QED
  BY <1>4, <1>5, <1>6, <1>7, <1>8, <1>9, <1>10, <1>11, <1>12, <1>13, <1>14 DEF Next

--------------------------------------------------------------------------------
(* The table, and how far the calls are.                                      *)

\* Once there is a table there always is one.
LEMMA TableStays == IInv /\ Next /\ pendingTimers # NoTable => pendingTimers' # NoTable
<1> SUFFICES ASSUME IInv, Next, pendingTimers # NoTable PROVE pendingTimers' # NoTable
  OBVIOUS
<1>0. /\ async \in BOOLEAN /\ Len(timers) \in Nat /\ Len(timers) <= MaxTimers[async]
      /\ MaxTimers[async] \in Nat
      /\ pendingTimers \in [DOMAIN pendingTimers -> 1 .. Len(timers)]
      /\ \A id \in DOMAIN pendingTimers : id \in 0 .. MaxTimers[async]
      /\ lastTimerID \in 0 .. Len(timers)
  BY DEF IInv, Typed
<1>1. CASE pendingTimers' = << >>
  BY <1>0, <1>1, NewTableFacts
<1>2. CASE UNCHANGED pendingTimers
  BY <1>2
<1>3. ASSUME NEW id, pendingTimers' = Restrict(pendingTimers, DOMAIN pendingTimers \ {id})
      PROVE  pendingTimers' # NoTable
  <2>1. pendingTimers' \in [DOMAIN pendingTimers \ {id} -> 1 .. Len(timers)]
    BY <1>0, <1>3 DEF Restrict
  <2> QED
    BY <1>0, <2>1, IsTable
<1>4. ASSUME NEW type \in Types, Set(type) PROVE pendingTimers' # NoTable
  <2> DEFINE ids == DOMAIN pendingTimers \cup {lastTimerID}
             n   == Len(timers) + 1
  <2>1. Len(timers') = n /\ n \in Nat /\ n <= MaxTimers[async]
    BY <1>0, <1>4 DEF Set, IInv, Typed
  <2>2. pendingTimers' \in [ids -> 1 .. n]
    BY <1>0, <1>4, <2>1 DEF Set
  <2>3. \A id \in ids : id \in 0 .. MaxTimers[async]
    BY <1>0
  <2> HIDE DEF ids, n
  <2> QED
    BY <1>0, <2>1, <2>2, <2>3, IsTable
<1>5. \/ pendingTimers' = << >> \/ UNCHANGED pendingTimers
      \/ \E id : pendingTimers' = Restrict(pendingTimers, DOMAIN pendingTimers \ {id})
      \/ \E type \in Types : Set(type)
  BY DEF Next, EnableNow, Enable, EnablePromises, StartEnabling, NewTable, Install, Enabled,
         EvalPolyfill, Disable, ClearAll, Remove, Clear, Fire, RunCallback
<1> QED
  BY <1>1, <1>2, <1>3, <1>4, <1>5

\* Timers are enabled, or being enabled, exactly if there is a table.
LEMMA TableStep == IInv /\ [Next]_vars => TableInv'
<1> SUFFICES ASSUME IInv, [Next]_vars PROVE TableInv'
  OBVIOUS
<1>1. CASE UNCHANGED vars
  BY <1>1 DEF IInv, TableInv, Calls, Enabling, vars
<1> SUFFICES ASSUME Next PROVE TableInv'
  BY <1>1
<1>0. /\ Typed /\ TableInv /\ async' = async /\ Calls' = Calls
      /\ \A c \in Calls : calls[c] \in Progress
      /\ pendingTimers # NoTable => pendingTimers' # NoTable
  BY AsyncKept, TableStays DEF IInv, Typed, Calls
<1> USE DEF ScriptSide, TimerSide
\* One call goes on, or begins, and others do not.
<1>2. ASSUME NEW c \in Calls, \A d \in Calls \ {c} : calls'[d] = calls[d],
             calls'[c].op = "none" <=> calls'[c].step = 0,
             ~async => calls'[c].step \in {0, Returned},
             pendingTimers' # NoTable <=>
               \/ timersEnabled' \/ Enabling(c)'
               \/ \E d \in Calls \ {c} : Enabling(d),
             pendingTimers' = NoTable => timers' = << >> /\ installed' = {}
      PROVE  TableInv'
  <2>1. \A d \in Calls \ {c} : Enabling(d)' <=> Enabling(d)
    BY <1>2 DEF Enabling
  <2> QED
    BY <1>0, <1>2, <2>1 DEF TableInv
\* No call does.
<1>3. ASSUME UNCHANGED <<calls, timersEnabled, installed>>, pendingTimers # NoTable
      PROVE  TableInv'
  BY <1>0, <1>3 DEF TableInv, Enabling
<1>4. ASSUME NEW c \in Calls, NEW op \in {"enable", "promises"}, EnableNow(c, op)
      PROVE  TableInv'
  <2>1. ~async /\ Call(c, op, Returned) /\ timers' = timers
    BY <1>4 DEF EnableNow
  <2>2. /\ calls'[c].op = op /\ calls'[c].step = Returned
        /\ \A d \in Calls \ {c} : calls'[d] = calls[d]
    BY <1>0, <2>1, CallFacts DEF Returned
  <2>3. ~Enabling(c)' /\ \A d \in Calls : ~Enabling(d)
    BY <1>0, <2>1, <2>2 DEF TableInv, Enabling, Returned, FlagStep
  <2>4. promisesEnabled => timersEnabled
    BY DEF IInv, HasInv
  <2>5. timersEnabled' /\ pendingTimers' # NoTable
    <3>1. CASE timersEnabled
      BY <1>0, <1>4, <2>4, <3>1 DEF EnableNow, TableInv
    <3>2. CASE ~timersEnabled
      BY <1>0, <1>4, <2>4, <3>2, NewTableFacts DEF EnableNow, NewTable, Typed
    <3> QED
      BY <3>1, <3>2
  <2> QED
    BY <1>2, <2>2, <2>3, <2>5 DEF Returned
<1>5. ASSUME NEW c \in Calls, Enable(c) \/ EnablePromises(c) PROVE TableInv'
  <2>0. async /\ UNCHANGED <<installed, timers>>
    BY <1>5 DEF Enable, EnablePromises
  <2>1. promisesEnabled => timersEnabled
    BY DEF IInv, HasInv
  <2>2. CASE timersEnabled
    <3>1. /\ UNCHANGED <<pendingTimers, timersEnabled>>
          /\ \E op \in {"enable", "promises"}, step \in {EvalStep, Returned} : Call(c, op, step)
      BY <1>5, <2>2 DEF Enable, EnablePromises
    <3>2. /\ calls[c].op = "none" /\ calls'[c].op # "none" /\ calls'[c].step \in {EvalStep, Returned}
          /\ \A d \in Calls \ {c} : calls'[d] = calls[d]
      BY <1>0, <3>1, CallFacts DEF Returned, EvalStep
    <3> QED
      BY <1>0, <1>2, <2>0, <2>2, <3>1, <3>2 DEF TableInv, EvalStep, Returned
  <2>3. CASE ~timersEnabled
    <3>1. /\ StartEnabling(c) /\ \E op \in {"enable", "promises"} : Call(c, op, 1)
      BY <1>5, <2>1, <2>3 DEF Enable, EnablePromises
    <3>2. /\ calls'[c].op \in {"enable", "promises"} /\ calls'[c].step = 1
          /\ \A d \in Calls \ {c} : calls'[d] = calls[d]
      BY <1>0, <3>1, CallFacts DEF Returned
    <3>3. pendingTimers' # NoTable
      BY <1>0, <3>1, NewTableFacts DEF StartEnabling, NewTable, Typed
    <3>4. Enabling(c)'
      BY <3>2 DEF Enabling, FlagStep
    <3> QED
      BY <1>2, <2>0, <3>2, <3>3, <3>4
  <2> QED
    BY <2>2, <2>3
<1>6. ASSUME NEW c \in Calls, Install(c) PROVE TableInv'
  <2>1. /\ Enabling(c) /\ calls[c].step \in 1 .. 7 /\ calls'[c].op = calls[c].op
        /\ calls'[c].step = calls[c].step + 1
        /\ \A d \in Calls \ {c} : calls'[d] = calls[d]
    <3>1. calls[c].step \in 1 .. 7 /\ Proceed(c, calls[c].step + 1)
      BY <1>6 DEF Install, Enabling, FlagStep
    <3>2. calls[c].step + 1 \in 0 .. Returned
      BY <3>1 DEF Returned
    <3> QED
      BY <1>0, <1>6, <3>1, <3>2, CallFacts DEF Install
  <2>2. Enabling(c)' /\ async /\ pendingTimers # NoTable
    BY <1>0, <2>1 DEF Enabling, FlagStep, TableInv, Returned
  <2> QED
    BY <1>0, <1>2, <1>6, <2>1, <2>2 DEF Install, Enabling
<1>7. ASSUME NEW c \in Calls, Enabled(c) PROVE TableInv'
  <2>1. /\ Enabling(c) /\ calls[c].step = 8 /\ timersEnabled' = TRUE
        /\ calls'[c].op = calls[c].op /\ calls'[c].step \in {EvalStep, Returned}
        /\ \A d \in Calls \ {c} : calls'[d] = calls[d]
    BY <1>0, <1>7, CallFacts DEF Enabled, FlagStep, EvalStep, Returned
  <2>2. async /\ pendingTimers # NoTable
    BY <1>0, <2>1 DEF TableInv, Returned
  <2> QED
    BY <1>0, <1>2, <1>7, <2>1, <2>2 DEF Enabled, Enabling, EvalStep, Returned
<1>8. ASSUME NEW c \in Calls, EvalPolyfill(c) PROVE TableInv'
  <2>1. /\ ~Enabling(c) /\ calls[c].op = "promises"
        /\ calls'[c].op = calls[c].op /\ calls'[c].step = Returned
        /\ \A d \in Calls \ {c} : calls'[d] = calls[d]
    BY <1>0, <1>8, CallFacts DEF EvalPolyfill, FlagStep, EvalStep, Returned, Enabling
  <2>2. ~Enabling(c)' /\ UNCHANGED <<pendingTimers, timersEnabled, installed, timers>>
    BY <1>8, <2>1 DEF Enabling, Returned, FlagStep, EvalPolyfill
  <2> QED
    BY <1>0, <1>2, <2>1, <2>2 DEF TableInv, Returned
<1>9. ASSUME NEW c \in Calls, Disable(c) PROVE TableInv'
  <2>1. /\ calls[c].op = "none" /\ calls'[c].op \in {"disable", "failed"}
        /\ calls'[c].step \in {1, Returned} /\ (~async => calls'[c].step = Returned)
        /\ \A d \in Calls \ {c} : calls'[d] = calls[d]
    BY <1>0, <1>9, CallFacts DEF Disable, Returned
  <2>2. ~Enabling(c) /\ ~Enabling(c)' /\ UNCHANGED timersEnabled
    BY <1>9, <2>1 DEF Enabling, Disable
  <2>3. pendingTimers = NoTable => UNCHANGED <<pendingTimers, timers, installed>>
    BY <1>9 DEF Disable
  <2> QED
    BY <1>0, <1>2, <2>1, <2>2, <2>3 DEF TableInv, Returned
<1>10. ASSUME NEW c \in Calls, Remove(c) PROVE TableInv'
  <2>1. /\ calls[c].op = "disable" /\ calls[c].step \in 1 .. 7
    <3>1. calls[c] \in Progress
      BY <1>0
    <3> QED
      BY <1>0, <1>10, <3>1 DEF Remove, FlagStep, Progress, Returned, TableInv
  <2>2. /\ async /\ calls'[c].op = "disable" /\ calls'[c].step \in 1 .. Returned
        /\ \A d \in Calls \ {c} : calls'[d] = calls[d]
    <3>1. async
      BY <1>0, <2>1 DEF TableInv, Returned
    <3>2. \E step \in 1 .. Returned : Proceed(c, step)
      BY <1>10, <2>1 DEF Remove, Returned
    <3> QED
      BY <1>0, <2>1, <3>1, <3>2, CallFacts DEF Returned
  <2>3. ~Enabling(c) /\ ~Enabling(c)' /\ UNCHANGED <<timersEnabled, pendingTimers, timers>>
    BY <1>10, <2>1, <2>2 DEF Enabling, Remove
  <2>4. installed' \subseteq installed
    BY <1>10 DEF Remove
  <2> QED
    BY <1>0, <1>2, <2>1, <2>2, <2>3, <2>4 DEF TableInv
<1>11. ASSUME NEW type \in Types, Set(type) PROVE TableInv'
  BY <1>0, <1>3, <1>11 DEF Set, TableInv
<1>12. ASSUME NEW type \in Types, NEW h \in DOMAIN timers, Clear(type, h) PROVE TableInv'
  BY <1>0, <1>3, <1>12 DEF Clear, TableInv
<1>13. ASSUME NEW h \in DOMAIN timers, Fire(h) PROVE TableInv'
  <2>1. pendingTimers # NoTable
    BY <1>0 DEF TableInv, Typed
  <2> QED
    BY <1>0, <1>3, <1>13, <2>1 DEF Fire
<1>14. CASE RunCallback
  BY <1>0, <1>14 DEF RunCallback, TableInv, Enabling
<1> QED
  BY <1>4, <1>5, <1>6, <1>7, <1>8, <1>9, <1>10, <1>11, <1>12, <1>13, <1>14 DEF Next

--------------------------------------------------------------------------------
(* What scripts have.                                                         *)

\* Functions and flags come in order, until disableTimers is called.
LEMMA HasStep == IInv /\ [Next]_vars => HasInv'
<1> SUFFICES ASSUME IInv, [Next]_vars PROVE HasInv'
  OBVIOUS
<1>1. CASE UNCHANGED vars
  BY <1>1 DEF IInv, HasInv, NoDisable, Calls, Enabling, vars
<1> SUFFICES ASSUME Next PROVE HasInv'
  BY <1>1
<1>0. /\ Typed /\ TableInv /\ HasInv /\ async' = async /\ Calls' = Calls
      /\ \A c \in Calls : calls[c] \in Progress
      /\ installed \subseteq Range(Added) /\ installed' \subseteq Range(Added)
  BY AsyncKept, TypedStep DEF IInv, Typed, Calls
<1> USE DEF ScriptSide, TimerSide
\* One call goes on, or begins, and functions are added at most.
<1>2. ASSUME NEW c \in Calls, \A d \in Calls \ {c} : calls'[d] = calls[d],
             calls[c].op # "disable" \/ calls'[c].op = "disable",
             timersEnabled => timersEnabled', promisesEnabled => promisesEnabled',
             promisesEnabled' => timersEnabled',
             calls'[c].op \in {"enable", "promises"} /\ calls'[c].step > FlagStep
               => timersEnabled',
             calls'[c].op # "disable" /\ NoDisable =>
               /\ installed \subseteq installed'
               /\ timersEnabled' => timersEnabled \/ installed' = Range(Added)
               /\ Enabling(c)' => \A i \in 1 .. 6 : i < calls'[c].step - 1 => Added[i] \in installed'
               /\ calls'[c].op = "promises" /\ calls'[c].step = Returned => promisesEnabled'
      PROVE  HasInv'
  <2>1. \A d \in Calls \ {c} : Enabling(d)' <=> Enabling(d)
    BY <1>2 DEF Enabling
  <2>2. NoDisable' => NoDisable /\ calls'[c].op # "disable"
    BY <1>0, <1>2 DEF NoDisable
  <2>3. ASSUME NEW d \in Calls, calls'[d].op \in {"enable", "promises"}, calls'[d].step > FlagStep
        PROVE  timersEnabled'
    BY <1>0, <1>2, <2>3 DEF HasInv
  <2>4. ASSUME NoDisable'
        PROVE  /\ timersEnabled' => installed' = Range(Added)
               /\ \A d \in Calls :
                    /\ Enabling(d)' => \A i \in 1 .. 6 : i < calls'[d].step - 1 => Added[i] \in installed'
                    /\ calls'[d].op = "promises" /\ calls'[d].step = Returned => promisesEnabled'
    <3>1. timersEnabled' => installed' = Range(Added)
      BY <1>0, <1>2, <2>2, <2>4 DEF HasInv
    <3>2. ASSUME NEW d \in Calls
          PROVE  /\ Enabling(d)' => \A i \in 1 .. 6 : i < calls'[d].step - 1 => Added[i] \in installed'
                 /\ calls'[d].op = "promises" /\ calls'[d].step = Returned => promisesEnabled'
      <4>1. CASE d = c
        BY <1>2, <2>2, <2>4, <4>1
      <4>2. CASE d # c
        BY <1>0, <1>2, <2>1, <2>2, <2>4, <4>2 DEF HasInv
      <4> QED
        BY <4>1, <4>2
    <3> QED
      BY <3>1, <3>2
  <2> QED
    BY <1>0, <1>2, <2>3, <2>4 DEF HasInv
\* No call does.
<1>3. ASSUME UNCHANGED <<calls, timersEnabled, promisesEnabled, installed>> PROVE HasInv'
  BY <1>0, <1>3 DEF HasInv, NoDisable, Enabling
<1>4. ASSUME NEW c \in Calls, NEW op \in {"enable", "promises"}, EnableNow(c, op)
      PROVE  HasInv'
  <2>1. /\ calls[c].op = "none" /\ calls'[c].op = op /\ calls'[c].step = Returned
        /\ \A d \in Calls \ {c} : calls'[d] = calls[d]
    BY <1>0, <1>4, CallFacts DEF EnableNow, Returned
  <2>2. ~Enabling(c)'
    BY <2>1 DEF Enabling, Returned, FlagStep
  <2>3. /\ timersEnabled' /\ (timersEnabled => installed' = installed)
        /\ ~timersEnabled => installed' = Range(Added)
    BY <1>0, <1>4 DEF EnableNow, HasInv
  <2>4. /\ promisesEnabled => promisesEnabled'
        /\ op = "promises" => (promisesEnabled' <=> promisesEnabled \/ "setTimeout" \in installed')
    BY <1>0, <1>4 DEF EnableNow, Polyfill, Typed
  <2>5. "setTimeout" \in Range(Added)
    BY Six
  <2>6. NoDisable => installed' = Range(Added)
    BY <1>0, <2>3 DEF HasInv
  <2> QED
    BY <1>0, <1>2, <2>1, <2>2, <2>3, <2>4, <2>5, <2>6
<1>5. ASSUME NEW c \in Calls, Enable(c) \/ EnablePromises(c) PROVE HasInv'
  <2>1. UNCHANGED <<installed, timersEnabled, promisesEnabled>>
    BY <1>5 DEF Enable, EnablePromises, StartEnabling
  <2>2. CASE timersEnabled
    <3>1. \E op \in {"enable", "promises"}, step \in {EvalStep, Returned} :
            Call(c, op, step) /\ (op = "promises" /\ step = Returned => promisesEnabled)
      <4>1. CASE Enable(c)
        BY <2>2, <4>1 DEF Enable
      <4>2. CASE EnablePromises(c) /\ promisesEnabled
        BY <4>2 DEF EnablePromises
      <4>3. CASE EnablePromises(c) /\ ~promisesEnabled
        BY <2>2, <4>3 DEF EnablePromises, EvalStep, Returned
      <4> QED
        BY <1>5, <4>1, <4>2, <4>3
    <3>2. /\ calls[c].op = "none" /\ calls'[c].op # "disable" /\ calls'[c].step \in {EvalStep, Returned}
          /\ calls'[c].op = "promises" /\ calls'[c].step = Returned => promisesEnabled
          /\ \A d \in Calls \ {c} : calls'[d] = calls[d]
      BY <1>0, <3>1, CallFacts DEF Returned, EvalStep
    <3>3. ~Enabling(c)'
      BY <3>2 DEF Enabling, FlagStep, EvalStep, Returned
    <3> QED
      BY <1>0, <1>2, <2>1, <2>2, <3>2, <3>3 DEF HasInv
  <2>3. CASE ~timersEnabled
    <3>1. \E op \in {"enable", "promises"} : Call(c, op, 1)
      BY <1>0, <1>5, <2>3 DEF Enable, EnablePromises, HasInv
    <3>2. /\ calls[c].op = "none" /\ calls'[c].op \in {"enable", "promises"} /\ calls'[c].step = 1
          /\ \A d \in Calls \ {c} : calls'[d] = calls[d]
      BY <1>0, <3>1, CallFacts DEF Returned
    <3> QED
      BY <1>0, <1>2, <2>1, <2>3, <3>2 DEF HasInv, FlagStep, Returned
  <2> QED
    BY <2>2, <2>3
<1>6. ASSUME NEW c \in Calls, Install(c) PROVE HasInv'
  <2>1. /\ Enabling(c) /\ calls[c].step \in 1 .. 7
        /\ calls'[c].op = calls[c].op /\ calls'[c].step = calls[c].step + 1
        /\ \A d \in Calls \ {c} : calls'[d] = calls[d]
    <3>1. calls[c].step \in 1 .. 7 /\ Proceed(c, calls[c].step + 1)
      BY <1>6 DEF Install, Enabling, FlagStep
    <3>2. calls[c].step + 1 \in 0 .. Returned
      BY <3>1 DEF Returned
    <3> QED
      BY <1>0, <1>6, <3>1, <3>2, CallFacts DEF Install
  <2>2. /\ UNCHANGED <<timersEnabled, promisesEnabled>> /\ installed \subseteq installed'
        /\ calls[c].step # 1 => Added[calls[c].step - 1] \in installed'
    BY <1>6 DEF Install
  <2>3. NoDisable => \A i \in 1 .. 6 : i < calls'[c].step - 1 => Added[i] \in installed'
    <3> SUFFICES ASSUME NoDisable, NEW i \in 1 .. 6, i < calls[c].step
                 PROVE  Added[i] \in installed'
      BY <2>1
    <3>1. CASE i < calls[c].step - 1
      BY <1>0, <2>1, <2>2, <3>1 DEF HasInv
    <3>2. CASE ~(i < calls[c].step - 1)
      <4>1. i = calls[c].step - 1 /\ calls[c].step # 1
        BY <2>1, <3>2
      <4> QED
        BY <2>2, <4>1
    <3> QED
      BY <3>1, <3>2
  <2>4. calls[c].op # "disable" /\ calls'[c].step <= FlagStep /\ calls'[c].step # Returned
    BY <2>1 DEF FlagStep, Returned, Enabling
  <2>5. ~(calls'[c].step > FlagStep)
    BY <2>1, <2>4 DEF FlagStep
  <2> QED
    BY <1>0, <1>2, <2>1, <2>2, <2>3, <2>4, <2>5 DEF HasInv
<1>7. ASSUME NEW c \in Calls, Enabled(c) PROVE HasInv'
  <2>1. /\ Enabling(c) /\ calls[c].step = 8 /\ timersEnabled' = TRUE
        /\ UNCHANGED <<installed, promisesEnabled>>
        /\ calls'[c].op = calls[c].op /\ calls'[c].step \in {EvalStep, Returned}
        /\ calls[c].op = "promises" => calls'[c].step = EvalStep
        /\ \A d \in Calls \ {c} : calls'[d] = calls[d]
    BY <1>0, <1>7, CallFacts DEF Enabled, FlagStep, EvalStep, Returned
  <2>2. NoDisable => installed' = Range(Added)
    <3>1. NoDisable => \A i \in 1 .. 6 : Added[i] \in installed
      BY <1>0, <2>1 DEF HasInv
    <3> QED
      BY <1>0, <2>1, <3>1, Six
  <2>3. ~Enabling(c)' /\ (calls'[c].op = "promises" => calls'[c].step # Returned)
    BY <2>1 DEF Enabling, FlagStep, EvalStep, Returned
  <2> QED
    BY <1>0, <1>2, <2>1, <2>2, <2>3 DEF Enabling
<1>8. ASSUME NEW c \in Calls, EvalPolyfill(c) PROVE HasInv'
  <2>1. /\ calls[c].op = "promises" /\ calls[c].step = EvalStep
        /\ calls'[c].op = calls[c].op /\ calls'[c].step = Returned
        /\ \A d \in Calls \ {c} : calls'[d] = calls[d]
        /\ UNCHANGED <<installed, timersEnabled>>
    BY <1>0, <1>8, CallFacts DEF EvalPolyfill, Returned
  <2>2. timersEnabled
    BY <1>0, <2>1 DEF HasInv, EvalStep, FlagStep
  <2>3. promisesEnabled' <=> promisesEnabled \/ "setTimeout" \in installed
    BY <1>0, <1>8 DEF EvalPolyfill, Polyfill, Typed
  <2>4. NoDisable => promisesEnabled'
    BY <1>0, <2>2, <2>3, Six DEF HasInv
  <2>5. ~Enabling(c)'
    BY <2>1 DEF Enabling, Returned, FlagStep
  <2> QED
    BY <1>0, <1>2, <2>1, <2>2, <2>3, <2>4, <2>5
<1>9. ASSUME NEW c \in Calls, Disable(c) PROVE HasInv'
  <2>1. /\ calls[c].op = "none" /\ calls'[c].op \in {"disable", "failed"}
        /\ \A d \in Calls \ {c} : calls'[d] = calls[d]
        /\ UNCHANGED <<timersEnabled, promisesEnabled>>
        /\ calls'[c].op = "failed" => UNCHANGED installed
    BY <1>0, <1>9, CallFacts DEF Disable, Returned
  <2>2. ~Enabling(c)'
    BY <2>1 DEF Enabling
  <2> QED
    BY <1>0, <1>2, <2>1, <2>2 DEF HasInv
<1>10. ASSUME NEW c \in Calls, Remove(c) PROVE HasInv'
  <2>1. calls[c].op = "disable" /\ calls[c].step \in 1 .. 7
    <3>1. calls[c] \in Progress
      BY <1>0
    <3> QED
      BY <1>0, <1>10, <3>1 DEF Remove, FlagStep, Progress, Returned, TableInv
  <2>2. /\ calls'[c].op = "disable" /\ UNCHANGED <<timersEnabled, promisesEnabled>>
        /\ \A d \in Calls \ {c} : calls'[d] = calls[d]
    BY <1>0, <1>10, <2>1, CallFacts DEF Remove, Returned
  <2> QED
    BY <1>0, <1>2, <2>1, <2>2 DEF HasInv
<1>11. ASSUME NEW type \in Types, Set(type) \/ \E h \in DOMAIN timers : Clear(type, h)
       PROVE  HasInv'
  BY <1>3, <1>11 DEF Set, Clear
<1>12. ASSUME NEW h \in DOMAIN timers, Fire(h) PROVE HasInv'
  BY <1>3, <1>12 DEF Fire
<1>13. CASE RunCallback
  BY <1>3, <1>13 DEF RunCallback
<1> QED
  BY <1>4, <1>5, <1>6, <1>7, <1>8, <1>9, <1>10, <1>11, <1>12, <1>13 DEF Next

--------------------------------------------------------------------------------
(* The table is exact.                                                        *)

\* What TableExact says of the table's entries and of the timers, and what
\* ClearedIsDisarmed says, when enableTimers has not overlapped.
Listed(h) == timers[h].id \in DOMAIN pendingTimers /\ pendingTimers[timers[h].id] = h
Entries   == \A id \in DOMAIN pendingTimers :
               timers[pendingTimers[id]].armed /\ timers[pendingTimers[id]].id = id
Armed     == \A h \in 1 .. Len(timers) :
               timers[h].armed => Listed(h) \/ (timers[h].type = "immediate" /\ h \in asked)
Cleared   == \A h \in 1 .. Len(timers) :
               /\ h \in asked /\ timers[h].armed => timers[h].type = "immediate"
               /\ timers[h].type = "interval" /\ ~timers[h].armed =>
                    h \in asked \/ \E c \in Calls : calls[c].op = "disable"

\* Changing the table and the timers.
LEMMA ExactStep == IInv /\ [Next]_vars => ExactInv'
<1> SUFFICES ASSUME IInv, [Next]_vars PROVE ExactInv'
  OBVIOUS
<1>1. CASE UNCHANGED vars
  BY <1>1 DEF IInv, ExactInv, TableExact, ClearedIsDisarmed, Calls, vars
<1> SUFFICES ASSUME Next PROVE ExactInv'
  BY <1>1
<1>a. /\ Typed /\ TableInv /\ ExactInv /\ async' = async /\ Calls' = Calls
      /\ DOMAIN timers = 1 .. Len(timers) /\ DOMAIN timers' = 1 .. Len(timers')
  <2>1. timers \in Seq(Timer) /\ timers' \in Seq(Timer')
    BY TypedStep DEF IInv, Typed
  <2> QED
    BY <2>1, AsyncKept DEF IInv, Typed, Calls
<1> USE DEF ScriptSide, TimerSide
<1>2. overlapped => overlapped'
  BY <1>a DEF Next, EnableNow, Enable, EnablePromises, StartEnabling, Install, Enabled,
              EvalPolyfill, Disable, Remove, Set, Clear, Fire, RunCallback, Typed
<1>3. CASE overlapped'
  BY <1>3 DEF ExactInv, TableExact, ClearedIsDisarmed
<1> SUFFICES ASSUME ~overlapped, ~overlapped' PROVE ExactInv'
  BY <1>2, <1>3
<1>0. /\ timers \in Seq(Timer) /\ Len(timers) \in Nat
      /\ lastTimerID = Len(timers) /\ \A h \in 1 .. Len(timers) : timers[h].id = h - 1
      /\ pendingTimers # NoTable =>
           /\ Entries /\ Armed
           /\ pendingTimers \in [DOMAIN pendingTimers -> 1 .. Len(timers)]
           /\ \A id \in DOMAIN pendingTimers : id \in Nat /\ id < Len(timers)
           /\ pendingTimers' # NoTable
      /\ Cleared
  <2>1. ExactInv => Cleared
    BY <1>a DEF ExactInv, ClearedIsDisarmed, Cleared
  <2>2. ExactInv => (pendingTimers # NoTable => Entries /\ Armed)
    BY <1>a DEF ExactInv, TableExact, Entries, Armed, Listed
  <2> QED
    BY <1>a, <2>1, <2>2, TableStays DEF ExactInv, Typed
<1>4. ASSUME lastTimerID' = Len(timers'), \A h \in 1 .. Len(timers') : timers'[h].id = h - 1,
             pendingTimers' # NoTable => Entries' /\ Armed', Cleared'
      PROVE  ExactInv'
  <2>1. TableExact'
    BY <1>a, <1>4 DEF TableExact, Entries, Armed, Listed
  <2>2. ClearedIsDisarmed'
    BY <1>a, <1>4 DEF ClearedIsDisarmed, Cleared
  <2> QED
    BY <1>4, <2>1, <2>2 DEF ExactInv
\* Nothing happens to them.
<1>5. ASSUME UNCHANGED <<timers, asked, pendingTimers, lastTimerID>>,
             \A c \in Calls : calls[c].op = "disable" => calls'[c].op = "disable"
      PROVE  ExactInv'
  BY <1>a, <1>0, <1>4, <1>5 DEF Entries, Armed, Listed, Cleared
\* The first table.
<1>6. ASSUME NewTable, timers = << >>, UNCHANGED <<timers, asked>>
      PROVE  ExactInv'
  <2>1. DOMAIN pendingTimers' = {} /\ Len(timers') = 0 /\ lastTimerID' = 0
    BY <1>6, Empty DEF NewTable
  <2>2. Entries' /\ Armed' /\ Cleared'
    BY <2>1 DEF Entries, Armed, Cleared
  <2> QED
    BY <1>4, <2>1, <2>2
<1>7. ASSUME NEW c \in Calls, StartEnabling(c), calls[c].op = "none",
             ~timersEnabled, UNCHANGED <<timers, asked>>
      PROVE  ExactInv'
  <2>1. \A d \in Calls : ~Enabling(d)
    BY <1>7 DEF StartEnabling, Enabling
  <2>2. timers = << >>
    BY <1>a, <1>7, <2>1 DEF TableInv
  <2> QED
    BY <1>6, <1>7, <2>2 DEF StartEnabling
<1>8. ASSUME NEW c \in Calls, NEW op \in {"enable", "promises"}, EnableNow(c, op)
      PROVE  ExactInv'
  <2>1. calls[c].op = "none" /\ \A d \in Calls \ {c} : calls'[d] = calls[d]
    BY <1>a, <1>8, CallFacts DEF EnableNow, Returned
  <2>2. CASE timersEnabled \/ (op = "promises" /\ promisesEnabled)
    BY <1>5, <1>8, <2>1, <2>2 DEF EnableNow
  <2>3. CASE ~timersEnabled
    <3>1. \A d \in Calls : ~Enabling(d)
      BY <1>a, <1>8 DEF EnableNow, TableInv, Enabling, FlagStep, Returned
    <3>2. timers = << >>
      BY <1>a, <2>3, <3>1 DEF TableInv
    <3> QED
      BY <1>6, <1>8, <2>2, <2>3, <3>2 DEF EnableNow
  <2> QED
    BY <2>2, <2>3
<1>9. ASSUME NEW c \in Calls, Enable(c) \/ EnablePromises(c) PROVE ExactInv'
  <2>1. UNCHANGED <<timers, asked>>
    BY <1>9 DEF Enable, EnablePromises
  <2>2. \E op \in {"enable", "promises"}, step \in {1, EvalStep, Returned} : Call(c, op, step)
    <3>1. CASE Enable(c)
      BY <3>1 DEF Enable
    <3>2. CASE EnablePromises(c)
      BY <3>2 DEF EnablePromises
    <3> QED
      BY <1>9, <3>1, <3>2
  <2>3. calls[c].op = "none" /\ \A d \in Calls \ {c} : calls'[d] = calls[d]
    BY <1>a, <2>2, CallFacts DEF EvalStep, Returned
  <2>4. \/ UNCHANGED <<pendingTimers, lastTimerID>>
        \/ StartEnabling(c) /\ ~timersEnabled
    BY <1>9 DEF Enable, EnablePromises
  <2> QED
    BY <1>5, <1>7, <2>1, <2>3, <2>4
<1>10. ASSUME NEW c \in Calls, Install(c) \/ Enabled(c) \/ EvalPolyfill(c) \/ Remove(c)
       PROVE  ExactInv'
  <2>1. UNCHANGED <<timers, asked, pendingTimers, lastTimerID>> /\ \E step : Proceed(c, step)
    BY <1>10 DEF Install, Enabled, EvalPolyfill, Remove
  <2>2. \A d \in Calls : calls'[d].op = calls[d].op
    BY <1>a, <2>1 DEF Proceed, Typed, Progress
  <2> QED
    BY <1>5, <2>1, <2>2
<1>11. ASSUME NEW c \in Calls, Disable(c) PROVE ExactInv'
  <2>1. /\ calls[c].op = "none" /\ \A d \in Calls \ {c} : calls'[d] = calls[d]
        /\ pendingTimers # NoTable => calls'[c].op = "disable"
    BY <1>a, <1>11, CallFacts DEF Disable, Returned
  <2>2. CASE pendingTimers = NoTable
    BY <1>5, <1>11, <2>1, <2>2 DEF Disable
  <2>3. CASE pendingTimers # NoTable
    <3>1. /\ Disarm(Range(pendingTimers)) /\ pendingTimers' = << >>
          /\ UNCHANGED <<lastTimerID, asked>>
      BY <1>11, <2>3 DEF Disable, ClearAll
    <3>2. /\ Len(timers') = Len(timers)
          /\ \A h \in 1 .. Len(timers) :
               /\ timers'[h].type = timers[h].type /\ timers'[h].id = timers[h].id
               /\ timers'[h].armed <=> timers[h].armed /\ h \notin Range(pendingTimers)
      BY <1>a, <1>0, <3>1, DisarmFacts
    <3>3. Entries'
      BY <3>1, Empty DEF Entries
    <3>4. Armed'
      <4>1. \A h \in 1 .. Len(timers) : Listed(h) => h \in Range(pendingTimers)
        BY DEF Listed, Range
      <4> QED
        BY <1>0, <2>3, <3>1, <3>2, <4>1 DEF Armed
    <3>5. Cleared'
      BY <1>a, <1>0, <2>1, <2>3, <3>1, <3>2 DEF Cleared
    <3> QED
      BY <1>0, <1>4, <3>1, <3>2, <3>3, <3>4, <3>5
  <2> QED
    BY <2>2, <2>3
<1>12. ASSUME NEW type \in Types, Set(type) PROVE ExactInv'
  <2>1. pendingTimers # NoTable
    BY <1>a, <1>12 DEF Set, TableInv
  <2> DEFINE n == Len(timers) + 1
             t == [type |-> type, id |-> lastTimerID, armed |-> TRUE]
  <2>2. /\ Len(timers') = n /\ timers'[n] = t
        /\ \A h \in 1 .. Len(timers) : timers'[h] = timers[h]
    BY <1>0, <1>12 DEF Set
  <2>3. /\ DOMAIN pendingTimers' = DOMAIN pendingTimers \cup {Len(timers)}
        /\ pendingTimers'[Len(timers)] = n
        /\ \A id \in DOMAIN pendingTimers : pendingTimers'[id] = pendingTimers[id]
        /\ lastTimerID' = n /\ UNCHANGED <<asked, calls>>
    BY <1>0, <1>12, <2>1, <2>2 DEF Set
  <2>4. t.id = n - 1 /\ t.armed
    BY <1>0
  <2>5. \A h \in 1 .. n : h \in 1 .. Len(timers) \/ h = n
    BY <1>0
  <2> HIDE DEF t
  <2>6. Entries'
    BY <1>0, <2>1, <2>2, <2>3, <2>4 DEF Entries
  <2>7. Armed'
    <3> SUFFICES ASSUME NEW h \in 1 .. n, timers'[h].armed
                 PROVE  Listed(h)' \/ (timers'[h].type = "immediate" /\ h \in asked)
      BY <2>2, <2>3 DEF Armed
    <3>1. CASE h \in 1 .. Len(timers)
      <4>1. timers[h].armed /\ timers'[h] = timers[h]
        BY <2>2, <3>1
      <4>2. Listed(h) \/ (timers[h].type = "immediate" /\ h \in asked)
        BY <1>0, <2>1, <3>1, <4>1 DEF Armed
      <4> QED
        BY <2>3, <4>1, <4>2 DEF Listed
    <3>2. CASE h = n
      BY <1>0, <2>2, <2>3, <2>4, <3>2 DEF Listed
    <3> QED
      BY <2>5, <3>1, <3>2
  <2>8. Cleared'
    <3>1. n \notin asked
      BY <1>a, <1>0 DEF Typed
    <3> QED
      BY <1>a, <1>0, <2>2, <2>3, <2>4, <2>5, <3>1 DEF Cleared
  <2>9. \A h \in 1 .. Len(timers') : timers'[h].id = h - 1
    BY <1>0, <2>2, <2>4, <2>5
  <2> QED
    BY <1>4, <2>2, <2>3, <2>6, <2>7, <2>8, <2>9
<1>13. ASSUME NEW g \in DOMAIN timers, Fire(g) PROVE ExactInv'
  <2>1. pendingTimers # NoTable /\ g \in 1 .. Len(timers) /\ UNCHANGED <<calls, asked, lastTimerID>>
    <3>1. timers # << >>
      BY <1>13
    <3> QED
      BY <1>a, <1>13, <3>1 DEF TableInv, Fire
  <2>2. CASE timers[g].type = "interval"
    BY <1>5, <1>13, <2>1, <2>2 DEF Fire
  <2>3. CASE timers[g].type # "interval"
    <3>1. /\ DOMAIN pendingTimers' = DOMAIN pendingTimers \ {g - 1}
          /\ \A id \in DOMAIN pendingTimers' : pendingTimers'[id] = pendingTimers[id]
      BY <1>0, <1>13, <2>1, <2>3 DEF Fire, Restrict
    <3>2. /\ Len(timers') = Len(timers) /\ ~timers'[g].armed
          /\ \A h \in 1 .. Len(timers) :
               /\ timers'[h].type = timers[h].type /\ timers'[h].id = timers[h].id
               /\ h # g => timers'[h] = timers[h]
      <4> DEFINE t == [timers[g] EXCEPT !.armed = FALSE]
      <4>1. timers' = [timers EXCEPT ![g] = t]
        BY <1>13, <2>3 DEF Fire
      <4>2. ~t.armed /\ t.type = timers[g].type /\ t.id = timers[g].id
        BY <1>0, <2>1 DEF Timer
      <4> HIDE DEF t
      <4>3. Len(timers') = Len(timers)
            /\ \A h \in 1 .. Len(timers) : timers'[h] = IF h = g THEN t ELSE timers[h]
        BY <1>0, <2>1, <4>1
      <4> QED
        BY <2>1, <4>2, <4>3
    <3>3. Entries'
      <4>1. \A id \in DOMAIN pendingTimers' :
              /\ pendingTimers[id] \in 1 .. Len(timers) /\ pendingTimers[id] # g
              /\ timers[pendingTimers[id]].armed /\ timers[pendingTimers[id]].id = id
        BY <1>0, <2>1, <3>1 DEF Entries
      <4> QED
        BY <3>1, <3>2, <4>1 DEF Entries
    <3>4. ASSUME NEW h \in 1 .. Len(timers), timers'[h].armed
          PROVE  Listed(h)' \/ (timers[h].type = "immediate" /\ h \in asked)
      <4>1. h # g /\ timers[h].armed /\ timers'[h].id = h - 1 /\ timers[h].id = h - 1
        BY <1>0, <3>2, <3>4
      <4>2. Listed(h) => h - 1 \in DOMAIN pendingTimers' /\ pendingTimers'[h - 1] = h
        BY <2>1, <3>1, <4>1 DEF Listed
      <4> QED
        BY <1>0, <2>1, <4>1, <4>2 DEF Armed, Listed
    <3>5. Armed'
      BY <2>1, <3>2, <3>4 DEF Armed
    <3>6. Cleared'
      BY <1>a, <1>0, <2>1, <2>3, <3>2 DEF Cleared
    <3> QED
      BY <1>0, <1>4, <2>1, <3>2, <3>3, <3>5, <3>6
  <2> QED
    BY <2>2, <2>3
<1>14. ASSUME NEW type \in Types, NEW g \in DOMAIN timers, Clear(type, g) PROVE ExactInv'
  <2>1. pendingTimers # NoTable /\ g \in 1 .. Len(timers) /\ UNCHANGED <<calls, lastTimerID>>
        /\ timers[g].id = g - 1
    BY <1>a, <1>0, <1>14 DEF TableInv, Clear
  <2>2. /\ Found(type, g - 1) \subseteq {g}
        /\ g \in Found(type, g - 1) <=> Listed(g) /\ timers[g].type = type
    <3>1. \A id \in DOMAIN pendingTimers : id = g - 1 => pendingTimers[id] = g
      BY <1>0, <2>1 DEF Entries
    <3> QED
      BY <2>1, <3>1 DEF Found, Listed
  <2>3. asked' = IF timers[g].type = type THEN asked \cup {g} ELSE asked
    BY <1>14 DEF Clear
  <2>4. ASSUME NEW cleared, Disarm(cleared)
        PROVE  /\ Len(timers') = Len(timers)
               /\ \A h \in 1 .. Len(timers) :
                    /\ timers'[h].type = timers[h].type /\ timers'[h].id = timers[h].id
                    /\ timers'[h].armed <=> timers[h].armed /\ h \notin cleared
    BY <1>a, <1>0, <2>4, DisarmFacts
  <2>5. CASE g \notin Found(type, g - 1)
    <3>1. UNCHANGED pendingTimers /\ Disarm({})
      BY <1>14, <2>1, <2>2, <2>5 DEF Clear
    <3>2. /\ Len(timers') = Len(timers)
          /\ \A h \in 1 .. Len(timers) :
               /\ timers'[h].type = timers[h].type /\ timers'[h].id = timers[h].id
               /\ timers'[h].armed <=> timers[h].armed
      BY <2>4, <3>1
    <3>3. Entries' /\ Armed'
      BY <1>0, <2>1, <2>3, <3>1, <3>2 DEF Entries, Armed, Listed
    <3>4. Cleared'
      BY <1>a, <1>0, <2>1, <2>2, <2>3, <2>5, <3>2 DEF Cleared, Armed
    <3> QED
      BY <1>0, <1>4, <2>1, <3>2, <3>3, <3>4
  <2>6. CASE g \in Found(type, g - 1)
    <3>1. /\ DOMAIN pendingTimers' = DOMAIN pendingTimers \ {g - 1}
          /\ \A id \in DOMAIN pendingTimers' : pendingTimers'[id] = pendingTimers[id]
          /\ Disarm(IF type = "immediate" THEN {} ELSE {g})
          /\ timers[g].type = type /\ Listed(g) /\ g \in asked'
      BY <1>14, <2>1, <2>2, <2>3, <2>6 DEF Clear, Restrict
    <3>2. /\ Len(timers') = Len(timers)
          /\ \A h \in 1 .. Len(timers) :
               /\ timers'[h].type = timers[h].type /\ timers'[h].id = timers[h].id
               /\ timers'[h].armed <=> timers[h].armed /\ (h # g \/ type = "immediate")
      BY <2>4, <3>1
    <3>3. Entries'
      <4>1. \A id \in DOMAIN pendingTimers' :
              /\ pendingTimers[id] \in 1 .. Len(timers) /\ pendingTimers[id] # g
              /\ timers[pendingTimers[id]].armed /\ timers[pendingTimers[id]].id = id
        BY <1>0, <2>1, <3>1 DEF Entries
      <4> QED
        BY <3>1, <3>2, <4>1 DEF Entries
    <3>4. Armed'
      <4> SUFFICES ASSUME NEW h \in 1 .. Len(timers), timers'[h].armed
                   PROVE  Listed(h)' \/ (timers[h].type = "immediate" /\ h \in asked')
        BY <3>2 DEF Armed
      <4>1. CASE h = g
        BY <3>1, <3>2, <4>1
      <4>2. CASE h # g
        <5>1. timers[h].armed /\ timers'[h].id = h - 1 /\ timers[h].id = h - 1
          BY <1>0, <3>2
        <5>2. Listed(h) => h - 1 \in DOMAIN pendingTimers' /\ pendingTimers'[h - 1] = h
          BY <2>1, <3>1, <4>2, <5>1 DEF Listed
        <5> QED
          BY <1>0, <2>1, <2>3, <5>1, <5>2 DEF Armed, Listed
      <4> QED
        BY <4>1, <4>2
    <3>5. Cleared'
      BY <1>a, <1>0, <2>1, <2>3, <3>1, <3>2 DEF Cleared
    <3> QED
      BY <1>0, <1>4, <2>1, <3>2, <3>3, <3>4, <3>5
  <2> QED
    BY <2>5, <2>6
<1>15. CASE RunCallback
  BY <1>5, <1>15 DEF RunCallback
<1> QED
  BY <1>8, <1>9, <1>10, <1>11, <1>12, <1>13, <1>14, <1>15 DEF Next

--------------------------------------------------------------------------------
(* What follows.                                                              *)

\* The invariant is one.
LEMMA Invariance == Spec => []IInv
<1>1. IInv /\ [Next]_vars => IInv'
  BY TypedStep, TableStep, ExactStep, HasStep DEF IInv
<1> QED
  BY InitIInv, <1>1, PTL DEF Spec

\* The variables keep their types, and no function of a script finds the table
\* undefined (index.js:20, 61).
THEOREM TypeCorrect == Spec => []TypeOK
<1>1. IInv => TypeOK
  <2> SUFFICES ASSUME IInv PROVE TypeOK
    OBVIOUS
  <2>0. /\ Typed /\ TableInv /\ DOMAIN timers = 1 .. Len(timers) /\ Len(timers) \in Nat
        /\ async \in BOOLEAN /\ MaxTimers[async] \in Nat
    BY DEF IInv, Typed
  <2>1. \A c \in Calls : /\ calls[c].op \in {"none", "enable", "promises", "disable", "failed"}
                         /\ calls[c].step \in 0 .. Returned
    <3>1. \A c \in Calls : calls[c] \in Progress
      BY <2>0 DEF Typed
    <3> QED
      BY <3>1 DEF Progress
  <2>2. pendingTimers # NoTable => /\ pendingTimers \in Tables(async)
                                   /\ Range(pendingTimers) \subseteq DOMAIN timers
    <3> SUFFICES ASSUME pendingTimers # NoTable
                 PROVE  /\ pendingTimers \in Tables(async)
                        /\ Range(pendingTimers) \subseteq DOMAIN timers
      OBVIOUS
    <3>1. pendingTimers \in [DOMAIN pendingTimers -> 1 .. Len(timers)]
      BY <2>0 DEF Typed
    <3>2. \A id \in DOMAIN pendingTimers : id \in 0 .. MaxTimers[async]
      BY <2>0 DEF Typed
    <3>3. Len(timers) <= MaxTimers[async]
      BY <2>0 DEF Typed
    <3>4. pendingTimers \in Tables(async)
      BY <2>0, <3>1, <3>2, <3>3, IsTable
    <3> QED
      BY <2>0, <3>1, <3>4 DEF Range
  <2>3. lastTimerID \in 0 .. MaxTimers[async]
    BY <2>0 DEF Typed
  <2>4. timersEnabled \/ installed # {} => pendingTimers # NoTable
    BY <2>0 DEF TableInv
  <2> QED
    BY <2>0, <2>1, <2>2, <2>3, <2>4 DEF TypeOK, Typed, Timer
<1> QED
  BY <1>1, Invariance, PTL

\* As long as calls of enableTimers do not overlap, the table lists what can
\* still fire, but for immediates that clearImmediate has lost (index.js:56-102).
THEOREM TableStaysExact == Spec => []TableExact
<1>1. IInv => TableExact
  BY DEF IInv, ExactInv
<1> QED
  BY <1>1, Invariance, PTL

\* What a script has cleared does not fire, and its intervals go on until then
\* (index.js:68-86, 31-42).
THEOREM ClearedStaysDisarmed == Spec => []ClearedIsDisarmed
<1>1. IInv => ClearedIsDisarmed
  BY DEF IInv, ExactInv
<1> QED
  BY <1>1, Invariance, PTL

\* Whoever has enabled timers or promises has them when the calls have returned,
\* however they overlapped, until they are disabled (index.js:104-200).
THEOREM EnabledKeepsTimers == Spec => []EnabledHasTimers
<1>1. IInv => EnabledHasTimers
  <2> SUFFICES ASSUME IInv, Quiet, NoDisable, NEW c \in Calls
               PROVE  /\ calls[c].op \in {"enable", "promises"} => installed = Range(Added)
                      /\ calls[c].op = "promises" => promisesEnabled
    BY DEF EnabledHasTimers, NoDisable
  <2>1. calls[c].op # "none" => calls[c].step = Returned
    BY DEF IInv, TableInv, Quiet
  <2> QED
    BY <2>1 DEF IInv, HasInv, Returned, FlagStep
<1> QED
  BY <1>1, Invariance, PTL

\* disableTimers leaves no timer armed of those in the table (index.js:206-228).
THEOREM DisableStops == Spec => DisableStopsAll
<1>1. IInv /\ [Next]_vars =>
        [\A c \in Calls : calls[c].op = "none" /\ calls'[c].op = "disable" /\ ~overlapped =>
           \A h \in DOMAIN timers' :
             timers'[h].armed => timers'[h].type = "immediate" /\ h \in asked]_vars
  <2> SUFFICES ASSUME IInv, Next, NEW c \in Calls,
                      calls[c].op = "none", calls'[c].op = "disable", ~overlapped,
                      NEW h \in DOMAIN timers', timers'[h].armed
               PROVE  timers'[h].type = "immediate" /\ h \in asked
    OBVIOUS
  <2>0. /\ Typed /\ async' = async /\ \A d \in Calls : calls[d] \in Progress
        /\ timers \in Seq(Timer) /\ Calls' = Calls
        /\ DOMAIN timers = 1 .. Len(timers)
    BY AsyncKept DEF IInv, Typed, Calls
  <2>1. PICK d \in Calls : Disable(d)
    <3>1. ASSUME NEW d \in Calls, NEW op \in {"enable", "promises"},
                 NEW step \in {1, EvalStep, Returned}, Call(d, op, step)
          PROVE  FALSE
      <4>1. calls'[d].op = op /\ \A e \in Calls \ {d} : calls'[e] = calls[e]
        BY <2>0, <3>1, CallFacts DEF EvalStep, Returned
      <4>2. c # d
        BY <4>1
      <4>3. calls'[c] = calls[c]
        BY <4>1, <4>2
      <4> QED
        BY <4>3
    <3>2. ASSUME NEW d \in Calls, NEW step, Proceed(d, step), calls[d].op # "none"
          PROVE  FALSE
      BY <2>0, <3>2 DEF Proceed, Progress, Typed
    <3>3. calls' # calls
      OBVIOUS
    <3>4. ASSUME NEW d \in Calls, Install(d) \/ Enabled(d) \/ EvalPolyfill(d) \/ Remove(d)
          PROVE  FALSE
      BY <3>2, <3>4 DEF Install, Enabled, EvalPolyfill, Remove, Enabling
    <3>5. ASSUME NEW d \in Calls, Enable(d) \/ EnablePromises(d)
          PROVE  FALSE
      <4>1. \E op \in {"enable", "promises"}, step \in {1, EvalStep, Returned} : Call(d, op, step)
        <5>1. CASE Enable(d)
          BY <5>1 DEF Enable
        <5>2. CASE EnablePromises(d)
          BY <5>2 DEF EnablePromises
        <5> QED
          BY <3>5, <5>1, <5>2
      <4> QED
        BY <3>1, <4>1
    <3>6. ASSUME NEW d \in Calls, NEW op \in {"enable", "promises"}, EnableNow(d, op)
          PROVE  FALSE
      BY <3>1, <3>6 DEF EnableNow
    <3> QED
      BY <3>3, <3>4, <3>5, <3>6 DEF Next, Set, Clear, Fire, RunCallback, TimerSide
  <2>2. pendingTimers # NoTable /\ Disarm(Range(pendingTimers))
    <3>1. CASE pendingTimers = NoTable
      <4>1. Call(d, "failed", Returned)
        BY <2>1, <3>1 DEF Disable
      <4>2. calls'[d].op = "failed" /\ \A e \in Calls \ {d} : calls'[e] = calls[e]
        BY <2>0, <4>1, CallFacts DEF Returned
      <4>3. c # d
        BY <4>2
      <4>4. calls'[c] = calls[c]
        BY <4>2, <4>3
      <4> QED
        BY <4>4
    <3>2. CASE pendingTimers # NoTable
      BY <2>1, <3>2 DEF Disable, ClearAll
    <3> QED
      BY <3>1, <3>2
  <2>3. h \in 1 .. Len(timers) /\ timers[h].armed /\ h \notin Range(pendingTimers)
        /\ timers'[h].type = timers[h].type
    BY <2>0, <2>2, DisarmFacts DEF Disarm
  <2>4. ~(timers[h].id \in DOMAIN pendingTimers /\ pendingTimers[timers[h].id] = h)
    BY <2>3 DEF Range
  <2> QED
    BY <2>0, <2>2, <2>3, <2>4 DEF IInv, ExactInv, TableExact
<1> QED
  BY <1>1, Invariance, PTL DEF Spec, DisableStopsAll

================================================================================
