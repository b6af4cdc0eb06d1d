-------------------------------- MODULE Timers ---------------------------------
(***************************************************************************)
(* The timers that index.js gives to scripts, for a Context (~async) and   *)
(* for an AsyncContext (async).  enableTimers puts six functions on the    *)
(* script's global object; they keep a table of pending Node timers.       *)
(*                                                                         *)
(* The table, the flags and the Node timers live on the node thread, where *)
(* the six functions run even when an AsyncContext's script calls them, so *)
(* each of them is one step.  In a Context enableTimers, enablePromises    *)
(* and disableTimers are one step too; in an AsyncContext every await in   *)
(* them ends one.  A callback of a Context runs when its timer fires; one  *)
(* of an AsyncContext is queued for the Duktape thread.                    *)
(*                                                                         *)
(* Scripts call the functions by their global names.                       *)
(***************************************************************************)
EXTENDS Naturals, Sequences, Functions

CONSTANTS Contexts,   \* those considered: FALSE is a Context, TRUE an AsyncContext
          NoTable,    \* this.pendingTimers is undefined
          MaxCalls,   \* bound on the calls of enableTimers and its like, for each
          MaxTimers,  \* bound on the Node timers made, for each
          MaxQueue    \* bound on the callbacks queued

ASSUME TimersAssumption == /\ Contexts \subseteq BOOLEAN
                           /\ MaxCalls \in [BOOLEAN -> Nat]
                           /\ MaxTimers \in [BOOLEAN -> Nat]
                           /\ MaxQueue \in Nat

\* What the table can be: from some IDs to timers.
Tables(a) == UNION {[ids -> 1 .. MaxTimers[a]] : ids \in SUBSET (0 .. MaxTimers[a])}

ASSUME NoTableAssumption == \A a \in BOOLEAN : NoTable \notin Tables(a)

\* The functions in the order in which they are set, and in which they are deleted.
Added   == <<"setTimeout", "setInterval", "setImmediate",
             "clearImmediate", "clearTimeout", "clearInterval">>
Deleted == <<"setTimeout", "setInterval", "setImmediate",
             "clearTimeout", "clearInterval", "clearImmediate">>

Setter  == [timeout |-> "setTimeout", interval |-> "setInterval",
            immediate |-> "setImmediate"]
Clearer == [timeout |-> "clearTimeout", interval |-> "clearInterval",
            immediate |-> "clearImmediate"]
Types   == DOMAIN Setter

VARIABLES async,           \* which of the two contexts; never changes
          timersEnabled,   \* this.timersEnabled
          promisesEnabled, \* this.promisesEnabled
          pendingTimers,   \* this.pendingTimers: from IDs to Node timers
          lastTimerID,     \* this.lastTimerID
          installed,       \* the functions on the script's global object
          calls,           \* how far each call of the three methods is
          timers,          \* the Node timers made so far, in order
          queue,           \* AsyncContext: callbacks to be run by Duktape
          asked,           \* history: timers whose script has cleared them
          overlapped       \* history: two calls of enableTimers overlapped

vars == <<async, timersEnabled, promisesEnabled, pendingTimers, lastTimerID, installed,
          calls, timers, queue, asked, overlapped>>

\* Steps of a call: 1 awaits the global object, 2 to 7 a function each,
\* then the flag and, for promises, the polyfill.
FlagStep == 8
EvalStep == 9
Returned == 10

Calls     == 1 .. MaxCalls[async]
NotCalled == [op |-> "none", step |-> 0]

Init == /\ async \in Contexts
        /\ timersEnabled = FALSE
        /\ promisesEnabled = FALSE
        /\ pendingTimers = NoTable
        /\ lastTimerID = 0
        /\ installed = {}
        /\ calls = [c \in Calls |-> NotCalled]
        /\ timers = << >>
        /\ queue = << >>
        /\ asked = {}
        /\ overlapped = FALSE

\* Call c, the next one, is made: it does op and goes on at the given step.
Call(c, op, step) == /\ calls[c] = NotCalled
                     /\ \A d \in 1 .. (c - 1) : calls[d] # NotCalled
                     /\ calls' = [calls EXCEPT ![c] = [op |-> op, step |-> step]]

\* Call c goes on at the given step.
Proceed(c, step) == calls' = [calls EXCEPT ![c].step = step]

Enabling(c) == calls[c].op \in {"enable", "promises"} /\ calls[c].step \in 1 .. FlagStep

\* Node timers that are cleared do not fire.
Disarm(cleared) == timers' = [h \in DOMAIN timers |->
  IF h \in cleared THEN [timers[h] EXCEPT !.armed = FALSE] ELSE timers[h]]

ScriptSide == <<timers, queue, asked>>
TimerSide  == <<async, timersEnabled, promisesEnabled, installed, calls, overlapped>>

--------------------------------------------------------------------------------
(* enableTimers, enablePromises and disableTimers.                            *)

NewTable == pendingTimers' = << >> /\ lastTimerID' = 0

\* Mutant: the flag is set before the functions are there.
StartEnabling_FlagFirst(c) ==
  /\ NewTable
  /\ timersEnabled' = TRUE
  /\ overlapped' = (overlapped \/ \E d \in Calls \ {c} : Enabling(d))

\* The beginning of enableTimers, when timers are not enabled.
StartEnabling(c) ==
  /\ NewTable
  /\ UNCHANGED timersEnabled
  /\ overlapped' = (overlapped \/ \E d \in Calls \ {c} : Enabling(d))

\* The polyfill refers to setTimeout when it is evaluated.
Polyfill(functions) ==
  promisesEnabled' = (promisesEnabled \/ "setTimeout" \in functions)

\* Context.enableTimers and Context.enablePromises
EnableNow(c, op) ==
  /\ ~async
  /\ op \in {"enable", "promises"}
  /\ Call(c, op, Returned)
  /\ IF timersEnabled \/ (op = "promises" /\ promisesEnabled)
     THEN UNCHANGED <<pendingTimers, lastTimerID, installed, timersEnabled>>
     ELSE NewTable /\ installed' = Range(Added) /\ timersEnabled' = TRUE
  /\ IF op = "promises" THEN Polyfill(installed') ELSE UNCHANGED promisesEnabled
  /\ UNCHANGED <<async, ScriptSide, overlapped>>

\* AsyncContext.enableTimers, up to its first await
Enable(c) ==
  /\ async
  /\ IF timersEnabled
     THEN /\ Call(c, "enable", Returned)
          /\ UNCHANGED <<pendingTimers, lastTimerID, timersEnabled, overlapped>>
     ELSE Call(c, "enable", 1) /\ StartEnabling(c)
  /\ UNCHANGED <<async, installed, promisesEnabled, ScriptSide>>

\* AsyncContext.enablePromises, up to its first await
EnablePromises(c) ==
  /\ async
  /\ IF timersEnabled \/ promisesEnabled
     THEN /\ Call(c, "promises", IF promisesEnabled THEN Returned ELSE EvalStep)
          /\ UNCHANGED <<pendingTimers, lastTimerID, timersEnabled, overlapped>>
     ELSE Call(c, "promises", 1) /\ StartEnabling(c)
  /\ UNCHANGED <<async, installed, promisesEnabled, ScriptSide>>

\* The global object is there, or the next function is set.
Install(c) ==
  /\ Enabling(c) /\ calls[c].step < FlagStep
  /\ Proceed(c, calls[c].step + 1)
  /\ installed' = IF calls[c].step = 1 THEN installed
                  ELSE installed \cup {Added[calls[c].step - 1]}
  /\ UNCHANGED <<timersEnabled, promisesEnabled, pendingTimers, lastTimerID,
                 async, ScriptSide, overlapped>>

Enabled(c) ==
  /\ Enabling(c) /\ calls[c].step = FlagStep
  /\ timersEnabled' = TRUE
  /\ Proceed(c, IF calls[c].op = "promises" THEN EvalStep ELSE Returned)
  /\ UNCHANGED <<promisesEnabled, pendingTimers, lastTimerID, installed,
                 async, ScriptSide, overlapped>>

\* The polyfill is evaluated and, if that did not throw, the flag set.
EvalPolyfill(c) ==
  /\ calls[c].op = "promises" /\ calls[c].step = EvalStep
  /\ Polyfill(installed)
  /\ Proceed(c, Returned)
  /\ UNCHANGED <<timersEnabled, pendingTimers, lastTimerID, installed,
                 async, ScriptSide, overlapped>>

\* Plausible mistakes: the table is thrown away, and so is taken for undefined
\* by a script's next call; or the Node timers are left running.
ClearAll_DropsTable == Disarm(Range(pendingTimers)) /\ pendingTimers' = NoTable
ClearAll_TableOnly  == Disarm({}) /\ pendingTimers' = << >>

\* The loop of disableTimers over the table.
ClearAll == Disarm(Range(pendingTimers)) /\ pendingTimers' = << >>

\* disableTimers, up to its first await.  Without a table Object.keys throws.
Disable(c) ==
  /\ IF pendingTimers = NoTable
     THEN Call(c, "failed", Returned) /\ UNCHANGED <<pendingTimers, timers, installed>>
     ELSE /\ Call(c, "disable", IF async THEN 1 ELSE Returned)
          /\ ClearAll
          /\ installed' = IF async THEN installed ELSE installed \ Range(Deleted)
  /\ UNCHANGED <<async, timersEnabled, promisesEnabled, lastTimerID, queue, asked, overlapped>>

\* The global object is there, or the next function is deleted.
Remove(c) ==
  /\ calls[c].op = "disable" /\ calls[c].step < FlagStep
  /\ Proceed(c, IF calls[c].step = 7 THEN Returned ELSE calls[c].step + 1)
  /\ installed' = IF calls[c].step = 1 THEN installed
                  ELSE installed \ {Deleted[calls[c].step - 1]}
  /\ UNCHANGED <<timersEnabled, promisesEnabled, pendingTimers, lastTimerID,
                 async, ScriptSide, overlapped>>

--------------------------------------------------------------------------------
(* What scripts do, and what Node does with their timers.                     *)

\* setTimeout, setInterval, setImmediate: the new timer is timer number
\* Len(timers) + 1.
Set(type) ==
  /\ Setter[type] \in installed
  /\ Len(timers) < MaxTimers[async]
  /\ timers' = Append(timers, [type |-> type, id |-> lastTimerID, armed |-> TRUE])
  /\ pendingTimers' = [id \in DOMAIN pendingTimers \cup {lastTimerID} |->
                        IF id = lastTimerID THEN Len(timers') ELSE pendingTimers[id]]
  /\ lastTimerID' = lastTimerID + 1
  /\ UNCHANGED <<TimerSide, queue, asked>>

\* A plausible mistake: an interval is taken off the table when it fires.
Fire_ForgetsInterval(h) ==
  /\ timers[h].armed
  /\ pendingTimers' = Restrict(pendingTimers, DOMAIN pendingTimers \ {timers[h].id})
  /\ timers' = [timers EXCEPT ![h].armed = timers[h].type = "interval"]
  /\ IF async THEN Len(queue) < MaxQueue /\ queue' = Append(queue, h)
              ELSE UNCHANGED queue
  /\ UNCHANGED <<TimerSide, lastTimerID, asked>>

\* Node calls the closure of timer h.
Fire(h) ==
  /\ timers[h].armed
  /\ IF timers[h].type = "interval"
     THEN UNCHANGED <<pendingTimers, timers>>
     ELSE /\ pendingTimers' = Restrict(pendingTimers,
                                       DOMAIN pendingTimers \ {timers[h].id})
          /\ timers' = [timers EXCEPT ![h].armed = FALSE]
  /\ IF async THEN Len(queue) < MaxQueue /\ queue' = Append(queue, h)
              ELSE UNCHANGED queue
  /\ UNCHANGED <<TimerSide, lastTimerID, asked>>

\* AsyncContext: the Duktape thread runs the next callback.
RunCallback ==
  /\ queue # << >>
  /\ queue' = Tail(queue)
  /\ UNCHANGED <<TimerSide, pendingTimers, lastTimerID, timers, asked>>

\* The entry that clearTimeout(id) and its like find, if any.
Found(type, id) == {h \in {pendingTimers[i] : i \in DOMAIN pendingTimers \cap {id}} :
                      timers[h].type = type}

\* A plausible mistake: the entry is deleted but Node is not told.
Clear_EntryOnly(type, h) ==
  /\ Clearer[type] \in installed
  /\ LET id == timers[h].id IN
       pendingTimers' = IF Found(type, id) = {} THEN pendingTimers
                        ELSE Restrict(pendingTimers, DOMAIN pendingTimers \ {id})
  /\ asked' = IF timers[h].type = type THEN asked \cup {h} ELSE asked
  /\ UNCHANGED <<TimerSide, lastTimerID, timers, queue>>

\* A script passes the ID of timer h to clearTimeout, clearInterval or
\* clearImmediate.  clearImmediate hands its entry to Node's clearTimeout,
\* which leaves an Immediate alone.
Clear(type, h) ==
  /\ Clearer[type] \in installed
  /\ LET id == timers[h].id IN
       /\ Disarm(IF type = "immediate" THEN {} ELSE Found(type, id))
       /\ pendingTimers' = IF Found(type, id) = {} THEN pendingTimers
                           ELSE Restrict(pendingTimers, DOMAIN pendingTimers \ {id})
  /\ asked' = IF timers[h].type = type THEN asked \cup {h} ELSE asked
  /\ UNCHANGED <<TimerSide, lastTimerID, queue>>

Next == \/ \E c \in Calls : \/ \E op \in {"enable", "promises"} : EnableNow(c, op)
                            \/ Enable(c) \/ EnablePromises(c) \/ Install(c)
                            \/ Enabled(c) \/ EvalPolyfill(c)
                            \/ Disable(c) \/ Remove(c)
        \/ \E type \in Types : Set(type) \/ \E h \in DOMAIN timers : Clear(type, h)
        \/ \E h \in DOMAIN timers : Fire(h)
        \/ RunCallback

Spec == Init /\ [][Next]_vars

--------------------------------------------------------------------------------
(* Properties.                                                                *)

\* The variables are of their types; once a context has timers its functions
\* find the table that they use without a test (index.js:20, 61).
TypeOK ==
  /\ {async, timersEnabled, promisesEnabled, overlapped} \subseteq BOOLEAN
  /\ lastTimerID \in 0 .. MaxTimers[async]
  /\ installed \subseteq Range(Added)
  /\ \A c \in Calls : /\ calls[c].op \in {"none", "enable", "promises", "disable", "failed"}
                      /\ calls[c].step \in 0 .. Returned
  /\ timers \in Seq([type : Types, id : 0 .. MaxTimers[async], armed : BOOLEAN])
  /\ Len(timers) <= MaxTimers[async]
  /\ queue \in Seq(DOMAIN timers) /\ Len(queue) <= MaxQueue
  /\ asked \subseteq DOMAIN timers
  /\ timersEnabled \/ installed # {} => pendingTimers # NoTable
  /\ pendingTimers # NoTable => /\ pendingTimers \in Tables(async)
                                /\ Range(pendingTimers) \subseteq DOMAIN timers

\* The table lists exactly the timers that can still fire, each under its ID,
\* so that each can be cleared and disableTimers finds all of them.  Two things
\* break it: two overlapping calls of enableTimers, since the second makes the
\* table and the IDs anew (index.js:115), and clearImmediate.
TableExact ==
  ~overlapped /\ pendingTimers # NoTable =>
    /\ \A id \in DOMAIN pendingTimers : LET h == pendingTimers[id] IN
         timers[h].armed /\ timers[h].id = id
    /\ \A h \in DOMAIN timers :
         timers[h].armed =>
           \/ timers[h].id \in DOMAIN pendingTimers /\ pendingTimers[timers[h].id] = h
           \/ timers[h].type = "immediate" /\ h \in asked

\* A timeout or interval that its script has cleared does not fire any more
\* (index.js:68-86).  In an AsyncContext a callback that was queued before still runs,
\* but none is queued any more (index.js:128, 140).  An immediate does fire:
\* clearImmediate calls Node's clearTimeout for it.  And an interval goes on until
\* then, or until disableTimers: nobody else's ID or function stops it
\* (index.js:31-42).
ClearedIsDisarmed ==
  \A h \in DOMAIN timers :
    /\ h \in asked /\ timers[h].armed => overlapped \/ timers[h].type = "immediate"
    /\ timers[h].type = "interval" /\ ~timers[h].armed =>
         overlapped \/ h \in asked \/ \E c \in Calls : calls[c].op = "disable"

Quiet == \A c \in Calls : calls[c].step \in {0, Returned}

\* disableTimers stops every timer that is set when it is called, whatever has
\* fired or been cleared before, but for immediates that clearImmediate lost
\* (index.js:206-228, 239-261).  In an AsyncContext scripts may set others before
\* the functions are deleted.
DisableStopsAll ==
  [][\A c \in Calls : calls[c].op = "none" /\ calls'[c].op = "disable" /\ ~overlapped =>
       \A h \in DOMAIN timers' :
         timers'[h].armed => timers'[h].type = "immediate" /\ h \in asked]_vars

\* When the calls of enableTimers and enablePromises have returned, however they have
\* overlapped, scripts have the six functions, and Promise if that was asked for; unless
\* disableTimers was called, which leaves timersEnabled set (index.js:8, 110, 206).
EnabledHasTimers ==
  Quiet /\ (\A c \in Calls : calls[c].op # "disable") =>
    \A c \in Calls : /\ calls[c].op \in {"enable", "promises"} => installed = Range(Added)
                     /\ calls[c].op = "promises" => promisesEnabled
================================================================================
