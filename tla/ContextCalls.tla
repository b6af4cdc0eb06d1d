------------------------------ MODULE ContextCalls -----------------------------
(***************************************************************************)
(* The methods of a Context through which values cross, with the value     *)
(* stack of its heap, which lives as long as the Context.  Everything      *)
(* happens on the node thread.  A method pushes what it needs, converts    *)
(* its arguments, lets Duktape act, converts the result and pops what it   *)
(* has pushed.  While a script runs it may call node functions; methods    *)
(* that such a function calls work in a frame of their own, which goes     *)
(* when the function returns.                                              *)
(***************************************************************************)
EXTENDS DukValue

CONSTANTS NodeValues,      \* what the program sends
          ScriptValues,    \* what scripts make
          PromiseValues,   \* what only scripts with Promise make
          MaxArgs,         \* bound on the arguments of a call
          MaxLeft          \* bound on what methods leave on the stack

ASSUME MaxArgsAssumption == MaxArgs \in Nat

VARIABLES pc,       \* where the method is
          call,     \* the method: its name, the handle of the object, the arguments,
                    \* how many of these have been converted, and the object's index
          frame,    \* the frame of a node function that a script calls: where the stack
                    \* ends below it, with left
          held,     \* what the script has from a node function
          prop,     \* the one property of the global object
          origin,   \* history: what value was where it came from
          sent,     \* history: what prop was
          altered   \* history: values to be kept that arrived changed

methodVars == <<pc, call, frame, held, prop, origin, sent, altered>>
vars       == <<stack, promises, doing, value, pushing, reading, left, methodVars>>

Nothing == [kind |-> "none"]

\* A value with what it was where it came from, if it is to be kept.
From(v, was) == [is |-> v, was |-> was]
Fit          == IF promises THEN Kept[TRUE] \cup Kept[FALSE] ELSE Kept[FALSE]
Source(v)    == IF v \in Fit THEN v ELSE Nothing

\* v arrives that was something.
Arrives(v, was) == altered' = altered \cup (IF was # Nothing /\ v # was THEN {was} ELSE {})

Handles == {"GLOBAL", "object"}

\* What ObjectHandle pushes: the object is its top.  A callback is in the stash; eval
\* has no object.
Receiver(h)     == [kind |-> "receiver", handle |-> h]
ObjectHandle(h) == CASE h = "GLOBAL" -> <<Receiver(h)>>
                     [] h = "object" -> <<Receiver("stash"), Receiver(h)>>
                     [] h = "stash"  -> <<Receiver(h)>>
                     [] h = "none"   -> << >>

\* Mutant: ~ObjectHandle pops the object and not the stash.
Pops_ObjectOnly(h) == IF h = "none" THEN 0 ELSE 1

\* What ~ObjectHandle pops.
Pops(h) == CASE h = "GLOBAL" -> 1
             [] h = "object" -> 2
             [] h = "stash"  -> 1
             [] h = "none"   -> 0

\* The name of what is called, or a script, on top of the receiver.
Name == [kind |-> "name"]

Method(m, h, args) ==
  [method |-> m, handle |-> h, args |-> args, given |-> 0,
   objIndex |-> Len(stack) + Len(ObjectHandle(h))]
NoMethod == [method |-> "none", handle |-> "none", args |-> << >>, given |-> 0, objIndex |-> 0]

NoFrame  == [bottom |-> 0, left |-> 0]

Init == /\ pc = "idle" /\ call = NoMethod /\ frame = NoFrame
        /\ stack = << >> /\ left = 0
        /\ doing = "idle" /\ value = Undefined /\ pushing = << >> /\ reading = << >>
        /\ held = From(Undefined, Nothing) /\ origin = Nothing
        /\ prop = Undefined /\ sent = Nothing
        /\ promises = FALSE
        /\ altered = {}

--------------------------------------------------------------------------------
(* The methods until Duktape acts.                                            *)

Begin(m, h, args) == pc = "idle" /\ call' = Method(m, h, args)

\* setProperty, of what is no function.
SetProperty(h, v) ==
  /\ left < MaxLeft /\ v.kind # "function"
  /\ Begin("setProperty", h, <<v>>)
  /\ stack' = stack \o ObjectHandle(h)
  /\ pc' = "arguments" /\ doing' = "pushed"
  /\ UNCHANGED <<promises, value, pushing, reading, left, frame, held, prop, origin, sent, altered>>

\* callMethod, runCallback and eval.
Calls(m, h, args) ==
  /\ Begin(m, h, args)
  /\ stack' = stack \o ObjectHandle(h) \o <<Name>>
  /\ pc' = "arguments" /\ doing' = "pushed"
  /\ UNCHANGED <<promises, value, pushing, reading, left, frame, held, prop, origin, sent, altered>>

CallMethod(h, args) == left < MaxLeft /\ Calls("callMethod", h, args)
RunCallback(args)   == left < MaxLeft /\ Calls("runCallback", "stash", args)
Eval                == Calls("eval", "none", << >>)

NextArgument ==
  LET v == call.args[call.given + 1] IN
    /\ pc = "arguments" /\ IsPushed /\ call.given < Len(call.args)
    /\ call' = [call EXCEPT !.given = @ + 1]
    /\ FromV8(v) /\ origin' = Source(v)
    /\ UNCHANGED <<stack, promises, pushing, reading, left, pc, frame, held, prop, sent, altered>>

GetProperty ==
  /\ left < MaxLeft
  /\ Begin("getProperty", "GLOBAL", << >>)
  /\ stack' = stack \o ObjectHandle("GLOBAL") \o <<prop>>
  /\ pc' = "result" /\ ToV8(prop) /\ origin' = sent
  /\ UNCHANGED <<promises, pushing, reading, left, frame, held, prop, sent, altered>>

--------------------------------------------------------------------------------
(* What Duktape does; scripts.                                                        *)

\* The method is over.
End == /\ pc' = "idle" /\ call' = NoMethod
       /\ doing' = "idle" /\ value' = Undefined
       /\ held' = From(Undefined, Nothing) /\ origin' = Nothing
       /\ UNCHANGED <<promises, pushing, reading, frame>>

\* All arguments are on the stack.
Ready == pc = "arguments" /\ IsPushed /\ call.given = Len(call.args)

\* duk_put_prop_string, after which setProperty is over: whatever lies below the value
\* gets it.
PutProperty ==
  LET hits == /\ call.handle = "GLOBAL"
              /\ stack[Len(stack) - 1] = Receiver("GLOBAL") IN
    /\ Ready /\ call.method = "setProperty"
    /\ prop' = IF hits THEN Top(stack) ELSE prop
    /\ sent' = IF hits THEN origin ELSE sent
    /\ stack' = Drop(stack, 1 + Pops(call.handle))
    /\ End
    /\ UNCHANGED <<left, altered>>

\* duk_pcall_prop takes the arguments from the top and the name from below them.
Called == stack[Len(stack) - Len(call.args)] = Name

EnterScript ==
  /\ Ready /\ call.method # "setProperty" /\ Called
  /\ pc' = "script" /\ doing' = "idle"
  /\ UNCHANGED <<stack, promises, value, pushing, reading, left, call, frame, held, prop, origin,
                 sent, altered>>

\* Nothing of that name, or the script throws: what was taken is gone, and the error that
\* takes its place is popped as the result would be.
Throws ==
  /\ stack' = Drop(stack, Len(call.args) + 1 + Pops(call.handle))
  /\ End
  /\ UNCHANGED <<left, prop, sent, altered>>

NotFound == Ready /\ call.method # "setProperty" /\ ~Called /\ Throws

Makes == ScriptValues \cup (IF promises THEN PromiseValues ELSE {})

\* What a script can have: its arguments, what it makes, what a node function returned.
Has ==
  {held}
  \cup {From(stack[call.objIndex + 1 + i], Source(call.args[i])) : i \in 1 .. Len(call.args)}
  \cup {From(w, Source(w)) : w \in IF call.method = "eval" THEN Makes ELSE {}}

ScriptSets(x) ==
  /\ pc = "script"
  /\ prop' = x.is /\ sent' = x.was
  /\ UNCHANGED <<stack, promises, doing, value, pushing, reading, left, pc, call, frame, held,
                 origin, altered>>

ScriptReturns(x) ==
  /\ pc = "script"
  /\ stack' = Append(Drop(stack, Len(call.args) + 1), x.is)
  /\ pc' = "result" /\ ToV8(x.is) /\ origin' = x.was
  /\ UNCHANGED <<promises, pushing, reading, left, call, frame, held, prop, sent, altered>>

ScriptThrows == pc = "script" /\ Throws

--------------------------------------------------------------------------------
(* A script calls a node function: at most one.                               *)

EnterFunction == /\ pc = "script" /\ held = From(Undefined, Nothing)
                 /\ pc' = "function"
                 /\ frame' = [bottom |-> Len(stack), left |-> left]

\* functionCall with an argument: toV8 first.
PassToFunction(x) ==
  /\ EnterFunction
  /\ stack' = Append(stack, x.is)
  /\ ToV8(x.is) /\ origin' = x.was
  /\ UNCHANGED <<promises, pushing, reading, left, call, held, prop, sent, altered>>

\* The function returns what it is given.
FunctionAnswers ==
  /\ pc = "function" /\ IsMade
  /\ FromV8(value) /\ Arrives(value, origin)
  /\ UNCHANGED <<stack, promises, pushing, reading, left, pc, call, frame, held, prop, origin, sent>>

\* Without an argument it returns v.
AskFunction(v) ==
  /\ EnterFunction /\ call.method = "eval"
  /\ FromV8(v) /\ origin' = Source(v)
  /\ UNCHANGED <<stack, promises, pushing, reading, left, call, held, prop, sent, altered>>

\* functionCall returns: the script gets the top; the frame goes.
FunctionReturns ==
  /\ pc = "function" /\ IsPushed
  /\ held' = From(Top(stack), origin) /\ Arrives(Top(stack), origin)
  /\ stack' = SubSeq(stack, 1, frame.bottom) /\ left' = frame.left
  /\ frame' = NoFrame
  /\ pc' = "script" /\ doing' = "idle"
  /\ UNCHANGED <<promises, value, pushing, reading, call, prop, origin, sent>>

--------------------------------------------------------------------------------
(* The methods with what Duktape has done.                                    *)

\* The result goes to the program; getProperty does not pop it.
Return ==
  LET resolved == IF call.method = "getProperty" THEN 1 ELSE 0 IN
    /\ pc = "result" /\ IsMade
    /\ Arrives(value, origin)
    /\ stack' = Drop(stack, 1 - resolved + Pops(call.handle))
    /\ left' = left + resolved
    /\ End
    /\ UNCHANGED <<prop, sent>>

\* duk_is_object: plain buffers are values of their own, like scalars.
IsObject(v) == v.kind # "scalar" /\ (v.kind = "bytes" => v.class # "plain")

\* getObject of the property: if it is no object, a slot stays.
GetObject ==
  LET h     == "GLOBAL"
      found == IsObject(prop)
      s     == stack \o ObjectHandle(h) \o <<prop>> IN
    /\ pc = "idle" /\ left < MaxLeft
    /\ stack' = Drop(s, (IF found THEN 1 ELSE 0) + Pops(h))
    /\ left' = left + IF found THEN 0 ELSE 1
    /\ UNCHANGED <<promises, doing, value, pushing, reading, methodVars>>

EnablePromises ==
  /\ pc = "idle" /\ ~promises /\ promises' = TRUE
  /\ UNCHANGED <<stack, doing, value, pushing, reading, left, methodVars>>

ArgumentLists == UNION {[1 .. n -> NodeValues] : n \in 0 .. MaxArgs}

Next ==
  \/ Convert /\ UNCHANGED methodVars
  \/ GetProperty \/ GetObject \/ Eval
  \/ \E h \in Handles, v \in NodeValues : SetProperty(h, v)
  \/ \E args \in ArgumentLists : RunCallback(args) \/ \E h \in Handles : CallMethod(h, args)
  \/ NextArgument \/ PutProperty \/ EnterScript \/ NotFound
  \/ /\ pc = "script"
     /\ \E x \in Has : ScriptSets(x) \/ ScriptReturns(x) \/ PassToFunction(x)
  \/ \E v \in NodeValues : AskFunction(v)
  \/ FunctionAnswers \/ FunctionReturns
  \/ ScriptThrows \/ Return
  \/ EnablePromises

Spec == Init /\ [][Next]_vars

--------------------------------------------------------------------------------
(* Properties.                                                                *)

\* A value that both sides can have is the same after a trip to the other side and
\* back, whichever way it went and whatever it is part of (DukValue.cpp:45, 381).
ThereAndBack == altered = {}

\* What methods leave on the stack: a slot for each getProperty (Context.cpp:412), for
\* each getObject of no object (Context.cpp:507), and for each promise given to a
\* script without promises (DukValue.cpp:203), even when a call fails or throws.
StackAccounted == pc = "idle" => Len(stack) = left
================================================================================
