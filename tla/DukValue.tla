-------------------------------- MODULE DukValue -------------------------------
(***************************************************************************)
(* How values cross between V8 and Duktape: DukValue::fromV8, which pushes *)
(* a copy on the value stack of the heap, and DukValue::toV8, which makes  *)
(* a copy of what is there.  Both call themselves for the parts of a value *)
(* and go on when that call returns; each call, push and pop is a step.    *)
(*                                                                         *)
(* A value is a record; its kind says which other fields it has, and means *)
(* the same on both sides:                                                 *)
(*   scalar    is: what it is                                              *)
(*   array     items: values and holes; named: the values of other         *)
(*             properties                                                  *)
(*   bytes     class: of a buffer or a view; store: the bytes below it;    *)
(*             from, to: the part of these that it shows                   *)
(*   error     class; uncaught: how often "Uncaught Error: " precedes its  *)
(*             message                                                     *)
(*   object    class; own, inherited: its enumerable properties            *)
(*   function  own                                                         *)
(*   callback  own: what Node has for a function of a script               *)
(*   date, promise                                                         *)
(***************************************************************************)
EXTENDS Naturals, Sequences

CONSTANT Kept  \* Kept[p]: values to be kept by a trip to the other side and back, in a
               \* heap that has the polyfill's Promise (p = TRUE) or has it not

VARIABLES stack,     \* the stack of values: its last element is the top
          promises,  \* enablePromises has been called
          doing,     \* what the innermost call of fromV8 or toV8 is about
          value,     \* what it is called with, or returns
          pushing,   \* the calls of fromV8 that wait for another
          reading,   \* the calls of toV8 that wait for another
          left       \* history: what is left on the stack though nobody reads it

NoProps   == << >>
Scalar(s) == [kind |-> "scalar", is |-> s]
Undefined == Scalar("undefined")
Hole      == [kind |-> "hole"]
Array(s)  == [kind |-> "array", items |-> s, named |-> << >>]
Object(props) == [kind |-> "object", class |-> "Object", own |-> props, inherited |-> NoProps]
Error(c, n)   == [kind |-> "error", class |-> c, uncaught |-> n]
Bytes(c, s)   == [kind |-> "bytes", class |-> c, store |-> s, from |-> 1, to |-> Len(s)]

Top(s)     == s[Len(s)]
Drop(s, n) == SubSeq(s, 1, Len(s) - n)

Put(f, k, x) == [j \in DOMAIN f \cup {k} |-> IF j = k THEN x ELSE f[j]]

\* A waiting call: of what, the keys of parts that are still to be copied, and for fromV8
\* where the copy is on the stack, for toV8 what has been copied.
Pushing(v, keys, at)  == [of |-> v, rest |-> keys, at |-> at]
Reading(v, keys, got) == [of |-> v, rest |-> keys, got |-> got]

\* The part that is being copied: those of an array in order.
Key(call) == CHOOSE k \in call.rest : call.of.kind = "array" => \A j \in call.rest : k <= j

Inner(calls)           == calls[Len(calls)]
Outer(calls)          == SubSeq(calls, 1, Len(calls) - 1)
Replace(calls, call)   == [calls EXCEPT ![Len(calls)] = call]

--------------------------------------------------------------------------------
(* Into Duktape.                                                              *)

\* What has a case of its own, other than arrays.  Error is the only class of errors.
PushedWhole(v) == \/ v.kind \in {"scalar", "bytes", "date", "promise"}
                  \/ v.kind = "error" /\ v.class = "Error"

\* duk_push_string ends a string at its first NUL.
FromScalar(v) == IF v.is = "string with NUL" THEN Scalar("string") ELSE v

\* A view brings all the bytes below it; a Buffer only its own.
FromBytes(v) == Bytes(v.class, IF v.class = "Buffer" THEN SubSeq(v.store, v.from, v.to)
                                                     ELSE v.store)

\* What is pushed.  Without Promise the failed construction leaves its error below the
\* undefined.
Pushed(v) ==
  CASE v.kind = "scalar"  -> <<FromScalar(v)>>
    [] v.kind = "bytes"   -> <<FromBytes(v)>>
    [] v.kind = "date"    -> <<v>>
    [] v.kind = "promise" -> IF promises THEN <<v>> ELSE <<Error("TypeError", 0), Undefined>>
    [] v.kind = "error"   -> <<Error("Error", v.uncaught + 1)>>

\* Of an array the items, of anything else what it owns.
Own(v) == IF v.kind = "array" THEN v.items
          ELSE IF "own" \in DOMAIN v THEN v.own ELSE NoProps

\* An array gets every index up to its length, and nothing else.
Item(v, k) == IF Own(v)[k] = Hole THEN Undefined ELSE Own(v)[k]

\* What has no case of its own becomes a plain object.
Empty(v) == IF v.kind = "array" THEN Array(<< >>) ELSE Object(NoProps)

With(copy, k, x) == IF copy.kind = "array" THEN [copy EXCEPT !.items = Put(@, k, x)]
                                           ELSE [copy EXCEPT !.own = Put(@, k, x)]

FromV8(v) == doing' = "fromV8" /\ value' = v

PushWhole ==
  /\ doing = "fromV8" /\ PushedWhole(value)
  /\ stack' = stack \o Pushed(value)
  /\ left' = left + Len(Pushed(value)) - 1
  /\ doing' = "pushed"
  /\ UNCHANGED <<promises, value, pushing, reading>>

PushEmpty ==
  /\ doing = "fromV8" /\ ~PushedWhole(value)
  /\ stack' = Append(stack, Empty(value))
  /\ pushing' = Append(pushing, Pushing(value, DOMAIN Own(value), Len(stack) + 1))
  /\ doing' = "filling"
  /\ UNCHANGED <<promises, value, reading, left>>

PushPart ==
  /\ doing = "filling" /\ Inner(pushing).rest # {}
  /\ FromV8(Item(Inner(pushing).of, Key(Inner(pushing))))
  /\ UNCHANGED <<stack, promises, pushing, reading, left>>

\* setProperty, setPropertyIndex: the copy is where it was pushed; what it gets is taken
\* from the top.
SetPart ==
  LET call == Inner(pushing) IN
    /\ doing = "pushed" /\ pushing # << >>
    /\ stack' = [Drop(stack, 1) EXCEPT ![call.at] = With(@, Key(call), Top(stack))]
    /\ pushing' = Replace(pushing, [call EXCEPT !.rest = @ \ {Key(call)}])
    /\ doing' = "filling"
    /\ UNCHANGED <<promises, value, reading, left>>

Filled ==
  /\ doing = "filling" /\ Inner(pushing).rest = {}
  /\ pushing' = Outer(pushing)
  /\ doing' = "pushed"
  /\ UNCHANGED <<stack, promises, value, reading, left>>

--------------------------------------------------------------------------------
(* Out of Duktape.                                                            *)

\* Mutant: Uint8Array is asked for before Buffer.
Tested_Uint8First ==
  <<"DataView", "ArrayBuffer", "Uint8Array", "Buffer", "Uint8ClampedArray", "Uint16Array",
    "Uint32Array", "Int8Array", "Int16Array", "Int32Array", "Float32Array", "Float64Array">>

\* The order in which toV8 asks what a buffer object is an instance of.
Tested ==
  <<"DataView", "ArrayBuffer", "Buffer", "Uint8Array", "Uint8ClampedArray", "Uint16Array",
    "Uint32Array", "Int8Array", "Int16Array", "Int32Array", "Float32Array", "Float64Array">>

\* A Buffer of Node's is a Uint8Array too.
InstanceOf(class) == IF class = "Buffer" THEN {"Buffer", "Uint8Array"} ELSE {class}

\* A plain buffer becomes a Buffer, anything else what it is first found to be.
ToBytes(v) ==
  LET is    == {i \in DOMAIN Tested : Tested[i] \in InstanceOf(v.class)}
      first == CHOOSE i \in is : \A j \in is : i <= j
  IN Bytes(IF v.class = "plain" THEN "Buffer" ELSE Tested[first],
           SubSeq(v.store, v.from, v.to))

\* What is made without going through properties.
MadeWhole(v) ==
  CASE v.kind = "bytes" -> ToBytes(v)
    [] v.kind = "error" -> Error("Error", v.uncaught)
    [] OTHER            -> v

HasParts(v) == v.kind \in {"array", "object", "function"}

\* What DukEnum goes through: of an array what is there, with its other properties at the
\* end; of anything else also what it inherits.
Enumerated(v) ==
  IF v.kind = "array"
  THEN LET all == v.items \o v.named IN [i \in {j \in DOMAIN all : all[j] # Hole} |-> all[i]]
  ELSE LET inherited == IF "inherited" \in DOMAIN v THEN v.inherited ELSE NoProps
       IN [k \in DOMAIN v.own \cup DOMAIN inherited |->
             IF k \in DOMAIN v.own THEN v.own[k] ELSE inherited[k]]

\* What of has become when all it got has been copied: the items of an array together.
Made(of, got) == CASE of.kind = "array"    -> Array(got)
                   [] of.kind = "object"   -> Object(got)
                   [] of.kind = "function" -> [kind |-> "callback", own |-> got]

\* What DukEnum and duk_next push; ~DukEnum and the DukValues of key and value pop it.
Enumerator == [kind |-> "enumerator"]
KeyOnStack == [kind |-> "key"]

ToV8(v) == doing' = "toV8" /\ value' = v

MakeWhole ==
  /\ doing = "toV8" /\ ~HasParts(value)
  /\ value' = MadeWhole(value)
  /\ doing' = "made"
  /\ UNCHANGED <<stack, promises, pushing, reading, left>>

Enumerate ==
  /\ doing = "toV8" /\ HasParts(value)
  /\ stack' = Append(stack, Enumerator)
  /\ reading' = Append(reading, Reading(value, DOMAIN Enumerated(value), << >>))
  /\ doing' = "enumerating"
  /\ UNCHANGED <<promises, value, pushing, left>>

ReadPart ==
  LET part == Enumerated(Inner(reading).of)[Key(Inner(reading))] IN
    /\ doing = "enumerating" /\ Inner(reading).rest # {}
    /\ stack' = stack \o <<KeyOnStack, part>>
    /\ ToV8(part)
    /\ UNCHANGED <<promises, pushing, reading, left>>

KeepPart ==
  LET call == Inner(reading)
      got  == IF call.of.kind = "array" THEN Append(call.got, value)
                                        ELSE Put(call.got, Key(call), value) IN
    /\ doing = "made" /\ reading # << >>
    /\ reading' = Replace(reading, Reading(call.of, call.rest \ {Key(call)}, got))
    /\ stack' = Drop(stack, 2)
    /\ doing' = "enumerating"
    /\ UNCHANGED <<promises, value, pushing, left>>

AllRead ==
  /\ doing = "enumerating" /\ Inner(reading).rest = {}
  /\ value' = Made(Inner(reading).of, Inner(reading).got)
  /\ reading' = Outer(reading)
  /\ stack' = Drop(stack, 1)
  /\ doing' = "made"
  /\ UNCHANGED <<promises, pushing, left>>

--------------------------------------------------------------------------------
\* A step of a conversion, the end of one, and none.
Convert == \/ PushWhole \/ PushEmpty \/ PushPart \/ SetPart \/ Filled
           \/ MakeWhole \/ Enumerate \/ ReadPart \/ KeepPart \/ AllRead

IsPushed == doing = "pushed" /\ pushing = << >>
IsMade   == doing = "made" /\ reading = << >>

\* What both sides have: values that consist of what is kept.  The others do not survive:
\* functions; classes of a program's own; errors, whose messages grow; holes and named
\* properties of arrays; what objects inherit; strings with a NUL; views of a part.
BothHave(p, v) ==
  \/ v.kind = "scalar" /\ v.is # "string with NUL"
  \/ /\ v.kind = "bytes" /\ v = Bytes(v.class, v.store)
     /\ v.store \in Seq(Nat)
     /\ \E i \in DOMAIN Tested : v.class = Tested[i]
  \/ v.kind = "array" /\ v = Array(v.items) /\ v.items \in Seq(Kept[p])
  \/ v.kind = "object" /\ v = Object(v.own) /\ v.own \in [DOMAIN v.own -> Kept[p]]
  \/ v.kind = "date"
  \/ v.kind = "promise" /\ p

ASSUME KeptAssumption == \A p \in BOOLEAN : \A v \in Kept[p] : BothHave(p, v)
================================================================================
