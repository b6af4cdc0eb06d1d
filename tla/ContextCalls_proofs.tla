-------------------------- MODULE ContextCalls_proofs --------------------------
(***************************************************************************)
(* The value stack is accounted for, and what both sides have arrives      *)
(* unchanged, for every value of the constants.                            *)
(***************************************************************************)
EXTENDS ContextCalls, SequenceTheorems, TLAPS

--------------------------------------------------------------------------------
(* Sequences of whatever.                                                     *)

IsSeq(s) == s \in Seq({s[i] : i \in DOMAIN s})

\* A sequence is one of its own elements.
LEMMA AnySeq ==
  ASSUME NEW S, NEW s \in Seq(S)
  PROVE  IsSeq(s)
<1> DEFINE T == {s[i] : i \in DOMAIN s}
<1>1. Len(s) \in Nat /\ DOMAIN s = 1 .. Len(s)
  BY LenProperties
<1>2. \A i \in 1 .. Len(s) : s[i] \in T
  BY <1>1
<1>3. SubSeq(s, 1, Len(s)) \in Seq(T)
  <2> HIDE DEF T
  <2> QED BY <1>1, <1>2, SubSeqProperties
<1>4. SubSeq(s, 1, Len(s)) = s
  BY SubSeqFull
<1> QED
  BY <1>3, <1>4 DEF IsSeq

\* The indices of a sequence.
LEMMA Indices ==
  ASSUME NEW s, IsSeq(s)
  PROVE  /\ Len(s) \in Nat /\ DOMAIN s = 1 .. Len(s)
         /\ (s = << >>) <=> (Len(s) = 0)
<1> DEFINE T == {s[i] : i \in DOMAIN s}
<1>1. s \in Seq(T)
  BY DEF IsSeq
<1> HIDE DEF T
<1> QED
  BY <1>1, LenProperties, EmptySeq

\* The empty sequence.
LEMMA Short0 == IsSeq(<< >>) /\ Len(<< >>) = 0
BY EmptySeq, AnySeq

\* One element.
LEMMA Short1 == ASSUME NEW x PROVE IsSeq(<<x>>) /\ Len(<<x>>) = 1
<1>1. <<x>> \in Seq({x}) /\ Len(<<x>>) = 1
  OBVIOUS
<1> QED
  BY <1>1, AnySeq

\* Two elements.
LEMMA Short2 == ASSUME NEW x, NEW y PROVE IsSeq(<<x, y>>) /\ Len(<<x, y>>) = 2
<1>1. <<x, y>> \in Seq({x, y}) /\ Len(<<x, y>>) = 2
  OBVIOUS
<1> QED
  BY <1>1, AnySeq

\* What Append does.
LEMMA OneMore ==
  ASSUME NEW s, IsSeq(s), NEW x
  PROVE  /\ IsSeq(Append(s, x)) /\ Len(Append(s, x)) = Len(s) + 1
         /\ \A i \in 1 .. Len(s) : Append(s, x)[i] = s[i]
         /\ Append(s, x)[Len(s) + 1] = x
         /\ Append(s, x) # << >>
         /\ s \o <<x>> = Append(s, x)
<1> DEFINE T == {s[i] : i \in DOMAIN s} \cup {x}
<1>1. s \in Seq(T)
  <2> DEFINE U == {s[i] : i \in DOMAIN s}
  <2>1. s \in Seq(U) /\ U \subseteq T
    BY DEF IsSeq
  <2> HIDE DEF T, U
  <2> QED BY <2>1, SeqMonotonic
<1>2. x \in T
  OBVIOUS
<1> HIDE DEF T
<1>3. /\ Append(s, x) \in Seq(T) /\ Len(Append(s, x)) = Len(s) + 1
      /\ \A i \in 1 .. Len(s) : Append(s, x)[i] = s[i]
      /\ Append(s, x)[Len(s) + 1] = x
  BY <1>1, <1>2, AppendProperties
<1>4. IsSeq(Append(s, x))
  BY <1>3, AnySeq
<1>5. Append(s, x) # << >>
  BY <1>1, <1>2, AppendProperties
<1>6. s \o <<x>> = Append(s, x)
  BY <1>1, <1>2, AppendIsConcat
<1> QED
  BY <1>3, <1>4, <1>5, <1>6

\* What the concatenation of two sequences has.
LEMMA Joined ==
  ASSUME NEW s, NEW t, IsSeq(s), IsSeq(t)
  PROVE  /\ IsSeq(s \o t) /\ Len(s \o t) = Len(s) + Len(t)
         /\ \A i \in 1 .. Len(s) : (s \o t)[i] = s[i]
         /\ \A i \in 1 .. Len(t) : (s \o t)[Len(s) + i] = t[i]
<1> DEFINE U == {s[i] : i \in DOMAIN s}
           V == {t[i] : i \in DOMAIN t}
<1>1. s \in Seq(U) /\ t \in Seq(V)
  BY DEF IsSeq
<1> HIDE DEF U, V
<1>2. s \in Seq(U \cup V) /\ t \in Seq(U \cup V)
  BY <1>1, SeqMonotonic
<1>3. /\ s \o t \in Seq(U \cup V) /\ Len(s \o t) = Len(s) + Len(t)
      /\ \A i \in 1 .. Len(s) + Len(t) : (s \o t)[i] = IF i <= Len(s) THEN s[i] ELSE t[i - Len(s)]
  BY <1>2, ConcatProperties
<1>4. IsSeq(s \o t)
  BY <1>3, AnySeq
<1>5. Len(s) \in Nat /\ Len(t) \in Nat
  BY Indices
<1>6. ASSUME NEW i \in 1 .. Len(s)
      PROVE  (s \o t)[i] = s[i]
  BY <1>3, <1>5
<1>7. ASSUME NEW i \in 1 .. Len(t)
      PROVE  (s \o t)[Len(s) + i] = t[i]
  <2>1. Len(s) + i \in 1 .. Len(s) + Len(t) /\ ~(Len(s) + i <= Len(s)) /\ Len(s) + i - Len(s) = i
    BY <1>5
  <2> QED BY <1>3, <2>1
<1> QED
  BY <1>3, <1>4, <1>6, <1>7

\* What is left of a sequence when its end is cut off.
LEMMA Cut ==
  ASSUME NEW s, IsSeq(s), NEW n \in 0 .. Len(s)
  PROVE  /\ IsSeq(SubSeq(s, 1, n)) /\ Len(SubSeq(s, 1, n)) = n
         /\ \A i \in 1 .. n : SubSeq(s, 1, n)[i] = s[i]
<1> DEFINE T == {s[i] : i \in DOMAIN s}
<1>1. Len(s) \in Nat /\ DOMAIN s = 1 .. Len(s)
  BY Indices
<1>2. \A i \in 1 .. n : s[i] \in T
  BY <1>1
<1> HIDE DEF T
<1>3. n \in Int /\ 1 \in Int /\ n = (IF 1 <= n THEN n - 1 + 1 ELSE 0) /\ 1 .. n - 1 + 1 = 1 .. n
      /\ \A i \in 1 .. n : 1 + i - 1 = i
  BY <1>1
<1>4. /\ SubSeq(s, 1, n) \in Seq(T)
      /\ Len(SubSeq(s, 1, n)) = IF 1 <= n THEN n - 1 + 1 ELSE 0
      /\ \A i \in 1 .. n - 1 + 1 : SubSeq(s, 1, n)[i] = s[1 + i - 1]
  BY ONLY <1>2, <1>3, SubSeqProperties
<1> QED
  BY <1>3, <1>4, AnySeq

\* What is left when n elements are dropped.
LEMMA Dropped ==
  ASSUME NEW s, IsSeq(s), NEW n \in 0 .. Len(s)
  PROVE  /\ IsSeq(Drop(s, n)) /\ Len(Drop(s, n)) = Len(s) - n
         /\ \A i \in 1 .. Len(s) - n : Drop(s, n)[i] = s[i]
<1>1. Len(s) - n \in 0 .. Len(s)
  BY Indices
<1> QED
  BY <1>1, Cut DEF Drop

Change(s, n, x) == [s EXCEPT ![n] = x]

\* A sequence of which one element changes.
LEMMA Changed ==
  ASSUME NEW s, IsSeq(s), NEW n \in 1 .. Len(s), NEW x
  PROVE  LET t == Change(s, n, x) IN
         /\ IsSeq(t) /\ Len(t) = Len(s) /\ t[n] = x
         /\ \A i \in 1 .. Len(s) : i # n => t[i] = s[i]
<1> DEFINE T == {s[i] : i \in DOMAIN s} \cup {x}
           U == {s[i] : i \in DOMAIN s}
<1>1. s \in Seq(T) /\ x \in T
  <2>1. s \in Seq(U) /\ U \subseteq T /\ x \in T
    BY DEF IsSeq
  <2> HIDE DEF T, U
  <2> QED BY <2>1, SeqMonotonic
<1> HIDE DEF T
<1>2. /\ [s EXCEPT ![n] = x] \in Seq(T) /\ Len([s EXCEPT ![n] = x]) = Len(s)
      /\ \A j \in 1 .. Len(s) : [s EXCEPT ![n] = x][j] = IF j = n THEN x ELSE s[j]
  BY <1>1, ExceptSeq
<1>3. Change(s, n, x) = [s EXCEPT ![n] = x]
  BY DEF Change
<1> QED
  BY <1>2, <1>3, AnySeq

--------------------------------------------------------------------------------
(* Values that are to be kept.                                                *)

\* A copy of v that has the parts f.
CopyOf(v, f) == IF v.kind = "array" THEN Array(f) ELSE Object(f)

\* What is to be kept is of a kind that both sides have, and so are its parts.
LEMMA FitHas ==
  ASSUME NEW v \in Fit, promises \in BOOLEAN
  PROVE  \E p \in BOOLEAN : (p => promises) /\ Kept[p] \subseteq Fit /\ BothHave(p, v)
<1>1. PICK p \in BOOLEAN : (p => promises) /\ v \in Kept[p]
  BY DEF Fit
<1>2. Kept[p] \subseteq Fit
  BY <1>1 DEF Fit
<1>3. BothHave(p, v)
  BY <1>1, KeptAssumption
<1> QED
  BY <1>1, <1>2, <1>3

\* Nothing, and a hole, are not to be kept.
LEMMA NothingIsUnfit ==
  ASSUME promises \in BOOLEAN
  PROVE  Nothing \notin Fit /\ Hole \notin Fit
<1>1. ASSUME NEW v, v = Nothing \/ v = Hole, NEW p
      PROVE  ~BothHave(p, v)
  <2>1. v.kind \in {"none", "hole"}
    BY <1>1 DEF Nothing, Hole
  <2> QED BY <2>1 DEF BothHave
<1> QED
  BY <1>1, FitHas

\* fromV8 pushes just the value, if it is one of those it pushes whole.
LEMMA FitWhole ==
  ASSUME NEW v \in Fit, promises \in BOOLEAN, PushedWhole(v)
  PROVE  Pushed(v) = <<v>>
<1>1. PICK p \in BOOLEAN : (p => promises) /\ BothHave(p, v)
  BY FitHas
<1>2. CASE v.kind = "scalar"
  BY <1>1, <1>2 DEF BothHave, Pushed, FromScalar
<1>3. CASE v.kind = "bytes"
  <2>1. v = Bytes(v.class, v.store) /\ v.store \in Seq(Nat)
    BY <1>1, <1>3 DEF BothHave
  <2>2. v.from = 1 /\ v.to = Len(v.store)
    BY <2>1 DEF Bytes
  <2>3. SubSeq(v.store, 1, Len(v.store)) = v.store
    BY <2>1, SubSeqFull
  <2>4. FromBytes(v) = v
    BY <2>1, <2>2, <2>3 DEF FromBytes
  <2> QED BY <2>4, <1>3 DEF Pushed
<1>4. CASE v.kind = "date"
  BY <1>4 DEF Pushed
<1>5. CASE v.kind = "promise"
  <2>1. promises
    BY <1>1, <1>5 DEF BothHave
  <2> QED BY <2>1, <1>5 DEF Pushed
<1> QED
  BY <1>1, <1>2, <1>3, <1>4, <1>5 DEF BothHave, PushedWhole

\* The others are arrays and objects, whose parts are to be kept.
LEMMA FitParts ==
  ASSUME NEW v \in Fit, promises \in BOOLEAN, ~PushedWhole(v) \/ HasParts(v)
  PROVE  /\ ~PushedWhole(v) /\ HasParts(v)
         /\ v.kind \in {"array", "object"}
         /\ v = CopyOf(v, Own(v))
         /\ Own(v) = [k \in DOMAIN Own(v) |-> Own(v)[k]]
         /\ v.kind = "array" => Own(v) \in Seq(Fit)
         /\ \A k \in DOMAIN Own(v) : Own(v)[k] \in Fit /\ Item(v, k) = Own(v)[k]
<1>1. PICK p \in BOOLEAN : Kept[p] \subseteq Fit /\ BothHave(p, v)
  BY FitHas
<1>2. v.kind \in {"array", "object"} /\ ~PushedWhole(v) /\ HasParts(v)
  BY <1>1 DEF BothHave, PushedWhole, HasParts
<1>3. CASE v.kind = "array"
  <2>1. v = Array(v.items) /\ v.items \in Seq(Kept[p]) /\ Own(v) = v.items
    BY <1>1, <1>3 DEF BothHave, Own
  <2>2. v.items \in Seq(Fit)
    BY <1>1, <2>1, SeqMonotonic
  <2>3. v.items \in [1 .. Len(v.items) -> Fit]
    BY <2>2, LenProperties
  <2>4. \A k \in DOMAIN Own(v) : Own(v)[k] \in Fit
    BY <2>1, <2>3
  <2>5. v = CopyOf(v, Own(v)) /\ Own(v) = [k \in DOMAIN Own(v) |-> Own(v)[k]]
    BY <1>3, <2>1, <2>3 DEF CopyOf
  <2> QED BY <1>2, <1>3, <2>1, <2>2, <2>4, <2>5, NothingIsUnfit DEF Item
<1>4. CASE v.kind = "object"
  <2>1. v = Object(v.own) /\ v.own \in [DOMAIN v.own -> Kept[p]]
    BY <1>1, <1>4 DEF BothHave
  <2>2. Own(v) = v.own
    <3>1. DOMAIN v = DOMAIN Object(v.own)
      BY <2>1
    <3>2. "own" \in DOMAIN v
      BY <3>1 DEF Object
    <3> QED BY <1>4, <3>2 DEF Own
  <2>3. \A k \in DOMAIN Own(v) : Own(v)[k] \in Fit
    BY <1>1, <2>1, <2>2
  <2>4. v = CopyOf(v, Own(v)) /\ Own(v) = [k \in DOMAIN Own(v) |-> Own(v)[k]]
    BY <1>4, <2>1, <2>2 DEF CopyOf
  <2> QED BY <1>2, <1>4, <2>3, <2>4, NothingIsUnfit DEF Item
<1> QED
  BY <1>2, <1>3, <1>4

\* toV8 makes what it is, if it has no parts.
LEMMA FitMade ==
  ASSUME NEW v \in Fit, promises \in BOOLEAN, ~HasParts(v)
  PROVE  MadeWhole(v) = v
<1>1. PICK p \in BOOLEAN : BothHave(p, v)
  BY FitHas
<1>2. CASE v.kind = "bytes"
  <2> DEFINE is == {i \in DOMAIN Tested : Tested[i] \in InstanceOf(v.class)}
             first == CHOOSE i \in is : \A j \in is : i <= j
  <2>1. /\ v = Bytes(v.class, v.store) /\ v.store \in Seq(Nat)
        /\ \E i \in DOMAIN Tested : v.class = Tested[i]
    BY <1>1, <1>2 DEF BothHave
  <2>2. v.from = 1 /\ v.to = Len(v.store)
    BY <2>1 DEF Bytes
  <2>3. SubSeq(v.store, v.from, v.to) = v.store
    BY <2>1, <2>2, SubSeqFull
  <2>4. DOMAIN Tested = 1 .. 12
    BY DEF Tested
  <2>5. v.class # "plain"
    <3>1. \A i \in 1 .. 12 : Tested[i] # "plain"
      BY DEF Tested
    <3> QED BY <2>1, <2>4, <3>1
  <2>6. PICK m \in 1 .. 12 : v.class = Tested[m]
    BY <2>1, <2>4
  <2>7. m \in is /\ \A j \in is : m <= j
    <3>1. CASE v.class = "Buffer"
      <4>1. m = 3
        BY <2>6, <3>1 DEF Tested
      <4>2. is = {i \in 1 .. 12 : Tested[i] \in {"Buffer", "Uint8Array"}}
        BY <3>1, <2>4 DEF InstanceOf
      <4> QED BY <4>1, <4>2 DEF Tested
    <3>2. CASE v.class # "Buffer"
      <4>1. is = {i \in 1 .. 12 : Tested[i] = Tested[m]}
        BY <3>2, <2>4, <2>6 DEF InstanceOf
      <4>2. \A i \in 1 .. 12 : Tested[i] = Tested[m] => i = m
        BY DEF Tested
      <4> QED BY <4>1, <4>2
    <3> QED BY <3>1, <3>2
  <2>8. first \in is /\ \A j \in is : first <= j
    BY <2>7
  <2>9. first = m
    <3>1. first \in 1 .. 12 /\ first <= m /\ m <= first
      BY <2>4, <2>7, <2>8
    <3> HIDE DEF first
    <3> QED BY <3>1
  <2>10. ToBytes(v) = Bytes(v.class, v.store)
    BY <2>3, <2>5, <2>6, <2>9 DEF ToBytes
  <2> QED BY <2>1, <2>10, <1>2 DEF MadeWhole
<1>3. CASE v.kind # "bytes"
  BY <1>1, <1>3 DEF BothHave, MadeWhole
<1> QED
  BY <1>2, <1>3

\* DukEnum goes through just what there is.
LEMMA FitEnumerated ==
  ASSUME NEW v \in Fit, promises \in BOOLEAN, HasParts(v)
  PROVE  /\ Enumerated(v) = Own(v)
         /\ Made(v, Own(v)) = v
<1>1. PICK p \in BOOLEAN : BothHave(p, v)
  BY FitHas
<1>2. /\ v.kind \in {"array", "object"} /\ v = CopyOf(v, Own(v))
      /\ Own(v) = [k \in DOMAIN Own(v) |-> Own(v)[k]]
      /\ v.kind = "array" => Own(v) \in Seq(Fit)
      /\ \A k \in DOMAIN Own(v) : Own(v)[k] \in Fit
  BY FitParts
<1>3. Made(v, Own(v)) = v
  BY <1>2 DEF Made, CopyOf
<1>4. CASE v.kind = "array"
  <2>1. v.named = << >> /\ v.items = Own(v) /\ Own(v) \in Seq(Fit)
    BY <1>2, <1>4 DEF CopyOf, Array, Own
  <2>2. v.items \o v.named = Own(v)
    BY <2>1, ConcatEmptySeq
  <2>3. {j \in DOMAIN Own(v) : Own(v)[j] # Hole} = DOMAIN Own(v)
    BY <1>2, NothingIsUnfit
  <2> QED BY <1>2, <1>3, <1>4, <2>2, <2>3 DEF Enumerated
<1>5. CASE v.kind = "object"
  <2>1. v = Object(Own(v))
    BY <1>2, <1>5 DEF CopyOf
  <2>2. v.own = Own(v) /\ v.inherited = << >> /\ DOMAIN v = DOMAIN Object(Own(v))
    BY <2>1 DEF Object, NoProps
  <2>3. DOMAIN v.inherited = {}
    BY <2>2
  <2>4. "inherited" \in DOMAIN v
    BY <2>2 DEF Object
  <2>5. Enumerated(v) = [k \in DOMAIN v.own |-> v.own[k]]
    BY <1>5, <2>3, <2>4 DEF Enumerated
  <2> QED BY <1>2, <1>3, <2>2, <2>5
<1> QED
  BY <1>2, <1>4, <1>5

--------------------------------------------------------------------------------
(* The inductive invariant.                                                   *)

\* Which way a conversion is going.
In  == {"fromV8", "filling", "pushed"}
Out == {"toV8", "enumerating", "made"}

Ways == /\ doing \in {"idle"} \cup In \cup Out
        /\ doing \notin In => pushing = << >>
        /\ doing \notin Out => reading = << >>
        /\ doing = "filling" => pushing # << >>
        /\ doing = "enumerating" => reading # << >>

IsPushing(c) == c = Pushing(c.of, c.rest, c.at) /\ c.at \in Nat \ {0}
IsReading(c) == c = Reading(c.of, c.rest, c.got)

StackTypes   == IsSeq(stack) /\ left \in Nat /\ promises \in BOOLEAN
PushingTypes == IsSeq(pushing) /\ \A i \in 1 .. Len(pushing) : IsPushing(pushing[i])
ReadingTypes == IsSeq(reading) /\ \A i \in 1 .. Len(reading) : IsReading(reading[i])

Methods == {"none", "setProperty", "callMethod", "runCallback", "eval", "getProperty"}

IsCall(c) ==
  /\ c = [method |-> c.method, handle |-> c.handle, args |-> c.args, given |-> c.given,
          objIndex |-> c.objIndex]
  /\ c.method \in Methods /\ c.handle \in Handles \cup {"stash", "none"}
  /\ IsSeq(c.args) /\ c.given \in 0 .. Len(c.args) /\ c.objIndex \in Nat

CallTypes ==
  /\ pc \in {"idle", "arguments", "script", "function", "result"}
  /\ IsCall(call)
  /\ frame \in [bottom : Nat, left : Nat]

TypeInv == StackTypes /\ PushingTypes /\ ReadingTypes /\ CallTypes /\ Ways

\* What is done where, and by which methods.
PcInv ==
  /\ pc \in {"idle", "script"} => doing = "idle"
  /\ pc = "arguments" => doing \in In /\ call.method # "getProperty"
  /\ pc = "function" => doing # "idle"
  /\ pc = "result" => doing \in Out
  /\ pc \in {"script", "function"} => call.method \notin {"setProperty", "getProperty"}
  /\ (pc = "arguments" /\ call.given = 0) => IsPushed
  /\ call.method = "setProperty" => Len(call.args) = 1

\* What a conversion has on the stack: fromV8 the copies that are not finished, and the
\* one that is; toV8 an enumerator for each call, with the key and value it is at.
OnTop == Len(pushing) + (IF doing = "pushed" THEN 1 ELSE 0)
Reads == 3 * Len(reading) - (IF doing = "enumerating" THEN 2 ELSE 0)

\* What a method has below that: the receiver, then the name, then the arguments.
Under    == Pops(call.handle) + call.given - (IF call.method = "setProperty" THEN 1 ELSE 0)
InScript == Pops(call.handle) + 1 + Len(call.args)

HeightInv ==
  /\ pc = "idle" => Len(stack) = left
  /\ pc = "arguments" => Len(stack) = left + Under + OnTop
  /\ pc = "script" => Len(stack) = left + InScript
  /\ pc = "function" => /\ frame.bottom = frame.left + InScript
                        /\ Len(stack) >= frame.bottom + OnTop + Reads
  /\ pc = "result" => Len(stack) = left + Pops(call.handle) + 1 + Reads

\* What a conversion leaves alone.
Floor == CASE pc = "function" -> frame.bottom
           [] pc # "function" /\ call.method = "setProperty" -> 0
           [] pc # "function" /\ call.method # "setProperty" -> call.objIndex + call.given

\* The keys that are left of what is to be kept, those of an array in order.
Remaining(c) == /\ c.rest \subseteq DOMAIN Own(c.of)
                /\ c.of.kind = "array" => \E m \in Nat \ {0} : c.rest = m .. Len(Own(c.of))

\* A copy on the stack: of what is to be kept it has so far the same.
Filling(c, copy) ==
  /\ ~PushedWhole(c.of)
  /\ copy = CopyOf(c.of, Own(copy))
  /\ c.of \in Fit =>
       /\ Remaining(c)
       /\ Own(copy) = [k \in DOMAIN Own(c.of) \ c.rest |-> Own(c.of)[k]]

\* Call d of fromV8 is for the part that call c is at; nothing lies between the copies.
Nested(c, d) == /\ c.rest # {}
                /\ d.of = Item(c.of, Key(c))
                /\ c.of \in Fit => d.at = c.at + 1

\* The innermost waiting call of fromV8 on stack s when conversions are about v, and what
\* has become of the part that it is at.
Innermost(c, s, about, v) ==
  LET one == IF about = "pushed" THEN 1 ELSE 0 IN
    /\ c.at + one <= Len(s)
    /\ c.of \in Fit => Len(s) = c.at + one
    /\ about # "filling" => c.rest # {}
    /\ about = "fromV8" => v = Item(c.of, Key(c))
    /\ (about = "pushed" /\ c.of \in Fit) => Top(s) = Item(c.of, Key(c))

\* The calls and their copies: above what is left alone, each above the next outer one.
Fills(calls, s, floor, about, v) ==
  /\ \A i \in 1 .. Len(calls) :
       calls[i].at > floor /\ Filling(calls[i], s[calls[i].at])
  /\ \A i, j \in 1 .. Len(calls) : i < j => calls[i].at < calls[j].at
  /\ \A i \in 1 .. Len(calls) : i < Len(calls) => Nested(calls[i], calls[i + 1])
  /\ calls # << >> => Innermost(Inner(calls), s, about, v)

FillInv == Fills(pushing, stack, Floor, doing, value)

\* What toV8 has made so far of what is to be kept.
GotSoFar(c) ==
  /\ Remaining(c)
  /\ c.of.kind = "array" => /\ c.got \in Seq(Fit) /\ Len(c.got) <= Len(Own(c.of))
                            /\ c.rest = (Len(c.got) + 1) .. Len(Own(c.of))
  /\ c.got = [k \in DOMAIN Own(c.of) \ c.rest |-> Own(c.of)[k]]

\* The waiting calls of toV8 when conversions are about v, each for a part of the next.
Readings(calls, about, v) ==
  /\ \A i \in 1 .. Len(calls) :
       /\ HasParts(calls[i].of)
       /\ calls[i].of \in Fit => GotSoFar(calls[i])
       /\ i < Len(calls) =>
            /\ calls[i].rest # {}
            /\ calls[i + 1].of = Enumerated(calls[i].of)[Key(calls[i])]
  /\ (calls # << >> /\ about # "enumerating") =>
       LET c == Inner(calls) IN
         /\ c.rest # {}
         /\ (about = "toV8" \/ c.of \in Fit) => v = Enumerated(c.of)[Key(c)]

ReadInv == Readings(reading, doing, value)

\* A value that was something to be kept still is that.
IsKept(x) == x.was # Nothing => x.was \in Fit /\ x.is = x.was

\* So are those that the script and the global object have, and the one on its way.
KeepInv == IsKept(held) /\ IsKept(From(prop, sent))

OriginInv ==
  origin # Nothing =>
    /\ origin \in Fit
    /\ pushing # << >> => pushing[1].of = origin
    /\ reading # << >> => reading[1].of = origin
    /\ (pushing = << >> /\ reading = << >> /\ doing \in {"fromV8", "toV8", "made"}) => value = origin
    /\ (pushing = << >> /\ doing = "pushed") => stack # << >> /\ Top(stack) = origin

\* The first n arguments are on the stack above the name.
Arrived(n) == \A j \in 1 .. n :
                call.args[j] \in Fit => stack[call.objIndex + 1 + j] = call.args[j]

\* While the arguments are converted, unless something is left among them; while the
\* script runs they are all there.
NameInv ==
  (pc = "arguments" /\ call.method # "setProperty") =>
    /\ call.objIndex + 1 <= Len(stack) /\ stack[call.objIndex + 1] = Name
    /\ \A j \in 1 .. Len(stack) : stack[j] = Name => j <= call.objIndex + 1
    /\ Len(stack) >= call.objIndex + call.given + OnTop
    /\ Len(stack) = call.objIndex + call.given + OnTop =>
         Arrived(call.given - (IF IsPushed THEN 0 ELSE 1))

ArgumentInv ==
  /\ pc = "idle" => origin = Nothing
  /\ pc = "arguments" => origin = IF call.given = 0 THEN Nothing ELSE Source(call.args[call.given])
  /\ pc = "script" => Len(stack) = call.objIndex + 1 + Len(call.args)
  /\ pc = "function" => frame.bottom = call.objIndex + 1 + Len(call.args)
  /\ pc \in {"script", "function"} => Arrived(Len(call.args))

IInv == /\ TypeInv /\ PcInv /\ HeightInv /\ FillInv /\ ReadInv
        /\ KeepInv /\ OriginInv /\ NameInv /\ ArgumentInv
        /\ altered = {}

--------------------------------------------------------------------------------
(* What the steps of a conversion do to the stack.                            *)

\* A record of a waiting call has the fields it was made with.
LEMMA Waiting ==
  ASSUME NEW v, NEW k, NEW x
  PROVE  /\ Pushing(v, k, x).of = v /\ Pushing(v, k, x).rest = k /\ Pushing(v, k, x).at = x
         /\ Reading(v, k, x).of = v /\ Reading(v, k, x).rest = k /\ Reading(v, k, x).got = x
BY DEF Pushing, Reading

\* What fromV8 pushes whole is one thing, or two if it is a promise without Promise, and
\* no name.
LEMMA PushedFacts ==
  ASSUME NEW v, PushedWhole(v)
  PROVE  /\ IsSeq(Pushed(v)) /\ Len(Pushed(v)) \in {1, 2}
         /\ \A i \in 1 .. Len(Pushed(v)) : Pushed(v)[i] # Name
<1>1. ASSUME NEW x, Pushed(v) = <<x>>, x.kind # "name"
      PROVE  /\ IsSeq(Pushed(v)) /\ Len(Pushed(v)) \in {1, 2}
             /\ \A i \in 1 .. Len(Pushed(v)) : Pushed(v)[i] # Name
  <2>1. <<x>> \in Seq({x})
    OBVIOUS
  <2>2. IsSeq(<<x>>)
    BY <2>1, AnySeq
  <2>3. x # Name
    BY <1>1 DEF Name
  <2> QED BY <1>1, <2>2, <2>3
<1>2. CASE v.kind = "scalar"
  <2>1. Pushed(v) = <<FromScalar(v)>> /\ FromScalar(v).kind = "scalar"
    BY <1>2 DEF Pushed, FromScalar, Scalar
  <2> QED BY <1>1, <2>1
<1>3. CASE v.kind = "bytes"
  <2>1. Pushed(v) = <<FromBytes(v)>>
    BY <1>3 DEF Pushed
  <2>2. FromBytes(v).kind = "bytes"
    BY DEF FromBytes, Bytes
  <2> QED BY <1>1, <2>1, <2>2
<1>4. CASE v.kind = "date"
  <2>1. Pushed(v) = <<v>>
    BY <1>4 DEF Pushed
  <2> QED BY <1>1, <1>4, <2>1
<1>5. CASE v.kind = "promise" /\ promises
  <2>1. Pushed(v) = <<v>>
    BY <1>5 DEF Pushed
  <2> QED BY <1>1, <1>5, <2>1
<1>6. CASE v.kind = "promise" /\ ~promises
  <2> DEFINE e == Error("TypeError", 0)
  <2>1. Pushed(v) = <<e, Undefined>>
    BY <1>6 DEF Pushed
  <2>2. e # Name /\ Undefined # Name
    <3>1. e.kind = "error" /\ Undefined.kind = "scalar" /\ Name.kind = "name"
      BY DEF Error, Undefined, Scalar, Name
    <3> QED BY <3>1
  <2> HIDE DEF e
  <2>3. <<e, Undefined>> \in Seq({e, Undefined})
    OBVIOUS
  <2>4. IsSeq(<<e, Undefined>>)
    BY <2>3, AnySeq
  <2> QED BY <2>1, <2>2, <2>4
<1>7. CASE v.kind = "error"
  <2>1. Pushed(v) = <<Error("Error", v.uncaught + 1)>>
    BY <1>7 DEF Pushed
  <2>2. Error("Error", v.uncaught + 1).kind = "error"
    BY DEF Error
  <2> QED BY <1>1, <2>1, <2>2
<1> QED
  BY <1>2, <1>3, <1>4, <1>5, <1>6, <1>7 DEF PushedWhole

\* How much of the stack there is above what a conversion leaves alone.
LEMMA Room ==
  ASSUME IInv, doing # "idle", ~IsPushed
  PROVE  /\ OnTop \in Nat /\ Reads \in Nat /\ Floor \in Nat /\ Len(stack) \in Nat
         /\ Len(stack) >= OnTop + Reads
         /\ pc # "result" => Len(stack) >= Floor + OnTop + Reads
<1> USE DEF IInv
<1>1. /\ Len(stack) \in Nat /\ Len(pushing) \in Nat /\ Len(reading) \in Nat /\ Len(call.args) \in Nat
      /\ (doing = "enumerating" => Len(reading) > 0)
      /\ (doing \notin In => Len(pushing) = 0) /\ (doing \notin Out => Len(reading) = 0)
  BY Indices DEF TypeInv, StackTypes, PushingTypes, ReadingTypes, CallTypes, IsCall, Ways
<1>2. OnTop \in Nat /\ Reads \in Nat
  BY <1>1 DEF OnTop, Reads
<1>3. /\ Pops(call.handle) \in Nat /\ call.given \in Nat /\ call.objIndex \in Nat /\ left \in Nat
      /\ frame.bottom \in Nat /\ frame.left \in Nat
      /\ pc \in {"idle", "arguments", "script", "function", "result"}
  BY <1>1 DEF TypeInv, CallTypes, IsCall, StackTypes, Pops, Handles
<1>4. Floor \in Nat
  BY <1>3 DEF Floor
<1>5. CASE pc = "arguments"
  <2>1. doing \in In /\ Reads = 0
    BY <1>1, <1>5 DEF PcInv, Reads, In, Out
  <2>2. call.given # 0 /\ Len(stack) = left + Under + OnTop
    BY <1>5 DEF PcInv, HeightInv
  <2>3. Under >= 0 /\ Under \in Int
    BY <1>3, <2>2 DEF Under
  <2>4. Len(stack) >= OnTop + Reads
    BY <1>2, <1>3, <2>1, <2>2, <2>3
  <2>5. CASE call.method = "setProperty"
    BY <1>2, <1>4, <1>5, <2>4, <2>5 DEF Floor
  <2>6. CASE call.method # "setProperty"
    <3>1. Len(stack) >= call.objIndex + call.given + OnTop /\ Floor = call.objIndex + call.given
      BY <1>5, <2>6 DEF NameInv, Floor
    <3> QED BY <1>1, <1>2, <1>3, <1>4, <2>1, <2>4, <3>1
  <2> QED BY <2>5, <2>6
<1>6. CASE pc = "function"
  <2>1. Len(stack) >= frame.bottom + OnTop + Reads /\ Floor = frame.bottom
    BY <1>6 DEF HeightInv, Floor
  <2> QED BY <1>1, <1>2, <1>3, <1>4, <2>1
<1>7. CASE pc = "result"
  <2>1. Len(stack) = left + Pops(call.handle) + 1 + Reads /\ OnTop = 0
    BY <1>1, <1>7 DEF HeightInv, OnTop, PcInv, In, Out
  <2> QED BY <1>1, <1>2, <1>3, <1>4, <1>7, <2>1
<1> QED
  BY <1>1, <1>2, <1>3, <1>4, <1>5, <1>6, <1>7 DEF PcInv

\* What every step of a conversion does: it goes on in the same direction; the stack grows
\* by what is left on it, by copies and by what toV8 reads, and changes neither below the
\* conversion nor, on the way in, by a name.
Moves ==
  /\ StackTypes' /\ PushingTypes' /\ ReadingTypes' /\ Ways'
  /\ (doing \in In /\ doing' \in In) \/ (doing \in Out /\ doing' \in Out)
  /\ left' >= left
  /\ Len(stack') = Len(stack) + (left' - left) + (OnTop' - OnTop) + (Reads' - Reads)
  /\ pc # "result" => \A j \in 1 .. Floor : stack'[j] = stack[j]
  /\ doing \in In => \A j \in 1 .. Len(stack') : stack'[j] = Name => j <= Len(stack) /\ stack[j] = Name

\* fromV8 pushes what it was called for, and may leave an error below it.
LEMMA PushWholeMoves == ASSUME IInv, PushWhole PROVE Moves
<1> DEFINE p == Pushed(value)
<1>1. /\ doing = "fromV8" /\ stack' = stack \o p /\ left' = left + Len(p) - 1 /\ doing' = "pushed"
      /\ UNCHANGED <<promises, pushing, reading>>
  BY DEF PushWhole
<1>2. IsSeq(p) /\ Len(p) \in {1, 2} /\ \A i \in 1 .. Len(p) : p[i] # Name
  BY PushedFacts DEF PushWhole
<1> HIDE DEF p
<1>3. IsSeq(stack) /\ left \in Nat /\ promises \in BOOLEAN /\ PushingTypes /\ ReadingTypes /\ Ways
  BY DEF IInv, TypeInv, StackTypes
<1>4. /\ IsSeq(stack') /\ Len(stack') = Len(stack) + Len(p)
      /\ \A i \in 1 .. Len(stack) : stack'[i] = stack[i]
      /\ \A i \in 1 .. Len(p) : stack'[Len(stack) + i] = p[i]
  BY <1>1, <1>2, <1>3, Joined
<1>5. left' \in Nat /\ left' >= left
  BY <1>1, <1>2, <1>3
<1>6. /\ OnTop \in Nat /\ Reads \in Nat /\ Len(stack) \in Nat /\ Floor \in Nat
      /\ pc # "result" => Len(stack) >= Floor + OnTop + Reads
  BY <1>1, Room DEF IsPushed
<1>7. OnTop' = OnTop + 1 /\ Reads' = Reads
  BY <1>1, <1>6 DEF OnTop, Reads
<1>8. ASSUME NEW j \in 1 .. Len(stack'), stack'[j] = Name
      PROVE  j <= Len(stack) /\ stack[j] = Name
  <2>1. CASE j <= Len(stack)
    BY <1>4, <1>6, <1>8, <2>1
  <2>2. CASE j > Len(stack)
    <3>1. j - Len(stack) \in 1 .. Len(p) /\ j = Len(stack) + (j - Len(stack))
      BY <1>2, <1>4, <1>6, <2>2
    <3> QED BY <1>2, <1>4, <1>8, <3>1
  <2> QED BY <1>4, <1>6, <2>1, <2>2
<1>9. pc # "result" => \A j \in 1 .. Floor : stack'[j] = stack[j]
  BY <1>4, <1>6
<1>10. Len(stack') = Len(stack) + (left' - left) + (OnTop' - OnTop) + (Reads' - Reads)
  BY <1>1, <1>2, <1>3, <1>4, <1>6, <1>7
<1>11. StackTypes' /\ PushingTypes' /\ ReadingTypes' /\ Ways'
  BY <1>1, <1>3, <1>4, <1>5 DEF StackTypes, PushingTypes, ReadingTypes, Ways, In, Out
<1> QED
  BY <1>1, <1>5, <1>8, <1>9, <1>10, <1>11 DEF Moves, In

\* An empty copy comes on top, and its call waits.
LEMMA PushEmptyMoves == ASSUME IInv, PushEmpty PROVE Moves
<1> DEFINE e == Empty(value)
           c == Pushing(value, DOMAIN Own(value), Len(stack) + 1)
<1>1. /\ doing = "fromV8" /\ stack' = Append(stack, e) /\ pushing' = Append(pushing, c)
      /\ doing' = "filling" /\ UNCHANGED <<promises, reading, left>>
  BY DEF PushEmpty
<1>2. e # Name
  <2>1. e.kind \in {"array", "object"} /\ Name.kind = "name"
    BY DEF Empty, Array, Object, Name
  <2> QED BY <2>1
<1>3. /\ IsSeq(stack) /\ left \in Nat /\ promises \in BOOLEAN /\ ReadingTypes /\ Ways
      /\ IsSeq(pushing) /\ \A i \in 1 .. Len(pushing) : IsPushing(pushing[i])
  BY DEF IInv, TypeInv, StackTypes, PushingTypes
<1>4. /\ OnTop \in Nat /\ Reads \in Nat /\ Len(stack) \in Nat /\ Floor \in Nat
      /\ pc # "result" => Len(stack) >= Floor + OnTop + Reads
  BY <1>1, Room DEF IsPushed
<1>5. IsPushing(c)
  BY <1>4, Waiting DEF IsPushing
<1> HIDE DEF e, c
<1>6. /\ IsSeq(stack') /\ Len(stack') = Len(stack) + 1
      /\ \A i \in 1 .. Len(stack) : stack'[i] = stack[i]
      /\ stack'[Len(stack) + 1] = e
  BY <1>1, <1>3, OneMore
<1>7. /\ IsSeq(pushing') /\ Len(pushing') = Len(pushing) + 1 /\ pushing' # << >>
      /\ \A i \in 1 .. Len(pushing) : pushing'[i] = pushing[i]
      /\ pushing'[Len(pushing) + 1] = c
  BY <1>1, <1>3, OneMore
<1>8. Len(pushing) \in Nat
  BY <1>3, Indices
<1>9. \A i \in 1 .. Len(pushing') : IsPushing(pushing'[i])
  BY <1>3, <1>5, <1>7, <1>8
<1>10. OnTop' = OnTop + 1 /\ Reads' = Reads
  BY <1>1, <1>7, <1>8 DEF OnTop, Reads
<1>11. StackTypes' /\ PushingTypes' /\ ReadingTypes' /\ Ways'
  BY <1>1, <1>3, <1>6, <1>7, <1>9 DEF StackTypes, PushingTypes, ReadingTypes, Ways, In, Out
<1>12. \A j \in 1 .. Len(stack') : stack'[j] = Name => j <= Len(stack) /\ stack[j] = Name
  BY <1>2, <1>4, <1>6
<1> QED
  BY <1>1, <1>3, <1>4, <1>6, <1>10, <1>11, <1>12 DEF Moves, In

\* A call for a part leaves the stack alone.
LEMMA PushPartMoves == ASSUME IInv, PushPart PROVE Moves
<1>1. /\ doing = "filling" /\ doing' = "fromV8"
      /\ UNCHANGED <<stack, promises, pushing, reading, left>>
  BY DEF PushPart, FromV8
<1>2. StackTypes /\ PushingTypes /\ ReadingTypes /\ Ways
  BY DEF IInv, TypeInv
<1>3. OnTop \in Nat /\ Reads \in Nat /\ Len(stack) \in Nat
  BY <1>1, Room DEF IsPushed
<1>4. OnTop' = OnTop /\ Reads' = Reads
  BY <1>1 DEF OnTop, Reads
<1> QED
  BY <1>1, <1>2, <1>3, <1>4 DEF Moves, StackTypes, PushingTypes, ReadingTypes, Ways, In, Out

\* The innermost waiting call of fromV8 and where its copy is.
LEMMA InnerPushing ==
  ASSUME IInv, pushing # << >>
  PROVE  /\ Len(pushing) \in Nat \ {0} /\ Inner(pushing) = pushing[Len(pushing)]
         /\ IsPushing(Inner(pushing))
         /\ Inner(pushing).at \in 1 .. Len(stack)
         /\ doing = "pushed" => Inner(pushing).at \in 1 .. (Len(stack) - 1)
         /\ Inner(pushing).at > Floor
         /\ Filling(Inner(pushing), stack[Inner(pushing).at])
         /\ \A i \in 1 .. Len(pushing) : i # Len(pushing) => pushing[i].at < Inner(pushing).at
<1>1. IsSeq(pushing) /\ \A i \in 1 .. Len(pushing) : IsPushing(pushing[i])
  BY DEF IInv, TypeInv, PushingTypes
<1>2. Len(pushing) \in Nat \ {0}
  BY <1>1, Indices
<1>3. Len(stack) \in Nat
  BY Indices DEF IInv, TypeInv, StackTypes
<1>4. Inner(pushing) = pushing[Len(pushing)]
  BY DEF Inner
<1>5. Len(pushing) \in 1 .. Len(pushing)
  BY <1>2
<1>6. Innermost(Inner(pushing), stack, doing, value)
  BY DEF IInv, FillInv, Fills
<1>7. IsPushing(Inner(pushing)) /\ Inner(pushing).at \in Nat \ {0}
  BY <1>1, <1>4, <1>5 DEF IsPushing
<1>8. /\ Inner(pushing).at \in 1 .. Len(stack)
      /\ doing = "pushed" => Inner(pushing).at \in 1 .. (Len(stack) - 1)
  BY <1>3, <1>6, <1>7 DEF Innermost
<1>9. /\ \A i \in 1 .. Len(pushing) :
           pushing[i].at > Floor /\ Filling(pushing[i], stack[pushing[i].at])
      /\ \A i, j \in 1 .. Len(pushing) : i < j => pushing[i].at < pushing[j].at
  BY DEF IInv, FillInv, Fills
<1>10. \A i \in 1 .. Len(pushing) : i # Len(pushing) => pushing[i].at < Inner(pushing).at
  BY <1>2, <1>4, <1>5, <1>9
<1> QED
  BY <1>2, <1>4, <1>5, <1>7, <1>8, <1>9, <1>10

\* A copy with one part more.
LEMMA WithFacts ==
  ASSUME NEW v, NEW f, NEW k, NEW x
  PROVE  /\ With(CopyOf(v, f), k, x) = CopyOf(v, Put(f, k, x))
         /\ CopyOf(v, f) # Name /\ Own(CopyOf(v, f)) = f
         /\ Empty(v) = CopyOf(v, << >>)
<1>1. CASE v.kind = "array"
  <2>1. CopyOf(v, f) = Array(f) /\ Array(f).kind = "array" /\ Array(f).items = f
    BY <1>1 DEF CopyOf, Array
  <2>2. [Array(f) EXCEPT !.items = Put(@, k, x)] = Array(Put(f, k, x))
    BY DEF Array
  <2>3. Array(f) # Name
    BY <2>1 DEF Name
  <2> QED BY <1>1, <2>1, <2>2, <2>3 DEF With, Own, Empty, CopyOf
<1>2. CASE v.kind # "array"
  <2>1. CopyOf(v, f) = Object(f) /\ Object(f).kind = "object" /\ Object(f).own = f
    BY <1>2 DEF CopyOf, Object
  <2>2. [Object(f) EXCEPT !.own = Put(@, k, x)] = Object(Put(f, k, x))
    BY DEF Object
  <2>3. Object(f) # Name
    BY <2>1 DEF Name
  <2>4. "own" \in DOMAIN Object(f)
    BY DEF Object
  <2> QED BY <1>2, <2>1, <2>2, <2>3, <2>4 DEF With, Own, Empty, CopyOf, NoProps
<1> QED
  BY <1>1, <1>2

\* A waiting call is replaced.
LEMMA Replaced ==
  ASSUME NEW s, IsSeq(s), s # << >>, NEW x
  PROVE  /\ IsSeq(Replace(s, x)) /\ Len(Replace(s, x)) = Len(s) /\ Replace(s, x) # << >>
         /\ Inner(Replace(s, x)) = x /\ Len(s) \in Nat \ {0}
         /\ \A i \in 1 .. Len(s) : Replace(s, x)[i] = IF i = Len(s) THEN x ELSE s[i]
<1>1. Len(s) \in Nat \ {0} /\ Len(s) \in 1 .. Len(s)
  BY Indices
<1>2. /\ IsSeq(Replace(s, x)) /\ Len(Replace(s, x)) = Len(s) /\ Replace(s, x)[Len(s)] = x
      /\ \A i \in 1 .. Len(s) : i # Len(s) => Replace(s, x)[i] = s[i]
  BY <1>1, Changed DEF Replace, Change
<1>3. Replace(s, x) # << >>
  BY <1>1, <1>2, Indices
<1> QED
  BY <1>1, <1>2, <1>3 DEF Inner

\* A waiting call goes on and returns.
LEMMA WentOut ==
  ASSUME NEW s, IsSeq(s), s # << >>
  PROVE  /\ IsSeq(Outer(s)) /\ Len(Outer(s)) = Len(s) - 1 /\ Len(s) \in Nat \ {0}
         /\ \A i \in 1 .. Len(s) - 1 : Outer(s)[i] = s[i]
         /\ (Outer(s) = << >>) <=> (Len(s) = 1)
<1>1. Len(s) \in Nat \ {0} /\ Len(s) - 1 \in 0 .. Len(s)
  BY Indices
<1>2. /\ IsSeq(Outer(s)) /\ Len(Outer(s)) = Len(s) - 1
      /\ \A i \in 1 .. Len(s) - 1 : Outer(s)[i] = s[i]
  BY <1>1, Cut DEF Outer
<1>3. (Outer(s) = << >>) <=> (Len(s) - 1 = 0)
  BY <1>2, Indices
<1> QED
  BY <1>1, <1>2, <1>3

\* What SetPart makes of the stack: without its top, and a copy has one part more.
LEMMA PartSet ==
  ASSUME IInv, SetPart
  PROVE  LET c == Inner(pushing) IN
         /\ IsSeq(stack') /\ Len(stack') = Len(stack) - 1
         /\ c.at \in 1 .. Len(stack')
         /\ stack'[c.at] = With(stack[c.at], Key(c), Top(stack))
         /\ \A i \in 1 .. Len(stack') : i # c.at => stack'[i] = stack[i]
<1> DEFINE c == Inner(pushing)
           d == Drop(stack, 1)
           w == With(d[c.at], Key(c), Top(stack))
<1>1. doing = "pushed" /\ pushing # << >> /\ stack' = [d EXCEPT ![c.at] = w]
  BY DEF SetPart
<1>2. c.at \in 1 .. (Len(stack) - 1)
  BY <1>1, InnerPushing
<1>3. IsSeq(stack) /\ Len(stack) \in Nat
  BY Indices DEF IInv, TypeInv, StackTypes
<1>4. 1 \in 0 .. Len(stack)
  BY <1>2, <1>3
<1>5. /\ IsSeq(d) /\ Len(d) = Len(stack) - 1
      /\ \A i \in 1 .. Len(stack) - 1 : d[i] = stack[i]
  BY <1>3, <1>4, Dropped
<1>6. c.at \in 1 .. Len(d)
  BY <1>2, <1>5
<1>7. w = With(stack[c.at], Key(c), Top(stack))
  BY <1>2, <1>5
<1> HIDE DEF d, w, c
<1>8. /\ IsSeq(stack') /\ Len(stack') = Len(d) /\ stack'[c.at] = w
      /\ \A i \in 1 .. Len(d) : i # c.at => stack'[i] = d[i]
  <2>1. stack' = Change(d, c.at, w)
    BY <1>1 DEF Change
  <2> QED BY <1>5, <1>6, <2>1, Changed
<1> QED
  BY <1>5, <1>6, <1>7, <1>8 DEF c

\* SetPart pops what it puts into the copy.
LEMMA SetPartMoves == ASSUME IInv, SetPart PROVE Moves
<1> DEFINE c == Inner(pushing)
           n == [c EXCEPT !.rest = @ \ {Key(c)}]
           x == Top(stack)
<1>1. /\ doing = "pushed" /\ pushing # << >> /\ pushing' = Replace(pushing, n)
      /\ doing' = "filling" /\ UNCHANGED <<promises, reading, left>>
  BY DEF SetPart
<1>2. /\ IsPushing(c) /\ c.at > Floor
      /\ Filling(c, stack[c.at])
  BY <1>1, InnerPushing
<1>3. /\ IsSeq(stack') /\ Len(stack') = Len(stack) - 1
      /\ c.at \in 1 .. Len(stack')
      /\ stack'[c.at] = With(stack[c.at], Key(c), x)
      /\ \A i \in 1 .. Len(stack') : i # c.at => stack'[i] = stack[i]
  BY PartSet
<1>4. IsPushing(n)
  BY <1>2 DEF IsPushing, Pushing
<1>5. stack'[c.at] # Name
  <2>1. stack[c.at] = CopyOf(c.of, Own(stack[c.at]))
    BY <1>2 DEF Filling
  <2>2. With(CopyOf(c.of, Own(stack[c.at])), Key(c), x) # Name
    BY WithFacts
  <2> QED BY <1>3, <2>1, <2>2
<1> HIDE DEF c, n, x
<1>6. /\ IsSeq(stack) /\ left \in Nat /\ promises \in BOOLEAN /\ ReadingTypes /\ Ways
      /\ IsSeq(pushing) /\ \A i \in 1 .. Len(pushing) : IsPushing(pushing[i])
  BY DEF IInv, TypeInv, StackTypes, PushingTypes
<1>7. /\ OnTop \in Nat /\ Reads \in Nat /\ Len(stack) \in Nat /\ Floor \in Nat
  BY <1>1, Room DEF IsPushed
<1>8. /\ IsSeq(pushing') /\ Len(pushing') = Len(pushing) /\ pushing' # << >>
      /\ \A i \in 1 .. Len(pushing) : pushing'[i] = IF i = Len(pushing) THEN n ELSE pushing[i]
      /\ Len(pushing) \in Nat
  BY <1>1, <1>6, Replaced
<1>9. \A i \in 1 .. Len(pushing') : IsPushing(pushing'[i])
  BY <1>4, <1>6, <1>8
<1>10. OnTop' = OnTop - 1 /\ Reads' = Reads
  BY <1>1, <1>8 DEF OnTop, Reads
<1>11. StackTypes' /\ PushingTypes' /\ ReadingTypes' /\ Ways'
  BY <1>1, <1>3, <1>6, <1>8, <1>9 DEF StackTypes, PushingTypes, ReadingTypes, Ways, In, Out
<1>12. \A j \in 1 .. Len(stack') : stack'[j] = Name => j <= Len(stack) /\ stack[j] = Name
  BY <1>3, <1>5, <1>7
<1>13. \A j \in 1 .. Floor : stack'[j] = stack[j]
  <2>1. c.at \in 1 .. Len(stack') /\ c.at > Floor /\ Len(stack') \in Nat
    BY <1>2, <1>3, <1>7
  <2> QED BY <1>3, <1>7, <2>1
<1>14. Len(stack') = Len(stack) + (left' - left) + (OnTop' - OnTop) + (Reads' - Reads)
  BY <1>1, <1>3, <1>6, <1>7, <1>10
<1> QED
  BY <1>1, <1>6, <1>11, <1>12, <1>13, <1>14 DEF Moves, In

\* A call of fromV8 that returns leaves the stack alone.
LEMMA FilledMoves == ASSUME IInv, Filled PROVE Moves
<1>1. /\ doing = "filling" /\ doing' = "pushed" /\ pushing' = Outer(pushing)
      /\ UNCHANGED <<stack, promises, reading, left>>
  BY DEF Filled
<1>2. /\ StackTypes /\ ReadingTypes /\ Ways /\ left \in Nat
      /\ IsSeq(pushing) /\ \A i \in 1 .. Len(pushing) : IsPushing(pushing[i])
  BY DEF IInv, TypeInv, StackTypes, PushingTypes
<1>3. pushing # << >>
  BY <1>1, <1>2 DEF Ways
<1>4. /\ IsSeq(pushing') /\ Len(pushing') = Len(pushing) - 1 /\ Len(pushing) \in Nat \ {0}
      /\ \A i \in 1 .. Len(pushing) - 1 : pushing'[i] = pushing[i]
  BY <1>1, <1>2, <1>3, WentOut
<1>5. \A i \in 1 .. Len(pushing') : IsPushing(pushing'[i])
  BY <1>2, <1>4
<1>6. OnTop \in Nat /\ Reads \in Nat /\ Len(stack) \in Nat
  BY <1>1, Room DEF IsPushed
<1>7. OnTop' = OnTop /\ Reads' = Reads
  BY <1>1, <1>4 DEF OnTop, Reads
<1>8. StackTypes' /\ PushingTypes' /\ ReadingTypes' /\ Ways'
  BY <1>1, <1>2, <1>4, <1>5 DEF StackTypes, PushingTypes, ReadingTypes, Ways, In, Out
<1> QED
  BY <1>1, <1>2, <1>6, <1>7, <1>8 DEF Moves, In

\* The innermost waiting call of toV8.
LEMMA InnerReading ==
  ASSUME IInv, reading # << >>
  PROVE  /\ Len(reading) \in Nat \ {0} /\ Inner(reading) = reading[Len(reading)]
         /\ IsReading(Inner(reading)) /\ HasParts(Inner(reading).of)
         /\ Inner(reading).of \in Fit => GotSoFar(Inner(reading))
<1>1. IsSeq(reading) /\ \A i \in 1 .. Len(reading) : IsReading(reading[i])
  BY DEF IInv, TypeInv, ReadingTypes
<1>2. Len(reading) \in Nat \ {0} /\ Len(reading) \in 1 .. Len(reading)
  BY <1>1, Indices
<1>3. \A i \in 1 .. Len(reading) :
        HasParts(reading[i].of) /\ (reading[i].of \in Fit => GotSoFar(reading[i]))
  BY DEF IInv, ReadInv, Readings
<1> QED
  BY <1>1, <1>2, <1>3 DEF Inner

\* What has no parts is made where it is.
LEMMA MakeWholeMoves == ASSUME IInv, MakeWhole PROVE Moves
<1>1. /\ doing = "toV8" /\ doing' = "made"
      /\ UNCHANGED <<stack, promises, pushing, reading, left>>
  BY DEF MakeWhole
<1>2. StackTypes /\ PushingTypes /\ ReadingTypes /\ Ways /\ left \in Nat
  BY DEF IInv, TypeInv, StackTypes
<1>3. OnTop \in Nat /\ Reads \in Nat /\ Len(stack) \in Nat
  BY <1>1, Room DEF IsPushed
<1>4. OnTop' = OnTop /\ Reads' = Reads
  BY <1>1 DEF OnTop, Reads
<1> QED
  BY <1>1, <1>2, <1>3, <1>4 DEF Moves, StackTypes, PushingTypes, ReadingTypes, Ways, In, Out

\* A call of toV8 puts its enumerator on the stack.
LEMMA EnumerateMoves == ASSUME IInv, Enumerate PROVE Moves
<1> DEFINE c == Reading(value, DOMAIN Enumerated(value), << >>)
<1>1. /\ doing = "toV8" /\ stack' = Append(stack, Enumerator) /\ reading' = Append(reading, c)
      /\ doing' = "enumerating" /\ UNCHANGED <<promises, pushing, left>>
  BY DEF Enumerate
<1>2. /\ IsSeq(stack) /\ left \in Nat /\ promises \in BOOLEAN /\ PushingTypes /\ Ways
      /\ IsSeq(reading) /\ \A i \in 1 .. Len(reading) : IsReading(reading[i])
  BY DEF IInv, TypeInv, StackTypes, ReadingTypes
<1>3. /\ OnTop \in Nat /\ Reads \in Nat /\ Len(stack) \in Nat /\ Floor \in Nat
      /\ pc # "result" => Len(stack) >= Floor + OnTop + Reads
  BY <1>1, Room DEF IsPushed
<1>4. IsReading(c)
  BY Waiting DEF IsReading
<1> HIDE DEF c
<1>5. /\ IsSeq(stack') /\ Len(stack') = Len(stack) + 1
      /\ \A i \in 1 .. Len(stack) : stack'[i] = stack[i]
  BY <1>1, <1>2, OneMore
<1>6. /\ IsSeq(reading') /\ Len(reading') = Len(reading) + 1 /\ reading' # << >>
      /\ \A i \in 1 .. Len(reading) : reading'[i] = reading[i]
      /\ reading'[Len(reading) + 1] = c
  BY <1>1, <1>2, OneMore
<1>7. Len(reading) \in Nat
  BY <1>2, Indices
<1>8. \A i \in 1 .. Len(reading') : IsReading(reading'[i])
  BY <1>2, <1>4, <1>6, <1>7
<1>9. OnTop' = OnTop /\ Reads' = Reads + 1
  BY <1>1, <1>6, <1>7 DEF OnTop, Reads
<1>10. StackTypes' /\ PushingTypes' /\ ReadingTypes' /\ Ways'
  BY <1>1, <1>2, <1>5, <1>6, <1>8 DEF StackTypes, PushingTypes, ReadingTypes, Ways, In, Out
<1> QED
  BY <1>1, <1>2, <1>3, <1>5, <1>9, <1>10 DEF Moves, In, Out

\* The key and the value that DukEnum is at come on top.
LEMMA ReadPartMoves == ASSUME IInv, ReadPart PROVE Moves
<1> DEFINE part == Enumerated(Inner(reading).of)[Key(Inner(reading))]
           two == <<KeyOnStack, part>>
<1>1. /\ doing = "enumerating" /\ stack' = stack \o two /\ doing' = "toV8"
      /\ UNCHANGED <<promises, pushing, reading, left>>
  BY DEF ReadPart, ToV8
<1>2. IsSeq(two) /\ Len(two) = 2
  <2> HIDE DEF part
  <2>1. two \in Seq({KeyOnStack, part}) /\ Len(two) = 2
    OBVIOUS
  <2> QED BY <2>1, AnySeq
<1> HIDE DEF two, part
<1>3. IsSeq(stack) /\ left \in Nat /\ promises \in BOOLEAN /\ PushingTypes /\ ReadingTypes /\ Ways
  BY DEF IInv, TypeInv, StackTypes
<1>4. /\ OnTop \in Nat /\ Reads \in Nat /\ Len(stack) \in Nat /\ Floor \in Nat
      /\ pc # "result" => Len(stack) >= Floor + OnTop + Reads
  BY <1>1, Room DEF IsPushed
<1>5. /\ IsSeq(stack') /\ Len(stack') = Len(stack) + 2
      /\ \A i \in 1 .. Len(stack) : stack'[i] = stack[i]
  <2>1. stack' = stack \o two
    BY <1>1
  <2>2. IsSeq(stack) /\ IsSeq(two)
    BY <1>2, <1>3
  <2>3. /\ IsSeq(stack \o two) /\ Len(stack \o two) = Len(stack) + Len(two)
        /\ \A i \in 1 .. Len(stack) : (stack \o two)[i] = stack[i]
    BY <2>2, Joined
  <2> QED BY <1>2, <2>1, <2>3
<1>6. Len(reading) \in Nat
  BY <1>3, Indices DEF ReadingTypes
<1>7. OnTop' = OnTop /\ Reads' = Reads + 2
  BY <1>1, <1>6 DEF OnTop, Reads
<1>8. StackTypes' /\ PushingTypes' /\ ReadingTypes' /\ Ways'
  BY <1>1, <1>3, <1>5 DEF StackTypes, PushingTypes, ReadingTypes, Ways, In, Out
<1> QED
  BY <1>1, <1>3, <1>4, <1>5, <1>7, <1>8 DEF Moves, In, Out

\* They go when the value has been copied.
LEMMA KeepPartMoves == ASSUME IInv, KeepPart PROVE Moves
<1> DEFINE c == Inner(reading)
           got == IF c.of.kind = "array" THEN Append(c.got, value) ELSE Put(c.got, Key(c), value)
           n == Reading(c.of, c.rest \ {Key(c)}, got)
<1>1. /\ doing = "made" /\ reading # << >> /\ reading' = Replace(reading, n)
      /\ stack' = Drop(stack, 2) /\ doing' = "enumerating"
      /\ UNCHANGED <<promises, pushing, left>>
  BY DEF KeepPart
<1>2. IsReading(n)
  BY Waiting DEF IsReading
<1> HIDE DEF n
<1>3. /\ IsSeq(stack) /\ left \in Nat /\ promises \in BOOLEAN /\ PushingTypes /\ Ways
      /\ IsSeq(reading) /\ \A i \in 1 .. Len(reading) : IsReading(reading[i])
  BY DEF IInv, TypeInv, StackTypes, ReadingTypes
<1>4. /\ OnTop \in Nat /\ Reads \in Nat /\ Len(stack) \in Nat /\ Floor \in Nat
      /\ Len(stack) >= OnTop + Reads
      /\ pc # "result" => Len(stack) >= Floor + OnTop + Reads
  BY <1>1, Room DEF IsPushed
<1>5. /\ IsSeq(reading') /\ Len(reading') = Len(reading) /\ reading' # << >>
      /\ \A i \in 1 .. Len(reading) : reading'[i] = IF i = Len(reading) THEN n ELSE reading[i]
      /\ Len(reading) \in Nat \ {0}
  BY <1>1, <1>3, Replaced
<1>6. Reads >= 3
  BY <1>1, <1>5 DEF Reads
<1>7. OnTop' = OnTop /\ Reads' = Reads - 2
  BY <1>1, <1>5 DEF OnTop, Reads
<1>8. 2 \in 0 .. Len(stack)
  BY <1>4, <1>6
<1>9. /\ IsSeq(stack') /\ Len(stack') = Len(stack) - 2
      /\ \A i \in 1 .. Len(stack) - 2 : stack'[i] = stack[i]
  BY <1>1, <1>3, <1>8, Dropped
<1>10. \A i \in 1 .. Len(reading') : IsReading(reading'[i])
  BY <1>2, <1>3, <1>5
<1>11. StackTypes' /\ PushingTypes' /\ ReadingTypes' /\ Ways'
  BY <1>1, <1>3, <1>5, <1>9, <1>10 DEF StackTypes, PushingTypes, ReadingTypes, Ways, In, Out
<1>12. pc # "result" => \A j \in 1 .. Floor : stack'[j] = stack[j]
  BY <1>4, <1>6, <1>9
<1>13. /\ left' >= left /\ doing \notin In /\ doing \in Out /\ doing' \in Out
       /\ Len(stack') = Len(stack) + (left' - left) + (OnTop' - OnTop) + (Reads' - Reads)
  <2>1. left' = left /\ left \in Nat
    BY <1>1, <1>3
  <2>2. /\ Len(stack') = Len(stack) + (left' - left) + (OnTop' - OnTop) + (Reads' - Reads)
        /\ left' >= left
    BY <1>4, <1>7, <1>9, <2>1
  <2> QED BY <1>1, <2>2 DEF In, Out
<1> QED
  BY <1>11, <1>12, <1>13 DEF Moves

\* ~DukEnum pops the enumerator.
LEMMA AllReadMoves == ASSUME IInv, AllRead PROVE Moves
<1>1. /\ doing = "enumerating" /\ doing' = "made" /\ reading' = Outer(reading)
      /\ stack' = Drop(stack, 1) /\ UNCHANGED <<promises, pushing, left>>
  BY DEF AllRead
<1>2. /\ IsSeq(stack) /\ left \in Nat /\ promises \in BOOLEAN /\ PushingTypes /\ Ways
      /\ IsSeq(reading) /\ \A i \in 1 .. Len(reading) : IsReading(reading[i])
  BY DEF IInv, TypeInv, StackTypes, ReadingTypes
<1>3. reading # << >>
  BY <1>1, <1>2 DEF Ways
<1>4. /\ OnTop \in Nat /\ Reads \in Nat /\ Len(stack) \in Nat /\ Floor \in Nat
      /\ Len(stack) >= OnTop + Reads
      /\ pc # "result" => Len(stack) >= Floor + OnTop + Reads
  BY <1>1, Room DEF IsPushed
<1>5. /\ IsSeq(reading') /\ Len(reading') = Len(reading) - 1 /\ Len(reading) \in Nat \ {0}
      /\ \A i \in 1 .. Len(reading) - 1 : reading'[i] = reading[i]
  BY <1>1, <1>2, <1>3, WentOut
<1>6. Reads >= 1
  BY <1>1, <1>5 DEF Reads
<1>7. OnTop' = OnTop /\ Reads' = Reads - 1
  BY <1>1, <1>5 DEF OnTop, Reads
<1>8. 1 \in 0 .. Len(stack)
  BY <1>4, <1>6
<1>9. /\ IsSeq(stack') /\ Len(stack') = Len(stack) - 1
      /\ \A i \in 1 .. Len(stack) - 1 : stack'[i] = stack[i]
  BY <1>1, <1>2, <1>8, Dropped
<1>10. \A i \in 1 .. Len(reading') : IsReading(reading'[i])
  BY <1>2, <1>5
<1>11. StackTypes' /\ PushingTypes' /\ ReadingTypes' /\ Ways'
  BY <1>1, <1>2, <1>5, <1>9, <1>10 DEF StackTypes, PushingTypes, ReadingTypes, Ways, In, Out
<1>12. pc # "result" => \A j \in 1 .. Floor : stack'[j] = stack[j]
  BY <1>4, <1>6, <1>9
<1>13. /\ left' >= left /\ doing \notin In /\ doing \in Out /\ doing' \in Out
       /\ Len(stack') = Len(stack) + (left' - left) + (OnTop' - OnTop) + (Reads' - Reads)
  BY <1>1, <1>2, <1>4, <1>7, <1>9 DEF In, Out
<1> QED
  BY <1>11, <1>12, <1>13 DEF Moves

\* Every step.
LEMMA ConvertMoves == ASSUME IInv, Convert PROVE Moves
BY PushWholeMoves, PushEmptyMoves, PushPartMoves, SetPartMoves, FilledMoves,
   MakeWholeMoves, EnumerateMoves, ReadPartMoves, KeepPartMoves, AllReadMoves DEF Convert

--------------------------------------------------------------------------------
(* The waiting calls of fromV8.                                               *)

\* The next part of what is to be kept: it is to be kept too, and the items of an array
\* come in order.
LEMMA FitPart ==
  ASSUME NEW c, c.of \in Fit, promises \in BOOLEAN, ~PushedWhole(c.of) \/ HasParts(c.of),
         Remaining(c), c.rest # {}
  PROVE  /\ Key(c) \in c.rest /\ Key(c) \in DOMAIN Own(c.of)
         /\ Own(c.of)[Key(c)] \in Fit /\ Item(c.of, Key(c)) = Own(c.of)[Key(c)]
         /\ c.of.kind = "array" =>
              /\ Key(c) \in Nat \ {0} /\ c.rest = Key(c) .. Len(Own(c.of))
              /\ c.rest \ {Key(c)} = (Key(c) + 1) .. Len(Own(c.of))
<1>1. /\ c.of.kind = "array" => Own(c.of) \in Seq(Fit)
      /\ \A k \in DOMAIN Own(c.of) : Own(c.of)[k] \in Fit /\ Item(c.of, k) = Own(c.of)[k]
  BY FitParts
<1>2. c.rest \subseteq DOMAIN Own(c.of)
  BY DEF Remaining
<1>3. CASE c.of.kind = "array"
  <2>1. PICK m \in Nat \ {0} : c.rest = m .. Len(Own(c.of))
    BY <1>3 DEF Remaining
  <2>2. Len(Own(c.of)) \in Nat
    BY <1>1, <1>3, LenProperties
  <2>3. m \in c.rest /\ \A j \in c.rest : m <= j
    BY <2>1, <2>2
  <2>4. \E k \in c.rest : c.of.kind = "array" => \A j \in c.rest : k <= j
    BY <2>3
  <2>5. Key(c) \in c.rest /\ \A j \in c.rest : Key(c) <= j
    BY <1>3, <2>4 DEF Key
  <2>6. Key(c) = m
    BY <2>1, <2>2, <2>3, <2>5
  <2>7. c.rest \ {m} = (m + 1) .. Len(Own(c.of))
    BY <2>1, <2>2
  <2> QED BY <1>1, <1>2, <1>3, <2>1, <2>5, <2>6, <2>7
<1>4. CASE c.of.kind # "array"
  <2>1. Key(c) \in c.rest
    BY <1>4 DEF Key
  <2> QED BY <1>1, <1>2, <1>4, <2>1
<1> QED
  BY <1>3, <1>4

\* What has no parts is an empty sequence.
LEMMA NoParts ==
  ASSUME NEW f, NEW S, S = {}
  PROVE  [k \in S |-> f[k]] = << >>
<1> DEFINE g == [k \in S |-> f[k]]
<1>1. g \in [1 .. 0 -> {}]
  OBVIOUS
<1> QED
  BY <1>1, SMT

\* In a heap that keeps its promises or lack of them.
LEMMA SameFit ==
  ASSUME UNCHANGED <<promises, methodVars>>
  PROVE  /\ Fit' = Fit /\ Floor' = Floor
         /\ Fills(pushing', stack', Floor, doing', value') => FillInv'
         /\ Readings(reading', doing', value') => ReadInv'
<1>1. Fit' = Fit
  BY DEF Fit
<1>2. Floor' = Floor
  BY DEF Floor, methodVars
<1>3. Fills(pushing', stack', Floor, doing', value') => FillInv'
  BY <1>1, <1>2 DEF FillInv, Fills, Filling, Nested, Innermost
<1>4. Readings(reading', doing', value') => ReadInv'
  BY <1>1 DEF ReadInv, Readings, GotSoFar
<1> QED
  BY <1>1, <1>2, <1>3, <1>4

\* With no calls there is nothing to say.
LEMMA NoCalls ==
  ASSUME NEW s, NEW floor, NEW about, NEW v
  PROVE  Fills(<< >>, s, floor, about, v) /\ Readings(<< >>, about, v)
BY DEF Fills, Readings

\* The conversion goes in and is not finished, so that Floor is known.
LEMMA GoesIn ==
  ASSUME IInv, doing \in In, ~IsPushed
  PROVE  /\ Len(stack) \in Nat /\ Floor \in Nat /\ Len(stack) >= Floor + OnTop /\ OnTop \in Nat
         /\ IsSeq(stack) /\ IsSeq(pushing) /\ promises \in BOOLEAN
         /\ Len(pushing) \in Nat /\ OnTop >= Len(pushing)
<1>1. pc # "result" /\ doing # "idle"
  BY DEF IInv, PcInv, In, Out
<1>2. reading = << >> /\ IsSeq(stack) /\ IsSeq(pushing) /\ promises \in BOOLEAN
  BY DEF IInv, TypeInv, Ways, In, Out, StackTypes, PushingTypes
<1>3. Len(pushing) \in Nat
  BY <1>2, Indices
<1>4. Reads \in Nat /\ OnTop >= Len(pushing)
  BY <1>1, <1>3, Room DEF OnTop
<1> QED
  BY <1>1, <1>2, <1>3, <1>4, Room

\* A copy that is pushed whole lies next to the one that it is part of.
LEMMA PushWholeFills == ASSUME IInv, PushWhole PROVE Fills(pushing', stack', Floor, doing', value')
<1> DEFINE p == Pushed(value)
           c == Inner(pushing)
<1>1. /\ doing = "fromV8" /\ PushedWhole(value) /\ stack' = stack \o p /\ doing' = "pushed"
      /\ pushing' = pushing
  BY DEF PushWhole
<1>2. IsSeq(p) /\ Len(p) \in {1, 2}
  BY <1>1, PushedFacts
<1>3. /\ Len(stack) \in Nat /\ IsSeq(stack) /\ IsSeq(pushing) /\ promises \in BOOLEAN
  BY <1>1, GoesIn DEF In, IsPushed
<1>4. /\ IsSeq(stack') /\ Len(stack') = Len(stack) + Len(p)
      /\ \A i \in 1 .. Len(stack) : stack'[i] = stack[i]
      /\ \A i \in 1 .. Len(p) : stack'[Len(stack) + i] = p[i]
  <2> HIDE DEF p
  <2> QED BY <1>1, <1>2, <1>3, Joined
<1>5. CASE pushing = << >>
  BY <1>1, <1>5, NoCalls
<1>6. CASE pushing # << >>
  <2>1. /\ c.at \in 1 .. Len(stack) /\ Filling(c, stack[c.at])
        /\ \A i \in 1 .. Len(pushing) : i # Len(pushing) => pushing[i].at < c.at
        /\ c = pushing[Len(pushing)] /\ Len(pushing) \in Nat \ {0}
        /\ \A i \in 1 .. Len(pushing) : IsPushing(pushing[i])
    BY <1>6, InnerPushing DEF IInv, TypeInv, PushingTypes
  <2>2. Fills(pushing, stack, Floor, doing, value)
    BY DEF IInv, FillInv
  <2>3. Innermost(c, stack, doing, value)
    BY <1>6, <2>2 DEF Fills
  <2>4. ASSUME NEW i \in 1 .. Len(pushing)
        PROVE  stack'[pushing[i].at] = stack[pushing[i].at]
    <3>1. pushing[i].at \in Nat \ {0} /\ pushing[i].at <= c.at
      BY <2>1 DEF IsPushing
    <3> HIDE DEF p, c
    <3>2. PICK a \in Nat \ {0} : a = pushing[i].at
      BY <3>1
    <3>3. a \in 1 .. Len(stack)
      BY <1>3, <2>1, <3>1, <3>2
    <3> QED BY <1>4, <3>2, <3>3
  <2>5. c.rest # {} /\ value = Item(c.of, Key(c))
    BY <1>1, <2>3 DEF Innermost
  <2>6. ASSUME c.of \in Fit
        PROVE  Len(stack') = c.at + 1 /\ Top(stack') = Item(c.of, Key(c))
    <3>1. Len(stack) = c.at
      BY <1>1, <2>1, <2>3, <2>6 DEF Innermost
    <3>2. ~PushedWhole(c.of) /\ Remaining(c)
      BY <2>1, <2>6 DEF Filling
    <3>3. value \in Fit
      BY <1>3, <2>5, <2>6, <3>2, FitPart
    <3>4. p = <<value>>
      BY <1>1, <1>3, <3>3, FitWhole
    <3>5. Len(stack') = Len(stack) + 1 /\ stack'[Len(stack) + 1] = value
      BY <1>4, <3>4
    <3> QED BY <2>5, <3>1, <3>5 DEF Top
  <2>7. c.at + 1 <= Len(stack')
    <3> HIDE DEF p, c
    <3>1. c.at <= Len(stack) /\ c.at \in Nat
      BY <1>3, <2>1
    <3>2. Len(stack') = Len(stack) + 1 \/ Len(stack') = Len(stack) + 2
      BY <1>2, <1>4
    <3> QED BY <1>3, <3>1, <3>2
  <2>8. Innermost(c, stack', "pushed", value')
    BY <2>5, <2>6, <2>7 DEF Innermost
  <2> QED BY <1>1, <2>2, <2>4, <2>8 DEF Fills
<1> QED
  BY <1>5, <1>6

\* A new copy lies next to the one that it is part of, and has nothing yet.
LEMMA PushEmptyFills == ASSUME IInv, PushEmpty PROVE Fills(pushing', stack', Floor, doing', value')
<1> DEFINE e == Empty(value)
           n == Pushing(value, DOMAIN Own(value), Len(stack) + 1)
<1>1. /\ doing = "fromV8" /\ ~PushedWhole(value) /\ stack' = Append(stack, e)
      /\ pushing' = Append(pushing, n) /\ doing' = "filling"
  BY DEF PushEmpty
<1>2. /\ Len(stack) \in Nat /\ IsSeq(stack) /\ IsSeq(pushing) /\ promises \in BOOLEAN
      /\ Floor \in Nat /\ Len(stack) >= Floor /\ Len(pushing) \in Nat
  BY <1>1, GoesIn DEF In, IsPushed
<1>3. /\ n.of = value /\ n.rest = DOMAIN Own(value) /\ n.at = Len(stack) + 1
  BY Waiting
<1>4. /\ Len(stack') = Len(stack) + 1
      /\ \A i \in 1 .. Len(stack) : stack'[i] = stack[i]
      /\ stack'[Len(stack) + 1] = e
  BY <1>1, <1>2, OneMore
<1>5. /\ IsSeq(pushing') /\ Len(pushing') = Len(pushing) + 1 /\ pushing' # << >>
      /\ \A i \in 1 .. Len(pushing) : pushing'[i] = pushing[i]
      /\ pushing'[Len(pushing) + 1] = n
  <2> HIDE DEF n
  <2> QED BY <1>1, <1>2, OneMore
<1>6. Filling(n, e)
  <2>1. e = CopyOf(value, << >>) /\ Own(e) = << >>
    BY WithFacts
  <2>2. ASSUME value \in Fit
        PROVE  Remaining(n) /\ Own(e) = [k \in DOMAIN Own(value) \ n.rest |-> Own(value)[k]]
    <3>1. value.kind = "array" => Own(value) \in Seq(Fit)
      BY <1>1, <1>2, <2>2, FitParts
    <3>2. ASSUME value.kind = "array"
          PROVE  n.rest = 1 .. Len(Own(value))
      BY <1>3, <3>1, <3>2, LenProperties
    <3>3. Remaining(n)
      BY <1>3, <3>2 DEF Remaining
    <3>4. DOMAIN Own(value) \ n.rest = {}
      BY <1>3
    <3> QED BY <2>1, <3>3, <3>4, NoParts
  <2> QED BY <1>1, <1>3, <2>1, <2>2 DEF Filling
<1>7. Fills(pushing, stack, Floor, doing, value)
  BY DEF IInv, FillInv
<1>8. \A i \in 1 .. Len(pushing) :
        /\ pushing[i].at \in 1 .. Len(stack)
        /\ pushing[i].at > Floor /\ Filling(pushing[i], stack[pushing[i].at])
  <2>1. CASE pushing = << >>
    BY <2>1
  <2>2. CASE pushing # << >>
    <3>1. /\ Inner(pushing).at \in 1 .. Len(stack)
          /\ \A i \in 1 .. Len(pushing) : i # Len(pushing) => pushing[i].at < Inner(pushing).at
          /\ Inner(pushing) = pushing[Len(pushing)]
          /\ \A i \in 1 .. Len(pushing) : pushing[i].at \in Nat \ {0}
      BY <2>2, InnerPushing DEF IInv, TypeInv, PushingTypes, IsPushing
    <3> QED BY <1>2, <1>7, <3>1 DEF Fills
  <2> QED BY <2>1, <2>2
<1>9. ASSUME NEW i \in 1 .. Len(pushing')
      PROVE  pushing'[i].at > Floor /\ Filling(pushing'[i], stack'[pushing'[i].at])
  <2>1. CASE i \in 1 .. Len(pushing)
    BY <1>4, <1>5, <1>8, <2>1
  <2>2. CASE i = Len(pushing) + 1
    <3> HIDE DEF n, e
    <3> QED BY <1>2, <1>3, <1>4, <1>5, <1>6, <2>2
  <2> QED BY <1>2, <1>5, <2>1, <2>2
<1>10. ASSUME NEW i \in 1 .. Len(pushing'), NEW j \in 1 .. Len(pushing'), i < j
       PROVE  pushing'[i].at < pushing'[j].at
  <2>1. i \in 1 .. Len(pushing) /\ pushing'[i] = pushing[i]
    BY <1>2, <1>5, <1>10
  <2>2. CASE j \in 1 .. Len(pushing)
    BY <1>5, <1>7, <1>10, <2>1, <2>2 DEF Fills
  <2>3. CASE j = Len(pushing) + 1
    <3>1. pushing'[j].at = Len(stack) + 1
      BY <1>3, <1>5, <2>3
    <3> QED BY <1>2, <1>8, <2>1, <3>1
  <2> QED BY <1>2, <1>5, <2>2, <2>3
<1>11. ASSUME NEW i \in 1 .. Len(pushing'), i < Len(pushing')
       PROVE  Nested(pushing'[i], pushing'[i + 1])
  <2>1. i \in 1 .. Len(pushing) /\ pushing'[i] = pushing[i]
    BY <1>2, <1>5, <1>11
  <2>2. CASE i < Len(pushing)
    <3>1. i + 1 \in 1 .. Len(pushing)
      BY <1>2, <2>1, <2>2
    <3> QED BY <1>5, <1>7, <2>1, <2>2, <3>1 DEF Fills
  <2>3. CASE i = Len(pushing)
    <3>1. pushing # << >> /\ Inner(pushing) = pushing'[i]
      BY <1>2, <2>1, <2>3, Indices DEF Inner
    <3>2. Innermost(Inner(pushing), stack, doing, value)
      BY <1>7, <3>1 DEF Fills
    <3>3. pushing'[i + 1] = n
      BY <1>5, <2>3
    <3>4. Nested(Inner(pushing), n)
      <4> HIDE DEF n
      <4>1. Inner(pushing).at \in Nat
        BY <1>8, <2>1, <3>1
      <4> QED BY <1>1, <1>2, <1>3, <3>2, <4>1 DEF Innermost, Nested
    <3> QED BY <3>1, <3>3, <3>4
  <2> QED BY <1>2, <2>1, <2>2, <2>3
<1>12. Innermost(Inner(pushing'), stack', doing', value')
  <2>1. Inner(pushing') = n
    BY <1>5 DEF Inner
  <2> HIDE DEF n
  <2> QED BY <1>1, <1>2, <1>3, <1>4, <2>1 DEF Innermost
<1> QED
  BY <1>5, <1>9, <1>10, <1>11, <1>12 DEF Fills

\* A call for the next part.
LEMMA PushPartFills == ASSUME IInv, PushPart PROVE Fills(pushing', stack', Floor, doing', value')
<1> DEFINE c == Inner(pushing)
<1>1. /\ doing = "filling" /\ doing' = "fromV8" /\ c.rest # {} /\ value' = Item(c.of, Key(c))
      /\ pushing' = pushing /\ stack' = stack
  BY DEF PushPart, FromV8
<1>2. Fills(pushing, stack, Floor, doing, value)
  BY DEF IInv, FillInv
<1>3. ASSUME pushing # << >>
      PROVE  Innermost(c, stack, "fromV8", value')
  <2>1. Innermost(c, stack, doing, value)
    BY <1>2, <1>3 DEF Fills
  <2> HIDE DEF c
  <2> QED BY <1>1, <2>1 DEF Innermost
<1> QED
  BY <1>1, <1>2, <1>3 DEF Fills

\* A copy that gets its next part still has what it copies, so far.
LEMMA OnePartMore ==
  ASSUME IInv, SetPart,
         NEW n, n = [Inner(pushing) EXCEPT !.rest = @ \ {Key(Inner(pushing))}]
  PROVE  Filling(n, stack'[Inner(pushing).at])
<1> DEFINE c == Inner(pushing)
           old == stack[c.at]
           new == stack'[c.at]
           k == Key(c)
           x == Top(stack)
<1>1. doing = "pushed" /\ pushing # << >>
  BY DEF SetPart
<1>2. IsPushing(c) /\ Filling(c, old)
  BY <1>1, InnerPushing
<1>3. n.of = c.of /\ n.rest = c.rest \ {k}
  BY <1>2 DEF IsPushing, Pushing
<1>4. new = With(old, k, x)
  BY PartSet
<1>5. ~PushedWhole(c.of) /\ old = CopyOf(c.of, Own(old))
  BY <1>2 DEF Filling
<1>6. new = CopyOf(c.of, Put(Own(old), k, x)) /\ Own(new) = Put(Own(old), k, x)
  <2> HIDE DEF c, old, new, k, x
  <2>1. With(CopyOf(c.of, Own(old)), k, x) = CopyOf(c.of, Put(Own(old), k, x))
    BY WithFacts
  <2> QED BY <1>4, <1>5, <2>1, WithFacts
<1>7. ASSUME c.of \in Fit
      PROVE  /\ Remaining(n)
             /\ Own(new) = [j \in DOMAIN Own(c.of) \ n.rest |-> Own(c.of)[j]]
  <2>1. Remaining(c) /\ Own(old) = [j \in DOMAIN Own(c.of) \ c.rest |-> Own(c.of)[j]]
    BY <1>2, <1>7 DEF Filling
  <2>2. c.rest # {} /\ x = Item(c.of, k)
    <3>1. Innermost(c, stack, doing, value)
      BY <1>1 DEF IInv, FillInv, Fills
    <3> HIDE DEF c
    <3> QED BY <1>1, <1>7, <3>1 DEF Innermost
  <2>3. promises \in BOOLEAN
    BY DEF IInv, TypeInv, StackTypes
  <2>4. /\ k \in c.rest /\ k \in DOMAIN Own(c.of) /\ Item(c.of, k) = Own(c.of)[k]
        /\ c.of.kind = "array" =>
             /\ k \in Nat \ {0} /\ c.rest \ {k} = (k + 1) .. Len(Own(c.of))
    BY <1>5, <1>7, <2>1, <2>2, <2>3, FitPart
  <2>5. Remaining(n)
    <3>1. n.rest \subseteq DOMAIN Own(n.of)
      BY <1>3, <2>1 DEF Remaining
    <3>2. ASSUME n.of.kind = "array"
          PROVE  \E m \in Nat \ {0} : n.rest = m .. Len(Own(n.of))
      <4>1. k + 1 \in Nat \ {0} /\ n.rest = (k + 1) .. Len(Own(n.of))
        <5> HIDE DEF c, k
        <5> QED BY <1>3, <2>4, <3>2
      <4> QED BY <4>1
    <3> QED BY <3>1, <3>2 DEF Remaining
  <2>6. Put(Own(old), k, x) = [j \in DOMAIN Own(c.of) \ n.rest |-> Own(c.of)[j]]
    <3> HIDE DEF c, k, x, old
    <3>1. c.rest \subseteq DOMAIN Own(c.of)
      BY <2>1 DEF Remaining
    <3>2. DOMAIN Own(old) \cup {k} = DOMAIN Own(c.of) \ n.rest
      BY <1>3, <2>1, <2>4, <3>1
    <3>3. \A j \in DOMAIN Own(old) \cup {k} : (IF j = k THEN x ELSE Own(old)[j]) = Own(c.of)[j]
      BY <2>1, <2>2, <2>4
    <3> QED BY <3>2, <3>3 DEF Put
  <2> QED BY <1>6, <2>5, <2>6
<1> QED
  <2> HIDE DEF c, old, new, k, x
  <2>1. Filling(n, new)
    BY <1>3, <1>5, <1>6, <1>7 DEF Filling
  <2> QED BY <2>1 DEF new, c

\* It is the copy that changes, and what it got is gone from the top.
LEMMA SetPartFills == ASSUME IInv, SetPart PROVE Fills(pushing', stack', Floor, doing', value')
<1> DEFINE c == Inner(pushing)
           n == [c EXCEPT !.rest = @ \ {Key(c)}]
<1>1. /\ doing = "pushed" /\ pushing # << >> /\ pushing' = Replace(pushing, n)
      /\ doing' = "filling"
  BY DEF SetPart
<1>2. /\ Len(stack) \in Nat /\ IsSeq(pushing)
      /\ \A i \in 1 .. Len(pushing) : IsPushing(pushing[i])
  BY Indices DEF IInv, TypeInv, StackTypes, PushingTypes
<1>3. /\ IsPushing(c) /\ c.at > Floor /\ c = pushing[Len(pushing)]
      /\ \A i \in 1 .. Len(pushing) : i # Len(pushing) => pushing[i].at < c.at
  BY <1>1, InnerPushing
<1>4. /\ Len(stack') = Len(stack) - 1 /\ c.at \in 1 .. Len(stack')
      /\ \A i \in 1 .. Len(stack') : i # c.at => stack'[i] = stack[i]
  BY PartSet
<1>5. n.of = c.of /\ n.rest = c.rest \ {Key(c)} /\ n.at = c.at
  BY <1>3 DEF IsPushing, Pushing
<1>6. Filling(n, stack'[c.at])
  BY OnePartMore
<1>7. Fills(pushing, stack, Floor, doing, value) /\ Innermost(c, stack, doing, value)
  BY <1>1 DEF IInv, FillInv, Fills
<1> HIDE DEF n, c
<1>8. /\ Len(pushing') = Len(pushing) /\ Inner(pushing') = n
      /\ Len(pushing) \in Nat \ {0} /\ pushing' # << >>
      /\ \A i \in 1 .. Len(pushing) : pushing'[i] = IF i = Len(pushing) THEN n ELSE pushing[i]
  BY <1>1, <1>2, Replaced
<1>9. \A i \in 1 .. Len(pushing) : pushing'[i].at = pushing[i].at /\ pushing'[i].of = pushing[i].of
  BY <1>3, <1>5, <1>8
<1>10. ASSUME NEW i \in 1 .. Len(pushing)
       PROVE  pushing'[i].at > Floor /\ Filling(pushing'[i], stack'[pushing'[i].at])
  <2>1. CASE i = Len(pushing)
    BY <1>3, <1>5, <1>6, <1>8, <2>1
  <2>2. CASE i # Len(pushing)
    <3>1. pushing[i].at < c.at /\ pushing[i].at \in Nat \ {0}
      BY <1>2, <1>3, <2>2 DEF IsPushing
    <3>2. pushing[i].at \in 1 .. Len(stack') /\ pushing[i].at # c.at
      BY <1>2, <1>4, <3>1
    <3>3. stack'[pushing[i].at] = stack[pushing[i].at] /\ pushing'[i] = pushing[i]
      BY <1>4, <1>8, <2>2, <3>2
    <3> QED BY <1>7, <3>3 DEF Fills
  <2> QED BY <2>1, <2>2
<1>11. \A i, j \in 1 .. Len(pushing) : i < j => pushing'[i].at < pushing'[j].at
  BY <1>7, <1>9 DEF Fills
<1>12. ASSUME NEW i \in 1 .. Len(pushing), i < Len(pushing)
       PROVE  Nested(pushing'[i], pushing'[i + 1])
  <2>1. i + 1 \in 1 .. Len(pushing) /\ i # Len(pushing)
    BY <1>8, <1>12
  <2>2. Nested(pushing[i], pushing[i + 1]) /\ pushing'[i] = pushing[i]
    BY <1>7, <1>8, <1>12, <2>1 DEF Fills
  <2>3. pushing'[i + 1].at = pushing[i + 1].at /\ pushing'[i + 1].of = pushing[i + 1].of
    BY <1>9, <2>1
  <2> QED BY <2>2, <2>3 DEF Nested
<1>13. Innermost(n, stack', doing', value')
  <2>1. c.at \in Nat /\ c.at + 1 <= Len(stack) /\ (c.of \in Fit => Len(stack) = c.at + 1)
    BY <1>1, <1>3, <1>7 DEF Innermost, IsPushing
  <2> QED BY <1>1, <1>2, <1>4, <1>5, <2>1 DEF Innermost
<1> QED
  BY <1>8, <1>10, <1>11, <1>12, <1>13 DEF Fills

\* What is to be kept is on top when its call returns.
LEMMA FilledTop ==
  ASSUME IInv, Filled, Inner(pushing).of \in Fit
  PROVE  Len(stack) = Inner(pushing).at /\ Top(stack) = Inner(pushing).of
<1> DEFINE c == Inner(pushing)
<1>1. doing = "filling" /\ c.rest = {} /\ promises \in BOOLEAN
  BY DEF Filled, IInv, TypeInv, StackTypes
<1>2. pushing # << >>
  BY <1>1 DEF IInv, TypeInv, Ways
<1>3. Filling(c, stack[c.at]) /\ c.at \in Nat
  BY <1>2, InnerPushing DEF IsPushing
<1>4. Innermost(c, stack, doing, value)
  BY <1>2 DEF IInv, FillInv, Fills
<1>5. Len(stack) = c.at
  <2>1. Len(stack) = c.at + 0
    BY <1>1, <1>4 DEF Innermost
  <2> QED BY <1>3, <2>1
<1>6. /\ ~PushedWhole(c.of)
      /\ stack[c.at] = CopyOf(c.of, Own(stack[c.at]))
      /\ Own(stack[c.at]) = [k \in DOMAIN Own(c.of) |-> Own(c.of)[k]]
  <2>1. DOMAIN Own(c.of) \ c.rest = DOMAIN Own(c.of)
    BY <1>1
  <2> QED BY <1>3, <2>1 DEF Filling
<1>7. c.of = CopyOf(c.of, Own(c.of)) /\ Own(c.of) = [k \in DOMAIN Own(c.of) |-> Own(c.of)[k]]
  BY <1>1, <1>6, FitParts
<1> QED
  BY <1>5, <1>6, <1>7 DEF Top

\* The copy is what the next outer call waits for.
LEMMA FilledFills == ASSUME IInv, Filled PROVE Fills(pushing', stack', Floor, doing', value')
<1> DEFINE d == Inner(pushing)
           c == Inner(pushing')
           n == Len(pushing)
<1>1. /\ doing = "filling" /\ pushing' = Outer(pushing) /\ doing' = "pushed"
      /\ stack' = stack /\ value' = value
  BY DEF Filled
<1>2. /\ IsSeq(pushing) /\ pushing # << >> /\ Len(stack) \in Nat /\ promises \in BOOLEAN
      /\ \A i \in 1 .. Len(pushing) : IsPushing(pushing[i])
  BY <1>1, Indices DEF IInv, TypeInv, StackTypes, PushingTypes, Ways
<1>3. /\ Len(pushing') = n - 1 /\ n \in Nat \ {0}
      /\ \A i \in 1 .. n - 1 : pushing'[i] = pushing[i]
      /\ (pushing' = << >>) <=> (n = 1)
  BY <1>1, <1>2, WentOut
<1>4. Fills(pushing, stack, Floor, doing, value)
  BY DEF IInv, FillInv
<1>5. CASE pushing' = << >>
  BY <1>5, NoCalls
<1>6. CASE pushing' # << >>
  <2>1. n - 1 \in 1 .. n /\ n - 1 < n /\ n - 1 + 1 = n /\ n - 1 \in 1 .. n - 1
    BY <1>3, <1>6
  <2>2. c = pushing[n - 1] /\ d = pushing[n]
    BY <1>3, <2>1 DEF Inner
  <2>3. Nested(c, d)
    BY <1>4, <2>1, <2>2 DEF Fills
  <2>4. d.at \in 1 .. Len(stack) /\ c.at < d.at /\ c.at \in Nat
    <3>1. d.at \in 1 .. Len(stack) /\ pushing[n - 1].at < d.at
      <4>1. /\ d.at \in 1 .. Len(stack)
            /\ \A i \in 1 .. n : i # n => pushing[i].at < d.at
        BY <1>2, InnerPushing
      <4>2. n - 1 # n
        BY <1>3
      <4> HIDE DEF n, d
      <4> QED BY <2>1, <4>1, <4>2
    <3>2. pushing[n - 1].at \in Nat
      BY <1>2, <2>1 DEF IsPushing
    <3> QED BY <2>2, <3>1, <3>2
  <2>5. Filling(c, stack[c.at])
    BY <1>4, <2>1, <2>2 DEF Fills
  <2>6. ASSUME c.of \in Fit
        PROVE  Len(stack) = c.at + 1 /\ Top(stack) = Item(c.of, Key(c))
    <3>1. ~PushedWhole(c.of) /\ Remaining(c) /\ c.rest # {} /\ d.of = Item(c.of, Key(c))
      BY <2>3, <2>5, <2>6 DEF Filling, Nested
    <3>2. d.of \in Fit
      BY <1>2, <2>6, <3>1, FitPart
    <3>3. Len(stack) = d.at /\ Top(stack) = d.of
      BY <3>2, FilledTop
    <3> QED BY <2>3, <2>6, <3>1, <3>3 DEF Nested
  <2>7. Innermost(c, stack, "pushed", value)
    <3> HIDE DEF c, d
    <3>1. c.at + 1 <= Len(stack) /\ c.rest # {}
      BY <1>2, <2>3, <2>4 DEF Nested
    <3> QED BY <2>6, <3>1 DEF Innermost
  <2> HIDE DEF c, d, n
  <2>8. /\ \A i \in 1 .. n - 1 : i \in 1 .. n
        /\ \A i \in 1 .. n - 1 : i < n - 1 => i < n /\ i + 1 \in 1 .. n - 1
    BY <1>3
  <2>9. /\ \A i \in 1 .. n - 1 : pushing[i].at > Floor /\ Filling(pushing[i], stack[pushing[i].at])
        /\ \A i, j \in 1 .. n - 1 : i < j => pushing[i].at < pushing[j].at
        /\ \A i \in 1 .. n - 1 : i < n - 1 => Nested(pushing[i], pushing[i + 1])
    BY <1>4, <2>8 DEF Fills, n
  <2> QED BY <1>1, <1>3, <2>7, <2>8, <2>9 DEF Fills, c
<1> QED
  BY <1>5, <1>6

\* Every step of a conversion; those of toV8 have no calls of fromV8.
LEMMA ConvertFills == ASSUME IInv, Convert PROVE Fills(pushing', stack', Floor, doing', value')
<1>1. CASE MakeWhole \/ Enumerate \/ ReadPart \/ KeepPart \/ AllRead
  <2>1. doing \notin In /\ pushing' = pushing
    BY <1>1 DEF MakeWhole, Enumerate, ReadPart, KeepPart, AllRead, In
  <2>2. pushing' = << >>
    BY <2>1 DEF IInv, TypeInv, Ways
  <2> QED BY <2>2, NoCalls
<1> QED
  BY <1>1, PushWholeFills, PushEmptyFills, PushPartFills, SetPartFills, FilledFills DEF Convert

--------------------------------------------------------------------------------
(* The waiting calls of toV8.                                                 *)

\* What toV8 is called with, or has made, is the part that the call is at.
LEMMA AtPart ==
  ASSUME IInv, reading # << >>, doing # "enumerating"
  PROVE  LET c == Inner(reading) IN
         /\ c.rest # {}
         /\ (doing = "toV8" \/ c.of \in Fit) => value = Enumerated(c.of)[Key(c)]
         /\ c.of \in Fit =>
              /\ value \in Fit /\ value = Own(c.of)[Key(c)]
              /\ Key(c) \in c.rest /\ Key(c) \in DOMAIN Own(c.of)
              /\ c.of.kind = "array" =>
                   /\ Key(c) \in Nat \ {0} /\ c.rest = Key(c) .. Len(Own(c.of))
                   /\ c.rest \ {Key(c)} = (Key(c) + 1) .. Len(Own(c.of))
<1> DEFINE c == Inner(reading)
<1>1. /\ c.rest # {}
      /\ (doing = "toV8" \/ c.of \in Fit) => value = Enumerated(c.of)[Key(c)]
  BY DEF IInv, ReadInv, Readings
<1>2. HasParts(c.of) /\ promises \in BOOLEAN /\ (c.of \in Fit => GotSoFar(c))
  BY InnerReading DEF IInv, TypeInv, StackTypes
<1> HIDE DEF c
<1>3. ASSUME c.of \in Fit
      PROVE  /\ value \in Fit /\ value = Own(c.of)[Key(c)]
             /\ Key(c) \in c.rest /\ Key(c) \in DOMAIN Own(c.of)
             /\ c.of.kind = "array" =>
                  /\ Key(c) \in Nat \ {0} /\ c.rest = Key(c) .. Len(Own(c.of))
                  /\ c.rest \ {Key(c)} = (Key(c) + 1) .. Len(Own(c.of))
  <2>1. Remaining(c)
    BY <1>2, <1>3 DEF GotSoFar
  <2>2. Enumerated(c.of) = Own(c.of)
    BY <1>2, <1>3, FitEnumerated
  <2> QED BY <1>1, <1>2, <1>3, <2>1, <2>2, FitPart
<1> QED
  BY <1>1, <1>3 DEF c

\* What is to be kept and has no parts is made as it is.
LEMMA MakeWholeReads == ASSUME IInv, MakeWhole PROVE Readings(reading', doing', value')
<1> DEFINE c == Inner(reading)
<1>1. /\ doing = "toV8" /\ doing' = "made" /\ ~HasParts(value) /\ value' = MadeWhole(value)
      /\ reading' = reading /\ promises \in BOOLEAN
  BY DEF MakeWhole, IInv, TypeInv, StackTypes
<1>2. Readings(reading, doing, value)
  BY DEF IInv, ReadInv
<1>3. ASSUME reading # << >>
      PROVE  c.rest # {} /\ (c.of \in Fit => value' = Enumerated(c.of)[Key(c)])
  <2>1. /\ c.rest # {}
        /\ c.of \in Fit => value = Enumerated(c.of)[Key(c)] /\ value \in Fit
    BY <1>1, <1>3, AtPart
  <2> QED BY <1>1, <2>1, FitMade
<1> QED
  BY <1>1, <1>2, <1>3 DEF Readings

\* A call for the part that the next outer one is at, of which nothing has been made.
LEMMA EnumerateReads == ASSUME IInv, Enumerate PROVE Readings(reading', doing', value')
<1> DEFINE n == Reading(value, DOMAIN Enumerated(value), << >>)
<1>1. /\ doing = "toV8" /\ HasParts(value) /\ reading' = Append(reading, n)
      /\ doing' = "enumerating" /\ promises \in BOOLEAN /\ IsSeq(reading)
  BY DEF Enumerate, IInv, TypeInv, StackTypes, ReadingTypes
<1>2. n.of = value /\ n.rest = DOMAIN Enumerated(value) /\ n.got = << >>
  BY Waiting
<1>3. ASSUME value \in Fit
      PROVE  GotSoFar(n)
  <2>1. /\ n.rest = DOMAIN Own(value)
        /\ value.kind = "array" => Own(value) \in Seq(Fit)
    BY <1>1, <1>2, <1>3, FitEnumerated, FitParts
  <2>2. ASSUME value.kind = "array"
        PROVE  n.rest = 1 .. Len(Own(value)) /\ Len(Own(value)) \in Nat
    BY <2>1, <2>2, LenProperties
  <2>3. Remaining(n)
    BY <1>2, <2>1, <2>2 DEF Remaining
  <2>4. value.kind = "array" => /\ n.got \in Seq(Fit) /\ Len(n.got) = 0
                                /\ n.rest = (Len(n.got) + 1) .. Len(Own(value))
                                /\ Len(n.got) <= Len(Own(value))
    <3>1. << >> \in Seq(Fit) /\ Len(<< >>) = 0
      BY EmptySeq
    <3> HIDE DEF n
    <3> QED BY <1>2, <2>2, <3>1
  <2>5. n.got = [k \in DOMAIN Own(value) \ n.rest |-> Own(value)[k]]
    <3>1. DOMAIN Own(value) \ n.rest = {}
      BY <2>1
    <3> QED BY <1>2, <3>1, NoParts
  <2> QED BY <1>2, <2>3, <2>4, <2>5 DEF GotSoFar
<1>4. Readings(reading, doing, value)
  BY DEF IInv, ReadInv
<1> HIDE DEF n
<1>5. /\ Len(reading') = Len(reading) + 1 /\ Len(reading) \in Nat
      /\ \A i \in 1 .. Len(reading) : reading'[i] = reading[i]
      /\ reading'[Len(reading) + 1] = n
  BY <1>1, OneMore, Indices
<1>6. ASSUME NEW i \in 1 .. Len(reading')
      PROVE  HasParts(reading'[i].of) /\ (reading'[i].of \in Fit => GotSoFar(reading'[i]))
  <2>1. CASE i \in 1 .. Len(reading)
    BY <1>4, <1>5, <2>1 DEF Readings
  <2>2. CASE i = Len(reading) + 1
    BY <1>1, <1>2, <1>3, <1>5, <2>2
  <2> QED BY <1>5, <2>1, <2>2
<1>7. ASSUME NEW i \in 1 .. Len(reading'), i < Len(reading')
      PROVE  /\ reading'[i].rest # {}
             /\ reading'[i + 1].of = Enumerated(reading'[i].of)[Key(reading'[i])]
  <2>1. i \in 1 .. Len(reading) /\ reading'[i] = reading[i]
    BY <1>5, <1>7
  <2>2. CASE i < Len(reading)
    <3>1. i + 1 \in 1 .. Len(reading)
      BY <1>5, <2>1, <2>2
    <3> QED BY <1>4, <1>5, <2>1, <2>2, <3>1 DEF Readings
  <2>3. CASE i = Len(reading)
    <3>1. reading # << >> /\ Inner(reading) = reading'[i]
      BY <1>1, <1>5, <2>1, <2>3, Indices DEF Inner
    <3>2. /\ Inner(reading).rest # {}
          /\ value = Enumerated(Inner(reading).of)[Key(Inner(reading))]
      BY <1>1, <3>1, AtPart
    <3> QED BY <1>2, <1>5, <2>3, <3>1, <3>2
  <2> QED BY <1>5, <2>1, <2>2, <2>3
<1> QED
  BY <1>1, <1>6, <1>7 DEF Readings

\* A call for the next part.
LEMMA ReadPartReads == ASSUME IInv, ReadPart PROVE Readings(reading', doing', value')
<1> DEFINE c == Inner(reading)
<1>1. /\ c.rest # {} /\ doing' = "toV8" /\ value' = Enumerated(c.of)[Key(c)]
      /\ reading' = reading
  BY DEF ReadPart, ToV8
<1>2. Readings(reading, doing, value)
  BY DEF IInv, ReadInv
<1> QED
  BY <1>1, <1>2 DEF Readings

\* What has been made is kept in its place, an item of an array after the others.
LEMMA KeepPartReads == ASSUME IInv, KeepPart PROVE Readings(reading', doing', value')
<1> DEFINE c == Inner(reading)
           k == Key(c)
           got == IF c.of.kind = "array" THEN Append(c.got, value) ELSE Put(c.got, k, value)
           n == Reading(c.of, c.rest \ {k}, got)
<1>1. /\ doing = "made" /\ reading # << >> /\ reading' = Replace(reading, n)
      /\ doing' = "enumerating"
  BY DEF KeepPart
<1>2. IsSeq(reading) /\ promises \in BOOLEAN
  BY DEF IInv, TypeInv, StackTypes, ReadingTypes
<1>3. /\ HasParts(c.of) /\ (c.of \in Fit => GotSoFar(c)) /\ c = reading[Len(reading)]
  BY <1>1, InnerReading
<1>4. n.of = c.of /\ n.rest = c.rest \ {k} /\ n.got = got
  BY Waiting
<1>5. ASSUME c.of \in Fit
      PROVE  GotSoFar(n)
  <2>1. /\ value \in Fit /\ value = Own(c.of)[k]
        /\ k \in c.rest /\ k \in DOMAIN Own(c.of)
        /\ c.of.kind = "array" =>
             /\ k \in Nat \ {0} /\ c.rest = k .. Len(Own(c.of))
             /\ c.rest \ {k} = (k + 1) .. Len(Own(c.of))
    BY <1>1, <1>5, AtPart
  <2>2. /\ c.rest \subseteq DOMAIN Own(c.of)
        /\ c.got = [j \in DOMAIN Own(c.of) \ c.rest |-> Own(c.of)[j]]
        /\ c.of.kind = "array" => /\ c.got \in Seq(Fit) /\ Len(c.got) <= Len(Own(c.of))
                                  /\ c.rest = (Len(c.got) + 1) .. Len(Own(c.of))
    BY <1>3, <1>5 DEF GotSoFar, Remaining
  <2>3. c.of.kind = "array" => Own(c.of) \in Seq(Fit)
    BY <1>2, <1>3, <1>5, FitParts
  <2> HIDE DEF n, k, c
  <2>4. CASE c.of.kind = "array"
    <3>1. got = Append(c.got, value)
      BY <2>4
    <3>2. /\ Len(Own(c.of)) \in Nat /\ DOMAIN Own(c.of) = 1 .. Len(Own(c.of))
          /\ Len(c.got) \in Nat /\ DOMAIN c.got = 1 .. Len(c.got)
      BY <2>2, <2>3, <2>4, LenProperties
    <3>3. k = Len(c.got) + 1 /\ k <= Len(Own(c.of)) /\ k \in Nat
      <4>1. k \in (Len(c.got) + 1) .. Len(Own(c.of))
        BY <2>1, <2>2, <2>4
      <4>2. Len(c.got) + 1 \in k .. Len(Own(c.of))
        BY <2>1, <2>2, <2>4, <3>2, <4>1
      <4> QED BY <2>1, <3>2, <4>1, <4>2
    <3>4. /\ got \in Seq(Fit) /\ Len(got) = Len(c.got) + 1
          /\ \A i \in 1 .. Len(c.got) : got[i] = c.got[i]
          /\ got[Len(c.got) + 1] = value
      BY <2>1, <2>2, <2>4, <3>1, AppendProperties
    <3>5. DOMAIN got = 1 .. Len(got) /\ got = [j \in 1 .. Len(got) |-> got[j]]
      BY <3>4, LenProperties
    <3>6. /\ n.rest = (k + 1) .. Len(Own(c.of)) /\ k + 1 \in Nat \ {0}
          /\ n.rest \subseteq DOMAIN Own(c.of)
      BY <1>4, <2>1, <2>2, <2>4
    <3>7. Remaining(n)
      BY <1>4, <3>6 DEF Remaining
    <3>8. DOMAIN Own(c.of) \ n.rest = 1 .. Len(got)
      BY <3>2, <3>3, <3>4, <3>6
    <3>9. \A j \in 1 .. Len(got) : got[j] = Own(c.of)[j]
      <4>1. \A j \in 1 .. Len(c.got) : c.got[j] = Own(c.of)[j]
        BY <2>2, <3>2
      <4> QED BY <2>1, <3>2, <3>3, <3>4, <4>1
    <3> HIDE DEF got
    <3>10. n.got = [j \in DOMAIN Own(c.of) \ n.rest |-> Own(c.of)[j]]
      BY <1>4, <3>5, <3>8, <3>9
    <3> QED BY <1>4, <3>3, <3>4, <3>6, <3>7, <3>10 DEF GotSoFar
  <2>5. CASE c.of.kind # "array"
    <3>1. got = Put(c.got, k, value)
      BY <2>5
    <3> HIDE DEF got
    <3>2. DOMAIN c.got \cup {k} = DOMAIN Own(c.of) \ n.rest
      BY <1>4, <2>1, <2>2
    <3>3. \A j \in DOMAIN c.got \cup {k} : (IF j = k THEN value ELSE c.got[j]) = Own(c.of)[j]
      BY <2>1, <2>2
    <3>4. n.got = [j \in DOMAIN Own(c.of) \ n.rest |-> Own(c.of)[j]]
      BY <1>4, <3>1, <3>2, <3>3 DEF Put
    <3>5. Remaining(n)
      BY <1>4, <2>2, <2>5 DEF Remaining
    <3> QED BY <1>4, <2>5, <3>4, <3>5 DEF GotSoFar
  <2> QED BY <2>4, <2>5
<1>6. Readings(reading, doing, value)
  BY DEF IInv, ReadInv
<1> HIDE DEF n, c
<1>7. /\ Len(reading') = Len(reading) /\ Len(reading) \in Nat \ {0}
      /\ \A i \in 1 .. Len(reading) : reading'[i] = IF i = Len(reading) THEN n ELSE reading[i]
  BY <1>1, <1>2, Replaced
<1>8. ASSUME NEW i \in 1 .. Len(reading)
      PROVE  HasParts(reading'[i].of) /\ (reading'[i].of \in Fit => GotSoFar(reading'[i]))
  BY <1>3, <1>4, <1>5, <1>6, <1>7 DEF Readings
<1>9. ASSUME NEW i \in 1 .. Len(reading), i < Len(reading)
      PROVE  /\ reading'[i].rest # {}
             /\ reading'[i + 1].of = Enumerated(reading'[i].of)[Key(reading'[i])]
  <2>1. i + 1 \in 1 .. Len(reading) /\ i # Len(reading)
    BY <1>7, <1>9
  <2>2. reading'[i] = reading[i] /\ reading'[i + 1].of = reading[i + 1].of
    BY <1>3, <1>4, <1>7, <2>1
  <2> QED BY <1>6, <1>9, <2>2 DEF Readings
<1> QED
  BY <1>1, <1>7, <1>8, <1>9 DEF Readings

\* When all of it has been copied, what is to be kept has been made as it is.
LEMMA AllReadMade ==
  ASSUME IInv, AllRead, Inner(reading).of \in Fit
  PROVE  value' = Inner(reading).of
<1> DEFINE c == Inner(reading)
<1>1. doing = "enumerating" /\ c.rest = {} /\ value' = Made(c.of, c.got) /\ promises \in BOOLEAN
  BY DEF AllRead, IInv, TypeInv, StackTypes
<1>2. reading # << >>
  BY <1>1 DEF IInv, TypeInv, Ways
<1>3. HasParts(c.of) /\ GotSoFar(c)
  BY <1>2, InnerReading
<1>4. c.got = [k \in DOMAIN Own(c.of) |-> Own(c.of)[k]]
  <2>1. DOMAIN Own(c.of) \ c.rest = DOMAIN Own(c.of)
    BY <1>1
  <2> QED BY <1>3, <2>1 DEF GotSoFar
<1>5. Own(c.of) = [k \in DOMAIN Own(c.of) |-> Own(c.of)[k]] /\ Made(c.of, Own(c.of)) = c.of
  BY <1>1, <1>3, FitParts, FitEnumerated
<1> QED
  BY <1>1, <1>4, <1>5

\* It is the part that the next outer call is at.
LEMMA AllReadReads == ASSUME IInv, AllRead PROVE Readings(reading', doing', value')
<1> DEFINE d == Inner(reading)
           c == Inner(reading')
           n == Len(reading)
<1>1. doing = "enumerating" /\ reading' = Outer(reading) /\ doing' = "made"
  BY DEF AllRead
<1>2. IsSeq(reading) /\ reading # << >> /\ promises \in BOOLEAN
  BY <1>1 DEF IInv, TypeInv, StackTypes, ReadingTypes, Ways
<1>3. /\ Len(reading') = n - 1 /\ n \in Nat \ {0}
      /\ \A i \in 1 .. n - 1 : reading'[i] = reading[i]
      /\ (reading' = << >>) <=> (n = 1)
  BY <1>1, <1>2, WentOut
<1>4. Readings(reading, doing, value)
  BY DEF IInv, ReadInv
<1>5. CASE reading' = << >>
  BY <1>5, NoCalls
<1>6. CASE reading' # << >>
  <2>1. n - 1 \in 1 .. n /\ n - 1 < n /\ n - 1 + 1 = n /\ n - 1 \in 1 .. n - 1
    BY <1>3, <1>6
  <2>2. c = reading[n - 1] /\ d = reading[n]
    BY <1>3, <2>1 DEF Inner
  <2>3. /\ HasParts(c.of) /\ (c.of \in Fit => GotSoFar(c))
        /\ c.rest # {} /\ d.of = Enumerated(c.of)[Key(c)]
    BY <1>4, <2>1, <2>2 DEF Readings
  <2>4. ASSUME c.of \in Fit
        PROVE  value' = Enumerated(c.of)[Key(c)]
    <3>1. Remaining(c) /\ Enumerated(c.of) = Own(c.of)
      BY <1>2, <2>3, <2>4, FitEnumerated DEF GotSoFar
    <3>2. d.of \in Fit
      BY <1>2, <2>3, <2>4, <3>1, FitPart
    <3> QED BY <2>3, <3>2, AllReadMade
  <2> HIDE DEF c, d, n
  <2>5. /\ \A i \in 1 .. n - 1 : i \in 1 .. n
        /\ \A i \in 1 .. n - 1 : i < n - 1 => i < n /\ i + 1 \in 1 .. n - 1
    BY <1>3
  <2>6. \A i \in 1 .. n - 1 :
          /\ HasParts(reading[i].of) /\ (reading[i].of \in Fit => GotSoFar(reading[i]))
          /\ i < n - 1 => /\ reading[i].rest # {}
                          /\ reading[i + 1].of = Enumerated(reading[i].of)[Key(reading[i])]
    BY <1>4, <2>5 DEF Readings, n
  <2>7. \A i \in 1 .. Len(reading') :
          /\ HasParts(reading'[i].of) /\ (reading'[i].of \in Fit => GotSoFar(reading'[i]))
          /\ i < Len(reading') =>
               /\ reading'[i].rest # {}
               /\ reading'[i + 1].of = Enumerated(reading'[i].of)[Key(reading'[i])]
    BY <1>3, <2>5, <2>6
  <2>8. c.rest # {} /\ (c.of \in Fit => value' = Enumerated(c.of)[Key(c)])
    BY <2>3, <2>4
  <2> QED BY <1>1, <2>7, <2>8 DEF Readings, c
<1> QED
  BY <1>5, <1>6

\* Every step of a conversion; those of fromV8 have no calls of toV8.
LEMMA ConvertReads == ASSUME IInv, Convert PROVE Readings(reading', doing', value')
<1>1. CASE PushWhole \/ PushEmpty \/ PushPart \/ SetPart \/ Filled
  <2>1. doing \notin Out /\ reading' = reading
    BY <1>1 DEF PushWhole, PushEmpty, PushPart, SetPart, Filled, Out
  <2>2. reading' = << >>
    BY <2>1 DEF IInv, TypeInv, Ways
  <2> QED BY <2>2, NoCalls
<1> QED
  BY <1>1, MakeWholeReads, EnumerateReads, ReadPartReads, KeepPartReads, AllReadReads DEF Convert

--------------------------------------------------------------------------------
(* A step of a conversion keeps the invariant.                                *)

\* What is on its way to the other side is what the outermost call is for, what is called
\* for or made, or, when all calls have returned, on top.
LEMMA ConvertOrigin == ASSUME IInv, Convert, UNCHANGED methodVars PROVE OriginInv'
<1>1. Fit' = Fit /\ origin' = origin
  BY SameFit DEF methodVars, Convert, PushWhole, PushEmpty, PushPart, SetPart, Filled,
                 MakeWhole, Enumerate, ReadPart, KeepPart, AllRead
<1>2. SUFFICES ASSUME origin # Nothing
               PROVE  /\ pushing' # << >> => pushing'[1].of = origin
                      /\ reading' # << >> => reading'[1].of = origin
                      /\ (pushing' = << >> /\ reading' = << >> /\ doing' \in {"fromV8", "toV8", "made"})
                           => value' = origin
                      /\ (pushing' = << >> /\ doing' = "pushed") =>
                           stack' # << >> /\ Top(stack') = origin
  <2>1. origin # Nothing => origin \in Fit
    BY DEF IInv, OriginInv
  <2> QED BY <1>1, <1>2, <2>1 DEF OriginInv
<1>3. /\ origin \in Fit
      /\ pushing # << >> => pushing[1].of = origin
      /\ reading # << >> => reading[1].of = origin
      /\ (pushing = << >> /\ reading = << >> /\ doing \in {"fromV8", "toV8", "made"}) => value = origin
      /\ (pushing = << >> /\ doing = "pushed") => stack # << >> /\ Top(stack) = origin
  BY <1>2 DEF IInv, OriginInv
<1>4. /\ IsSeq(stack) /\ IsSeq(pushing) /\ IsSeq(reading) /\ promises \in BOOLEAN
      /\ Len(stack) \in Nat /\ Len(pushing) \in Nat /\ Len(reading) \in Nat
      /\ doing \notin In => pushing = << >>
      /\ doing \notin Out => reading = << >>
  BY Indices DEF IInv, TypeInv, StackTypes, PushingTypes, ReadingTypes, Ways
<1>5. CASE PushWhole
  <2> DEFINE p == Pushed(value)
  <2>1. /\ doing = "fromV8" /\ PushedWhole(value) /\ stack' = stack \o p /\ doing' = "pushed"
        /\ pushing' = pushing /\ reading' = reading
    BY <1>5 DEF PushWhole
  <2>2. reading = << >>
    BY <1>4, <2>1 DEF Out
  <2>3. ASSUME pushing = << >>
        PROVE  stack' # << >> /\ Top(stack') = origin
    <3>1. p = <<value>> /\ value = origin
      BY <1>3, <1>4, <2>1, <2>2, <2>3, FitWhole
    <3>2. stack' = Append(stack, origin)
      BY <1>4, <2>1, <3>1, OneMore
    <3> QED BY <1>4, <3>2, OneMore DEF Top
  <2> QED BY <1>3, <2>1, <2>2, <2>3
<1>6. CASE PushEmpty
  <2> DEFINE n == Pushing(value, DOMAIN Own(value), Len(stack) + 1)
  <2>1. doing = "fromV8" /\ pushing' = Append(pushing, n) /\ doing' = "filling" /\ reading' = reading
    BY <1>6 DEF PushEmpty
  <2>2. n.of = value
    BY Waiting
  <2> HIDE DEF n
  <2>3. /\ pushing' # << >> /\ pushing'[Len(pushing) + 1] = n
        /\ \A i \in 1 .. Len(pushing) : pushing'[i] = pushing[i]
    BY <1>4, <2>1, OneMore
  <2>4. reading = << >>
    BY <1>4, <2>1 DEF Out
  <2>5. pushing'[1].of = origin
    <3>1. CASE pushing = << >>
      <4>1. Len(pushing) + 1 = 1
        BY <1>4, <3>1, Indices
      <4> QED BY <1>3, <2>1, <2>2, <2>3, <2>4, <3>1, <4>1
    <3>2. CASE pushing # << >>
      <4>1. 1 \in 1 .. Len(pushing)
        BY <1>4, <3>2, Indices
      <4> QED BY <1>3, <2>3, <3>2, <4>1
    <3> QED BY <3>1, <3>2
  <2> QED BY <2>1, <2>3, <2>4, <2>5
<1>7. CASE PushPart
  <2>1. doing = "filling" /\ pushing' = pushing /\ reading' = reading /\ doing' = "fromV8"
    BY <1>7 DEF PushPart, FromV8
  <2>2. pushing # << >> /\ reading = << >>
    BY <1>4, <2>1 DEF IInv, TypeInv, Ways, Out
  <2> QED BY <1>3, <2>1, <2>2
<1>8. CASE SetPart
  <2> DEFINE n == [Inner(pushing) EXCEPT !.rest = @ \ {Key(Inner(pushing))}]
  <2>1. /\ doing = "pushed" /\ pushing # << >> /\ pushing' = Replace(pushing, n)
        /\ reading' = reading /\ doing' = "filling"
    BY <1>8 DEF SetPart
  <2>2. IsPushing(Inner(pushing)) /\ Inner(pushing) = pushing[Len(pushing)]
    BY <2>1, InnerPushing
  <2>3. n.of = Inner(pushing).of
    BY <2>2 DEF IsPushing, Pushing
  <2> HIDE DEF n
  <2>4. /\ pushing' # << >> /\ Len(pushing) \in Nat \ {0}
        /\ \A i \in 1 .. Len(pushing) : pushing'[i] = IF i = Len(pushing) THEN n ELSE pushing[i]
    BY <1>4, <2>1, Replaced
  <2>5. pushing'[1].of = pushing[1].of
    <3>1. 1 \in 1 .. Len(pushing)
      BY <2>4
    <3> QED BY <2>2, <2>3, <2>4, <3>1
  <2>6. reading = << >>
    BY <1>4, <2>1 DEF Out
  <2> QED BY <1>3, <2>1, <2>4, <2>5, <2>6
<1>9. CASE Filled
  <2>1. /\ doing = "filling" /\ pushing' = Outer(pushing) /\ doing' = "pushed"
        /\ stack' = stack /\ reading' = reading
    BY <1>9 DEF Filled
  <2>2. pushing # << >> /\ reading = << >>
    BY <1>4, <2>1 DEF IInv, TypeInv, Ways, Out
  <2>3. /\ Len(pushing) \in Nat \ {0} /\ ((pushing' = << >>) <=> (Len(pushing) = 1))
        /\ \A i \in 1 .. Len(pushing) - 1 : pushing'[i] = pushing[i]
    BY <1>4, <2>1, <2>2, WentOut
  <2>4. ASSUME pushing' = << >>
        PROVE  stack # << >> /\ Top(stack) = origin
    <3>1. Inner(pushing) = pushing[1]
      BY <2>3, <2>4 DEF Inner
    <3>2. Inner(pushing).of = origin /\ Inner(pushing).at \in 1 .. Len(stack)
      BY <1>3, <2>2, <3>1, InnerPushing
    <3>3. Top(stack) = origin
      BY <1>3, <1>9, <3>2, FilledTop
    <3> QED BY <1>4, <3>2, <3>3, Indices
  <2>5. ASSUME pushing' # << >>
        PROVE  pushing'[1].of = origin
    <3>1. Len(pushing) \in Nat \ {0, 1}
      BY <2>3, <2>5
    <3>2. 1 \in 1 .. Len(pushing) - 1
      <4> DEFINE n == Len(pushing)
      <4>1. n \in Nat \ {0, 1}
        BY <3>1
      <4> HIDE DEF n
      <4>2. 1 <= n - 1 /\ n - 1 \in Int
        BY <4>1
      <4> QED BY <4>2 DEF n
    <3> QED BY <1>3, <2>2, <2>3, <3>2
  <2> QED BY <2>1, <2>2, <2>4, <2>5
<1>10. CASE MakeWhole
  <2>1. /\ doing = "toV8" /\ ~HasParts(value) /\ doing' = "made" /\ value' = MadeWhole(value)
        /\ pushing' = pushing /\ reading' = reading
    BY <1>10 DEF MakeWhole
  <2>2. pushing = << >>
    BY <1>4, <2>1 DEF In
  <2>3. reading = << >> => value' = origin
    BY <1>3, <1>4, <2>1, <2>2, FitMade
  <2> QED BY <1>3, <2>1, <2>2, <2>3
<1>11. CASE Enumerate
  <2> DEFINE n == Reading(value, DOMAIN Enumerated(value), << >>)
  <2>1. doing = "toV8" /\ reading' = Append(reading, n) /\ doing' = "enumerating" /\ pushing' = pushing
    BY <1>11 DEF Enumerate
  <2>2. n.of = value
    BY Waiting
  <2> HIDE DEF n
  <2>3. /\ reading' # << >> /\ reading'[Len(reading) + 1] = n
        /\ \A i \in 1 .. Len(reading) : reading'[i] = reading[i]
    BY <1>4, <2>1, OneMore
  <2>4. pushing = << >>
    BY <1>4, <2>1 DEF In
  <2>5. reading'[1].of = origin
    <3>1. CASE reading = << >>
      <4>1. Len(reading) + 1 = 1
        BY <1>4, <3>1, Indices
      <4> QED BY <1>3, <2>1, <2>2, <2>3, <2>4, <3>1, <4>1
    <3>2. CASE reading # << >>
      <4>1. 1 \in 1 .. Len(reading)
        BY <1>4, <3>2, Indices
      <4> QED BY <1>3, <2>3, <3>2, <4>1
    <3> QED BY <3>1, <3>2
  <2> QED BY <2>1, <2>3, <2>4, <2>5
<1>12. CASE ReadPart
  <2>1. doing = "enumerating" /\ pushing' = pushing /\ reading' = reading /\ doing' = "toV8"
    BY <1>12 DEF ReadPart, ToV8
  <2>2. reading # << >> /\ pushing = << >>
    BY <1>4, <2>1 DEF IInv, TypeInv, Ways, In
  <2> QED BY <1>3, <2>1, <2>2
<1>13. CASE KeepPart
  <2> DEFINE c == Inner(reading)
             got == IF c.of.kind = "array" THEN Append(c.got, value) ELSE Put(c.got, Key(c), value)
             n == Reading(c.of, c.rest \ {Key(c)}, got)
  <2>1. /\ doing = "made" /\ reading # << >> /\ reading' = Replace(reading, n)
        /\ pushing' = pushing /\ doing' = "enumerating"
    BY <1>13 DEF KeepPart
  <2>2. c = reading[Len(reading)] /\ n.of = c.of
    BY <2>1, Waiting, InnerReading
  <2> HIDE DEF n, c
  <2>3. /\ reading' # << >> /\ Len(reading) \in Nat \ {0}
        /\ \A i \in 1 .. Len(reading) : reading'[i] = IF i = Len(reading) THEN n ELSE reading[i]
    BY <1>4, <2>1, Replaced
  <2>4. reading'[1].of = reading[1].of
    <3>1. 1 \in 1 .. Len(reading)
      BY <2>3
    <3> QED BY <2>2, <2>3, <3>1
  <2>5. pushing = << >>
    BY <1>4, <2>1 DEF In
  <2> QED BY <1>3, <2>1, <2>3, <2>4, <2>5
<1>14. CASE AllRead
  <2>1. doing = "enumerating" /\ reading' = Outer(reading) /\ doing' = "made" /\ pushing' = pushing
    BY <1>14 DEF AllRead
  <2>2. reading # << >> /\ pushing = << >>
    BY <1>4, <2>1 DEF IInv, TypeInv, Ways, In
  <2>3. /\ Len(reading) \in Nat \ {0} /\ ((reading' = << >>) <=> (Len(reading) = 1))
        /\ \A i \in 1 .. Len(reading) - 1 : reading'[i] = reading[i]
    BY <1>4, <2>1, <2>2, WentOut
  <2>4. ASSUME reading' = << >>
        PROVE  value' = origin
    <3>1. Inner(reading) = reading[1]
      BY <2>3, <2>4 DEF Inner
    <3> QED BY <1>3, <1>14, <2>2, <3>1, AllReadMade
  <2>5. ASSUME reading' # << >>
        PROVE  reading'[1].of = origin
    <3>1. Len(reading) \in Nat \ {0, 1}
      BY <2>3, <2>5
    <3>2. 1 \in 1 .. Len(reading) - 1
      <4> DEFINE n == Len(reading)
      <4>1. n \in Nat \ {0, 1}
        BY <3>1
      <4> HIDE DEF n
      <4>2. 1 <= n - 1 /\ n - 1 \in Int
        BY <4>1
      <4> QED BY <4>2 DEF n
    <3> QED BY <1>3, <2>2, <2>3, <3>2
  <2> QED BY <2>1, <2>2, <2>4, <2>5
<1> QED
  BY <1>5, <1>6, <1>7, <1>8, <1>9, <1>10, <1>11, <1>12, <1>13, <1>14 DEF Convert

\* When a stack of height h grows to k by what is left on it, by u - t and by q - r, it
\* still reaches what these stand on,
LEMMA StillReaches ==
  ASSUME NEW h \in Int, NEW k \in Int, NEW l \in Int, NEW m \in Int, NEW t \in Int, NEW u \in Int,
         NEW r \in Int, NEW q \in Int, NEW b \in Int,
         k = h + (m - l) + (u - t) + (q - r), h >= b + t + r, m >= l
  PROVE  k >= b + u + q
OBVIOUS

\* and if it ends on that, it did before, and nothing is left.
LEMMA NothingLeft ==
  ASSUME NEW h \in Int, NEW k \in Int, NEW l \in Int, NEW m \in Int, NEW t \in Int, NEW u \in Int,
         NEW b \in Int,
         k = h + (m - l) + (u - t), h >= b + t, m >= l, k = b + u
  PROVE  h = b + t
OBVIOUS

\* The step of a conversion is not its end.
LEMMA ConvertGoesOn ==
  ASSUME Convert
  PROVE  doing # "idle" /\ ~IsPushed /\ UNCHANGED promises
BY DEF Convert, PushWhole, PushEmpty, PushPart, SetPart, Filled, MakeWhole, Enumerate, ReadPart,
       KeepPart, AllRead, IsPushed

\* Arguments that have arrived stay where they are.
LEMMA ConvertArrived ==
  ASSUME IInv, Moves, UNCHANGED methodVars, pc # "result",
         NEW n \in Nat, call.objIndex + 1 + n <= Floor, Arrived(n)
  PROVE  \A j \in 1 .. n :
           call.args[j] \in Fit => stack'[call.objIndex + 1 + j] = call.args[j]
<1>1. call.objIndex \in Nat
  BY DEF IInv, TypeInv, CallTypes, IsCall
<1>2. Floor \in Nat
  <2>1. call.given \in Nat /\ frame.bottom \in Nat
    BY Indices DEF IInv, TypeInv, CallTypes, IsCall
  <2> QED BY <1>1, <2>1 DEF Floor, IInv, TypeInv, CallTypes
<1>3. \A j \in 1 .. Floor : stack'[j] = stack[j]
  BY DEF Moves
<1>4. ASSUME NEW j \in 1 .. n
      PROVE  call.objIndex + 1 + j \in 1 .. Floor
  BY <1>1, <1>2
<1> QED
  BY <1>3, <1>4 DEF Arrived

\* The name is where it was, and the argument that is converted comes to its place unless
\* something is left among them.
LEMMA ConvertName ==
  ASSUME IInv, Convert, Moves, UNCHANGED methodVars, OriginInv'
  PROVE  NameInv'
<1>1. /\ doing # "idle" /\ ~IsPushed
      /\ Fit' = Fit /\ pc' = pc /\ call' = call /\ origin' = origin
  BY ConvertGoesOn, SameFit DEF methodVars
<1>2. SUFFICES ASSUME pc = "arguments", call.method # "setProperty"
               PROVE  NameInv'
  BY <1>1, <1>2 DEF NameInv
<1>3. /\ call.objIndex + 1 <= Len(stack) /\ stack[call.objIndex + 1] = Name
      /\ \A j \in 1 .. Len(stack) : stack[j] = Name => j <= call.objIndex + 1
      /\ Len(stack) >= call.objIndex + call.given + OnTop
      /\ Len(stack) = call.objIndex + call.given + OnTop => Arrived(call.given - 1)
  BY <1>1, <1>2 DEF IInv, NameInv
<1>4. /\ doing \in In /\ call.given # 0 /\ origin = Source(call.args[call.given])
      /\ promises \in BOOLEAN
  BY <1>1, <1>2 DEF IInv, PcInv, ArgumentInv, TypeInv, StackTypes
<1>5. /\ call.objIndex \in Nat /\ call.given \in Nat \ {0} /\ left \in Nat /\ Len(stack) \in Nat
      /\ Floor = call.objIndex + call.given
  BY <1>2, <1>4, Indices DEF IInv, TypeInv, CallTypes, IsCall, StackTypes, Floor
<1>6. OnTop \in Nat /\ Reads = 0
  <2>1. reading = << >>
    BY <1>4 DEF IInv, TypeInv, Ways, In, Out
  <2> QED BY <1>1, <1>4, <2>1, Room DEF Reads, In
<1>7. /\ doing' \in In /\ left' \in Nat /\ left' >= left /\ IsSeq(stack')
      /\ Len(stack') = Len(stack) + (left' - left) + (OnTop' - OnTop) + (Reads' - Reads)
      /\ \A j \in 1 .. Floor : stack'[j] = stack[j]
      /\ \A j \in 1 .. Len(stack') : stack'[j] = Name => j <= Len(stack) /\ stack[j] = Name
  BY <1>2, <1>4 DEF Moves, StackTypes, In, Out
<1>8. OnTop' \in Nat /\ Reads' = 0 /\ Len(stack') \in Nat
  <2>1. reading' = << >> /\ IsSeq(pushing')
    BY <1>7 DEF Moves, Ways, PushingTypes, In, Out
  <2>2. Len(pushing') \in Nat
    BY <2>1, Indices
  <2>3. OnTop' \in Nat
    BY <2>2 DEF OnTop
  <2>4. Reads' = 0
    BY <1>7, <2>1 DEF Reads, In
  <2> QED BY <1>7, <2>3, <2>4, Indices
<1>9. /\ Len(stack') = Len(stack) + (left' - left) + (OnTop' - OnTop)
      /\ Len(stack') >= call.objIndex + call.given + OnTop'
  <2>1. PICK h \in Int, k \in Int, l \in Int, m \in Int, t \in Int, u \in Int, b \in Int :
          /\ h = Len(stack) /\ k = Len(stack') /\ l = left /\ m = left' /\ t = OnTop
          /\ u = OnTop' /\ b = call.objIndex + call.given
    BY <1>5, <1>6, <1>7, <1>8
  <2>2. k = h + (m - l) + (u - t) + (0 - 0)
    <3>1. Len(stack') = Len(stack) + (left' - left) + (OnTop' - OnTop) + (Reads' - Reads)
      BY <1>7
    <3> QED BY <1>6, <1>8, <2>1, <3>1
  <2>3. h >= b + t + 0
    <3>1. Len(stack) >= call.objIndex + call.given + OnTop
      BY <1>3
    <3>2. b + t + 0 = b + t
      BY <2>1
    <3> QED BY <2>1, <3>1, <3>2
  <2>4. m >= l
    BY <1>7, <2>1
  <2>5. k >= b + u + 0
    BY <2>2, <2>3, <2>4, StillReaches
  <2>6. k = h + (m - l) + (u - t) /\ k >= b + u
    BY <2>2, <2>5
  <2> QED BY <2>1, <2>6
<1>10. Len(stack') >= call.objIndex + 1
  <2>1. PICK k \in Int, o \in Int, g \in Int, u \in Int :
          k = Len(stack') /\ o = call.objIndex /\ g = call.given /\ u = OnTop'
    BY <1>5, <1>8
  <2>2. k >= o + g + u /\ g >= 1 /\ u >= 0
    BY <1>5, <1>8, <1>9, <2>1
  <2>3. k >= o + 1
    BY <2>2
  <2> QED BY <2>1, <2>3
<1>11. call.objIndex + 1 <= Len(stack') /\ stack'[call.objIndex + 1] = Name
  <2>1. call.objIndex + 1 \in 1 .. Floor
    BY <1>5
  <2>2. stack'[call.objIndex + 1] = Name
    BY <1>3, <1>7, <2>1
  <2>3. call.objIndex + 1 <= Len(stack')
    BY <1>5, <1>8, <1>10
  <2> QED BY <2>2, <2>3
<1>12. \A j \in 1 .. Len(stack') : stack'[j] = Name => j <= call.objIndex + 1
  BY <1>3, <1>5, <1>7, <1>8
<1>13. ASSUME Len(stack') = call.objIndex + call.given + OnTop'
       PROVE  \A j \in 1 .. call.given - (IF IsPushed' THEN 0 ELSE 1) :
                call.args[j] \in Fit => stack'[call.objIndex + 1 + j] = call.args[j]
  <2>1. Len(stack) = call.objIndex + call.given + OnTop
    <3>1. Len(stack) >= call.objIndex + call.given + OnTop /\ left' >= left /\ left' \in Nat
      BY <1>3, <1>7
    <3>2. PICK h \in Int, k \in Int, l \in Int, m \in Int, t \in Int, u \in Int, b \in Int :
            /\ h = Len(stack) /\ k = Len(stack') /\ l = left /\ m = left' /\ t = OnTop /\ u = OnTop'
            /\ b = call.objIndex + call.given
      BY <1>5, <1>6, <1>7, <1>8
    <3>3. k = h + (m - l) + (u - t) /\ h >= b + t /\ m >= l /\ k = b + u
      BY <1>9, <1>13, <3>1, <3>2
    <3>4. h = b + t
      BY <3>3, NothingLeft
    <3> QED BY <3>2, <3>4
  <2>2. Arrived(call.given - 1)
    BY <1>3, <2>1
  <2>3. call.given - 1 \in Nat /\ call.objIndex + 1 + (call.given - 1) <= Floor
    BY <1>5
  <2>4. \A j \in 1 .. call.given - 1 :
          call.args[j] \in Fit => stack'[call.objIndex + 1 + j] = call.args[j]
    BY <1>2, <2>2, <2>3, ConvertArrived
  <2>5. ASSUME IsPushed', call.args[call.given] \in Fit
        PROVE  stack'[call.objIndex + 1 + call.given] = call.args[call.given]
    <3>1. origin = call.args[call.given] /\ origin # Nothing
      BY <1>4, <2>5, NothingIsUnfit DEF Source
    <3>2. Top(stack') = origin
      BY <1>1, <2>5, <3>1 DEF OriginInv, IsPushed
    <3>3. OnTop' = 1
      BY <2>5 DEF OnTop, IsPushed
    <3>4. Len(stack') = call.objIndex + 1 + call.given
      BY <1>5, <1>13, <3>3
    <3> QED BY <3>1, <3>2, <3>4 DEF Top
  <2>6. ASSUME NEW j \in 1 .. call.given
        PROVE  j = call.given \/ j \in 1 .. call.given - 1
    BY <1>5
  <2>7. CASE IsPushed'
    <3>1. call.given - (IF IsPushed' THEN 0 ELSE 1) = call.given
      BY <1>5, <2>7
    <3>2. \A j \in 1 .. call.given :
            call.args[j] \in Fit => stack'[call.objIndex + 1 + j] = call.args[j]
      BY <2>4, <2>5, <2>6, <2>7
    <3> QED BY <3>1, <3>2
  <2>8. CASE ~IsPushed'
    <3>1. call.given - (IF IsPushed' THEN 0 ELSE 1) = call.given - 1
      BY <2>8
    <3> QED BY <2>4, <3>1
  <2> QED BY <2>7, <2>8
<1> QED
  BY <1>1, <1>9, <1>11, <1>12, <1>13 DEF NameInv, Arrived

\* The other parts of the invariant: what a method knows of the stack does not depend on
\* how far the conversion is.
LEMMA ConvertOthers ==
  ASSUME IInv, Convert, Moves, UNCHANGED methodVars
  PROVE  TypeInv' /\ PcInv' /\ HeightInv' /\ KeepInv' /\ ArgumentInv' /\ altered' = {}
<1>1. /\ doing # "idle" /\ ~IsPushed /\ UNCHANGED promises /\ Fit' = Fit
      /\ UNCHANGED <<pc, call, frame, held, prop, origin, sent, altered>>
  BY ConvertGoesOn, SameFit DEF methodVars
<1>2. TypeInv'
  BY <1>1 DEF IInv, TypeInv, CallTypes, IsCall, Moves
<1>3. PcInv'
  <2>1. pc # "idle" /\ pc # "script" /\ (pc = "arguments" => call.given # 0)
    BY <1>1 DEF IInv, PcInv
  <2>2. (doing \in In => doing' \in In) /\ (doing \in Out => doing' \in Out) /\ doing' # "idle"
    BY DEF Moves, In, Out
  <2> QED BY <1>1, <2>1, <2>2 DEF IInv, PcInv
<1>4. HeightInv'
  <2>1. /\ OnTop \in Nat /\ Reads \in Nat /\ Len(stack) \in Nat /\ left \in Nat
        /\ Len(stack') \in Nat /\ left' \in Nat /\ left' >= left
        /\ Len(stack') = Len(stack) + (left' - left) + (OnTop' - OnTop) + (Reads' - Reads)
    BY <1>1, Room, Indices DEF Moves, StackTypes, IInv, TypeInv
  <2>2. OnTop' \in Int /\ Reads' \in Int
    <3>1. Len(pushing') \in Nat /\ Len(reading') \in Nat
      BY Indices DEF Moves, PushingTypes, ReadingTypes
    <3> QED BY <3>1 DEF OnTop, Reads
  <2>3. Under' = Under /\ InScript' = InScript
    BY <1>1 DEF Under, InScript
  <2>4. pc # "idle" /\ pc # "script"
    BY <1>1 DEF IInv, PcInv
  <2>5. ASSUME pc = "arguments"
        PROVE  Len(stack') = left' + Under + OnTop'
    <3>1. Len(stack) = left + Under + OnTop /\ doing \in In
      BY <2>5 DEF IInv, HeightInv, PcInv
    <3>2. Reads = 0 /\ Reads' = 0
      BY <3>1 DEF IInv, TypeInv, Ways, Moves, Reads, In, Out
    <3>3. Under \in Int
      <4>1. Pops(call.handle) \in Nat /\ call.given \in Nat
        BY Indices DEF IInv, TypeInv, CallTypes, IsCall, Pops, Handles
      <4> QED BY <4>1 DEF Under
    <3> QED BY <2>1, <2>2, <3>1, <3>2, <3>3, SMTT(20)
  <2>6. ASSUME pc = "function"
        PROVE  /\ frame.bottom = frame.left + InScript
               /\ Len(stack') >= frame.bottom + OnTop' + Reads'
    <3>1. /\ frame.bottom = frame.left + InScript /\ frame.bottom \in Nat
          /\ Len(stack) >= frame.bottom + OnTop + Reads
      BY <2>6 DEF IInv, HeightInv, TypeInv, CallTypes
    <3>2. Len(stack') >= frame.bottom + OnTop' + Reads'
      <4>1. PICK h \in Int, k \in Int, l \in Int, m \in Int, t \in Int, u \in Int, r \in Int,
                 q \in Int :
              /\ h = Len(stack) /\ k = Len(stack') /\ l = left /\ m = left' /\ t = OnTop /\ u = OnTop'
              /\ r = Reads /\ q = Reads'
        BY <2>1, <2>2
      <4>2. PICK b \in Int : b = frame.bottom
        BY <3>1
      <4>3. k = h + (m - l) + (u - t) + (q - r) /\ h >= b + t + r /\ m >= l
        BY <2>1, <3>1, <4>1, <4>2
      <4>4. k >= b + u + q
        BY <4>3, StillReaches
      <4> QED BY <4>1, <4>2, <4>4
    <3> QED BY <3>1, <3>2
  <2>7. ASSUME pc = "result"
        PROVE  Len(stack') = left' + Pops(call.handle) + 1 + Reads'
    <3>1. Len(stack) = left + Pops(call.handle) + 1 + Reads /\ doing \in Out
      BY <2>7 DEF IInv, HeightInv, PcInv
    <3>2. OnTop = 0 /\ OnTop' = 0
      BY <3>1 DEF IInv, TypeInv, Ways, Moves, OnTop, In, Out
    <3>3. Pops(call.handle) \in Nat
      BY DEF IInv, TypeInv, CallTypes, IsCall, Pops, Handles
    <3>4. Reads' \in Int
      BY <2>2
    <3> DEFINE h == Len(stack)  p == Pops(call.handle)  r == Reads
               k == Len(stack') q == Reads'
    <3>5. /\ h \in Nat /\ r \in Nat /\ p \in Nat /\ q \in Int /\ left \in Nat /\ left' \in Nat
          /\ h = left + p + 1 + r /\ k = h + (left' - left) + (q - r)
      BY <2>1, <3>1, <3>2, <3>3, <3>4
    <3> HIDE DEF h, p, r, k, q
    <3>6. k = left' + p + 1 + q
      BY <3>5
    <3> QED BY <3>6 DEF k, p, q
  <2> QED BY <1>1, <2>3, <2>4, <2>5, <2>6, <2>7 DEF HeightInv
<1>5. KeepInv'
  BY <1>1 DEF IInv, KeepInv, IsKept, From
<1>6. ArgumentInv'
  <2>1. pc # "script" /\ pc # "idle"
    BY <1>1 DEF IInv, PcInv
  <2>2. pc = "arguments" =>
          origin = IF call.given = 0 THEN Nothing ELSE Source(call.args[call.given])
    BY DEF IInv, ArgumentInv
  <2>3. ASSUME pc = "function"
        PROVE  /\ frame.bottom = call.objIndex + 1 + Len(call.args)
               /\ \A j \in 1 .. Len(call.args) :
                    call.args[j] \in Fit => stack'[call.objIndex + 1 + j] = call.args[j]
    <3>1. /\ frame.bottom = call.objIndex + 1 + Len(call.args) /\ Floor = frame.bottom
          /\ Arrived(Len(call.args)) /\ Len(call.args) \in Nat
          /\ call.objIndex \in Nat
      BY <2>3, Indices DEF IInv, ArgumentInv, Floor, TypeInv, CallTypes, IsCall
    <3>2. call.objIndex + 1 + Len(call.args) <= Floor
      BY <3>1
    <3> QED BY <2>3, <3>1, <3>2, ConvertArrived
  <2> QED BY <1>1, <2>1, <2>2, <2>3 DEF ArgumentInv, Source, Arrived
<1>7. altered' = {}
  BY <1>1 DEF IInv
<1> QED
  BY <1>2, <1>3, <1>4, <1>5, <1>6, <1>7

\* Every step of a conversion.
LEMMA ConvertKeeps == ASSUME IInv, Convert, UNCHANGED methodVars PROVE IInv'
<1>1. Moves
  BY ConvertMoves
<1>2. UNCHANGED promises
  BY ConvertGoesOn
<1>3. FillInv' /\ ReadInv'
  BY <1>2, ConvertFills, ConvertReads, SameFit
<1>4. OriginInv'
  BY ConvertOrigin
<1>5. NameInv'
  BY <1>1, <1>4, ConvertName
<1>6. TypeInv' /\ PcInv' /\ HeightInv' /\ KeepInv' /\ ArgumentInv' /\ altered' = {}
  BY <1>1, ConvertOthers
<1> QED
  BY <1>3, <1>4, <1>5, <1>6 DEF IInv

--------------------------------------------------------------------------------
(* The methods.                                                               *)

\* ~ObjectHandle pops what ObjectHandle pushed, which is not a name.
LEMMA HandleFacts ==
  ASSUME NEW h \in Handles \cup {"stash", "none"}
  PROVE  /\ IsSeq(ObjectHandle(h)) /\ Len(ObjectHandle(h)) = Pops(h) /\ Pops(h) \in 0 .. 2
<1>1. CASE h \in {"GLOBAL", "stash"}
  <2>1. ObjectHandle(h) = <<Receiver(h)>> /\ Pops(h) = 1
    BY <1>1 DEF ObjectHandle, Pops
  <2> QED BY <2>1, Short1
<1>2. CASE h = "object"
  <2>1. ObjectHandle(h) = <<Receiver("stash"), Receiver(h)>> /\ Pops(h) = 2
    BY <1>2 DEF ObjectHandle, Pops
  <2> QED BY <2>1, Short2
<1>3. CASE h = "none"
  <2>1. ObjectHandle(h) = << >> /\ Pops(h) = 0
    BY <1>3 DEF ObjectHandle, Pops
  <2> QED BY <2>1, Short0
<1> QED
  BY <1>1, <1>2, <1>3 DEF Handles

\* What is known when no conversion is under way.
LEMMA NoConversion ==
  ASSUME IInv, doing = "idle" \/ IsPushed \/ IsMade
  PROVE  /\ pushing = << >> /\ reading = << >> /\ Reads = 0
         /\ OnTop = IF doing = "pushed" THEN 1 ELSE 0
         /\ IsSeq(stack) /\ Len(stack) \in Nat /\ left \in Nat /\ promises \in BOOLEAN
         /\ IsSeq(call.args) /\ Len(call.args) \in Nat /\ call.given \in 0 .. Len(call.args)
         /\ call.objIndex \in Nat /\ Pops(call.handle) \in 0 .. 2
<1>1. pushing = << >> /\ reading = << >>
  BY DEF IInv, TypeInv, Ways, In, Out, IsPushed, IsMade
<1>2. Reads = 0
  <2>1. doing # "enumerating"
    BY DEF IsPushed, IsMade
  <2> QED BY <1>1, <2>1 DEF Reads
<1>3. OnTop = IF doing = "pushed" THEN 1 ELSE 0
  BY <1>1 DEF OnTop
<1>4. /\ IsSeq(stack) /\ Len(stack) \in Nat /\ left \in Nat /\ promises \in BOOLEAN
      /\ IsSeq(call.args) /\ Len(call.args) \in Nat /\ call.given \in 0 .. Len(call.args)
      /\ call.objIndex \in Nat
  BY Indices DEF IInv, TypeInv, StackTypes, CallTypes, IsCall
<1>5. Pops(call.handle) \in 0 .. 2
  BY HandleFacts DEF IInv, TypeInv, CallTypes, IsCall
<1> QED
  BY <1>1, <1>2, <1>3, <1>4, <1>5

\* Between conversions there are no calls to speak of.
LEMMA Settled ==
  ASSUME pushing' = << >>, reading' = << >>
  PROVE  /\ FillInv' /\ ReadInv' /\ PushingTypes' /\ ReadingTypes'
         /\ OnTop' = (IF doing' = "pushed" THEN 1 ELSE 0)
         /\ doing' # "enumerating" => Reads' = 0
<1>1. FillInv' /\ ReadInv'
  BY DEF FillInv, Fills, ReadInv, Readings
<1>2. IsSeq(<< >>)
  BY Short0
<1>3. PushingTypes' /\ ReadingTypes'
  BY <1>2 DEF PushingTypes, ReadingTypes
<1>4. OnTop' = (IF doing' = "pushed" THEN 1 ELSE 0)
  BY DEF OnTop
<1>5. doing' # "enumerating" => Reads' = 0
  BY DEF Reads
<1> QED
  BY <1>1, <1>3, <1>4, <1>5

\* A method is over with nothing of its own on the stack.
LEMMA EndKeeps ==
  ASSUME IInv, doing = "idle" \/ IsPushed \/ IsMade, End,
         IsSeq(stack'), left' \in Nat, Len(stack') = left', altered' = {},
         IsKept(From(prop', sent'))
  PROVE  IInv'
<1>1. /\ pc' = "idle" /\ call' = NoMethod /\ doing' = "idle" /\ origin' = Nothing
      /\ held' = From(Undefined, Nothing) /\ UNCHANGED <<promises, pushing, reading, frame>>
  BY DEF End
<1>2. pushing' = << >> /\ reading' = << >> /\ promises \in BOOLEAN
  BY <1>1, NoConversion
<1>3. FillInv' /\ ReadInv' /\ PushingTypes' /\ ReadingTypes'
  BY <1>2, Settled
<1>4. TypeInv'
  <2>1. StackTypes' /\ Ways'
    BY <1>1, <1>2 DEF StackTypes, Ways, In, Out
  <2>2. IsSeq(<< >>) /\ Len(<< >>) = 0
    BY Short0
  <2>3. IsCall(NoMethod)
    BY <2>2 DEF IsCall, NoMethod, Methods
  <2>4. CallTypes'
    BY <1>1, <2>3 DEF CallTypes, IsCall, IInv, TypeInv
  <2> QED BY <1>3, <2>1, <2>4 DEF TypeInv
<1>5. PcInv' /\ HeightInv' /\ NameInv' /\ ArgumentInv' /\ OriginInv'
  BY <1>1 DEF PcInv, HeightInv, NameInv, ArgumentInv, OriginInv, NoMethod
<1>6. KeepInv'
  <2>1. Fit' = Fit
    BY <1>1 DEF Fit
  <2> QED BY <1>1, <2>1 DEF KeepInv, IsKept, From
<1> QED
  BY <1>3, <1>4, <1>5, <1>6 DEF IInv

\* A method begins: the receiver, then what else it needs, on the stack.
LEMMA MethodFacts ==
  ASSUME IInv, NEW m \in Methods, NEW h \in Handles \cup {"stash", "none"}, NEW args, IsSeq(args)
  PROVE  LET c == Method(m, h, args) IN
         /\ IsCall(c) /\ c.method = m /\ c.handle = h /\ c.args = args /\ c.given = 0
         /\ c.objIndex = Len(stack) + Pops(h)
<1> DEFINE c == Method(m, h, args)
<1>1. /\ c.method = m /\ c.handle = h /\ c.args = args /\ c.given = 0
      /\ c.objIndex = Len(stack) + Pops(h)
      /\ c = [method |-> c.method, handle |-> c.handle, args |-> c.args, given |-> c.given,
              objIndex |-> c.objIndex]
  BY HandleFacts DEF Method
<1>2. Len(stack) \in Nat /\ Pops(h) \in Nat /\ Len(args) \in Nat
  BY HandleFacts, Indices DEF IInv, TypeInv, StackTypes
<1> HIDE DEF c
<1>3. c.given \in 0 .. Len(c.args) /\ c.objIndex \in Nat
  BY <1>1, <1>2
<1>4. IsCall(c)
  BY <1>1, <1>3 DEF IsCall
<1> QED
  BY <1>1, <1>4 DEF c

\* setProperty begins.
LEMMA SetPropertyKeeps ==
  ASSUME IInv, NEW h \in Handles, NEW v, SetProperty(h, v)
  PROVE  IInv'
<1> DEFINE c == Method("setProperty", h, <<v>>)
<1>1. /\ pc = "idle" /\ pc' = "arguments" /\ call' = c /\ stack' = stack \o ObjectHandle(h)
      /\ doing' = "pushed"
      /\ UNCHANGED <<promises, value, pushing, reading, left, frame, held, prop, origin, sent,
                     altered>>
  BY DEF SetProperty, Begin
<1>2. doing = "idle" /\ Len(stack) = left /\ origin = Nothing
  BY <1>1 DEF IInv, PcInv, HeightInv, ArgumentInv
<1>3. /\ pushing = << >> /\ reading = << >> /\ IsSeq(stack) /\ Len(stack) \in Nat /\ left \in Nat
      /\ promises \in BOOLEAN
  BY <1>2, NoConversion
<1>4. /\ IsCall(c) /\ c.method = "setProperty" /\ c.handle = h /\ c.args = <<v>> /\ c.given = 0
  BY Short1, MethodFacts DEF Methods
<1> HIDE DEF c
<1>5. /\ IsSeq(stack') /\ Len(stack') = Len(stack) + Pops(h) /\ Pops(h) \in Nat
  BY <1>1, <1>3, HandleFacts, Joined
<1>6. /\ FillInv' /\ ReadInv' /\ PushingTypes' /\ ReadingTypes' /\ OnTop' = 1
  BY <1>1, <1>3, Settled
<1>7. TypeInv'
  <2>1. StackTypes' /\ Ways'
    BY <1>1, <1>3, <1>5 DEF StackTypes, Ways, In, Out
  <2>2. CallTypes'
    BY <1>1, <1>4 DEF CallTypes, IsCall, IInv, TypeInv
  <2> QED BY <1>6, <2>1, <2>2 DEF TypeInv
<1>8. PcInv'
  BY <1>1, <1>3, <1>4, Short1 DEF PcInv, In, IsPushed
<1>9. HeightInv'
  <2>1. Under' = Pops(h) - 1
    BY <1>1, <1>4, <1>5 DEF Under
  <2>2. Len(stack') = left' + Under' + OnTop'
    BY <1>1, <1>2, <1>3, <1>5, <1>6, <2>1
  <2> QED BY <1>1, <2>2 DEF HeightInv
<1>10. KeepInv' /\ altered' = {}
  BY <1>1 DEF KeepInv, IsKept, From, Fit, IInv
<1>11. OriginInv' /\ NameInv' /\ ArgumentInv'
  BY <1>1, <1>2, <1>4 DEF OriginInv, NameInv, ArgumentInv
<1> QED
  BY <1>6, <1>7, <1>8, <1>9, <1>10, <1>11 DEF IInv

\* callMethod, runCallback and eval begin: the name is on top.
LEMMA CallsKeeps ==
  ASSUME IInv, NEW m \in {"callMethod", "runCallback", "eval"},
         NEW h \in Handles \cup {"stash", "none"}, NEW args, IsSeq(args), Calls(m, h, args)
  PROVE  IInv'
<1> DEFINE c == Method(m, h, args)
           s == stack \o ObjectHandle(h)
<1>1. /\ pc = "idle" /\ pc' = "arguments" /\ call' = c /\ stack' = s \o <<Name>>
      /\ doing' = "pushed"
      /\ UNCHANGED <<promises, value, pushing, reading, left, frame, held, prop, origin, sent,
                     altered>>
  BY DEF Calls, Begin
<1>2. doing = "idle" /\ Len(stack) = left /\ origin = Nothing
  BY <1>1 DEF IInv, PcInv, HeightInv, ArgumentInv
<1>3. /\ pushing = << >> /\ reading = << >> /\ IsSeq(stack) /\ Len(stack) \in Nat /\ left \in Nat
      /\ promises \in BOOLEAN
  BY <1>2, NoConversion
<1>4. /\ IsCall(c) /\ c.method = m /\ c.handle = h /\ c.args = args /\ c.given = 0
      /\ c.objIndex = Len(stack) + Pops(h)
  BY MethodFacts DEF Methods
<1> HIDE DEF c
<1>5. /\ IsSeq(s) /\ Len(s) = Len(stack) + Pops(h) /\ Pops(h) \in Nat
  BY <1>3, HandleFacts, Joined
<1> HIDE DEF s
<1>6. /\ IsSeq(stack') /\ Len(stack') = Len(stack) + Pops(h) + 1
      /\ stack'[Len(s) + 1] = Name
  <2>1. stack' = Append(s, Name)
    BY <1>1, <1>5, OneMore
  <2>2. IsSeq(stack') /\ Len(stack') = Len(s) + 1 /\ stack'[Len(s) + 1] = Name
    BY <1>5, <2>1, OneMore
  <2> QED BY <1>5, <2>2
<1>7. /\ FillInv' /\ ReadInv' /\ PushingTypes' /\ ReadingTypes' /\ OnTop' = 1
  BY <1>1, <1>3, Settled
<1>8. TypeInv'
  <2>1. StackTypes' /\ Ways'
    BY <1>1, <1>3, <1>6 DEF StackTypes, Ways, In, Out
  <2>2. CallTypes'
    BY <1>1, <1>4 DEF CallTypes, IsCall, IInv, TypeInv
  <2> QED BY <1>7, <2>1, <2>2 DEF TypeInv
<1>9. PcInv'
  BY <1>1, <1>3, <1>4 DEF PcInv, In, IsPushed
<1>10. HeightInv'
  <2>1. Under' = Pops(h)
    BY <1>1, <1>4, <1>5 DEF Under
  <2>2. Len(stack') = left' + Under' + OnTop'
    BY <1>1, <1>2, <1>3, <1>5, <1>6, <1>7, <2>1
  <2> QED BY <1>1, <2>2 DEF HeightInv
<1>11. KeepInv' /\ altered' = {}
  BY <1>1 DEF KeepInv, IsKept, From, Fit, IInv
<1>12. OriginInv' /\ ArgumentInv'
  BY <1>1, <1>2, <1>4 DEF OriginInv, ArgumentInv
<1>13. NameInv'
  <2>1. /\ call'.objIndex + 1 = Len(stack') /\ call'.objIndex \in Nat /\ Len(stack') \in Nat
        /\ stack'[call'.objIndex + 1] = Name
    BY <1>1, <1>3, <1>4, <1>5, <1>6
  <2>2. IsPushed' /\ call'.given = 0
    BY <1>1, <1>3, <1>4 DEF IsPushed
  <2>3. 1 .. call'.given - (IF IsPushed' THEN 0 ELSE 1) = {}
    BY <2>2
  <2>4. Arrived(call.given - (IF IsPushed THEN 0 ELSE 1))'
    BY <2>3 DEF Arrived
  <2>5. Len(stack') >= call'.objIndex + call'.given + OnTop'
    BY <1>7, <2>1, <2>2
  <2> QED BY <2>1, <2>4, <2>5 DEF NameInv
<1> QED
  BY <1>7, <1>8, <1>9, <1>10, <1>11, <1>12, <1>13 DEF IInv

\* The next argument.
LEMMA NextArgumentKeeps == ASSUME IInv, NextArgument PROVE IInv'
<1> DEFINE v == call.args[call.given + 1]
<1>1. /\ pc = "arguments" /\ IsPushed /\ call.given < Len(call.args)
      /\ call' = [call EXCEPT !.given = @ + 1]
      /\ doing' = "fromV8" /\ value' = v /\ origin' = Source(v)
      /\ UNCHANGED <<stack, promises, pushing, reading, left, pc, frame, held, prop, sent, altered>>
  BY DEF NextArgument, FromV8
<1>2. /\ pushing = << >> /\ reading = << >> /\ IsSeq(stack) /\ Len(stack) \in Nat /\ left \in Nat
      /\ promises \in BOOLEAN /\ OnTop = 1
      /\ Len(call.args) \in Nat /\ call.given \in 0 .. Len(call.args) /\ call.objIndex \in Nat
      /\ Pops(call.handle) \in 0 .. 2
  BY <1>1, NoConversion DEF IsPushed
<1>3. /\ IsCall(call) /\ CallTypes
  BY DEF IInv, TypeInv, CallTypes
<1>4. /\ call'.method = call.method /\ call'.handle = call.handle /\ call'.args = call.args
      /\ call'.given = call.given + 1 /\ call'.objIndex = call.objIndex
      /\ call' = [method |-> call.method, handle |-> call.handle, args |-> call.args,
                  given |-> call.given + 1, objIndex |-> call.objIndex]
  BY <1>1, <1>3 DEF IsCall
<1>5. IsCall(call')
  <2>1. call'.given \in 0 .. Len(call'.args)
    BY <1>1, <1>2, <1>4
  <2> QED BY <1>3, <1>4, <2>1 DEF IsCall
<1>6. /\ FillInv' /\ ReadInv' /\ PushingTypes' /\ ReadingTypes' /\ OnTop' = 0
  BY <1>1, <1>2, Settled
<1>7. TypeInv'
  <2>1. StackTypes' /\ Ways'
    BY <1>1, <1>2 DEF StackTypes, Ways, In, Out
  <2>2. CallTypes'
    BY <1>1, <1>3, <1>5 DEF CallTypes, IsCall
  <2> QED BY <1>6, <2>1, <2>2 DEF TypeInv
<1>8. PcInv'
  <2>1. call.method # "getProperty" /\ (call.method = "setProperty" => Len(call.args) = 1)
    BY <1>1 DEF IInv, PcInv
  <2>2. call'.given # 0
    BY <1>2, <1>4
  <2> QED BY <1>1, <1>4, <2>1, <2>2 DEF PcInv, In
<1>9. HeightInv'
  <2>1. Len(stack) = left + Under + 1
    BY <1>1, <1>2 DEF IInv, HeightInv
  <2>2. Under' = Under + 1 /\ Under \in Int
    BY <1>2, <1>4 DEF Under
  <2>3. Len(stack') = left' + Under' + OnTop'
    BY <1>1, <1>2, <1>6, <2>1, <2>2
  <2> QED BY <1>1, <2>3 DEF HeightInv
<1>10. KeepInv' /\ altered' = {} /\ Fit' = Fit
  BY <1>1 DEF KeepInv, IsKept, From, Fit, IInv
<1>11. OriginInv'
  BY <1>1, <1>2, <1>10 DEF OriginInv, Source
<1>12. ArgumentInv'
  BY <1>1, <1>2, <1>4, <1>10 DEF ArgumentInv, Source
<1>13. NameInv'
  <2>1. SUFFICES ASSUME call.method # "setProperty"
                 PROVE  NameInv'
    BY <1>4 DEF NameInv
  <2>2. /\ call.objIndex + 1 <= Len(stack) /\ stack[call.objIndex + 1] = Name
        /\ \A j \in 1 .. Len(stack) : stack[j] = Name => j <= call.objIndex + 1
        /\ Len(stack) >= call.objIndex + call.given + 1
        /\ Len(stack) = call.objIndex + call.given + 1 => Arrived(call.given - 0)
    BY <1>1, <1>2, <2>1 DEF IInv, NameInv
  <2>3. call.given - 0 = call'.given - 1 /\ call'.given - 1 = call.given
    BY <1>2, <1>4
  <2>4. ~IsPushed'
    BY <1>1 DEF IsPushed
  <2>5. Arrived(call.given) => Arrived(call.given - (IF IsPushed THEN 0 ELSE 1))'
    BY <1>1, <1>4, <1>10, <2>3, <2>4 DEF Arrived
  <2>6. call'.objIndex + call'.given + OnTop' = call.objIndex + call.given + 1
    BY <1>2, <1>4, <1>6
  <2> QED BY <1>1, <1>4, <2>2, <2>3, <2>5, <2>6 DEF NameInv
<1> QED
  BY <1>6, <1>7, <1>8, <1>9, <1>10, <1>11, <1>12, <1>13 DEF IInv

\* A result, the property or what a script returns, is on top and goes to the program.
LEMMA ResultKeeps ==
  ASSUME IInv, doing = "idle", pc' = "result", NEW x, IsKept(x), ToV8(x.is), origin' = x.was,
         UNCHANGED <<promises, pushing, reading, left, frame, held, prop, sent, altered>>,
         IsCall(call'), call'.method # "setProperty" \/ Len(call'.args) = 1,
         IsSeq(stack'), Len(stack') = left + Pops(call'.handle) + 1
  PROVE  IInv'
<1>1. doing' = "toV8" /\ value' = x.is
  BY DEF ToV8
<1>2. pushing' = << >> /\ reading' = << >> /\ left \in Nat /\ promises \in BOOLEAN
  BY NoConversion
<1>3. FillInv' /\ ReadInv' /\ PushingTypes' /\ ReadingTypes' /\ OnTop' = 0 /\ Reads' = 0
  BY <1>1, <1>2, Settled
<1>4. TypeInv'
  <2>1. StackTypes' /\ Ways'
    BY <1>1, <1>2 DEF StackTypes, Ways, In, Out
  <2>2. CallTypes'
    BY DEF CallTypes, IsCall, IInv, TypeInv
  <2> QED BY <1>3, <2>1, <2>2 DEF TypeInv
<1>5. PcInv'
  BY <1>1 DEF PcInv, Out
<1>6. HeightInv'
  <2>1. Pops(call'.handle) \in Nat
    BY HandleFacts DEF IsCall
  <2>2. Len(stack') = left' + Pops(call'.handle) + 1 + Reads'
    BY <1>2, <1>3, <2>1
  <2> QED BY <2>2 DEF HeightInv
<1>7. KeepInv' /\ altered' = {} /\ Fit' = Fit
  BY DEF KeepInv, IsKept, From, Fit, IInv
<1>8. OriginInv'
  BY <1>1, <1>2, <1>7 DEF OriginInv, IsKept
<1>9. NameInv' /\ ArgumentInv'
  BY DEF NameInv, ArgumentInv
<1> QED
  BY <1>3, <1>4, <1>5, <1>6, <1>7, <1>8, <1>9 DEF IInv

\* getProperty begins: all it needs is there.
LEMMA GetPropertyKeeps == ASSUME IInv, GetProperty PROVE IInv'
<1> DEFINE s == stack \o ObjectHandle("GLOBAL")
           c == Method("getProperty", "GLOBAL", << >>)
<1>1. /\ pc = "idle" /\ pc' = "result" /\ call' = c /\ stack' = s \o <<prop>>
      /\ ToV8(prop) /\ origin' = sent
      /\ UNCHANGED <<promises, pushing, reading, left, frame, held, prop, sent, altered>>
  BY DEF GetProperty, Begin
<1>2. doing = "idle" /\ Len(stack) = left
  BY <1>1 DEF IInv, PcInv, HeightInv
<1>3. /\ IsSeq(stack) /\ Len(stack) \in Nat /\ left \in Nat
  BY <1>2, NoConversion
<1>4. /\ IsCall(c) /\ c.method = "getProperty" /\ c.handle = "GLOBAL"
  BY Short0, MethodFacts DEF Methods, Handles
<1> HIDE DEF c
<1>5. /\ IsSeq(s) /\ Len(s) = Len(stack) + Pops("GLOBAL") /\ Pops("GLOBAL") \in Nat
  BY <1>3, HandleFacts, Joined DEF Handles
<1> HIDE DEF s
<1>6. IsSeq(stack') /\ Len(stack') = left + Pops("GLOBAL") + 1
  <2>1. stack' = Append(s, prop)
    BY <1>1, <1>5, OneMore
  <2> QED BY <1>2, <1>5, <2>1, OneMore
<1>7. PICK x : x = From(prop, sent)
  OBVIOUS
<1>8. IsKept(x) /\ x.is = prop /\ x.was = sent
  BY <1>7 DEF IInv, KeepInv, From
<1> QED
  BY <1>1, <1>2, <1>4, <1>6, <1>8, ResultKeeps

\* Before Duktape acts.
LEMMA ReadyFacts ==
  ASSUME IInv, Ready
  PROVE  /\ pc = "arguments" /\ IsPushed /\ doing = "pushed" /\ call.given = Len(call.args)
         /\ call.method # "getProperty"
         /\ call.method = "setProperty" => Len(call.args) = 1
         /\ Len(stack) = left + Pops(call.handle) + Len(call.args)
                           + (IF call.method = "setProperty" THEN 0 ELSE 1)
<1>1. pc = "arguments" /\ IsPushed /\ doing = "pushed" /\ call.given = Len(call.args)
  BY DEF Ready, IsPushed
<1>2. call.method # "getProperty" /\ (call.method = "setProperty" => Len(call.args) = 1)
  BY <1>1 DEF IInv, PcInv
<1>3. /\ OnTop = 1 /\ left \in Nat /\ Len(call.args) \in Nat /\ Pops(call.handle) \in 0 .. 2
  BY <1>1, NoConversion
<1>4. Len(stack) = left + Under + OnTop
  BY <1>1 DEF IInv, HeightInv
<1>5. Len(stack) = left + Pops(call.handle) + Len(call.args)
                     + (IF call.method = "setProperty" THEN 0 ELSE 1)
  <2>1. PICK l \in Int, p \in Int, a \in Int :
          l = left /\ p = Pops(call.handle) /\ a = Len(call.args)
    BY <1>3
  <2>2. CASE call.method = "setProperty"
    <3>1. Under = p + a - 1
      BY <1>1, <2>1, <2>2 DEF Under
    <3>2. Len(stack) = l + (p + a - 1) + 1
      BY <1>3, <1>4, <2>1, <3>1
    <3>3. l + (p + a - 1) + 1 = l + p + a + 0
      OBVIOUS
    <3> QED BY <2>1, <2>2, <3>2, <3>3
  <2>3. CASE call.method # "setProperty"
    <3>1. Under = p + a
      BY <1>1, <2>1, <2>3 DEF Under
    <3>2. Len(stack) = l + (p + a) + 1
      BY <1>3, <1>4, <2>1, <3>1
    <3>3. l + (p + a) + 1 = l + p + a + 1
      OBVIOUS
    <3> QED BY <2>1, <2>3, <3>2, <3>3
  <2> QED BY <2>2, <2>3
<1> QED
  BY <1>1, <1>2, <1>5

\* setProperty ends; what the property gets is what was sent.
LEMMA PutPropertyKeeps == ASSUME IInv, PutProperty PROVE IInv'
<1> DEFINE hits == /\ call.handle = "GLOBAL"
                   /\ stack[Len(stack) - 1] = Receiver("GLOBAL")
<1>1. /\ Ready /\ call.method = "setProperty" /\ End
      /\ prop' = IF hits THEN Top(stack) ELSE prop
      /\ sent' = IF hits THEN origin ELSE sent
      /\ stack' = Drop(stack, 1 + Pops(call.handle))
      /\ UNCHANGED <<left, altered>>
  BY DEF PutProperty
<1> HIDE DEF hits
<1>2. /\ IsPushed /\ doing = "pushed" /\ Len(stack) = left + Pops(call.handle) + 1
      /\ pushing = << >> /\ IsSeq(stack) /\ left \in Nat /\ Pops(call.handle) \in Nat
  <2>1. /\ IsPushed /\ doing = "pushed" /\ Len(call.args) = 1
        /\ Len(stack) = left + Pops(call.handle) + Len(call.args) + 0
    BY <1>1, ReadyFacts
  <2>2. pushing = << >> /\ IsSeq(stack) /\ left \in Nat /\ Pops(call.handle) \in Nat
    BY <2>1, NoConversion
  <2> QED BY <2>1, <2>2
<1>3. 1 + Pops(call.handle) \in 0 .. Len(stack) /\ Len(stack) - (1 + Pops(call.handle)) = left
  BY <1>2
<1>4. IsSeq(stack') /\ Len(stack') = left'
  BY <1>1, <1>2, <1>3, Dropped
<1>5. IsKept(From(prop', sent'))
  <2>1. IsKept(From(prop, sent))
    BY DEF IInv, KeepInv
  <2>2. origin # Nothing => origin \in Fit /\ Top(stack) = origin
    BY <1>2 DEF IInv, OriginInv
  <2> QED BY <1>1, <2>1, <2>2 DEF IsKept, From
<1>6. altered' = {} /\ left' \in Nat
  BY <1>1, <1>2 DEF IInv
<1> QED
  BY <1>1, <1>2, <1>4, <1>5, <1>6, EndKeeps

\* The script throws, or is not found.
LEMMA ThrowsKeeps ==
  ASSUME IInv, NotFound \/ ScriptThrows
  PROVE  IInv'
<1> DEFINE n == Len(call.args) + 1 + Pops(call.handle)
<1>1. stack' = Drop(stack, n) /\ End /\ UNCHANGED <<left, prop, sent, altered>>
  BY DEF NotFound, ScriptThrows, Throws
<1>2. doing = "idle" \/ IsPushed
  BY ReadyFacts DEF NotFound, ScriptThrows, IInv, PcInv
<1>3. /\ IsSeq(stack) /\ left \in Nat /\ Pops(call.handle) \in Nat /\ Len(call.args) \in Nat
  BY <1>2, NoConversion
<1>4. Len(stack) = left + n
  <2>1. CASE NotFound
    <3>1. Len(stack) = left + Pops(call.handle) + Len(call.args) + 1
      BY <2>1, ReadyFacts DEF NotFound
    <3> QED BY <1>3, <3>1
  <2>2. CASE ScriptThrows
    <3>1. Len(stack) = left + (Pops(call.handle) + 1 + Len(call.args))
      BY <2>2 DEF IInv, HeightInv, InScript, ScriptThrows
    <3> QED BY <1>3, <3>1
  <2> QED BY <2>1, <2>2
<1>5. n \in 0 .. Len(stack) /\ Len(stack) - n = left
  <2>1. n \in Nat
    BY <1>3
  <2> HIDE DEF n
  <2> QED BY <1>3, <1>4, <2>1
<1> HIDE DEF n
<1>6. IsSeq(stack') /\ Len(stack') = left'
  BY <1>1, <1>3, <1>5, Dropped
<1>7. IsKept(From(prop', sent'))
  BY <1>1 DEF IInv, KeepInv, IsKept, From
<1>8. altered' = {} /\ left' \in Nat
  BY <1>1, <1>3 DEF IInv
<1> QED
  BY <1>1, <1>2, <1>6, <1>7, <1>8, EndKeeps

\* The result goes to the program as it was.
LEMMA ReturnKeeps == ASSUME IInv, Return PROVE IInv'
<1> DEFINE resolved == IF call.method = "getProperty" THEN 1 ELSE 0
           n == 1 - resolved + Pops(call.handle)
<1>1. /\ pc = "result" /\ IsMade /\ Arrives(value, origin) /\ End
      /\ stack' = Drop(stack, n) /\ left' = left + resolved /\ UNCHANGED <<prop, sent>>
  BY DEF Return
<1>2. /\ IsSeq(stack) /\ left \in Nat /\ Pops(call.handle) \in Nat /\ Reads = 0
      /\ pushing = << >> /\ reading = << >> /\ doing = "made"
  BY <1>1, NoConversion DEF IsMade
<1>3. Len(stack) = left + Pops(call.handle) + 1
  BY <1>1, <1>2 DEF IInv, HeightInv
<1>4. n \in 0 .. Len(stack) /\ Len(stack) - n = left + resolved /\ left + resolved \in Nat
  BY <1>2, <1>3
<1> HIDE DEF n, resolved
<1>5. IsSeq(stack') /\ Len(stack') = left' /\ left' \in Nat
  BY <1>1, <1>2, <1>4, Dropped
<1>6. IsKept(From(prop', sent'))
  BY <1>1 DEF IInv, KeepInv, IsKept, From
<1>7. altered' = {}
  <2>1. origin # Nothing => value = origin
    BY <1>2 DEF IInv, OriginInv
  <2> QED BY <1>1, <2>1 DEF Arrives, IInv
<1> QED
  BY <1>1, <1>5, <1>6, <1>7, EndKeeps

\* What a script has, it has as it was.
LEMMA HasKept ==
  ASSUME IInv, pc = "script", NEW x \in Has
  PROVE  IsKept(x)
<1>1. CASE x = held
  BY <1>1 DEF IInv, KeepInv
<1>2. ASSUME NEW i \in 1 .. Len(call.args), x = From(stack[call.objIndex + 1 + i], Source(call.args[i]))
      PROVE  IsKept(x)
  <2>1. call.args[i] \in Fit => stack[call.objIndex + 1 + i] = call.args[i]
    BY <1>2 DEF IInv, ArgumentInv, Arrived
  <2>2. x.is = stack[call.objIndex + 1 + i] /\ x.was = Source(call.args[i])
    BY <1>2 DEF From
  <2> QED BY <2>1, <2>2 DEF IsKept, Source
<1>3. ASSUME NEW w, x = From(w, Source(w))
      PROVE  IsKept(x)
  BY <1>3 DEF IsKept, From, Source
<1> QED
  BY <1>1, <1>2, <1>3 DEF Has

\* The script is called: with nothing left among them, all arguments are on top of the name.
LEMMA EnterScriptKeeps == ASSUME IInv, EnterScript PROVE IInv'
<1>1. /\ Ready /\ call.method # "setProperty" /\ Called /\ pc' = "script" /\ doing' = "idle"
      /\ UNCHANGED <<stack, promises, value, pushing, reading, left, call, frame, held, prop, origin,
                     sent, altered>>
  BY DEF EnterScript
<1>2. /\ pc = "arguments" /\ IsPushed /\ doing = "pushed" /\ call.given = Len(call.args)
      /\ call.method # "getProperty"
      /\ Len(stack) = left + Pops(call.handle) + Len(call.args) + 1
  BY <1>1, ReadyFacts
<1>3. /\ pushing = << >> /\ reading = << >> /\ IsSeq(stack) /\ Len(stack) \in Nat /\ left \in Nat
      /\ promises \in BOOLEAN /\ OnTop = 1
      /\ Len(call.args) \in Nat /\ call.objIndex \in Nat /\ Pops(call.handle) \in Nat
  BY <1>2, NoConversion
<1>4. /\ FillInv' /\ ReadInv' /\ PushingTypes' /\ ReadingTypes'
  BY <1>1, <1>3, Settled
<1>5. TypeInv' /\ PcInv'
  <2>1. StackTypes' /\ Ways' /\ CallTypes'
    BY <1>1, <1>3 DEF StackTypes, Ways, In, Out, CallTypes, IsCall, IInv, TypeInv
  <2> QED BY <1>1, <1>2, <1>4, <2>1 DEF TypeInv, PcInv
<1>6. HeightInv'
  <2>1. Len(stack) = left + InScript
    BY <1>2, <1>3 DEF InScript
  <2> QED BY <1>1, <2>1 DEF HeightInv, InScript
<1>7. Fit' = Fit /\ KeepInv' /\ OriginInv' /\ NameInv' /\ altered' = {}
  BY <1>1, <1>3 DEF KeepInv, IsKept, From, Fit, IInv, OriginInv, NameInv
<1>8. Len(stack) = call.objIndex + 1 + Len(call.args) /\ Arrived(Len(call.args))
  <2>1. /\ \A j \in 1 .. Len(stack) : stack[j] = Name => j <= call.objIndex + 1
        /\ Len(stack) >= call.objIndex + Len(call.args) + 1
        /\ Len(stack) = call.objIndex + Len(call.args) + 1 => Arrived(Len(call.args) - 0)
    BY <1>1, <1>2, <1>3 DEF IInv, NameInv
  <2>2. PICK h \in Nat, a \in Nat, o \in Nat : h = Len(stack) /\ a = Len(call.args) /\ o = call.objIndex
    BY <1>3
  <2>3. h >= o + a + 1 /\ stack[h - a] = Name
    BY <1>1, <2>1, <2>2 DEF Called
  <2>4. h - a \in 1 .. h
    BY <2>3
  <2>5. h - a <= o + 1
    BY <2>1, <2>2, <2>3, <2>4
  <2>6. h = o + a + 1 /\ h = o + 1 + a /\ a - 0 = a
    BY <2>3, <2>5
  <2> QED BY <2>1, <2>2, <2>6
<1>9. ArgumentInv'
  BY <1>1, <1>7, <1>8 DEF ArgumentInv, Arrived
<1> QED
  BY <1>4, <1>5, <1>6, <1>7, <1>9 DEF IInv

\* A script sets the property to what it has.
LEMMA ScriptSetsKeeps == ASSUME IInv, NEW x \in Has, ScriptSets(x) PROVE IInv'
<1>1. /\ pc = "script" /\ prop' = x.is /\ sent' = x.was
      /\ UNCHANGED <<stack, promises, doing, value, pushing, reading, left, pc, call, frame, held,
                     origin, altered>>
  BY DEF ScriptSets
<1>2. IsKept(x) /\ Fit' = Fit /\ doing = "idle"
  BY <1>1, HasKept DEF Fit, IInv, PcInv
<1>3. pushing = << >> /\ reading = << >>
  BY <1>2, NoConversion
<1>4. /\ FillInv' /\ ReadInv' /\ PushingTypes' /\ ReadingTypes'
  BY <1>1, <1>3, Settled
<1>5. TypeInv'
  BY <1>1, <1>4 DEF IInv, TypeInv, StackTypes, Ways, CallTypes, IsCall
<1>6. PcInv'
  BY <1>1, <1>2 DEF IInv, PcInv
<1>7. HeightInv'
  BY <1>1 DEF IInv, HeightInv, InScript
<1>8. KeepInv'
  BY <1>1, <1>2 DEF IInv, KeepInv, IsKept, From
<1>9. OriginInv'
  BY <1>1, <1>2 DEF IInv, OriginInv
<1>10. NameInv' /\ ArgumentInv' /\ altered' = {}
  BY <1>1, <1>2 DEF IInv, NameInv, ArgumentInv, Arrived
<1> QED
  BY <1>4, <1>5, <1>6, <1>7, <1>8, <1>9, <1>10 DEF IInv

\* A script returns what it has.
LEMMA ScriptReturnsKeeps == ASSUME IInv, NEW x \in Has, ScriptReturns(x) PROVE IInv'
<1> DEFINE n == Len(call.args) + 1
           s == Drop(stack, n)
<1>1. /\ pc = "script" /\ stack' = Append(s, x.is) /\ pc' = "result" /\ ToV8(x.is) /\ origin' = x.was
      /\ UNCHANGED <<promises, pushing, reading, left, call, frame, held, prop, sent, altered>>
  BY DEF ScriptReturns
<1>2. /\ doing = "idle" /\ call.method # "setProperty" /\ IsKept(x)
  BY <1>1, HasKept DEF IInv, PcInv
<1>3. /\ IsSeq(stack) /\ Len(stack) \in Nat /\ left \in Nat /\ Len(call.args) \in Nat
      /\ Pops(call.handle) \in Nat /\ IsCall(call)
  BY <1>2, NoConversion DEF IInv, TypeInv, CallTypes
<1>4. Len(stack) = left + (Pops(call.handle) + 1 + Len(call.args))
  BY <1>1 DEF IInv, HeightInv, InScript
<1>5. n \in 0 .. Len(stack) /\ Len(stack) - n = left + Pops(call.handle)
  BY <1>3, <1>4
<1> HIDE DEF n
<1>6. IsSeq(s) /\ Len(s) = left + Pops(call.handle)
  BY <1>3, <1>5, Dropped
<1> HIDE DEF s
<1>7. IsSeq(stack') /\ Len(stack') = left + Pops(call.handle) + 1
  BY <1>1, <1>6, OneMore
<1>8. IsCall(call') /\ call'.method # "setProperty" /\ Len(stack') = left + Pops(call'.handle) + 1
  BY <1>1, <1>2, <1>3, <1>7
<1> QED
  BY <1>1, <1>2, <1>7, <1>8, ResultKeeps

\* A node function that a script calls has a frame of its own above the stack of the script.
LEMMA FunctionKeeps ==
  ASSUME IInv, EnterFunction,
         doing' = "toV8" \/ doing' = "fromV8",
         origin' # Nothing => origin' \in Fit /\ value' = origin',
         UNCHANGED <<promises, pushing, reading, left, call, held, prop, sent, altered>>,
         IsSeq(stack'), Len(stack') \in Nat, Len(stack') >= Len(stack),
         \A j \in 1 .. Len(stack) : stack'[j] = stack[j]
  PROVE  IInv'
<1>1. pc = "script" /\ pc' = "function" /\ frame' = [bottom |-> Len(stack), left |-> left]
  BY DEF EnterFunction
<1>2. doing = "idle" /\ call.method \notin {"setProperty", "getProperty"}
  BY <1>1 DEF IInv, PcInv
<1>3. /\ pushing' = << >> /\ reading' = << >> /\ Len(stack) \in Nat /\ left \in Nat
      /\ promises \in BOOLEAN /\ Len(call.args) \in Nat /\ call.objIndex \in Nat
  BY <1>2, NoConversion
<1>4. /\ FillInv' /\ ReadInv' /\ PushingTypes' /\ ReadingTypes' /\ OnTop' = 0 /\ Reads' = 0
  BY <1>3, Settled
<1>5. frame'.bottom = Len(stack) /\ frame'.left = left /\ frame' \in [bottom : Nat, left : Nat]
  BY <1>1, <1>3
<1>6. TypeInv'
  <2>1. StackTypes' /\ Ways'
    BY <1>3 DEF StackTypes, Ways, In, Out
  <2>2. CallTypes'
    BY <1>1, <1>5 DEF CallTypes, IsCall, IInv, TypeInv
  <2> QED BY <1>4, <2>1, <2>2 DEF TypeInv
<1>7. PcInv'
  BY <1>1, <1>2 DEF PcInv
<1>8. HeightInv'
  <2>1. Len(stack) = left + InScript
    BY <1>1 DEF IInv, HeightInv
  <2>2. InScript' = InScript
    BY DEF InScript
  <2>3. frame'.bottom = frame'.left + InScript' /\ Len(stack') >= frame'.bottom + OnTop' + Reads'
    BY <1>3, <1>4, <1>5, <2>1, <2>2
  <2> QED BY <1>1, <2>3 DEF HeightInv
<1>9. Fit' = Fit /\ KeepInv' /\ altered' = {}
  BY DEF KeepInv, IsKept, From, Fit, IInv
<1>10. OriginInv'
  BY <1>3, <1>9 DEF OriginInv
<1>11. NameInv'
  BY <1>1 DEF NameInv
<1>12. ArgumentInv'
  <2>1. Len(stack) = call.objIndex + 1 + Len(call.args) /\ Arrived(Len(call.args))
    BY <1>1 DEF IInv, ArgumentInv
  <2>2. ASSUME NEW j \in 1 .. Len(call.args), call.args[j] \in Fit
        PROVE  stack'[call.objIndex + 1 + j] = call.args[j]
    <3>1. call.objIndex + 1 + j \in 1 .. Len(stack)
      BY <1>3, <2>1
    <3> QED BY <2>1, <2>2, <3>1 DEF Arrived
  <2> QED BY <1>1, <1>5, <1>9, <2>1, <2>2 DEF ArgumentInv, Arrived
<1> QED
  BY <1>4, <1>6, <1>7, <1>8, <1>9, <1>10, <1>11, <1>12 DEF IInv

\* With an argument,
LEMMA PassToFunctionKeeps == ASSUME IInv, NEW x \in Has, PassToFunction(x) PROVE IInv'
<1>1. /\ EnterFunction /\ stack' = Append(stack, x.is) /\ doing' = "toV8" /\ value' = x.is
      /\ origin' = x.was
      /\ UNCHANGED <<promises, pushing, reading, left, call, held, prop, sent, altered>>
  BY DEF PassToFunction, ToV8
<1>2. IsSeq(stack) /\ Len(stack) \in Nat
  BY Indices DEF IInv, TypeInv, StackTypes
<1>3. /\ IsSeq(stack') /\ Len(stack') = Len(stack) + 1
      /\ \A j \in 1 .. Len(stack) : stack'[j] = stack[j]
  BY <1>1, <1>2, OneMore
<1>4. origin' # Nothing => origin' \in Fit /\ value' = origin'
  BY <1>1, HasKept DEF EnterFunction, IsKept
<1>5. Len(stack') \in Nat /\ Len(stack') >= Len(stack)
  BY <1>2, <1>3
<1> QED
  BY <1>1, <1>3, <1>4, <1>5, FunctionKeeps

\* and without.
LEMMA AskFunctionKeeps == ASSUME IInv, NEW v, AskFunction(v) PROVE IInv'
<1>1. /\ EnterFunction /\ doing' = "fromV8" /\ value' = v /\ origin' = Source(v)
      /\ UNCHANGED <<stack, promises, pushing, reading, left, call, held, prop, sent, altered>>
  BY DEF AskFunction, FromV8
<1>2. IsSeq(stack') /\ Len(stack) \in Nat /\ Len(stack') = Len(stack)
  BY <1>1, Indices DEF IInv, TypeInv, StackTypes
<1>3. origin' # Nothing => origin' \in Fit /\ value' = origin'
  BY <1>1 DEF Source
<1>4. Len(stack') \in Nat /\ Len(stack') >= Len(stack)
  BY <1>2
<1> QED
  BY <1>1, <1>2, <1>3, <1>4, FunctionKeeps

\* The function answers with what it was given, which arrived as it was.
LEMMA FunctionAnswersKeeps == ASSUME IInv, FunctionAnswers PROVE IInv'
<1>1. /\ pc = "function" /\ IsMade /\ doing' = "fromV8" /\ value' = value /\ Arrives(value, origin)
      /\ UNCHANGED <<stack, promises, pushing, reading, left, pc, call, frame, held, prop, origin, sent>>
  BY DEF FunctionAnswers, FromV8
<1>2. /\ pushing = << >> /\ reading = << >> /\ Len(stack) \in Nat /\ doing = "made" /\ OnTop = 0
      /\ Reads = 0
  BY <1>1, NoConversion DEF IsMade
<1>3. /\ FillInv' /\ ReadInv' /\ PushingTypes' /\ ReadingTypes' /\ OnTop' = 0 /\ Reads' = 0
  BY <1>1, <1>2, Settled
<1>4. TypeInv'
  BY <1>1, <1>2, <1>3 DEF IInv, TypeInv, StackTypes, Ways, In, Out, CallTypes, IsCall
<1>5. PcInv'
  BY <1>1 DEF IInv, PcInv
<1>6. HeightInv'
  BY <1>1, <1>2, <1>3 DEF IInv, HeightInv, InScript
<1>7. Fit' = Fit
  BY <1>1 DEF Fit
<1>8. origin # Nothing => origin \in Fit /\ value = origin
  BY <1>2 DEF IInv, OriginInv
<1>9. altered' = {}
  BY <1>1, <1>8 DEF IInv, Arrives
<1>10. KeepInv'
  BY <1>1, <1>7 DEF IInv, KeepInv, IsKept, From
<1>11. OriginInv'
  BY <1>1, <1>2, <1>7, <1>8 DEF OriginInv
<1>12. NameInv' /\ ArgumentInv'
  BY <1>1, <1>7 DEF IInv, NameInv, ArgumentInv, Arrived
<1> QED
  BY <1>3, <1>4, <1>5, <1>6, <1>9, <1>10, <1>11, <1>12 DEF IInv

\* Its frame goes, and the script has what was on top.
LEMMA FunctionReturnsKeeps == ASSUME IInv, FunctionReturns PROVE IInv'
<1>1. /\ pc = "function" /\ IsPushed
      /\ held' = From(Top(stack), origin) /\ Arrives(Top(stack), origin)
      /\ stack' = SubSeq(stack, 1, frame.bottom) /\ left' = frame.left
      /\ frame' = NoFrame /\ pc' = "script" /\ doing' = "idle"
      /\ UNCHANGED <<promises, value, pushing, reading, call, prop, origin, sent>>
  BY DEF FunctionReturns
<1>2. /\ pushing = << >> /\ reading = << >> /\ IsSeq(stack) /\ Len(stack) \in Nat /\ doing = "pushed"
      /\ OnTop = 1 /\ Reads = 0 /\ promises \in BOOLEAN /\ Len(call.args) \in Nat
      /\ call.objIndex \in Nat
  BY <1>1, NoConversion DEF IsPushed
<1>3. /\ FillInv' /\ ReadInv' /\ PushingTypes' /\ ReadingTypes'
  BY <1>1, <1>2, Settled
<1>4. frame.bottom \in Nat /\ frame.left \in Nat
  BY DEF IInv, TypeInv, CallTypes
<1>5. /\ frame.bottom = frame.left + InScript
      /\ frame.bottom = call.objIndex + 1 + Len(call.args) /\ Arrived(Len(call.args))
      /\ call.method \notin {"setProperty", "getProperty"}
      /\ Len(stack) >= frame.bottom + 1 + 0
  BY <1>1, <1>2 DEF IInv, HeightInv, ArgumentInv, PcInv
<1>6. frame.bottom \in 0 .. Len(stack)
  BY <1>2, <1>4, <1>5
<1>7. /\ IsSeq(stack') /\ Len(stack') = frame.bottom
      /\ \A j \in 1 .. frame.bottom : stack'[j] = stack[j]
  BY <1>1, <1>2, <1>6, Cut
<1>8. TypeInv'
  <2>1. StackTypes' /\ Ways'
    BY <1>1, <1>2, <1>4, <1>7 DEF StackTypes, Ways, In, Out
  <2>2. NoFrame \in [bottom : Nat, left : Nat]
    BY DEF NoFrame
  <2>3. CallTypes'
    BY <1>1, <2>2 DEF CallTypes, IsCall, IInv, TypeInv
  <2> QED BY <1>3, <2>1, <2>3 DEF TypeInv
<1>9. PcInv'
  BY <1>1, <1>5 DEF PcInv
<1>10. HeightInv'
  BY <1>1, <1>5, <1>7 DEF HeightInv, InScript
<1>11. Fit' = Fit
  BY <1>1 DEF Fit
<1>12. origin # Nothing => origin \in Fit /\ Top(stack) = origin
  BY <1>2 DEF IInv, OriginInv
<1>13. altered' = {}
  BY <1>1, <1>12 DEF IInv, Arrives
<1>14. KeepInv'
  <2>1. IsKept(From(prop, sent))
    BY DEF IInv, KeepInv
  <2>2. held'.is = Top(stack) /\ held'.was = origin
    BY <1>1 DEF From
  <2> QED BY <1>1, <1>11, <1>12, <2>1, <2>2 DEF KeepInv, IsKept, From
<1>15. OriginInv'
  BY <1>1, <1>2, <1>11, <1>12 DEF OriginInv
<1>16. ArgumentInv'
  <2>1. ASSUME NEW j \in 1 .. Len(call.args), call.args[j] \in Fit
        PROVE  stack'[call.objIndex + 1 + j] = call.args[j]
    <3>1. call.objIndex + 1 + j \in 1 .. frame.bottom
      BY <1>2, <1>5
    <3> QED BY <1>5, <1>7, <2>1, <3>1 DEF Arrived
  <2> QED BY <1>1, <1>5, <1>7, <1>11, <2>1 DEF ArgumentInv, Arrived
<1>17. NameInv'
  BY <1>1 DEF NameInv
<1> QED
  BY <1>3, <1>8, <1>9, <1>10, <1>13, <1>14, <1>15, <1>16, <1>17 DEF IInv

\* getObject of what is no object leaves a slot.
LEMMA GetObjectKeeps == ASSUME IInv, GetObject PROVE IInv'
<1> DEFINE f == IF IsObject(prop) THEN 1 ELSE 0
           g == IF IsObject(prop) THEN 0 ELSE 1
           o == stack \o ObjectHandle("GLOBAL")
           s == o \o <<prop>>
<1>1. /\ pc = "idle" /\ stack' = Drop(s, f + Pops("GLOBAL")) /\ left' = left + g
      /\ UNCHANGED <<promises, doing, value, pushing, reading, methodVars>>
  BY DEF GetObject
<1>2. f \in {0, 1} /\ g = 1 - f
  OBVIOUS
<1> HIDE DEF f, g
<1>3. doing = "idle" /\ Len(stack) = left /\ origin = Nothing
  BY <1>1 DEF IInv, PcInv, HeightInv, ArgumentInv
<1>4. pushing = << >> /\ reading = << >> /\ IsSeq(stack) /\ left \in Nat /\ promises \in BOOLEAN
  BY <1>3, NoConversion
<1>5. IsSeq(o) /\ Len(o) = left + 1 /\ Pops("GLOBAL") = 1
  <2>1. Pops("GLOBAL") = 1
    BY DEF Pops
  <2> QED BY <1>3, <1>4, <2>1, HandleFacts, Joined DEF Handles
<1> HIDE DEF o
<1>6. IsSeq(s) /\ Len(s) = left + 2
  <2>1. s = Append(o, prop)
    BY <1>5, OneMore
  <2> HIDE DEF s
  <2> QED BY <1>4, <1>5, <2>1, OneMore
<1> HIDE DEF s
<1>7. f + 1 \in 0 .. Len(s) /\ Len(s) - (f + 1) = left + g /\ left + g \in Nat
  BY <1>2, <1>4, <1>6
<1>8. IsSeq(stack') /\ Len(stack') = left' /\ left' \in Nat
  BY <1>1, <1>5, <1>6, <1>7, Dropped
<1>9. /\ FillInv' /\ ReadInv' /\ PushingTypes' /\ ReadingTypes'
  BY <1>1, <1>4, Settled
<1>10. UNCHANGED <<pc, call, frame, held, prop, origin, sent, altered>>
  BY <1>1 DEF methodVars
<1>11. TypeInv'
  BY <1>1, <1>4, <1>8, <1>9, <1>10 DEF IInv, TypeInv, StackTypes, Ways, CallTypes, IsCall
<1>12. PcInv'
  BY <1>1, <1>3, <1>10 DEF IInv, PcInv
<1>13. HeightInv'
  BY <1>1, <1>8, <1>10 DEF HeightInv
<1>14. KeepInv' /\ altered' = {}
  BY <1>1, <1>10 DEF IInv, KeepInv, IsKept, From, Fit
<1>15. OriginInv' /\ NameInv' /\ ArgumentInv'
  BY <1>1, <1>3, <1>10 DEF OriginInv, NameInv, ArgumentInv
<1> QED
  BY <1>9, <1>11, <1>12, <1>13, <1>14, <1>15 DEF IInv

\* With Promise there is more to keep.
LEMMA EnablePromisesKeeps == ASSUME IInv, EnablePromises PROVE IInv'
<1>1. /\ pc = "idle" /\ promises' = TRUE /\ promises = FALSE
      /\ UNCHANGED <<stack, doing, value, pushing, reading, left, methodVars>>
  BY DEF EnablePromises, IInv, TypeInv, StackTypes
<1>2. doing = "idle" /\ Len(stack) = left /\ origin = Nothing
  BY <1>1 DEF IInv, PcInv, HeightInv, ArgumentInv
<1>3. pushing = << >> /\ reading = << >>
  BY <1>2, NoConversion
<1>4. UNCHANGED <<pc, call, frame, held, prop, origin, sent, altered>>
  BY <1>1 DEF methodVars
<1>5. /\ FillInv' /\ ReadInv' /\ PushingTypes' /\ ReadingTypes'
  BY <1>1, <1>3, Settled
<1>6. TypeInv'
  BY <1>1, <1>4, <1>5 DEF IInv, TypeInv, StackTypes, Ways, CallTypes, IsCall
<1>7. PcInv' /\ HeightInv'
  BY <1>1, <1>2, <1>4 DEF PcInv, HeightInv, IInv
<1>8. Fit \subseteq Fit'
  BY <1>1 DEF Fit
<1>9. KeepInv' /\ altered' = {}
  BY <1>4, <1>8 DEF IInv, KeepInv, IsKept, From
<1>10. OriginInv' /\ NameInv' /\ ArgumentInv'
  BY <1>1, <1>2, <1>4 DEF OriginInv, NameInv, ArgumentInv
<1> QED
  BY <1>5, <1>6, <1>7, <1>9, <1>10 DEF IInv

\* Nothing happens.
LEMMA StutterKeeps == ASSUME IInv, UNCHANGED vars PROVE IInv'
<1>1. /\ UNCHANGED <<stack, promises, doing, value, pushing, reading, left>>
      /\ UNCHANGED <<pc, call, frame, held, prop, origin, sent, altered>>
      /\ UNCHANGED methodVars
  BY DEF vars, methodVars
<1>2. FillInv' /\ ReadInv' /\ Fit' = Fit
  BY <1>1, SameFit DEF IInv, FillInv, ReadInv
<1>3. TypeInv' /\ PcInv'
  BY <1>1 DEF IInv, TypeInv, StackTypes, PushingTypes, ReadingTypes, Ways, CallTypes, PcInv, IsPushed
<1>4. HeightInv'
  BY <1>1 DEF IInv, HeightInv, Under, InScript, OnTop, Reads
<1>5. KeepInv' /\ OriginInv' /\ altered' = {}
  BY <1>1, <1>2 DEF IInv, KeepInv, IsKept, OriginInv, From
<1>6. NameInv'
  BY <1>1, <1>2 DEF IInv, NameInv, Arrived, OnTop, IsPushed
<1>7. ArgumentInv'
  BY <1>1, <1>2 DEF IInv, ArgumentInv, Arrived, Source
<1> QED
  BY <1>2, <1>3, <1>4, <1>5, <1>6, <1>7 DEF IInv
--------------------------------------------------------------------------------
(* The invariant, and what follows from it.                                   *)

\* A list of arguments is a sequence.
LEMMA ListFacts == ASSUME NEW args \in ArgumentLists PROVE IsSeq(args)
<1>1. PICK n \in 0 .. MaxArgs : args \in [1 .. n -> NodeValues]
  BY DEF ArgumentLists
<1>2. n \in Nat
  BY MaxArgsAssumption
<1>3. args \in Seq(NodeValues)
  BY <1>1, <1>2
<1> QED
  BY <1>3, AnySeq

\* Nothing is going on, and nothing is on the stack.
LEMMA InitIInv == Init => IInv
<1> SUFFICES ASSUME Init PROVE IInv
  OBVIOUS
<1>1. /\ pc = "idle" /\ call = NoMethod /\ frame = NoFrame /\ stack = << >> /\ left = 0
      /\ doing = "idle" /\ pushing = << >> /\ reading = << >> /\ promises = FALSE
      /\ held = From(Undefined, Nothing) /\ origin = Nothing /\ prop = Undefined
      /\ sent = Nothing /\ altered = {}
  BY DEF Init
<1>2. StackTypes /\ PushingTypes /\ ReadingTypes
  <2>1. IsSeq(stack) /\ IsSeq(pushing) /\ IsSeq(reading) /\ Len(pushing) = 0 /\ Len(reading) = 0
    BY <1>1, Short0
  <2>2. promises \in BOOLEAN
    BY <1>1, Zenon
  <2>3. left \in Nat
    BY <1>1
  <2>4. 1 .. 0 = {}
    OBVIOUS
  <2> QED
    BY <2>1, <2>2, <2>3, <2>4 DEF StackTypes, PushingTypes, ReadingTypes
<1>3. Ways
  BY <1>1 DEF Ways, In, Out
<1>4. IsCall(call)
  BY <1>1, Short0 DEF IsCall, NoMethod, Methods, Handles
<1>5. CallTypes
  BY <1>1, <1>4 DEF CallTypes, NoFrame
<1>6. PcInv
  BY <1>1 DEF PcInv, NoMethod
<1>7. HeightInv
  BY <1>1, Short0 DEF HeightInv
<1>8. FillInv
  BY <1>1, Short0 DEF FillInv, Fills
<1>9. ReadInv
  BY <1>1, Short0 DEF ReadInv, Readings
<1>10. KeepInv
  BY <1>1 DEF KeepInv, IsKept, From
<1>11. OriginInv
  BY <1>1 DEF OriginInv
<1>12. NameInv /\ ArgumentInv
  BY <1>1 DEF NameInv, ArgumentInv
<1> QED
  BY <1>1, <1>2, <1>3, <1>5, <1>6, <1>7, <1>8, <1>9, <1>10, <1>11, <1>12 DEF IInv, TypeInv

\* Every step keeps the invariant.
LEMMA NextIInv == IInv /\ [Next]_vars => IInv'
<1> SUFFICES ASSUME IInv, [Next]_vars PROVE IInv'
  OBVIOUS
<1>1. CASE Convert /\ UNCHANGED methodVars
  BY <1>1, ConvertKeeps
<1>2. CASE GetProperty
  BY <1>2, GetPropertyKeeps
<1>3. CASE GetObject
  BY <1>3, GetObjectKeeps
<1>4. CASE Eval
  BY <1>4, CallsKeeps, Short0 DEF Eval
<1>5. ASSUME NEW h \in Handles, NEW v \in NodeValues, SetProperty(h, v) PROVE IInv'
  BY <1>5, SetPropertyKeeps
<1>6. ASSUME NEW args \in ArgumentLists, RunCallback(args) PROVE IInv'
  BY <1>6, CallsKeeps, ListFacts DEF RunCallback
<1>7. ASSUME NEW args \in ArgumentLists, NEW h \in Handles, CallMethod(h, args) PROVE IInv'
  BY <1>7, CallsKeeps, ListFacts DEF CallMethod
<1>8. CASE NextArgument
  BY <1>8, NextArgumentKeeps
<1>9. CASE PutProperty
  BY <1>9, PutPropertyKeeps
<1>10. CASE EnterScript
  BY <1>10, EnterScriptKeeps
<1>11. CASE NotFound \/ ScriptThrows
  BY <1>11, ThrowsKeeps
<1>12. ASSUME NEW x \in Has, ScriptSets(x) PROVE IInv'
  BY <1>12, ScriptSetsKeeps
<1>13. ASSUME NEW x \in Has, ScriptReturns(x) PROVE IInv'
  BY <1>13, ScriptReturnsKeeps
<1>14. ASSUME NEW x \in Has, PassToFunction(x) PROVE IInv'
  BY <1>14, PassToFunctionKeeps
<1>15. ASSUME NEW v \in NodeValues, AskFunction(v) PROVE IInv'
  BY <1>15, AskFunctionKeeps
<1>16. CASE FunctionAnswers
  BY <1>16, FunctionAnswersKeeps
<1>17. CASE FunctionReturns
  BY <1>17, FunctionReturnsKeeps
<1>18. CASE Return
  BY <1>18, ReturnKeeps
<1>19. CASE EnablePromises
  BY <1>19, EnablePromisesKeeps
<1>20. CASE UNCHANGED vars
  BY <1>20, StutterKeeps
<1> QED
  BY <1>1, <1>2, <1>3, <1>4, <1>5, <1>6, <1>7, <1>8, <1>9, <1>10, <1>11, <1>12, <1>13, <1>14,
     <1>15, <1>16, <1>17, <1>18, <1>19, <1>20 DEF Next

\* What IInv says of the stack, the conversions and the calls always holds.
THEOREM Invariant == Spec => []IInv
<1> QED
  BY InitIInv, NextIInv, PTL DEF Spec

\* Type correctness: the stack, the conversions under way and the call are well formed.
THEOREM TypeCorrect == Spec => []TypeInv
<1>1. IInv => TypeInv
  BY DEF IInv
<1> QED
  BY <1>1, Invariant, PTL

\* A value that both sides can have is the same after a trip to the other side and
\* back, whatever it is, whichever way it went and whatever it is part of.
THEOREM ArrivesUnchanged == Spec => []ThereAndBack
<1>1. IInv => ThereAndBack
  BY DEF IInv, ThereAndBack
<1> QED
  BY <1>1, Invariant, PTL

\* Between two methods the stack holds what methods have left there and nothing else,
\* whatever calls fail or throw.
THEOREM NothingElseLeft == Spec => []StackAccounted
<1>1. IInv => StackAccounted
  BY DEF IInv, HeightInv, StackAccounted
<1> QED
  BY <1>1, Invariant, PTL

================================================================================
