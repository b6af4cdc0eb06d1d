----------------------------- MODULE MCContextCalls ----------------------------
EXTENDS ContextCalls

number  == Scalar("number")
text    == Scalar("string with NUL")
promise == [kind |-> "promise"]
buffer  == Bytes("Buffer", <<1, 2>>)
view    == Bytes("Uint16Array", <<1, 2>>)
part    == [Bytes("Uint16Array", <<1, 2, 3, 4>>) EXCEPT !.from = 3]
nested  == Array(<<Undefined, Array(<<[kind |-> "date"]>>)>>)
function == [kind |-> "function", own |-> NoProps]
object  == Object([a |-> Array(<<view>>), b |-> Bytes("DataView", <<1>>)])

MCNodeValues ==
  {number, nested, object, promise, Array(<<promise, buffer>>),
   Array(<<Hole, part, Error("TypeError", 0), function>>),
   [Object([a |-> text]) EXCEPT !.class = "C", !.inherited = [b |-> number]]}

MCScriptValues ==
  {nested, object, Error("Error", 0), Bytes("plain", <<1>>),
   [Array(<<Hole, part>>) EXCEPT !.named = <<text>>],
   [Object([a |-> number]) EXCEPT !.inherited = [b |-> buffer]],
   [kind |-> "function", own |-> [a |-> number]]}
MCPromiseValues == {Object([a |-> promise])}

Parts(v) == LET own == Own(v) IN {own[k] : k \in DOMAIN own}
All == LET S == MCNodeValues \cup MCScriptValues
           P(T) == T \cup UNION {Parts(v) : v \in T} IN P(P(S))

RECURSIVE ToBeKept(_, _)
ToBeKept(p, v) ==
  CASE v.kind = "scalar" -> v.is # "string with NUL"
    [] v.kind = "bytes"  -> v.class # "plain" /\ v.from = 1 /\ v.to = Len(v.store)
    [] v.kind = "array"  -> v.named = << >> /\ \A i \in DOMAIN v.items : ToBeKept(p, v.items[i])
    [] v.kind = "object" -> /\ v.class = "Object" /\ v.inherited = NoProps
                            /\ \A k \in DOMAIN v.own : ToBeKept(p, v.own[k])
    [] OTHER -> v.kind = "date" \/ (v.kind = "promise" /\ p)
MCKept == [p \in BOOLEAN |-> {v \in All : ToBeKept(p, v)}]
================================================================================
