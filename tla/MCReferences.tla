----------------------------- MODULE MCReferences ------------------------------
(* Instances of References for TLC.  A Context's program has two node           *)
(* functions, or one and a script function; an AsyncContext's has the latter.   *)
EXTENDS References

CONSTANTS o1, f1, f2, c1

Small == {Global, o1, f1, c1}
Small2 == [a \in BOOLEAN |-> IF a THEN {Small} ELSE {Small, {Global, o1, f1, f2}}]
================================================================================
