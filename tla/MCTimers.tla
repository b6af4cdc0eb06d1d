------------------------------- MODULE MCTimers --------------------------------
(* Instances of Timers for TLC: a Context may call more often than an          *)
(* AsyncContext, whose calls take many steps.                                 *)
EXTENDS Timers

Calls4and2  == [a \in BOOLEAN |-> IF a THEN 2 ELSE 4]
Timers3and2 == [a \in BOOLEAN |-> IF a THEN 2 ELSE 3]
================================================================================
