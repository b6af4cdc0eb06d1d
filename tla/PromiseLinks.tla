----------------------------- MODULE PromiseLinks ------------------------------
(***************************************************************************)
(* What a program relies on when promises cross between Node and Duktape:  *)
(* the copy that it gets settles after the promise it was made from, once, *)
(* and in the same way.  PromiseBridge is shown to implement this.         *)
(*                                                                         *)
(* A copy may be lost, that is, stay pending for good; PromiseBridge says  *)
(* when.  A script whose timers have been disabled (timersOff) may find    *)
(* its copies rejected instead of fulfilled.                               *)
(***************************************************************************)
EXTENDS Naturals

CONSTANTS Promise,   \* the promises that there may be
          Unmade,    \* the source of a promise that is not made yet
          Origin     \* the source of a promise that is no copy

VARIABLES source,    \* what each promise is a copy of
          outcome,   \* "pending", "fulfilled" or "rejected"
          lost,      \* copies cut off from their sources
          timersOff

linkVars == <<source, outcome, lost, timersOff>>

Made == {p \in Promise : source[p] # Unmade}

Init == /\ source = [p \in Promise |-> Unmade]
        /\ outcome = [p \in Promise |-> "pending"]
        /\ lost = {}
        /\ timersOff = FALSE

\* A promise is made, as a copy or not.
Make(p) == /\ source[p] = Unmade
           /\ \E s \in Made \cup {Origin} : source' = [source EXCEPT ![p] = s]
           /\ UNCHANGED outcome

\* Whoever made a promise settles it.
Settle(p) == /\ source[p] = Origin /\ outcome[p] = "pending"
             /\ \E o \in {"fulfilled", "rejected"} : outcome' = [outcome EXCEPT ![p] = o]
             /\ UNCHANGED source

\* Its source is settled and it is not.
Behind(p) == /\ p \in Made /\ source[p] # Origin /\ p \notin lost
             /\ outcome[p] = "pending" /\ outcome[source[p]] # "pending"

\* A copy follows its source.
Follow(p) == /\ Behind(p)
             /\ \E o \in {outcome[source[p]]} \cup (IF timersOff THEN {"rejected"} ELSE {}) :
                  outcome' = [outcome EXCEPT ![p] = o]
             /\ UNCHANGED source

Next == /\ \/ \E p \in Promise : Make(p) \/ Settle(p) \/ Follow(p)
           \/ UNCHANGED <<source, outcome>>
        /\ lost \subseteq lost'
        /\ timersOff => timersOff'

\* No copy stays behind for ever unless it is lost.
AllFollow == \A p \in Promise : Behind(p) ~> ~Behind(p)

SafeSpec == Init /\ [][Next]_linkVars
Spec     == SafeSpec /\ AllFollow
================================================================================
