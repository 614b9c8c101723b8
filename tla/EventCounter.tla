---------------------------- MODULE EventCounter ----------------------------
(***************************************************************************)
(* What the runner relies on when it polls a completion counter: each      *)
(* finished task of each worker process adds exactly one, in one step,     *)
(* nothing else ever changes the counter, and a poll returns what the      *)
(* counter is at that moment.  SharedCounter implements it.                *)
(***************************************************************************)
EXTENDS Naturals

CONSTANT Workers    \* the worker processes that execute benchmark tasks

VARIABLES value,    \* the counter
          wrote,    \* how many increments each worker process has performed
          seen      \* what the last poll returned

vars == <<value, wrote, seen>>

Init == /\ value = 0
        /\ wrote = [w \in Workers |-> 0]
        /\ seen = 0

Increment(w) == /\ value' = value + 1
                /\ wrote' = [wrote EXCEPT ![w] = @ + 1]
                /\ UNCHANGED seen

Read == /\ seen' = value
        /\ UNCHANGED <<value, wrote>>

Next == Read \/ \E w \in Workers : Increment(w)

Spec == Init /\ [][Next]_vars
=============================================================================
