----------------------------- MODULE Publisher ------------------------------
(***************************************************************************)
(* What publishing promises, whoever does it: messages are sent one after  *)
(* the other, none more often than asked for; the progress shown goes up   *)
(* and never beyond what has been sent; and it is called a success only    *)
(* when all messages have been sent.                                       *)
(***************************************************************************)
EXTENDS Naturals

CONSTANT Messages    \* how many messages are to be published

VARIABLES
  sent,      \* how many messages the broker has been given
  progress,  \* how many are shown as enqueued
  result     \* "none" while it lasts, then "ok" or "raised"

vars == <<sent, progress, result>>

Init == sent = 0 /\ progress = 0 /\ result = "none"

Send == /\ result = "none"
        /\ sent < Messages
        /\ sent' = sent + 1
        /\ UNCHANGED <<progress, result>>

Advance == /\ progress' \in progress..sent
           /\ UNCHANGED <<sent, result>>

Succeed == /\ result = "none"
           /\ sent = Messages
           /\ result' = "ok"
           /\ UNCHANGED <<sent, progress>>

Raise == /\ result = "none"
         /\ result' = "raised"
         /\ UNCHANGED <<sent, progress>>

Next == Send \/ Advance \/ Succeed \/ Raise

Spec == Init /\ [][Next]_vars
=============================================================================
