---------------------------- MODULE PublishAsync ----------------------------
(***************************************************************************)
(* publish_async and publish_async_bursts: a number of coroutines of one   *)
(* event loop take messages from a common count and await their sends.     *)
(* Between two awaits a coroutine is alone.  An error ends its coroutine   *)
(* and is looked at when all have ended; a burst that raises is the last.  *)
(* A plain publish is one burst of all messages.                           *)
(***************************************************************************)
EXTENDS Naturals, FiniteSets

CONSTANTS
  Messages,      \* how many messages are to be published
  BurstSize,     \* cfg.burst_size
  Coroutines,    \* the coroutines: publish_concurrency of them
  MaxCancelled   \* bound: sends of one burst that raise CancelledError

VARIABLES
  remaining,    \* messages of the bursts that are not over
  nextMessage,  \* next_message: messages taken in this burst
  done,         \* sends of this burst that have returned
  co,           \* where each coroutine is
  sent,         \* messages the broker has been given
  lost,         \* history: messages of cancelled sends that it has not been given
  result        \* "none", "ok" or "raised"

loop == <<remaining, nextMessage, done>>
vars == <<loop, co, sent, lost, result>>

Smaller(a, b) == IF a <= b THEN a ELSE b
Burst == Smaller(BurstSize, remaining)

In(states) == {c \in Coroutines : co[c] \in states}
SentBefore == Messages - remaining    \* sent in the bursts before this one

(* min(concurrency, messages) coroutines are created for a burst.          *)
NewTasks(count) ==
  {f \in [Coroutines -> {"new", "unused"}] :
     Cardinality({c \in Coroutines : f[c] = "new"})
       = Smaller(Cardinality(Coroutines), count)}

Init == /\ remaining = Messages
        /\ nextMessage = 0
        /\ done = 0
        /\ co \in NewTasks(Burst)
        /\ sent = 0
        /\ lost = 0
        /\ result = "none"

(***************************************************************************)
(* gather(return_exceptions=True) returns when all coroutines have ended.  *)
(* An asyncio.CancelledError is among the results but is no Exception.     *)
(***************************************************************************)
Gathered == /\ result = "none"
            /\ In({"new", "sending", "sent"}) = {}

(***************************************************************************)
(* Slips: each stands for one bug somebody could write into the operation  *)
(* it is named after.  No action uses them; they are put in the place of   *)
(* that operation to see that a property notices.                          *)
(***************************************************************************)
ResumeEarlyDone(c) == /\ co[c] \in {"new", "sent"}
                      /\ \/ /\ nextMessage < Burst
                            /\ nextMessage' = nextMessage + 1
                            /\ done' = done + 1
                            /\ co' = [co EXCEPT ![c] = "sending"]
                         \/ /\ nextMessage >= Burst
                            /\ co' = [co EXCEPT ![c] = "ended"]
                            /\ UNCHANGED <<nextMessage, done>>
                      /\ UNCHANGED <<remaining, sent, lost, result>>

SendFailsForAll(c) == /\ co[c] = "sending"
                      /\ co' = [x \in Coroutines |-> IF co[x] = "unused" THEN "unused"
                                                     ELSE IF x = c THEN "failed" ELSE "ended"]
                      /\ UNCHANGED <<loop, sent, lost, result>>
-----------------------------------------------------------------------------
(***************************************************************************)
(* A coroutine from one await to the next.  A send that raises or is       *)
(* cancelled may have reached the broker.                                  *)
(***************************************************************************)
Resume(c) == /\ co[c] \in {"new", "sent"}
             /\ done' = IF co[c] = "sent" THEN done + 1 ELSE done
             /\ \/ /\ nextMessage < Burst
                   /\ nextMessage' = nextMessage + 1
                   /\ co' = [co EXCEPT ![c] = "sending"]
                \/ /\ nextMessage >= Burst
                   /\ co' = [co EXCEPT ![c] = "ended"]
                   /\ UNCHANGED nextMessage
             /\ UNCHANGED <<remaining, sent, lost, result>>

SendReturns(c) == /\ co[c] = "sending"
                  /\ co' = [co EXCEPT ![c] = "sent"]
                  /\ sent' = sent + 1
                  /\ UNCHANGED <<loop, lost, result>>

SendFails(c) == /\ co[c] = "sending"
                /\ co' = [co EXCEPT ![c] = "failed"]
                /\ sent' \in {sent, sent + 1}
                /\ UNCHANGED <<loop, lost, result>>

SendCancelled(c) == /\ co[c] = "sending"
                    /\ Cardinality(In({"cancelled"})) < MaxCancelled
                    /\ co' = [co EXCEPT ![c] = "cancelled"]
                    /\ \/ sent' = sent + 1 /\ UNCHANGED lost
                       \/ lost' = lost + 1 /\ UNCHANGED sent
                    /\ UNCHANGED <<loop, result>>

NextBurst == /\ Gathered /\ In({"failed"}) = {}
             /\ remaining > Burst
             /\ remaining' = remaining - Burst
             /\ nextMessage' = 0
             /\ done' = 0
             /\ co' \in NewTasks(Burst')
             /\ UNCHANGED <<sent, lost, result>>

Succeed == /\ Gathered /\ In({"failed"}) = {}
           /\ remaining = Burst
           /\ result' = "ok"
           /\ UNCHANGED <<loop, co, sent, lost>>

Raise == /\ Gathered /\ In({"failed"}) # {}
         /\ result' = "raised"
         /\ UNCHANGED <<loop, co, sent, lost>>

Next == \/ \E c \in Coroutines : \/ Resume(c) \/ SendReturns(c)
                                 \/ SendFails(c) \/ SendCancelled(c)
        \/ NextBurst \/ Succeed \/ Raise

Spec == Init /\ [][Next]_vars
-----------------------------------------------------------------------------
TypeOK ==
  /\ remaining \in 1..Messages
  /\ nextMessage \in 0..Burst
  /\ done \in 0..Burst
  /\ co \in [Coroutines -> {"unused", "new", "sending", "sent", "ended", "failed",
                            "cancelled"}]
  /\ sent \in 0..Messages
  /\ lost \in 0..Messages
  /\ result \in {"none", "ok", "raised"}

(* publish_async promises what Publisher says of the messages sent and of  *)
(* those it lost without noticing, as CancelledError is no Exception: it   *)
(* succeeds only when every message is one or the other.  (If all of its   *)
(* coroutines were cancelled, which MaxCancelled < Cardinality(Coroutines) *)
(* excludes, it would also lose the messages that nobody took.)            *)
Abstract == INSTANCE Publisher WITH sent <- sent + lost, progress <- SentBefore + done
ImplementsPublisher == Abstract!Spec

(* A send that goes wrong loses its own message and no other, as long as   *)
(* one coroutine is left to take over: the rest of the burst is still sent *)
(* before the error is raised.                                             *)
FailureLosesOneMessage ==
  result # "none" /\ In({"ended"}) # {} =>
    done + Cardinality(In({"failed", "cancelled"})) = Burst

(* The state invariant: the types, and that a failure loses one message.   *)
Inv == TypeOK /\ FailureLosesOneMessage
=============================================================================
