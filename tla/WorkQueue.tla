------------------------------ MODULE WorkQueue -----------------------------
(***************************************************************************)
(* The RabbitMQ queue of one run and the worker processes that consume it. *)
(* Delivery is at least once: what an ended worker had not acknowledged    *)
(* goes back to the queue.  A worker runs a task, counts it on the shared  *)
(* completion counter and acknowledges it afterwards, so a task can be     *)
(* counted twice.  The counter is the one-step counter of EventCounter;    *)
(* what SharedCounter shows of its lock is kept: a worker that dies while  *)
(* it increments a multiprocessing.Value takes the lock with it, and       *)
(* nobody counts, nor reads the count, any more.                           *)
(* The modules of the runs extend this one and add the runner.             *)
(***************************************************************************)
EXTENDS Naturals, FiniteSets

CONSTANTS
  Messages,    \* the messages of the run: cfg.messages of them
  Workers,     \* the worker processes, each with one AMQP connection
  NoOne,       \* the holder of a message nobody holds
  Prefetch,    \* unacknowledged messages RabbitMQ gives one worker at most
  MaxCrashes,  \* bound: worker processes that die during one run
  CounterKind  \* COUNTER_KIND of the adapter: "mmap" or "value"

ASSUME WorkQueueAssumption ==
  /\ IsFiniteSet(Messages)
  /\ IsFiniteSet(Workers)
  /\ NoOne \notin Workers
  /\ Prefetch \in Nat \ {0}
  /\ MaxCrashes \in Nat
  /\ CounterKind \in {"mmap", "value"}

VARIABLES
  loc,         \* what has happened to each message
  by,          \* the worker that holds each unacknowledged message
  alive,       \* the worker processes that run
  crashed,     \* the worker processes that died before they were told to
  stopped,     \* the worker processes the runner has ended
  counter,     \* the shared completion counter
  executed,    \* history: the messages whose task has been counted
  lockLost     \* did a dead worker keep the lock of the Value?

queue == <<loc, by>>
processes == <<alive, crashed, stopped>>
done == <<counter, executed, lockLost>>
work == <<queue, processes, done>>

Total == Cardinality(Messages)
Unsent == {m \in Messages : loc[m] = "unsent"}
Unacked(m) == loc[m] \in {"delivered", "counted"}
Held(w) == {m \in Messages : Unacked(m) /\ by[m] = w}
Ended == crashed \cup stopped

InitWork == /\ loc = [m \in Messages |-> "unsent"]
            /\ by = [m \in Messages |-> NoOne]
            /\ alive = {}
            /\ crashed = {}
            /\ stopped = {}
            /\ counter = 0
            /\ executed = {}
            /\ lockLost = FALSE

(***************************************************************************)
(* Slips: each stands for one bug somebody could write into the operation  *)
(* it is named after.  No action uses them; they are put in the place of   *)
(* that operation to see that a property notices.                          *)
(***************************************************************************)
RunTaskCountedTwice(w, m) == /\ w \in alive /\ ~lockLost
                             /\ loc[m] = "delivered"
                             /\ by[m] = w
                             /\ loc' = [loc EXCEPT ![m] = "counted"]
                             /\ counter' = counter + 2
                             /\ executed' = executed \cup {m}
                             /\ UNCHANGED <<by, processes, lockLost>>
-----------------------------------------------------------------------------
(* Operations of the runner and of the publishers.                         *)
Send(sent) == /\ sent \subseteq Unsent
              /\ loc' = [m \in Messages |-> IF m \in sent THEN "queued" ELSE loc[m]]
              /\ UNCHANGED <<by, processes, done>>

Start(started) == /\ started \subseteq Workers \ (alive \cup Ended)
                  /\ alive' = alive \cup started
                  /\ UNCHANGED <<queue, crashed, stopped, done>>

Stop(w) == /\ w \in alive
           /\ alive' = alive \ {w}
           /\ stopped' = stopped \cup {w}
           /\ UNCHANGED <<queue, crashed, done>>

Drop(gone) == /\ loc' = [m \in Messages |-> IF m \in gone THEN "purged" ELSE loc[m]]
              /\ by' = [m \in Messages |-> IF m \in gone THEN NoOne ELSE by[m]]
              /\ UNCHANGED <<processes, done>>

PurgeQueue == Drop({m \in Messages : loc[m] = "queued"})

(* What a worker still runs is executed although its queue is gone.        *)
DeleteQueue == Drop({m \in Messages : \/ loc[m] = "queued"
                                      \/ Unacked(m) /\ by[m] \notin alive})

(* Best effort: a request that fails is a warning and nothing else.        *)
PurgeBestEffort == PurgeQueue \/ UNCHANGED work

CleanQueue(keep) == \/ keep /\ PurgeQueue
                    \/ ~keep /\ DeleteQueue
                    \/ UNCHANGED work

(* The workers and RabbitMQ.                                               *)
Deliver(w, m) == /\ w \in alive
                 /\ loc[m] = "queued"
                 /\ Cardinality(Held(w)) < Prefetch
                 /\ loc' = [loc EXCEPT ![m] = "delivered"]
                 /\ by' = [by EXCEPT ![m] = w]
                 /\ UNCHANGED <<processes, done>>

Count(m) == /\ loc' = [loc EXCEPT ![m] = "counted"]
            /\ counter' = counter + 1
            /\ executed' = executed \cup {m}

RunTask(w, m) == /\ w \in alive /\ ~lockLost
                 /\ loc[m] = "delivered"
                 /\ by[m] = w
                 /\ Count(m)
                 /\ UNCHANGED <<by, processes, lockLost>>

Ack(w, m) == /\ w \in alive
             /\ loc[m] = "counted"
             /\ by[m] = w
             /\ loc' = [loc EXCEPT ![m] = "acked"]
             /\ by' = [by EXCEPT ![m] = NoOne]
             /\ UNCHANGED <<processes, done>>

Requeue(m) == /\ Unacked(m)
              /\ by[m] \notin alive
              /\ loc' = [loc EXCEPT ![m] = "queued"]
              /\ by' = [by EXCEPT ![m] = NoOne]
              /\ UNCHANGED <<processes, done>>

End(w) == /\ w \in alive
          /\ Cardinality(crashed) < MaxCrashes
          /\ alive' = alive \ {w}
          /\ crashed' = crashed \cup {w}
          /\ UNCHANGED stopped

Crash(w) == End(w) /\ UNCHANGED <<queue, done>>

(* Within get_lock() of a Value, before the store or after it.             *)
CrashInLock(w, m) == /\ CounterKind = "value" /\ ~lockLost
                     /\ loc[m] = "delivered"
                     /\ by[m] = w
                     /\ End(w)
                     /\ lockLost' = TRUE
                     /\ Count(m) \/ UNCHANGED <<loc, counter, executed>>
                     /\ UNCHANGED by

Dies(w) == Crash(w) \/ \E m \in Messages : CrashInLock(w, m)

Delivery == \E w \in Workers, m \in Messages : Deliver(w, m)
Execution == \E w \in Workers, m \in Messages : RunTask(w, m)
Acknowledgement == \E w \in Workers, m \in Messages : Ack(w, m)
Redelivery == \E m \in Messages : Requeue(m)

Consume == Delivery \/ Execution \/ Acknowledgement \/ Redelivery

(***************************************************************************)
(* Everything that may happen to the queue in a run of any mode.           *)
(***************************************************************************)
WorkNext == \/ \E S \in SUBSET Messages : Send(S) \/ Drop(S)
            \/ \E S \in SUBSET Workers : Start(S)
            \/ \E w \in Workers : Stop(w) \/ Dies(w)
            \/ Consume

WorkSpec == InitWork /\ [][WorkNext]_work
-----------------------------------------------------------------------------
WorkTypeOK ==
  /\ loc \in [Messages -> {"unsent", "queued", "delivered", "counted", "acked",
                           "purged"}]
  /\ by \in [Messages -> Workers \cup {NoOne}]
  /\ alive \subseteq Workers
  /\ crashed \subseteq Workers
  /\ stopped \subseteq Workers
  /\ counter \in Nat
  /\ executed \subseteq Messages
  /\ lockLost \in BOOLEAN

(* How far the counter can be from the truth: every worker that ends makes *)
(* at most its prefetched messages be counted twice.                       *)
CountedWithinRedeliveries ==
  counter <= Cardinality(executed) + Prefetch * Cardinality(Ended)

(* Hence what a counter at the total can hide: for every worker that died, *)
(* at most its prefetched messages have not been executed.                 *)
MissedWithinCrashes ==
  Cardinality(Messages \ executed) <= Prefetch * Cardinality(crashed)
=============================================================================
