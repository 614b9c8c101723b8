-------------------------- MODULE WorkQueue_proofs --------------------------
(***************************************************************************)
(* Proofs about WorkQueue, for any messages, workers, prefetch and         *)
(* crashes; the modules of the runs implement it and inherit them.  The    *)
(* argument about the counter: a message that has been executed and can be *)
(* executed once more (Again) is one an ended worker held, and a worker    *)
(* holds at most Prefetch of them.                                         *)
(***************************************************************************)
EXTENDS WorkQueue, FiniteSetTheorems, TLAPS

(* The facts about finite sets the cardinality arguments are made of.      *)
LEMMA Finite ==
  /\ Total \in Nat
  /\ \A S \in SUBSET Messages : IsFiniteSet(S) /\ Cardinality(S) \in Nat
  /\ \A S \in SUBSET Workers : IsFiniteSet(S) /\ Cardinality(S) \in Nat
<1>1. IsFiniteSet(Messages) /\ IsFiniteSet(Workers)
  BY WorkQueueAssumption
<1>2. Total \in Nat
  BY <1>1, FS_CardinalityType DEF Total
<1>3. QED  BY <1>1, <1>2, FS_CardinalityType, FS_Subset

LEMMA SubsetSmaller ==
  ASSUME NEW S, IsFiniteSet(S), NEW T \in SUBSET S
  PROVE  /\ IsFiniteSet(T)
         /\ Cardinality(T) \in Nat
         /\ Cardinality(S) \in Nat
         /\ Cardinality(T) <= Cardinality(S)
  BY FS_Subset, FS_CardinalityType

LEMMA AddOne ==
  ASSUME NEW S, IsFiniteSet(S), NEW x, x \notin S
  PROVE  Cardinality(S \cup {x}) = Cardinality(S) + 1
  BY FS_AddElement

LEMMA RemoveOne ==
  ASSUME NEW S, IsFiniteSet(S), NEW x \in S
  PROVE  Cardinality(S \ {x}) = Cardinality(S) - 1
  BY FS_RemoveElement

LEMMA UnionBound ==
  ASSUME NEW S, NEW T, IsFiniteSet(S), IsFiniteSet(T)
  PROVE  /\ IsFiniteSet(S \cup T)
         /\ Cardinality(S \cup T) \in Nat
         /\ Cardinality(S \cup T) <= Cardinality(S) + Cardinality(T)
<1>1. /\ Cardinality(S \cup T) = Cardinality(S) + Cardinality(T) - Cardinality(S \cap T)
      /\ IsFiniteSet(S \cup T)
  BY FS_Union
<1>2. /\ Cardinality(S) \in Nat /\ Cardinality(T) \in Nat /\ Cardinality(S \cup T) \in Nat
      /\ Cardinality(S \cap T) \in Nat
  BY <1>1, FS_CardinalityType, FS_Subset
<1>3. QED  BY <1>1, <1>2

-----------------------------------------------------------------------------
(* A worker that ended does not come back.                                 *)
EndedStayEnded == alive \cap Ended = {}

(* RabbitMQ's prefetch limit, which a requeue or an ack only relaxes.      *)
HeldBound == \A w \in Workers : Cardinality(Held(w)) <= Prefetch

(* The executed messages that can be executed again.                       *)
Again == {m \in executed : \/ loc[m] \in {"queued", "delivered"}
                           \/ loc[m] = "counted" /\ by[m] \notin alive}

(* An unsent message has not been executed, and those in somebody's hands  *)
(* are held by a worker that was started.                                  *)
Untouched == \A m \in executed : loc[m] # "unsent"
HoldersStarted == \A m \in Messages : Unacked(m) => by[m] \in alive \cup Ended

CountBound ==
  counter + Cardinality(Again) <= Cardinality(executed) + Prefetch * Cardinality(Ended)

WorkInv == /\ WorkTypeOK
           /\ EndedStayEnded
           /\ HeldBound
           /\ Untouched
           /\ HoldersStarted
           /\ CountBound

LEMMA InitWorkInv == InitWork => WorkInv
<1> SUFFICES ASSUME InitWork PROVE WorkInv
  OBVIOUS
<1>1. WorkTypeOK /\ EndedStayEnded /\ Untouched /\ HoldersStarted
  BY DEF InitWork, WorkTypeOK, EndedStayEnded, Untouched, HoldersStarted, Unacked, Ended
<1>2. HeldBound
  <2>1. \A w \in Workers : Held(w) = {}
    BY DEF InitWork, Held, Unacked
  <2>2. QED  BY <2>1, FS_EmptySet, WorkQueueAssumption DEF HeldBound
<1>3. CountBound
  <2>1. Again = {} /\ executed = {} /\ Ended = {} /\ counter = 0
    BY DEF InitWork, Again, Ended
  <2>2. Cardinality({}) = 0
    BY FS_EmptySet
  <2>3. QED  BY <2>1, <2>2, WorkQueueAssumption DEF CountBound
<1>4. QED  BY <1>1, <1>2, <1>3 DEF WorkInv

(* Every step of the queue keeps the parts of the invariant that are not   *)
(* about cardinalities.                                                    *)
LEMMA NextPlain ==
  ASSUME WorkInv, [WorkNext]_work
  PROVE  WorkTypeOK' /\ EndedStayEnded' /\ Untouched' /\ HoldersStarted'
<1> USE DEF WorkInv, WorkTypeOK, EndedStayEnded, Untouched, HoldersStarted, Unacked, Ended,
            queue, processes, done
<1>1. CASE UNCHANGED work
  BY <1>1 DEF work
<1>2. ASSUME NEW S \in SUBSET Messages, Send(S) \/ Drop(S)
      PROVE  WorkTypeOK' /\ EndedStayEnded' /\ Untouched' /\ HoldersStarted'
  BY <1>2 DEF Send, Drop, Unsent
<1>3. ASSUME NEW S \in SUBSET Workers, Start(S)
      PROVE  WorkTypeOK' /\ EndedStayEnded' /\ Untouched' /\ HoldersStarted'
  BY <1>3 DEF Start
<1>4. ASSUME NEW w \in Workers, Stop(w) \/ Dies(w)
      PROVE  WorkTypeOK' /\ EndedStayEnded' /\ Untouched' /\ HoldersStarted'
  <2>1. CASE Stop(w) \/ Crash(w)
    BY <2>1 DEF Stop, Crash, End
  <2>2. ASSUME NEW m \in Messages, CrashInLock(w, m)
        PROVE  WorkTypeOK' /\ EndedStayEnded' /\ Untouched' /\ HoldersStarted'
    <3>1. CASE Count(m)
      BY <2>2, <3>1 DEF CrashInLock, End, Count
    <3>2. CASE UNCHANGED <<loc, counter, executed>>
      BY <2>2, <3>2 DEF CrashInLock, End
    <3>3. QED  BY <2>2, <3>1, <3>2 DEF CrashInLock
  <2>3. QED  BY <1>4, <2>1, <2>2 DEF Dies
<1>5. ASSUME NEW w \in Workers, NEW m \in Messages, Deliver(w, m) \/ RunTask(w, m) \/ Ack(w, m)
      PROVE  WorkTypeOK' /\ EndedStayEnded' /\ Untouched' /\ HoldersStarted'
  BY <1>5 DEF Deliver, RunTask, Count, Ack
<1>6. ASSUME NEW m \in Messages, Requeue(m)
      PROVE  WorkTypeOK' /\ EndedStayEnded' /\ Untouched' /\ HoldersStarted'
  BY <1>6 DEF Requeue
<1>7. QED
  BY <1>1, <1>2, <1>3, <1>4, <1>5, <1>6
  DEF WorkNext, Consume, Delivery, Execution, Acknowledgement, Redelivery

LEMMA NextHeldBound == ASSUME WorkInv, [WorkNext]_work PROVE HeldBound'
<1> SUFFICES ASSUME NEW x \in Workers PROVE Cardinality(Held(x)') <= Prefetch
  BY DEF HeldBound
<1>1. /\ Cardinality(Held(x)) <= Prefetch
      /\ Held(x) \in SUBSET Messages
      /\ IsFiniteSet(Held(x))
      /\ Prefetch \in Nat
  BY Finite, WorkQueueAssumption DEF WorkInv, HeldBound, Held
<1>2. ASSUME Held(x)' \subseteq Held(x) PROVE Cardinality(Held(x)') <= Prefetch
  <2> DEFINE C == Cardinality(Held(x))
             D == Cardinality(Held(x)')
  <2>1. C \in Nat /\ D \in Nat /\ D <= C
    BY <1>1, <1>2, SubsetSmaller
  <2>2. C <= Prefetch
    BY <1>1
  <2>3. QED  BY <2>1, <2>2, <1>1
<1> USE DEF WorkInv, WorkTypeOK, Held, Unacked, queue, processes, done
<1>3. CASE UNCHANGED work
  BY <1>2, <1>3 DEF work
<1>4. ASSUME NEW S \in SUBSET Messages, Send(S) \/ Drop(S)
      PROVE  Cardinality(Held(x)') <= Prefetch
  BY <1>2, <1>4 DEF Send, Drop, Unsent
<1>5. ASSUME NEW S \in SUBSET Workers, Start(S) PROVE Cardinality(Held(x)') <= Prefetch
  BY <1>2, <1>5 DEF Start
<1>6. ASSUME NEW w \in Workers, Stop(w) \/ Dies(w) PROVE Cardinality(Held(x)') <= Prefetch
  BY <1>2, <1>6 DEF Stop, Dies, Crash, CrashInLock, End, Count
<1>7. ASSUME NEW w \in Workers, NEW m \in Messages, RunTask(w, m) \/ Ack(w, m)
      PROVE  Cardinality(Held(x)') <= Prefetch
  BY <1>2, <1>7 DEF RunTask, Count, Ack
<1>8. ASSUME NEW w \in Workers, NEW m \in Messages, Deliver(w, m)
      PROVE  Cardinality(Held(x)') <= Prefetch
  <2>1. CASE x = w
    <3>1. m \notin Held(x) /\ Held(x)' = Held(x) \cup {m}
      BY <1>8, <2>1 DEF Deliver
    <3> HIDE DEF Held
    <3>2. Cardinality(Held(x)') = Cardinality(Held(x)) + 1
      BY <1>1, <3>1, AddOne
    <3>3. Cardinality(Held(x)) \in Nat /\ Cardinality(Held(x)) < Prefetch
      BY <1>1, <1>8, <2>1, Finite DEF Deliver
    <3>4. QED  BY <1>1, <3>2, <3>3
  <2>2. CASE x # w
    BY <1>2, <1>8, <2>2 DEF Deliver
  <2>3. QED  BY <2>1, <2>2
<1>9. ASSUME NEW m \in Messages, Requeue(m) PROVE Cardinality(Held(x)') <= Prefetch
  BY <1>2, <1>9 DEF Requeue
<1>10. QED
  BY <1>3, <1>4, <1>5, <1>6, <1>7, <1>8, <1>9
  DEF WorkNext, Consume, Delivery, Execution, Acknowledgement, Redelivery

(* How the bound adds up when one more worker has ended.                   *)
LEMMA AddBounds ==
  ASSUME NEW c \in Nat, NEW c1 \in Nat, NEW a \in Nat, NEW a1 \in Nat, NEW e \in Nat,
         NEW e1 \in Nat, NEW x \in Nat, NEW p \in Nat,
         c1 + a1 + e <= e1 + a + p + c, c + a <= e + x
  PROVE  c1 + a1 <= e1 + x + p
  OBVIOUS

(* Ending one more worker makes room in the bound for what it held.        *)
LEMMA EndWorker ==
  ASSUME WorkInv, WorkTypeOK', NEW w \in Workers, w \in alive, alive' = alive \ {w},
         Ended' = Ended \cup {w}, by' = by,
         \/ UNCHANGED <<loc, counter, executed>>
         \/ \E m \in Messages : loc[m] = "delivered" /\ by[m] = w /\ Count(m)
  PROVE  CountBound'
<1> DEFINE A == Cardinality(Again)
           A1 == Cardinality(Again')
           E == Cardinality(executed)
           E1 == Cardinality(executed')
           C == Cardinality(Ended)
           C1 == Cardinality(Ended')
           H == Cardinality(Held(w))
           U == Cardinality(Again \cup Held(w))
<1>1. /\ Again \in SUBSET Messages /\ IsFiniteSet(Again) /\ A \in Nat
      /\ Again' \in SUBSET Messages /\ IsFiniteSet(Again') /\ A1 \in Nat
      /\ IsFiniteSet(executed) /\ E \in Nat /\ E1 \in Nat
      /\ IsFiniteSet(Ended) /\ C \in Nat /\ C1 \in Nat
      /\ Held(w) \in SUBSET Messages /\ IsFiniteSet(Held(w)) /\ H \in Nat
      /\ Prefetch \in Nat /\ counter \in Nat
  <2>1. /\ Again \in SUBSET Messages /\ Again' \in SUBSET Messages
        /\ Ended \in SUBSET Workers /\ Ended' \in SUBSET Workers
        /\ Held(w) \in SUBSET Messages
    BY DEF WorkInv, WorkTypeOK, Again, Ended, Held
  <2>2. QED  BY <2>1, Finite, WorkQueueAssumption DEF WorkInv, WorkTypeOK
<1>2. C1 = C + 1
  <2>1. w \notin Ended
    BY DEF WorkInv, EndedStayEnded
  <2>2. QED  BY <1>1, <2>1, AddOne
<1>3. Again' \subseteq Again \cup Held(w)
  BY <1>1 DEF Again, Held, Unacked, Count, WorkInv, WorkTypeOK
<1>4. H <= Prefetch
  BY DEF WorkInv, HeldBound
<1>5. IsFiniteSet(Again \cup Held(w)) /\ U \in Nat /\ U <= A + H /\ A1 <= U
  <2>1. IsFiniteSet(Again \cup Held(w)) /\ U \in Nat /\ U <= A + H
    BY <1>1, UnionBound
  <2>2. QED  BY <1>3, <2>1, SubsetSmaller
<1>6. counter + A <= E + Prefetch * C
  BY DEF WorkInv, CountBound
<1>7. CountBound' <=> counter' + A1 <= E1 + Prefetch * C1
  BY DEF CountBound
<1>8. counter' + A1 + E <= E1 + A + Prefetch + counter
  <2>1. CASE UNCHANGED <<loc, counter, executed>>
    <3>1. counter' = counter /\ E1 = E
      BY <2>1
    <3> HIDE DEF A, A1, E, E1, H, U
    <3>2. QED  BY <1>1, <1>4, <1>5, <3>1
  <2>2. ASSUME NEW m \in Messages, loc[m] = "delivered", by[m] = w, Count(m)
        PROVE  counter' + A1 + E <= E1 + A + Prefetch + counter
    <3>1. counter' = counter + 1 /\ executed' = executed \cup {m} /\ m \in Held(w)
      BY <2>2 DEF Count, Held, Unacked
    <3>2. CASE m \notin executed
      <4>1. E1 = E + 1
        BY <1>1, <3>1, <3>2, AddOne
      <4> HIDE DEF A, A1, E, E1, H, U
      <4>2. QED  BY <1>1, <1>4, <1>5, <3>1, <4>1
    <3>3. CASE m \in executed
      <4> DEFINE R == Held(w) \ {m}
                 r == Cardinality(R)
      <4>1. m \in Again /\ E1 = E
        <5>1. executed' = executed
          BY <3>1, <3>3
        <5>2. QED  BY <2>2, <3>3, <5>1 DEF Again
      <4>2. IsFiniteSet(R) /\ r = H - 1
        BY <1>1, <3>1, RemoveOne, SubsetSmaller
      <4>3. U <= A + r
        <5>1. Again \cup Held(w) = Again \cup R
          BY <4>1
        <5>2. QED  BY <1>1, <4>2, <5>1, UnionBound
      <4> HIDE DEF A, A1, E, E1, H, U, R, r
      <4>4. QED  BY <1>1, <1>4, <1>5, <3>1, <4>1, <4>2, <4>3
    <3>4. QED  BY <3>2, <3>3
  <2>3. QED  BY <2>1, <2>2
<1> HIDE DEF A, A1, E, E1, C, C1, H, U
<1>9. Prefetch * C \in Nat /\ Prefetch * C1 = Prefetch * C + Prefetch
  BY <1>1, <1>2
<1>10. counter' \in Nat
  BY DEF WorkTypeOK
<1> DEFINE X == Prefetch * C
           X1 == Prefetch * C1
<1>11. X \in Nat /\ X1 = X + Prefetch /\ counter + A <= E + X
  BY <1>6, <1>9
<1>12. CountBound' <=> counter' + A1 <= E1 + X1
  BY <1>7
<1> HIDE DEF X, X1
<1>13. counter' + A1 <= E1 + X + Prefetch
  BY <1>1, <1>8, <1>10, <1>11, AddBounds
<1>14. QED  BY <1>1, <1>11, <1>12, <1>13

LEMMA NextCountBound == ASSUME WorkInv, WorkTypeOK', [WorkNext]_work PROVE CountBound'
<1> DEFINE A == Cardinality(Again)
           A1 == Cardinality(Again')
           E == Cardinality(executed)
           E1 == Cardinality(executed')
           P == Prefetch * Cardinality(Ended)
<1>1. /\ Again \in SUBSET Messages /\ IsFiniteSet(Again) /\ A \in Nat
      /\ Again' \in SUBSET Messages /\ IsFiniteSet(Again') /\ A1 \in Nat
      /\ IsFiniteSet(executed) /\ E \in Nat /\ IsFiniteSet(executed') /\ E1 \in Nat
      /\ P \in Nat /\ counter \in Nat /\ counter' \in Nat
  <2>1. /\ Again \in SUBSET Messages /\ Again' \in SUBSET Messages
        /\ Ended \in SUBSET Workers
    BY DEF WorkInv, WorkTypeOK, Again, Ended
  <2>2. Prefetch \in Nat /\ Cardinality(Ended) \in Nat
    BY <2>1, Finite, WorkQueueAssumption
  <2>3. P \in Nat
    BY <2>2
  <2>4. QED  BY <2>1, <2>3, Finite DEF WorkInv, WorkTypeOK
<1>2. counter + A <= E + P
  BY DEF WorkInv, CountBound
<1>3. ASSUME Ended' = Ended PROVE CountBound' <=> counter' + A1 <= E1 + P
  BY <1>3 DEF CountBound
<1>4. ASSUME UNCHANGED done, Ended' = Ended, Again' \subseteq Again PROVE CountBound'
  <2>1. A1 <= A
    BY <1>1, <1>4, SubsetSmaller
  <2>2. E1 = E /\ counter' = counter
    BY <1>4 DEF done
  <2> HIDE DEF A, A1, E, E1, P
  <2>3. QED  BY <1>1, <1>2, <1>3, <1>4, <2>1, <2>2
<1>5. CASE UNCHANGED work
  BY <1>4, <1>5 DEF work, Again, Ended, queue, processes, done
<1>6. ASSUME NEW S \in SUBSET Messages, Send(S) \/ Drop(S) PROVE CountBound'
  <2>1. Again' \subseteq Again
    BY <1>6 DEF Send, Drop, Unsent, Again, WorkInv, WorkTypeOK, Untouched, processes, done
  <2>2. QED  BY <1>4, <1>6, <2>1 DEF Send, Drop, Ended, processes
<1>7. ASSUME NEW S \in SUBSET Workers, Start(S) PROVE CountBound'
  <2>1. Again' \subseteq Again
    BY <1>7 DEF Start, Again, WorkInv, WorkTypeOK, queue, done
  <2>2. QED  BY <1>4, <1>7, <2>1 DEF Start, Ended
<1>8. ASSUME NEW w \in Workers, Stop(w) \/ Dies(w) PROVE CountBound'
  <2>1. /\ w \in alive /\ alive' = alive \ {w} /\ Ended' = Ended \cup {w}
        /\ by' = by
        /\ \/ UNCHANGED <<loc, counter, executed>>
           \/ \E m \in Messages : loc[m] = "delivered" /\ by[m] = w /\ Count(m)
    BY <1>8 DEF Stop, Dies, Crash, CrashInLock, End, Ended, queue, done
  <2>2. QED  BY <2>1, EndWorker
<1>9. ASSUME NEW w \in Workers, NEW m \in Messages, RunTask(w, m) PROVE CountBound'
  <2>1. /\ Ended' = Ended
        /\ counter' = counter + 1
        /\ executed' = executed \cup {m}
    BY <1>9 DEF RunTask, Count, Ended, processes
  <2>2. /\ m \notin Again'
        /\ \A x \in Messages : x # m => (x \in Again' <=> x \in Again)
    BY <1>9 DEF RunTask, Count, Again, WorkInv, WorkTypeOK, processes
  <2>3. CASE m \in executed
    <3>1. m \in Again
      BY <1>9, <2>3 DEF RunTask, Again
    <3>2. Again' = Again \ {m} /\ executed' = executed
      BY <1>1, <2>1, <2>2, <2>3
    <3>3. A1 = A - 1 /\ E1 = E
      BY <1>1, <3>1, <3>2, RemoveOne
    <3> HIDE DEF A, A1, E, E1, P
    <3>4. QED  BY <1>1, <1>2, <1>3, <2>1, <3>3
  <2>4. CASE m \notin executed
    <3>1. Again' = Again
      BY <1>1, <2>2, <2>4 DEF Again
    <3>2. A1 = A /\ E1 = E + 1
      BY <1>1, <2>1, <2>4, <3>1, AddOne
    <3> HIDE DEF A, A1, E, E1, P
    <3>3. QED  BY <1>1, <1>2, <1>3, <2>1, <3>2
  <2>5. QED  BY <2>3, <2>4
<1>10. ASSUME NEW w \in Workers, NEW m \in Messages, Deliver(w, m) \/ Ack(w, m)
       PROVE  CountBound'
  <2>1. Again' \subseteq Again
    BY <1>10 DEF Deliver, Ack, Again, WorkInv, WorkTypeOK, processes, done
  <2>2. QED  BY <1>4, <1>10, <2>1 DEF Deliver, Ack, Ended, processes
<1>11. ASSUME NEW m \in Messages, Requeue(m) PROVE CountBound'
  <2>1. Again' \subseteq Again
    BY <1>11 DEF Requeue, Again, Unacked, WorkInv, WorkTypeOK, processes, done
  <2>2. QED  BY <1>4, <1>11, <2>1 DEF Requeue, Ended, processes
<1>12. QED
  BY <1>5, <1>6, <1>7, <1>8, <1>9, <1>10, <1>11
  DEF WorkNext, Consume, Delivery, Execution, Acknowledgement, Redelivery

(* The invariant of the queue, for the runs to cite.                       *)
LEMMA WorkInvariance == WorkSpec => []WorkInv
<1>1. WorkInv /\ [WorkNext]_work => WorkInv'
  BY NextPlain, NextHeldBound, NextCountBound DEF WorkInv
<1>2. QED  BY InitWorkInv, <1>1, PTL DEF WorkSpec

(* Purging and deleting are steps of the queue; they touch neither the     *)
(* processes nor what has been counted.                                    *)
LEMMA CleaningIsWork ==
  ASSUME NEW keep, CleanQueue(keep) \/ PurgeBestEffort
  PROVE  [WorkNext]_work /\ UNCHANGED <<processes, done>>
<1> DEFINE Ready == {m \in Messages : loc[m] = "queued"}
           Left == {m \in Messages : \/ loc[m] = "queued"
                                     \/ Unacked(m) /\ by[m] \notin alive}
<1>1. Ready \in SUBSET Messages /\ Left \in SUBSET Messages
  OBVIOUS
<1>2. Drop(Ready) \/ Drop(Left) \/ UNCHANGED work
  BY DEF CleanQueue, PurgeBestEffort, PurgeQueue, DeleteQueue
<1> HIDE DEF Ready, Left
<1>3. QED  BY <1>1, <1>2 DEF WorkNext, Drop, work

(* What only grows in any run: the counter, what has been executed, who    *)
(* has died and who was ended; what is still to be sent only shrinks.      *)
Grows == /\ counter \in Nat /\ counter' \in Nat /\ counter <= counter'
         /\ executed \subseteq executed' /\ crashed \subseteq crashed'
         /\ stopped \subseteq stopped' /\ Unsent' \subseteq Unsent

LEMMA WorkGrows == ASSUME WorkInv, [WorkNext]_work PROVE Grows
<1> USE DEF Grows, WorkInv, WorkTypeOK, Unsent, Unacked, queue, processes, done
<1>1. CASE UNCHANGED work
  BY <1>1 DEF work
<1>2. ASSUME NEW S \in SUBSET Messages, Send(S) \/ Drop(S) PROVE Grows
  BY <1>2 DEF Send, Drop
<1>3. ASSUME NEW S \in SUBSET Workers, Start(S) PROVE Grows
  BY <1>3 DEF Start
<1>4. ASSUME NEW w \in Workers, Stop(w) \/ Dies(w) PROVE Grows
  BY <1>4 DEF Stop, Dies, Crash, CrashInLock, End, Count
<1>5. ASSUME NEW w \in Workers, NEW m \in Messages, Deliver(w, m) \/ RunTask(w, m) \/ Ack(w, m)
      PROVE  Grows
  BY <1>5 DEF Deliver, RunTask, Count, Ack
<1>6. ASSUME NEW m \in Messages, Requeue(m) PROVE Grows
  BY <1>6 DEF Requeue
<1>7. QED
  BY <1>1, <1>2, <1>3, <1>4, <1>5, <1>6
  DEF WorkNext, Consume, Delivery, Execution, Acknowledgement, Redelivery

-----------------------------------------------------------------------------
(* What the invariant says of the counter itself.                          *)
LEMMA CounterBound == WorkInv => CountedWithinRedeliveries
<1> SUFFICES ASSUME WorkInv PROVE CountedWithinRedeliveries
  OBVIOUS
<1> DEFINE A == Cardinality(Again)
           E == Cardinality(executed)
           P == Prefetch * Cardinality(Ended)
<1>1. Again \in SUBSET Messages /\ Ended \in SUBSET Workers
  BY DEF WorkInv, WorkTypeOK, Again, Ended
<1>2. Prefetch \in Nat /\ Cardinality(Ended) \in Nat
  BY <1>1, Finite, WorkQueueAssumption
<1>3. P \in Nat
  BY <1>2
<1>4. A \in Nat /\ E \in Nat /\ counter \in Nat
  BY <1>1, Finite DEF WorkInv, WorkTypeOK
<1>5. counter + A <= E + P
  BY DEF WorkInv, CountBound
<1> HIDE DEF A, E, P
<1>6. counter <= E + P
  BY <1>3, <1>4, <1>5
<1>7. QED  BY <1>6 DEF E, P, CountedWithinRedeliveries

(* As long as the runner has stopped no worker, a counter at the total     *)
(* means that every message has been executed, but for Prefetch of them    *)
(* for each worker that died; and this stays true, whatever happens next.  *)
LEMMA CounterAtTotal ==
  ASSUME WorkInv, stopped = {}, counter >= Total
  PROVE  MissedWithinCrashes
<1> DEFINE E == Cardinality(executed)
           M == Cardinality(Messages \ executed)
           P == Prefetch * Cardinality(crashed)
<1>1. /\ executed \in SUBSET Messages /\ IsFiniteSet(Messages) /\ Messages \cap executed = executed
      /\ E \in Nat /\ Total \in Nat /\ counter \in Nat
  BY Finite, WorkQueueAssumption DEF WorkInv, WorkTypeOK
<1>2. M = Total - E
  BY <1>1, FS_Difference DEF Total
<1>3. P \in Nat
  <2>1. crashed \in SUBSET Workers
    BY DEF WorkInv, WorkTypeOK
  <2>2. Prefetch \in Nat /\ Cardinality(crashed) \in Nat
    BY <2>1, Finite, WorkQueueAssumption
  <2>3. QED  BY <2>2
<1>4. counter <= E + P
  <2>1. Ended = crashed
    BY DEF Ended
  <2>2. QED  BY <2>1, CounterBound DEF CountedWithinRedeliveries
<1>5. MissedWithinCrashes <=> M <= P
  BY DEF MissedWithinCrashes
<1> HIDE DEF E, M, P
<1>6. QED  BY <1>1, <1>2, <1>3, <1>4, <1>5

LEMMA MissedStays ==
  ASSUME WorkInv, WorkTypeOK', MissedWithinCrashes,
         executed \subseteq executed', crashed \subseteq crashed'
  PROVE  MissedWithinCrashes'
<1> DEFINE M == Cardinality(Messages \ executed)
           M1 == Cardinality(Messages \ executed')
           C == Cardinality(crashed)
           C1 == Cardinality(crashed')
<1>1. M \in Nat /\ M1 \in Nat /\ M1 <= M
  <2>1. IsFiniteSet(Messages \ executed) /\ Messages \ executed' \in SUBSET (Messages \ executed)
    BY Finite
  <2>2. QED  BY <2>1, SubsetSmaller
<1>2. C \in Nat /\ C1 \in Nat /\ C <= C1
  <2>1. IsFiniteSet(crashed')
    BY Finite DEF WorkTypeOK
  <2>2. QED  BY <2>1, SubsetSmaller
<1>3. Prefetch \in Nat /\ M <= Prefetch * C
  BY WorkQueueAssumption DEF MissedWithinCrashes
<1>4. MissedWithinCrashes' <=> M1 <= Prefetch * C1
  BY DEF MissedWithinCrashes
<1> HIDE DEF M, M1, C, C1
<1>5. Prefetch * C \in Nat /\ Prefetch * C1 \in Nat /\ Prefetch * C <= Prefetch * C1
  BY <1>2, <1>3
<1>6. QED  BY <1>1, <1>3, <1>4, <1>5

(* The counter exceeds the number of executed messages by no more than     *)
(* Prefetch for every worker that ended, whatever the mode of the run.     *)
THEOREM CounterAccuracy == WorkSpec => []CountedWithinRedeliveries
  BY WorkInvariance, CounterBound, PTL
=============================================================================
