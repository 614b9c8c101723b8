-------------------------- MODULE Counting_proofs ---------------------------
(***************************************************************************)
(* Proofs about what several processes, threads or coroutines count        *)
(* together.                                                               *)
(*                                                                         *)
(* SharedCounter, for any number of workers, tasks and crashes and for     *)
(* both counter kinds: the lock makes its holder the only process between  *)
(* acquire and release, so what the holder read is still the value when it *)
(* stores.                                                                 *)
(*                                                                         *)
(* Publishing, for any numbers of messages, coroutines, threads and        *)
(* publishers and any burst, batch and pipe size: every message is         *)
(* counted, on its way to be counted, or still to be sent, so what is      *)
(* shown is never ahead of what was sent and a success is complete.        *)
(***************************************************************************)
EXTENDS SharedCounter, Publishing, Sequences, FiniteSetTheorems, TLAPS

-----------------------------------------------------------------------------
(***************************************************************************)
(* SharedCounter.                                                          *)
(***************************************************************************)

(* Every variable keeps its type: the counter is a natural number, and the *)
(* lock belongs to a worker, to the runner or to nobody.                   *)
THEOREM CounterTypeCorrect == CounterSpec => []TypeOK
<1>1. CounterInit => TypeOK
  BY CounterAssumption DEF CounterInit, TypeOK
<1>2. TypeOK /\ [CounterNext]_counterVars => TypeOK'
  <2> SUFFICES ASSUME TypeOK, [CounterNext]_counterVars PROVE TypeOK'
    OBVIOUS
  <2>1. CASE UNCHANGED counterVars
    BY <2>1 DEF counterVars, TypeOK
  <2>2. ASSUME NEW w \in Workers, Increment(w) PROVE TypeOK'
    <3>1. CASE FinishTask(w)  BY <3>1 DEF TypeOK, FinishTask, Move
    <3>2. CASE Acquire(w)     BY <3>2 DEF TypeOK, Acquire, Move
    <3>3. CASE Load(w)        BY <3>3 DEF TypeOK, Load, Move
    <3>4. CASE Store(w)       BY <3>4 DEF TypeOK, Store, Move
    <3>5. CASE Release(w)     BY <3>5 DEF TypeOK, Release, Move
    <3>6. QED  BY <2>2, <3>1, <3>2, <3>3, <3>4, <3>5 DEF Increment
  <2>3. ASSUME NEW w \in Workers, Crash(w) PROVE TypeOK'
    BY <2>3 DEF TypeOK, Crash
  <2>4. CASE Poll
    BY <2>4 DEF TypeOK, Poll, StartPoll, ReadMmap, LockValue, ReadValue
  <2>5. QED  BY <2>1, <2>2, <2>3, <2>4 DEF CounterNext
<1>3. QED  BY <1>1, <1>2, PTL DEF CounterSpec

LEMMA CounterInitInv == CounterInit => CounterInv
  BY CounterAssumption DEF CounterInit, CounterInv, TypeOK, HolderOwnsValue, SeenBounded

(* One step of a worker or of the runner keeps the critical sections       *)
(* exclusive and the value read in one of them current.                    *)
LEMMA CounterNextInv == ASSUME CounterInv, TypeOK', [CounterNext]_counterVars
                 PROVE  HolderOwnsValue' /\ SeenBounded'
<1> USE CounterAssumption DEF CounterInv, TypeOK, HolderOwnsValue, SeenBounded
<1>1. CASE UNCHANGED counterVars
  BY <1>1 DEF counterVars
<1>2. ASSUME NEW w \in Workers, Increment(w) PROVE HolderOwnsValue' /\ SeenBounded'
  <2>1. CASE FinishTask(w)  BY <2>1 DEF FinishTask, Move
  <2>2. CASE Acquire(w)     BY <2>2 DEF Acquire, Move
  <2>3. CASE Load(w)        BY <2>3 DEF Load, Move
  <2>4. CASE Store(w)       BY <2>4 DEF Store, Move
  <2>5. CASE Release(w)     BY <2>5 DEF Release, Move
  <2>6. QED  BY <1>2, <2>1, <2>2, <2>3, <2>4, <2>5 DEF Increment
<1>3. ASSUME NEW w \in Workers, Crash(w) PROVE HolderOwnsValue' /\ SeenBounded'
  BY <1>3 DEF Crash, Dead
<1>4. CASE Poll
  <2>1. CASE StartPoll  BY <2>1 DEF StartPoll
  <2>2. CASE ReadMmap   BY <2>2 DEF ReadMmap
  <2>3. CASE LockValue  BY <2>3 DEF LockValue
  <2>4. CASE ReadValue  BY <2>4 DEF ReadValue
  <2>5. QED  BY <1>4, <2>1, <2>2, <2>3, <2>4 DEF Poll
<1>5. QED  BY <1>1, <1>2, <1>3, <1>4 DEF CounterNext

(* The invariant holds in every reachable state.                           *)
THEOREM CounterInvariance == CounterSpec => []CounterInv
<1>1. CounterInv /\ TypeOK' /\ [CounterNext]_counterVars => CounterInv'
  BY CounterNextInv DEF CounterInv
<1>2. QED  BY CounterInitInv, CounterTypeCorrect, <1>1, PTL DEF CounterSpec

(* Whoever is inside the read-modify-write holds the lock, and what it     *)
(* loaded is still the value of the counter.                               *)
THEOREM MutualExclusion == CounterSpec => []HolderOwnsValue
  BY CounterInvariance, PTL DEF CounterInv

(* The counter never goes back between two polls of the runner.            *)
THEOREM PollsMonotone == CounterSpec => PollsNeverGoBack
<1>1. CounterInv /\ [CounterNext]_counterVars => [seen' >= seen]_counterVars
  <2> SUFFICES ASSUME CounterInv, CounterNext PROVE seen' >= seen
    OBVIOUS
  <2>1. seen \in Nat /\ value \in Nat /\ seen <= value
    BY DEF CounterInv, TypeOK, SeenBounded
  <2>2. seen' = seen \/ seen' = value
    BY DEF CounterNext, Increment, FinishTask, Acquire, Load, Store, Release, Crash,
           Poll, StartPoll, ReadMmap, LockValue, ReadValue
  <2>3. QED  BY <2>1, <2>2
<1>2. QED  BY CounterInvariance, <1>1, PTL DEF CounterSpec, PollsNeverGoBack

(* Every step of the locked counter is a step of the one-step counter or   *)
(* leaves it alone: no increment is lost, none is counted twice, and the   *)
(* runner reads what the counter is.                                       *)
THEOREM CounterRefinement == CounterSpec => ImplementsEventCounter
<1>1. CounterInit => Events!Init
  BY DEF CounterInit, Events!Init
<1>2. CounterInv /\ [CounterNext]_counterVars => [Events!Next]_(Events!vars)
  <2> SUFFICES ASSUME CounterInv, [CounterNext]_counterVars
               PROVE  Events!Next \/ UNCHANGED Events!vars
    OBVIOUS
  <2> USE DEF Events!vars
  <2>1. CASE UNCHANGED counterVars
    BY <2>1 DEF counterVars
  <2>2. ASSUME NEW w \in Workers, Store(w) PROVE Events!Next
    <3>1. copy[w] = value
      BY <2>2 DEF CounterInv, HolderOwnsValue, Store, Move
    <3>2. Events!Increment(w)
      BY <2>2, <3>1 DEF Store, Events!Increment
    <3>3. QED  BY <3>2 DEF Events!Next
  <2>3. ASSUME NEW w \in Workers, Increment(w), ~Store(w)
        PROVE  UNCHANGED Events!vars
    BY <2>3 DEF Increment, FinishTask, Acquire, Load, Release
  <2>4. ASSUME NEW w \in Workers, Crash(w) PROVE UNCHANGED Events!vars
    BY <2>4 DEF Crash
  <2>5. CASE StartPoll \/ LockValue
    BY <2>5 DEF StartPoll, LockValue
  <2>6. CASE ReadMmap \/ ReadValue
    <3>1. Events!Read
      BY <2>6 DEF ReadMmap, ReadValue, Events!Read
    <3>2. QED  BY <3>1 DEF Events!Next
  <2>7. QED  BY <2>1, <2>2, <2>3, <2>4, <2>5, <2>6 DEF CounterNext, Poll
<1>3. QED  BY <1>1, <1>2, CounterInvariance, PTL DEF CounterSpec, ImplementsEventCounter, Events!Spec

-----------------------------------------------------------------------------
(***************************************************************************)
(* Publishing: counting the members of a set, and adding numbers up.       *)
(***************************************************************************)

(* How many members of S have a value of V, when the value of one changes. *)
Having(f, S, V) == {x \in S : f[x] \in V}

LEMMA HavingFinite ==
  ASSUME NEW S, IsFiniteSet(S), NEW f, NEW V
  PROVE  /\ IsFiniteSet(Having(f, S, V))
         /\ Cardinality(Having(f, S, V)) \in 0..Cardinality(S)
<1>1. Having(f, S, V) \in SUBSET S
  BY DEF Having
<1>2. QED  BY <1>1, FS_Subset, FS_CardinalityType

OneIf(v, V) == IF v \in V THEN 1 ELSE 0

LEMMA OneMoves ==
  ASSUME NEW S, IsFiniteSet(S), NEW x \in S, NEW f, NEW g, NEW V,
         \A y \in S : y # x => g[y] = f[y]
  PROVE  Cardinality(Having(g, S, V)) =
           Cardinality(Having(f, S, V)) - OneIf(f[x], V) + OneIf(g[x], V)
<1> DEFINE F == Having(f, S, V)
           G == Having(g, S, V)
<1>1. IsFiniteSet(F) /\ Cardinality(F) \in Nat
  BY HavingFinite
<1>2. x \in F <=> f[x] \in V
  BY DEF Having
<1>3. CASE g[x] \in V
  <2>1. G = F \cup {x}
    BY <1>3 DEF Having
  <2>2. Cardinality(F \cup {x}) = IF x \in F THEN Cardinality(F) ELSE Cardinality(F) + 1
    BY <1>1, FS_AddElement
  <2>3. QED  BY <1>1, <1>2, <1>3, <2>1, <2>2 DEF OneIf
<1>4. CASE g[x] \notin V
  <2>1. G = F \ {x}
    BY <1>4 DEF Having
  <2>2. Cardinality(F \ {x}) = IF x \in F THEN Cardinality(F) - 1 ELSE Cardinality(F)
    BY <1>1, FS_RemoveElement
  <2>3. QED  BY <1>1, <1>2, <1>4, <2>1, <2>2 DEF OneIf
<1>5. QED  BY <1>3, <1>4

(* The numbers f[x] added up, as a set of units (Sum, Uncounted). *)
Units(f, S, n) == {unit \in S \X (1..n) : unit[2] <= f[unit[1]]}

LEMMA UnitsFinite ==
  ASSUME NEW S, IsFiniteSet(S), NEW n \in Nat, NEW f
  PROVE  IsFiniteSet(Units(f, S, n)) /\ Cardinality(Units(f, S, n)) \in Nat
<1>1. IsFiniteSet(S \X (1..n))
  <2>1. IsFiniteSet(1..n)
    BY FS_Interval
  <2>2. QED  BY <2>1, FS_Product
<1>2. Units(f, S, n) \in SUBSET (S \X (1..n))
  BY DEF Units
<1>3. QED  BY <1>1, <1>2, FS_Subset, FS_CardinalityType

LEMMA Upto ==
  ASSUME NEW k \in Nat
  PROVE  IsFiniteSet(1..k) /\ Cardinality(1..k) = k
<1>1. 1 \in Int /\ k \in Int
  OBVIOUS
<1>2. /\ IsFiniteSet(1..k)
      /\ Cardinality(1..k) = IF 1 > k THEN 0 ELSE k - 1 + 1
  BY <1>1, FS_Interval
<1>3. QED  BY <1>2

LEMMA UnitsOneChanges ==
  ASSUME NEW S, IsFiniteSet(S), NEW n \in Nat, NEW x \in S,
         NEW f \in [S -> 0..n], NEW g \in [S -> 0..n], \A y \in S : y # x => g[y] = f[y]
  PROVE  Cardinality(Units(g, S, n)) = Cardinality(Units(f, S, n)) - f[x] + g[x]
<1> DEFINE Rest == {unit \in Units(f, S, n) : unit[1] # x}
           Own(k) == {x} \X (1..k)
<1>1. Units(f, S, n) = Rest \cup Own(f[x])
  BY DEF Units
<1>2. Units(g, S, n) = Rest \cup Own(g[x])
  BY DEF Units
<1>3. \A k \in Nat : IsFiniteSet(Own(k)) /\ Cardinality(Own(k)) = k
  <2> SUFFICES ASSUME NEW k \in Nat PROVE IsFiniteSet(Own(k)) /\ Cardinality(Own(k)) = k
    OBVIOUS
  <2>1. IsFiniteSet({x}) /\ Cardinality({x}) = 1
    BY FS_Singleton
  <2>2. IsFiniteSet(Own(k)) /\ Cardinality(Own(k)) = Cardinality({x}) * Cardinality(1..k)
    BY <2>1, Upto, FS_Product
  <2>3. QED  BY <2>1, <2>2, Upto
<1>4. IsFiniteSet(Rest) /\ Cardinality(Rest) \in Nat
  <2>1. Rest \in SUBSET Units(f, S, n)
    OBVIOUS
  <2>2. QED  BY <2>1, UnitsFinite, FS_Subset, FS_CardinalityType
<1>5. \A k \in Nat : Cardinality(Rest \cup Own(k)) = Cardinality(Rest) + k
  <2> SUFFICES ASSUME NEW k \in Nat PROVE Cardinality(Rest \cup Own(k)) = Cardinality(Rest) + k
    OBVIOUS
  <2>1. Rest \cap Own(k) = {}
    OBVIOUS
  <2>2. Cardinality(Rest \cup Own(k))
          = Cardinality(Rest) + Cardinality(Own(k)) - Cardinality(Rest \cap Own(k))
    BY <1>3, <1>4, FS_Union
  <2>3. Cardinality(Rest \cap Own(k)) = 0
    BY <2>1, FS_EmptySet
  <2> HIDE DEF Rest, Own
  <2>4. QED  BY <1>3, <1>4, <2>2, <2>3
<1>6. f[x] \in Nat /\ g[x] \in Nat
  OBVIOUS
<1> HIDE DEF Rest, Own
<1>7. QED  BY <1>1, <1>2, <1>4, <1>5, <1>6

LEMMA UnitsAtMost ==
  ASSUME NEW S, IsFiniteSet(S), NEW n \in Nat, NEW f \in [S -> 0..n], NEW g \in [S -> 0..n],
         \A y \in S : f[y] <= g[y]
  PROVE  Cardinality(Units(f, S, n)) <= Cardinality(Units(g, S, n))
<1>1. Units(f, S, n) \in SUBSET Units(g, S, n)
  BY DEF Units
<1>2. QED  BY <1>1, UnitsFinite, FS_Subset

LEMMA UnitsOfNothing ==
  ASSUME NEW S, NEW n \in Nat, NEW f, \A y \in S : f[y] = 0
  PROVE  Cardinality(Units(f, S, n)) = 0
<1>1. Units(f, S, n) = {}
  BY DEF Units
<1>2. QED  BY <1>1, FS_EmptySet

LEMMA UnitsOfSome ==
  ASSUME NEW S, IsFiniteSet(S), NEW n \in Nat \ {0}, NEW f, NEW R \in SUBSET S,
         \A y \in R : f[y] >= 1
  PROVE  Cardinality(R) <= Cardinality(Units(f, S, n))
<1>1. R \X {1} \in SUBSET Units(f, S, n)
  BY DEF Units
<1>2. IsFiniteSet(R) /\ Cardinality(R) \in Nat /\ IsFiniteSet({1}) /\ Cardinality({1}) = 1
  BY FS_Subset, FS_Singleton, FS_CardinalityType
<1>3. Cardinality(R \X {1}) = Cardinality(R) * 1
  BY <1>2, FS_Product
<1>4. Cardinality(R \X {1}) <= Cardinality(Units(f, S, n))
  BY <1>1, UnitsFinite, FS_Subset
<1>5. QED  BY <1>2, <1>3, <1>4

(* n split as evenly as possible adds up to n (counts, _split_messages). *)
LEMMA Division ==
  ASSUME NEW n \in Nat, NEW c \in Nat \ {0}
  PROVE  /\ n \div c \in Nat /\ n % c \in 0..(c - 1)
         /\ n = c * (n \div c) + (n % c)
BY SMTT(30)

LEMMA EvenSplit ==
  ASSUME NEW S, IsFiniteSet(S), NEW n \in Nat, NEW each \in Nat, NEW r \in Nat,
         NEW f \in [S -> {each, each + 1}], f \in [S -> 0..n],
         Cardinality({x \in S : f[x] = each + 1}) = r
  PROVE  Cardinality(Units(f, S, n)) = Cardinality(S) * each + r
<1> DEFINE More == {x \in S : f[x] = each + 1}
           A == S \X (1..each)
           B == More \X {each + 1}
<1>1. Units(f, S, n) = A \cup B
  BY DEF Units
<1>2. A \cap B = {}
  OBVIOUS
<1>3. IsFiniteSet(A) /\ Cardinality(A) = Cardinality(S) * each
  <2>1. IsFiniteSet(A) /\ Cardinality(A) = Cardinality(S) * Cardinality(1..each)
    BY Upto, FS_Product
  <2>2. QED  BY <2>1, Upto
<1>4. IsFiniteSet(B) /\ Cardinality(B) = r
  <2>1. IsFiniteSet(More)
    BY FS_Subset
  <2>2. IsFiniteSet({each + 1}) /\ Cardinality({each + 1}) = 1
    BY FS_Singleton
  <2>3. IsFiniteSet(B) /\ Cardinality(B) = Cardinality(More) * Cardinality({each + 1})
    BY <2>1, <2>2, FS_Product
  <2>4. QED  BY <2>2, <2>3
<1>5. Cardinality(S) * each \in Nat
  BY FS_CardinalityType
<1>6. Cardinality(A \cup B) = Cardinality(A) + Cardinality(B) - Cardinality(A \cap B)
  BY <1>3, <1>4, FS_Union
<1>7. Cardinality(A \cap B) = 0
  BY <1>2, FS_EmptySet
<1> HIDE DEF A, B
<1>8. QED  BY <1>1, <1>3, <1>4, <1>5, <1>6, <1>7

-----------------------------------------------------------------------------
(***************************************************************************)
(* Publishing with coroutines (publish_async).                             *)
(***************************************************************************)

(* How many coroutines are in one of these states.                         *)
AsyncCount(states) == Cardinality(Async!In(states))
AsyncStates == {"unused", "new", "sending", "sent", "ended", "failed", "cancelled"}

(* Not all coroutines of a burst can be cancelled.                         *)
FewCancelled == MaxCancelled < Cardinality(Coroutines)

(* Every message taken is with a coroutine that sends it, or was; only a   *)
(* failed send leaves open whether the broker got it.                      *)
AsyncAddsUp ==
  /\ nextMessage = done + AsyncCount({"sent"}) + AsyncCount({"sending"})
                        + AsyncCount({"failed"}) + AsyncCount({"cancelled"})
  /\ LET known == Async!SentBefore + done + AsyncCount({"sent"}) + AsyncCount({"cancelled"})
     IN  /\ FewCancelled => known <= sent + lost
         /\ sent + lost <= known + AsyncCount({"failed"})

(* A coroutine ends when nothing is left to take, and those that were      *)
(* created for a burst stay.                                               *)
AsyncCreated ==
  /\ Async!In({"ended"}) # {} => nextMessage = Async!Burst
  /\ AsyncCount(AsyncStates \ {"unused"})
       = Async!Smaller(Cardinality(Coroutines), Async!Burst)
  /\ AsyncCount({"cancelled"}) <= MaxCancelled
  /\ result # "none" => Async!In({"new", "sending", "sent"}) = {}

AsyncInv == Async!TypeOK /\ AsyncAddsUp /\ AsyncCreated

LEMMA SameCardinality ==
  \A S : /\ Async!Cardinality(S) = Cardinality(S)
         /\ Threaded!Cardinality(S) = Cardinality(S)
         /\ Pool!Cardinality(S) = Cardinality(S)
<1>1. \A S : Async!Cardinality(S) = Cardinality(S)
  BY DEF Async!Cardinality, Cardinality
<1>2. \A S : Threaded!Cardinality(S) = Cardinality(S)
  BY DEF Threaded!Cardinality, Cardinality
<1>3. \A S : Pool!Cardinality(S) = Cardinality(S)
  BY DEF Pool!Cardinality, Cardinality
<1>4. QED  BY <1>1, <1>2, <1>3

LEMMA AsyncCounts ==
  ASSUME NEW V
  PROVE  /\ Async!In(V) = Having(co, Coroutines, V) /\ Async!In(V)' = Having(co', Coroutines, V)
         /\ AsyncCount(V) = Cardinality(Having(co, Coroutines, V))
         /\ AsyncCount(V)' = Cardinality(Having(co', Coroutines, V))
         /\ AsyncCount(V) \in Nat /\ (AsyncCount(V) = 0 <=> Async!In(V) = {})
         /\ AsyncCount(V)' \in Nat
         /\ IsFiniteSet(Async!In(V))
<1>1. Async!In(V) = Having(co, Coroutines, V) /\ Async!In(V)' = Having(co', Coroutines, V)
  BY DEF Async!In, Having
<1>2. IsFiniteSet(Coroutines)
  BY PublishingAssumption
<1>3. IsFiniteSet(Async!In(V)) /\ IsFiniteSet(Async!In(V)')
  BY <1>1, <1>2, HavingFinite
<1>4. QED  BY <1>1, <1>3, FS_CardinalityType, FS_EmptySet DEF AsyncCount

LEMMA AsyncMoves ==
  ASSUME NEW c \in Coroutines, \A y \in Coroutines : y # c => co'[y] = co[y], NEW V
  PROVE  AsyncCount(V)' = AsyncCount(V) - OneIf(co[c], V) + OneIf(co'[c], V)
<1>1. IsFiniteSet(Coroutines)
  BY PublishingAssumption
<1>2. Cardinality(Having(co', Coroutines, V)) =
           Cardinality(Having(co, Coroutines, V)) - OneIf(co[c], V) + OneIf(co'[c], V)
  BY <1>1, OneMoves
<1>3. QED  BY <1>2 DEF AsyncCount, Async!In, Having

LEMMA AsyncSame ==
  ASSUME co' = co, NEW V
  PROVE  Async!In(V)' = Async!In(V) /\ AsyncCount(V)' = AsyncCount(V)
BY DEF Async!In, AsyncCount

(* The coroutines created for n messages.                                  *)
LEMMA AsyncTasks ==
  ASSUME NEW n \in Nat, NEW f \in Async!NewTasks(n)
  PROVE  /\ f \in [Coroutines -> AsyncStates]
         /\ \A V : V \cap {"new", "unused"} = {} =>
               Having(f, Coroutines, V) = {} /\ Cardinality(Having(f, Coroutines, V)) = 0
         /\ Cardinality(Having(f, Coroutines, AsyncStates \ {"unused"}))
               = Async!Smaller(Cardinality(Coroutines), n)
<1>1. f \in [Coroutines -> {"new", "unused"}]
  BY DEF Async!NewTasks
<1>2. Having(f, Coroutines, AsyncStates \ {"unused"}) = {c \in Coroutines : f[c] = "new"}
  BY <1>1 DEF Having, AsyncStates
<1>3. ASSUME NEW V, V \cap {"new", "unused"} = {}
      PROVE  Having(f, Coroutines, V) = {}
  BY <1>1, <1>3 DEF Having
<1>4. Cardinality({c \in Coroutines : f[c] = "new"}) = Async!Smaller(Cardinality(Coroutines), n)
  BY SameCardinality DEF Async!NewTasks
<1>5. QED  BY <1>1, <1>2, <1>3, <1>4, FS_EmptySet DEF AsyncStates

LEMMA AsyncStarts == Async!Init => AsyncInv
<1> SUFFICES ASSUME Async!Init PROVE AsyncInv
  OBVIOUS
<1> USE PublishingAssumption
<1>1. remaining = Messages /\ Messages \in Nat \ {0} /\ BurstSize \in Nat \ {0}
      /\ nextMessage = 0 /\ done = 0 /\ sent = 0 /\ lost = 0 /\ result = "none"
      /\ co \in Async!NewTasks(Async!Burst)
  BY DEF Async!Init
<1>2. Async!Burst \in 1..Messages
  BY <1>1 DEF Async!Burst, Async!Smaller
<1>3. Async!TypeOK
  BY <1>1, <1>2, AsyncTasks DEF Async!TypeOK, AsyncStates
<1>4. AsyncAddsUp
  <2>1. /\ AsyncCount({"sent"}) = 0 /\ AsyncCount({"sending"}) = 0
        /\ AsyncCount({"failed"}) = 0 /\ AsyncCount({"cancelled"}) = 0
    BY <1>1, <1>2, AsyncTasks, AsyncCounts
  <2>2. QED  BY <1>1, <2>1 DEF AsyncAddsUp, Async!SentBefore
<1>5. AsyncCreated
  <2>1. Async!In({"ended"}) = {} /\ AsyncCount({"cancelled"}) = 0
    BY <1>1, <1>2, AsyncTasks, AsyncCounts
  <2>2. AsyncCount(AsyncStates \ {"unused"})
          = Async!Smaller(Cardinality(Coroutines), Async!Burst)
    <3>1. Async!Burst \in Nat
      BY <1>2
    <3>2. Cardinality(Having(co, Coroutines, AsyncStates \ {"unused"}))
            = Async!Smaller(Cardinality(Coroutines), Async!Burst)
      BY <1>1, <3>1, AsyncTasks
    <3>3. QED  BY <3>2, AsyncCounts
  <2>3. QED  BY <1>1, <2>1, <2>2 DEF AsyncCreated
<1>6. QED  BY <1>3, <1>4, <1>5 DEF AsyncInv

(* What a coroutine does when it is on (Resume and the three ends of a     *)
(* send) leaves the burst alone.                                           *)
LEMMA AsyncOneStep ==
  ASSUME AsyncInv, NEW c \in Coroutines,
         Async!Resume(c) \/ Async!SendReturns(c) \/ Async!SendFails(c) \/ Async!SendCancelled(c)
  PROVE  /\ AsyncInv'
         /\ result = "none" /\ result' = result /\ remaining' = remaining
         /\ \/ sent' + lost' = sent + lost /\ done' >= done
            \/ sent' + lost' = sent + lost + 1 /\ done' = done
<1> DEFINE next1 == nextMessage'
           done1 == done'
           sent1 == sent'
           lost1 == lost'
           before == Async!SentBefore
           burst == Async!Burst
           a == AsyncCount({"sent"})
           b == AsyncCount({"sending"})
           f == AsyncCount({"failed"})
           k == AsyncCount({"cancelled"})
           u == AsyncCount(AsyncStates \ {"unused"})
           a1 == AsyncCount({"sent"})'
           b1 == AsyncCount({"sending"})'
           f1 == AsyncCount({"failed"})'
           k1 == AsyncCount({"cancelled"})'
           u1 == AsyncCount(AsyncStates \ {"unused"})'
<1> DEFINE Moved(V) == AsyncCount(V)' = AsyncCount(V) - OneIf(co[c], V) + OneIf(co'[c], V)
<1>1. /\ co \in [Coroutines -> AsyncStates] /\ remaining \in 1..Messages
      /\ nextMessage \in 0..Async!Burst /\ done \in 0..Async!Burst
      /\ sent \in 0..Messages /\ lost \in 0..Messages /\ result \in {"none", "ok", "raised"}
      /\ Messages \in Nat \ {0} /\ BurstSize \in Nat \ {0}
  BY PublishingAssumption DEF AsyncInv, Async!TypeOK, AsyncStates
<1>2. Async!Burst \in 1..remaining
  BY <1>1 DEF Async!Burst, Async!Smaller
<1>3. /\ co[c] \in {"new", "sent", "sending"}
      /\ co' \in [Coroutines -> AsyncStates]
      /\ \A y \in Coroutines : y # c => co'[y] = co[y]
      /\ remaining' = remaining /\ result' = result
  BY <1>1 DEF Async!Resume, Async!SendReturns, Async!SendFails, Async!SendCancelled, Async!loop,
     AsyncStates
<1>4. result = "none"
  BY <1>1, <1>3 DEF AsyncInv, AsyncCreated, Async!In
<1>5. Async!Burst' = Async!Burst /\ Async!SentBefore' = Async!SentBefore
  BY <1>3 DEF Async!Burst, Async!SentBefore
<1>6. /\ Moved({"sent"}) /\ Moved({"sending"}) /\ Moved({"failed"}) /\ Moved({"cancelled"})
      /\ Moved(AsyncStates \ {"unused"})
  BY <1>3, AsyncMoves
<1>7. /\ a \in Nat /\ b \in Nat /\ f \in Nat /\ k \in Nat /\ u \in Nat
      /\ a1 \in Nat /\ b1 \in Nat /\ f1 \in Nat /\ k1 \in Nat
      /\ before \in Nat /\ burst \in Nat /\ before + burst <= Messages
      /\ nextMessage \in 0..burst /\ done \in Nat /\ sent \in Nat /\ lost \in Nat
      /\ Messages \in Nat /\ MaxCancelled \in Nat
  BY <1>1, <1>2, AsyncCounts, PublishingAssumption DEF Async!SentBefore
<1>8. /\ nextMessage = done + a + b + f + k
      /\ FewCancelled => before + done + a + k <= sent + lost
      /\ sent + lost <= before + done + a + k + f
  BY DEF AsyncInv, AsyncAddsUp
<1>9. /\ Async!In({"ended"}) # {} => nextMessage = burst
      /\ u = Async!Smaller(Cardinality(Coroutines), burst)
      /\ k <= MaxCancelled
  BY DEF AsyncInv, AsyncCreated
<1>10. ASSUME /\ next1 \in 0..burst /\ done1 \in Nat /\ sent1 \in Nat /\ lost1 \in Nat
              /\ next1 = done1 + a1 + b1 + f1 + k1
              /\ FewCancelled => before + done1 + a1 + k1 <= sent1 + lost1
              /\ sent1 + lost1 <= before + done1 + a1 + k1 + f1
              /\ Async!In({"ended"})' # {} => next1 = burst
              /\ u1 = u /\ k1 <= MaxCancelled
       PROVE  AsyncInv' /\ sent1 + lost1 <= Messages
  <2>1. /\ done1 \in 0..burst /\ sent1 \in 0..Messages /\ lost1 \in 0..Messages
        /\ sent1 + lost1 <= Messages
    <3> HIDE DEF next1, done1, sent1, lost1, before, burst, a1, b1, f1, k1
    <3>1. QED  BY <1>7, <1>10
  <2>2. Async!TypeOK'
    BY <1>1, <1>2, <1>3, <1>5, <1>10, <2>1 DEF Async!TypeOK, AsyncStates
  <2>3. AsyncAddsUp'
    BY <1>5, <1>10 DEF AsyncAddsUp
  <2>4. AsyncCreated'
    BY <1>3, <1>4, <1>5, <1>9, <1>10 DEF AsyncCreated
  <2>5. QED  BY <2>1, <2>2, <2>3, <2>4 DEF AsyncInv
<1> HIDE DEF next1, done1, sent1, lost1, before, burst, a, b, f, k, u, a1, b1, f1, k1, u1
<1> SUFFICES /\ AsyncInv'
             /\ \/ sent1 + lost1 = sent + lost /\ done1 >= done
                \/ sent1 + lost1 = sent + lost + 1 /\ done1 = done
  BY <1>3, <1>4 DEF sent1, lost1, done1
<1>11. CASE Async!Resume(c)
  <2>1. CASE co[c] = "new" /\ nextMessage < Async!Burst
    <3>1. /\ co[c] = "new" /\ co'[c] = "sending"
          /\ next1 = nextMessage + 1 /\ done1 = done /\ sent1 = sent /\ lost1 = lost
      BY <1>1, <1>2, <1>11, <2>1 DEF Async!Resume, Async!loop, next1, done1, sent1, lost1
    <3>2. a1 = a /\ b1 = b + 1 /\ f1 = f /\ k1 = k /\ u1 = u
      BY <1>6, <1>7, <3>1 DEF OneIf, AsyncStates, a, b, f, k, u, a1, b1, f1, k1, u1
    <3>3. Async!In({"ended"})' # {} => next1 = burst
      BY <1>1, <1>2, <1>3, <1>9, <2>1, <3>1 DEF Async!In, next1, burst
    <3>4. QED  BY <1>7, <1>8, <1>9, <1>10, <2>1, <3>1, <3>2, <3>3 DEF burst
  <2>2. CASE co[c] = "new" /\ nextMessage >= Async!Burst
    <3>1. /\ co[c] = "new" /\ co'[c] = "ended"
          /\ next1 = nextMessage /\ done1 = done /\ sent1 = sent /\ lost1 = lost
      BY <1>1, <1>2, <1>11, <2>2 DEF Async!Resume, Async!loop, next1, done1, sent1, lost1
    <3>2. a1 = a /\ b1 = b /\ f1 = f /\ k1 = k /\ u1 = u
      BY <1>6, <1>7, <3>1 DEF OneIf, AsyncStates, a, b, f, k, u, a1, b1, f1, k1, u1
    <3>3. Async!In({"ended"})' # {} => next1 = burst
      BY <1>1, <1>2, <1>3, <1>9, <2>2, <3>1 DEF Async!In, next1, burst
    <3>4. QED  BY <1>7, <1>8, <1>9, <1>10, <2>2, <3>1, <3>2, <3>3
  <2>3. CASE co[c] = "sent" /\ nextMessage < Async!Burst
    <3>1. /\ co[c] = "sent" /\ co'[c] = "sending"
          /\ next1 = nextMessage + 1 /\ done1 = done + 1 /\ sent1 = sent /\ lost1 = lost
      BY <1>1, <1>2, <1>11, <2>3 DEF Async!Resume, Async!loop, next1, done1, sent1, lost1
    <3>2. a1 = a - 1 /\ b1 = b + 1 /\ f1 = f /\ k1 = k /\ u1 = u
      BY <1>6, <1>7, <3>1 DEF OneIf, AsyncStates, a, b, f, k, u, a1, b1, f1, k1, u1
    <3>3. Async!In({"ended"})' # {} => next1 = burst
      BY <1>1, <1>2, <1>3, <1>9, <2>3, <3>1 DEF Async!In, next1, burst
    <3>4. QED  BY <1>7, <1>8, <1>9, <1>10, <2>3, <3>1, <3>2, <3>3 DEF burst
  <2>4. CASE co[c] = "sent" /\ nextMessage >= Async!Burst
    <3>1. /\ co[c] = "sent" /\ co'[c] = "ended"
          /\ next1 = nextMessage /\ done1 = done + 1 /\ sent1 = sent /\ lost1 = lost
      BY <1>1, <1>2, <1>11, <2>4 DEF Async!Resume, Async!loop, next1, done1, sent1, lost1
    <3>2. a1 = a - 1 /\ b1 = b /\ f1 = f /\ k1 = k /\ u1 = u
      BY <1>6, <1>7, <3>1 DEF OneIf, AsyncStates, a, b, f, k, u, a1, b1, f1, k1, u1
    <3>3. Async!In({"ended"})' # {} => next1 = burst
      BY <1>1, <1>2, <1>3, <1>9, <2>4, <3>1 DEF Async!In, next1, burst
    <3>4. QED  BY <1>7, <1>8, <1>9, <1>10, <2>4, <3>1, <3>2, <3>3
  <2>5. QED  BY <1>1, <1>2, <1>11, <2>1, <2>2, <2>3, <2>4 DEF Async!Resume
<1>12. CASE Async!SendReturns(c)
  <2>1. /\ co[c] = "sending" /\ co'[c] = "sent"
        /\ next1 = nextMessage /\ done1 = done /\ sent1 = sent + 1 /\ lost1 = lost
    BY <1>1, <1>2, <1>12 DEF Async!SendReturns, Async!loop, next1, done1, sent1, lost1
  <2>2. a1 = a + 1 /\ b1 = b - 1 /\ f1 = f /\ k1 = k /\ u1 = u
    BY <1>6, <1>7, <2>1 DEF OneIf, AsyncStates, a, b, f, k, u, a1, b1, f1, k1, u1
  <2>3. Async!In({"ended"})' # {} => next1 = burst
    BY <1>1, <1>2, <1>3, <1>9, <2>1 DEF Async!In, next1, burst
  <2>4. QED  BY <1>7, <1>8, <1>9, <1>10, <2>1, <2>2, <2>3
<1>13. CASE Async!SendFails(c)
  <2>1. /\ co[c] = "sending" /\ co'[c] = "failed"
        /\ next1 = nextMessage /\ done1 = done /\ sent1 \in {sent, sent + 1} /\ lost1 = lost
    BY <1>1, <1>2, <1>13 DEF Async!SendFails, Async!loop, next1, done1, sent1, lost1
  <2>2. a1 = a /\ b1 = b - 1 /\ f1 = f + 1 /\ k1 = k /\ u1 = u
    BY <1>6, <1>7, <2>1 DEF OneIf, AsyncStates, a, b, f, k, u, a1, b1, f1, k1, u1
  <2>3. Async!In({"ended"})' # {} => next1 = burst
    BY <1>1, <1>2, <1>3, <1>9, <2>1 DEF Async!In, next1, burst
  <2>4. QED  BY <1>7, <1>8, <1>9, <1>10, <2>1, <2>2, <2>3
<1>14. CASE Async!SendCancelled(c)
  <2>1. /\ co[c] = "sending" /\ co'[c] = "cancelled"
        /\ next1 = nextMessage /\ done1 = done
    BY <1>1, <1>14 DEF Async!SendCancelled, Async!loop, next1, done1
  <2> \/ sent1 = sent + 1 /\ lost1 = lost
      \/ lost1 = lost + 1 /\ sent1 = sent
    BY <1>14, Zenon DEF Async!SendCancelled, sent1, lost1
  <2> k < MaxCancelled
    BY <1>14, SameCardinality DEF Async!SendCancelled, k, AsyncCount
  <2>2. a1 = a /\ b1 = b - 1 /\ f1 = f /\ k1 = k + 1 /\ u1 = u
    BY <1>6, <1>7, <2>1 DEF OneIf, AsyncStates, a, b, f, k, u, a1, b1, f1, k1, u1
  <2>3. Async!In({"ended"})' # {} => next1 = burst
    BY <1>1, <1>2, <1>3, <1>9, <2>1 DEF Async!In, next1, burst
  <2>4. QED  BY <1>7, <1>8, <1>9, <1>10, <2>1, <2>2, <2>3
<1>15. QED  BY <1>11, <1>12, <1>13, <1>14

(* When a burst is over and nothing failed, all of it was sent or          *)
(* cancelled: a coroutine has ended, so nothing was left to take, or all   *)
(* that were created are cancelled, and then they were as many as there    *)
(* were messages.                                                          *)
LEMMA AsyncBurstIsWhole ==
  ASSUME AsyncInv, Async!Gathered, Async!In({"failed"}) = {}
  PROVE  /\ sent + lost <= Async!SentBefore + Async!Burst
         /\ FewCancelled => sent + lost = Async!SentBefore + Async!Burst
<1> DEFINE k == AsyncCount({"cancelled"})
<1>1. /\ AsyncCount({"sent"}) = 0 /\ AsyncCount({"sending"}) = 0 /\ AsyncCount({"failed"}) = 0
      /\ k \in Nat
  <2>1. Async!In({"sent"}) = {} /\ Async!In({"sending"}) = {}
    BY DEF Async!Gathered, Async!In
  <2>2. QED  BY <2>1, AsyncCounts
<1>2. /\ remaining \in 1..Messages /\ Messages \in Nat /\ BurstSize \in Nat \ {0}
      /\ nextMessage \in 0..Async!Burst /\ done \in Nat /\ sent \in Nat /\ lost \in Nat
      /\ co \in [Coroutines -> AsyncStates] /\ MaxCancelled \in Nat
      /\ Cardinality(Coroutines) \in Nat
  BY PublishingAssumption, FS_CardinalityType DEF AsyncInv, Async!TypeOK, AsyncStates
<1>3. Async!Burst \in Nat /\ Async!SentBefore \in Nat
  BY <1>2 DEF Async!Burst, Async!Smaller, Async!SentBefore
<1>4. /\ nextMessage = done + k
      /\ FewCancelled => Async!SentBefore + done + k <= sent + lost
      /\ sent + lost <= Async!SentBefore + done + k
  BY <1>1, <1>2, <1>3 DEF AsyncInv, AsyncAddsUp
<1>5. ASSUME FewCancelled PROVE nextMessage = Async!Burst
  <2>1. CASE Async!In({"ended"}) # {}
    BY <2>1 DEF AsyncInv, AsyncCreated
  <2>2. CASE Async!In({"ended"}) = {}
    <3>1. Async!In(AsyncStates \ {"unused"}) = Async!In({"cancelled"})
      BY <1>2, <2>2 DEF Async!Gathered, Async!In, AsyncStates
    <3>2. k = Async!Smaller(Cardinality(Coroutines), Async!Burst) /\ k <= MaxCancelled
      BY <3>1 DEF AsyncInv, AsyncCreated, AsyncCount
    <3>3. k = Async!Burst
      BY <1>1, <1>2, <1>3, <1>5, <3>2 DEF FewCancelled, Async!Smaller
    <3>4. QED  BY <1>1, <1>2, <1>3, <1>4, <3>3
  <2>3. QED  BY <2>1, <2>2
<1>6. QED  BY <1>1, <1>2, <1>3, <1>4, <1>5

LEMMA AsyncNextBurst ==
  ASSUME AsyncInv, Async!NextBurst
  PROVE  /\ AsyncInv'
         /\ result' = result /\ sent' = sent /\ lost' = lost
         /\ Async!SentBefore' + done' >= Async!SentBefore + done
<1>1. /\ remaining \in 1..Messages /\ Messages \in Nat /\ BurstSize \in Nat \ {0}
      /\ done \in 0..Async!Burst /\ sent \in 0..Messages /\ lost \in 0..Messages
      /\ result = "none" /\ MaxCancelled \in Nat
  BY PublishingAssumption DEF AsyncInv, Async!TypeOK, Async!NextBurst, Async!Gathered
<1>2. Async!Burst \in 1..remaining
  BY <1>1 DEF Async!Burst, Async!Smaller
<1>3. /\ remaining > Async!Burst /\ remaining' = remaining - Async!Burst
      /\ nextMessage' = 0 /\ done' = 0 /\ sent' = sent /\ lost' = lost /\ result' = result
      /\ co' \in Async!NewTasks(Async!Burst')
  BY DEF Async!NextBurst
<1>4. remaining' \in 1..Messages /\ Async!Burst' \in 1..Messages
  BY <1>1, <1>2, <1>3 DEF Async!Burst, Async!Smaller
<1>5. Async!SentBefore' = Async!SentBefore + Async!Burst /\ Async!SentBefore \in Nat
  BY <1>1, <1>2, <1>3 DEF Async!SentBefore
<1>6. /\ AsyncCount({"sent"})' = 0 /\ AsyncCount({"sending"})' = 0
      /\ AsyncCount({"failed"})' = 0 /\ AsyncCount({"cancelled"})' = 0
      /\ Async!In({"ended"})' = {}
      /\ AsyncCount(AsyncStates \ {"unused"})'
            = Async!Smaller(Cardinality(Coroutines), Async!Burst')
      /\ co' \in [Coroutines -> AsyncStates]
  <2>1. Async!Burst' \in Nat /\ co' \in Async!NewTasks(Async!Burst')
    BY <1>3, <1>4
  <2>2. /\ co' \in [Coroutines -> AsyncStates]
        /\ \A V : V \cap {"new", "unused"} = {} =>
               Having(co', Coroutines, V) = {} /\ Cardinality(Having(co', Coroutines, V)) = 0
        /\ Cardinality(Having(co', Coroutines, AsyncStates \ {"unused"}))
               = Async!Smaller(Cardinality(Coroutines), Async!Burst')
    BY <2>1, AsyncTasks
  <2>3. \A s \in {"sent", "sending", "failed", "cancelled", "ended"} : {s} \cap {"new", "unused"} = {}
    OBVIOUS
  <2>4. QED  BY <2>2, <2>3, AsyncCounts
<1>7. /\ sent + lost <= Async!SentBefore'
      /\ FewCancelled => Async!SentBefore' = sent + lost
  BY <1>5, AsyncBurstIsWhole DEF Async!NextBurst
<1>8. Async!TypeOK'
  BY <1>1, <1>3, <1>4, <1>6 DEF Async!TypeOK, AsyncStates
<1>9. AsyncAddsUp'
  BY <1>1, <1>3, <1>5, <1>6, <1>7 DEF AsyncAddsUp
<1>10. AsyncCreated'
  BY <1>1, <1>3, <1>6 DEF AsyncCreated
<1>11. QED  BY <1>1, <1>2, <1>3, <1>5, <1>8, <1>9, <1>10 DEF AsyncInv

(* The whole of publish_async: its invariant, and that it does to its      *)
(* messages what Publisher allows.                                         *)
LEMMA AsyncEnds ==
  ASSUME AsyncInv, Async!Succeed \/ Async!Raise
  PROVE  /\ AsyncInv'
         /\ UNCHANGED <<remaining, nextMessage, done, co, sent, lost>>
         /\ result = "none" /\ result' \in {"ok", "raised"}
         /\ result' = "ok" => Async!Gathered /\ Async!In({"failed"}) = {} /\ remaining = Async!Burst
<1>1. /\ UNCHANGED <<remaining, nextMessage, done, co, sent, lost>>
      /\ result = "none" /\ result' \in {"ok", "raised"} /\ Async!Gathered
      /\ result' = "ok" => Async!Gathered /\ Async!In({"failed"}) = {} /\ remaining = Async!Burst
  BY DEF Async!Succeed, Async!Raise, Async!loop, Async!Gathered
<1>2. \A V : Async!In(V)' = Async!In(V) /\ AsyncCount(V)' = AsyncCount(V)
  BY <1>1, AsyncSame
<1>3. Async!Burst' = Async!Burst /\ Async!SentBefore' = Async!SentBefore
  BY <1>1 DEF Async!Burst, Async!SentBefore
<1>4. Async!TypeOK'
  BY <1>1, <1>3 DEF AsyncInv, Async!TypeOK
<1>5. AsyncAddsUp'
  BY <1>1, <1>2, <1>3 DEF AsyncInv, AsyncAddsUp
<1>6. AsyncCreated'
  BY <1>1, <1>2, <1>3 DEF AsyncInv, AsyncCreated, Async!Gathered
<1>7. QED  BY <1>1, <1>4, <1>5, <1>6 DEF AsyncInv

LEMMA AsyncStays ==
  ASSUME AsyncInv, UNCHANGED <<remaining, nextMessage, done, co, sent, lost, result>>
  PROVE  AsyncInv'
<1>2. \A V : Async!In(V)' = Async!In(V) /\ AsyncCount(V)' = AsyncCount(V)
  BY AsyncSame
<1>3. Async!Burst' = Async!Burst /\ Async!SentBefore' = Async!SentBefore
  BY DEF Async!Burst, Async!SentBefore
<1>4. Async!TypeOK'
  BY <1>3 DEF AsyncInv, Async!TypeOK
<1>5. AsyncAddsUp'
  BY <1>2, <1>3 DEF AsyncInv, AsyncAddsUp
<1>6. AsyncCreated'
  BY <1>2, <1>3 DEF AsyncInv, AsyncCreated
<1>7. QED  BY <1>4, <1>5, <1>6 DEF AsyncInv

LEMMA AsyncImpliesInv == AsyncInv => Async!Inv
<1> SUFFICES ASSUME AsyncInv, result # "none", Async!In({"ended"}) # {}
             PROVE  done + Async!Cardinality(Async!In({"failed", "cancelled"})) = Async!Burst
  BY DEF AsyncInv, Async!Inv, Async!FailureLosesOneMessage
<1> DEFINE F == Async!In({"failed"})
           K == Async!In({"cancelled"})
<1>1. Async!In({"failed", "cancelled"}) = F \cup K /\ F \cap K = {}
  BY DEF Async!In
<1>2. /\ IsFiniteSet(F) /\ IsFiniteSet(K)
      /\ Cardinality(F) \in Nat /\ Cardinality(K) \in Nat
  BY AsyncCounts DEF AsyncCount
<1>3. Cardinality(F \cup K) = Cardinality(F) + Cardinality(K) - Cardinality(F \cap K)
  BY <1>2, FS_Union
<1>4. Cardinality(F \cap K) = 0
  BY <1>1, FS_EmptySet
<1>5. AsyncCount({"sent"}) = 0 /\ AsyncCount({"sending"}) = 0
  <2>1. Async!In({"sent"}) = {} /\ Async!In({"sending"}) = {}
    BY DEF AsyncInv, AsyncCreated, Async!In
  <2>2. QED  BY <2>1, AsyncCounts
<1>6. /\ nextMessage = done + 0 + 0 + Cardinality(F) + Cardinality(K) /\ nextMessage = Async!Burst
      /\ done \in Nat
  BY <1>5 DEF AsyncInv, AsyncAddsUp, AsyncCreated, AsyncCount, Async!TypeOK
<1>7. Async!Cardinality(Async!In({"failed", "cancelled"})) = Cardinality(F \cup K)
  BY <1>1, SameCardinality
<1> HIDE DEF F, K
<1>8. QED  BY <1>2, <1>3, <1>4, <1>6, <1>7

-----------------------------------------------------------------------------
(* What Publisher sees of _publish.                                        *)
Given == CASE way = "async" -> sent + lost
           [] way = "threaded" -> sent
           [] way = "pool" -> Pool!SentTotal
Progress == CASE way = "async" -> Async!SentBefore + done
              [] way = "threaded" -> Threaded!SentBefore + printed
              [] way = "pool" -> Pool!Sum(progress)

(* What a step of it may do.                                               *)
PublisherStep ==
  \/ UNCHANGED <<Given, Progress, result>>
  \/ /\ result = "none" /\ Given < Messages /\ Given' = Given + 1
     /\ UNCHANGED <<Progress, result>>
  \/ Progress' \in Progress..Given /\ UNCHANGED <<Given, result>>
  \/ /\ result = "none" /\ UNCHANGED <<Given, Progress>>
     /\ result' = "raised" \/ (result' = "ok" /\ Given = Messages)

LEMMA PublisherSteps == PublisherStep => [Abstract!Next]_(Abstract!vars)
<1>1. ASSUME UNCHANGED <<Given, Progress, result>> PROVE UNCHANGED Abstract!vars
  BY <1>1 DEF Abstract!vars, Given, Progress
<1>2. ASSUME result = "none", Given < Messages, Given' = Given + 1, UNCHANGED <<Progress, result>>
      PROVE  Abstract!Send
  BY <1>2 DEF Abstract!Send, Given, Progress
<1>3. ASSUME Progress' \in Progress..Given, UNCHANGED <<Given, result>>
      PROVE  Abstract!Advance
  BY <1>3 DEF Abstract!Advance, Given, Progress
<1>4. ASSUME result = "none", UNCHANGED <<Given, Progress>>,
             result' = "raised" \/ (result' = "ok" /\ Given = Messages)
      PROVE  Abstract!Raise \/ Abstract!Succeed
  BY <1>4 DEF Abstract!Raise, Abstract!Succeed, Given, Progress
<1>5. QED  BY <1>1, <1>2, <1>3, <1>4 DEF PublisherStep, Abstract!Next

AsyncGiven == sent + lost
AsyncShown == Async!SentBefore + done
AsyncBehind == /\ AsyncGiven \in 0..Messages /\ AsyncShown \in Nat
               /\ FewCancelled => AsyncShown <= AsyncGiven

(* The progress shown is never ahead of what was sent.                     *)
LEMMA AsyncStaysBehind == AsyncInv => AsyncBehind
<1> SUFFICES ASSUME AsyncInv PROVE AsyncBehind
  OBVIOUS
<1>1. /\ Messages \in Nat /\ remaining \in 1..Messages /\ nextMessage \in 0..Async!Burst
      /\ sent \in Nat /\ lost \in Nat /\ BurstSize \in Nat \ {0} /\ done \in Nat
  BY PublishingAssumption DEF AsyncInv, Async!TypeOK
<1>2. Async!Burst \in 0..remaining /\ Async!SentBefore = Messages - remaining
  BY <1>1 DEF Async!Burst, Async!Smaller, Async!SentBefore
<1>3. /\ AsyncCount({"sent"}) \in Nat /\ AsyncCount({"sending"}) \in Nat
      /\ AsyncCount({"failed"}) \in Nat /\ AsyncCount({"cancelled"}) \in Nat
  BY AsyncCounts
<1>4. QED  BY <1>1, <1>2, <1>3 DEF AsyncInv, AsyncAddsUp, AsyncBehind, AsyncGiven, AsyncShown

LEMMA AsyncStaysBehindNext == AsyncInv' => AsyncBehind'
BY AsyncStaysBehind, PTL

(* Every step of publish_async is one of Publisher.                        *)
LEMMA AsyncPublishes ==
  ASSUME AsyncInv, way = "async", way' = way, Async!Next
  PROVE  AsyncInv' /\ (FewCancelled => PublisherStep)
<1>1. /\ Given = AsyncGiven /\ Given' = AsyncGiven'
      /\ Progress = AsyncShown /\ Progress' = AsyncShown'
  BY DEF Given, Progress, AsyncGiven, AsyncShown
<1>2. AsyncBehind /\ (AsyncInv' => AsyncBehind') /\ Messages \in Nat
  BY AsyncStaysBehind, AsyncStaysBehindNext, PublishingAssumption
<1>3. ASSUME NEW c \in Coroutines,
             Async!Resume(c) \/ Async!SendReturns(c) \/ Async!SendFails(c) \/ Async!SendCancelled(c)
      PROVE  AsyncInv' /\ (FewCancelled => PublisherStep)
  <2>1. /\ AsyncInv' /\ result = "none" /\ result' = result /\ remaining' = remaining
        /\ \/ sent' + lost' = sent + lost /\ done' >= done
           \/ sent' + lost' = sent + lost + 1 /\ done' = done
    BY <1>3, AsyncOneStep
  <2>2. \/ AsyncGiven' = AsyncGiven /\ AsyncShown' >= AsyncShown
        \/ AsyncGiven' = AsyncGiven + 1 /\ AsyncShown' = AsyncShown
    <3>1. done \in Nat /\ done' \in Nat /\ Messages - remaining \in Int
      BY <2>1, <1>2 DEF AsyncInv, Async!TypeOK
    <3>2. CASE done' >= done /\ sent' + lost' = sent + lost
      BY <2>1, <3>1, <3>2 DEF AsyncGiven, AsyncShown, Async!SentBefore
    <3>3. CASE done' = done /\ sent' + lost' = sent + lost + 1
      BY <2>1, <3>3 DEF AsyncGiven, AsyncShown, Async!SentBefore
    <3>4. QED  BY <2>1, <3>2, <3>3
  <2>3. QED  BY <1>1, <1>2, <2>1, <2>2 DEF PublisherStep, AsyncBehind
<1>4. CASE Async!NextBurst
  <2>1. /\ AsyncInv' /\ result' = result /\ sent' = sent /\ lost' = lost
        /\ Async!SentBefore' + done' >= Async!SentBefore + done
    BY <1>4, AsyncNextBurst
  <2>2. AsyncGiven' = AsyncGiven /\ AsyncShown' >= AsyncShown
    BY <2>1 DEF AsyncGiven, AsyncShown
  <2>3. QED  BY <1>1, <1>2, <2>1, <2>2 DEF PublisherStep, AsyncBehind
<1>5. CASE Async!Succeed \/ Async!Raise
  <2>1. AsyncInv' /\ result = "none" /\ result' \in {"ok", "raised"}
    BY <1>5, AsyncEnds
  <2>2. UNCHANGED <<Given, Progress>>
    BY <1>5, AsyncEnds, <1>1 DEF AsyncGiven, AsyncShown, Async!SentBefore
  <2>3. ASSUME result' = "ok", FewCancelled PROVE Given = Messages
    <3>1. sent + lost = Async!SentBefore + Async!Burst /\ remaining = Async!Burst
      BY <1>5, <2>3, AsyncEnds, AsyncBurstIsWhole
    <3>2. remaining \in 1..Messages
      BY DEF AsyncInv, Async!TypeOK
    <3>3. QED  BY <1>1, <1>2, <3>1, <3>2 DEF Async!SentBefore, AsyncGiven
  <2>4. QED  BY <2>1, <2>2, <2>3 DEF PublisherStep
<1>6. QED  BY <1>3, <1>4, <1>5 DEF Async!Next

-----------------------------------------------------------------------------
(***************************************************************************)
(* Publishing with threads (publish_threaded).                             *)
(***************************************************************************)

(* A number of messages split as evenly as possible (counts in             *)
(* publish_threaded, _split_messages).                                     *)
LEMMA EvenlySplit ==
  ASSUME NEW S, IsFiniteSet(S), S # {}, NEW n \in Nat \ {0}, NEW m \in Nat, n <= m,
         NEW each, NEW more, each = n \div Cardinality(S), more = n % Cardinality(S),
         NEW f \in [S -> {each, each + 1}],
         Cardinality({x \in S : f[x] = each + 1}) = more
  PROVE  /\ f \in [S -> 0..n] /\ Cardinality(Units(f, S, m)) = n
         /\ Cardinality(S) <= n => \A x \in S : f[x] > 0
<1> DEFINE c == Cardinality(S)
<1>1. c \in Nat \ {0}
  BY FS_CardinalityType, FS_EmptySet
<1>2. each \in Nat /\ more \in 0..(c - 1) /\ n = c * each + more
  <2>1. each = n \div c /\ more = n % c
    OBVIOUS
  <2> HIDE DEF c
  <2>2. /\ n \div c \in Nat /\ n % c \in 0..(c - 1)
        /\ n = c * (n \div c) + (n % c)
    BY <1>1, Division
  <2>3. QED  BY <2>1, <2>2
<1>t. each \in Nat /\ more \in Nat /\ n \in Nat
  BY <1>1, <1>2
<1>3. each <= n /\ (c <= n => each >= 1)
  <2>1. ASSUME NEW e \in Nat, NEW k \in Nat \ {0}, NEW r \in 0..(k - 1), n = k * e + r
        PROVE  e <= n /\ (k <= n => e >= 1)
    BY <2>1, SMTT(30)
  <2> HIDE DEF c
  <2>2. QED  BY <1>1, <1>2, <2>1
<1>4. f \in [S -> 0..n]
  <2> SUFFICES ASSUME NEW x \in S PROVE f[x] \in 0..n
    OBVIOUS
  <2>1. CASE f[x] = each
    BY <1>t, <1>3, <2>1
  <2>2. CASE f[x] = each + 1
    <3>1. {y \in S : f[y] = each + 1} # {}
      BY <2>2
    <3>2. more # 0
      BY <3>1, FS_EmptySet, FS_Subset
    <3>3. ASSUME NEW e \in Nat, NEW k \in Nat \ {0}, NEW r \in 0..(k - 1), r # 0, n = k * e + r
          PROVE  e + 1 <= n
      BY <3>3, SMTT(30)
    <3> HIDE DEF c
    <3>4. each + 1 <= n
      BY <1>1, <1>2, <3>2, <3>3
    <3>5. QED  BY <1>t, <2>2, <3>4
  <2>3. QED  BY <2>1, <2>2
<1>5. Cardinality(Units(f, S, m)) = c * each + more
  <2>1. f \in [S -> 0..m] /\ more \in Nat /\ each \in Nat
    BY <1>t, <1>4
  <2>2. QED  BY <2>1, EvenSplit
<1>6. c <= n => \A x \in S : f[x] > 0
  BY <1>t, <1>3
<1>7. QED  BY <1>2, <1>4, <1>5, <1>6

-----------------------------------------------------------------------------
ThreadStates == {"sending", "full", "adding", "raising", "failed", "ended"}
ThreadsIn(states) == Cardinality(Having(thread, Threads, states))
Unsent == Cardinality(Units(left, Threads, Messages))
Uncounted == Cardinality(Units(batch, Threads, BatchSize))

ThreadedTypes ==
  /\ remaining \in 1..Messages /\ thread \in [Threads -> ThreadStates]
  /\ left \in [Threads -> 0..Threaded!Burst] /\ batch \in [Threads -> 0..BatchSize]
  /\ lock \in Threads \cup {NoThread} /\ loaded \in 0..BurstSize
  /\ done \in Nat /\ printed \in Nat /\ errors \in Nat /\ sent \in Nat
  /\ result \in {"none", "ok", "raised"}

(* Every message of the burst is counted, in a batch, or still to be sent; *)
(* of a thread whose send raised the broker may have one more.             *)
ThreadedAddsUp ==
  /\ done + Uncounted + Unsent = Threaded!Burst
  /\ Threaded!SentBefore + done + Uncounted <= sent
  /\ sent <= Threaded!SentBefore + done + Uncounted + ThreadsIn({"raising", "failed"})
  /\ errors = ThreadsIn({"failed"})
  /\ printed <= done

(* Who adds a batch has the lock, and what it has read is the count.       *)
ThreadedLocked ==
  \A t \in Threads : (thread[t] = "adding" <=> lock = t) /\ (lock = t => loaded = done)

(* Where a thread is, and what it has left and in its batch.               *)
ThreadedBatches ==
  /\ \A t \in Threads :
       /\ thread[t] = "sending" => batch[t] < BatchSize /\ (left[t] = 0 => batch[t] = 0)
       /\ thread[t] \in {"raising", "failed"} => left[t] >= 1
       /\ thread[t] = "ended" => left[t] = 0 /\ batch[t] = 0
  /\ result # "none" => \A t \in Threads : thread[t] \in {"ended", "failed"}

ThreadedInv == ThreadedTypes /\ ThreadedAddsUp /\ ThreadedLocked /\ ThreadedBatches

LEMMA SameUncounted == Threaded!Uncounted = Uncounted
BY SameCardinality DEF Threaded!Uncounted, Uncounted, Units

(* The numbers of the invariant.                                           *)
ThreadedNumbers ==
  /\ Messages \in Nat \ {0} /\ BurstSize \in Nat \ {0} /\ BatchSize \in Nat \ {0}
  /\ Threaded!Burst \in 1..remaining /\ Threaded!Burst <= BurstSize
  /\ Threaded!Burst <= Messages
  /\ Threaded!SentBefore \in Nat /\ Threaded!SentBefore + remaining = Messages
  /\ Uncounted \in Nat /\ Unsent \in Nat

LEMMA ThreadedHasNumbers == ThreadedInv => ThreadedNumbers
<1> SUFFICES ASSUME ThreadedInv PROVE ThreadedNumbers
  OBVIOUS
<1>1. /\ Messages \in Nat \ {0} /\ BurstSize \in Nat \ {0} /\ BatchSize \in Nat \ {0}
      /\ IsFiniteSet(Threads) /\ remaining \in 1..Messages
  BY PublishingAssumption DEF ThreadedInv, ThreadedTypes
<1>2. Uncounted \in Nat /\ Unsent \in Nat
  BY <1>1, UnitsFinite DEF Uncounted, Unsent
<1>3. QED  BY <1>1, <1>2 DEF ThreadedNumbers, Threaded!Burst, Threaded!SentBefore

LEMMA ThreadCounts ==
  ASSUME NEW V
  PROVE  /\ ThreadsIn(V) \in 0..Cardinality(Threads) /\ Cardinality(Threads) \in Nat
         /\ ThreadsIn(V) = 0 => \A t \in Threads : thread[t] \notin V
<1>1. IsFiniteSet(Threads)
  BY PublishingAssumption
<1>2. IsFiniteSet(Having(thread, Threads, V))
  BY <1>1, HavingFinite
<1>3. ThreadsIn(V) = 0 => Having(thread, Threads, V) = {}
  BY <1>2, FS_EmptySet DEF ThreadsIn
<1>4. QED  BY <1>1, <1>3, HavingFinite, FS_CardinalityType DEF ThreadsIn, Having

(* A send that may have been made more is one of a message that is left.   *)
LEMMA ThreadedBound ==
  ThreadedInv => /\ sent <= Threaded!SentBefore + Threaded!Burst
                 /\ ThreadsIn({"raising", "failed"}) <= Unsent
<1> SUFFICES ASSUME ThreadedInv
             PROVE  /\ sent <= Threaded!SentBefore + Threaded!Burst
                    /\ ThreadsIn({"raising", "failed"}) <= Unsent
  OBVIOUS
<1> DEFINE R == Having(thread, Threads, {"raising", "failed"})
<1>1. ThreadedNumbers
  BY ThreadedHasNumbers
<1>2. R \in SUBSET Threads /\ \A t \in R : left[t] >= 1
  BY DEF Having, ThreadedInv, ThreadedBatches
<1>3. Cardinality(R) <= Unsent
  BY <1>1, <1>2, UnitsOfSome, PublishingAssumption DEF Unsent, ThreadedNumbers
<1>4. ThreadsIn({"raising", "failed"}) <= Unsent /\ ThreadsIn({"raising", "failed"}) \in Nat
  BY <1>3, ThreadCounts DEF ThreadsIn
<1>5. QED  BY <1>1, <1>4 DEF ThreadedInv, ThreadedAddsUp, ThreadedTypes, ThreadedNumbers

LEMMA ThreadedImpliesInv == ThreadedInv => Threaded!Inv
<1> SUFFICES ASSUME ThreadedInv PROVE Threaded!TypeOK /\ Threaded!ProgressAddsUp
  BY DEF Threaded!Inv
<1>1. ThreadedNumbers /\ sent <= Threaded!SentBefore + Threaded!Burst
  BY ThreadedHasNumbers, ThreadedBound
<1>2. /\ ThreadsIn({"failed"}) \in 0..Cardinality(Threads)
      /\ Threaded!Cardinality(Threads) = Cardinality(Threads)
  BY ThreadCounts, SameCardinality
<1>3. done <= Threaded!Burst /\ printed <= Threaded!Burst /\ sent <= Messages
  BY <1>1 DEF ThreadedNumbers, ThreadedInv, ThreadedAddsUp, ThreadedTypes
<1>4. Threaded!TypeOK
  BY <1>1, <1>2, <1>3
  DEF ThreadedNumbers, ThreadedInv, ThreadedAddsUp, ThreadedTypes, Threaded!TypeOK, ThreadStates
<1>5. Threaded!ProgressAddsUp
  <2>1. Threaded!Cardinality({t \in Threads : thread[t] \in {"raising", "failed"}})
          = ThreadsIn({"raising", "failed"})
    BY SameCardinality DEF ThreadsIn, Having
  <2>2. QED  BY <2>1, SameUncounted DEF ThreadedInv, ThreadedAddsUp, Threaded!ProgressAddsUp
<1>6. QED  BY <1>4, <1>5

LEMMA ThreadsStart ==
  ASSUME NEW n \in 1..Messages, NEW f \in Threaded!Shares(n)
  PROVE  f \in [Threads -> 0..n] /\ Cardinality(Units(f, Threads, Messages)) = n
<1>1. IsFiniteSet(Threads) /\ Threads # {} /\ Messages \in Nat /\ n \in Nat \ {0} /\ n <= Messages
  BY PublishingAssumption
<1> DEFINE each == n \div Cardinality(Threads)
           more == n % Cardinality(Threads)
<1>2. f \in [Threads -> {each, each + 1}] /\ Cardinality({t \in Threads : f[t] = each + 1}) = more
  BY SameCardinality DEF Threaded!Shares
<1> HIDE DEF each, more
<1>3. each = n \div Cardinality(Threads) /\ more = n % Cardinality(Threads)
  BY DEF each, more
<1> DEFINE whole(g) == g \in [Threads -> 0..n] /\ Cardinality(Units(g, Threads, Messages)) = n
<1>4. ASSUME NEW e, NEW r, e = n \div Cardinality(Threads), r = n % Cardinality(Threads),
             NEW g \in [Threads -> {e, e + 1}], Cardinality({t \in Threads : g[t] = e + 1}) = r
      PROVE  whole(g)
  BY <1>1, <1>4, EvenlySplit
<1> HIDE DEF whole
<1>5. whole(f)
  BY <1>2, <1>3, <1>4
<1>6. QED  BY <1>5 DEF whole

LEMMA ThreadsAllSending ==
  ASSUME NEW f, \A t \in Threads : f[t] = "sending", NEW V, "sending" \notin V
  PROVE  Cardinality(Having(f, Threads, V)) = 0
<1>1. Having(f, Threads, V) = {}
  BY DEF Having
<1>2. QED  BY <1>1, FS_EmptySet

LEMMA ThreadedStarts == Threaded!Init => ThreadedInv
<1> SUFFICES ASSUME Threaded!Init PROVE ThreadedInv
  OBVIOUS
<1>1. /\ Messages \in Nat \ {0} /\ BurstSize \in Nat \ {0} /\ BatchSize \in Nat \ {0}
      /\ NoThread \notin Threads
  BY PublishingAssumption
<1>2. /\ remaining = Messages /\ \A t \in Threads : thread[t] = "sending" /\ batch[t] = 0
      /\ left \in Threaded!Shares(Threaded!Burst)
      /\ lock = NoThread /\ loaded = 0 /\ done = 0
      /\ errors = 0 /\ printed = 0 /\ sent = 0 /\ result = "none"
      /\ thread \in [Threads -> ThreadStates] /\ batch \in [Threads -> 0..BatchSize]
  BY <1>1 DEF Threaded!Init, ThreadStates
<1>3. Threaded!Burst \in 1..Messages /\ Threaded!SentBefore = 0
  BY <1>1, <1>2 DEF Threaded!Burst, Threaded!SentBefore
<1>4. left \in [Threads -> 0..Threaded!Burst] /\ Unsent = Threaded!Burst
  BY <1>2, <1>3, ThreadsStart DEF Unsent
<1>5. Uncounted = 0
  BY <1>1, <1>2, UnitsOfNothing DEF Uncounted
<1>6. ThreadsIn({"raising", "failed"}) = 0 /\ ThreadsIn({"failed"}) = 0
  BY <1>2, ThreadsAllSending DEF ThreadsIn
<1>7. ThreadedTypes
  BY <1>1, <1>2, <1>4 DEF ThreadedTypes
<1>8. ThreadedAddsUp
  BY <1>2, <1>3, <1>4, <1>5, <1>6 DEF ThreadedAddsUp
<1>9. ThreadedLocked
  BY <1>1, <1>2 DEF ThreadedLocked
<1>10. ThreadedBatches
  BY <1>1, <1>2 DEF ThreadedBatches
<1>11. QED  BY <1>7, <1>8, <1>9, <1>10 DEF ThreadedInv

TotalMoves(f, g, t, n) ==
  Cardinality(Units(g, Threads, n)) = Cardinality(Units(f, Threads, n)) - f[t] + g[t]

LEMMA ThreadsTotal ==
  ASSUME NEW n \in Nat, NEW t \in Threads,
         NEW f \in [Threads -> 0..n], NEW g \in [Threads -> 0..n],
         \A u \in Threads : u # t => g[u] = f[u]
  PROVE  TotalMoves(f, g, t, n)
<1>1. IsFiniteSet(Threads)
  BY PublishingAssumption
<1>2. QED  BY <1>1, UnitsOneChanges DEF TotalMoves

(* What a step of one thread does to the numbers.                          *)
LEMMA OneThreadMoves ==
  ASSUME ThreadedInv, NEW t \in Threads, remaining' = remaining,
         thread' \in [Threads -> ThreadStates],
         left' \in [Threads -> 0..Threaded!Burst], batch' \in [Threads -> 0..BatchSize],
         \A u \in Threads : u # t => /\ thread'[u] = thread[u]
                                    /\ left'[u] = left[u] /\ batch'[u] = batch[u]
  PROVE  /\ Threaded!Burst' = Threaded!Burst /\ Threaded!SentBefore' = Threaded!SentBefore
         /\ Unsent' = Unsent - left[t] + left'[t]
         /\ Uncounted' = Uncounted - batch[t] + batch'[t]
         /\ \A V : ThreadsIn(V)' = ThreadsIn(V) - OneIf(thread[t], V) + OneIf(thread'[t], V)
<1>1. /\ IsFiniteSet(Threads) /\ Messages \in Nat /\ BatchSize \in Nat
      /\ left \in [Threads -> 0..Threaded!Burst] /\ batch \in [Threads -> 0..BatchSize]
  BY PublishingAssumption DEF ThreadedInv, ThreadedTypes
<1>2. Threaded!Burst' = Threaded!Burst /\ Threaded!SentBefore' = Threaded!SentBefore
  BY DEF Threaded!Burst, Threaded!SentBefore
<1>3. left \in [Threads -> 0..Messages] /\ left' \in [Threads -> 0..Messages]
  BY <1>1, ThreadedHasNumbers DEF ThreadedNumbers
<1>t. \A u \in Threads : u # t => left'[u] = left[u] /\ batch'[u] = batch[u]
  OBVIOUS
<1>4. Unsent' = Unsent - left[t] + left'[t]
  <2>1. TotalMoves(left, left', t, Messages)
    BY <1>1, <1>3, <1>t, ThreadsTotal
  <2>2. QED  BY <2>1 DEF Unsent, TotalMoves
<1>5. Uncounted' = Uncounted - batch[t] + batch'[t]
  <2>1. TotalMoves(batch, batch', t, BatchSize)
    BY <1>1, <1>t, ThreadsTotal
  <2>2. QED  BY <2>1 DEF Uncounted, TotalMoves
<1>6. ASSUME NEW V
      PROVE  ThreadsIn(V)' = ThreadsIn(V) - OneIf(thread[t], V) + OneIf(thread'[t], V)
  BY <1>1, OneMoves DEF ThreadsIn
<1>7. QED  BY <1>2, <1>4, <1>5, <1>6

ThreadStep(t) == \/ Threaded!SendOne(t) \/ Threaded!SendFails(t) \/ Threaded!NoteError(t)
                 \/ Threaded!Lock(t) \/ Threaded!Add(t) \/ Threaded!End(t)

(* What a thread has left, its batch and the count, when it takes a step.  *)
Sends(t) == left[t] > 0 /\ left'[t] = left[t] - 1 /\ batch'[t] = batch[t] + 1
Adds(t) == left'[t] = left[t] /\ batch'[t] = 0
Keeps(t) == left'[t] = left[t] /\ batch'[t] = batch[t]

LEMMA ThreadStepTypes ==
  ASSUME ThreadedInv, NEW t \in Threads, ThreadStep(t)
  PROVE  /\ thread' \in [Threads -> ThreadStates]
         /\ left' \in [Threads -> 0..Threaded!Burst] /\ batch' \in [Threads -> 0..BatchSize]
         /\ \A u \in Threads : u # t => /\ thread'[u] = thread[u]
                                       /\ left'[u] = left[u] /\ batch'[u] = batch[u]
         /\ remaining' = remaining /\ result' = result /\ printed' = printed
         /\ result = "none"
         /\ Sends(t) \/ Adds(t) \/ Keeps(t)
<1>1. /\ thread \in [Threads -> ThreadStates]
      /\ left \in [Threads -> 0..Threaded!Burst] /\ batch \in [Threads -> 0..BatchSize]
      /\ Threaded!Burst \in Nat /\ BatchSize \in Nat
      /\ result = "none" \/ thread[t] \in {"ended", "failed"}
      /\ thread[t] = "sending" => batch[t] < BatchSize
  BY ThreadedHasNumbers DEF ThreadedInv, ThreadedTypes, ThreadedBatches, ThreadedNumbers
<1>2. CASE Threaded!SendOne(t)
  <2>1. /\ thread' \in [Threads -> ThreadStates]
        /\ \A u \in Threads : u # t => thread'[u] = thread[u]
    BY <1>1, <1>2 DEF Threaded!SendOne, ThreadStates
  <2>2. /\ left' \in [Threads -> 0..Threaded!Burst] /\ left'[t] = left[t] - 1
        /\ \A u \in Threads : u # t => left'[u] = left[u]
    BY <1>1, <1>2 DEF Threaded!SendOne
  <2>3. /\ batch' \in [Threads -> 0..BatchSize] /\ batch'[t] = batch[t] + 1
        /\ \A u \in Threads : u # t => batch'[u] = batch[u]
    BY <1>1, <1>2 DEF Threaded!SendOne
  <2>4. QED  BY <1>1, <1>2, <2>1, <2>2, <2>3 DEF Threaded!SendOne, Sends
<1>3. CASE Threaded!Add(t)
  <2>1. batch' \in [Threads -> 0..BatchSize]
    BY <1>1, <1>3 DEF Threaded!Add
  <2>2. QED  BY <1>1, <1>3, <2>1 DEF Threaded!Add, Adds, ThreadStates
<1>4. CASE Threaded!SendFails(t)
  BY <1>1, <1>4 DEF Threaded!SendFails, Threaded!local, Keeps, ThreadStates
<1>5. CASE Threaded!NoteError(t)
  BY <1>1, <1>5 DEF Threaded!NoteError, Threaded!local, Keeps, ThreadStates
<1>6. CASE Threaded!Lock(t)
  BY <1>1, <1>6 DEF Threaded!Lock, Threaded!local, Keeps, ThreadStates
<1>7. CASE Threaded!End(t)
  BY <1>1, <1>7 DEF Threaded!End, Threaded!local, Keeps, ThreadStates
<1>8. QED  BY <1>2, <1>3, <1>4, <1>5, <1>6, <1>7 DEF ThreadStep

(* The step of one thread keeps the invariant and sends at most one.       *)
LEMMA ThreadedOneStep ==
  ASSUME ThreadedInv, NEW t \in Threads, ThreadStep(t)
  PROVE  /\ ThreadedInv'
         /\ result = "none" /\ UNCHANGED <<result, remaining, printed>>
         /\ sent' \in {sent, sent + 1}
<1> DEFINE done1 == done'
           sent1 == sent'
           errors1 == errors'
           before == Threaded!SentBefore
           burst == Threaded!Burst
           u == Uncounted
           r == Unsent
           q == ThreadsIn({"raising", "failed"})
           f == ThreadsIn({"failed"})
           u1 == Uncounted'
           r1 == Unsent'
           q1 == ThreadsIn({"raising", "failed"})'
           f1 == ThreadsIn({"failed"})'
<1>1. /\ thread' \in [Threads -> ThreadStates]
      /\ left' \in [Threads -> 0..Threaded!Burst] /\ batch' \in [Threads -> 0..BatchSize]
      /\ \A x \in Threads : x # t => /\ thread'[x] = thread[x]
                                    /\ left'[x] = left[x] /\ batch'[x] = batch[x]
      /\ remaining' = remaining /\ result' = result /\ printed' = printed
      /\ result = "none"
  BY ThreadStepTypes
<1>2. /\ Threaded!Burst' = Threaded!Burst /\ Threaded!SentBefore' = Threaded!SentBefore
      /\ Unsent' = Unsent - left[t] + left'[t]
      /\ Uncounted' = Uncounted - batch[t] + batch'[t]
      /\ \A V : ThreadsIn(V)' = ThreadsIn(V) - OneIf(thread[t], V) + OneIf(thread'[t], V)
  BY <1>1, OneThreadMoves
<1>3. /\ r1 = r - left[t] + left'[t] /\ u1 = u - batch[t] + batch'[t]
      /\ q1 = q - OneIf(thread[t], {"raising", "failed"}) + OneIf(thread'[t], {"raising", "failed"})
      /\ f1 = f - OneIf(thread[t], {"failed"}) + OneIf(thread'[t], {"failed"})
  BY <1>2
<1>4. /\ u \in Nat /\ r \in Nat /\ q \in Nat /\ f \in Nat /\ q1 \in Nat /\ f1 \in Nat
      /\ before \in Nat /\ burst \in Nat /\ burst <= BurstSize /\ BurstSize \in Nat
      /\ left[t] \in Nat /\ batch[t] \in Nat /\ left'[t] \in Nat /\ batch'[t] \in Nat
      /\ done \in Nat /\ sent \in Nat /\ errors \in Nat /\ printed \in Nat
      /\ BatchSize \in Nat \ {0}
  <2>1. q \in Nat /\ f \in Nat
    BY ThreadCounts
  <2>2. left[t] \in Nat /\ batch[t] \in Nat /\ left'[t] \in Nat /\ batch'[t] \in Nat
    BY <1>1 DEF ThreadedInv, ThreadedTypes
  <2>3. q1 \in Nat /\ f1 \in Nat
    <3>1. \A V : ThreadsIn(V)' \in Nat
      <4>1. IsFiniteSet(Threads)
        BY PublishingAssumption
      <4>2. ASSUME NEW V PROVE ThreadsIn(V)' \in Nat
        BY <4>1, HavingFinite, FS_CardinalityType DEF ThreadsIn
      <4>3. QED  BY <4>2
    <3>2. QED  BY <3>1
  <2>4. QED
    BY <2>1, <2>2, <2>3, ThreadedHasNumbers DEF ThreadedNumbers, ThreadedInv, ThreadedTypes
<1>5. /\ done + u + r = burst
      /\ before + done + u <= sent /\ sent <= before + done + u + q
      /\ errors = f /\ printed <= done
  BY DEF ThreadedInv, ThreadedAddsUp
<1>6. /\ thread[t] = "sending" => batch[t] < BatchSize /\ (left[t] = 0 => batch[t] = 0)
      /\ thread[t] \in {"raising", "failed"} => left[t] >= 1
      /\ thread \in [Threads -> ThreadStates]
  BY DEF ThreadedInv, ThreadedBatches, ThreadedTypes
<1>7. ASSUME /\ done1 \in Nat /\ sent1 \in Nat /\ errors1 \in Nat
             /\ done1 + u1 + r1 = burst
             /\ before + done1 + u1 <= sent1 /\ sent1 <= before + done1 + u1 + q1
             /\ errors1 = f1 /\ done <= done1
             /\ lock' \in Threads \cup {NoThread} /\ loaded' \in 0..BurstSize
             /\ ThreadedLocked'
             /\ thread'[t] = "sending" => batch'[t] < BatchSize /\ (left'[t] = 0 => batch'[t] = 0)
             /\ thread'[t] \in {"raising", "failed"} => left'[t] >= 1
             /\ thread'[t] = "ended" => left'[t] = 0 /\ batch'[t] = 0
      PROVE  ThreadedInv'
  <2>1. ThreadedTypes'
    BY <1>1, <1>2, <1>4, <1>7 DEF ThreadedTypes, ThreadedInv
  <2>2. printed <= done1
    <3> HIDE DEF done1, u1, r1, q1, f1, sent1, errors1
    <3>1. QED  BY <1>4, <1>5, <1>7
  <2>3. ThreadedAddsUp'
    BY <1>1, <1>2, <1>7, <2>2 DEF ThreadedAddsUp
  <2>4. ThreadedBatches'
    <3>1. ASSUME NEW x \in Threads, x # t
          PROVE  /\ thread'[x] = "sending" => batch'[x] < BatchSize /\ (left'[x] = 0 => batch'[x] = 0)
                 /\ thread'[x] \in {"raising", "failed"} => left'[x] >= 1
                 /\ thread'[x] = "ended" => left'[x] = 0 /\ batch'[x] = 0
      BY <1>1, <3>1 DEF ThreadedInv, ThreadedBatches
    <3>2. QED  BY <1>1, <1>7, <3>1 DEF ThreadedBatches
  <2>5. QED  BY <1>7, <2>1, <2>3, <2>4 DEF ThreadedInv
<1> HIDE DEF done1, sent1, errors1, before, burst, u, r, q, f, u1, r1, q1, f1
<1> SUFFICES ThreadedInv' /\ sent1 \in {sent, sent + 1}
  BY <1>1 DEF sent1
<1>l. /\ \A x \in Threads : (thread[x] = "adding" <=> lock = x) /\ (lock = x => loaded = done)
      /\ lock \in Threads \cup {NoThread} /\ loaded \in 0..BurstSize /\ NoThread \notin Threads
  BY PublishingAssumption DEF ThreadedInv, ThreadedLocked, ThreadedTypes
(* A step that leaves the lock alone.                                      *)
<1>8. ASSUME lock' = lock, loaded' = loaded, done1 = done,
             thread[t] # "adding", thread'[t] # "adding"
      PROVE  ThreadedLocked' /\ lock' \in Threads \cup {NoThread} /\ loaded' \in 0..BurstSize
  <2>1. ASSUME NEW x \in Threads
        PROVE  (thread'[x] = "adding" <=> lock' = x) /\ (lock' = x => loaded' = done')
    BY <1>1, <1>8, <1>l DEF done1
  <2>2. QED  BY <1>8, <1>l, <2>1 DEF ThreadedLocked
<1>9. CASE Threaded!SendOne(t)
  <2>1. /\ thread[t] = "sending" /\ left[t] > 0
        /\ left'[t] = left[t] - 1 /\ batch'[t] = batch[t] + 1
        /\ thread'[t] = IF batch'[t] = BatchSize \/ left'[t] = 0 THEN "full" ELSE "sending"
        /\ sent1 = sent + 1 /\ done1 = done /\ errors1 = errors
        /\ lock' = lock /\ loaded' = loaded
    BY <1>9, <1>6, <1>4 DEF Threaded!SendOne, Threaded!count, ThreadedInv, ThreadedTypes,
       sent1, done1, errors1
  <2>2. q1 = q /\ f1 = f /\ r1 = r - 1 /\ u1 = u + 1
    BY <1>3, <1>4, <2>1 DEF OneIf
  <2>3. thread'[t] = "sending" => batch'[t] < BatchSize /\ left'[t] # 0
    BY <1>4, <1>6, <2>1
  <2>4. QED  BY <1>4, <1>5, <1>7, <1>8, <2>1, <2>2, <2>3
<1>10. CASE Threaded!SendFails(t)
  <2>1. /\ thread[t] = "sending" /\ left[t] > 0 /\ thread'[t] = "raising"
        /\ left'[t] = left[t] /\ batch'[t] = batch[t]
        /\ sent1 \in {sent, sent + 1} /\ done1 = done /\ errors1 = errors
        /\ lock' = lock /\ loaded' = loaded
    BY <1>10, <1>6 DEF Threaded!SendFails, Threaded!count, Threaded!local, sent1, done1, errors1
  <2>2. q1 = q + 1 /\ f1 = f /\ r1 = r /\ u1 = u
    BY <1>3, <1>4, <2>1 DEF OneIf
  <2>3. QED  BY <1>4, <1>5, <1>7, <1>8, <2>1, <2>2
<1>11. CASE Threaded!NoteError(t)
  <2>1. /\ thread[t] = "raising" /\ thread'[t] = "failed"
        /\ left'[t] = left[t] /\ batch'[t] = batch[t]
        /\ sent1 = sent /\ done1 = done /\ errors1 = errors + 1
        /\ lock' = lock /\ loaded' = loaded
    BY <1>11, <1>6 DEF Threaded!NoteError, Threaded!count, Threaded!local, sent1, done1, errors1
  <2>2. q1 = q /\ f1 = f + 1 /\ r1 = r /\ u1 = u
    BY <1>3, <1>4, <2>1 DEF OneIf
  <2>3. QED  BY <1>4, <1>5, <1>6, <1>7, <1>8, <2>1, <2>2
<1>12. CASE Threaded!End(t)
  <2>1. /\ thread[t] = "sending" /\ left[t] = 0 /\ thread'[t] = "ended"
        /\ left'[t] = left[t] /\ batch'[t] = batch[t]
        /\ sent1 = sent /\ done1 = done /\ errors1 = errors
        /\ lock' = lock /\ loaded' = loaded
    BY <1>12, <1>6 DEF Threaded!End, Threaded!count, Threaded!local, sent1, done1, errors1
  <2>2. q1 = q /\ f1 = f /\ r1 = r /\ u1 = u
    BY <1>3, <1>4, <2>1 DEF OneIf
  <2>3. QED  BY <1>4, <1>5, <1>6, <1>7, <1>8, <2>1, <2>2
<1>13. CASE Threaded!Lock(t)
  <2>1. /\ thread[t] = "full" /\ thread'[t] = "adding"
        /\ left'[t] = left[t] /\ batch'[t] = batch[t]
        /\ sent1 = sent /\ done1 = done /\ errors1 = errors
        /\ lock = NoThread /\ lock' = t /\ loaded' = done
    BY <1>13, <1>6 DEF Threaded!Lock, Threaded!local, sent1, done1, errors1
  <2>2. q1 = q /\ f1 = f /\ r1 = r /\ u1 = u
    BY <1>3, <1>4, <2>1 DEF OneIf
  <2>3. ASSUME NEW x \in Threads
        PROVE  (thread'[x] = "adding" <=> lock' = x) /\ (lock' = x => loaded' = done')
    BY <1>1, <1>l, <2>1 DEF done1
  <2>4. ThreadedLocked'
    BY <2>3 DEF ThreadedLocked
  <2>5. loaded' \in 0..BurstSize
    BY <1>4, <1>5, <2>1
  <2>6. QED  BY <1>4, <1>5, <1>6, <1>7, <2>1, <2>2, <2>4, <2>5
<1>14. CASE Threaded!Add(t)
  <2>1. /\ thread[t] = "adding" /\ thread'[t] = "sending"
        /\ left'[t] = left[t] /\ batch'[t] = 0
        /\ sent1 = sent /\ done1 = loaded + batch[t] /\ errors1 = errors
        /\ lock' = NoThread /\ loaded' = loaded
    BY <1>14, <1>6 DEF Threaded!Add, ThreadedInv, ThreadedTypes, sent1, done1, errors1
  <2>2. lock = t /\ loaded = done
    BY <1>l, <2>1
  <2>3. q1 = q /\ f1 = f /\ r1 = r /\ u1 = u - batch[t]
    BY <1>3, <1>4, <2>1 DEF OneIf
  <2>4. ASSUME NEW x \in Threads
        PROVE  (thread'[x] = "adding" <=> lock' = x) /\ (lock' = x => loaded' = done')
    BY <1>1, <1>l, <2>1, <2>2
  <2>5. ThreadedLocked'
    BY <2>4 DEF ThreadedLocked
  <2>6. /\ done1 \in Nat /\ sent1 \in Nat /\ errors1 \in Nat /\ done <= done1
        /\ done1 + u1 = done + u
    BY <1>4, <1>5, <2>1, <2>2, <2>3
  <2>7. /\ done1 + u1 + r1 = burst /\ before + done1 + u1 <= sent1
        /\ sent1 <= before + done1 + u1 + q1
    <3>1. u1 \in Int /\ r1 = r /\ q1 = q /\ sent1 = sent
      BY <1>4, <2>1, <2>3
    <3>2. QED  BY <1>4, <1>5, <2>6, <3>1
  <2>8. /\ errors1 = f1 /\ lock' \in Threads \cup {NoThread} /\ loaded' \in 0..BurstSize
        /\ batch'[t] < BatchSize /\ batch'[t] = 0 /\ thread'[t] = "sending"
    BY <1>4, <1>5, <1>l, <2>1, <2>3
  <2>9. QED  BY <1>7, <2>1, <2>5, <2>6, <2>7, <2>8
<1>15. QED  BY <1>9, <1>10, <1>11, <1>12, <1>13, <1>14 DEF ThreadStep

(* When all threads have ended without an error the burst is sent.         *)
LEMMA ThreadedBurstIsWhole ==
  ASSUME ThreadedInv, Threaded!AllOver, errors = 0
  PROVE  /\ done = Threaded!Burst /\ sent = Threaded!SentBefore + Threaded!Burst
         /\ lock = NoThread
<1>1. ThreadedNumbers /\ IsFiniteSet(Threads)
  BY ThreadedHasNumbers, PublishingAssumption
<1>2. \A t \in Threads : thread[t] = "ended"
  <2>1. ThreadsIn({"failed"}) = 0
    BY DEF ThreadedInv, ThreadedAddsUp
  <2>2. \A t \in Threads : thread[t] \notin {"failed"}
    BY <2>1, ThreadCounts
  <2>3. QED  BY <2>2 DEF Threaded!AllOver, Threaded!Over
<1>3. \A t \in Threads : left[t] = 0 /\ batch[t] = 0
  BY <1>2 DEF ThreadedInv, ThreadedBatches
<1>4. Unsent = 0 /\ Uncounted = 0
  BY <1>1, <1>3, UnitsOfNothing DEF Unsent, Uncounted, ThreadedNumbers
<1>5. ThreadsIn({"raising", "failed"}) = 0
  <2>1. Having(thread, Threads, {"raising", "failed"}) = {}
    BY <1>2 DEF Having
  <2>2. QED  BY <2>1, FS_EmptySet DEF ThreadsIn
<1>6. lock = NoThread
  BY <1>2 DEF ThreadedInv, ThreadedLocked, ThreadedTypes
<1>7. QED  BY <1>1, <1>4, <1>5, <1>6 DEF ThreadedInv, ThreadedAddsUp, ThreadedTypes, ThreadedNumbers

LEMMA ThreadedNextBurst ==
  ASSUME ThreadedInv, Threaded!NextBurst
  PROVE  /\ ThreadedInv'
         /\ result' = result /\ sent' = sent
         /\ Threaded!SentBefore' + printed' = sent
<1>1. /\ ThreadedNumbers /\ done = Threaded!Burst /\ sent = Threaded!SentBefore + Threaded!Burst
      /\ lock = NoThread /\ loaded \in 0..BurstSize /\ remaining \in 1..Messages
      /\ NoThread \notin Threads
  BY ThreadedHasNumbers, ThreadedBurstIsWhole, PublishingAssumption
  DEF Threaded!NextBurst, ThreadedInv, ThreadedTypes
<1>2. /\ remaining > Threaded!Burst /\ remaining' = remaining - Threaded!Burst
      /\ \A t \in Threads : thread'[t] = "sending" /\ batch'[t] = 0
      /\ left' \in Threaded!Shares(Threaded!Burst')
      /\ thread' \in [Threads -> ThreadStates] /\ batch' \in [Threads -> 0..BatchSize]
      /\ done' = 0 /\ printed' = 0
      /\ lock' = lock /\ loaded' = loaded /\ errors' = errors /\ sent' = sent /\ result' = result
      /\ errors = 0 /\ result = "none"
  BY <1>1 DEF Threaded!NextBurst, Threaded!StartThreads, Threaded!AllOver, ThreadStates,
     ThreadedNumbers
<1>3. remaining' \in 1..Messages /\ Threaded!Burst' \in 1..Messages
  BY <1>1, <1>2 DEF Threaded!Burst, ThreadedNumbers
<1>4. Threaded!SentBefore' = sent /\ sent \in Nat
  BY <1>1, <1>2 DEF Threaded!SentBefore, ThreadedNumbers
<1>5. left' \in [Threads -> 0..Threaded!Burst'] /\ Unsent' = Threaded!Burst'
  BY <1>2, <1>3, ThreadsStart DEF Unsent
<1>6. Uncounted' = 0
  BY <1>1, <1>2, UnitsOfNothing DEF Uncounted, ThreadedNumbers
<1>7. ThreadsIn({"raising", "failed"})' = 0 /\ ThreadsIn({"failed"})' = 0
  BY <1>2, ThreadsAllSending DEF ThreadsIn
<1>8. ThreadedTypes'
  BY <1>1, <1>2, <1>3, <1>4, <1>5 DEF ThreadedTypes
<1>9. ThreadedAddsUp'
  <2> DEFINE burst == Threaded!Burst'
             before == Threaded!SentBefore'
             q == ThreadsIn({"raising", "failed"})'
             u == Uncounted'
             r == Unsent'
             added == done'
  <2>1. /\ added = 0 /\ u = 0 /\ r = burst /\ q = 0 /\ before = sent
        /\ sent \in Nat /\ burst \in Nat
    BY <1>2, <1>3, <1>4, <1>5, <1>6, <1>7
  <2> HIDE DEF burst, before, q, u, r, added
  <2>2. added + u + r = burst /\ before + added + u <= sent /\ sent <= before + added + u + q
    BY <2>1
  <2> USE DEF burst, before, q, u, r, added
  <2>3. errors' = ThreadsIn({"failed"})' /\ printed' <= done' /\ sent' = sent
    BY <1>2, <1>7
  <2>4. QED  BY <2>2, <2>3 DEF ThreadedAddsUp
<1>10. ThreadedLocked'
  BY <1>1, <1>2 DEF ThreadedLocked
<1>11. ThreadedBatches'
  BY <1>1, <1>2 DEF ThreadedBatches, ThreadedNumbers
<1>12. QED  BY <1>2, <1>4, <1>8, <1>9, <1>10, <1>11 DEF ThreadedInv

(* A step of the main thread that starts no burst, or none at all.         *)
LEMMA ThreadedKeeps ==
  ASSUME ThreadedInv,
         UNCHANGED <<remaining, thread, left, batch, lock, loaded, done, errors, sent>>,
         printed' \in {printed, done}, result' \in {"none", "ok", "raised"},
         result' # "none" => result' = result \/ Threaded!AllOver
  PROVE  ThreadedInv'
<1>1. /\ Threaded!Burst' = Threaded!Burst /\ Threaded!SentBefore' = Threaded!SentBefore
      /\ Unsent' = Unsent /\ Uncounted' = Uncounted
      /\ \A V : ThreadsIn(V)' = ThreadsIn(V)
  BY DEF Threaded!Burst, Threaded!SentBefore, Unsent, Uncounted, ThreadsIn
<1>2. ThreadedTypes'
  BY <1>1 DEF ThreadedInv, ThreadedTypes
<1>3. ThreadedAddsUp'
  BY <1>1 DEF ThreadedInv, ThreadedTypes, ThreadedAddsUp
<1>4. ThreadedLocked'
  BY DEF ThreadedInv, ThreadedLocked
<1>5. ThreadedBatches'
  BY DEF ThreadedInv, ThreadedBatches, Threaded!AllOver, Threaded!Over
<1>6. QED  BY <1>2, <1>3, <1>4, <1>5 DEF ThreadedInv

ThreadedShown == Threaded!SentBefore + printed
ThreadedBehind == /\ sent \in 0..Messages /\ ThreadedShown \in Nat
                  /\ ThreadedShown <= Threaded!SentBefore + done
                  /\ Threaded!SentBefore + done <= sent /\ ThreadedShown <= sent

(* The progress shown is never ahead of what was sent.                     *)
LEMMA ThreadedStaysBehind == ThreadedInv => ThreadedBehind
<1> SUFFICES ASSUME ThreadedInv PROVE ThreadedBehind
  OBVIOUS
<1>1. /\ Threaded!SentBefore \in Nat /\ Threaded!SentBefore + Threaded!Burst <= Messages
      /\ Uncounted \in Nat /\ Messages \in Nat
      /\ Threaded!Burst \in Nat
  BY ThreadedHasNumbers DEF ThreadedNumbers, ThreadedInv, ThreadedTypes
<1>2. sent <= Threaded!SentBefore + Threaded!Burst
  BY ThreadedBound
<1>3. QED  BY <1>1, <1>2 DEF ThreadedInv, ThreadedAddsUp, ThreadedTypes, ThreadedBehind, ThreadedShown

LEMMA ThreadedStaysBehindNext == ThreadedInv' => ThreadedBehind'
BY ThreadedStaysBehind, PTL

(* Every step of publish_threaded is one of Publisher.                     *)
LEMMA ThreadedPublishes ==
  ASSUME ThreadedInv, way = "threaded", way' = way, Threaded!Next
  PROVE  ThreadedInv' /\ PublisherStep
<1>1. /\ Given = sent /\ Given' = sent'
      /\ Progress = ThreadedShown /\ Progress' = ThreadedShown'
  BY DEF Given, Progress, ThreadedShown
<1>2. ThreadedBehind /\ (ThreadedInv' => ThreadedBehind') /\ Messages \in Nat
  BY ThreadedStaysBehind, ThreadedStaysBehindNext, PublishingAssumption
<1>3. ASSUME NEW t \in Threads, ThreadStep(t)
      PROVE  ThreadedInv' /\ PublisherStep
  <2>1. /\ ThreadedInv' /\ result = "none" /\ UNCHANGED <<result, remaining, printed>>
        /\ sent' \in {sent, sent + 1}
    BY <1>3, ThreadedOneStep
  <2>2. ThreadedShown' = ThreadedShown
    BY <2>1 DEF ThreadedShown, Threaded!SentBefore
  <2>3. sent' \in 0..Messages
    BY <1>2, <2>1 DEF ThreadedBehind
  <2>4. QED  BY <1>1, <1>2, <2>1, <2>2, <2>3 DEF PublisherStep, ThreadedBehind
<1>4. CASE Threaded!PrintProgress
  <2>1. /\ UNCHANGED <<remaining, thread, left, batch, lock, loaded, done, errors, sent, result>>
        /\ printed' = done
    BY <1>4 DEF Threaded!PrintProgress, Threaded!local, Threaded!count
  <2>2. ThreadedInv'
    <3>1. result \in {"none", "ok", "raised"}
      BY DEF ThreadedInv, ThreadedTypes
    <3>2. QED  BY <2>1, <3>1, ThreadedKeeps
  <2>3. /\ ThreadedShown' = Threaded!SentBefore + done
        /\ ThreadedShown' \in ThreadedShown..sent
    <3>1. ThreadedShown' = Threaded!SentBefore + done
      BY <2>1 DEF ThreadedShown, Threaded!SentBefore
    <3>2. ThreadedShown' \in Nat
      BY <1>2, <2>2 DEF ThreadedBehind
    <3>3. QED  BY <1>2, <3>1, <3>2 DEF ThreadedBehind
  <2>4. QED  BY <1>1, <2>1, <2>2, <2>3 DEF PublisherStep
<1>5. CASE Threaded!NextBurst
  <2>1. /\ ThreadedInv' /\ result' = result /\ sent' = sent /\ ThreadedShown' = sent
    BY <1>5, ThreadedNextBurst DEF ThreadedShown
  <2>2. QED  BY <1>1, <1>2, <2>1 DEF PublisherStep, ThreadedBehind
<1>6. CASE Threaded!Succeed \/ Threaded!Raise
  <2>1. /\ UNCHANGED <<remaining, thread, left, batch, lock, loaded, done, errors, sent, printed>>
        /\ result = "none" /\ Threaded!AllOver /\ result' \in {"ok", "raised"}
        /\ result' = "ok" => errors = 0 /\ remaining = Threaded!Burst
    BY <1>6 DEF Threaded!Succeed, Threaded!Raise, Threaded!AllOver, Threaded!local, Threaded!count
  <2>2. ThreadedInv'
    BY <2>1, ThreadedKeeps
  <2>3. ThreadedShown' = ThreadedShown
    BY <2>1 DEF ThreadedShown, Threaded!SentBefore
  <2>4. ASSUME result' = "ok" PROVE sent = Messages
    <3>1. sent = Threaded!SentBefore + Threaded!Burst /\ ThreadedNumbers
      BY <2>1, <2>4, ThreadedBurstIsWhole, ThreadedHasNumbers
    <3>2. QED  BY <2>1, <2>4, <3>1 DEF ThreadedNumbers
  <2>5. QED  BY <1>1, <2>1, <2>2, <2>3, <2>4 DEF PublisherStep
<1>7. QED  BY <1>3, <1>4, <1>5, <1>6 DEF Threaded!Next, ThreadStep

-----------------------------------------------------------------------------
(***************************************************************************)
(* Publishing with a pool of processes (_publish).                         *)
(***************************************************************************)

(***************************************************************************)
(* The lines in a pipe.  A line takes what its reader has counted, of the  *)
(* bursts that are over and of the present one, to something not smaller.  *)
(***************************************************************************)
ReadsLine(line, over1, burst1, over2, burst2) ==
  \/ line.kind = "enqueued" /\ over2 = over1 /\ burst2 = line.count /\ burst1 <= burst2
  \/ line.kind = "burst" /\ over2 = over1 + line.count /\ burst1 <= line.count /\ burst2 = 0

(* A reader that has counted over1 and burst1 has counted over2 and burst2 *)
(* after all lines; in between it has never counted more.                  *)
Reads(lines, over1, burst1, over2, burst2) ==
  \E f, g \in [0..Len(lines) -> Nat] :
    /\ f[0] = over1 /\ g[0] = burst1
    /\ f[Len(lines)] = over2 /\ g[Len(lines)] = burst2
    /\ \A i \in 0..Len(lines) : f[i] + g[i] <= over2 + burst2
    /\ \A i \in 1..Len(lines) : ReadsLine(lines[i], f[i - 1], g[i - 1], f[i], g[i])

LEMMA ReadsToTheEnd ==
  ASSUME NEW L, NEW lines \in Seq(L),
         NEW a, NEW b, NEW c, NEW d, Reads(lines, a, b, c, d)
  PROVE  /\ a \in Nat /\ b \in Nat /\ c \in Nat /\ d \in Nat /\ a + b <= c + d
         /\ lines = <<>> => a = c /\ b = d
<1>1. PICK f \in [0..Len(lines) -> Nat], g \in [0..Len(lines) -> Nat] :
        /\ f[0] = a /\ g[0] = b /\ f[Len(lines)] = c /\ g[Len(lines)] = d
        /\ \A i \in 0..Len(lines) : f[i] + g[i] <= c + d
  BY DEF Reads
<1>2. 0 \in 0..Len(lines) /\ Len(lines) \in 0..Len(lines) /\ (lines = <<>> => Len(lines) = 0)
  OBVIOUS
<1>3. QED  BY <1>1, <1>2

LEMMA ReadsNothing ==
  ASSUME NEW a \in Nat, NEW b \in Nat
  PROVE  Reads(<<>>, a, b, a, b)
<1> DEFINE f == [i \in 0..0 |-> a]
           g == [i \in 0..0 |-> b]
<1>1. Len(<<>>) = 0
  OBVIOUS
<1>2. f \in [0..0 -> Nat] /\ g \in [0..0 -> Nat] /\ f[0] = a /\ g[0] = b
  OBVIOUS
<1>3. \A i \in 0..0 : f[i] + g[i] <= a + b
  OBVIOUS
<1>4. \A i \in 1..0 : FALSE
  OBVIOUS
<1> HIDE DEF f, g
<1>5. QED  BY <1>1, <1>2, <1>3, <1>4 DEF Reads

LEMMA ReadsOneMore ==
  ASSUME NEW L, NEW lines \in Seq(L), NEW line \in L,
         NEW a, NEW b, NEW c, NEW d, Reads(lines, a, b, c, d),
         NEW c2 \in Nat, NEW d2 \in Nat, ReadsLine(line, c, d, c2, d2), c + d <= c2 + d2
  PROVE  Reads(Append(lines, line), a, b, c2, d2)
<1> DEFINE n == Len(lines)
           more == Append(lines, line)
<1>1. PICK f \in [0..n -> Nat], g \in [0..n -> Nat] :
        /\ f[0] = a /\ g[0] = b /\ f[n] = c /\ g[n] = d
        /\ \A i \in 0..n : f[i] + g[i] <= c + d
        /\ \A i \in 1..n : ReadsLine(lines[i], f[i - 1], g[i - 1], f[i], g[i])
  BY DEF Reads
<1>2. /\ n \in Nat /\ Len(more) = n + 1 /\ more[n + 1] = line
      /\ \A i \in 1..n : more[i] = lines[i]
  OBVIOUS
<1>3. c \in Nat /\ d \in Nat
  BY ReadsToTheEnd
<1> HIDE DEF n, more
<1> DEFINE F == [i \in 0..(n + 1) |-> IF i = n + 1 THEN c2 ELSE f[i]]
           G == [i \in 0..(n + 1) |-> IF i = n + 1 THEN d2 ELSE g[i]]
<1>4. F \in [0..(n + 1) -> Nat] /\ G \in [0..(n + 1) -> Nat]
  BY <1>2
<1>5. /\ F[0] = a /\ G[0] = b /\ F[n + 1] = c2 /\ G[n + 1] = d2
      /\ \A i \in 0..n : F[i] = f[i] /\ G[i] = g[i]
  BY <1>1, <1>2
<1> HIDE DEF F, G
<1>6. ASSUME NEW i \in 0..(n + 1) PROVE F[i] + G[i] <= c2 + d2
  <2>1. CASE i = n + 1
    BY <1>5, <2>1
  <2>2. CASE i \in 0..n
    <3>1. F[i] = f[i] /\ G[i] = g[i]
      BY <1>5, <2>2
    <3>2. f[i] + g[i] <= c + d /\ f[i] \in Nat /\ g[i] \in Nat
      BY <1>1, <2>2
    <3>3. QED  BY <1>3, <3>1, <3>2
  <2>3. QED  BY <1>2, <2>1, <2>2
<1>7. ASSUME NEW i \in 1..(n + 1)
      PROVE  ReadsLine(more[i], F[i - 1], G[i - 1], F[i], G[i])
  <2>1. CASE i = n + 1
    <3>1. F[i - 1] = c /\ G[i - 1] = d
      BY <1>1, <1>2, <1>5, <2>1
    <3>2. QED  BY <1>2, <1>5, <2>1, <3>1
  <2>2. CASE i \in 1..n
    <3>1. i \in 0..n /\ i - 1 \in 0..n
      BY <1>2, <2>2
    <3>2. QED  BY <1>1, <1>2, <1>5, <2>2, <3>1
  <2>3. QED  BY <1>2, <2>1, <2>2
<1>8. Reads(more, a, b, c2, d2)
  BY <1>2, <1>4, <1>5, <1>6, <1>7 DEF Reads
<1>9. QED  BY <1>8 DEF more

LEMMA ReadsOneLess ==
  ASSUME NEW L, NEW lines \in Seq(L), lines # <<>>,
         NEW a, NEW b, NEW c, NEW d, Reads(lines, a, b, c, d)
  PROVE  \E a2, b2 \in Nat : ReadsLine(Head(lines), a, b, a2, b2) /\ Reads(Tail(lines), a2, b2, c, d)
<1> DEFINE n == Len(lines)
           rest == Tail(lines)
<1>1. PICK f \in [0..n -> Nat], g \in [0..n -> Nat] :
        /\ f[0] = a /\ g[0] = b /\ f[n] = c /\ g[n] = d
        /\ \A i \in 0..n : f[i] + g[i] <= c + d
        /\ \A i \in 1..n : ReadsLine(lines[i], f[i - 1], g[i - 1], f[i], g[i])
  BY DEF Reads
<1>2. /\ n \in Nat \ {0} /\ Len(rest) = n - 1 /\ Head(lines) = lines[1]
      /\ \A i \in 1..(n - 1) : rest[i] = lines[i + 1]
  OBVIOUS
<1> HIDE DEF n, rest
<1> DEFINE F == [i \in 0..(n - 1) |-> f[i + 1]]
           G == [i \in 0..(n - 1) |-> g[i + 1]]
<1>3. F \in [0..(n - 1) -> Nat] /\ G \in [0..(n - 1) -> Nat]
  BY <1>2
<1>4. \A i \in 0..(n - 1) : F[i] = f[i + 1] /\ G[i] = g[i + 1]
  OBVIOUS
<1> HIDE DEF F, G
<1>5. F[0] = f[1] /\ G[0] = g[1] /\ F[n - 1] = c /\ G[n - 1] = d
  <2>1. 0 \in 0..(n - 1) /\ n - 1 \in 0..(n - 1) /\ 0 + 1 = 1 /\ (n - 1) + 1 = n
    BY <1>2
  <2>2. /\ F[0] = f[0 + 1] /\ G[0] = g[0 + 1]
        /\ F[n - 1] = f[(n - 1) + 1] /\ G[n - 1] = g[(n - 1) + 1]
    BY <1>4, <2>1, Zenon
  <2>3. QED  BY <1>1, <2>1, <2>2
<1>6. ASSUME NEW i \in 0..(n - 1) PROVE F[i] + G[i] <= c + d
  <2>1. i + 1 \in 0..n
    BY <1>2
  <2>2. F[i] = f[i + 1] /\ G[i] = g[i + 1]
    BY <1>4
  <2>3. QED  BY <1>1, <2>1, <2>2
<1>7. ASSUME NEW i \in 1..(n - 1)
      PROVE  ReadsLine(rest[i], F[i - 1], G[i - 1], F[i], G[i])
  <2>1. i + 1 \in 1..n /\ (i + 1) - 1 = i /\ i - 1 \in 0..(n - 1) /\ i \in 0..(n - 1)
        /\ (i - 1) + 1 = i
    BY <1>2
  <2>2. ReadsLine(lines[i + 1], f[i], g[i], f[i + 1], g[i + 1])
    BY <1>1, <2>1
  <2>3. F[i] = f[i + 1] /\ G[i] = g[i + 1] /\ F[i - 1] = f[i] /\ G[i - 1] = g[i]
        /\ rest[i] = lines[i + 1]
    BY <1>2, <1>4, <2>1
  <2>4. QED  BY <2>2, <2>3
<1>8. Reads(rest, f[1], g[1], c, d)
  BY <1>2, <1>3, <1>5, <1>6, <1>7 DEF Reads
<1>9. ReadsLine(Head(lines), a, b, f[1], g[1])
  <2>1. 1 \in 1..n /\ 1 - 1 = 0
    BY <1>2
  <2>2. QED  BY <1>1, <1>2, <2>1
<1>10. f[1] \in Nat /\ g[1] \in Nat
  BY <1>2
<1>11. QED  BY <1>8, <1>9, <1>10 DEF rest

-----------------------------------------------------------------------------
Lines == [kind : {"enqueued", "burst"}, count : 0..Messages]
PoolSum(f) == Cardinality(Units(f, Publishers, Messages))
SentOf == [p \in Publishers |-> Pool!SentBy(p)]

PoolTypes ==
  /\ pc \in {"launch", "wait", "join", "cleanup", "end"} /\ failing \in BOOLEAN
  /\ chunk \in Pool!Splits
  /\ proc \in [Publishers -> {"none", "running", "done", "failed"}]
  /\ over \in Pool!Counts /\ inBurst \in Pool!Counts /\ printed \in Pool!Counts
  /\ completed \in Pool!Counts /\ current \in Pool!Counts /\ progress \in Pool!Counts
  /\ pipe \in [Publishers -> Seq(Lines)]
  /\ shown \in 0..Messages /\ result \in {"none", "ok", "raised"}

(* A publisher is within its burst; what its reader has counted and the    *)
(* lines still in the pipe make up what it has printed.                    *)
PublisherInv(p) ==
  /\ over[p] <= chunk[p] /\ inBurst[p] <= Pool!Burst(p) /\ printed[p] <= inBurst[p]
  /\ progress[p] = completed[p] + current[p]
  /\ Reads(pipe[p], completed[p], current[p], over[p], printed[p])
  /\ Len(pipe[p]) <= PipeSize
  /\ proc[p] = "done" => over[p] = chunk[p]

PoolParent ==
  /\ pc \in {"cleanup", "end"} /\ ~failing => \A p \in Publishers : proc[p] = "done"
  /\ pc = "end" => \A p \in Publishers : proc[p] # "running"
  /\ result # "none" <=> pc = "end"

PoolInv == PoolTypes /\ (\A p \in Publishers : PublisherInv(p)) /\ PoolParent

LEMMA PoolNumbers ==
  /\ Messages \in Nat \ {0} /\ PipeSize \in Nat \ {0} /\ IsFiniteSet(Publishers)
  /\ Publishers # {} /\ Cardinality(Publishers) \in 1..Messages
  /\ PerPublisher(BurstSize, Cardinality(Publishers)) \in Nat
<1>1. /\ Messages \in Nat \ {0} /\ PipeSize \in Nat \ {0} /\ IsFiniteSet(Publishers)
      /\ Cardinality(Publishers) \in 2..Messages /\ BurstSize \in Nat \ {0}
  BY PublishingAssumption
<1>2. Publishers # {}
  BY <1>1, FS_EmptySet
<1>3. ASSUME NEW c \in Nat \ {0}, NEW n \in Nat PROVE (n + c - 1) \div c \in Nat
  BY <1>3, Division
<1>4. PerPublisher(BurstSize, Cardinality(Publishers)) \in Nat
  BY <1>1, <1>3 DEF PerPublisher
<1>5. QED  BY <1>1, <1>2, <1>4

LEMMA PoolSums == \A f : Pool!Sum(f) = PoolSum(f)
BY SameCardinality DEF Pool!Sum, PoolSum, Units

LEMMA ChunksAddUp ==
  ASSUME NEW f \in Pool!Splits
  PROVE  /\ f \in [Publishers -> 1..Messages] /\ PoolSum(f) = Messages
<1> DEFINE each == Messages \div Cardinality(Publishers)
           more == Messages % Cardinality(Publishers)
<1>1. f \in [Publishers -> {each, each + 1}] /\ Cardinality({p \in Publishers : f[p] = each + 1}) = more
  BY SameCardinality DEF Pool!Splits
<1> HIDE DEF each, more
<1>2. each = Messages \div Cardinality(Publishers) /\ more = Messages % Cardinality(Publishers)
  BY DEF each, more
<1>3. /\ IsFiniteSet(Publishers) /\ Publishers # {} /\ Messages \in Nat \ {0}
      /\ Messages \in Nat /\ Messages <= Messages /\ Cardinality(Publishers) <= Messages
  BY PoolNumbers
<1>4. /\ f \in [Publishers -> 0..Messages] /\ Cardinality(Units(f, Publishers, Messages)) = Messages
      /\ \A p \in Publishers : f[p] > 0
  BY <1>1, <1>2, <1>3, EvenlySplit
<1>5. QED  BY <1>3, <1>4 DEF PoolSum

LEMMA PoolBurst ==
  ASSUME NEW p, chunk[p] \in Nat, over[p] \in Nat, over[p] <= chunk[p]
  PROVE  Pool!Burst(p) \in 0..(chunk[p] - over[p])
BY PoolNumbers DEF Pool!Burst, Pool!Smaller

LEMMA PoolBurstNext ==
  ASSUME NEW p, chunk'[p] \in Nat, over'[p] \in Nat, over'[p] <= chunk'[p]
  PROVE  Pool!Burst(p)' \in 0..(chunk'[p] - over'[p])
BY PoolNumbers DEF Pool!Burst, Pool!Smaller

(* The numbers of one publisher.                                           *)
LEMMA OfOne ==
  ASSUME PoolInv, NEW p \in Publishers
  PROVE  /\ chunk[p] \in 1..Messages /\ over[p] \in 0..chunk[p]
         /\ Pool!Burst(p) \in 0..(chunk[p] - over[p])
         /\ inBurst[p] \in 0..Pool!Burst(p) /\ printed[p] \in 0..inBurst[p]
         /\ completed[p] \in Nat /\ current[p] \in Nat
         /\ progress[p] = completed[p] + current[p]
         /\ completed[p] + current[p] <= over[p] + printed[p]
         /\ pipe[p] = <<>> => completed[p] = over[p] /\ current[p] = printed[p]
         /\ Messages \in Nat
<1>1. /\ chunk \in [Publishers -> 1..Messages] /\ Messages \in Nat
  BY ChunksAddUp, PoolNumbers DEF PoolInv, PoolTypes
<1>2. /\ over[p] \in Nat /\ inBurst[p] \in Nat /\ printed[p] \in Nat /\ pipe[p] \in Seq(Lines)
      /\ completed[p] \in Nat /\ current[p] \in Nat
  BY DEF PoolInv, PoolTypes, Pool!Counts
<1>3. PublisherInv(p)
  BY DEF PoolInv
<1>4. /\ chunk[p] \in 1..Messages /\ over[p] \in 0..chunk[p]
      /\ Pool!Burst(p) \in 0..(chunk[p] - over[p])
  BY <1>1, <1>2, <1>3, PoolBurst DEF PublisherInv
<1>5. /\ completed[p] + current[p] <= over[p] + printed[p]
      /\ pipe[p] = <<>> => completed[p] = over[p] /\ current[p] = printed[p]
  BY <1>2, <1>3, ReadsToTheEnd DEF PublisherInv
<1>6. QED  BY <1>1, <1>2, <1>3, <1>4, <1>5 DEF PublisherInv

LEMMA PoolImpliesInv == PoolInv => Pool!Inv
<1> SUFFICES ASSUME PoolInv PROVE Pool!Inv
  OBVIOUS
<1>1. Pool!TypeOK
  <2>1. \A p \in Publishers : over[p] \in 0..chunk[p]
    BY OfOne
  <2>2. \A p \in Publishers : Len(pipe[p]) \in 0..PipeSize
    <3>1. \A p \in Publishers : pipe[p] \in Seq(Lines) /\ Len(pipe[p]) <= PipeSize
      BY DEF PoolInv, PoolTypes, PublisherInv
    <3>2. \A p \in Publishers : Len(pipe[p]) \in Nat
      BY <3>1
    <3>3. QED  BY <3>1, <3>2, PoolNumbers
  <2>3. QED  BY <2>1, <2>2 DEF PoolInv, PoolTypes, Pool!TypeOK
<1>2. Pool!ChunksAddUp
  <2>1. chunk \in [Publishers -> 1..Messages] /\ PoolSum(chunk) = Messages
    BY ChunksAddUp DEF PoolInv, PoolTypes
  <2>2. QED  BY <2>1, PoolSums, PoolNumbers DEF Pool!ChunksAddUp
<1>3. Pool!ProgressComplete
  <2> SUFFICES ASSUME NEW p \in Publishers, proc[p] = "done", pipe[p] = <<>>
               PROVE  progress[p] = chunk[p]
    BY DEF Pool!ProgressComplete
  <2>1. over[p] = chunk[p]
    BY DEF PoolInv, PublisherInv
  <2>2. QED  BY <2>1, OfOne
<1>4. Pool!NoPublisherLeft
  BY DEF PoolInv, PoolParent, Pool!NoPublisherLeft, Pool!Running
<1>5. QED  BY <1>1, <1>2, <1>3, <1>4 DEF Pool!Inv

LEMMA PoolStarts == Pool!Init => PoolInv
<1> SUFFICES ASSUME Pool!Init PROVE PoolInv
  OBVIOUS
<1>1. /\ pc = "launch" /\ failing = FALSE /\ chunk \in Pool!Splits /\ shown = 0 /\ result = "none"
      /\ proc = [p \in Publishers |-> "none"] /\ pipe = [p \in Publishers |-> <<>>]
      /\ over = Pool!Zero /\ inBurst = Pool!Zero /\ printed = Pool!Zero
      /\ completed = Pool!Zero /\ current = Pool!Zero /\ progress = Pool!Zero
  BY DEF Pool!Init
<1>2. Pool!Zero \in Pool!Counts /\ \A p \in Publishers : Pool!Zero[p] = 0
  BY PoolNumbers DEF Pool!Zero, Pool!Counts
<1>3. pipe \in [Publishers -> Seq(Lines)]
  BY <1>1
<1>4. PoolTypes
  <2>1. /\ over \in Pool!Counts /\ inBurst \in Pool!Counts /\ printed \in Pool!Counts
        /\ completed \in Pool!Counts /\ current \in Pool!Counts /\ progress \in Pool!Counts
    BY <1>1, <1>2
  <2>2. proc \in [Publishers -> {"none", "running", "done", "failed"}]
    BY <1>1
  <2>3. shown \in 0..Messages
    BY <1>1, PoolNumbers
  <2>4. /\ pc \in {"launch", "wait", "join", "cleanup", "end"} /\ failing \in BOOLEAN
        /\ chunk \in Pool!Splits /\ result \in {"none", "ok", "raised"}
    BY <1>1
  <2>5. QED  BY <1>3, <2>1, <2>2, <2>3, <2>4 DEF PoolTypes
<1>5. ASSUME NEW p \in Publishers PROVE PublisherInv(p)
  <2>1. chunk[p] \in Nat
    BY <1>1, ChunksAddUp
  <2>2. over[p] = 0 /\ inBurst[p] = 0 /\ printed[p] = 0 /\ completed[p] = 0 /\ current[p] = 0
        /\ progress[p] = 0 /\ pipe[p] = <<>> /\ proc[p] = "none"
    BY <1>1, <1>2
  <2>3. Pool!Burst(p) \in 0..(chunk[p] - over[p])
    BY <2>1, <2>2, PoolBurst
  <2>4. Reads(<<>>, 0, 0, 0, 0)
    BY ReadsNothing
  <2>5. QED  BY <2>1, <2>2, <2>3, <2>4, PoolNumbers DEF PublisherInv
<1>6. PoolParent
  BY <1>1 DEF PoolParent
<1>7. QED  BY <1>4, <1>5, <1>6 DEF PoolInv

-----------------------------------------------------------------------------
SameLines(p) == /\ chunk'[p] = chunk[p] /\ over'[p] = over[p] /\ inBurst'[p] = inBurst[p]
                /\ printed'[p] = printed[p] /\ pipe'[p] = pipe[p]
                /\ completed'[p] = completed[p] /\ current'[p] = current[p]
                /\ progress'[p] = progress[p]

LEMMA PublisherKeeps ==
  ASSUME PoolInv, NEW p \in Publishers, SameLines(p),
         proc'[p] = "done" => proc[p] = "done" \/ over[p] = chunk[p]
  PROVE  PublisherInv(p)'
<1>1. Pool!Burst(p)' = Pool!Burst(p)
  BY DEF SameLines, Pool!Burst
<1>2. PublisherInv(p)
  BY DEF PoolInv
<1>3. QED  BY <1>1, <1>2 DEF SameLines, PublisherInv

(* What a step changes at most, for one publisher.                         *)
OnlyOf(p) == /\ chunk' = chunk
             /\ \A q \in Publishers : q # p => SameLines(q) /\ proc'[q] = proc[q]

LEMMA OthersKeep ==
  ASSUME PoolInv, NEW p \in Publishers, OnlyOf(p), PublisherInv(p)'
  PROVE  \A q \in Publishers : PublisherInv(q)'
<1> SUFFICES ASSUME NEW q \in Publishers, q # p PROVE PublisherInv(q)'
  OBVIOUS
<1>1. SameLines(q) /\ proc'[q] = proc[q]
  BY DEF OnlyOf
<1>2. QED  BY <1>1, PublisherKeeps

SentMore(p) == /\ over'[p] + inBurst'[p] = over[p] + inBurst[p] + 1
               /\ \A q \in Publishers : q # p => over'[q] + inBurst'[q] = over[q] + inBurst[q]
SentSame == \A q \in Publishers : over'[q] + inBurst'[q] = over[q] + inBurst[q]
ShownMore == \A q \in Publishers : progress'[q] >= progress[q]

LEMMA PoolSendOne ==
  ASSUME PoolInv, NEW p \in Publishers, Pool!SendOne(p)
  PROVE  /\ PoolInv' /\ result = "none" /\ result' = result
         /\ SentMore(p) /\ progress' = progress
<1>1. /\ proc[p] = "running" /\ inBurst[p] < Pool!Burst(p)
      /\ inBurst' = [inBurst EXCEPT ![p] = @ + 1]
      /\ UNCHANGED <<pc, failing, shown, result, chunk, proc, over, printed, pipe,
                      completed, current, progress>>
  BY DEF Pool!SendOne, Pool!parent, Pool!reader
<1>2. /\ over[p] \in Nat /\ inBurst[p] \in Nat /\ printed[p] \in Nat
      /\ Pool!Burst(p) \in 0..Messages /\ Messages \in Nat /\ printed[p] <= inBurst[p]
  BY OfOne
<1>3. inBurst \in [Publishers -> 0..Messages]
  BY DEF PoolInv, PoolTypes, Pool!Counts
<1>4. /\ inBurst' \in [Publishers -> 0..Messages] /\ inBurst'[p] = inBurst[p] + 1
      /\ \A q \in Publishers : q # p => inBurst'[q] = inBurst[q]
  BY <1>1, <1>2, <1>3
<1>5. OnlyOf(p)
  BY <1>1, <1>4 DEF OnlyOf, SameLines
<1>6. PublisherInv(p)'
  <2>1. Pool!Burst(p)' = Pool!Burst(p)
    BY <1>1 DEF Pool!Burst
  <2>2. inBurst'[p] <= Pool!Burst(p) /\ printed[p] <= inBurst'[p]
    BY <1>1, <1>2, <1>4
  <2>3. PublisherInv(p)
    BY DEF PoolInv
  <2>4. QED  BY <1>1, <2>1, <2>2, <2>3 DEF PublisherInv
<1>7. \A q \in Publishers : PublisherInv(q)'
  BY <1>5, <1>6, OthersKeep
<1>8. PoolTypes'
  BY <1>1, <1>4 DEF PoolInv, PoolTypes, Pool!Counts
<1>9. PoolParent' /\ result = "none"
  BY <1>1 DEF PoolInv, PoolParent
<1>10. SentMore(p)
  <2>1. over'[p] + inBurst'[p] = over[p] + inBurst[p] + 1
    <3> DEFINE i == inBurst'[p]
    <3>1. i = inBurst[p] + 1 /\ over'[p] = over[p]
      BY <1>1, <1>4
    <3> HIDE DEF i
    <3>2. over[p] + i = over[p] + inBurst[p] + 1
      BY <1>2, <3>1
    <3>3. QED  BY <3>1, <3>2 DEF i
  <2>2. QED  BY <1>1, <1>4, <2>1 DEF SentMore
<1>11. QED  BY <1>1, <1>7, <1>8, <1>9, <1>10 DEF PoolInv

LEMMA PoolPrintEnqueued ==
  ASSUME PoolInv, NEW p \in Publishers, Pool!PrintEnqueued(p)
  PROVE  PoolInv' /\ result' = result /\ SentSame /\ progress' = progress
<1> DEFINE line == [kind |-> "enqueued", count |-> inBurst[p]]
<1>1. /\ proc[p] = "running" /\ printed[p] < inBurst[p] /\ Len(pipe[p]) < PipeSize
      /\ printed' = [printed EXCEPT ![p] = inBurst[p]]
      /\ pipe' = [pipe EXCEPT ![p] = Append(@, line)]
      /\ UNCHANGED <<pc, failing, shown, result, chunk, proc, over, inBurst,
                      completed, current, progress>>
  BY DEF Pool!PrintEnqueued, Pool!parent, Pool!reader
<1>2. /\ over[p] \in Nat /\ inBurst[p] \in 0..Messages /\ printed[p] \in Nat
      /\ Messages \in Nat
  BY OfOne
<1>3. /\ printed \in [Publishers -> 0..Messages] /\ pipe \in [Publishers -> Seq(Lines)]
      /\ line \in Lines
  BY <1>2 DEF PoolInv, PoolTypes, Pool!Counts, Lines
<1>4. /\ printed' \in [Publishers -> 0..Messages] /\ printed'[p] = inBurst[p]
      /\ \A q \in Publishers : q # p => printed'[q] = printed[q]
  BY <1>1, <1>2, <1>3
<1>5. /\ pipe' \in [Publishers -> Seq(Lines)] /\ pipe'[p] = Append(pipe[p], line)
      /\ \A q \in Publishers : q # p => pipe'[q] = pipe[q]
  BY <1>1, <1>3
<1>6. line.kind = "enqueued" /\ line.count = inBurst[p]
  OBVIOUS
<1> HIDE DEF line
<1>7. OnlyOf(p)
  BY <1>1, <1>4, <1>5 DEF OnlyOf, SameLines
<1>8. PublisherInv(p)'
  <2>1. Pool!Burst(p)' = Pool!Burst(p)
    BY <1>1 DEF Pool!Burst
  <2>2. PublisherInv(p)
    BY DEF PoolInv
  <2>3. ReadsLine(line, over[p], printed[p], over[p], inBurst[p])
    BY <1>1, <1>2, <1>6 DEF ReadsLine
  <2>4. Reads(Append(pipe[p], line), completed[p], current[p], over[p], inBurst[p])
    <3>1. pipe[p] \in Seq(Lines) /\ over[p] + printed[p] <= over[p] + inBurst[p]
      BY <1>1, <1>2, <1>3
    <3>2. Reads(pipe[p], completed[p], current[p], over[p], printed[p])
      BY <2>2 DEF PublisherInv
    <3>3. QED  BY <1>2, <1>3, <2>3, <3>1, <3>2, ReadsOneMore
  <2>5. Len(Append(pipe[p], line)) <= PipeSize
    <3>1. Len(Append(pipe[p], line)) = Len(pipe[p]) + 1 /\ Len(pipe[p]) \in Nat
      BY <1>3
    <3>2. QED  BY <1>1, <3>1, PoolNumbers
  <2>6. inBurst[p] <= inBurst[p]
    BY <1>2
  <2>7. QED  BY <1>1, <1>4, <1>5, <2>1, <2>2, <2>4, <2>5, <2>6 DEF PublisherInv
<1>9. \A q \in Publishers : PublisherInv(q)'
  BY <1>7, <1>8, OthersKeep
<1>10. PoolTypes'
  BY <1>1, <1>4, <1>5 DEF PoolInv, PoolTypes, Pool!Counts
<1>11. PoolParent' /\ SentSame
  BY <1>1 DEF PoolInv, PoolParent, SentSame
<1>12. QED  BY <1>1, <1>9, <1>10, <1>11 DEF PoolInv

LEMMA PoolPrintBurst ==
  ASSUME PoolInv, NEW p \in Publishers, Pool!PrintBurst(p)
  PROVE  PoolInv' /\ result' = result /\ SentSame /\ progress' = progress
<1> DEFINE burst == Pool!Burst(p)
           line == [kind |-> "burst", count |-> burst]
<1>1. /\ proc[p] = "running" /\ printed[p] = burst /\ Len(pipe[p]) < PipeSize
      /\ pipe' = [pipe EXCEPT ![p] = Append(@, line)]
      /\ over' = [over EXCEPT ![p] = @ + burst]
      /\ inBurst' = [inBurst EXCEPT ![p] = 0] /\ printed' = [printed EXCEPT ![p] = 0]
      /\ UNCHANGED <<pc, failing, shown, result, chunk, proc, completed, current, progress>>
  BY DEF Pool!PrintBurst, Pool!parent, Pool!reader
<1>2. /\ over[p] \in 0..chunk[p] /\ burst \in 0..(chunk[p] - over[p]) /\ chunk[p] \in 0..Messages
      /\ inBurst[p] \in 0..burst /\ printed[p] \in 0..inBurst[p] /\ Messages \in Nat
  BY OfOne
<1>3. /\ pipe \in [Publishers -> Seq(Lines)] /\ over \in [Publishers -> 0..Messages]
      /\ inBurst \in [Publishers -> 0..Messages] /\ printed \in [Publishers -> 0..Messages]
  BY DEF PoolInv, PoolTypes, Pool!Counts
<1> HIDE DEF burst
<1>4. line \in Lines /\ line.kind = "burst" /\ line.count = burst
  BY <1>2 DEF Lines
<1>5. inBurst[p] = burst /\ over[p] + burst \in 0..chunk[p] /\ 0 \in 0..Messages
      /\ over[p] + burst \in 0..Messages
  BY <1>1, <1>2
<1> HIDE DEF line
<1>6. /\ pipe' \in [Publishers -> Seq(Lines)] /\ pipe'[p] = Append(pipe[p], line)
      /\ \A q \in Publishers : q # p => pipe'[q] = pipe[q]
  BY <1>1, <1>3, <1>4
<1>7. /\ over' \in [Publishers -> 0..Messages] /\ over'[p] = over[p] + burst
      /\ \A q \in Publishers : q # p => over'[q] = over[q]
  BY <1>1, <1>3, <1>5
<1>8. /\ inBurst' \in [Publishers -> 0..Messages] /\ inBurst'[p] = 0
      /\ printed' \in [Publishers -> 0..Messages] /\ printed'[p] = 0
      /\ \A q \in Publishers : q # p => inBurst'[q] = inBurst[q] /\ printed'[q] = printed[q]
  BY <1>1, <1>3, <1>5
<1>9. OnlyOf(p)
  BY <1>1, <1>6, <1>7, <1>8 DEF OnlyOf, SameLines
<1>10. PublisherInv(p)'
  <2>1. over'[p] \in Nat /\ over'[p] <= chunk'[p] /\ chunk'[p] \in Nat
    BY <1>1, <1>2, <1>5, <1>7
  <2>2. 0 <= Pool!Burst(p)'
    BY <2>1, PoolBurstNext
  <2>3. PublisherInv(p)
    BY DEF PoolInv
  <2>4. ReadsLine(line, over[p], printed[p], over[p] + burst, 0)
    BY <1>1, <1>2, <1>4 DEF ReadsLine
  <2>5. Reads(Append(pipe[p], line), completed[p], current[p], over[p] + burst, 0)
    <3>1. /\ pipe[p] \in Seq(Lines) /\ over[p] + printed[p] <= (over[p] + burst) + 0
          /\ over[p] + burst \in Nat /\ 0 \in Nat
      BY <1>1, <1>2, <1>3
    <3>2. Reads(pipe[p], completed[p], current[p], over[p], printed[p])
      BY <2>3 DEF PublisherInv
    <3>3. QED  BY <1>4, <2>4, <3>1, <3>2, ReadsOneMore
  <2>6. Len(Append(pipe[p], line)) <= PipeSize
    <3>1. Len(Append(pipe[p], line)) = Len(pipe[p]) + 1 /\ Len(pipe[p]) \in Nat
      BY <1>3, <1>4
    <3>2. QED  BY <1>1, <3>1, PoolNumbers
  <2>7. QED  BY <1>1, <1>6, <1>7, <1>8, <2>1, <2>2, <2>3, <2>5, <2>6 DEF PublisherInv
<1>11. \A q \in Publishers : PublisherInv(q)'
  BY <1>9, <1>10, OthersKeep
<1>12. PoolTypes'
  BY <1>1, <1>6, <1>7, <1>8 DEF PoolInv, PoolTypes, Pool!Counts
<1>13. PoolParent'
  BY <1>1 DEF PoolInv, PoolParent
<1>14. SentSame
  <2>1. over'[p] + inBurst'[p] = over[p] + inBurst[p]
    BY <1>2, <1>5, <1>7, <1>8
  <2>2. QED  BY <1>7, <1>8, <2>1 DEF SentSame
<1>15. QED  BY <1>1, <1>11, <1>12, <1>13, <1>14 DEF PoolInv

(* The reader thread takes one line, of either kind.                       *)
LEMMA PoolRead ==
  ASSUME PoolInv, NEW p \in Publishers, Pool!ReadEnqueued(p) \/ Pool!ReadBurst(p)
  PROVE  PoolInv' /\ result' = result /\ SentSame /\ ShownMore
<1> DEFINE line == Head(pipe[p])
           sum == completed'[p] + current'[p]
<1>1. /\ pipe[p] # <<>> /\ pipe' = [pipe EXCEPT ![p] = Tail(@)]
      /\ UNCHANGED <<pc, failing, shown, result, chunk, proc, over, inBurst, printed>>
  BY DEF Pool!ReadEnqueued, Pool!ReadBurst, Pool!parent, Pool!publisher
<1>2. /\ over[p] \in 0..chunk[p] /\ Pool!Burst(p) \in 0..(chunk[p] - over[p])
      /\ chunk[p] \in 0..Messages /\ Messages \in Nat
      /\ inBurst[p] \in 0..Pool!Burst(p) /\ printed[p] \in 0..inBurst[p]
      /\ completed[p] \in Nat /\ current[p] \in Nat
  BY OfOne
<1>3. /\ pipe \in [Publishers -> Seq(Lines)] /\ completed \in [Publishers -> 0..Messages]
      /\ current \in [Publishers -> 0..Messages] /\ progress \in [Publishers -> 0..Messages]
  BY DEF PoolInv, PoolTypes, Pool!Counts
<1>4. PublisherInv(p)
  BY DEF PoolInv
<1>5. /\ Reads(pipe[p], completed[p], current[p], over[p], printed[p]) /\ pipe[p] \in Seq(Lines)
      /\ progress[p] = completed[p] + current[p]
  BY <1>3, <1>4 DEF PublisherInv
<1>6. PICK a, b \in Nat : /\ ReadsLine(line, completed[p], current[p], a, b)
                          /\ Reads(Tail(pipe[p]), a, b, over[p], printed[p])
  BY <1>1, <1>5, ReadsOneLess
<1>7. Tail(pipe[p]) \in Seq(Lines)
  BY <1>1, <1>5
<1>8. a + b <= over[p] + printed[p]
  BY <1>6, <1>7, ReadsToTheEnd
<1>9. a + b <= chunk[p] /\ a \in 0..Messages /\ b \in 0..Messages /\ 0 \in 0..Messages
  BY <1>2, <1>6, <1>8
<1>10. completed[p] + current[p] <= a + b
  <2>1. line \in Lines
    BY <1>1, <1>5
  <2> HIDE DEF line
  <2>2. line.count \in 0..Messages
    BY <2>1 DEF Lines
  <2>3. QED  BY <1>2, <1>6, <2>2 DEF ReadsLine
<1>11. /\ completed'[p] = a /\ current'[p] = b
       /\ completed' \in [Publishers -> 0..Messages] /\ current' \in [Publishers -> 0..Messages]
       /\ \A q \in Publishers : q # p => completed'[q] = completed[q] /\ current'[q] = current[q]
       /\ progress' = [progress EXCEPT ![p] = Pool!Smaller(sum, chunk[p])]
  <2>1. CASE Pool!ReadEnqueued(p)
    <3>1. /\ line.kind = "enqueued" /\ current' = [current EXCEPT ![p] = line.count]
          /\ completed' = completed
          /\ progress' = [progress EXCEPT ![p] = Pool!Smaller(completed[p] + current'[p], chunk[p])]
      BY <2>1 DEF Pool!ReadEnqueued
    <3>2. a = completed[p] /\ b = line.count
      BY <1>6, <3>1 DEF ReadsLine
    <3> HIDE DEF line
    <3>3. /\ current'[p] = b /\ current' \in [Publishers -> 0..Messages]
          /\ \A q \in Publishers : q # p => current'[q] = current[q]
      BY <1>3, <1>9, <3>1, <3>2
    <3>4. QED  BY <1>3, <3>1, <3>2, <3>3
  <2>2. CASE Pool!ReadBurst(p)
    <3>1. /\ line.kind = "burst" /\ completed' = [completed EXCEPT ![p] = @ + line.count]
          /\ current' = [current EXCEPT ![p] = 0]
          /\ progress' = [progress EXCEPT ![p] = Pool!Smaller(completed'[p] + current'[p], chunk[p])]
      BY <2>2 DEF Pool!ReadBurst
    <3>2. a = completed[p] + line.count /\ b = 0
      BY <1>6, <3>1 DEF ReadsLine
    <3> HIDE DEF line
    <3>3. /\ current'[p] = b /\ current' \in [Publishers -> 0..Messages]
          /\ \A q \in Publishers : q # p => current'[q] = current[q]
      BY <1>3, <1>9, <3>1, <3>2
    <3>4. /\ completed'[p] = a /\ completed' \in [Publishers -> 0..Messages]
          /\ \A q \in Publishers : q # p => completed'[q] = completed[q]
      BY <1>3, <1>9, <3>1, <3>2
    <3>5. QED  BY <3>1, <3>3, <3>4
  <2>3. QED  BY <2>1, <2>2
<1>12. /\ progress'[p] = a + b /\ progress' \in [Publishers -> 0..Messages]
       /\ \A q \in Publishers : q # p => progress'[q] = progress[q]
  <2>1. sum = a + b
    BY <1>11
  <2> HIDE DEF sum
  <2>2. Pool!Smaller(sum, chunk[p]) = a + b
    BY <1>2, <1>9, <2>1 DEF Pool!Smaller
  <2>3. a + b \in 0..Messages
    BY <1>2, <1>9
  <2>4. QED  BY <1>3, <1>11, <2>2, <2>3
<1>13. /\ pipe' \in [Publishers -> Seq(Lines)] /\ pipe'[p] = Tail(pipe[p])
       /\ \A q \in Publishers : q # p => pipe'[q] = pipe[q]
  BY <1>1, <1>3, <1>7
<1>14. OnlyOf(p)
  BY <1>1, <1>11, <1>12, <1>13 DEF OnlyOf, SameLines
<1>15. PublisherInv(p)'
  <2>1. Pool!Burst(p)' = Pool!Burst(p)
    BY <1>1 DEF Pool!Burst
  <2>2. Len(Tail(pipe[p])) <= PipeSize
    <3>1. Len(pipe[p]) <= PipeSize /\ Len(pipe[p]) \in Nat /\ Len(Tail(pipe[p])) = Len(pipe[p]) - 1
      BY <1>1, <1>4, <1>5 DEF PublisherInv
    <3>2. QED  BY <3>1, PoolNumbers
  <2>3. QED  BY <1>1, <1>4, <1>6, <1>11, <1>12, <1>13, <2>1, <2>2 DEF PublisherInv
<1>16. \A q \in Publishers : PublisherInv(q)'
  BY <1>14, <1>15, OthersKeep
<1>17. PoolTypes'
  BY <1>1, <1>11, <1>12, <1>13 DEF PoolInv, PoolTypes, Pool!Counts
<1>18. PoolParent' /\ SentSame
  BY <1>1 DEF PoolInv, PoolParent, SentSame
<1>19. ShownMore
  <2>1. progress'[p] >= progress[p]
    BY <1>2, <1>5, <1>6, <1>10, <1>12
  <2>2. \A q \in Publishers : progress[q] \in Nat
    BY <1>3
  <2>3. QED  BY <1>12, <2>1, <2>2 DEF ShownMore
<1>20. QED  BY <1>1, <1>16, <1>17, <1>18, <1>19 DEF PoolInv

(* A process starts or ends.                                               *)
LEMMA PoolProcess ==
  ASSUME PoolInv, NEW p \in Publishers,
         Pool!Exit(p) \/ Pool!Fail(p) \/ Pool!Terminate(p) \/ Pool!Launch(p)
  PROVE  PoolInv' /\ result' = result /\ SentSame /\ progress' = progress
<1>1. /\ UNCHANGED <<failing, shown, result, chunk, over, inBurst, printed, pipe,
                      completed, current, progress>>
      /\ \/ proc[p] = "running" /\ over[p] = chunk[p] /\ pc' = pc
            /\ proc' = [proc EXCEPT ![p] = "done"]
         \/ proc[p] = "running" /\ pc' = pc /\ proc' = [proc EXCEPT ![p] = "failed"]
         \/ pc = "launch" /\ pc' \in {"launch", "wait"}
            /\ proc[p] = "none" /\ proc' = [proc EXCEPT ![p] = "running"]
  BY DEF Pool!Exit, Pool!Fail, Pool!Terminate, Pool!Launch, Pool!parent, Pool!reader
<1>2. proc \in [Publishers -> {"none", "running", "done", "failed"}]
  BY DEF PoolInv, PoolTypes
<1>3. proc' \in [Publishers -> {"none", "running", "done", "failed"}]
  BY <1>1, <1>2
<1>4. \A q \in Publishers : SameLines(q)
  BY <1>1 DEF SameLines
<1>5. \A q \in Publishers : proc'[q] = "done" => proc[q] = "done" \/ over[q] = chunk[q]
  BY <1>1, <1>2
<1>6. \A q \in Publishers : PublisherInv(q)'
  BY <1>4, <1>5, PublisherKeeps
<1>7. PoolTypes'
  BY <1>1, <1>3 DEF PoolInv, PoolTypes
<1>8. PoolParent'
  BY <1>1, <1>2 DEF PoolInv, PoolParent, PoolTypes
<1>9. SentSame
  BY <1>1 DEF SentSame
<1>10. QED  BY <1>1, <1>6, <1>7, <1>8, <1>9 DEF PoolInv

(* The parent.                                                             *)
ParentStep == \/ Pool!LaunchFails \/ Pool!PrintTotal \/ Pool!AllExited
              \/ Pool!Joined \/ Pool!CleanedUp

LEMMA PoolParentSteps ==
  ASSUME PoolInv, ParentStep
  PROVE  /\ PoolInv' /\ SentSame /\ progress' = progress
         /\ result' = result \/ (result = "none" /\ result' \in {"ok", "raised"})
         /\ result' = "ok" /\ result = "none" => \A p \in Publishers : proc[p] = "done"
<1>1. /\ UNCHANGED <<chunk, proc, over, inBurst, printed, pipe, completed, current, progress>>
      /\ shown' \in {shown, Pool!Sum(progress)}
      /\ \/ pc = "launch" /\ pc' = "cleanup" /\ failing' = TRUE /\ result' = result
         \/ pc' = pc /\ failing' = failing /\ result' = result
         \/ pc = "wait" /\ pc' = "join" /\ failing' = failing /\ result' = result
         \/ pc = "join" /\ pc' = "cleanup" /\ failing' = (\E p \in Publishers : proc[p] # "done")
            /\ result' = result
         \/ pc = "cleanup" /\ Pool!Running = {} /\ pc' = "end" /\ failing' = failing
            /\ result' = IF failing THEN "raised" ELSE "ok"
  BY DEF ParentStep, Pool!LaunchFails, Pool!PrintTotal, Pool!AllExited, Pool!Joined,
     Pool!CleanedUp, Pool!publisher, Pool!reader
<1>2. Pool!Sum(progress) \in 0..Messages
  <2>1. /\ progress \in [Publishers -> 0..Messages] /\ chunk \in [Publishers -> 1..Messages]
        /\ PoolSum(chunk) = Messages
    BY ChunksAddUp DEF PoolInv, PoolTypes, Pool!Counts
  <2>2. \A p \in Publishers : progress[p] <= chunk[p]
    <3> SUFFICES ASSUME NEW p \in Publishers PROVE progress[p] <= chunk[p]
      OBVIOUS
    <3>1. QED  BY OfOne
  <2>3. chunk \in [Publishers -> 0..Messages] /\ IsFiniteSet(Publishers) /\ Messages \in Nat
    BY <2>1, PoolNumbers
  <2>4. PoolSum(progress) <= PoolSum(chunk)
    BY <2>1, <2>2, <2>3, UnitsAtMost DEF PoolSum
  <2>5. PoolSum(progress) \in Nat
    BY <2>3, UnitsFinite DEF PoolSum
  <2>6. QED  BY <2>1, <2>3, <2>4, <2>5, PoolSums
<1>3. \A p \in Publishers : SameLines(p)
  BY <1>1 DEF SameLines
<1>4. \A p \in Publishers : PublisherInv(p)'
  BY <1>1, <1>3, PublisherKeeps
<1>5. failing' \in BOOLEAN /\ pc' \in {"launch", "wait", "join", "cleanup", "end"}
      /\ result' \in {"none", "ok", "raised"}
  BY <1>1 DEF PoolInv, PoolTypes
<1>6. PoolTypes'
  BY <1>1, <1>2, <1>5 DEF PoolInv, PoolTypes
<1>7. PoolParent'
  <2>1. /\ pc \in {"cleanup", "end"} /\ ~failing => \A p \in Publishers : proc[p] = "done"
        /\ pc = "end" => \A p \in Publishers : proc[p] # "running"
        /\ result # "none" <=> pc = "end"
    BY DEF PoolInv, PoolParent
  <2>2. Pool!Running = {} => \A p \in Publishers : proc[p] # "running"
    BY DEF Pool!Running
  <2>3. pc' \in {"cleanup", "end"} /\ ~failing' => \A p \in Publishers : proc[p] = "done"
    BY <1>1, <2>1
  <2>4. pc' = "end" => \A p \in Publishers : proc[p] # "running"
    BY <1>1, <2>1, <2>2
  <2>5. result' # "none" <=> pc' = "end"
    BY <1>1, <2>1
  <2>6. proc' = proc
    BY <1>1
  <2>7. QED  BY <2>3, <2>4, <2>5, <2>6 DEF PoolParent
<1>8. SentSame
  BY <1>1 DEF SentSame
<1>9. /\ result' = result \/ (result = "none" /\ result' \in {"ok", "raised"})
      /\ result' = "ok" /\ result = "none" => \A p \in Publishers : proc[p] = "done"
  BY <1>1 DEF PoolInv, PoolParent
<1>10. QED  BY <1>1, <1>4, <1>6, <1>7, <1>8, <1>9 DEF PoolInv

LEMMA PoolStays ==
  ASSUME PoolInv,
         UNCHANGED <<pc, failing, shown, result, chunk, proc, over, inBurst, printed, pipe,
                     completed, current, progress>>
  PROVE  PoolInv'
<1>1. \A p \in Publishers : SameLines(p)
  BY DEF SameLines
<1>2. \A p \in Publishers : PublisherInv(p)'
  BY <1>1, PublisherKeeps
<1>3. QED  BY <1>2 DEF PoolInv, PoolTypes, PoolParent

-----------------------------------------------------------------------------
(* What has been sent and what is shown, of all publishers.                *)
PoolSent == PoolSum(SentOf)
PoolShown == PoolSum(progress)
PoolBehind == /\ SentOf \in [Publishers -> 0..Messages] /\ progress \in [Publishers -> 0..Messages]
              /\ PoolSent \in 0..Messages /\ PoolShown \in 0..PoolSent
              /\ (\A p \in Publishers : proc[p] = "done") => PoolSent = Messages

LEMMA PoolStaysBehind == PoolInv => PoolBehind
<1> SUFFICES ASSUME PoolInv PROVE PoolBehind
  OBVIOUS
<1>1. /\ chunk \in [Publishers -> 1..Messages] /\ PoolSum(chunk) = Messages
      /\ progress \in [Publishers -> 0..Messages] /\ IsFiniteSet(Publishers) /\ Messages \in Nat
  BY ChunksAddUp, PoolNumbers DEF PoolInv, PoolTypes, Pool!Counts
<1>2. ASSUME NEW p \in Publishers
      PROVE  /\ SentOf[p] \in 0..Messages /\ progress[p] <= SentOf[p] /\ SentOf[p] <= chunk[p]
             /\ proc[p] = "done" => SentOf[p] = chunk[p]
  <2>1. SentOf[p] = over[p] + inBurst[p]
    BY DEF SentOf, Pool!SentBy
  <2>2. proc[p] = "done" => over[p] = chunk[p]
    BY DEF PoolInv, PublisherInv
  <2>3. /\ over[p] \in 0..chunk[p] /\ Pool!Burst(p) \in 0..(chunk[p] - over[p])
        /\ chunk[p] \in 0..Messages /\ Messages \in Nat
        /\ inBurst[p] \in 0..Pool!Burst(p) /\ printed[p] \in 0..inBurst[p]
        /\ progress[p] <= over[p] + printed[p] /\ progress[p] \in Nat
    BY OfOne
  <2>4. QED  BY <2>1, <2>2, <2>3
<1>3. SentOf \in [Publishers -> 0..Messages] /\ chunk \in [Publishers -> 0..Messages]
  <2>1. SentOf \in [Publishers -> 0..Messages]
    BY <1>2 DEF SentOf
  <2>2. QED  BY <1>1, <2>1
<1>4. PoolShown <= PoolSent
  BY <1>1, <1>2, <1>3, UnitsAtMost DEF PoolSum, PoolShown, PoolSent
<1>5. PoolSent <= PoolSum(chunk)
  BY <1>1, <1>2, <1>3, UnitsAtMost DEF PoolSum, PoolSent
<1>6. PoolShown \in Nat /\ PoolSent \in Nat
  BY <1>1, UnitsFinite DEF PoolSum, PoolShown, PoolSent
<1>7. ASSUME \A p \in Publishers : proc[p] = "done" PROVE PoolSent = Messages
  <2>1. \A p \in Publishers : chunk[p] <= SentOf[p]
    BY <1>1, <1>2, <1>7
  <2>2. PoolSum(chunk) <= PoolSent
    BY <1>1, <1>3, <2>1, UnitsAtMost DEF PoolSum, PoolSent
  <2>3. QED  BY <1>1, <1>5, <1>6, <2>2
<1>8. QED  BY <1>1, <1>3, <1>4, <1>5, <1>6, <1>7 DEF PoolBehind

LEMMA PoolStaysBehindNext == PoolInv' => PoolBehind'
BY PoolStaysBehind, PTL

(* Every step of the pool is one of Publisher.                             *)
LEMMA PoolPublishes ==
  ASSUME PoolInv, way = "pool", way' = way, Pool!Next
  PROVE  PoolInv' /\ PublisherStep
<1>1. /\ Given = PoolSent /\ Given' = PoolSent'
      /\ Progress = PoolShown /\ Progress' = PoolShown'
  <2>1. Pool!SentTotal = PoolSent /\ Pool!Sum(progress) = PoolShown
    BY PoolSums DEF Pool!SentTotal, PoolSent, SentOf, PoolShown
  <2>2. Pool!SentTotal' = PoolSent' /\ Pool!Sum(progress)' = PoolShown'
    BY PoolSums DEF Pool!SentTotal, PoolSent, SentOf, PoolShown
  <2>3. QED  BY <2>1, <2>2 DEF Given, Progress
<1>2. /\ PoolBehind /\ (PoolInv' => PoolBehind') /\ Messages \in Nat
      /\ IsFiniteSet(Publishers)
  BY PoolStaysBehind, PoolStaysBehindNext, PoolNumbers
<1>3. ASSUME SentSame PROVE PoolSent' = PoolSent
  <2>1. SentOf' = SentOf
    BY <1>3 DEF SentSame, SentOf, Pool!SentBy
  <2>2. QED  BY <2>1 DEF PoolSent
<1>4. ASSUME ShownMore, PoolBehind' PROVE PoolShown <= PoolShown'
  <2> DEFINE g == progress'
  <2>1. /\ progress \in [Publishers -> 0..Messages] /\ g \in [Publishers -> 0..Messages]
        /\ \A p \in Publishers : progress[p] <= g[p]
    BY <1>2, <1>4 DEF ShownMore, PoolBehind
  <2> HIDE DEF g
  <2>2. PoolSum(progress) <= PoolSum(g)
    BY <1>2, <2>1, UnitsAtMost DEF PoolSum
  <2>3. QED  BY <2>2 DEF PoolShown, g
<1>5. ASSUME NEW p \in Publishers, SentMore(p), PoolBehind' PROVE PoolSent' = PoolSent + 1
  <2> DEFINE f == SentOf
             g == SentOf'
  <2>1. g[p] = f[p] + 1 /\ \A q \in Publishers : q # p => g[q] = f[q]
    BY <1>5 DEF SentMore, SentOf, Pool!SentBy
  <2>2. f \in [Publishers -> 0..Messages] /\ g \in [Publishers -> 0..Messages]
    BY <1>2, <1>5 DEF PoolBehind
  <2>3. PoolSum(f) \in Nat
    BY <1>2, UnitsFinite DEF PoolSum
  <2> HIDE DEF f, g
  <2>4. PoolSum(g) = PoolSum(f) - f[p] + g[p]
    BY <1>2, <2>1, <2>2, UnitsOneChanges DEF PoolSum
  <2>5. f[p] \in Nat
    BY <2>2
  <2>6. PoolSum(g) = PoolSum(f) + 1
    BY <2>1, <2>3, <2>4, <2>5
  <2>7. QED  BY <2>6 DEF PoolSent, f, g
<1>6. ASSUME PoolInv', result' = result, SentSame, ShownMore PROVE PublisherStep
  BY <1>1, <1>2, <1>3, <1>4, <1>6 DEF PublisherStep, PoolBehind
<1>7. ASSUME PoolInv, progress' = progress PROVE ShownMore
  <2>1. \A q \in Publishers : progress[q] \in Nat
    BY <1>2 DEF PoolBehind
  <2>2. QED  BY <1>7, <2>1 DEF ShownMore
<1>8. ASSUME NEW p \in Publishers, Pool!SendOne(p) PROVE PoolInv' /\ PublisherStep
  <2>1. /\ PoolInv' /\ result = "none" /\ result' = result
        /\ SentMore(p) /\ progress' = progress
    BY <1>8, PoolSendOne
  <2>2. PoolSent' = PoolSent + 1 /\ PoolShown' = PoolShown
    BY <1>2, <1>5, <2>1 DEF PoolShown
  <2>3. PoolSent < Messages
    BY <1>2, <2>1, <2>2 DEF PoolBehind
  <2>4. QED  BY <1>1, <2>1, <2>2, <2>3 DEF PublisherStep
<1>9. ASSUME NEW p \in Publishers,
             \/ Pool!PrintEnqueued(p) \/ Pool!PrintBurst(p)
             \/ Pool!Exit(p) \/ Pool!Fail(p) \/ Pool!Terminate(p) \/ Pool!Launch(p)
             \/ Pool!ReadEnqueued(p) \/ Pool!ReadBurst(p)
      PROVE  PoolInv' /\ PublisherStep
  <2>1. PoolInv' /\ result' = result /\ SentSame /\ (ShownMore \/ progress' = progress)
    BY <1>9, PoolPrintEnqueued, PoolPrintBurst, PoolProcess, PoolRead
  <2>2. QED  BY <1>6, <1>7, <2>1
<1>10. CASE ParentStep
  <2>1. /\ PoolInv' /\ SentSame /\ progress' = progress
        /\ result' = result \/ (result = "none" /\ result' \in {"ok", "raised"})
        /\ result' = "ok" /\ result = "none" => \A p \in Publishers : proc[p] = "done"
    BY <1>10, PoolParentSteps
  <2>2. CASE result' = result
    BY <1>6, <1>7, <2>1, <2>2
  <2>3. CASE result' # result
    <3>1. PoolSent' = PoolSent /\ PoolShown' = PoolShown
      BY <1>3, <2>1 DEF PoolShown
    <3>2. result' = "ok" => PoolSent = Messages
      BY <1>2, <2>1, <2>3 DEF PoolBehind
    <3>3. QED  BY <1>1, <2>1, <2>3, <3>1, <3>2 DEF PublisherStep
  <2>4. QED  BY <2>2, <2>3
<1>11. QED  BY <1>8, <1>9, <1>10 DEF Pool!Next, ParentStep

-----------------------------------------------------------------------------
(***************************************************************************)
(* _publish, whichever way is taken.                                       *)
(***************************************************************************)

(* One of the three ways is taken, and its invariant holds.                *)
PublishInv == /\ way \in {"async", "threaded", "pool"}
              /\ way = "async" => AsyncInv
              /\ way = "threaded" => ThreadedInv
              /\ way = "pool" => PoolInv

LEMMA PublishStarts == Init => PublishInv
<1> SUFFICES ASSUME Init PROVE PublishInv
  OBVIOUS
<1>1. CASE way = "async" /\ Async!Init
  BY <1>1, AsyncStarts DEF PublishInv
<1>2. CASE way = "threaded" /\ Threaded!Init
  BY <1>2, ThreadedStarts DEF PublishInv
<1>3. CASE way = "pool" /\ Pool!Init
  BY <1>3, PoolStarts DEF PublishInv
<1>4. QED  BY <1>1, <1>2, <1>3 DEF Init

LEMMA PublishSteps ==
  ASSUME PublishInv, [Next]_vars
  PROVE  PublishInv' /\ (FewCancelled => PublisherStep)
<1>1. CASE UNCHANGED vars
  <2>1. /\ UNCHANGED <<way, result, remaining, done, sent, nextMessage, co, lost>>
        /\ UNCHANGED <<thread, left, batch, lock, loaded, errors, printed>>
        /\ UNCHANGED <<pc, failing, chunk, proc, over, inBurst, pipe, completed, current,
                       progress, shown>>
    BY <1>1 DEF vars, loops, async, threaded, pool
  <2>2. way = "async" => AsyncInv'
    BY <2>1, AsyncStays DEF PublishInv
  <2>3. way = "threaded" => ThreadedInv'
    <3> SUFFICES ASSUME way = "threaded" PROVE ThreadedInv'
      OBVIOUS
    <3>1. ThreadedInv /\ result \in {"none", "ok", "raised"}
      BY DEF PublishInv, ThreadedInv, ThreadedTypes
    <3>2. QED  BY <2>1, <3>1, ThreadedKeeps
  <2>4. way = "pool" => PoolInv'
    BY <2>1, PoolStays DEF PublishInv
  <2>5. UNCHANGED <<Given, Progress, result>>
    BY <2>1 DEF Given, Progress, Async!SentBefore, Threaded!SentBefore, Pool!SentTotal, Pool!Sum,
       Pool!SentBy
  <2>6. QED  BY <2>1, <2>2, <2>3, <2>4, <2>5 DEF PublishInv, PublisherStep
<1>2. CASE ByAsync(Async!Next)
  <2>1. way = "async" /\ way' = way /\ Async!Next /\ AsyncInv
    BY <1>2 DEF ByAsync, PublishInv
  <2>2. AsyncInv' /\ (FewCancelled => PublisherStep)
    BY <2>1, AsyncPublishes
  <2>3. QED  BY <2>1, <2>2 DEF PublishInv
<1>3. CASE ByThreaded(Threaded!Next)
  <2>1. way = "threaded" /\ way' = way /\ Threaded!Next /\ ThreadedInv
    BY <1>3 DEF ByThreaded, PublishInv
  <2>2. ThreadedInv' /\ PublisherStep
    BY <2>1, ThreadedPublishes
  <2>3. QED  BY <2>1, <2>2 DEF PublishInv
<1>4. CASE ByPool(Pool!Next)
  <2>1. way = "pool" /\ way' = way /\ Pool!Next /\ PoolInv
    BY <1>4 DEF ByPool, PublishInv
  <2>2. PoolInv' /\ PublisherStep
    BY <2>1, PoolPublishes
  <2>3. QED  BY <2>1, <2>2 DEF PublishInv
<1>5. QED  BY <1>1, <1>2, <1>3, <1>4 DEF Next

(* Whichever way is taken: a send that goes wrong loses its own message    *)
(* and no other, no batch is lost or counted twice, and the progress of a  *)
(* pool is complete when all lines are read (publish_async,                *)
(* publish_threaded, _publish).                                            *)
THEOREM PublishingCorrect == Spec => []Inv
<1>1. PublishInv => Inv
  BY AsyncImpliesInv, ThreadedImpliesInv, PoolImpliesInv DEF PublishInv, Inv
<1>2. PublishInv /\ [Next]_vars => PublishInv'
  BY PublishSteps
<1>3. QED  BY PublishStarts, <1>1, <1>2, PTL DEF Spec

(* No message is sent twice, the progress shown never goes back nor ahead  *)
(* of the sends, and _publish succeeds only when all are sent, as long as  *)
(* asyncio cannot cancel every coroutine of a burst.                       *)
THEOREM PublishingImplements ==
  ASSUME MaxCancelled < Cardinality(Coroutines)
  PROVE  Spec => ImplementsPublisher
<1>1. FewCancelled
  BY DEF FewCancelled
<1>2. Init => Abstract!Init
  <2> SUFFICES ASSUME Init PROVE Given = 0 /\ Progress = 0 /\ result = "none"
    BY DEF Abstract!Init, Given, Progress
  <2>0. Messages \in Nat
    BY PublishingAssumption
  <2>1. CASE way = "async" /\ Async!Init
    BY <2>0, <2>1 DEF Given, Progress, Async!Init, Async!SentBefore
  <2>2. CASE way = "threaded" /\ Threaded!Init
    BY <2>0, <2>2 DEF Given, Progress, Threaded!Init, Threaded!SentBefore
  <2>3. CASE way = "pool" /\ Pool!Init
    <3>1. /\ \A p \in Publishers : over[p] = 0 /\ inBurst[p] = 0 /\ progress[p] = 0
          /\ result = "none"
      BY <2>3 DEF Pool!Init, Pool!Zero
    <3>2. \A p \in Publishers : SentOf[p] = 0
      BY <3>1 DEF SentOf, Pool!SentBy
    <3>3. PoolSum(SentOf) = 0 /\ PoolSum(progress) = 0
      BY <2>0, <3>1, <3>2, UnitsOfNothing DEF PoolSum
    <3>4. QED  BY <2>3, <3>1, <3>3, PoolSums DEF Given, Progress, Pool!SentTotal, SentOf
  <2>4. QED  BY <2>1, <2>2, <2>3 DEF Init
<1>3. PublishInv /\ [Next]_vars => PublishInv' /\ [Abstract!Next]_(Abstract!vars)
  BY <1>1, PublishSteps, PublisherSteps
<1>4. QED  BY PublishStarts, <1>2, <1>3, PTL DEF Spec, ImplementsPublisher, Abstract!Spec
=============================================================================
