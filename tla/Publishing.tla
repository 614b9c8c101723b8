---------------------------- MODULE Publishing ------------------------------
(***************************************************************************)
(* _publish of the runner.  With one publisher the adapter's own loop      *)
(* publishes: coroutines (PublishAsync) or threads (PublishThreaded).      *)
(* With more it is a pool of processes (PublisherPool).  Which one is      *)
(* settled before the first message; the other two stay in Unused.         *)
(***************************************************************************)
EXTENDS Naturals, FiniteSets

CONSTANTS
  Messages, BurstSize,       \* cfg.messages, cfg.burst_size
  Coroutines, MaxCancelled,  \* see PublishAsync
  BatchSize, Threads, NoThread,  \* see PublishThreaded
  Publishers, PipeSize       \* see PublisherPool

ASSUME PublishingAssumption ==
  /\ {Messages, BurstSize, BatchSize, PipeSize} \subseteq Nat \ {0}
  /\ MaxCancelled \in Nat
  /\ IsFiniteSet(Coroutines) /\ Coroutines # {}
  /\ IsFiniteSet(Threads) /\ Threads # {} /\ NoThread \notin Threads
  /\ IsFiniteSet(Publishers) /\ Cardinality(Publishers) \in 2..Messages

VARIABLES
  way,                       \* "async", "threaded" or "pool"
  result,                    \* of the one that publishes
  remaining, done, sent,     \* of either loop
  nextMessage, co, lost,     \* of PublishAsync
  thread, left, batch, lock, loaded, errors,     \* of PublishThreaded
  printed,                   \* of PublishThreaded or PublisherPool
  pc, failing, chunk, proc, over, inBurst, pipe, completed, current, progress, shown

loops == <<remaining, done, sent>>
async == <<nextMessage, co, lost>>
threaded == <<thread, left, batch, lock, loaded, errors>>
pool == <<pc, failing, chunk, proc, over, inBurst, pipe, completed, current, progress, shown>>
vars == <<way, result, loops, async, threaded, printed, pool>>

(* _per_publisher rounds up.                                               *)
PerPublisher(value, processes) == (value + processes - 1) \div processes

Async == INSTANCE PublishAsync
Threaded == INSTANCE PublishThreaded
Pool == INSTANCE PublisherPool
          WITH BurstSize <- PerPublisher(BurstSize, Cardinality(Publishers))

Unused == "unused"
UnusedLoops == remaining = Messages /\ done = 0 /\ sent = 0
UnusedAsync == nextMessage = 0 /\ co = Unused /\ lost = 0
UnusedThreaded == /\ thread = Unused /\ left = Unused /\ batch = Unused
                  /\ lock = NoThread /\ loaded = 0 /\ errors = 0
UnusedPool == /\ pc = Unused /\ failing = FALSE /\ chunk = Unused /\ proc = Unused
              /\ over = Unused /\ inBurst = Unused /\ pipe = Unused
              /\ completed = Unused /\ current = Unused /\ progress = Unused /\ shown = 0

Init == \/ /\ way = "async" /\ Async!Init
           /\ UnusedThreaded /\ printed = 0 /\ UnusedPool
        \/ /\ way = "threaded" /\ Threaded!Init
           /\ UnusedAsync /\ UnusedPool
        \/ /\ way = "pool" /\ Pool!Init
           /\ UnusedLoops /\ UnusedAsync /\ UnusedThreaded
-----------------------------------------------------------------------------
(* A step of the way that was taken.                                       *)
ByAsync(step) == /\ way = "async" /\ step
                 /\ UNCHANGED <<way, threaded, printed, pool>>
ByThreaded(step) == /\ way = "threaded" /\ step
                    /\ UNCHANGED <<way, async, pool>>
ByPool(step) == /\ way = "pool" /\ step
                /\ UNCHANGED <<way, loops, async, threaded>>

Next == ByAsync(Async!Next) \/ ByThreaded(Threaded!Next) \/ ByPool(Pool!Next)

Spec == Init /\ [][Next]_vars

(***************************************************************************)
(* An event loop resumes whoever can go on; threads and processes that can *)
(* go on go on; every send comes back; a thread that waits for a lock that *)
(* keeps becoming free gets it.  A publisher process that does not fail    *)
(* sends, prints and exits.                                                *)
(***************************************************************************)
Fairness ==
  /\ \A c \in Coroutines :
       /\ WF_vars(ByAsync(Async!Resume(c)))
       /\ WF_vars(ByAsync(Async!SendReturns(c) \/ Async!SendFails(c)))
  /\ WF_vars(ByAsync(Async!NextBurst \/ Async!Succeed \/ Async!Raise))
  /\ \A t \in Threads :
       /\ WF_vars(ByThreaded(Threaded!SendOne(t) \/ Threaded!SendFails(t)))
       /\ WF_vars(ByThreaded(Threaded!Add(t))) /\ WF_vars(ByThreaded(Threaded!End(t)))
       /\ SF_vars(ByThreaded(Threaded!Lock(t))) /\ SF_vars(ByThreaded(Threaded!NoteError(t)))
  /\ WF_vars(ByThreaded(Threaded!NextBurst \/ Threaded!Succeed \/ Threaded!Raise))
  /\ \A p \in Publishers :
       /\ WF_vars(ByPool(Pool!SendOne(p))) /\ WF_vars(ByPool(Pool!PrintEnqueued(p)))
       /\ WF_vars(ByPool(Pool!PrintBurst(p))) /\ WF_vars(ByPool(Pool!Exit(p)))
       /\ WF_vars(ByPool(Pool!ReadEnqueued(p) \/ Pool!ReadBurst(p)))
       /\ WF_vars(ByPool(Pool!Terminate(p)))
  /\ WF_vars(ByPool((\E p \in Publishers : Pool!Launch(p)) \/ Pool!LaunchFails))
  /\ WF_vars(ByPool(Pool!AllExited \/ Pool!Joined \/ Pool!CleanedUp))

FairSpec == Spec /\ Fairness
-----------------------------------------------------------------------------
(* Whichever way is taken, _publish keeps the promise of Publisher: no     *)
(* message is sent twice, the progress shown never goes back nor ahead of  *)
(* the sends, and success means that all were sent, except for those of    *)
(* sends that asyncio cancelled.                                           *)
Abstract ==
  INSTANCE Publisher WITH
    sent <- CASE way = "async" -> sent + lost
              [] way = "threaded" -> sent
              [] way = "pool" -> Pool!SentTotal,
    progress <- CASE way = "async" -> Async!SentBefore + done
                  [] way = "threaded" -> Threaded!SentBefore + printed
                  [] way = "pool" -> Pool!Sum(progress)
ImplementsPublisher == Abstract!Spec

(* With coroutines a send that goes wrong loses its own message and no     *)
(* other, as long as one coroutine is left to take over; with threads no   *)
(* batch is lost, or added to the progress twice; with a pool the progress *)
(* is complete when all lines of a publisher that ended well are read, no  *)
(* message is lost by the split, and no publisher is left when it ends.    *)
Inv == /\ way = "async" => Async!Inv
       /\ way = "threaded" => Threaded!Inv
       /\ way = "pool" => Pool!Inv

(* _publish returns or raises if the broker answers every send and no      *)
(* publisher hangs, although nothing limits its waiting.                   *)
PublishEnds == <>(result # "none")
=============================================================================
