---------------------------- MODULE SharedCounter ---------------------------
(***************************************************************************)
(* The completion counter shared by the worker processes and the runner.   *)
(* There are two of them.  "mmap" is a file of eight bytes: a worker takes *)
(* flock(LOCK_EX), reads, adds one and writes, and the runner reads its    *)
(* own mapping without the lock.  "value" is multiprocessing.Value: worker *)
(* and runner both take its lock.  The kernel drops the flock of a process *)
(* that dies; nobody drops the semaphore behind a Value.                   *)
(***************************************************************************)
EXTENDS Naturals, FiniteSets

CONSTANTS
  Workers,        \* the worker processes
  Runner,         \* the runner process, which polls the counter
  NoOne,          \* the holder of a free lock
  CounterKinds,   \* the values of COUNTER_KIND among the adapters
  TasksPerWorker, \* bound: tasks a worker finishes in one behaviour
  MaxCrashes      \* bound: worker processes that die in one behaviour

ASSUME CounterAssumption ==
  /\ Runner \notin Workers
  /\ NoOne \notin Workers \cup {Runner}
  /\ CounterKinds \subseteq {"mmap", "value"}
  /\ TasksPerWorker \in Nat
  /\ MaxCrashes \in Nat

VARIABLES
  kind,     \* COUNTER_KIND of the adapter under test
  value,    \* the eight bytes of the counter
  holder,   \* who holds the flock, or the lock of the Value
  at,       \* where each worker is in the increment
  copy,     \* the value each worker read under the lock
  wrote,    \* history: increments stored by each worker
  poll,     \* where the runner is in one read of the counter
  seen      \* the last value the runner read

counterVars == <<kind, value, holder, at, copy, wrote, poll, seen>>

CounterInit ==
  /\ kind \in CounterKinds
  /\ value = 0
  /\ holder = NoOne
  /\ at = [w \in Workers |-> "task"]
  /\ copy = [w \in Workers |-> 0]
  /\ wrote = [w \in Workers |-> 0]
  /\ poll = "idle"
  /\ seen = 0

Move(w, from, to) == /\ at[w] = from
                     /\ at' = [at EXCEPT ![w] = to]

(***************************************************************************)
(* Slips: each stands for one bug somebody could write into the operation  *)
(* it is named after.  No action uses them; they are put in the place of   *)
(* that operation to see that a property notices.                          *)
(***************************************************************************)
AcquireWithoutWaiting(w) == /\ holder' = w
                            /\ Move(w, "wait", "locked")
                            /\ UNCHANGED <<kind, value, copy, wrote, poll, seen>>

StoreMinusOne(w) == /\ value' = copy[w] - 1
                    /\ wrote' = [wrote EXCEPT ![w] = @ + 1]
                    /\ Move(w, "loaded", "stored")
                    /\ UNCHANGED <<kind, holder, copy, poll, seen>>

CrashKeepsLock(w) == /\ at[w] # "dead"
                     /\ Cardinality({x \in Workers : at[x] = "dead"}) < MaxCrashes
                     /\ at' = [at EXCEPT ![w] = "dead"]
                     /\ UNCHANGED <<kind, value, holder, copy, wrote, poll, seen>>

ReadMmapOnlyIfNew == /\ kind = "mmap"
                     /\ poll = "reading"
                     /\ value > seen
                     /\ seen' = value
                     /\ poll' = "idle"
                     /\ UNCHANGED <<kind, value, holder, at, copy, wrote>>

(***************************************************************************)
(* The worker: the task body ends, then the counter is incremented.        *)
(***************************************************************************)
FinishTask(w) == /\ wrote[w] < TasksPerWorker
                 /\ Move(w, "task", "wait")
                 /\ UNCHANGED <<kind, value, holder, copy, wrote, poll, seen>>

Acquire(w) == /\ holder = NoOne
              /\ holder' = w
              /\ Move(w, "wait", "locked")
              /\ UNCHANGED <<kind, value, copy, wrote, poll, seen>>

Load(w) == /\ copy' = [copy EXCEPT ![w] = value]
           /\ Move(w, "locked", "loaded")
           /\ UNCHANGED <<kind, value, holder, wrote, poll, seen>>

Store(w) == /\ value' = copy[w] + 1
            /\ wrote' = [wrote EXCEPT ![w] = @ + 1]
            /\ Move(w, "loaded", "stored")
            /\ UNCHANGED <<kind, holder, copy, poll, seen>>

Release(w) == /\ holder' = NoOne
              /\ Move(w, "stored", "task")
              /\ UNCHANGED <<kind, value, copy, wrote, poll, seen>>

(***************************************************************************)
(* A worker process dies between any two of these steps.                   *)
(***************************************************************************)
Dead == {w \in Workers : at[w] = "dead"}

Crash(w) ==
  /\ w \notin Dead
  /\ Cardinality(Dead) < MaxCrashes
  /\ at' = [at EXCEPT ![w] = "dead"]
  /\ holder' = IF holder = w /\ kind = "mmap" THEN NoOne ELSE holder
  /\ UNCHANGED <<kind, value, copy, wrote, poll, seen>>

(***************************************************************************)
(* The runner: one read of the counter, then it sleeps and reads again.    *)
(***************************************************************************)
StartPoll == /\ poll = "idle"
             /\ poll' = "reading"
             /\ UNCHANGED <<kind, value, holder, at, copy, wrote, seen>>

ReadMmap == /\ kind = "mmap"
            /\ poll = "reading"
            /\ seen' = value
            /\ poll' = "idle"
            /\ UNCHANGED <<kind, value, holder, at, copy, wrote>>

LockValue == /\ kind = "value"
             /\ poll = "reading"
             /\ holder = NoOne
             /\ holder' = Runner
             /\ poll' = "locked"
             /\ UNCHANGED <<kind, value, at, copy, wrote, seen>>

ReadValue == /\ poll = "locked"
             /\ seen' = value
             /\ holder' = NoOne
             /\ poll' = "idle"
             /\ UNCHANGED <<kind, value, at, copy, wrote>>

Increment(w) == \/ FinishTask(w)
                \/ Acquire(w)
                \/ Load(w)
                \/ Store(w)
                \/ Release(w)

Poll == StartPoll \/ ReadMmap \/ LockValue \/ ReadValue

CounterNext ==
  \/ \E w \in Workers : Increment(w) \/ Crash(w)
  \/ Poll

CounterSpec == CounterInit /\ [][CounterNext]_counterVars

(***************************************************************************)
(* A process that runs goes on running.  The kernel wakes a waiter of a    *)
(* lock, and the runner sleeps 0.05 s between two polls, so whoever waits  *)
(* for a lock that keeps becoming free gets it: strong fairness.           *)
(***************************************************************************)
CounterFairness ==
  /\ \A w \in Workers :
       /\ WF_counterVars(FinishTask(w) \/ Load(w) \/ Store(w) \/ Release(w))
       /\ SF_counterVars(Acquire(w))
  /\ WF_counterVars(StartPoll \/ ReadMmap \/ ReadValue)
  /\ SF_counterVars(LockValue)

FairCounterSpec == CounterSpec /\ CounterFairness
-----------------------------------------------------------------------------
TypeOK ==
  /\ kind \in CounterKinds
  /\ value \in Nat
  /\ holder \in Workers \cup {Runner, NoOne}
  /\ at \in [Workers -> {"task", "wait", "locked", "loaded", "stored", "dead"}]
  /\ copy \in [Workers -> Nat]
  /\ wrote \in [Workers -> Nat]
  /\ poll \in {"idle", "reading", "locked"}
  /\ seen \in Nat

(* A process between its acquire and its release holds the lock, hence is  *)
(* the only one there, and the value it read is still the value: what the  *)
(* read-modify-write of counter_incr_mmap and of _counter.value += 1 needs.*)
HolderOwnsValue ==
  /\ \A w \in Workers : /\ at[w] \in {"locked", "loaded", "stored"} => holder = w
                        /\ at[w] = "loaded" => copy[w] = value
  /\ poll = "locked" => holder = Runner

(* No increment is lost or counted twice, whatever the interleaving and    *)
(* wherever a worker dies, and a poll returns the counter as it is at one  *)
(* moment, although the mmap reader takes no lock.                         *)
Events == INSTANCE EventCounter
ImplementsEventCounter == Events!Spec

(* The inductive invariant of the proofs.                                  *)
SeenBounded == seen <= value
CounterInv == TypeOK /\ HolderOwnsValue /\ SeenBounded

(* Two polls of the runner never see the counter go back: a milestone is   *)
(* never un-reached.  It follows from the two above.                       *)
PollsNeverGoBack == [][seen' >= seen]_counterVars

(* Nobody gives back the lock of a Value whose holder died.                *)
LockLost == kind = "value" /\ holder \in Dead

(* report_value and report_mmap test the time limit between two reads, so  *)
(* a read that never returns makes the time limit void.  That happens only *)
(* when a worker died inside `with _counter.get_lock()`; a worker that     *)
(* dies inside the flock of the mmap counter never stops the runner.       *)
PollReturns == poll = "reading" ~> (poll = "idle" \/ LockLost)

(* A worker that dies inside the increment does not stop the others from   *)
(* counting what they finish, unless it took the lock of a Value with it.  *)
EverySurvivorCounts ==
  <>[](LockLost \/ \A w \in Workers : w \in Dead \/ wrote[w] = TasksPerWorker)
=============================================================================
