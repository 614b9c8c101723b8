----------------------------- MODULE LatencyRun -----------------------------
(***************************************************************************)
(* One controlled-arrival latency run.  The runner starts the workers,     *)
(* waits for consumers, publishes a warmup whose messages ask for no       *)
(* sample, then the measured messages, each with its time.  It waits until *)
(* the latency file has all the samples or the time is over; then it       *)
(* purges the queue, reports, reads the samples, and stops the workers.    *)
(* The file is that of LatencyFile, the queue that of WorkQueue; a worker  *)
(* records its sample before it counts and acknowledges the task.          *)
(***************************************************************************)
EXTENDS LatencyFile

CONSTANTS
  Warmup,          \* the warmup messages
  Measured,        \* the measured messages
  Prefetch,        \* unacknowledged messages RabbitMQ gives one worker at most
  MaxCrashes,      \* bound: worker processes that die by themselves
  ConsumerTarget,  \* _consumer_target
  KeepQueue,       \* cfg.keep_queue
  CounterKind      \* COUNTER_KIND of the adapter: "mmap" or "value"

ASSUME LatencyRunAssumption ==
  /\ IsFiniteSet(Warmup) /\ IsFiniteSet(Measured)
  /\ Warmup \cap Measured = {}
  /\ IsFiniteSet(Workers)
  /\ Capacity = Cardinality(Measured)
  /\ Prefetch \in Nat \ {0}
  /\ MaxCrashes \in Nat
  /\ ConsumerTarget \in Nat
  /\ KeepQueue \in BOOLEAN
  /\ CounterKind \in {"mmap", "value"}

VARIABLES
  loc, by, alive, crashed, stopped, counter, executed, lockLost,  \* see WorkQueue
  phase,    \* where the runner is in _run_latency_controlled and run()
  raised,   \* the runner raised
  taken,    \* the messages each worker has begun to record, in order
  inHand    \* history: the messages a worker may still get or have; those
            \* it had when the purge at the deadline succeeded

Messages == Warmup \cup Measured

Queue == INSTANCE WorkQueue

work == <<loc, by, alive, crashed, stopped, counter, executed, lockLost>>
control == <<phase, raised, inHand>>
latencyVars == <<vars, work, control, taken>>

LatencyInit == /\ Init
               /\ Queue!InitWork
               /\ phase = "start" /\ raised = FALSE /\ inHand = Messages
               /\ taken = [w \in Workers |-> <<>>]

RunnerAt(from, to) == phase = from /\ phase' = to

Raise(from, to) == RunnerAt(from, to) /\ raised' = TRUE /\ UNCHANGED <<vars, taken, inHand>>

(***************************************************************************)
(* Slips: each stands for one bug somebody could write into the operation  *)
(* it is named after.  No action uses them; they are put in the place of   *)
(* that operation to see that a property notices.                          *)
(***************************************************************************)
TaskEndsAlwaysSampling(w, m) == /\ loc[m] = "delivered" /\ by[m] = w
                                /\ m \notin {taken[w][i] : i \in 1..Len(taken[w])}
                                /\ FinishTask(w)
                                /\ taken' = [taken EXCEPT ![w] = Append(@, m)]
                                /\ UNCHANGED <<work, control>>

PurgeForgotten == /\ RunnerAt("purge", "read")
                  /\ inHand' = {m \in Messages : Queue!Unacked(m)}
                  /\ UNCHANGED <<work, vars, taken, raised>>

TimeOverIfSampled == /\ count > 0
                     /\ RunnerAt("read", "purge")
                     /\ Deadline
                     /\ UNCHANGED <<work, taken, raised, inHand>>
-----------------------------------------------------------------------------
(***************************************************************************)
(* Up to the end of the measured traffic.  A start that raises leaves the  *)
(* workers that run in no variable of the runner.                          *)
(***************************************************************************)
StartWorkers == /\ RunnerAt("start", "consumers")
                /\ Queue!Start(Workers)
                /\ UNCHANGED <<vars, taken, raised, inHand>>

StartFails == /\ Raise("start", "cleanup")
              /\ \E started \in SUBSET Workers \ {Workers} : Queue!Start(started)

ConsumersReady == /\ Cardinality(alive) >= ConsumerTarget
                  /\ RunnerAt("consumers", "warmup")
                  /\ UNCHANGED <<work, vars, taken, raised, inHand>>

ConsumersTimeout == Raise("consumers", "stopping") /\ UNCHANGED work

(* publish_async_at_rate and publish_sync_at_rate: one after the other.    *)
(* The messages of a phase are alike, any order will do.                   *)
ToPublish == {m \in IF phase = "warmup" THEN Warmup ELSE Measured : loc[m] = "unsent"}

Publishing == phase \in {"warmup", "measure"}

PublishOne == /\ Publishing /\ ToPublish # {}
              /\ Queue!Send({CHOOSE m \in ToPublish : TRUE})
              /\ UNCHANGED <<vars, control, taken>>

PublishFails == Publishing /\ Raise(phase, "stopping") /\ UNCHANGED work

WarmupPublished == /\ ToPublish = {}
                   /\ RunnerAt("warmup", "measure")
                   /\ UNCHANGED <<work, vars, taken, raised, inHand>>

MeasuredPublished == /\ ToPublish = {}
                     /\ RunnerAt("measure", "read")
                     /\ MeasurementEnds
                     /\ UNCHANGED <<work, taken, raised, inHand>>

(***************************************************************************)
(* The drain and the report.                                               *)
(***************************************************************************)
Read == /\ phase = "read"
        /\ Drained \/ ReportSamples \/ ReadCount \/ ReadSlot
        /\ UNCHANGED <<work, control, taken>>

TimeOver == /\ RunnerAt("read", "purge")
            /\ Deadline
            /\ UNCHANGED <<work, taken, raised, inHand>>

(* Best effort: a purge that fails is a warning.                           *)
Purge == /\ RunnerAt("purge", "read")
         /\ \/ Queue!PurgeQueue /\ inHand' = {m \in Messages : Queue!Unacked(m)}
            \/ UNCHANGED <<work, inHand>>
         /\ UNCHANGED <<vars, taken, raised>>

PrintReport == /\ RunnerAt("read", "stopping")
               /\ PrintLatencies
               /\ UNCHANGED <<work, taken, raised, inHand>>

StopWorker(w) == /\ phase = "stopping"
                 /\ Queue!Stop(w) /\ Crash(w)
                 /\ UNCHANGED <<control, taken>>

WorkersStopped == /\ alive = {}
                  /\ RunnerAt("stopping", "cleanup")
                  /\ UNCHANGED <<work, vars, taken, raised, inHand>>

Cleanup == /\ RunnerAt("cleanup", "exit")
           /\ Queue!CleanQueue(KeepQueue)
           /\ UNCHANGED <<vars, taken, raised, inHand>>

Control == \/ StartWorkers \/ StartFails \/ ConsumersReady \/ ConsumersTimeout
           \/ PublishOne \/ PublishFails \/ WarmupPublished \/ MeasuredPublished
           \/ Read \/ TimeOver \/ Purge \/ PrintReport
           \/ WorkersStopped \/ Cleanup
-----------------------------------------------------------------------------
(***************************************************************************)
(* The workers: a task that carries a time takes a sample when its work is *)
(* done, and is counted and acknowledged when the sample is recorded.      *)
(***************************************************************************)
Taken(w) == {taken[w][i] : i \in 1..Len(taken[w])}

TaskEnds(w, m) == /\ m \in Measured \ Taken(w)
                  /\ loc[m] = "delivered" /\ by[m] = w
                  /\ w \in alive
                  /\ FinishTask(w)
                  /\ taken' = [taken EXCEPT ![w] = Append(@, m)]
                  /\ UNCHANGED <<work, control>>

RecordStep(w) == LoadCount(w) \/ WriteSlot(w) \/ WriteCount(w)

Recorded(w, m) == /\ m \in Taken(w)
                  /\ pc[w] = "task" \/ m # taken[w][Len(taken[w])]

TaskCounted(w, m) == /\ m \in Warmup \/ Recorded(w, m)
                     /\ Queue!RunTask(w, m)
                     /\ UNCHANGED <<vars, control, taken>>

Lock(w) == Acquire(w) /\ UNCHANGED <<work, control, taken>>

Release(w) == Unlock(w) /\ UNCHANGED <<work, control, taken>>

RecordingGoesOn(w) == RecordStep(w) /\ UNCHANGED <<work, control, taken>>

WorkerDies(w) == /\ phase \in {"consumers", "warmup", "measure", "read", "purge"}
                 /\ \/ Queue!Crash(w)
                    \/ \E m \in Messages : /\ m \in Warmup \/ Recorded(w, m)
                                           /\ Queue!CrashInLock(w, m)
                 /\ Crash(w)
                 /\ UNCHANGED <<control, taken>>

Broker == /\ Queue!Delivery \/ Queue!Acknowledgement \/ Queue!Redelivery
          /\ UNCHANGED <<vars, control, taken>>

Worker(w) == \/ \E m \in Messages : TaskEnds(w, m) \/ TaskCounted(w, m)
             \/ Lock(w) \/ RecordingGoesOn(w) \/ Release(w)
             \/ StopWorker(w) \/ WorkerDies(w)

LatencyNext == Control \/ Broker \/ \E w \in Workers : Worker(w)

LatencySpec == LatencyInit /\ [][LatencyNext]_latencyVars

(* The runner and its publishers go on; workers and broker owe nothing.    *)
Fairness == WF_latencyVars(Control) /\ WF_latencyVars(\E w \in Workers : StopWorker(w))

FairLatencySpec == LatencySpec /\ Fairness
-----------------------------------------------------------------------------
LatencyTypeOK ==
  /\ TypeOK
  /\ Queue!WorkTypeOK
  /\ phase \in {"start", "consumers", "warmup", "measure", "read", "purge", "stopping",
                "cleanup", "exit"}
  /\ raised \in BOOLEAN
  /\ inHand \subseteq Messages
  /\ taken \in [Workers -> Seq(Messages)]

(* A sample is the pair of its worker and the number it has there.         *)
MessageOf(sample) == taken[sample[1]][sample[2]]

Reported == {MessageOf(latencies[i]) : i \in 1..Len(latencies)}

(* The percentiles of an ok run stand for all its measured messages, but   *)
(* for those that make room for a second sample of a message that was      *)
(* redelivered: no more than the workers that died had unacknowledged.     *)
OkRunSamplesAll ==
  runner = "printed" /\ status = "ok" =>
    Cardinality(Measured \ Reported) <= Prefetch * Cardinality(crashed)

(* After a purge only what workers already had can still be sampled, once  *)
(* or, if its worker dies, twice: the latencies printed are not many more  *)
(* than TASKS_DONE.                                                        *)
LateSamplesAreUnacked ==
  runner \in {"slots", "printed"} =>
    n <= samples + Cardinality(inHand \cap Measured) + Prefetch * Cardinality(crashed)

(* The latencies of a run belong to its messages: none to the warmup, and  *)
(* the two bounds above.                                                   *)
LatenciesOfTheRun ==
  /\ Reported \subseteq Measured
  /\ OkRunSamplesAll
  /\ LateSamplesAreUnacked

(* The flock is free or held by a worker that lives and is about to give   *)
(* it back: a task goes on to be counted and acknowledged although other   *)
(* workers died in, or returned early from, the recording of theirs.       *)
LockHasHolder ==
  lock # NoOne => pc[lock] \in {"locked", "loaded", "written", "unlock"} /\ lock \in alive

(* The state invariant: the types, the flock, and that the latencies are   *)
(* the run's.                                                              *)
Inv == LatencyTypeOK /\ LockHasHolder /\ LatenciesOfTheRun

(* The run ends although the workers may all be dead or idle: once all is  *)
(* published the deadline bounds the drain.                                *)
LatencyRunEnds == <>(phase = "exit")
=============================================================================
