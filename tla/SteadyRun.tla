------------------------------ MODULE SteadyRun -----------------------------
(***************************************************************************)
(* One steady run: the runner starts the workers, waits for consumers,     *)
(* starts the publisher processes and then measures: it reads the clock,   *)
(* then the counter, again and again, takes the count after the warmup as  *)
(* its zero, and ends when the measurement window is over, when the        *)
(* counter reaches the number of messages, or when a publisher has failed. *)
(* Publishers, workers and runner run at the same time.                    *)
(***************************************************************************)
EXTENDS WorkQueue

CONSTANTS
  Publishers,      \* the publisher processes: cfg.publish_processes of them
  Chunk,           \* the publisher of each message (_split_messages)
  ConsumerTarget,  \* _consumer_target
  KeepQueue        \* cfg.keep_queue

ASSUME SteadyAssumption ==
  /\ Chunk \in [Messages -> Publishers]
  /\ ConsumerTarget \in Nat
  /\ KeepQueue \in BOOLEAN

VARIABLES
  pc,           \* where the runner is in _run_steady
  clock,        \* the phase of the run that the time is in
  now,          \* the phase of the last reading of the clock
  count,        \* the last count read
  warmed,       \* is warmup_count set?
  warmupCount,  \* warmup_count
  measured,     \* TASKS_DONE: the tasks measured
  status,       \* STATUS; "raised" when the runner raised instead
  pub,          \* the state of each publisher process
  atWarmupEnd,  \* history: the counter when the warmup was over
  failedBefore  \* history: publishers that had failed at the last reading of the clock

loop == <<now, count, warmed, warmupCount, failedBefore>>
report == <<measured, status>>
time == <<clock, atWarmupEnd>>
runner == <<pc, time, loop, report, pub>>
vars == <<work, runner>>

Init == /\ InitWork
        /\ pc = "start"
        /\ clock = "warmup"
        /\ now = "warmup"
        /\ count = 0
        /\ warmed = FALSE
        /\ warmupCount = 0
        /\ measured = 0
        /\ status = "none"
        /\ pub = [p \in Publishers |-> "none"]
        /\ atWarmupEnd = 0
        /\ failedBefore = {}

RunnerAt(from, to) == /\ pc = from
                      /\ pc' = to
                      /\ UNCHANGED time

Pub(p, from, to) == /\ pub[p] = from
                    /\ pub' = [pub EXCEPT ![p] = to]

In(state) == {p \in Publishers : pub[p] = state}

(***************************************************************************)
(* Slips: each stands for one bug somebody could write into the operation  *)
(* it is named after.  No action uses them; they are put in the place of   *)
(* that operation to see that a property notices.                          *)
(***************************************************************************)
ReadCountLastCount ==
  /\ ~lockLost
  /\ RunnerAt("count", "decide")
  /\ count' = counter
  /\ warmed' = (warmed \/ now # "warmup")
  /\ warmupCount' = IF ~warmed /\ now # "warmup" THEN count ELSE warmupCount
  /\ UNCHANGED <<work, now, failedBefore, report, pub>>

ExhaustedOneShort == /\ now # "over"
                     /\ count + 1 >= Total
                     /\ RunnerAt("decide", "publishers")
                     /\ status' = "exhausted"
                     /\ measured' = IF warmed THEN count - warmupCount ELSE 0
                     /\ UNCHANGED <<work, loop, pub>>

WindowOverIfProgress == /\ now = "over"
                        /\ count > warmupCount
                        /\ RunnerAt("decide", "publishers")
                        /\ status' = "ok"
                        /\ measured' = count - warmupCount
                        /\ UNCHANGED <<work, loop, pub>>

SleepThroughFailure == /\ now # "over" /\ count < Total
                       /\ In("failed") # Publishers
                       /\ RunnerAt("decide", "now")
                       /\ UNCHANGED <<work, loop, report, pub>>

PublishersLeft == /\ RunnerAt("publishers", "stopping")
                  /\ UNCHANGED <<work, loop, report, pub>>

PublishOneAgain(p) ==
  /\ pub[p] = "running"
  /\ \E m \in Messages : Chunk[m] = p /\ loc' = [loc EXCEPT ![m] = "queued"]
  /\ UNCHANGED <<by, processes, done, runner>>
-----------------------------------------------------------------------------
(***************************************************************************)
(* The start.  Whoever had been started when a start fails is not in a     *)
(* variable yet, and is left running.                                      *)
(***************************************************************************)
StartWorkers == /\ RunnerAt("start", "consumers")
                /\ Start(Workers)
                /\ UNCHANGED <<loop, report, pub>>

StartFails == /\ RunnerAt("start", "cleanup")
              /\ \E started \in SUBSET Workers : started # Workers /\ Start(started)
              /\ status' = "raised"
              /\ UNCHANGED <<loop, measured, pub>>

ConsumersReady == /\ Cardinality(alive) >= ConsumerTarget
                  /\ RunnerAt("consumers", "launch")
                  /\ UNCHANGED <<work, loop, report, pub>>

ConsumersTimeout == /\ RunnerAt("consumers", "stopping")
                    /\ status' = "raised"
                    /\ UNCHANGED <<work, loop, measured, pub>>

Launch(p) == /\ pc = "launch"
             /\ Pub(p, "none", "running")
             /\ UNCHANGED <<work, pc, time, loop, report>>

Launched == /\ In("none") = {}
            /\ RunnerAt("launch", "now")
            /\ UNCHANGED <<work, loop, report, pub>>

LaunchFails == /\ In("none") # {}
               /\ RunnerAt("launch", "stopping")
               /\ status' = "raised"
               /\ UNCHANGED <<work, loop, measured, pub>>

(***************************************************************************)
(* The loop: the clock is read before the counter, and the publishers are  *)
(* looked at last.  A read of a Value waits for its lock.                  *)
(***************************************************************************)
ReadNow == /\ RunnerAt("now", "count")
           /\ now' = clock
           /\ failedBefore' = In("failed")
           /\ UNCHANGED <<work, count, warmed, warmupCount, report, pub>>

ReadCount == /\ ~lockLost
             /\ RunnerAt("count", "decide")
             /\ count' = counter
             /\ warmed' = (warmed \/ now # "warmup")
             /\ warmupCount' = IF ~warmed /\ now # "warmup" THEN counter ELSE warmupCount
             /\ UNCHANGED <<work, now, failedBefore, report, pub>>

EndWith(result) ==
  /\ RunnerAt("decide", "publishers")
  /\ status' = result
  /\ measured' = IF warmed /\ count > warmupCount THEN count - warmupCount ELSE 0
  /\ UNCHANGED <<work, loop, pub>>

WindowOver == now = "over" /\ EndWith("ok")

Exhausted == now # "over" /\ count >= Total /\ EndWith("exhausted")

PublisherFailed == /\ now # "over" /\ count < Total /\ In("failed") # {}
                   /\ EndWith("error")

Sleep == /\ now # "over" /\ count < Total /\ In("failed") = {}
         /\ RunnerAt("decide", "now")
         /\ UNCHANGED <<work, loop, report, pub>>

(***************************************************************************)
(* The end: publishers first, then workers, then the queue.                *)
(***************************************************************************)
KillPublisher(p) == /\ pc = "publishers"
                    /\ Pub(p, "running", "killed")
                    /\ UNCHANGED <<work, pc, time, loop, report>>

PublishersStopped == /\ In("running") = {}
                     /\ RunnerAt("publishers", "stopping")
                     /\ UNCHANGED <<work, loop, report, pub>>

StopWorker(w) == /\ pc = "stopping"
                 /\ Stop(w)
                 /\ UNCHANGED runner

WorkersStopped == /\ alive = {}
                  /\ RunnerAt("stopping", "cleanup")
                  /\ UNCHANGED <<work, loop, report, pub>>

Cleanup == /\ RunnerAt("cleanup", "exit")
           /\ CleanQueue(KeepQueue)
           /\ UNCHANGED <<loop, report, pub>>

Runner == \/ StartWorkers \/ StartFails
          \/ ConsumersReady \/ ConsumersTimeout
          \/ Launched \/ LaunchFails
          \/ ReadNow \/ ReadCount
          \/ WindowOver \/ Exhausted \/ PublisherFailed \/ Sleep
          \/ PublishersStopped \/ WorkersStopped \/ Cleanup

(***************************************************************************)
(* Publishers, workers and time.                                           *)
(***************************************************************************)
PublishOne(p) == /\ pub[p] = "running"
                 /\ \E m \in Unsent : Chunk[m] = p /\ Send({m})
                 /\ UNCHANGED runner

PublisherDone(p) == /\ \A m \in Unsent : Chunk[m] # p
                    /\ Pub(p, "running", "done")
                    /\ UNCHANGED <<work, pc, time, loop, report>>

PublisherFails(p) == /\ Pub(p, "running", "failed")
                     /\ UNCHANGED <<work, pc, time, loop, report>>

Work == Consume /\ UNCHANGED runner

WorkerDies(w) == /\ pc \in {"consumers", "launch", "now", "count", "decide"}
                 /\ Dies(w)
                 /\ UNCHANGED runner

Measuring == pc \in {"launch", "now", "count", "decide"}

WarmupEnds == /\ Measuring /\ clock = "warmup"
              /\ clock' = "measure"
              /\ atWarmupEnd' = counter
              /\ UNCHANGED <<work, pc, loop, report, pub>>

WindowEnds == /\ Measuring /\ clock = "measure"
              /\ clock' = "over"
              /\ UNCHANGED <<work, pc, loop, report, pub, atWarmupEnd>>

Next == \/ Runner
        \/ \E p \in Publishers : \/ Launch(p) \/ KillPublisher(p)
                                 \/ PublishOne(p) \/ PublisherDone(p) \/ PublisherFails(p)
        \/ \E w \in Workers : StopWorker(w) \/ WorkerDies(w)
        \/ Work
        \/ WarmupEnds \/ WindowEnds

Spec == Init /\ [][Next]_vars

(* The runner runs and time passes; publishers and workers owe nothing. A  *)
(* read of the count that waits for a lock gets it (SharedCounter), unless *)
(* it is lost.                                                             *)
Fairness == /\ WF_vars(Runner)
            /\ WF_vars(\E p \in Publishers : Launch(p) \/ KillPublisher(p))
            /\ WF_vars(\E w \in Workers : StopWorker(w))
            /\ WF_vars(WarmupEnds \/ WindowEnds)

FairSpec == Spec /\ Fairness
-----------------------------------------------------------------------------
Phase == {"warmup", "measure", "over"}

TypeOK ==
  /\ WorkTypeOK
  /\ pc \in {"start", "consumers", "launch", "now", "count", "decide", "publishers",
             "stopping", "cleanup", "exit"}
  /\ clock \in Phase
  /\ now \in Phase
  /\ count \in Nat
  /\ warmed \in BOOLEAN
  /\ warmupCount \in Nat
  /\ measured \in Nat
  /\ status \in {"none", "ok", "exhausted", "error", "raised"}
  /\ pub \in [Publishers -> {"none", "running", "done", "failed", "killed"}]
  /\ atWarmupEnd \in Nat
  /\ failedBefore \subseteq Publishers

Printed == status \in {"ok", "exhausted", "error"}

(* Warmup completions are ignored: no task counted before the end of the   *)
(* warmup is among those measured, however late the runner looks.          *)
WarmupNotMeasured ==
  Printed => IF now = "warmup" THEN measured = 0 ELSE measured + atWarmupEnd <= counter

(* A run ends "exhausted" only when its publishers have really run dry,    *)
(* that is when everything has been published and executed, but for what   *)
(* redelivered tasks were counted in the place of: at most the prefetched  *)
(* messages of each worker that died, none if nobody did.                  *)
ExhaustedIsDry == status = "exhausted" => MissedWithinCrashes

(* After a run that has printed its result, no publisher publishes into    *)
(* the deleted queue and no worker executes anything.                      *)
NothingRunsAfterExit ==
  [][pc = "exit" /\ Printed => executed' = executed /\ Unsent' = Unsent]_vars

(* The read of a Value whose lock a dead worker keeps does not return.     *)
ReadBlocked == lockLost /\ pc = "count"

(* A steady run ends, even if no task is ever executed, unless it blocks   *)
(* in a read because a worker died within get_lock(); nothing else that    *)
(* workers or publishers do, or leave undone, keeps it from its deadline.  *)
SteadyRunEnds == <>(pc = "exit" \/ ReadBlocked)

(* A publisher that fails ends the run: one that had failed before the     *)
(* last reading of the clock is not slept over, and leaves a status other  *)
(* than error only if that pass of the loop ended the run anyhow.          *)
PublisherFailureEndsRun ==
  failedBefore # {} =>
    /\ pc # "now"
    /\ status \in {"ok", "exhausted"} => now = "over" \/ count >= Total
=============================================================================
