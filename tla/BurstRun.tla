------------------------------ MODULE BurstRun ------------------------------
(***************************************************************************)
(* One burst run: the runner starts the workers, waits for consumers and   *)
(* publishes one burst while the workers already execute it.  Then it      *)
(* polls the completion counter, records milestones from each read, and    *)
(* takes the number it reports from one more read.  When the time is over  *)
(* it purges the queue before it stops the workers.                        *)
(***************************************************************************)
EXTENDS WorkQueue

CONSTANTS
  Thresholds,      \* the counts of _milestone_thresholds
  ConsumerTarget,  \* _consumer_target
  KeepQueue        \* cfg.keep_queue

ASSUME BurstAssumption ==
  /\ Thresholds \subseteq 0..Total
  /\ Total \in Thresholds
  /\ ConsumerTarget \in Nat
  /\ KeepQueue \in BOOLEAN

VARIABLES
  pc,          \* where the runner is in _run_burst_recovery and run()
  late,        \* has the time limit passed since the end of the publish?
  timedOut,    \* timed_out
  milestones,  \* the thresholds recorded so far
  tasksDone,   \* TASKS_DONE of the report
  status       \* STATUS of the report; "raised" when the runner raised instead

report == <<timedOut, milestones, tasksDone, status>>
runner == <<pc, late, report>>
vars == <<work, runner>>

Init == /\ InitWork
        /\ pc = "start"
        /\ late = FALSE
        /\ timedOut = FALSE
        /\ milestones = {}
        /\ tasksDone = 0
        /\ status = "none"

RunnerAt(from, to) == /\ pc = from
                      /\ pc' = to
                      /\ UNCHANGED late

Raise(from, to) == /\ RunnerAt(from, to)
                   /\ status' = "raised"
                   /\ UNCHANGED <<timedOut, milestones, tasksDone>>

Smaller(a, b) == IF a <= b THEN a ELSE b

(***************************************************************************)
(* Slips: each stands for one bug somebody could write into the operation  *)
(* it is named after.  No action uses them; they are put in the place of   *)
(* that operation to see that a property notices.                          *)
(***************************************************************************)
PollAnyMilestone == /\ ~lockLost /\ counter < Total
                    /\ RunnerAt("poll", "check")
                    /\ milestones' = milestones \cup {t \in Thresholds : t <= counter + 1}
                    /\ UNCHANGED <<work, timedOut, tasksDone, status>>

WorkersStoppedUnjoined == /\ RunnerAt("stopping", "print")
                          /\ UNCHANGED <<work, report>>

TimeOverIfProgress == /\ late /\ counter > 0
                      /\ RunnerAt("check", "report")
                      /\ PurgeBestEffort
                      /\ timedOut' = TRUE
                      /\ UNCHANGED <<milestones, tasksDone, status>>
-----------------------------------------------------------------------------
(***************************************************************************)
(* Up to the end of the publish.  Whoever raises goes to the finally that  *)
(* stops the workers; when the start itself raises they are not in the     *)
(* variable that it stops, and those started are left running.             *)
(***************************************************************************)
StartWorkers == /\ RunnerAt("start", "consumers")
                /\ Start(Workers)
                /\ UNCHANGED report

StartFails == /\ Raise("start", "cleanup")
              /\ \E started \in SUBSET Workers : started # Workers /\ Start(started)

ConsumersReady == /\ Cardinality(alive) >= ConsumerTarget
                  /\ RunnerAt("consumers", "publish")
                  /\ UNCHANGED <<work, report>>

ConsumersTimeout == Raise("consumers", "stopping") /\ UNCHANGED work

PublishOne == /\ pc = "publish"
              /\ \E m \in Unsent : Send({m})
              /\ UNCHANGED runner

Published == /\ Unsent = {}
             /\ RunnerAt("publish", "poll")
             /\ UNCHANGED <<work, report>>

PublishFails == Raise("publish", "stopping") /\ UNCHANGED work

(***************************************************************************)
(* The recovery.  A read of a Value waits for its lock.                    *)
(***************************************************************************)
RecordMilestones(count) ==
  milestones' = milestones \cup {t \in Thresholds : t <= count}

Drained == /\ ~lockLost /\ counter >= Total
           /\ RunnerAt("poll", "report")
           /\ RecordMilestones(counter)
           /\ UNCHANGED <<work, timedOut, tasksDone, status>>

Poll == /\ ~lockLost /\ counter < Total
        /\ RunnerAt("poll", "check")
        /\ RecordMilestones(counter)
        /\ UNCHANGED <<work, timedOut, tasksDone, status>>

Wait == /\ ~late
        /\ RunnerAt("check", "poll")
        /\ UNCHANGED <<work, report>>

TimeOver == /\ late
            /\ RunnerAt("check", "report")
            /\ PurgeBestEffort
            /\ timedOut' = TRUE
            /\ UNCHANGED <<milestones, tasksDone, status>>

ReadReport == /\ ~lockLost
              /\ RunnerAt("report", "stopping")
              /\ tasksDone' = Smaller(counter, Total)
              /\ UNCHANGED <<work, timedOut, milestones, status>>

(***************************************************************************)
(* The end: the result is printed once the workers are stopped.            *)
(***************************************************************************)
StopWorker(w) == /\ pc = "stopping"
                 /\ Stop(w)
                 /\ UNCHANGED runner

WorkersStopped == /\ alive = {}
                  /\ RunnerAt("stopping", IF status = "raised" THEN "cleanup" ELSE "print")
                  /\ UNCHANGED <<work, report>>

PrintResults == /\ RunnerAt("print", "cleanup")
                /\ status' = IF timedOut THEN "timeout" ELSE "ok"
                /\ UNCHANGED <<work, timedOut, milestones, tasksDone>>

Cleanup == /\ RunnerAt("cleanup", "exit")
           /\ CleanQueue(KeepQueue)
           /\ UNCHANGED report

Runner == \/ StartWorkers \/ StartFails
          \/ ConsumersReady \/ ConsumersTimeout
          \/ PublishOne \/ Published \/ PublishFails
          \/ Drained \/ Poll \/ Wait \/ TimeOver \/ ReadReport
          \/ WorkersStopped \/ PrintResults \/ Cleanup

Work == Consume /\ UNCHANGED runner

Recovering == pc \in {"poll", "check"}

WorkerDies(w) == /\ pc \in {"consumers", "publish", "report"} \/ Recovering
                 /\ Dies(w)
                 /\ UNCHANGED runner

TimePasses == /\ Recovering
              /\ late' = TRUE
              /\ UNCHANGED <<work, pc, report>>

Next == \/ Runner
        \/ Work
        \/ \E w \in Workers : StopWorker(w) \/ WorkerDies(w)
        \/ TimePasses

Spec == Init /\ [][Next]_vars

(* Runner, publishers and clock go on; workers and broker owe nothing. A   *)
(* read that waits for a lock gets it (SharedCounter), unless it is lost.  *)
Fairness == /\ WF_vars(Runner)
            /\ WF_vars(\E w \in Workers : StopWorker(w))
            /\ WF_vars(TimePasses)

FairSpec == Spec /\ Fairness
-----------------------------------------------------------------------------
TypeOK ==
  /\ WorkTypeOK
  /\ pc \in {"start", "consumers", "publish", "poll", "check", "report", "stopping",
             "print", "cleanup", "exit"}
  /\ late \in BOOLEAN
  /\ timedOut \in BOOLEAN
  /\ milestones \subseteq Thresholds
  /\ tasksDone \in 0..Total
  /\ status \in {"none", "ok", "timeout", "raised"}

Printed == status \in {"ok", "timeout"}

(* The report is not behind the milestones printed before it, though it is *)
(* another read; and an ok run has all of both.                            *)
ReportCoversMilestones ==
  Printed => /\ milestones \subseteq {t \in Thresholds : t <= tasksDone}
             /\ status = "ok" => tasksDone = Total /\ milestones = Thresholds

(* The state invariant: the types, and that report and milestones agree.   *)
Inv == TypeOK /\ ReportCoversMilestones

(* A burst that is ok, or reported as complete in spite of a timeout, has  *)
(* been executed, but for what redelivered tasks were counted in the place *)
(* of: at most the prefetched messages of each worker that died, none if   *)
(* nobody did.                                                             *)
CompleteMeansExecuted == Printed /\ tasksDone = Total => MissedWithinCrashes

(* After a run that has printed its result no worker executes anything.    *)
NothingRunsAfterExit == [][pc = "exit" /\ Printed => executed' = executed]_vars

(* The read of a Value whose lock a dead worker keeps does not return.     *)
ReadBlocked == lockLost /\ pc \in {"poll", "report"}

(* A burst run ends once its burst has been published or has failed to be, *)
(* even if no worker executes anything, unless it blocks in a read because *)
(* a worker died within get_lock().                                        *)
BurstRunEnds == <>(pc = "exit" \/ ReadBlocked)
=============================================================================
