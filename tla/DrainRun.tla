------------------------------ MODULE DrainRun ------------------------------
(***************************************************************************)
(* One drain run (modes base, hc, cpu and nogt): the runner publishes all  *)
(* messages, starts the workers, polls the completion counter until it     *)
(* reaches the number of messages or the time limit, reports, stops the    *)
(* workers and cleans the queue.  The queue, the workers and the counter   *)
(* are those of WorkQueue.                                                 *)
(***************************************************************************)
EXTENDS WorkQueue

CONSTANTS
  Thresholds,  \* the counts of _milestone_thresholds
  KeepQueue    \* cfg.keep_queue

ASSUME DrainAssumption ==
  /\ Thresholds \subseteq 0..Total
  /\ Total \in Thresholds
  /\ KeepQueue \in BOOLEAN

VARIABLES
  pc,          \* where the runner is in run()
  late,        \* has the time limit passed since the start of the benchmark?
  milestones,  \* the thresholds recorded so far
  tasksDone,   \* TASKS_DONE of the report
  status       \* STATUS of the report; "error" when the runner raised

report == <<milestones, tasksDone, status>>
runner == <<pc, late, report>>
vars == <<work, runner>>

Polling == pc \in {"poll", "check", "expired"}

Init == /\ InitWork
        /\ pc = "publish"
        /\ late = FALSE
        /\ milestones = {}
        /\ tasksDone = 0
        /\ status = "none"

RunnerAt(from, to) == /\ pc = from
                      /\ pc' = to
                      /\ UNCHANGED late

(***************************************************************************)
(* Slips: each stands for one bug somebody could write into the operation  *)
(* it is named after.  No action uses them; they are put in the place of   *)
(* that operation to see that a property notices.                          *)
(***************************************************************************)
PollOneShort == \/ /\ ~lockLost /\ counter + 1 >= Total
                   /\ RunnerAt("poll", "stopping")
                   /\ milestones' = milestones \cup {t \in Thresholds : t <= counter}
                   /\ tasksDone' = Total
                   /\ status' = "ok"
                   /\ UNCHANGED work
                \/ /\ ~lockLost /\ counter + 1 < Total
                   /\ RunnerAt("poll", "check")
                   /\ milestones' = milestones \cup {t \in Thresholds : t <= counter}
                   /\ UNCHANGED <<work, tasksDone, status>>

CheckTimeNever == /\ RunnerAt("check", "poll")
                  /\ UNCHANGED <<work, report>>

ReportTimeoutTotal ==
  /\ ~lockLost
  /\ RunnerAt("expired", "stopping")
  /\ milestones' = milestones \cup {t \in Thresholds : t <= counter}
  /\ tasksDone' = Total
  /\ status' = "timeout"
  /\ UNCHANGED work

ReportTimeoutUnrecorded == /\ ~lockLost
                           /\ RunnerAt("expired", "stopping")
                           /\ tasksDone' = counter
                           /\ status' = "timeout"
                           /\ UNCHANGED <<work, milestones>>

WorkersStoppedUnjoined ==
  /\ RunnerAt("stopping", IF status = "timeout" THEN "purge" ELSE "cleanup")
  /\ UNCHANGED <<work, report>>
-----------------------------------------------------------------------------
(***************************************************************************)
(* The runner up to the first poll.  A failed publish or a failed start    *)
(* leaves run() through its finally.  Workers that had been started before *)
(* the failure are not stopped: nobody has them in a variable yet.         *)
(***************************************************************************)
Publish == /\ RunnerAt("publish", "start")
           /\ Send(Messages)
           /\ UNCHANGED report

PublishFails == /\ RunnerAt("publish", "cleanup")
                /\ \E sent \in SUBSET Messages : Send(sent)
                /\ status' = "error"
                /\ UNCHANGED <<milestones, tasksDone>>

StartWorkers == /\ RunnerAt("start", "poll")
                /\ Start(Workers)
                /\ UNCHANGED report

StartFails == /\ RunnerAt("start", "cleanup")
              /\ \E started \in SUBSET Workers : started # Workers /\ Start(started)
              /\ status' = "error"
              /\ UNCHANGED <<milestones, tasksDone>>

(***************************************************************************)
(* The runner from the first poll to its exit.  Each read of the counter   *)
(* is a step; the time is tested in a later one, and when it is over the   *)
(* counter is read once more.  A read of a Value waits for its lock.       *)
(***************************************************************************)
RecordMilestones(count) ==
  milestones' = milestones \cup {t \in Thresholds : t <= count}

Poll == /\ ~lockLost
        /\ RecordMilestones(counter)
        /\ \/ /\ counter >= Total
              /\ RunnerAt("poll", "stopping")
              /\ tasksDone' = Total
              /\ status' = "ok"
           \/ /\ counter < Total
              /\ RunnerAt("poll", "check")
              /\ UNCHANGED <<tasksDone, status>>
        /\ UNCHANGED work

CheckTime == /\ RunnerAt("check", IF late THEN "expired" ELSE "poll")
             /\ UNCHANGED <<work, report>>

ReportTimeout == /\ ~lockLost
                 /\ RunnerAt("expired", "stopping")
                 /\ RecordMilestones(counter)
                 /\ tasksDone' = counter
                 /\ status' = "timeout"
                 /\ UNCHANGED work

StopWorker(w) == /\ pc = "stopping"
                 /\ Stop(w)
                 /\ UNCHANGED runner

WorkersStopped ==
  /\ alive = {}
  /\ RunnerAt("stopping", IF status = "timeout" THEN "purge" ELSE "cleanup")
  /\ UNCHANGED <<work, report>>

PurgeAfterTimeout == /\ RunnerAt("purge", "cleanup")
                     /\ PurgeBestEffort
                     /\ UNCHANGED report

Cleanup == /\ RunnerAt("cleanup", "exit")
           /\ CleanQueue(KeepQueue)
           /\ UNCHANGED report

Runner == \/ Publish \/ PublishFails
          \/ StartWorkers \/ StartFails
          \/ Poll \/ CheckTime \/ ReportTimeout
          \/ WorkersStopped \/ PurgeAfterTimeout \/ Cleanup

(***************************************************************************)
(* What goes on beside the runner.                                         *)
(***************************************************************************)
Work == Consume /\ UNCHANGED runner

WorkerDies(w) == Polling /\ Dies(w) /\ UNCHANGED runner

TimePasses == /\ Polling
              /\ late' = TRUE
              /\ UNCHANGED <<work, pc, report>>

Next == \/ Runner
        \/ Work
        \/ \E w \in Workers : StopWorker(w) \/ WorkerDies(w)
        \/ TimePasses

Spec == Init /\ [][Next]_vars

(***************************************************************************)
(* The runner and the living workers run, the broker delivers what it may  *)
(* and notices closed connections.  No clock is assumed to go on.  Counting *)
(* and reading the count are weakly fair steps although both take a lock:  *)
(* SharedCounter shows that who waits for it gets it, unless it is lost.   *)
(***************************************************************************)
Fairness == /\ WF_vars(Runner)
            /\ WF_vars(\E w \in Workers : StopWorker(w))
            /\ WF_vars(Execution /\ UNCHANGED runner)
            /\ WF_vars(Acknowledgement /\ UNCHANGED runner)
            /\ WF_vars((Delivery \/ Redelivery) /\ UNCHANGED runner)

FairSpec == Spec /\ Fairness
-----------------------------------------------------------------------------
TypeOK ==
  /\ WorkTypeOK
  /\ pc \in {"publish", "start", "poll", "check", "expired", "stopping",
             "purge", "cleanup", "exit"}
  /\ late \in BOOLEAN
  /\ milestones \subseteq Thresholds
  /\ tasksDone \in Nat
  /\ status \in {"none", "ok", "timeout", "error"}

Reported == status \in {"ok", "timeout"}

(* What an ok run claims: STATUS: ok is printed only once the task of      *)
(* every message has been run, but for those that redelivered tasks were   *)
(* counted in the place of: at most the prefetched messages of each worker *)
(* that died, none if nobody did.                                          *)
OkMeansDrained == status = "ok" => MissedWithinCrashes

(* How wrong TASKS_DONE can be: every worker that dies makes at most its   *)
(* prefetched messages be counted twice, and nothing else makes the report *)
(* exceed the number of messages whose task has been run.                  *)
ReportWithinRedeliveries ==
  Reported => tasksDone <= Cardinality(executed) + Prefetch * Cardinality(crashed)

(* The milestones printed agree with the TASKS_DONE printed after them: a  *)
(* threshold has been recorded exactly when the report reaches it, though  *)
(* the counter moves between the reads.                                    *)
MilestonesMatchReport ==
  Reported => milestones = {t \in Thresholds : t <= tasksDone}

(* Once the runner has reported and exited, no worker of the run executes  *)
(* anything: the next run of the suite does not share the machine with it. *)
NothingRunsAfterExit == [][pc = "exit" /\ Reported => executed' = executed]_vars

(* README, Failure propagation: a worker crash makes the run fail with     *)
(* status=error.                                                           *)
CrashFailsTheRun == pc = "exit" /\ crashed # {} => status = "error"

(* The read of a Value whose lock a dead worker keeps does not return, and *)
(* the time limit is not tested any more; run_once kills such a runner.    *)
ReadBlocked == lockLost /\ pc \in {"poll", "expired"}

(* A run ends, or blocks in a read because a worker died within get_lock();*)
(* nothing else its workers do keeps it from ending, and only if all have  *)
(* died does it need the time limit.  While one survives, redelivery makes *)
(* the counter reach the total, as nothing that a dead worker held is lost.*)
EveryRunEnds == <>(pc = "exit" \/ ReadBlocked) \/ ([]~late /\ <>(crashed = Workers))
=============================================================================
