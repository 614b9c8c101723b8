--------------------------- MODULE DrainRun_proofs --------------------------
(***************************************************************************)
(* Proofs about DrainRun, for any messages, workers, prefetch and crashes. *)
(* A drain run only ever takes steps of WorkQueue, so that the invariant   *)
(* of the queue holds in it; what is added here is the runner's own part.  *)
(***************************************************************************)
EXTENDS DrainRun, WorkQueue_proofs

(* A drain run implements the queue of WorkQueue.                          *)
LEMMA StepIsWork == [Next]_vars => [WorkNext]_work
<1> SUFFICES ASSUME [Next]_vars PROVE [WorkNext]_work
  OBVIOUS
<1>1. CASE UNCHANGED work
  BY <1>1
<1>2. CASE Publish \/ PublishFails
  BY <1>2 DEF Publish, PublishFails, WorkNext
<1>3. CASE StartWorkers \/ StartFails
  BY <1>3 DEF StartWorkers, StartFails, WorkNext
<1>4. CASE PurgeAfterTimeout \/ Cleanup
  BY <1>4, CleaningIsWork DEF PurgeAfterTimeout, Cleanup
<1>5. CASE Work
  BY <1>5 DEF Work, WorkNext
<1>6. ASSUME NEW w \in Workers, StopWorker(w) \/ WorkerDies(w) PROVE [WorkNext]_work
  BY <1>6 DEF StopWorker, WorkerDies, WorkNext
<1>7. QED
  BY <1>1, <1>2, <1>3, <1>4, <1>5, <1>6
  DEF Next, Runner, Poll, CheckTime, ReportTimeout, WorkersStopped, TimePasses, vars

THEOREM ImplementsWorkQueue == Spec => WorkSpec
<1>1. Init => InitWork
  BY DEF Init
<1>2. QED  BY <1>1, StepIsWork, PTL DEF Spec, WorkSpec

LEMMA QueueInvariance == Spec => []WorkInv
  BY ImplementsWorkQueue, WorkInvariance, PTL

-----------------------------------------------------------------------------
(* What the phases of run() have in common.                                *)
Beginning == pc \in {"publish", "start"}

Phases ==
  /\ Beginning => alive = {} /\ crashed = {} /\ milestones = {}
  /\ Beginning \/ Polling => status = "none" /\ stopped = {}
  /\ pc = "stopping" => Reported
  /\ Reported /\ pc # "stopping" => alive = {}

MilestonesBound == Polling => milestones \subseteq {t \in Thresholds : t <= counter}

OkReportsAll == status = "ok" => tasksDone = Total

IInv == /\ TypeOK
        /\ Phases
        /\ ReportWithinRedeliveries
        /\ OkReportsAll
        /\ OkMeansDrained
        /\ MilestonesBound
        /\ MilestonesMatchReport

LEMMA InitIInv == Init => IInv
<1> SUFFICES ASSUME Init PROVE IInv
  OBVIOUS
<1>1. late \in BOOLEAN
  BY Zenon DEF Init
<1>2. WorkTypeOK
  BY InitWorkInv DEF Init, WorkInv
<1>3. QED
  BY <1>1, <1>2 DEF IInv, Init, InitWork, TypeOK, Phases, Beginning, Polling, Reported,
     OkReportsAll, OkMeansDrained, ReportWithinRedeliveries, MilestonesBound,
     MilestonesMatchReport

LEMMA NextType == ASSUME WorkInv', TypeOK, [Next]_vars PROVE TypeOK'
<1>1. WorkTypeOK'
  BY DEF WorkInv
<1>2. Total \in Nat
  BY Finite
<1> USE DEF TypeOK, WorkTypeOK, RunnerAt, runner, report
<1>3. CASE UNCHANGED runner
  BY <1>1, <1>3
<1>4. CASE Runner
  BY <1>1, <1>2, <1>4 DEF Runner, Publish, PublishFails, StartWorkers, StartFails, Poll, CheckTime,
     ReportTimeout, WorkersStopped, PurgeAfterTimeout, Cleanup, RecordMilestones
<1>5. CASE TimePasses
  BY <1>1, <1>5 DEF TimePasses
<1>6. QED
  BY <1>3, <1>4, <1>5 DEF Next, Work, StopWorker, WorkerDies, vars

LEMMA NextPhases ==
  ASSUME WorkInv, IInv, TypeOK', [Next]_vars
  PROVE  Phases'
<1> USE DEF IInv, Phases, Beginning, Polling, Reported, RunnerAt, runner, report, queue,
            processes, done, work
<1>1. CASE UNCHANGED vars
  BY <1>1 DEF vars
<1>2. CASE Publish \/ PublishFails \/ StartWorkers \/ StartFails
  BY <1>2 DEF Publish, PublishFails, StartWorkers, StartFails, Send, Start
<1>3. CASE Poll \/ CheckTime \/ ReportTimeout
  BY <1>3 DEF Poll, CheckTime, ReportTimeout, TypeOK
<1>4. CASE WorkersStopped \/ PurgeAfterTimeout \/ Cleanup
  BY <1>4, CleaningIsWork DEF WorkersStopped, PurgeAfterTimeout, Cleanup
<1>5. ASSUME NEW w \in Workers, StopWorker(w) \/ WorkerDies(w) PROVE Phases'
  BY <1>5 DEF StopWorker, WorkerDies, Stop, Dies, Crash, CrashInLock, End, Count
<1>6. CASE Work \/ TimePasses
  BY <1>6 DEF Work, Consume, Delivery, Execution, Acknowledgement, Redelivery, Deliver,
     RunTask, Count, Ack, Requeue, TimePasses
<1>7. QED  BY <1>1, <1>2, <1>3, <1>4, <1>5, <1>6 DEF Next, Runner

(* A step that reports does so while polling, from the counter it read;    *)
(* every other step keeps the report, and what it is compared with grows.  *)
Recorded == milestones' = milestones \cup {t \in Thresholds : t <= counter}

ReportsOk == /\ pc = "poll" /\ counter >= Total
             /\ status' = "ok" /\ tasksDone' = Total /\ Recorded
             /\ UNCHANGED work

ReportsTimeout == /\ pc = "expired"
                  /\ status' = "timeout" /\ tasksDone' = counter /\ Recorded
                  /\ UNCHANGED work

NoReport == /\ status' \in {"none", "error"}
            /\ counter' \in {counter, counter + 1}
            /\ \/ milestones' = milestones
               \/ Polling /\ counter' = counter /\ Recorded
            /\ Polling' => Polling \/ milestones' = {}

KeepsReport == /\ Reported /\ ~Polling'
               /\ UNCHANGED report
               /\ executed \subseteq executed' /\ crashed \subseteq crashed'

LEMMA ReportSteps ==
  ASSUME IInv, TypeOK', [Next]_vars
  PROVE  ReportsOk \/ ReportsTimeout \/ NoReport \/ KeepsReport
<1> USE DEF Recorded, ReportsOk, ReportsTimeout, NoReport, KeepsReport
<1> USE DEF IInv, TypeOK, Phases, Beginning, Polling, Reported, RunnerAt, runner, report,
            queue, processes, done, work
<1>1. CASE UNCHANGED vars
  BY <1>1 DEF vars
<1>2. CASE Publish \/ PublishFails \/ StartWorkers \/ StartFails
  BY <1>2 DEF Publish, PublishFails, StartWorkers, StartFails, Send, Start
<1>3. CASE Poll \/ CheckTime \/ ReportTimeout
  BY <1>3 DEF Poll, CheckTime, ReportTimeout, RecordMilestones
<1>4. CASE WorkersStopped \/ PurgeAfterTimeout \/ Cleanup
  BY <1>4, CleaningIsWork DEF WorkersStopped, PurgeAfterTimeout, Cleanup
<1>5. ASSUME NEW w \in Workers, StopWorker(w) \/ WorkerDies(w)
      PROVE  ReportsOk \/ ReportsTimeout \/ NoReport \/ KeepsReport
  BY <1>5 DEF StopWorker, WorkerDies, Stop, Dies, Crash, CrashInLock, End, Count
<1>6. CASE Work \/ TimePasses
  BY <1>6 DEF Work, Consume, Delivery, Execution, Acknowledgement, Redelivery, Deliver,
     RunTask, Count, Ack, Requeue, TimePasses
<1>7. QED  BY <1>1, <1>2, <1>3, <1>4, <1>5, <1>6 DEF Next, Runner

(* While the runner polls, only crashes have made tasks be counted twice.  *)
LEMMA PollingCounter ==
  ASSUME WorkInv, IInv, Polling
  PROVE  counter <= Cardinality(executed) + Prefetch * Cardinality(crashed)
<1>1. Ended = crashed
  BY DEF IInv, Phases, Ended
<1>2. QED  BY <1>1, CounterBound DEF CountedWithinRedeliveries

LEMMA NextReport ==
  ASSUME WorkInv, IInv, TypeOK', [Next]_vars
  PROVE  /\ ReportWithinRedeliveries' /\ OkReportsAll' /\ OkMeansDrained'
         /\ MilestonesBound' /\ MilestonesMatchReport'
<1>1. /\ Total \in Nat /\ Prefetch \in Nat /\ counter \in Nat /\ tasksDone \in Nat
      /\ \A t \in Thresholds : t \in Nat /\ t <= Total
      /\ milestones \subseteq Thresholds
      /\ IsFiniteSet(executed) /\ IsFiniteSet(executed')
      /\ IsFiniteSet(crashed) /\ IsFiniteSet(crashed')
      /\ Cardinality(executed) \in Nat /\ Cardinality(executed') \in Nat
      /\ Cardinality(crashed) \in Nat /\ Cardinality(crashed') \in Nat
  BY Finite, WorkQueueAssumption, DrainAssumption DEF IInv, TypeOK, WorkTypeOK
<1>2. Polling => /\ counter <= Cardinality(executed) + Prefetch * Cardinality(crashed)
                 /\ milestones \subseteq {t \in Thresholds : t <= counter}
  BY PollingCounter DEF IInv, MilestonesBound
<1> USE DEF ReportWithinRedeliveries, OkReportsAll, OkMeansDrained, MilestonesBound,
            MilestonesMatchReport, Reported
<1>3. CASE ReportsOk
  <2>1. /\ Polling /\ ~Polling'
        /\ executed' = executed /\ crashed' = crashed
        /\ status' = "ok" /\ tasksDone' = Total /\ Total <= counter
    BY <1>3, <1>1, NextPhases DEF ReportsOk, Polling, work, processes, done, Phases
  <2>2. tasksDone' <= Cardinality(executed') + Prefetch * Cardinality(crashed')
    <3>1. Total <= Cardinality(executed) + Prefetch * Cardinality(crashed)
      <4> DEFINE E == Cardinality(executed)
                 P == Prefetch * Cardinality(crashed)
      <4>1. E \in Nat /\ P \in Nat /\ counter <= E + P
        BY <1>1, <1>2, <2>1
      <4> HIDE DEF E, P
      <4>2. Total <= E + P
        BY <1>1, <2>1, <4>1
      <4>3. QED  BY <4>2 DEF E, P
    <3>2. QED  BY <2>1, <3>1
  <2>3. MissedWithinCrashes'
    <3>1. stopped = {}
      BY <2>1 DEF IInv, Phases
    <3>2. QED  BY <1>1, <2>1, <3>1, CounterAtTotal DEF MissedWithinCrashes
  <2>4. milestones' = {t \in Thresholds : t <= tasksDone'}
    BY <1>1, <1>2, <1>3, <2>1 DEF ReportsOk, Recorded
  <2>5. QED  BY <2>1, <2>2, <2>3, <2>4
<1>4. CASE ReportsTimeout
  <2>1. /\ Polling /\ ~Polling'
        /\ executed' = executed /\ crashed' = crashed
        /\ status' = "timeout" /\ tasksDone' = counter
    BY <1>4, NextPhases DEF ReportsTimeout, Polling, work, processes, done, Phases
  <2>2. milestones' = {t \in Thresholds : t <= tasksDone'}
    BY <1>1, <1>2, <1>4, <2>1 DEF ReportsTimeout, Recorded
  <2>3. tasksDone' <= Cardinality(executed') + Prefetch * Cardinality(crashed')
    BY <1>2, <2>1
  <2>4. QED  BY <2>1, <2>2, <2>3
<1>5. CASE NoReport
  <2>1. ~Reported'
    BY <1>5 DEF NoReport
  <2>2. ASSUME Polling' PROVE milestones' \subseteq {t \in Thresholds : t <= counter'}
    BY <1>1, <1>2, <1>5, <2>2 DEF NoReport, Recorded
  <2>3. QED  BY <1>5, <2>1, <2>2 DEF NoReport
<1>6. CASE KeepsReport
  <2>1. /\ Cardinality(executed) <= Cardinality(executed')
        /\ Cardinality(crashed) <= Cardinality(crashed')
    BY <1>1, <1>6, SubsetSmaller DEF KeepsReport
  <2>2. Prefetch * Cardinality(crashed) <= Prefetch * Cardinality(crashed')
    BY <1>1, <2>1
  <2>3. /\ Prefetch * Cardinality(crashed) \in Nat
        /\ Prefetch * Cardinality(crashed') \in Nat
    BY <1>1
  <2>4. tasksDone <= Cardinality(executed) + Prefetch * Cardinality(crashed)
    BY <1>6 DEF KeepsReport, IInv
  <2>5. tasksDone <= Cardinality(executed') + Prefetch * Cardinality(crashed')
    BY <1>1, <2>1, <2>2, <2>3, <2>4
  <2>6. tasksDone' = tasksDone /\ status' = status /\ milestones' = milestones
    BY <1>6 DEF KeepsReport, report
  <2>7. ReportWithinRedeliveries'
    BY <2>5, <2>6
  <2>8. OkMeansDrained'
    BY <1>6, <2>6, MissedStays DEF KeepsReport, IInv, TypeOK
  <2>9. QED  BY <1>6, <2>6, <2>7, <2>8 DEF KeepsReport, IInv
<1>7. QED  BY <1>3, <1>4, <1>5, <1>6, ReportSteps

LEMMA Invariance == Spec => []IInv
<1>1. WorkInv /\ WorkInv' /\ IInv /\ [Next]_vars => IInv'
  BY NextType, NextPhases, NextReport DEF IInv
<1>2. QED  BY InitIInv, QueueInvariance, <1>1, PTL DEF Spec

-----------------------------------------------------------------------------
(* Every variable keeps its type; in particular only thresholds are ever   *)
(* recorded as milestones, and tasks are counted for messages of the run.  *)
THEOREM TypeCorrect == Spec => []TypeOK
  BY Invariance, PTL DEF IInv

(* TASKS_DONE exceeds the number of messages executed by no more than what *)
(* the dead workers held: Prefetch messages each.                          *)
THEOREM ReportAccuracy == Spec => []ReportWithinRedeliveries
  BY Invariance, PTL DEF IInv

(* STATUS: ok is printed only after the task of every message has been     *)
(* executed, but for Prefetch of them for each worker that died.           *)
THEOREM OkIsDrained == Spec => []OkMeansDrained
  BY Invariance, PTL DEF IInv

(* The milestones printed are exactly those TASKS_DONE has reached.        *)
THEOREM MilestonesAgree == Spec => []MilestonesMatchReport
  BY Invariance, PTL DEF IInv

(* No task of a run that has reported is executed after the runner exits.  *)
THEOREM QuietAfterExit == Spec => NothingRunsAfterExit
<1>1. IInv /\ [Next]_vars => [pc = "exit" /\ Reported => executed' = executed]_vars
  <2> SUFFICES ASSUME IInv, Next, pc = "exit", Reported PROVE executed' = executed
    OBVIOUS
  <2>1. alive = {}
    BY DEF IInv, Phases
  <2>2. ~Runner
    BY DEF Runner, RunnerAt, Publish, PublishFails, StartWorkers, StartFails, Poll,
       CheckTime, ReportTimeout, WorkersStopped, PurgeAfterTimeout, Cleanup
  <2>3. QED
    BY <2>1, <2>2 DEF Next, Work, StopWorker, WorkerDies, TimePasses, Consume, Delivery,
       Execution, Acknowledgement, Redelivery, Deliver, RunTask, Count, Ack,
       Requeue, Stop, Dies, Crash, CrashInLock, End, Count,
       done, work
<1>2. QED  BY Invariance, <1>1, PTL DEF Spec, NothingRunsAfterExit
=============================================================================
