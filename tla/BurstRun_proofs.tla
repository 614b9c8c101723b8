--------------------------- MODULE BurstRun_proofs --------------------------
(***************************************************************************)
(* Proofs about BurstRun, for any messages, workers, prefetch and crashes. *)
(* The queue is that of WorkQueue; what is added is which of the runner's  *)
(* reads of the counter the milestones, the status and TASKS_DONE are of.  *)
(***************************************************************************)
EXTENDS BurstRun, WorkQueue_proofs

(* A burst run implements the queue of WorkQueue.                          *)
LEMMA StepIsWork == [Next]_vars => [WorkNext]_work
<1> SUFFICES ASSUME [Next]_vars PROVE [WorkNext]_work
  OBVIOUS
<1>1. CASE UNCHANGED work
  BY <1>1
<1>2. CASE PublishOne
  <2>1. PICK m \in Unsent : Send({m})
    BY <1>2 DEF PublishOne
  <2>2. {m} \in SUBSET Messages
    BY DEF Unsent
  <2>3. QED  BY <2>1, <2>2 DEF WorkNext
<1>3. CASE StartWorkers \/ StartFails
  BY <1>3 DEF StartWorkers, StartFails, WorkNext
<1>4. CASE TimeOver \/ Cleanup
  BY <1>4, CleaningIsWork DEF TimeOver, Cleanup
<1>5. CASE Work
  BY <1>5 DEF Work, WorkNext
<1>6. ASSUME NEW w \in Workers, StopWorker(w) \/ WorkerDies(w) PROVE [WorkNext]_work
  BY <1>6 DEF StopWorker, WorkerDies, WorkNext
<1>7. CASE UNCHANGED vars
  BY <1>7 DEF vars
<1>8. QED
  BY <1>1, <1>2, <1>3, <1>4, <1>5, <1>6, <1>7
  DEF Next, Runner, ConsumersReady, ConsumersTimeout, Published, PublishFails, Drained,
      Poll, Wait, ReadReport, WorkersStopped, PrintResults, TimePasses

(* A burst run only ever takes steps of the queue.                         *)
THEOREM ImplementsWorkQueue == Spec => WorkSpec
<1>1. Init => InitWork
  BY DEF Init
<1>2. QED  BY <1>1, StepIsWork, PTL DEF Spec, WorkSpec

LEMMA QueueInvariance == Spec => []WorkInv
  BY ImplementsWorkQueue, WorkInvariance, PTL

-----------------------------------------------------------------------------
(* What the phases of the run have in common: nothing is reported before   *)
(* the last read, and nobody lives when a result has been printed.         *)
Recovery == pc \in {"start", "consumers", "publish", "poll", "check", "report"}

Phases ==
  /\ Recovery => status = "none" /\ stopped = {}
  /\ Recovery /\ pc # "report" => ~timedOut
  /\ pc = "stopping" => status \in {"none", "raised"}
  /\ pc = "print" => status = "none" /\ alive = {}
  /\ pc \in {"cleanup", "exit"} => status # "none"
  /\ Printed => alive = {} /\ (status = "ok" <=> ~timedOut)

(* The last read has been made, and its number is what will be printed.    *)
Taken == ~Recovery /\ status # "raised"

Reached(count) == {t \in Thresholds : t <= count}

MilestonesBound == /\ milestones \subseteq Reached(counter)
                   /\ Taken => milestones \subseteq Reached(tasksDone)

InTime ==
  /\ pc = "report" /\ ~timedOut => counter >= Total /\ milestones = Thresholds
  /\ Taken /\ ~timedOut => tasksDone = Total /\ milestones = Thresholds

TakenComplete == Taken /\ tasksDone = Total => MissedWithinCrashes

IInv == TypeOK /\ Phases /\ MilestonesBound /\ InTime /\ TakenComplete

LEMMA InitIInv == Init => IInv
<1> SUFFICES ASSUME Init PROVE IInv
  OBVIOUS
<1>1. WorkTypeOK
  BY InitWorkInv DEF Init, WorkInv
<1>2. TypeOK
  <2>1. Total \in Nat
    BY Finite
  <2>2. late \in BOOLEAN /\ timedOut \in BOOLEAN
    BY Zenon DEF Init
  <2>3. QED  BY <1>1, <2>1, <2>2 DEF Init, TypeOK
<1>3. Recovery /\ status = "none" /\ stopped = {} /\ milestones = {} /\ pc = "start"
      /\ ~timedOut
  BY DEF Init, InitWork, Recovery
<1>4. QED
  BY <1>2, <1>3 DEF IInv, Phases, Recovery, Taken, MilestonesBound, InTime, TakenComplete,
     Printed

LEMMA NextType == ASSUME WorkInv', TypeOK, [Next]_vars PROVE TypeOK'
<1>1. WorkTypeOK'
  BY DEF WorkInv
<1>2. Total \in Nat /\ counter \in Nat
  BY Finite DEF TypeOK, WorkTypeOK
<1>3. Smaller(counter, Total) \in 0..Total
  BY <1>2 DEF Smaller
<1> USE DEF TypeOK, RunnerAt, Raise, runner, report
<1>4. CASE UNCHANGED runner
  BY <1>1, <1>4
<1>5. CASE StartWorkers \/ StartFails \/ ConsumersReady \/ ConsumersTimeout
  BY <1>1, <1>5 DEF StartWorkers, StartFails, ConsumersReady, ConsumersTimeout
<1>6. CASE Published \/ PublishFails
  BY <1>1, <1>6 DEF Published, PublishFails
<1>7. CASE Drained \/ Poll \/ Wait \/ TimeOver
  BY <1>1, <1>7 DEF Drained, Poll, Wait, TimeOver, RecordMilestones
<1>8. CASE ReadReport
  BY <1>1, <1>3, <1>8 DEF ReadReport
<1>9. CASE WorkersStopped \/ PrintResults \/ Cleanup
  BY <1>1, <1>9 DEF WorkersStopped, PrintResults, Cleanup
<1>10. CASE TimePasses
  BY <1>1, <1>10 DEF TimePasses
<1>11. QED
  BY <1>4, <1>5, <1>6, <1>7, <1>8, <1>9, <1>10
  DEF Next, Runner, PublishOne, Work, StopWorker, WorkerDies, vars

LEMMA NextPhases == ASSUME IInv, TypeOK', [Next]_vars PROVE Phases'
<1> USE DEF IInv, Phases, Recovery, Printed, RunnerAt, Raise, runner, report, queue,
            processes, done, work
<1>1. CASE UNCHANGED vars
  BY <1>1 DEF vars
<1>2. CASE StartWorkers \/ StartFails
  BY <1>2 DEF StartWorkers, StartFails, Start
<1>3. CASE ConsumersReady \/ ConsumersTimeout
  BY <1>3 DEF ConsumersReady, ConsumersTimeout
<1>4. CASE PublishOne \/ Published \/ PublishFails
  <2>1. UNCHANGED processes
    BY <1>4 DEF PublishOne, Published, PublishFails, Send
  <2>2. QED  BY <1>4, <2>1 DEF PublishOne, Published, PublishFails
<1>5. CASE Drained \/ Poll \/ Wait \/ ReadReport
  BY <1>5 DEF Drained, Poll, Wait, ReadReport
<1>6. CASE TimeOver \/ Cleanup
  BY <1>6, CleaningIsWork DEF TimeOver, Cleanup
<1>7. CASE WorkersStopped \/ PrintResults
  BY <1>7 DEF WorkersStopped, PrintResults, TypeOK
<1>8. ASSUME NEW w \in Workers, StopWorker(w) \/ WorkerDies(w) PROVE Phases'
  BY <1>8 DEF StopWorker, WorkerDies, Stop, Dies, Crash, CrashInLock, End, Count, Recovering
<1>9. CASE Work \/ TimePasses
  BY <1>9 DEF Work, Consume, Delivery, Execution, Acknowledgement, Redelivery, Deliver,
     RunTask, Count, Ack, Requeue, TimePasses
<1>10. QED
  BY <1>1, <1>2, <1>3, <1>4, <1>5, <1>6, <1>7, <1>8, <1>9 DEF Next, Runner

-----------------------------------------------------------------------------
(* A step polls, takes the last read, or leaves the report as it is; what  *)
(* the report is compared with never shrinks.                              *)
Recorded == milestones' = milestones \cup Reached(counter)

Polls == /\ pc = "poll"
         /\ pc' \in {"check", "report"}
         /\ pc' = "report" => counter >= Total
         /\ Recorded
         /\ UNCHANGED <<work, tasksDone, timedOut, status>>

Reads == /\ pc = "report" /\ pc' = "stopping"
         /\ tasksDone' = Smaller(counter, Total)
         /\ UNCHANGED <<work, timedOut, milestones, status>>

Keeps == /\ UNCHANGED <<milestones, tasksDone>>
         /\ counter <= counter'
         /\ executed \subseteq executed' /\ crashed \subseteq crashed'
         /\ pc' = "report" /\ ~timedOut' => pc = "report" /\ ~timedOut
         /\ Taken' => Taken /\ UNCHANGED timedOut

LEMMA Steps ==
  ASSUME WorkInv, IInv, TypeOK', [Next]_vars
  PROVE  Polls \/ Reads \/ Keeps
<1>0. counter \in Nat /\ counter <= counter' /\ executed \subseteq executed'
      /\ crashed \subseteq crashed'
  <2>1. Grows
    BY StepIsWork, WorkGrows
  <2>2. QED  BY <2>1 DEF Grows, IInv, TypeOK, WorkTypeOK
<1> USE DEF Keeps, IInv, Phases, Taken, Recovery, Printed, RunnerAt, Raise, runner, report
<1>1. CASE UNCHANGED vars
  BY <1>0, <1>1 DEF vars
<1>2. CASE StartWorkers \/ StartFails
  BY <1>0, <1>2 DEF StartWorkers, StartFails
<1>3. CASE ConsumersReady \/ ConsumersTimeout
  BY <1>0, <1>3 DEF ConsumersReady, ConsumersTimeout
<1>4. CASE PublishOne \/ Published \/ PublishFails
  BY <1>0, <1>4 DEF PublishOne, Published, PublishFails
<1>5. CASE Drained \/ Poll
  <2>1. Polls
    BY <1>5 DEF Drained, Poll, Polls, RecordMilestones, Recorded, Reached
  <2>2. QED  BY <2>1
<1>6. CASE ReadReport
  BY <1>6 DEF ReadReport, Reads
<1>7. CASE Wait \/ TimeOver
  BY <1>0, <1>7 DEF Wait, TimeOver
<1>8. CASE WorkersStopped \/ PrintResults \/ Cleanup
  BY <1>0, <1>8 DEF WorkersStopped, PrintResults, Cleanup
<1>9. ASSUME NEW w \in Workers, StopWorker(w) \/ WorkerDies(w)
      PROVE  Polls \/ Reads \/ Keeps
  BY <1>0, <1>9 DEF StopWorker, WorkerDies
<1>10. CASE Work \/ TimePasses
  BY <1>0, <1>10 DEF Work, TimePasses
<1>11. QED
  BY <1>1, <1>2, <1>3, <1>4, <1>5, <1>6, <1>7, <1>8, <1>9, <1>10 DEF Next, Runner

LEMMA NextReport ==
  ASSUME WorkInv, IInv, TypeOK', [Next]_vars
  PROVE  MilestonesBound' /\ InTime' /\ TakenComplete'
<1>1. /\ Total \in Nat /\ counter \in Nat /\ counter' \in Nat
      /\ \A t \in Thresholds : t \in Nat /\ t <= Total
      /\ milestones \subseteq Thresholds /\ tasksDone \in Nat
  BY Finite, BurstAssumption DEF IInv, TypeOK, WorkTypeOK
<1>2. CASE Polls
  <2>1. /\ counter' = counter /\ executed' = executed /\ crashed' = crashed
        /\ ~Taken' /\ timedOut' = timedOut /\ ~timedOut
    BY <1>2 DEF Polls, work, processes, done, Taken, Recovery, IInv, Phases
  <2>2. MilestonesBound'
    BY <1>2, <2>1 DEF Polls, Recorded, MilestonesBound, Reached, IInv
  <2>3. InTime'
    <3>1. counter >= Total => Reached(counter) = Thresholds
      BY <1>1 DEF Reached
    <3>2. QED  BY <1>1, <1>2, <2>1, <3>1 DEF Polls, Recorded, InTime
  <2>4. QED  BY <2>1, <2>2, <2>3 DEF TakenComplete
<1>3. CASE Reads
  <2>1. /\ counter' = counter /\ executed' = executed /\ crashed' = crashed
        /\ milestones' = milestones /\ timedOut' = timedOut /\ pc' # "report"
        /\ tasksDone' = Smaller(counter, Total)
    BY <1>3 DEF Reads, work, processes, done
  <2>2. /\ tasksDone' \in Nat /\ tasksDone' <= counter
        /\ counter >= Total => tasksDone' = Total
        /\ tasksDone' = Total => counter >= Total
    BY <1>1, <2>1 DEF Smaller
  <2>3. Reached(counter) = Reached(tasksDone')
    BY <1>1, <2>1 DEF Reached, Smaller
  <2>4. MilestonesBound'
    BY <2>1, <2>3 DEF MilestonesBound, IInv, Reached
  <2>5. InTime'
    BY <1>3, <2>1, <2>2 DEF InTime, IInv, Reads
  <2>6. TakenComplete'
    <3>1. stopped = {}
      BY <1>3 DEF Reads, IInv, Phases, Recovery
    <3>2. QED  BY <2>1, <2>2, <3>1, CounterAtTotal DEF TakenComplete, MissedWithinCrashes
  <2>7. QED  BY <2>4, <2>5, <2>6
<1>4. CASE Keeps
  <2>1. Reached(counter) \subseteq Reached(counter')
    BY <1>1, <1>4 DEF Keeps, Reached
  <2>2. MilestonesBound'
    BY <1>4, <2>1 DEF Keeps, MilestonesBound, IInv, Reached
  <2>3. InTime'
    BY <1>1, <1>4 DEF Keeps, InTime, IInv
  <2>4. TakenComplete'
    BY <1>4, MissedStays DEF Keeps, TakenComplete, IInv, TypeOK
  <2>5. QED  BY <2>2, <2>3, <2>4
<1>5. QED  BY <1>2, <1>3, <1>4, Steps

LEMMA Invariance == Spec => []IInv
<1>1. WorkInv /\ WorkInv' /\ IInv /\ [Next]_vars => IInv'
  BY NextType, NextPhases, NextReport DEF IInv
<1>2. QED  BY InitIInv, QueueInvariance, <1>1, PTL DEF Spec

-----------------------------------------------------------------------------
(* What is printed is no less than what the milestones printed before it   *)
(* say, and an ok run has reached all of them and its total.               *)
THEOREM ReportCovers == Spec => []Inv
<1>1. IInv => Inv
  BY DEF IInv, Inv, ReportCoversMilestones, MilestonesBound, InTime, Phases, Taken,
     Recovery, Printed, Reached, TypeOK
<1>2. QED  BY <1>1, Invariance, PTL

(* A burst that is reported as complete, timeout or not, has been executed *)
(* but for Prefetch messages for each worker that died.                    *)
THEOREM CompleteIsExecuted == Spec => []CompleteMeansExecuted
<1>1. IInv => CompleteMeansExecuted
  BY DEF IInv, CompleteMeansExecuted, TakenComplete, Phases, Taken, Recovery, Printed, TypeOK
<1>2. QED  BY <1>1, Invariance, PTL

(* No task of a run that has printed its result is executed after the      *)
(* runner exits, although the purge came before the workers' end.          *)
THEOREM QuietAfterExit == Spec => NothingRunsAfterExit
<1>1. IInv /\ [Next]_vars => [pc = "exit" /\ Printed => executed' = executed]_vars
  <2> SUFFICES ASSUME IInv, Next, pc = "exit", Printed PROVE executed' = executed
    OBVIOUS
  <2>1. alive = {}
    BY DEF IInv, Phases
  <2>2. ~Runner
    BY DEF Runner, RunnerAt, Raise, StartWorkers, StartFails, ConsumersReady,
       ConsumersTimeout, PublishOne, Published, PublishFails, Drained, Poll, Wait, TimeOver,
       ReadReport, WorkersStopped, PrintResults, Cleanup
  <2>3. QED
    BY <2>1, <2>2 DEF Next, Work, StopWorker, WorkerDies, TimePasses, Consume, Delivery,
       Execution, Acknowledgement, Redelivery, Deliver, RunTask, Count, Ack,
       Requeue, Stop, Dies, Crash, CrashInLock, End, Count,
       done, work
<1>2. QED  BY Invariance, <1>1, PTL DEF Spec, NothingRunsAfterExit
=============================================================================
