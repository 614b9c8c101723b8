-------------------------- MODULE SteadyRun_proofs --------------------------
(***************************************************************************)
(* Proofs about SteadyRun, for any messages, publishers, workers, prefetch *)
(* and crashes.  A steady run only takes steps of WorkQueue, so that the   *)
(* invariant of the queue and what WorkGrows says hold in it.              *)
(***************************************************************************)
EXTENDS SteadyRun, WorkQueue_proofs

(* A steady run implements the queue of WorkQueue.                         *)
LEMMA StepIsWork == [Next]_vars => [WorkNext]_work
<1> SUFFICES ASSUME [Next]_vars PROVE [WorkNext]_work
  OBVIOUS
<1>1. CASE UNCHANGED work
  BY <1>1
<1>2. CASE StartWorkers \/ StartFails
  BY <1>2 DEF StartWorkers, StartFails, WorkNext
<1>3. CASE Cleanup
  BY <1>3, CleaningIsWork DEF Cleanup
<1>4. CASE Work
  BY <1>4 DEF Work, WorkNext
<1>5. ASSUME NEW w \in Workers, StopWorker(w) \/ WorkerDies(w) PROVE [WorkNext]_work
  BY <1>5 DEF StopWorker, WorkerDies, WorkNext
<1>6. ASSUME NEW p \in Publishers, PublishOne(p) PROVE [WorkNext]_work
  BY <1>6 DEF PublishOne, WorkNext, Unsent
<1>7. ASSUME NEW p \in Publishers,
             Launch(p) \/ KillPublisher(p) \/ PublisherDone(p) \/ PublisherFails(p)
      PROVE  UNCHANGED work
  BY <1>7 DEF Launch, KillPublisher, PublisherDone, PublisherFails
<1>8. QED
  BY <1>1, <1>2, <1>3, <1>4, <1>5, <1>6, <1>7
  DEF Next, Runner, ConsumersReady, ConsumersTimeout, Launched, LaunchFails, ReadNow,
      ReadCount, EndWith, WindowOver, Exhausted, PublisherFailed, Sleep, PublishersStopped,
      WorkersStopped, WarmupEnds, WindowEnds, vars

THEOREM ImplementsWorkQueue == Spec => WorkSpec
<1>1. Init => InitWork
  BY DEF Init
<1>2. QED  BY <1>1, StepIsWork, PTL DEF Spec, WorkSpec

LEMMA QueueInvariance == Spec => []WorkInv
  BY ImplementsWorkQueue, WorkInvariance, PTL

-----------------------------------------------------------------------------
(* What the phases of _run_steady have in common.                          *)
Loop == {"now", "count", "decide"}
Before == {"start", "consumers", "launch"} \cup Loop

Phases ==
  /\ pc \in Before => status = "none" /\ stopped = {}
  /\ pc = "publishers" => Printed
  /\ pc = "start" => alive = {}
  /\ Printed /\ pc # "publishers" => In("running") = {}
  /\ pc \in {"cleanup", "exit"} /\ Printed => alive = {}

(* What the loop has read lies behind what there is now: the clock of the  *)
(* last pass, the count after it, and the count taken as the warmup's.     *)
Readings ==
  /\ clock = "warmup" => now = "warmup" /\ atWarmupEnd = 0
  /\ warmed => now # "warmup" /\ atWarmupEnd <= warmupCount
  /\ pc = "decide" /\ now # "warmup" => warmed
  /\ count <= counter /\ warmupCount <= counter /\ atWarmupEnd <= counter

IInv == /\ TypeOK
        /\ Phases
        /\ Readings
        /\ WarmupNotMeasured
        /\ ExhaustedIsDry

LEMMA InitIInv == Init => IInv
<1> SUFFICES ASSUME Init PROVE IInv
  OBVIOUS
<1>1. warmed \in BOOLEAN
  BY Zenon DEF Init
<1>2. WorkTypeOK
  BY InitWorkInv DEF Init, WorkInv
<1>3. QED
  BY <1>1, <1>2 DEF IInv, Init, InitWork, TypeOK, Phase, Phases, Readings, Loop, Before, Printed,
     WarmupNotMeasured, ExhaustedIsDry

LEMMA NextType == ASSUME WorkInv, WorkInv', TypeOK, [Next]_vars PROVE TypeOK'
<1>1. WorkTypeOK' /\ counter \in Nat /\ Total \in Nat
  BY Finite DEF WorkInv, WorkTypeOK
<1> USE DEF TypeOK, Phase, RunnerAt, runner, report, loop, time, Pub
<1>2. CASE UNCHANGED runner
  BY <1>1, <1>2
<1>3. CASE StartWorkers \/ StartFails \/ ConsumersReady \/ ConsumersTimeout \/ Launched
           \/ LaunchFails
  BY <1>1, <1>3 DEF StartWorkers, StartFails, ConsumersReady, ConsumersTimeout, Launched, LaunchFails
<1>4. CASE ReadNow \/ Sleep \/ PublishersStopped \/ WorkersStopped \/ Cleanup
  BY <1>1, <1>4 DEF ReadNow, Sleep, PublishersStopped, WorkersStopped, Cleanup, In
<1>5. CASE ReadCount
  <2>1. warmed' \in BOOLEAN
    BY <1>5, Zenon DEF ReadCount
  <2>2. QED  BY <1>1, <1>5, <2>1 DEF ReadCount
<1>6. ASSUME NEW result \in {"ok", "exhausted", "error"}, EndWith(result) PROVE TypeOK'
  <2>1. measured' \in Nat
    BY <1>6 DEF EndWith
  <2>2. QED  BY <1>1, <1>6, <2>1 DEF EndWith
<1>7. ASSUME NEW p \in Publishers,
             Launch(p) \/ KillPublisher(p) \/ PublisherDone(p) \/ PublisherFails(p)
      PROVE  TypeOK'
  BY <1>1, <1>7 DEF Launch, KillPublisher, PublisherDone, PublisherFails
<1>8. CASE WarmupEnds \/ WindowEnds
  BY <1>1, <1>8 DEF WarmupEnds, WindowEnds
<1>9. QED
  BY <1>2, <1>3, <1>4, <1>5, <1>6, <1>7, <1>8
  DEF Next, Runner, WindowOver, Exhausted, PublisherFailed, Work, StopWorker, WorkerDies,
      PublishOne, vars

LEMMA NextPhases == ASSUME WorkInv, IInv, TypeOK', [Next]_vars PROVE Phases'
<1> USE DEF IInv, Phases, Loop, Before, Printed, RunnerAt, runner, report, loop, queue,
            processes, done, work, Pub, In
<1>1. CASE UNCHANGED vars
  BY <1>1 DEF vars
<1>2. CASE StartWorkers \/ StartFails
  BY <1>2 DEF StartWorkers, StartFails, Start
<1>3. CASE ConsumersReady \/ ConsumersTimeout \/ Launched \/ LaunchFails
  BY <1>3 DEF ConsumersReady, ConsumersTimeout, Launched, LaunchFails
<1>4. CASE ReadNow \/ ReadCount \/ Sleep \/ PublishersStopped \/ WorkersStopped
  BY <1>4 DEF ReadNow, ReadCount, Sleep, PublishersStopped, WorkersStopped
<1>5. CASE Cleanup
  BY <1>5, CleaningIsWork DEF Cleanup
<1>6. CASE WindowOver \/ Exhausted \/ PublisherFailed
  BY <1>6 DEF WindowOver, Exhausted, PublisherFailed, EndWith
<1>7. ASSUME NEW p \in Publishers,
             Launch(p) \/ KillPublisher(p) \/ PublisherDone(p) \/ PublisherFails(p)
      PROVE  Phases'
  <2>1. UNCHANGED <<work, pc, report>>
    BY <1>7 DEF Launch, KillPublisher, PublisherDone, PublisherFails
  <2>2. CASE Launch(p)
    BY <2>1, <2>2 DEF Launch
  <2>3. CASE KillPublisher(p) \/ PublisherDone(p) \/ PublisherFails(p)
    <3>1. In("running")' \subseteq In("running")
      BY <2>3 DEF KillPublisher, PublisherDone, PublisherFails, TypeOK
    <3>2. QED  BY <2>1, <3>1
  <2>4. QED  BY <1>7, <2>2, <2>3
<1>8. ASSUME NEW w \in Workers, StopWorker(w) \/ WorkerDies(w) PROVE Phases'
  BY <1>8 DEF StopWorker, WorkerDies, Stop, Dies, Crash, CrashInLock, End, Count
<1>9. CASE Work
  BY <1>9 DEF Work, Consume, Delivery, Execution, Acknowledgement, Redelivery, Deliver,
     RunTask, Count, Ack, Requeue
<1>10. CASE WarmupEnds \/ WindowEnds \/ \E p \in Publishers : PublishOne(p)
  BY <1>10 DEF WarmupEnds, WindowEnds, PublishOne, Send
<1>11. QED
  BY <1>1, <1>2, <1>3, <1>4, <1>5, <1>6, <1>7, <1>8, <1>9, <1>10 DEF Next, Runner

(* A step that prints the result does so in the loop, from what it read;   *)
(* a step of the loop or of the clock prints nothing; every other step     *)
(* keeps the readings and the result.                                      *)
Prints == /\ pc = "decide" /\ ~Measuring'
          /\ measured' = IF warmed /\ count > warmupCount THEN count - warmupCount ELSE 0
          /\ status' \in {"ok", "exhausted", "error"}
          /\ status' = "exhausted" => count >= Total
          /\ UNCHANGED <<work, time, loop>>

Reads == /\ ReadNow \/ ReadCount \/ Sleep \/ WarmupEnds \/ WindowEnds
         /\ UNCHANGED <<work, report>>

Keeps == /\ UNCHANGED <<time, loop, measured>>
         /\ status' = status \/ ~Printed'
         /\ pc' # "decide" \/ pc = "decide"

LEMMA ReportSteps == ASSUME [Next]_vars PROVE Prints \/ Reads \/ Keeps
<1> USE DEF Prints, Reads, Keeps, Printed, RunnerAt, runner, report, loop, time
<1>1. CASE UNCHANGED vars
  BY <1>1 DEF vars
<1>2. CASE StartWorkers \/ StartFails \/ ConsumersReady \/ ConsumersTimeout \/ Launched
           \/ LaunchFails
  BY <1>2 DEF StartWorkers, StartFails, ConsumersReady, ConsumersTimeout, Launched, LaunchFails
<1>3. CASE ReadNow \/ ReadCount \/ Sleep \/ WarmupEnds \/ WindowEnds
  BY <1>3 DEF ReadNow, ReadCount, Sleep, WarmupEnds, WindowEnds
<1>4. CASE PublishersStopped \/ WorkersStopped \/ Cleanup
  BY <1>4 DEF PublishersStopped, WorkersStopped, Cleanup
<1>5. CASE WindowOver \/ Exhausted \/ PublisherFailed
  BY <1>5 DEF WindowOver, Exhausted, PublisherFailed, EndWith, Measuring
<1>6. ASSUME NEW p \in Publishers,
             \/ Launch(p) \/ KillPublisher(p) \/ PublishOne(p)
             \/ PublisherDone(p) \/ PublisherFails(p)
      PROVE  Keeps
  BY <1>6 DEF Launch, KillPublisher, PublishOne, PublisherDone, PublisherFails
<1>7. ASSUME NEW w \in Workers, StopWorker(w) \/ WorkerDies(w) PROVE Keeps
  BY <1>7 DEF StopWorker, WorkerDies
<1>8. CASE Work
  BY <1>8 DEF Work
<1>9. QED
  BY <1>1, <1>2, <1>3, <1>4, <1>5, <1>6, <1>7, <1>8 DEF Next, Runner

LEMMA NextReadings == ASSUME WorkInv, IInv, TypeOK', [Next]_vars PROVE Readings'
<1>1. counter \in Nat /\ counter' \in Nat /\ counter <= counter'
  BY WorkGrows, StepIsWork DEF Grows
<1>2. /\ Readings /\ count \in Nat /\ warmupCount \in Nat /\ atWarmupEnd \in Nat
      /\ clock \in Phase /\ now \in Phase
  BY DEF IInv, TypeOK
<1> USE DEF Readings, Phase, time, loop
<1>3. CASE Prints
  BY <1>1, <1>2, <1>3 DEF Prints, Measuring, work, done
<1>4. CASE Reads
  <2>1. counter' = counter
    BY <1>4 DEF Reads, work, done
  <2>2. CASE ReadNow \/ Sleep
    BY <1>1, <1>2, <2>1, <2>2 DEF ReadNow, Sleep, RunnerAt
  <2>3. CASE ReadCount
    BY <1>1, <1>2, <2>1, <2>3 DEF ReadCount, RunnerAt
  <2>4. CASE WarmupEnds \/ WindowEnds
    BY <1>1, <1>2, <2>1, <2>4 DEF WarmupEnds, WindowEnds
  <2>5. QED  BY <1>4, <2>2, <2>3, <2>4 DEF Reads
<1>5. CASE Keeps
  BY <1>1, <1>2, <1>5 DEF Keeps
<1>6. QED  BY <1>3, <1>4, <1>5, ReportSteps

LEMMA NextMeasured == ASSUME WorkInv, IInv, TypeOK', [Next]_vars PROVE WarmupNotMeasured'
<1>1. counter \in Nat /\ counter' \in Nat /\ counter <= counter'
  BY WorkGrows, StepIsWork DEF Grows
<1>2. /\ count \in Nat /\ warmupCount \in Nat /\ atWarmupEnd \in Nat /\ measured \in Nat
      /\ WarmupNotMeasured /\ Readings
  BY DEF IInv, TypeOK
<1> USE DEF WarmupNotMeasured
<1>3. CASE Prints
  BY <1>1, <1>2, <1>3 DEF Prints, Readings, time, loop, work, done
<1>4. CASE Reads
  <2>1. ~Printed
    BY <1>4 DEF Reads, ReadNow, ReadCount, Sleep, WarmupEnds, WindowEnds, Measuring, RunnerAt,
       IInv, Phases, Before, Loop, Printed
  <2>2. QED  BY <1>4, <2>1 DEF Reads, report, Printed
<1>5. CASE Keeps
  BY <1>1, <1>2, <1>5 DEF Keeps, Printed, time, loop
<1>6. QED  BY <1>3, <1>4, <1>5, ReportSteps

LEMMA NextExhausted == ASSUME WorkInv, IInv, TypeOK', [Next]_vars PROVE ExhaustedIsDry'
<1>1. Grows
  BY WorkGrows, StepIsWork
<1>2. CASE status' = status
  BY <1>1, <1>2, MissedStays DEF ExhaustedIsDry, IInv, Grows, TypeOK
<1>3. CASE status' # "exhausted"
  BY <1>3 DEF ExhaustedIsDry
<1>4. CASE Prints /\ status' = "exhausted"
  <2>1. /\ pc = "decide" /\ count >= Total /\ count <= counter /\ Total \in Nat
        /\ count \in Nat /\ counter \in Nat /\ UNCHANGED work
    BY <1>4, Finite DEF Prints, IInv, Readings, TypeOK, WorkTypeOK
  <2>2. stopped = {}
    BY <2>1 DEF IInv, Phases, Before, Loop
  <2>3. MissedWithinCrashes
    BY <2>1, <2>2, CounterAtTotal
  <2>4. QED  BY <2>1, <2>3 DEF ExhaustedIsDry, MissedWithinCrashes, work, processes, done
<1>5. CASE Reads
  BY <1>2, <1>5 DEF Reads, report
<1>6. CASE Keeps
  BY <1>2, <1>3, <1>6 DEF Keeps, Printed
<1>7. QED  BY <1>3, <1>4, <1>5, <1>6, ReportSteps DEF ExhaustedIsDry

LEMMA Invariance == Spec => []IInv
<1>1. WorkInv /\ WorkInv' /\ IInv /\ [Next]_vars => IInv'
  BY NextType, NextPhases, NextReadings, NextMeasured, NextExhausted DEF IInv
<1>2. QED  BY InitIInv, QueueInvariance, <1>1, PTL DEF Spec

-----------------------------------------------------------------------------
(* Every variable keeps its type; in particular TASKS_DONE is never        *)
(* negative, though it is a difference of two readings.                    *)
THEOREM TypeCorrect == Spec => []TypeOK
  BY Invariance, PTL DEF IInv

(* No task counted before the end of the warmup is among those measured.   *)
THEOREM WarmupIgnored == Spec => []WarmupNotMeasured
  BY Invariance, PTL DEF IInv

(* "exhausted" is printed only after everything has been published and     *)
(* executed, but for Prefetch messages for each worker that died.          *)
THEOREM ExhaustedMeansDry == Spec => []ExhaustedIsDry
  BY Invariance, PTL DEF IInv

(* Nothing of a run that has printed is published or executed after the    *)
(* runner exits.                                                           *)
THEOREM QuietAfterExit == Spec => NothingRunsAfterExit
<1>1. ASSUME IInv, [Next]_vars
      PROVE  [pc = "exit" /\ Printed => executed' = executed /\ Unsent' = Unsent]_vars
  <2> SUFFICES ASSUME Next, pc = "exit", Printed
               PROVE  executed' = executed /\ Unsent' = Unsent
    BY <1>1
  <2>1. alive = {} /\ In("running") = {}
    BY <1>1 DEF IInv, Phases
  <2>2. ~Runner /\ ~Measuring
    BY DEF Measuring, Runner, RunnerAt, StartWorkers, StartFails, ConsumersReady,
       ConsumersTimeout, Launched, LaunchFails, ReadNow, ReadCount, WindowOver, Exhausted,
       PublisherFailed, EndWith, Sleep, PublishersStopped, WorkersStopped, Cleanup
  <2>3. ASSUME NEW p \in Publishers PROVE ~PublishOne(p) /\ ~Launch(p) /\ ~KillPublisher(p)
    BY <2>1 DEF PublishOne, Launch, KillPublisher, In
  <2>4. CASE \E p \in Publishers : PublisherDone(p) \/ PublisherFails(p)
    BY <2>4 DEF PublisherDone, PublisherFails, Unsent, work, queue, done
  <2>5. CASE Work
    <3>1. loc \in [Messages -> {"unsent", "queued", "delivered", "counted", "acked", "purged"}]
      BY <1>1 DEF IInv, TypeOK, WorkTypeOK
    <3>2. PICK m \in Messages : Requeue(m)
      BY <2>1, <2>5 DEF Work, Consume, Delivery, Execution, Acknowledgement, Redelivery, Deliver,
         RunTask, Ack
    <3>3. QED  BY <3>1, <3>2 DEF Requeue, Unacked, Unsent, done
  <2>6. CASE \E w \in Workers : StopWorker(w) \/ WorkerDies(w)
    BY <2>1, <2>6 DEF StopWorker, WorkerDies, Stop, Dies, Crash, CrashInLock, End, Count
  <2>7. QED  BY <2>2, <2>3, <2>4, <2>5, <2>6 DEF Next, WarmupEnds, WindowEnds
<1>2. QED  BY Invariance, <1>1, PTL DEF Spec, NothingRunsAfterExit

(***************************************************************************)
(* The failures that the loop has to notice: a publisher that has failed   *)
(* stays failed, so those that had failed when the clock was read are      *)
(* still there when the publishers are looked at, in the same pass.        *)
(***************************************************************************)
FailuresStay ==
  /\ failedBefore \subseteq In("failed")
  /\ failedBefore # {} => pc \notin {"start", "consumers", "launch", "now"}

FailureInv == FailuresStay /\ PublisherFailureEndsRun

LEMMA NextFailure == ASSUME IInv, FailureInv, [Next]_vars PROVE FailureInv'
<1> USE DEF FailureInv, FailuresStay, PublisherFailureEndsRun, In, RunnerAt, runner, report,
            loop, time
<1>1. pub \in [Publishers -> {"none", "running", "done", "failed", "killed"}]
  BY DEF IInv, TypeOK
<1>2. pc \in Before => status = "none"
  BY DEF IInv, Phases
<1>3. CASE UNCHANGED vars
  BY <1>3 DEF vars
<1>4. CASE StartWorkers \/ StartFails \/ ConsumersReady \/ ConsumersTimeout \/ Launched
           \/ LaunchFails
  BY <1>4 DEF StartWorkers, StartFails, ConsumersReady, ConsumersTimeout, Launched, LaunchFails
<1>5. CASE ReadNow \/ ReadCount
  BY <1>2, <1>5 DEF ReadNow, ReadCount, Before, Loop
<1>6. CASE WindowOver \/ Exhausted \/ PublisherFailed
  BY <1>6 DEF WindowOver, Exhausted, PublisherFailed, EndWith
<1>7. CASE Sleep
  BY <1>7 DEF Sleep
<1>8. CASE PublishersStopped \/ WorkersStopped \/ Cleanup
  BY <1>8 DEF PublishersStopped, WorkersStopped, Cleanup
<1>9. ASSUME NEW p \in Publishers,
             \/ Launch(p) \/ KillPublisher(p) \/ PublishOne(p)
             \/ PublisherDone(p) \/ PublisherFails(p)
      PROVE  FailureInv'
  BY <1>1, <1>9 DEF Launch, KillPublisher, PublishOne, PublisherDone, PublisherFails, Pub
<1>10. CASE Work \/ WarmupEnds \/ WindowEnds \/ \E w \in Workers : StopWorker(w) \/ WorkerDies(w)
  BY <1>10 DEF Work, WarmupEnds, WindowEnds, StopWorker, WorkerDies
<1>11. QED
  BY <1>3, <1>4, <1>5, <1>6, <1>7, <1>8, <1>9, <1>10 DEF Next, Runner

(* The failure of a publisher is noticed in the pass of the loop after it  *)
(* at the latest: no run sleeps over one, and one that prints "ok" or      *)
(* "exhausted" in spite of it had come to its end in that very pass.       *)
THEOREM FailureEndsRun == Spec => []PublisherFailureEndsRun
<1>1. Init => FailureInv
  BY DEF Init, FailureInv, FailuresStay, PublisherFailureEndsRun
<1>2. FailureInv => PublisherFailureEndsRun
  BY DEF FailureInv
<1>3. QED  BY <1>1, <1>2, NextFailure, Invariance, PTL DEF Spec
=============================================================================
