------------------------- MODULE LatencyFile_proofs -------------------------
(***************************************************************************)
(* Proofs about LatencyFile and its use in LatencyRun, for any capacity,   *)
(* workers, samples and crashes.  The file: the holder of the flock works  *)
(* on the first slot that is not counted, so the counted slots are final,  *)
(* and whatever the runner reads without the lock below a count it has     *)
(* read is a sample; even the types depend on it, for a read beyond the    *)
(* slots has no value.  The run: it uses the file and the queue as         *)
(* LatencyFile and WorkQueue allow and inherits their invariants, to which *)
(* RunInv adds who has begun to record which message.                      *)
(***************************************************************************)
EXTENDS LatencyRun, FiniteSetTheorems, TLAPS

WQ == INSTANCE WorkQueue_proofs

(* The holder of the flock, and what it knows while it holds it.           *)
Locking ==
  \A w \in Workers :
    /\ pc[w] \in {"locked", "loaded", "written", "unlock"} => lock = w
    /\ pc[w] \in {"loaded", "written"} => idx[w] = count /\ count < Capacity
    /\ pc[w] = "written" => slot[count] = Sample(w)

(* The sample a worker is recording is not in a counted slot yet.          *)
Fresh ==
  \A i \in 0..(count - 1), w \in Workers, k \in Nat :
    slot[i] = <<w, k>> => k <= made[w] /\ (Recording(w) => k # made[w])

(* What the runner has read so far, and when.                              *)
ReadSoFar == \A i \in 1..Len(latencies) : latencies[i] = slot[i - 1]

Numbers ==
  /\ runner \in {"publish", "drain"} => status = "ok"
  /\ runner # "publish" => count + backlog >= Capacity
  /\ runner \in {"report", "reopen", "slots", "printed"} /\ status = "ok"
       => count = Capacity
  /\ runner \in {"reopen", "slots", "printed"} =>
       /\ samples <= count
       /\ samples + backlog >= Capacity
       /\ status = "ok" => samples = Capacity
  /\ runner \in {"slots", "printed"} => samples <= n /\ n <= count

Progress ==
  /\ runner \notin {"slots", "printed"} => latencies = <<>>
  /\ runner \in {"slots", "printed"} => Len(latencies) <= n
  /\ runner = "printed" => Len(latencies) = n

Reading == Numbers /\ Progress /\ ReadSoFar

IInv == TypeOK /\ Locking /\ CountedSlotsAreSamples /\ Fresh /\ Reading

LEMMA InitIInv == Init => IInv
<1> SUFFICES ASSUME Init PROVE IInv
  OBVIOUS
<1>1. TypeOK
  BY LatencyAssumption DEF Init, TypeOK, Samples
<1>2. Locking /\ CountedSlotsAreSamples /\ Fresh
  BY LatencyAssumption DEF Init, Locking, CountedSlotsAreSamples, Fresh
<1>3. Reading
  BY LatencyAssumption DEF Init, Reading, Numbers, Progress, ReadSoFar
<1>4. QED  BY <1>1, <1>2, <1>3 DEF IInv

LEMMA NextType == ASSUME IInv, [Next]_vars PROVE TypeOK'
<1> USE LatencyAssumption DEF IInv, TypeOK, file, reading, Samples
<1>1. CASE UNCHANGED vars
  BY <1>1 DEF vars
<1>2. ASSUME NEW w \in Workers, Record(w) PROVE TypeOK'
  <2>1. CASE FinishTask(w)  BY <2>1 DEF FinishTask, Move
  <2>2. CASE Acquire(w)     BY <2>2 DEF Acquire, Move
  <2>3. CASE LoadCount(w)   BY <2>3 DEF LoadCount, Move
  <2>4. CASE WriteSlot(w)   BY <2>4 DEF WriteSlot, Move, Sample
  <2>5. CASE WriteCount(w)  BY <2>5 DEF WriteCount, Move
  <2>6. CASE Unlock(w)      BY <2>6 DEF Unlock, Move
  <2>7. QED  BY <1>2, <2>1, <2>2, <2>3, <2>4, <2>5, <2>6 DEF Record
<1>3. ASSUME NEW w \in Workers, Crash(w) PROVE TypeOK'
  BY <1>3 DEF Crash
<1>4. CASE MeasurementEnds \/ Drained \/ Deadline \/ ReportSamples \/ ReadCount
           \/ PrintLatencies
  BY <1>4 DEF MeasurementEnds, Drained, Deadline, ReportSamples, ReadCount,
              PrintLatencies, RunnerStep
<1>5. CASE ReadSlot
  <2>1. Len(latencies) \in 0..(Capacity - 1)
    BY <1>5 DEF ReadSlot, RunnerStep, Reading, Numbers, CountedSlotsAreSamples
  <2>2. slot[Len(latencies)] \in Samples \cup {Zero}
    BY <2>1
  <2>3. QED  BY <1>5, <2>2 DEF ReadSlot, RunnerStep
<1>6. QED  BY <1>1, <1>2, <1>3, <1>4, <1>5 DEF Next, Runner

(* The runner's steps touch neither the file nor a worker.                 *)
LEMMA RunnerOnlyReads ==
  ASSUME Runner PROVE UNCHANGED <<count, slot, lock, pc, idx, made>>
  BY DEF Runner, MeasurementEnds, Drained, Deadline, ReportSamples, ReadCount, ReadSlot,
     PrintLatencies, RunnerStep, file

LEMMA NextLocking == ASSUME IInv, TypeOK', [Next]_vars PROVE Locking'
<1> USE LatencyAssumption DEF IInv, TypeOK, Locking, Sample, file
<1>1. CASE UNCHANGED vars
  BY <1>1 DEF vars
<1>2. ASSUME NEW w \in Workers, Record(w) PROVE Locking'
  <2>1. CASE FinishTask(w)  BY <2>1 DEF FinishTask, Move
  <2>2. CASE Acquire(w)     BY <2>2 DEF Acquire, Move
  <2>3. CASE LoadCount(w)   BY <2>3 DEF LoadCount, Move
  <2>4. CASE WriteSlot(w)   BY <2>4 DEF WriteSlot, Move
  <2>5. CASE WriteCount(w)  BY <2>5 DEF WriteCount, Move
  <2>6. CASE Unlock(w)      BY <2>6 DEF Unlock, Move
  <2>7. QED  BY <1>2, <2>1, <2>2, <2>3, <2>4, <2>5, <2>6 DEF Record
<1>3. ASSUME NEW w \in Workers, Crash(w) PROVE Locking'
  BY <1>3 DEF Crash
<1>4. CASE Runner
  BY <1>4, RunnerOnlyReads
<1>5. QED  BY <1>1, <1>2, <1>3, <1>4 DEF Next

(* Only the holder writes a slot, and only the first that is not counted.  *)
LEMMA CountedSlotsKept ==
  ASSUME IInv, [Next]_vars
  PROVE  /\ count \in Nat /\ count' \in {count, count + 1}
         /\ \A i \in 0..(count - 1) : slot'[i] = slot[i]
<1> USE DEF IInv, TypeOK, Locking, file
<1>1. CASE UNCHANGED vars
  BY <1>1 DEF vars
<1>2. ASSUME NEW w \in Workers, WriteSlot(w)
      PROVE  count' = count /\ \A i \in 0..(count - 1) : slot'[i] = slot[i]
  BY <1>2 DEF WriteSlot, Move, CountedSlotsAreSamples
<1>3. ASSUME NEW w \in Workers, WriteCount(w) PROVE count' = count + 1 /\ slot' = slot
  BY <1>3 DEF WriteCount, Move
<1>4. ASSUME NEW w \in Workers, Crash(w) \/ Record(w), ~WriteSlot(w), ~WriteCount(w)
      PROVE  count' = count /\ slot' = slot
  BY <1>4 DEF Record, FinishTask, Acquire, LoadCount, Unlock, Crash
<1>5. CASE Runner
  BY <1>5, RunnerOnlyReads
<1>6. QED  BY <1>1, <1>2, <1>3, <1>4, <1>5 DEF Next

LEMMA NextFresh ==
  ASSUME IInv, TypeOK', [Next]_vars PROVE CountedSlotsAreSamples' /\ Fresh'
<1>1. ASSUME count' = count, made' = made,
             \A w \in Workers : Recording(w)' => Recording(w)
      PROVE  CountedSlotsAreSamples' /\ Fresh'
  <2>1. \A i \in 0..(count - 1) : slot'[i] = slot[i]
    BY CountedSlotsKept
  <2>2. CountedSlotsAreSamples'
    BY <1>1, <2>1 DEF IInv, CountedSlotsAreSamples
  <2>3. Fresh'
    BY <1>1, <2>1 DEF IInv, Fresh
  <2>4. QED  BY <2>2, <2>3
<1>2. CASE UNCHANGED vars
  BY <1>1, <1>2 DEF vars, Recording
<1>3. ASSUME NEW w \in Workers, FinishTask(w)
      PROVE  CountedSlotsAreSamples' /\ Fresh'
  <2>1. /\ count' = count /\ slot' = slot
        /\ made[w] \in Nat /\ made'[w] = made[w] + 1
        /\ \A x \in Workers : x # w => /\ made'[x] = made[x]
                                       /\ Recording(x)' <=> Recording(x)
    BY <1>3 DEF FinishTask, Move, IInv, TypeOK, Recording, file
  <2>2. CountedSlotsAreSamples'
    BY <2>1 DEF IInv, CountedSlotsAreSamples
  <2>3. ASSUME NEW i \in 0..(count - 1), NEW x \in Workers, NEW k \in Nat, slot[i] = <<x, k>>
        PROVE  k <= made'[x] /\ (Recording(x)' => k # made'[x])
    <3>1. k <= made[x] /\ (Recording(x) => k # made[x])
      BY <2>3 DEF IInv, Fresh
    <3>2. CASE x = w
      BY <2>1, <3>1, <3>2
    <3>3. CASE x # w
      BY <2>1, <3>1, <3>3
    <3>4. QED  BY <3>2, <3>3
  <2>4. Fresh'
    BY <2>1, <2>3 DEF Fresh
  <2>5. QED  BY <2>2, <2>4
<1>4. ASSUME NEW w \in Workers, Acquire(w) \/ LoadCount(w) \/ WriteSlot(w) \/ Unlock(w)
      PROVE  CountedSlotsAreSamples' /\ Fresh'
  <2>1. count' = count /\ made' = made
    BY <1>4 DEF Acquire, LoadCount, WriteSlot, Unlock, file
  <2>2. \A x \in Workers : Recording(x)' => Recording(x)
    BY <1>4 DEF Acquire, LoadCount, WriteSlot, Unlock, Move, Recording, IInv, TypeOK
  <2>3. QED  BY <1>1, <2>1, <2>2
<1>5. ASSUME NEW w \in Workers, WriteCount(w)
      PROVE  CountedSlotsAreSamples' /\ Fresh'
  <2>1. /\ pc[w] = "written" /\ count \in Nat /\ count < Capacity
        /\ slot[count] = <<w, made[w]>> /\ made[w] \in Nat
        /\ count' = count + 1 /\ slot' = slot /\ made' = made
        /\ pc' = [pc EXCEPT ![w] = "unlock"]
    BY <1>5 DEF WriteCount, Move, IInv, TypeOK, Locking, Sample
  <2>2. \A i \in 0..(count' - 1) : i \in 0..(count - 1) \/ i = count
    BY <2>1
  <2>3. Recording(w)
    BY <2>1 DEF Recording
  <2>4. \A i \in 0..(count - 1) : slot[i] # slot[count]
    BY <2>1, <2>3 DEF IInv, Fresh
  <2>5. slot[count] # Zero
    BY <2>1, LatencyAssumption
  <2>6. count' <= Capacity
    BY <2>1, LatencyAssumption
  <2>7. CountedSlotsAreSamples'
    BY <2>1, <2>2, <2>4, <2>5, <2>6 DEF IInv, CountedSlotsAreSamples
  <2>8. \A x \in Workers : Recording(x)' => Recording(x) /\ x # w
    BY <2>1 DEF Recording, IInv, TypeOK
  <2>9. ASSUME NEW i \in 0..(count' - 1), NEW x \in Workers, NEW k \in Nat, slot[i] = <<x, k>>
        PROVE  k <= made[x] /\ (Recording(x)' => k # made[x])
    <3>1. CASE i \in 0..(count - 1)
      BY <2>8, <2>9, <3>1 DEF IInv, Fresh
    <3>2. CASE i = count
      <4>1. x = w /\ k = made[w]
        BY <2>1, <2>9, <3>2
      <4>2. QED  BY <2>1, <2>8, <4>1
    <3>3. QED  BY <2>2, <3>1, <3>2
  <2>10. Fresh'
    BY <2>1, <2>9 DEF Fresh
  <2>11. QED  BY <2>7, <2>10
<1>6. ASSUME NEW w \in Workers, Crash(w)
      PROVE  CountedSlotsAreSamples' /\ Fresh'
  BY <1>1, <1>6 DEF Crash, Recording, IInv, TypeOK, file
<1>7. CASE Runner
  BY <1>1, <1>7, RunnerOnlyReads DEF Recording
<1>8. QED  BY <1>2, <1>3, <1>4, <1>5, <1>6, <1>7 DEF Next, Record

(* Arithmetic the steps of the runner need.                                *)
LEMMA SumGrows ==
  \A a, b, c, d \in Nat : a <= b /\ a + c >= d => b + c >= d
  OBVIOUS

LEMMA NextReading == ASSUME IInv, TypeOK', [Next]_vars PROVE Reading'
<1>1. /\ count \in Nat /\ count' \in Nat /\ Capacity \in Nat
      /\ count <= count' /\ count <= Capacity /\ count' <= Capacity
  <2>1. count <= Capacity /\ count' <= Capacity
    BY NextFresh DEF IInv, CountedSlotsAreSamples
  <2>2. QED  BY <2>1, CountedSlotsKept, LatencyAssumption DEF TypeOK
<1>2. Len(latencies) \in Nat /\ Len(latencies) <= count
  <2>1. Len(latencies) \in Nat
    BY DEF IInv, TypeOK
  <2>2. CASE runner \in {"slots", "printed"}
    BY <1>1, <2>1, <2>2 DEF IInv, Reading, Numbers, Progress, TypeOK
  <2>3. CASE runner \notin {"slots", "printed"}
    BY <1>1, <2>3 DEF IInv, Reading, Progress
  <2>4. QED  BY <2>2, <2>3, <2>1
<1>3. \A i \in 1..Len(latencies) : latencies[i] = slot'[i - 1]
  <2>1. \A i \in 1..Len(latencies) : i - 1 \in 0..(count - 1)
    BY <1>1, <1>2
  <2>2. QED  BY <2>1, CountedSlotsKept DEF IInv, Reading, ReadSoFar
<1>4. latencies' = latencies => ReadSoFar'
  BY <1>3 DEF ReadSoFar
<1>5. ASSUME UNCHANGED reading PROVE Reading'
  <2>1. /\ runner' = runner /\ backlog' = backlog /\ status' = status
        /\ samples' = samples /\ n' = n /\ latencies' = latencies
    BY <1>5 DEF reading
  <2>2. backlog \in Nat /\ samples \in Nat /\ n \in Nat
    BY DEF IInv, TypeOK
  <2>3. ReadSoFar'
    BY <1>4, <2>1
  <2>4. Numbers'
    <3>1. Numbers
      BY DEF IInv, Reading
    <3>2. runner # "publish" => count' + backlog >= Capacity
      <4>1. runner # "publish" => count + backlog >= Capacity
        BY <3>1 DEF Numbers
      <4>2. QED  BY <1>1, <2>2, <4>1, SumGrows
    <3>3. count = Capacity => count' = Capacity
      BY <1>1
    <3>4. samples <= count => samples <= count'
      BY <1>1, <2>2
    <3>5. n <= count => n <= count'
      BY <1>1, <2>2
    <3>6. QED  BY <2>1, <3>1, <3>2, <3>3, <3>4, <3>5 DEF Numbers
  <2>5. Progress'
    BY <2>1 DEF IInv, Reading, Progress
  <2>6. QED  BY <2>3, <2>4, <2>5 DEF Reading
<1> USE DEF IInv, TypeOK, Reading, Numbers, Progress
<1>6. CASE UNCHANGED vars
  BY <1>5, <1>6 DEF vars, reading
<1>7. ASSUME NEW w \in Workers, Record(w) \/ Crash(w) PROVE Reading'
  BY <1>5, <1>7 DEF Record, FinishTask, Acquire, LoadCount, WriteSlot, WriteCount, Unlock,
     Crash
<1> USE DEF RunnerStep, file
<1>8. CASE MeasurementEnds  BY <1>1, <1>4, <1>8 DEF MeasurementEnds
<1>9. CASE Drained          BY <1>1, <1>4, <1>9 DEF Drained
<1>10. CASE Deadline        BY <1>1, <1>4, <1>10 DEF Deadline
<1>11. CASE ReportSamples   BY <1>1, <1>4, <1>11 DEF ReportSamples
<1>12. CASE ReadCount       BY <1>1, <1>4, <1>12 DEF ReadCount
<1>13. CASE PrintLatencies  BY <1>1, <1>4, <1>13 DEF PrintLatencies
<1>14. CASE ReadSlot
  <2>1. /\ Len(latencies) \in Nat /\ Len(latencies) < n
        /\ latencies' = Append(latencies, slot[Len(latencies)])
        /\ slot' = slot /\ runner = "slots"
    BY <1>14 DEF ReadSlot
  <2>2. slot[Len(latencies)] \in Samples \cup {Zero}
    BY <1>1, <2>1
  <2>3. /\ Len(latencies') = Len(latencies) + 1
        /\ \A i \in 1..Len(latencies) : latencies'[i] = latencies[i]
        /\ latencies'[Len(latencies) + 1] = slot[Len(latencies)]
    BY <2>1, <2>2
  <2>4. ReadSoFar'
    <3> SUFFICES ASSUME NEW i \in 1..Len(latencies') PROVE latencies'[i] = slot[i - 1]
      BY <2>1 DEF ReadSoFar
    <3>1. CASE i \in 1..Len(latencies)
      BY <1>3, <2>1, <2>3, <3>1
    <3>2. CASE i = Len(latencies) + 1
      BY <2>1, <2>3, <3>2
    <3>3. QED  BY <2>1, <2>3, <3>1, <3>2
  <2>5. QED  BY <1>1, <1>14, <2>1, <2>3, <2>4 DEF ReadSlot
<1>15. QED
  BY <1>6, <1>7, <1>8, <1>9, <1>10, <1>11, <1>12, <1>13, <1>14 DEF Next, Runner

LEMMA Invariance == Spec => []IInv
<1>1. IInv /\ [Next]_vars => IInv'
  BY NextType, NextLocking, NextFresh, NextReading DEF IInv
<1>2. QED  BY InitIInv, <1>1, PTL DEF Spec

-----------------------------------------------------------------------------
(* Every variable keeps its type; in particular the slots hold samples or  *)
(* the zeros of init_latency_file.                                         *)
THEOREM TypeCorrect == Spec => []TypeOK
  BY Invariance, PTL DEF IInv

(* The counted slots are written, within the file, and hold each sample at *)
(* most once.                                                              *)
THEOREM SlotsCorrect == Spec => []CountedSlotsAreSamples
  BY Invariance, PTL DEF IInv

(* A counted slot is never written again.                                  *)
THEOREM SlotsFinal == Spec => CountedSlotsAreFinal
<1>1. IInv /\ [Next]_vars => [\A i \in 0..(count - 1) : slot'[i] = slot[i]]_vars
  BY CountedSlotsKept
<1>2. QED  BY Invariance, <1>1, PTL DEF Spec, CountedSlotsAreFinal

(* What the percentiles are computed from are samples, each of them once,  *)
(* though the runner reads without the lock.                               *)
THEOREM PercentilesCorrect == Spec => []PercentilesFromSamples
<1>1. IInv => PercentilesFromSamples
  <2> SUFFICES ASSUME IInv, NEW i \in 1..Len(latencies), NEW j \in 1..Len(latencies)
               PROVE  /\ latencies[i] # Zero
                      /\ latencies[i] = latencies[j] => i = j
    BY DEF PercentilesFromSamples
  <2>1. Len(latencies) \in Nat /\ Len(latencies) <= count /\ count \in Nat
    BY DEF IInv, TypeOK, Reading, Numbers, Progress, CountedSlotsAreSamples
  <2>2. i - 1 \in 0..(count - 1) /\ j - 1 \in 0..(count - 1)
    BY <2>1
  <2>3. latencies[i] = slot[i - 1] /\ latencies[j] = slot[j - 1]
    BY DEF IInv, Reading, ReadSoFar
  <2>4. QED  BY <2>2, <2>3 DEF IInv, CountedSlotsAreSamples
<1>2. QED  BY Invariance, <1>1, PTL

(* Backlog, reported samples and percentiles agree with each other.        *)
THEOREM ReportsCorrect == Spec => []ReportsAgree
<1>1. IInv => ReportsAgree
  BY LatencyAssumption DEF IInv, TypeOK, Reading, Numbers, Progress, CountedSlotsAreSamples,
     ReportsAgree
<1>2. QED  BY Invariance, <1>1, PTL
-----------------------------------------------------------------------------
(* A latency run does to its file what LatencyFile allows, whatever its    *)
(* queue and its workers do.                                               *)
THEOREM RunUsesTheFile == LatencySpec => Spec
<1>1. LatencyInit => Init
  BY DEF LatencyInit
<1>2. [LatencyNext]_latencyVars => [Next]_vars
  <2> SUFFICES ASSUME [LatencyNext]_latencyVars PROVE [Next]_vars
    OBVIOUS
  <2>1. CASE UNCHANGED latencyVars
    BY <2>1 DEF latencyVars
  <2>2. CASE Control
    BY <2>2 DEF Control, StartWorkers, StartFails, Raise, ConsumersReady, ConsumersTimeout,
       PublishOne, PublishFails, WarmupPublished, MeasuredPublished, Read, TimeOver, Purge,
       PrintReport, WorkersStopped, Cleanup, Next, Runner
  <2>3. CASE Broker
    BY <2>3 DEF Broker
  <2>4. ASSUME NEW w \in Workers, Worker(w) PROVE [Next]_vars
    BY <2>4 DEF Worker, TaskEnds, TaskCounted, Lock, RecordingGoesOn, RecordStep, Release,
       StopWorker, WorkerDies, Next, Record
  <2>5. QED  BY <2>1, <2>2, <2>3, <2>4 DEF LatencyNext
<1>3. QED  BY <1>1, <1>2, PTL DEF LatencySpec, Spec

(* So the report of a latency run is what the theorems above say.          *)
THEOREM RunReports ==
  LatencySpec => [](CountedSlotsAreSamples /\ PercentilesFromSamples /\ ReportsAgree)
  BY RunUsesTheFile, SlotsCorrect, PercentilesCorrect, ReportsCorrect, PTL

(***************************************************************************)
(* The flock in the run: a worker that records is alive, because it dies   *)
(* in the queue and in the file at once.                                   *)
(***************************************************************************)
Recorders == \A w \in Workers : Recording(w) \/ pc[w] = "unlock" => w \in alive

FlockInv == LockHasHolder /\ Recorders

LEMMA InitFlock == LatencyInit => FlockInv
  BY DEF LatencyInit, Init, FlockInv, LockHasHolder, Recorders, Recording

LEMMA WorkerFlock ==
  ASSUME TypeOK, FlockInv, NEW w \in Workers, Worker(w) PROVE FlockInv'
<1> USE LatencyAssumption DEF TypeOK, FlockInv, LockHasHolder, Recorders, Recording, work,
    control, file, reading
<1>1. ASSUME NEW m \in Messages, TaskEnds(w, m) PROVE FlockInv'
  BY <1>1 DEF TaskEnds, FinishTask, Move
<1>2. ASSUME NEW m \in Messages, TaskCounted(w, m) PROVE FlockInv'
  BY <1>2 DEF TaskCounted, Queue!RunTask, Queue!Count, Queue!processes, vars
<1>3. CASE Lock(w)
  BY <1>3 DEF Lock, Acquire, Move
<1>4. CASE RecordingGoesOn(w)
  BY <1>4 DEF RecordingGoesOn, RecordStep, LoadCount, WriteSlot, WriteCount, Move
<1>5. CASE Release(w)
  BY <1>5 DEF Release, Unlock, Move
<1>6. CASE StopWorker(w)
  BY <1>6 DEF StopWorker, Crash, Queue!Stop
<1>7. CASE WorkerDies(w)
  BY <1>7 DEF WorkerDies, Crash, Queue!Crash, Queue!CrashInLock, Queue!End
<1>8. QED  BY <1>1, <1>2, <1>3, <1>4, <1>5, <1>6, <1>7 DEF Worker

LEMMA OthersFlock ==
  ASSUME TypeOK, FlockInv, Control \/ Broker \/ UNCHANGED latencyVars PROVE FlockInv'
<1>1. pc' = pc /\ lock' = lock
  BY RunnerOnlyReads DEF Control, StartWorkers, StartFails, Raise, ConsumersReady,
     ConsumersTimeout, PublishOne, PublishFails, WarmupPublished, MeasuredPublished, Read,
     TimeOver, Purge, PrintReport, WorkersStopped, Cleanup, Runner, Broker, latencyVars, vars
<1>2. alive \subseteq alive'
  <2>1. CASE UNCHANGED latencyVars
    BY <2>1 DEF latencyVars, work
  <2>2. CASE Broker
    BY <2>2 DEF Broker, Queue!Delivery, Queue!Deliver, Queue!Acknowledgement, Queue!Ack,
       Queue!Redelivery, Queue!Requeue, Queue!processes
  <2>3. CASE Control
    BY <2>3 DEF Control, StartWorkers, StartFails, Raise, ConsumersReady, ConsumersTimeout,
       PublishOne, PublishFails, WarmupPublished, MeasuredPublished, Read, TimeOver, Purge,
       PrintReport, WorkersStopped, Cleanup, work, Queue!Start, Queue!Send, Queue!PurgeQueue,
       Queue!CleanQueue, Queue!DeleteQueue, Queue!Drop, Queue!processes, Queue!work
  <2>4. QED  BY <2>1, <2>2, <2>3
<1>3. QED  BY <1>1, <1>2 DEF FlockInv, LockHasHolder, Recorders, Recording

LEMMA FlockInvariance == LatencySpec => []FlockInv
<1>1. TypeOK /\ FlockInv /\ [LatencyNext]_latencyVars => FlockInv'
  BY WorkerFlock, OthersFlock DEF LatencyNext
<1>2. QED  BY InitFlock, <1>1, RunUsesTheFile, TypeCorrect, PTL DEF LatencySpec

(* In a latency run the flock is free or held by a worker that lives and   *)
(* is about to give it back, wherever workers died or returned early.      *)
THEOREM FlockIsGivenBack == LatencySpec => []LockHasHolder
<1>1. FlockInv => LockHasHolder
  BY DEF FlockInv
<1>2. QED  BY <1>1, FlockInvariance, PTL

(***************************************************************************)
(* The samples and their messages: worker w's sample number k is of the    *)
(* k-th message it began to record, and that is a measured one.            *)
(***************************************************************************)
TakenInv ==
  /\ taken \in [Workers -> Seq(Measured)]
  /\ \A w \in Workers : Len(taken[w]) = made[w] /\ (Recording(w) => made[w] >= 1)
  /\ \A i \in 0..(Capacity - 1) : slot[i] # Zero => slot[i][2] \in 1..made[slot[i][1]]

LEMMA InitTaken == LatencyInit => TakenInv
  BY LatencyAssumption DEF LatencyInit, Init, TakenInv, Recording

LEMMA WorkerTaken ==
  ASSUME TypeOK, TakenInv, NEW w \in Workers, Worker(w) PROVE TakenInv'
<1> USE LatencyAssumption DEF TypeOK, TakenInv, Recording, Samples, work, control, file,
    reading
<1>1. ASSUME NEW m \in Messages, TaskEnds(w, m) PROVE TakenInv'
  <2>1. /\ taken' = [taken EXCEPT ![w] = Append(@, m)]
        /\ m \in Measured
        /\ made' = [made EXCEPT ![w] = @ + 1]
        /\ pc' = [pc EXCEPT ![w] = "wait"]
        /\ slot' = slot
    BY <1>1 DEF TaskEnds, FinishTask, Move
  <2>2. taken' \in [Workers -> Seq(Measured)]
    BY <2>1
  <2>3. \A v \in Workers : Len(taken'[v]) = made'[v] /\ (Recording(v)' => made'[v] >= 1)
    BY <2>1
  <2>4. ASSUME NEW i \in 0..(Capacity - 1), slot'[i] # Zero
        PROVE  slot'[i][2] \in 1..made'[slot'[i][1]]
    <3>1. slot[i] \in Workers \X Nat /\ slot[i][2] \in 1..made[slot[i][1]]
      BY <2>1, <2>4
    <3>2. made'[slot[i][1]] >= made[slot[i][1]] /\ made'[slot[i][1]] \in Nat
      BY <2>1, <3>1
    <3>3. QED  BY <2>1, <3>1, <3>2
  <2>5. QED  BY <2>2, <2>3, <2>4
<1>2. ASSUME NEW m \in Messages, TaskCounted(w, m) PROVE TakenInv'
  BY <1>2 DEF TaskCounted, vars
<1>3. CASE Lock(w)
  BY <1>3 DEF Lock, Acquire, Move
<1>4. CASE WriteSlot(w) /\ RecordingGoesOn(w)
  <2>1. slot' = [slot EXCEPT ![idx[w]] = <<w, made[w]>>] /\ made[w] >= 1
    BY <1>4 DEF WriteSlot, Move, Sample
  <2>2. QED  BY <1>4, <2>1 DEF WriteSlot, Move, RecordingGoesOn
<1>5. CASE (LoadCount(w) \/ WriteCount(w)) /\ RecordingGoesOn(w)
  BY <1>5 DEF RecordingGoesOn, LoadCount, WriteCount, Move
<1>6. CASE Release(w)
  BY <1>6 DEF Release, Unlock, Move
<1>7. CASE StopWorker(w) \/ WorkerDies(w)
  BY <1>7 DEF StopWorker, WorkerDies, Crash
<1>8. QED
  BY <1>1, <1>2, <1>3, <1>4, <1>5, <1>6, <1>7 DEF Worker, RecordingGoesOn, RecordStep

LEMMA OthersTaken ==
  ASSUME TakenInv, Control \/ Broker \/ UNCHANGED latencyVars PROVE TakenInv'
<1>1. UNCHANGED <<pc, made, slot, taken>>
  BY RunnerOnlyReads DEF Control, StartWorkers, StartFails, Raise, ConsumersReady,
     ConsumersTimeout, PublishOne, PublishFails, WarmupPublished, MeasuredPublished, Read,
     TimeOver, Purge, PrintReport, WorkersStopped, Cleanup, Runner, Broker, latencyVars, vars
<1>2. QED  BY <1>1 DEF TakenInv, Recording

LEMMA TakenInvariance == LatencySpec => []TakenInv
<1>1. TypeOK /\ TakenInv /\ [LatencyNext]_latencyVars => TakenInv'
  BY WorkerTaken, OthersTaken DEF LatencyNext
<1>2. QED  BY InitTaken, <1>1, RunUsesTheFile, TypeCorrect, PTL DEF LatencySpec

(* No latency that a run reports is one of its warmup.                     *)
THEOREM OnlyMeasured == LatencySpec => [](Reported \subseteq Measured)
<1>1. IInv /\ TakenInv => Reported \subseteq Measured
  <2> SUFFICES ASSUME IInv, TakenInv, NEW i \in 1..Len(latencies)
               PROVE  MessageOf(latencies[i]) \in Measured
    BY DEF Reported
  <2> USE LatencyAssumption DEF IInv, TypeOK, Samples
  <2>1. i - 1 \in 0..(count - 1) /\ i - 1 \in 0..(Capacity - 1)
    BY DEF Reading, Numbers, Progress, CountedSlotsAreSamples
  <2>2. latencies[i] = slot[i - 1] /\ slot[i - 1] # Zero
    BY <2>1 DEF Reading, ReadSoFar, CountedSlotsAreSamples
  <2>3. slot[i - 1] \in Workers \X Nat
    BY <2>1, <2>2
  <2>4. slot[i - 1][2] \in 1..Len(taken[slot[i - 1][1]])
    BY <2>1, <2>2, <2>3 DEF TakenInv
  <2>5. QED  BY <2>2, <2>3, <2>4 DEF MessageOf, TakenInv
<1>2. QED  BY <1>1, TakenInvariance, RunUsesTheFile, Invariance, PTL
-----------------------------------------------------------------------------
(***************************************************************************)
(* The queue in the run: it is one of WorkQueue, so what is proved there   *)
(* of any queue holds in a latency run.                                    *)
(***************************************************************************)
LEMMA SameSets ==
  \A S : /\ WQ!IsFiniteSet(S) = IsFiniteSet(S)
         /\ WQ!Cardinality(S) = Cardinality(S)
         /\ Queue!Cardinality(S) = Cardinality(S)
<1>1. \A S : WQ!IsFiniteSet(S) = IsFiniteSet(S)
  BY DEF WQ!IsFiniteSet, IsFiniteSet
<1>2. \A S : WQ!Cardinality(S) = Cardinality(S)
  BY DEF WQ!Cardinality, Cardinality
<1>3. \A S : Queue!Cardinality(S) = Cardinality(S)
  BY DEF Queue!Cardinality, Cardinality
<1>4. QED  BY <1>1, <1>2, <1>3

LEMMA QueueAssumption == WQ!WorkQueueAssumption
<1>1. IsFiniteSet(Messages)
  BY LatencyRunAssumption, FS_Union DEF Messages
<1>2. QED
  BY <1>1, SameSets, LatencyAssumption, LatencyRunAssumption DEF WQ!WorkQueueAssumption

LEMMA SameQueue ==
  /\ Queue!InitWork <=> WQ!InitWork
  /\ \A S : Queue!Send(S) <=> WQ!Send(S)
  /\ \A S : Queue!Start(S) <=> WQ!Start(S)
  /\ \A w : (Queue!Stop(w) <=> WQ!Stop(w)) /\ (Queue!Crash(w) <=> WQ!Crash(w))
  /\ \A w, m : Queue!RunTask(w, m) <=> WQ!RunTask(w, m)
  /\ \A w, m : Queue!CrashInLock(w, m) <=> WQ!CrashInLock(w, m)
  /\ Queue!Delivery <=> WQ!Delivery
  /\ Queue!Acknowledgement <=> WQ!Acknowledgement
  /\ Queue!Redelivery <=> WQ!Redelivery
  /\ Queue!PurgeQueue => WQ!PurgeBestEffort
  /\ \A k : Queue!CleanQueue(k) <=> WQ!CleanQueue(k)
<1> USE SameSets DEF Queue!processes, WQ!processes, Queue!queue, WQ!queue, Queue!done, WQ!done,
    Queue!Unacked, WQ!Unacked, Queue!Ended, WQ!Ended, Queue!End, WQ!End, Queue!Count, WQ!Count
<1>1. Queue!InitWork <=> WQ!InitWork
  BY DEF Queue!InitWork, WQ!InitWork
<1>2. \A S : Queue!Send(S) <=> WQ!Send(S)
  BY DEF Queue!Send, WQ!Send, Queue!Unsent, WQ!Unsent
<1>3. \A S : Queue!Start(S) <=> WQ!Start(S)
  BY DEF Queue!Start, WQ!Start
<1>4. \A w : (Queue!Stop(w) <=> WQ!Stop(w)) /\ (Queue!Crash(w) <=> WQ!Crash(w))
  BY DEF Queue!Stop, WQ!Stop, Queue!Crash, WQ!Crash
<1>5. /\ \A w, m : Queue!RunTask(w, m) <=> WQ!RunTask(w, m)
      /\ \A w, m : Queue!CrashInLock(w, m) <=> WQ!CrashInLock(w, m)
  BY DEF Queue!RunTask, WQ!RunTask, Queue!CrashInLock, WQ!CrashInLock
<1>6. Queue!Delivery <=> WQ!Delivery
  BY DEF Queue!Delivery, WQ!Delivery, Queue!Deliver, WQ!Deliver, Queue!Held, WQ!Held
<1>7. Queue!Acknowledgement <=> WQ!Acknowledgement
  BY DEF Queue!Acknowledgement, WQ!Acknowledgement, Queue!Ack, WQ!Ack
<1>8. Queue!Redelivery <=> WQ!Redelivery
  BY DEF Queue!Redelivery, WQ!Redelivery, Queue!Requeue, WQ!Requeue
<1> USE DEF Queue!Drop, WQ!Drop, Queue!PurgeQueue, WQ!PurgeQueue
<1>9. Queue!PurgeQueue => WQ!PurgeBestEffort
  BY DEF WQ!PurgeBestEffort
<1>10. \A k : Queue!CleanQueue(k) <=> WQ!CleanQueue(k)
  BY DEF Queue!CleanQueue, WQ!CleanQueue, Queue!DeleteQueue, WQ!DeleteQueue, Queue!work, WQ!work
<1>11. QED  BY <1>1, <1>2, <1>3, <1>4, <1>5, <1>6, <1>7, <1>8, <1>9, <1>10

LEMMA RunIsWork == [LatencyNext]_latencyVars => [WQ!WorkNext]_(WQ!work)
<1> SUFFICES ASSUME [LatencyNext]_latencyVars PROVE [WQ!WorkNext]_(WQ!work)
  OBVIOUS
<1>1. UNCHANGED work => [WQ!WorkNext]_(WQ!work)
  BY DEF work, WQ!work, WQ!queue, WQ!processes, WQ!done
<1>2. CASE UNCHANGED latencyVars
  BY <1>1, <1>2 DEF latencyVars
<1>3. CASE Control
  <2>1. CASE StartWorkers \/ StartFails
    <3>1. PICK S \in SUBSET Workers : Queue!Start(S)
      BY <2>1 DEF StartWorkers, StartFails
    <3>2. QED  BY <3>1, SameQueue DEF WQ!WorkNext
  <2>2. CASE PublishOne
    <3>1. PICK S : Queue!Send(S)
      BY <2>2 DEF PublishOne
    <3>2. S \in SUBSET Messages
      BY <3>1 DEF Queue!Send, Queue!Unsent
    <3>3. QED  BY <3>1, <3>2, SameQueue DEF WQ!WorkNext
  <2>3. CASE Purge
    BY <1>1, <2>3, SameQueue, QueueAssumption, WQ!CleaningIsWork DEF Purge
  <2>4. CASE Cleanup
    BY <2>4, SameQueue, QueueAssumption, WQ!CleaningIsWork DEF Cleanup
  <2>5. CASE \/ ConsumersReady \/ ConsumersTimeout \/ PublishFails \/ WarmupPublished
             \/ MeasuredPublished \/ Read \/ TimeOver \/ PrintReport \/ WorkersStopped
    BY <1>1, <2>5 DEF ConsumersReady, ConsumersTimeout, PublishFails, WarmupPublished,
       MeasuredPublished, Read, TimeOver, PrintReport, WorkersStopped
  <2>6. QED  BY <1>3, <2>1, <2>2, <2>3, <2>4, <2>5 DEF Control
<1>4. CASE Broker
  BY <1>4, SameQueue DEF Broker, WQ!WorkNext, WQ!Consume
<1>5. ASSUME NEW w \in Workers, Worker(w) PROVE [WQ!WorkNext]_(WQ!work)
  <2>1. CASE \E m \in Messages : TaskEnds(w, m)
    BY <1>1, <2>1 DEF TaskEnds
  <2>2. CASE \E m \in Messages : TaskCounted(w, m)
    BY <2>2, SameQueue DEF TaskCounted, WQ!WorkNext, WQ!Consume, WQ!Execution
  <2>3. CASE Lock(w) \/ RecordingGoesOn(w) \/ Release(w)
    BY <1>1, <2>3 DEF Lock, RecordingGoesOn, Release
  <2>4. CASE StopWorker(w) \/ WorkerDies(w)
    BY <2>4, SameQueue DEF StopWorker, WorkerDies, WQ!WorkNext, WQ!Dies
  <2>5. QED  BY <1>5, <2>1, <2>2, <2>3, <2>4 DEF Worker
<1>6. QED  BY <1>2, <1>3, <1>4, <1>5 DEF LatencyNext

(* A latency run does to its queue what WorkQueue allows.                  *)
THEOREM RunUsesTheQueue == LatencySpec => WQ!WorkSpec
<1>1. LatencyInit => WQ!InitWork
  BY SameQueue DEF LatencyInit
<1>2. QED  BY <1>1, RunIsWork, PTL DEF LatencySpec, WQ!WorkSpec

LEMMA QueueInvariance == LatencySpec => []WQ!WorkInv
  BY RunUsesTheQueue, QueueAssumption, WQ!WorkInvariance, PTL
-----------------------------------------------------------------------------
(***************************************************************************)
(* The two bounds of the run.  A message can be begun once more by another *)
(* worker only when the one that held it has ended, so there are more      *)
(* beginnings than messages begun by at most Prefetch for each that ended, *)
(* and what is counted after the report was in hand when the purge was     *)
(* done.                                                                   *)
(***************************************************************************)
ControlTypeOK ==
  /\ phase \in {"start", "consumers", "warmup", "measure", "read", "purge", "stopping",
                "cleanup", "exit"}
  /\ raised \in BOOLEAN
  /\ inHand \subseteq Messages

(* A worker records a message it has not counted yet; the message is its.  *)
Busy ==
  \A w \in Workers : Recording(w) =>
    /\ w \in alive /\ made[w] >= 1
    /\ loc[taken[w][made[w]]] = "delivered" /\ by[taken[w][made[w]]] = w

TakenOnce ==
  \A w \in Workers : \A i, j \in 1..made[w] : taken[w][i] = taken[w][j] => i = j

(* Where the runner is in its two functions, and whom it has stopped.      *)
Stages ==
  /\ phase \in {"start", "consumers", "warmup", "measure"} =>
       runner = "publish" /\ inHand = Messages
  /\ phase = "purge" => runner = "report"
  /\ phase = "read" => runner \in {"drain", "report", "reopen", "slots"}
  /\ phase \in {"stopping", "cleanup", "exit"} => runner \in {"publish", "printed"}
  /\ phase \notin {"stopping", "cleanup", "exit"} => stopped = {}

(* What can still be executed is in hand, and so is what was recorded      *)
(* after the count was reported.                                           *)
InHandCovers ==
  \A m \in Messages : loc[m] = "queued" \/ Queue!Unacked(m) => m \in inHand
LateInHand ==
  runner \in {"reopen", "slots", "printed"} =>
    \A i \in samples..(count - 1) : MessageOf(slot[i]) \in inHand

(* Who has begun to record which messages; those among them that can be    *)
(* begun once more by somebody else.                                       *)
Begun == {p \in Workers \X Measured : p[2] \in Taken(p[1])}
BegunMessages == {m \in Measured : \E w \in Workers : m \in Taken(w)}
Again == {m \in BegunMessages :
            \/ loc[m] = "queued"
            \/ Queue!Unacked(m) /\ (by[m] \notin alive \/ m \notin Taken(by[m]))}

BegunSent == \A m \in BegunMessages : loc[m] # "unsent"

BegunBound ==
  Cardinality(Begun) + Cardinality(Again)
    <= Cardinality(BegunMessages) + Prefetch * Cardinality(crashed \cup stopped)

(* What is proved of the file, the flock, the messages begun and the queue *)
(* apart from each other, and what the bounds need besides.                *)
Base == IInv /\ TakenInv /\ FlockInv /\ WQ!WorkInv

RunInv == /\ ControlTypeOK /\ Stages
          /\ Busy /\ TakenOnce
          /\ InHandCovers /\ LateInHand
          /\ BegunSent /\ BegunBound

(* What the base says of the types.                                        *)
LEMMA BaseTypes ==
  ASSUME Base
  PROVE  /\ pc \in [Workers -> {"task", "wait", "locked", "loaded", "written", "unlock", "dead"}]
         /\ taken \in [Workers -> Seq(Measured)]
         /\ made \in [Workers -> Nat]
         /\ \A w \in Workers : Len(taken[w]) = made[w] /\ Taken(w) \subseteq Measured
         /\ loc \in [Messages -> {"unsent", "queued", "delivered", "counted", "acked", "purged"}]
         /\ by \in [Messages -> Workers \cup {NoOne}]
         /\ alive \subseteq Workers /\ crashed \subseteq Workers /\ stopped \subseteq Workers
         /\ alive \cap (crashed \cup stopped) = {}
         /\ count \in Nat /\ count <= Capacity /\ samples \in Nat
         /\ \A i \in 0..(count - 1) : /\ i \in 0..(Capacity - 1)
                                      /\ slot[i] \in Samples
                                      /\ slot[i][1] \in Workers
                                      /\ slot[i][2] \in 1..made[slot[i][1]]
                                      /\ MessageOf(slot[i]) \in Measured
                                      /\ MessageOf(slot[i]) \in Taken(slot[i][1])
<1> USE DEF Base
<1>1. /\ pc \in [Workers -> {"task", "wait", "locked", "loaded", "written", "unlock", "dead"}]
      /\ made \in [Workers -> Nat]
      /\ slot \in [0..(Capacity - 1) -> Samples \cup {Zero}]
      /\ count \in Nat /\ samples \in Nat
  BY DEF IInv, TypeOK
<1>2. /\ taken \in [Workers -> Seq(Measured)]
      /\ \A w \in Workers : Len(taken[w]) = made[w]
      /\ \A i \in 0..(Capacity - 1) : slot[i] # Zero => slot[i][2] \in 1..made[slot[i][1]]
  BY DEF TakenInv
<1>3. \A w \in Workers : Taken(w) \subseteq Measured
  BY <1>2 DEF Taken
<1>4. /\ loc \in [Messages -> {"unsent", "queued", "delivered", "counted", "acked", "purged"}]
      /\ by \in [Messages -> Workers \cup {NoOne}]
      /\ alive \subseteq Workers /\ crashed \subseteq Workers /\ stopped \subseteq Workers
      /\ alive \cap (crashed \cup stopped) = {}
  BY DEF WQ!WorkInv, WQ!WorkTypeOK, WQ!EndedStayEnded, WQ!Ended
<1>5. count <= Capacity /\ Capacity \in Nat
  BY LatencyAssumption DEF IInv, CountedSlotsAreSamples
<1>6. ASSUME NEW i \in 0..(count - 1)
      PROVE  /\ i \in 0..(Capacity - 1)
             /\ slot[i] \in Samples
             /\ slot[i][1] \in Workers
             /\ slot[i][2] \in 1..made[slot[i][1]]
             /\ MessageOf(slot[i]) \in Measured
             /\ MessageOf(slot[i]) \in Taken(slot[i][1])
  <2>1. i \in 0..(Capacity - 1)
    BY <1>1, <1>5
  <2>2. slot[i] \in Samples /\ slot[i] # Zero
    BY <1>1, <2>1 DEF IInv, CountedSlotsAreSamples
  <2>3. slot[i][1] \in Workers /\ slot[i][2] \in 1..made[slot[i][1]]
    BY <1>2, <2>1, <2>2 DEF Samples
  <2>4. MessageOf(slot[i]) \in Taken(slot[i][1])
    BY <1>2, <2>3 DEF MessageOf, Taken
  <2>5. QED  BY <1>3, <2>1, <2>2, <2>3, <2>4
<1>7. QED  BY <1>1, <1>2, <1>3, <1>4, <1>5, <1>6

(* What a step of the runner does to the queue: nothing, or it sends a     *)
(* message while it publishes, or it drops some that no live worker holds. *)
QueueStep ==
  /\ UNCHANGED <<crashed, stopped>> /\ alive \subseteq alive'
  /\ \A m \in Messages :
       \/ loc'[m] = loc[m] /\ by'[m] = by[m]
       \/ loc[m] = "unsent" /\ loc'[m] = "queued" /\ inHand = Messages /\ inHand' = inHand
       \/ /\ \/ loc[m] = "queued"
             \/ Queue!Unacked(m) /\ by[m] \notin alive
          /\ loc'[m] = "purged"

LEMMA ControlQueue ==
  ASSUME Base, RunInv, Control
  PROVE  QueueStep /\ UNCHANGED <<count, slot, lock, pc, idx, made, taken>>
<1>1. UNCHANGED <<count, slot, lock, pc, idx, made, taken>>
  BY RunnerOnlyReads DEF Control, StartWorkers, StartFails, Raise, ConsumersReady,
     ConsumersTimeout, PublishOne, PublishFails, WarmupPublished, MeasuredPublished, Read,
     TimeOver, Purge, PrintReport, WorkersStopped, Cleanup, Runner, vars
<1> SUFFICES QueueStep
  BY <1>1
<1>2. UNCHANGED work => QueueStep
  BY DEF work, QueueStep
<1>3. CASE StartWorkers \/ StartFails
  BY <1>3 DEF QueueStep, StartWorkers, StartFails, Queue!Start, Queue!queue
<1>4. CASE PublishOne
  <2>1. PICK S : Queue!Send(S) /\ Publishing /\ UNCHANGED control
    BY <1>4 DEF PublishOne
  <2>2. inHand = Messages /\ inHand' = inHand
    BY <2>1 DEF Publishing, RunInv, Stages, control
  <2>3. QED  BY <2>1, <2>2 DEF QueueStep, Queue!Send, Queue!Unsent, Queue!processes
<1>5. ASSUME Queue!PurgeQueue \/ Queue!DeleteQueue PROVE QueueStep
  BY <1>5 DEF QueueStep, Queue!PurgeQueue, Queue!DeleteQueue, Queue!Drop, Queue!processes
<1>6. CASE Purge
  BY <1>2, <1>5, <1>6 DEF Purge
<1>7. CASE Cleanup
  <2>1. Queue!CleanQueue(KeepQueue)
    BY <1>7 DEF Cleanup
  <2>2. UNCHANGED Queue!work => UNCHANGED work
    BY DEF Queue!work, work, Queue!queue, Queue!processes, Queue!done
  <2>3. QED  BY <1>2, <1>5, <2>1, <2>2 DEF Queue!CleanQueue
<1>8. CASE \/ ConsumersReady \/ ConsumersTimeout \/ PublishFails \/ WarmupPublished
           \/ MeasuredPublished \/ Read \/ TimeOver \/ PrintReport \/ WorkersStopped
  BY <1>2, <1>8 DEF ConsumersReady, ConsumersTimeout, PublishFails, WarmupPublished,
     MeasuredPublished, Read, TimeOver, PrintReport, WorkersStopped
<1>9. QED  BY <1>1, <1>3, <1>4, <1>6, <1>7, <1>8 DEF Control

(* The facts about finite sets the bounds are made of.                     *)
LEMMA FiniteParts ==
  /\ \A S \in SUBSET (Workers \X Measured) : IsFiniteSet(S) /\ Cardinality(S) \in Nat
  /\ \A S \in SUBSET Measured : IsFiniteSet(S) /\ Cardinality(S) \in Nat
  /\ \A S \in SUBSET Workers : IsFiniteSet(S) /\ Cardinality(S) \in Nat
<1>1. IsFiniteSet(Workers) /\ IsFiniteSet(Measured)
  BY LatencyRunAssumption
<1>2. IsFiniteSet(Workers \X Measured)
  BY <1>1, FS_Product
<1>3. QED  BY <1>1, <1>2, FS_CardinalityType, FS_Subset

LEMMA SmallerSet ==
  ASSUME NEW S, IsFiniteSet(S), NEW T \in SUBSET S
  PROVE  /\ IsFiniteSet(T)
         /\ Cardinality(T) \in Nat /\ Cardinality(S) \in Nat
         /\ Cardinality(T) <= Cardinality(S)
  BY FS_Subset, FS_CardinalityType

LEMMA SmallUnion ==
  ASSUME NEW S, NEW T, IsFiniteSet(S), IsFiniteSet(T)
  PROVE  /\ IsFiniteSet(S \cup T)
         /\ Cardinality(S \cup T) \in Nat
         /\ Cardinality(S \cup T) <= Cardinality(S) + Cardinality(T)
<1>1. /\ Cardinality(S \cup T) = Cardinality(S) + Cardinality(T) - Cardinality(S \cap T)
      /\ IsFiniteSet(S \cup T)
  BY FS_Union
<1>2. /\ Cardinality(S) \in Nat /\ Cardinality(T) \in Nat /\ Cardinality(S \cup T) \in Nat
      /\ Cardinality(S \cap T) \in Nat
  BY <1>1, FS_CardinalityType, FS_Subset
<1>3. QED  BY <1>1, <1>2

(* A step that ends nobody, begins nothing and frees nothing that has been *)
(* begun keeps the bound.                                                  *)
LEMMA BoundKept ==
  ASSUME Base, BegunBound, taken' = taken, crashed' = crashed, stopped' = stopped,
         Again' \subseteq Again
  PROVE  BegunBound'
<1> DEFINE B == Cardinality(Begun)
           A == Cardinality(Again)
           A1 == Cardinality(Again')
           M == Cardinality(BegunMessages)
           P == Prefetch * Cardinality(crashed \cup stopped)
<1>1. Begun' = Begun /\ BegunMessages' = BegunMessages
  BY DEF Begun, BegunMessages, Taken
<1>2. /\ Begun \in SUBSET (Workers \X Measured) /\ BegunMessages \in SUBSET Measured
      /\ Again \in SUBSET Measured /\ crashed \cup stopped \in SUBSET Workers
  BY BaseTypes DEF Begun, BegunMessages, Again
<1>3. B \in Nat /\ M \in Nat /\ A \in Nat /\ IsFiniteSet(Again)
      /\ Cardinality(crashed \cup stopped) \in Nat /\ Prefetch \in Nat
  BY <1>2, FiniteParts, LatencyRunAssumption
<1>4. P \in Nat
  BY <1>3
<1>5. A1 \in Nat /\ A1 <= A
  BY <1>3, SmallerSet
<1>6. B + A <= M + P
  BY DEF BegunBound
<1>7. BegunBound' <=> B + A1 <= M + P
  BY <1>1 DEF BegunBound
<1> HIDE DEF B, A, A1, M, P
<1>8. QED  BY <1>3, <1>4, <1>5, <1>6, <1>7

LEMMA OneMore == ASSUME NEW x \in Nat, NEW y \in Nat PROVE x * (y + 1) = x * y + x /\ x * y \in Nat
  OBVIOUS

(* Ending one more worker makes room in the bound for what it held, even   *)
(* if it counted one of these as it died.                                  *)
LEMMA BoundOfEnded ==
  ASSUME Base, RunInv, NEW w \in Workers, w \in alive, alive' = alive \ {w},
         crashed' \cup stopped' = (crashed \cup stopped) \cup {w},
         taken' = taken, by' = by,
         \A m \in Messages :
           \/ loc'[m] = loc[m]
           \/ loc[m] = "delivered" /\ loc'[m] = "counted" /\ by[m] = w
  PROVE  BegunBound'
<1> DEFINE H == {m \in Messages : Queue!Unacked(m) /\ by[m] = w}
           E == crashed \cup stopped
           b == Cardinality(Begun)
           a == Cardinality(Again)
           a1 == Cardinality(Again')
           m0 == Cardinality(BegunMessages)
           c == Cardinality(E)
           c1 == Cardinality(E')
           h == Cardinality(H)
<1>1. Begun' = Begun /\ BegunMessages' = BegunMessages
  BY DEF Begun, BegunMessages, Taken
<1>2. /\ Begun \in SUBSET (Workers \X Measured) /\ BegunMessages \in SUBSET Measured
      /\ Again \in SUBSET Measured /\ Again' \in SUBSET Measured
      /\ E \in SUBSET Workers /\ w \notin E
  BY BaseTypes DEF Begun, BegunMessages, Again
<1>3. /\ b \in Nat /\ m0 \in Nat /\ a \in Nat /\ a1 \in Nat /\ c \in Nat
      /\ IsFiniteSet(Again) /\ IsFiniteSet(E) /\ Prefetch \in Nat
  BY <1>2, FiniteParts, LatencyRunAssumption
<1>4. c1 = c + 1
  BY <1>2, <1>3, FS_AddElement
<1>5. IsFiniteSet(H) /\ h \in Nat /\ h <= Prefetch
  <2>1. WQ!Held(w) = H
    BY DEF WQ!Held, WQ!Unacked, Queue!Unacked
  <2>2. WQ!Cardinality(WQ!Held(w)) <= Prefetch
    BY DEF Base, WQ!WorkInv, WQ!HeldBound
  <2>3. IsFiniteSet(Messages)
    BY LatencyRunAssumption, FS_Union DEF Messages
  <2>4. IsFiniteSet(H) /\ h \in Nat
    BY <2>3, SmallerSet
  <2>5. QED  BY <2>1, <2>2, <2>4, SameSets
<1>6. Again' \subseteq Again \cup H
  BY <1>1 DEF Again, Queue!Unacked, Taken, Messages, BegunMessages
<1>7. a1 <= a + Prefetch
  <2> DEFINE u == Cardinality(Again \cup H)
  <2>1. IsFiniteSet(Again \cup H) /\ u \in Nat /\ u <= a + h
    BY <1>3, <1>5, SmallUnion
  <2>2. a1 <= u
    BY <1>6, <2>1, SmallerSet
  <2> HIDE DEF u, a, a1, h
  <2>3. QED  BY <1>3, <1>5, <2>1, <2>2
<1>8. b + a <= m0 + Prefetch * c
  BY DEF RunInv, BegunBound
<1>9. BegunBound' <=> b + a1 <= m0 + Prefetch * c1
  BY <1>1 DEF BegunBound
<1> HIDE DEF H, E, a, a1, b, m0, c, c1, h
<1>10. Prefetch * c \in Nat /\ Prefetch * c1 = Prefetch * c + Prefetch
  BY <1>3, <1>4, OneMore
<1>11. QED  BY <1>3, <1>7, <1>8, <1>9, <1>10

(* A worker begins with a message that is not one of its own.              *)
LEMMA Beginning ==
  ASSUME Base, NEW w \in Workers, NEW m \in Messages, TaskEnds(w, m)
  PROVE  /\ m \in Measured /\ m \notin Taken(w) /\ loc[m] = "delivered" /\ by[m] = w
         /\ w \in alive
         /\ taken' \in [Workers -> Seq(Measured)]
         /\ made' \in [Workers -> Nat] /\ made'[w] = made[w] + 1
         /\ taken'[w][made'[w]] = m
         /\ \A v \in Workers : /\ v # w => made'[v] = made[v] /\ Taken(v)' = Taken(v)
                               /\ \A i \in 1..made[v] : taken'[v][i] = taken[v][i]
         /\ Taken(w)' = Taken(w) \cup {m}
         /\ UNCHANGED <<work, control, file, reading>>
         /\ \A v \in Workers : v # w => pc'[v] = pc[v]
<1>1. /\ taken \in [Workers -> Seq(Measured)] /\ made \in [Workers -> Nat]
      /\ Len(taken[w]) = made[w] /\ \A v \in Workers : Len(taken[v]) = made[v]
      /\ pc \in [Workers -> {"task", "wait", "locked", "loaded", "written", "unlock", "dead"}]
  BY BaseTypes
<1>2. /\ m \in Measured /\ m \notin Taken(w) /\ loc[m] = "delivered" /\ by[m] = w
      /\ w \in alive
      /\ taken' = [taken EXCEPT ![w] = Append(taken[w], m)]
      /\ made' = [made EXCEPT ![w] = made[w] + 1]
      /\ pc' = [pc EXCEPT ![w] = "wait"]
      /\ UNCHANGED <<work, control>> /\ UNCHANGED <<file, reading>>
  BY DEF TaskEnds, FinishTask, Move
<1>3. /\ taken' \in [Workers -> Seq(Measured)]
      /\ made' \in [Workers -> Nat] /\ made'[w] = made[w] + 1
      /\ taken'[w] = Append(taken[w], m)
      /\ \A v \in Workers : v # w => /\ made'[v] = made[v] /\ taken'[v] = taken[v]
                                     /\ pc'[v] = pc[v]
  BY <1>1, <1>2
<1>4. /\ Len(taken'[w]) = made[w] + 1
      /\ \A i \in 1..made[w] : taken'[w][i] = taken[w][i]
      /\ taken'[w][made[w] + 1] = m
  BY <1>1, <1>2, <1>3
<1>5. Taken(w)' = Taken(w) \cup {m}
  <2>1. 1..(made[w] + 1) = (1..made[w]) \cup {made[w] + 1}
    BY <1>1
  <2>2. Taken(w)' = {taken'[w][i] : i \in 1..(made[w] + 1)}
    BY <1>4 DEF Taken
  <2>3. Taken(w) = {taken[w][i] : i \in 1..made[w]}
    BY <1>1 DEF Taken
  <2>4. QED  BY <1>4, <2>1, <2>2, <2>3
<1>6. \A v \in Workers : v # w => Taken(v)' = Taken(v)
  BY <1>3 DEF Taken
<1>7. \A v \in Workers : \A i \in 1..made[v] : taken'[v][i] = taken[v][i]
  BY <1>3, <1>4
<1>8. QED  BY <1>2, <1>3, <1>4, <1>5, <1>6, <1>7

LEMMA BoundOfBeginning ==
  ASSUME Base, BegunBound, NEW w \in Workers, NEW m \in Messages, TaskEnds(w, m)
  PROVE  BegunBound'
<1> DEFINE b == Cardinality(Begun)
           b1 == Cardinality(Begun')
           a == Cardinality(Again)
           a1 == Cardinality(Again')
           m0 == Cardinality(BegunMessages)
           m1 == Cardinality(BegunMessages')
           p == Prefetch * Cardinality(crashed \cup stopped)
<1>1. /\ loc' = loc /\ by' = by /\ alive' = alive /\ crashed' = crashed /\ stopped' = stopped
  BY Beginning DEF work
<1>2. Begun' = Begun \cup {<<w, m>>} /\ <<w, m>> \notin Begun
  BY Beginning DEF Begun
<1>3. BegunMessages' = BegunMessages \cup {m}
  <2>1. \A v \in Workers : Taken(v)' = IF v = w THEN Taken(v) \cup {m} ELSE Taken(v)
    BY Beginning
  <2>2. m \in Measured
    BY Beginning
  <2>3. QED  BY <2>1, <2>2 DEF BegunMessages
<1>4. m \notin Again'
  BY <1>1, Beginning DEF Again, Queue!Unacked
<1>5. \A x \in Measured : x # m => (x \in Again' <=> x \in Again)
  <2> SUFFICES ASSUME NEW x \in Measured, x # m PROVE x \in Again' <=> x \in Again
    OBVIOUS
  <2>1. x \in BegunMessages' <=> x \in BegunMessages
    BY <1>3
  <2>2. \A v \in Workers : x \in Taken(v)' <=> x \in Taken(v)
    BY Beginning
  <2>3. alive \subseteq Workers
    BY BaseTypes
  <2>4. QED  BY <1>1, <2>1, <2>2, <2>3 DEF Again, Queue!Unacked, Taken
<1>6. /\ Begun \in SUBSET (Workers \X Measured) /\ BegunMessages \in SUBSET Measured
      /\ Again \in SUBSET Measured /\ Again' \in SUBSET Measured
      /\ crashed \cup stopped \in SUBSET Workers
  BY BaseTypes DEF Begun, BegunMessages, Again
<1>7. /\ b \in Nat /\ m0 \in Nat /\ a \in Nat /\ a1 \in Nat
      /\ IsFiniteSet(Begun) /\ IsFiniteSet(Again) /\ IsFiniteSet(BegunMessages)
      /\ Cardinality(crashed \cup stopped) \in Nat /\ Prefetch \in Nat
  BY <1>6, FiniteParts, LatencyRunAssumption
<1>8. p \in Nat
  BY <1>7
<1>9. b1 = b + 1
  BY <1>2, <1>7, FS_AddElement
<1>10. b + a <= m0 + p
  BY DEF BegunBound
<1>11. BegunBound' <=> b1 + a1 <= m1 + p
  BY <1>1 DEF BegunBound
<1>12. CASE m \in BegunMessages
  <2>1. m \in Again
    BY <1>12, Beginning DEF Again, Queue!Unacked
  <2>2. Again' = Again \ {m} /\ BegunMessages' = BegunMessages
    BY <1>3, <1>4, <1>5, <1>6, <1>12
  <2>3. a1 = a - 1 /\ m1 = m0
    BY <1>7, <2>1, <2>2, FS_RemoveElement
  <2> HIDE DEF a, a1, b, b1, m0, m1, p
  <2>4. QED  BY <1>7, <1>8, <1>9, <1>10, <1>11, <2>3
<1>13. CASE m \notin BegunMessages
  <2>1. Again' = Again
    BY <1>4, <1>5, <1>6, <1>13 DEF Again
  <2>2. a1 = a /\ m1 = m0 + 1
    BY <1>3, <1>7, <1>13, <2>1, FS_AddElement
  <2> HIDE DEF a, a1, b, b1, m0, m1, p
  <2>3. QED  BY <1>7, <1>8, <1>9, <1>10, <1>11, <2>2
<1>14. QED  BY <1>12, <1>13

LEMMA BeginningKeeps ==
  ASSUME Base, Base', RunInv, NEW w \in Workers, NEW m \in Messages, TaskEnds(w, m)
  PROVE  RunInv'
<1>1. /\ loc' = loc /\ by' = by /\ alive' = alive /\ crashed' = crashed /\ stopped' = stopped
      /\ phase' = phase /\ raised' = raised /\ inHand' = inHand
      /\ runner' = runner /\ count' = count /\ slot' = slot /\ samples' = samples
  BY Beginning DEF work, control, file, reading
<1>2. ControlTypeOK' /\ Stages' /\ InHandCovers'
  BY <1>1 DEF RunInv, ControlTypeOK, Stages, InHandCovers, Queue!Unacked
<1>3. Busy'
  <2> SUFFICES ASSUME NEW v \in Workers, Recording(v)'
               PROVE  /\ v \in alive' /\ made'[v] >= 1
                      /\ loc'[taken'[v][made'[v]]] = "delivered" /\ by'[taken'[v][made'[v]]] = v
    BY DEF Busy
  <2>1. CASE v = w
    BY <1>1, <2>1, Beginning, BaseTypes
  <2>2. CASE v # w
    <3>1. Recording(v) /\ made'[v] = made[v] /\ made[v] \in Nat
      BY <2>2, Beginning, BaseTypes DEF Recording
    <3>2. made[v] \in 1..made[v]
      BY <3>1 DEF RunInv, Busy
    <3>3. \A i \in 1..made[v] : taken'[v][i] = taken[v][i]
      BY <2>2, Beginning
    <3>4. taken'[v][made'[v]] = taken[v][made[v]]
      BY <3>1, <3>2, <3>3
    <3>5. QED  BY <1>1, <3>1, <3>4 DEF RunInv, Busy
  <2>3. QED  BY <2>1, <2>2
<1>4. TakenOnce'
  <2> SUFFICES ASSUME NEW v \in Workers, NEW i \in 1..made'[v], NEW j \in 1..made'[v],
                      taken'[v][i] = taken'[v][j]
               PROVE  i = j
    BY DEF TakenOnce
  <2>1. made[v] \in Nat /\ Len(taken[v]) = made[v]
    BY BaseTypes
  <2>2. ASSUME i \in 1..made[v], j \in 1..made[v] PROVE i = j
    BY <2>2, Beginning DEF RunInv, TakenOnce
  <2>3. \A k \in 1..made[v] : taken'[v][k] \in Taken(v)
    BY <2>1, Beginning DEF Taken
  <2>4. CASE v = w
    <3>1. \A k \in 1..made[v] : taken'[v][k] # m
      BY <2>3, <2>4, Beginning
    <3>2. \A k \in 1..made'[v] : k \in 1..made[v] \/ k = made'[v]
      BY <2>1, <2>4, Beginning
    <3>3. taken'[v][made'[v]] = m
      BY <2>4, Beginning
    <3>4. QED  BY <2>2, <3>1, <3>2, <3>3
  <2>5. CASE v # w
    BY <2>2, <2>5, Beginning
  <2>6. QED  BY <2>4, <2>5
<1>5. LateInHand'
  <2> SUFFICES ASSUME runner \in {"reopen", "slots", "printed"},
                      NEW i \in samples..(count - 1)
               PROVE  MessageOf(slot[i])' \in inHand
    BY <1>1 DEF LateInHand
  <2>1. i \in 0..(count - 1)
    BY BaseTypes
  <2>2. slot[i][1] \in Workers /\ slot[i][2] \in 1..made[slot[i][1]]
    BY <2>1, BaseTypes
  <2>3. MessageOf(slot[i])' = MessageOf(slot[i])
    BY <1>1, <2>2, Beginning DEF MessageOf
  <2>4. QED  BY <2>3 DEF RunInv, LateInHand
<1>6. BegunSent'
  <2>1. BegunMessages' \subseteq BegunMessages \cup {m}
    BY Beginning DEF BegunMessages
  <2>2. QED  BY <1>1, <2>1, Beginning DEF RunInv, BegunSent
<1>7. BegunBound'
  BY BoundOfBeginning DEF RunInv
<1>8. QED  BY <1>2, <1>3, <1>4, <1>5, <1>6, <1>7 DEF RunInv

LEMMA ControlStages ==
  ASSUME Base, RunInv, Control PROVE ControlTypeOK' /\ Stages'
<1>1. stopped' = stopped
  BY ControlQueue DEF QueueStep
<1>2. ControlTypeOK /\ Stages
  BY DEF RunInv
<1> USE <1>1, <1>2 DEF ControlTypeOK, Stages, RunnerAt, control
<1>3. CASE StartWorkers
  BY <1>3 DEF StartWorkers, vars
<1>4. CASE StartFails
  BY <1>4 DEF StartFails, Raise, vars
<1>5. CASE ConsumersReady \/ WarmupPublished \/ WorkersStopped
  BY <1>5 DEF ConsumersReady, WarmupPublished, WorkersStopped, vars
<1>6. CASE ConsumersTimeout
  BY <1>6 DEF ConsumersTimeout, Raise, vars
<1>7. CASE PublishFails
  BY <1>7 DEF PublishFails, Publishing, Raise, vars
<1>8. CASE PublishOne
  BY <1>8 DEF PublishOne, vars
<1>9. CASE MeasuredPublished
  BY <1>9 DEF MeasuredPublished, MeasurementEnds, RunnerStep
<1>10. CASE Read
  BY <1>10 DEF Read, Drained, ReportSamples, ReadCount, ReadSlot, RunnerStep
<1>11. CASE TimeOver
  BY <1>11 DEF TimeOver, Deadline, RunnerStep
<1>12. CASE Purge
  BY <1>12 DEF Purge, vars, work
<1>13. CASE PrintReport
  BY <1>13 DEF PrintReport, PrintLatencies, RunnerStep
<1>14. CASE Cleanup
  BY <1>14 DEF Cleanup, vars
<1>15. QED
  BY <1>3, <1>4, <1>5, <1>6, <1>7, <1>8, <1>9, <1>10, <1>11, <1>12, <1>13, <1>14
  DEF Control

(* The purge takes from in hand what no worker has, and is made before the *)
(* count is reported.                                                      *)
LEMMA ControlInHand ==
  ASSUME Base, RunInv, Control PROVE InHandCovers' /\ LateInHand'
<1>1. QueueStep /\ count' = count /\ slot' = slot /\ taken' = taken
  BY ControlQueue
<1>2. inHand' = inHand => InHandCovers'
  BY <1>1 DEF QueueStep, RunInv, InHandCovers, Queue!Unacked
<1>3. inHand' = inHand \/ Purge
  BY DEF Control, StartWorkers, StartFails, Raise, ConsumersReady, ConsumersTimeout, PublishOne,
     PublishFails, WarmupPublished, MeasuredPublished, Read, TimeOver, PrintReport,
     WorkersStopped, Cleanup, control
<1>4. CASE Purge /\ inHand' # inHand
  <2>1. /\ Queue!PurgeQueue
        /\ inHand' = {m \in Messages : Queue!Unacked(m)}
        /\ phase = "purge" /\ runner' = runner
    BY <1>4 DEF Purge, RunnerAt, vars
  <2>2. InHandCovers'
    BY <2>1 DEF Queue!PurgeQueue, Queue!Drop, InHandCovers, Queue!Unacked
  <2>3. LateInHand'
    BY <2>1 DEF RunInv, Stages, LateInHand
  <2>4. QED  BY <2>2, <2>3
<1>5. CASE inHand' = inHand
  <2>1. CASE runner \in {"reopen", "slots", "printed"}
    <3>1. samples' = samples
      BY <2>1 DEF Control, StartWorkers, StartFails, Raise, ConsumersReady, ConsumersTimeout,
         PublishOne, PublishFails, WarmupPublished, MeasuredPublished, MeasurementEnds, Read,
         Drained, ReportSamples, ReadCount, ReadSlot, TimeOver, Deadline, Purge, PrintReport,
         PrintLatencies, RunnerStep, WorkersStopped, Cleanup, vars
    <3>2. \A i \in samples..(count - 1) : MessageOf(slot[i]) \in inHand
      BY <2>1 DEF RunInv, LateInHand
    <3>3. LateInHand'
      BY <1>1, <1>5, <3>1, <3>2 DEF LateInHand, MessageOf
    <3>4. QED  BY <1>2, <1>5, <3>3
  <2>2. CASE runner \notin {"reopen", "slots", "printed"}
    <3>1. runner' \in {"reopen", "slots", "printed"} => samples' = count
      BY <2>2 DEF Control, StartWorkers, StartFails, Raise, ConsumersReady, ConsumersTimeout,
         PublishOne, PublishFails, WarmupPublished, MeasuredPublished, MeasurementEnds, Read,
         Drained, ReportSamples, ReadCount, ReadSlot, TimeOver, Deadline, Purge, PrintReport,
         PrintLatencies, RunnerStep, WorkersStopped, Cleanup, vars
    <3>2. count \in Nat
      BY BaseTypes
    <3>3. LateInHand'
      BY <1>1, <3>1, <3>2 DEF LateInHand
    <3>4. QED  BY <1>2, <1>5, <3>3
  <2>3. QED  BY <2>1, <2>2
<1>6. QED  BY <1>3, <1>4, <1>5

LEMMA ControlKeeps == ASSUME Base, RunInv, Control PROVE RunInv'
<1>1. QueueStep /\ UNCHANGED <<count, slot, lock, pc, idx, made, taken>>
  BY ControlQueue
<1>2. Busy'
  <2>1. /\ alive \subseteq alive'
        /\ \A m \in Messages : loc[m] = "delivered" /\ by[m] \in alive =>
             loc'[m] = "delivered" /\ by'[m] = by[m]
    BY <1>1 DEF QueueStep, Queue!Unacked
  <2>2. \A w \in Workers : Recording(w) => taken[w][made[w]] \in Messages
    BY BaseTypes DEF RunInv, Busy, Messages
  <2>3. QED  BY <1>1, <2>1, <2>2 DEF RunInv, Busy, Recording
<1>3. TakenOnce'
  BY <1>1 DEF RunInv, TakenOnce
<1>4. BegunMessages' = BegunMessages
  BY <1>1 DEF BegunMessages, Taken
<1>5. BegunMessages \subseteq Messages /\ BegunSent
  BY DEF BegunMessages, Messages, RunInv
<1>6. BegunSent'
  BY <1>1, <1>4, <1>5 DEF BegunSent, QueueStep
<1>7. Again' \subseteq Again
  BY <1>1, <1>4, <1>5 DEF BegunSent, QueueStep, Again, Queue!Unacked, Taken
<1>8. BegunBound'
  BY <1>1, <1>7, BoundKept DEF QueueStep, RunInv
<1>9. QED  BY <1>2, <1>3, <1>6, <1>8, ControlStages, ControlInHand DEF RunInv

LEMMA BrokerKeeps == ASSUME Base, RunInv, Broker PROVE RunInv'
<1>1. /\ UNCHANGED <<vars, control, taken>> /\ UNCHANGED <<alive, crashed, stopped>>
      /\ \E m \in Messages :
           /\ \A x \in Messages : x # m => loc'[x] = loc[x] /\ by'[x] = by[x]
           /\ \/ loc[m] = "queued" /\ loc'[m] = "delivered"
              \/ loc[m] = "counted" /\ loc'[m] = "acked"
              \/ Queue!Unacked(m) /\ by[m] \notin alive /\ loc'[m] = "queued"
  <2>1. CASE Queue!Delivery
    <3>1. PICK w \in Workers, m \in Messages : Queue!Deliver(w, m)
      BY <2>1 DEF Queue!Delivery
    <3>2. QED  BY <3>1, BaseTypes DEF Queue!Deliver, Queue!processes, Broker
  <2>2. CASE Queue!Acknowledgement
    <3>1. PICK w \in Workers, m \in Messages : Queue!Ack(w, m)
      BY <2>2 DEF Queue!Acknowledgement
    <3>2. QED  BY <3>1, BaseTypes DEF Queue!Ack, Queue!processes, Broker
  <2>3. CASE Queue!Redelivery
    <3>1. PICK m \in Messages : Queue!Requeue(m)
      BY <2>3 DEF Queue!Redelivery
    <3>2. QED  BY <3>1, BaseTypes DEF Queue!Requeue, Queue!processes, Broker
  <2>4. QED  BY <2>1, <2>2, <2>3 DEF Broker
<1>2. PICK m \in Messages :
           /\ \A x \in Messages : x # m => loc'[x] = loc[x] /\ by'[x] = by[x]
           /\ \/ loc[m] = "queued" /\ loc'[m] = "delivered"
              \/ loc[m] = "counted" /\ loc'[m] = "acked"
              \/ Queue!Unacked(m) /\ by[m] \notin alive /\ loc'[m] = "queued"
  BY <1>1
<1>3. UNCHANGED <<pc, made, slot, count, samples, runner, phase, raised, inHand, taken>>
  BY <1>1 DEF vars, control
<1>4. ControlTypeOK' /\ Stages' /\ TakenOnce' /\ LateInHand'
  BY <1>1, <1>3 DEF RunInv, ControlTypeOK, Stages, TakenOnce, LateInHand, MessageOf
<1>5. Busy'
  <2>1. \A w \in Workers : Recording(w) => taken[w][made[w]] \in Messages \ {m}
    BY <1>2, BaseTypes DEF RunInv, Busy, Messages, Queue!Unacked
  <2>2. QED  BY <1>1, <1>2, <1>3, <2>1 DEF RunInv, Busy, Recording
<1>6. InHandCovers'
  BY <1>2, <1>3 DEF RunInv, InHandCovers, Queue!Unacked
<1>7. BegunMessages' = BegunMessages /\ BegunMessages \subseteq Messages
  BY <1>3 DEF BegunMessages, Taken, Messages
<1>8. BegunSent'
  BY <1>2, <1>7 DEF RunInv, BegunSent
<1>9. Again' \subseteq Again
  BY <1>1, <1>2, <1>3, <1>7 DEF Again, Queue!Unacked, Taken
<1>10. BegunBound'
  BY <1>1, <1>3, <1>9, BoundKept DEF RunInv
<1>11. QED  BY <1>4, <1>5, <1>6, <1>8, <1>10 DEF RunInv

(* A task is counted when its recording is over.                           *)
LEMMA CountingKeeps ==
  ASSUME Base, RunInv, NEW w \in Workers, NEW m \in Messages, TaskCounted(w, m)
  PROVE  RunInv'
<1>1. /\ UNCHANGED <<alive, crashed, stopped, by>>
      /\ loc[m] = "delivered" /\ by[m] = w /\ w \in alive /\ loc'[m] = "counted"
      /\ \A x \in Messages : x # m => loc'[x] = loc[x]
  BY BaseTypes DEF TaskCounted, Queue!RunTask, Queue!Count, Queue!processes
<1>2. UNCHANGED <<pc, made, slot, count, samples, runner, phase, raised, inHand, taken>>
  BY DEF TaskCounted, vars, control
<1>3. ControlTypeOK' /\ Stages' /\ TakenOnce' /\ LateInHand'
  BY <1>1, <1>2 DEF RunInv, ControlTypeOK, Stages, TakenOnce, LateInHand, MessageOf
<1>4. Busy'
  <2>1. \A v \in Workers : Recording(v) => taken[v][made[v]] \in Messages
    BY BaseTypes DEF RunInv, Busy, Messages
  <2>2. Recording(w) => taken[w][made[w]] # m
    <3>1. Len(taken[w]) = made[w] /\ Warmup \cap Measured = {}
      BY BaseTypes, LatencyRunAssumption
    <3>2. Recording(w) => taken[w][made[w]] \in Measured
      BY BaseTypes DEF RunInv, Busy
    <3>3. QED  BY <3>1, <3>2 DEF TaskCounted, Recorded, Recording
  <2>3. QED  BY <1>1, <1>2, <2>1, <2>2 DEF RunInv, Busy, Recording
<1>5. InHandCovers'
  BY <1>1, <1>2 DEF RunInv, InHandCovers, Queue!Unacked
<1>6. BegunMessages' = BegunMessages /\ BegunMessages \subseteq Messages
  BY <1>2 DEF BegunMessages, Taken, Messages
<1>7. BegunSent'
  BY <1>1, <1>6 DEF RunInv, BegunSent
<1>8. Again' \subseteq Again
  BY <1>1, <1>2, <1>6 DEF Again, Queue!Unacked, Taken
<1>9. BegunBound'
  BY <1>1, <1>2, <1>8, BoundKept DEF RunInv
<1>10. QED  BY <1>3, <1>4, <1>5, <1>7, <1>9 DEF RunInv

(* What is counted late is a sample of a message in hand: its worker has   *)
(* it when it counts the sample.                                           *)
LEMMA RecordingKeeps ==
  ASSUME Base, RunInv, NEW w \in Workers, Lock(w) \/ RecordingGoesOn(w) \/ Release(w)
  PROVE  RunInv'
<1>1. UNCHANGED work /\ UNCHANGED control /\ taken' = taken /\ made' = made
      /\ UNCHANGED reading
  BY DEF Lock, Release, RecordingGoesOn, Acquire, Unlock, RecordStep, LoadCount, WriteSlot,
     WriteCount
<1>2. UNCHANGED <<loc, by, alive, crashed, stopped, samples, runner, phase, raised, inHand>>
  BY <1>1 DEF work, control, reading
<1>3. \A v \in Workers : Recording(v)' => Recording(v)
  BY BaseTypes DEF Lock, Release, RecordingGoesOn, Acquire, Unlock, RecordStep, LoadCount,
     WriteSlot, WriteCount, Move, Recording
<1>4. ControlTypeOK' /\ Stages' /\ TakenOnce' /\ InHandCovers'
  BY <1>1, <1>2 DEF RunInv, ControlTypeOK, Stages, TakenOnce, InHandCovers, Queue!Unacked
<1>5. Busy'
  BY <1>1, <1>2, <1>3 DEF RunInv, Busy
<1>6. LateInHand'
  <2>1. /\ count \in Nat
        /\ \A i \in 0..(count - 1) : slot'[i] = slot[i]
    <3>1. [Next]_vars
      BY DEF Lock, Release, RecordingGoesOn, RecordStep, Next, Record
    <3>2. QED  BY <3>1, CountedSlotsKept DEF Base
  <2>2. samples \in Nat
    BY BaseTypes
  <2>3. CASE count' = count
    <3>1. \A i \in samples..(count - 1) : slot'[i] = slot[i]
      BY <2>1, <2>2
    <3>2. QED  BY <1>1, <1>2, <2>3, <3>1 DEF RunInv, LateInHand, MessageOf
  <2>4. CASE count' # count
    <3>1. WriteCount(w)
      BY <2>4 DEF Lock, Release, RecordingGoesOn, RecordStep, Acquire, Unlock, LoadCount,
         WriteSlot, file
    <3>2. /\ pc[w] = "written" /\ idx[w] = count /\ slot[count] = <<w, made[w]>>
          /\ count' = count + 1 /\ slot' = slot
      BY <3>1 DEF WriteCount, Move, Base, IInv, Locking, Sample
    <3>3. MessageOf(slot[count]) \in Messages /\ Queue!Unacked(MessageOf(slot[count]))
      <4>1. Recording(w)
        BY <3>2 DEF Recording
      <4>2. MessageOf(slot[count]) = taken[w][made[w]]
        BY <3>2 DEF MessageOf
      <4>3. QED  BY <4>1, <4>2, BaseTypes DEF RunInv, Busy, Messages, Queue!Unacked
    <3>4. MessageOf(slot[count]) \in inHand
      BY <3>3 DEF RunInv, InHandCovers
    <3>5. \A i \in samples..(count' - 1) : i \in samples..(count - 1) \/ i = count
      BY <2>1, <2>2, <3>2
    <3>6. QED  BY <1>1, <1>2, <3>2, <3>4, <3>5 DEF RunInv, LateInHand, MessageOf
  <2>5. QED  BY <2>3, <2>4
<1>7. BegunMessages' = BegunMessages
  BY <1>1 DEF BegunMessages, Taken
<1>8. BegunSent' /\ Again' \subseteq Again
  BY <1>1, <1>2, <1>7 DEF RunInv, BegunSent, Again, Queue!Unacked, Taken
<1>9. BegunBound'
  BY <1>1, <1>2, <1>8, BoundKept DEF RunInv
<1>10. QED  BY <1>4, <1>5, <1>6, <1>8, <1>9 DEF RunInv

LEMMA EndingKeeps ==
  ASSUME Base, RunInv, NEW w \in Workers, StopWorker(w) \/ WorkerDies(w)
  PROVE  RunInv'
<1> DEFINE Ends == /\ w \in alive /\ alive' = alive \ {w} /\ by' = by
                   /\ crashed' \cup stopped' = (crashed \cup stopped) \cup {w}
                   /\ stopped' # stopped => phase = "stopping"
                   /\ \A m \in Messages :
                        \/ loc'[m] = loc[m]
                        \/ loc[m] = "delivered" /\ loc'[m] = "counted" /\ by[m] = w
<1>1. Ends
  <2>1. CASE StopWorker(w) \/ (Queue!Crash(w) /\ WorkerDies(w))
    BY <2>1 DEF StopWorker, WorkerDies, Queue!Stop, Queue!Crash, Queue!End, Queue!queue
  <2>2. ASSUME NEW m \in Messages, Queue!CrashInLock(w, m), WorkerDies(w)
        PROVE  Ends
    BY <2>2, BaseTypes DEF WorkerDies, Queue!CrashInLock, Queue!End, Queue!Count
  <2>3. CASE WorkerDies(w) /\ ~Queue!Crash(w)
    <3>1. \E m \in Messages : Queue!CrashInLock(w, m)
      BY <2>3 DEF WorkerDies
    <3>2. QED  BY <2>2, <2>3, <3>1
  <2> HIDE DEF Ends
  <2>4. QED  BY <2>1, <2>3
<1>2. /\ taken' = taken /\ made' = made /\ count' = count /\ slot' = slot
      /\ samples' = samples /\ runner' = runner
      /\ phase' = phase /\ raised' = raised /\ inHand' = inHand
  BY DEF StopWorker, WorkerDies, Crash, file, reading, control
<1>3. \A v \in Workers : Recording(v)' => Recording(v) /\ v # w
  BY BaseTypes DEF StopWorker, WorkerDies, Crash, Recording
<1>4. ControlTypeOK' /\ Stages' /\ TakenOnce' /\ InHandCovers' /\ LateInHand'
  <2>1. ControlTypeOK' /\ Stages' /\ TakenOnce' /\ LateInHand'
    BY <1>1, <1>2 DEF RunInv, ControlTypeOK, Stages, TakenOnce, LateInHand, MessageOf
  <2>2. InHandCovers'
    BY <1>1, <1>2 DEF RunInv, InHandCovers, Queue!Unacked
  <2>3. QED  BY <2>1, <2>2
<1>5. Busy'
  <2>1. \A v \in Workers : Recording(v) => taken[v][made[v]] \in Messages
    BY BaseTypes DEF RunInv, Busy, Messages
  <2>2. QED  BY <1>1, <1>2, <1>3, <2>1 DEF RunInv, Busy
<1>6. BegunSent'
  <2>1. BegunMessages' = BegunMessages /\ BegunMessages \subseteq Messages
    BY <1>2 DEF BegunMessages, Taken, Messages
  <2>2. QED  BY <1>1, <2>1 DEF RunInv, BegunSent
<1>7. BegunBound'
  BY <1>1, <1>2, BoundOfEnded
<1>8. QED  BY <1>4, <1>5, <1>6, <1>7 DEF RunInv

LEMMA RunInvKept ==
  ASSUME Base, Base', RunInv, [LatencyNext]_latencyVars PROVE RunInv'
<1>1. CASE UNCHANGED latencyVars
  <2>1. UNCHANGED <<pc, made, slot, count, samples, runner, phase, raised, inHand, taken,
                    loc, by, alive, crashed, stopped>>
    BY <1>1 DEF latencyVars, vars, work, control
  <2>2. Again' \subseteq Again
    BY <2>1 DEF Again, BegunMessages, Queue!Unacked, Taken
  <2>3. BegunBound'
    BY <2>1, <2>2, BoundKept DEF RunInv
  <2>4. QED
    BY <2>1, <2>3 DEF RunInv, ControlTypeOK, Stages, Busy, Recording, TakenOnce, InHandCovers,
       Queue!Unacked, LateInHand, MessageOf, BegunSent, BegunMessages, Taken
<1>2. ASSUME NEW w \in Workers, Worker(w) PROVE RunInv'
  BY <1>2, BeginningKeeps, CountingKeeps, RecordingKeeps, EndingKeeps DEF Worker
<1>3. QED  BY <1>1, <1>2, ControlKeeps, BrokerKeeps DEF LatencyNext

LEMMA InitRunInv == LatencyInit => RunInv
<1> SUFFICES ASSUME LatencyInit PROVE RunInv
  OBVIOUS
<1>1. \A w \in Workers : Taken(w) = {}
  BY DEF LatencyInit, Taken
<1>2. Begun = {} /\ BegunMessages = {} /\ Again = {} /\ crashed \cup stopped = {}
  BY <1>1 DEF Begun, BegunMessages, Again, LatencyInit, Queue!InitWork
<1>3. ControlTypeOK /\ Stages /\ InHandCovers /\ LateInHand
  BY DEF LatencyInit, Init, Queue!InitWork, ControlTypeOK, Stages, InHandCovers, LateInHand
<1>4. Busy /\ TakenOnce
  BY DEF LatencyInit, Init, Busy, Recording, TakenOnce
<1>5. BegunSent
  BY <1>2 DEF BegunSent
<1>6. BegunBound
  <2>1. Cardinality({}) = 0 /\ Prefetch * 0 = 0
    BY FS_EmptySet, LatencyRunAssumption
  <2>2. /\ Cardinality(Begun) = 0 /\ Cardinality(Again) = 0
        /\ Cardinality(BegunMessages) = 0 /\ Cardinality(crashed \cup stopped) = 0
    BY <1>2, <2>1
  <2>3. QED  BY <2>1, <2>2 DEF BegunBound
<1>7. QED  BY <1>3, <1>4, <1>5, <1>6 DEF RunInv

LEMMA RunInvariance == LatencySpec => [](Base /\ RunInv)
<1>1. LatencySpec => []Base
  BY RunUsesTheFile, Invariance, TakenInvariance, FlockInvariance, QueueInvariance, PTL DEF Base
<1>2. Base /\ Base' /\ RunInv /\ [LatencyNext]_latencyVars => RunInv'
  BY RunInvKept
<1>3. QED  BY InitRunInv, <1>1, <1>2, PTL DEF LatencySpec

(***************************************************************************)
(* The consequence of the bound for the slots of a piece of the file: all  *)
(* but a few of its samples are of different messages.                     *)
(***************************************************************************)
LEMMA ImageSmaller ==
  ASSUME NEW S, NEW T, NEW f \in [S -> T], IsFiniteSet(S), \A t \in T : \E s \in S : f[s] = t
  PROVE  IsFiniteSet(T) /\ Cardinality(T) <= Cardinality(S)
<1>1. f \in Surjection(S, T)
  BY DEF Surjection
<1>2. QED  BY <1>1, FS_Surjection

LEMMA InjectionLarger ==
  ASSUME NEW S, NEW T, NEW f \in [S -> T], IsFiniteSet(T),
         \A s, t \in S : f[s] = f[t] => s = t
  PROVE  Cardinality(S) <= Cardinality(T)
<1>1. f \in Injection(S, T)
  BY DEF Injection, IsInjective
<1>2. QED  BY <1>1, FS_Injection

LEMMA FewTwice ==
  ASSUME Base, RunInv, NEW R \in SUBSET Begun
  PROVE  Cardinality(R) <= Cardinality({p[2] : p \in R})
                             + Prefetch * Cardinality(crashed \cup stopped)
<1> DEFINE Rest == Begun \ R
           M == {p[2] : p \in R}
           MR == {p[2] : p \in Rest}
           b == Cardinality(Begun)
           r == Cardinality(R)
           s == Cardinality(Rest)
           m == Cardinality(M)
           mr == Cardinality(MR)
           m0 == Cardinality(BegunMessages)
           u == Cardinality(M \cup MR)
           a == Cardinality(Again)
           p0 == Prefetch * Cardinality(crashed \cup stopped)
<1>1. /\ Begun \in SUBSET (Workers \X Measured) /\ Rest \in SUBSET (Workers \X Measured)
      /\ R \in SUBSET (Workers \X Measured)
      /\ M \in SUBSET Measured /\ MR \in SUBSET Measured
      /\ BegunMessages \in SUBSET Measured /\ Again \in SUBSET Measured
      /\ crashed \cup stopped \in SUBSET Workers
  BY BaseTypes DEF Begun, BegunMessages, Again
<1>2. /\ b \in Nat /\ r \in Nat /\ s \in Nat /\ m \in Nat /\ mr \in Nat /\ m0 \in Nat /\ a \in Nat
      /\ IsFiniteSet(Begun) /\ IsFiniteSet(R) /\ IsFiniteSet(Rest)
      /\ IsFiniteSet(M) /\ IsFiniteSet(MR)
      /\ Cardinality(crashed \cup stopped) \in Nat /\ Prefetch \in Nat
  BY <1>1, FiniteParts, LatencyRunAssumption
<1>3. p0 \in Nat
  BY <1>2
<1>4. s = b - r
  <2>1. Begun \cap R = R
    OBVIOUS
  <2>2. QED  BY <1>2, <2>1, FS_Difference
<1>5. mr <= s
  <2>1. [p \in Rest |-> p[2]] \in [Rest -> MR]
    OBVIOUS
  <2>2. \A t \in MR : \E p \in Rest : [q \in Rest |-> q[2]][p] = t
    OBVIOUS
  <2> HIDE DEF Rest, MR
  <2>3. QED  BY <1>2, <2>1, <2>2, ImageSmaller
<1>6. m0 <= u /\ u <= m + mr /\ u \in Nat
  <2>1. BegunMessages \subseteq M \cup MR
    <3> SUFFICES ASSUME NEW x \in BegunMessages PROVE x \in M \cup MR
      OBVIOUS
    <3>1. PICK w \in Workers : x \in Taken(w)
      BY DEF BegunMessages
    <3>2. <<w, x>> \in Begun
      BY <3>1 DEF Begun, BegunMessages
    <3>3. CASE <<w, x>> \in R
      BY <3>3
    <3>4. CASE <<w, x>> \in Rest
      BY <3>4
    <3>5. QED  BY <3>2, <3>3, <3>4
  <2>2. IsFiniteSet(M \cup MR) /\ u \in Nat /\ u <= m + mr
    BY <1>2, SmallUnion
  <2>3. QED  BY <2>1, <2>2, SmallerSet
<1>7. b + a <= m0 + p0
  BY DEF RunInv, BegunBound
<1> HIDE DEF Rest, MR, b, r, s, m, mr, m0, u, a, p0
<1>8. r <= m + p0
  BY <1>2, <1>3, <1>4, <1>5, <1>6, <1>7
<1>9. QED  BY <1>8 DEF r, m, p0

LEMMA SlotsOfMessages ==
  ASSUME Base, RunInv, NEW from \in Nat, NEW to \in Nat, from <= to, to <= count
  PROVE  to - from <= Cardinality({MessageOf(slot[i]) : i \in from..(to - 1)})
                        + Prefetch * Cardinality(crashed \cup stopped)
<1> DEFINE I == from..(to - 1)
           pair(i) == <<slot[i][1], MessageOf(slot[i])>>
           R == {pair(i) : i \in I}
<1>1. \A i \in I : i \in 0..(count - 1)
  BY BaseTypes
<1>2. R \in SUBSET Begun
  BY <1>1, BaseTypes DEF Begun
<1>3. \A i, j \in I : pair(i) = pair(j) => i = j
  <2> SUFFICES ASSUME NEW i \in I, NEW j \in I, pair(i) = pair(j) PROVE i = j
    OBVIOUS
  <2>1. i \in 0..(count - 1) /\ j \in 0..(count - 1)
    BY <1>1
  <2> HIDE DEF I
  <2>2. /\ slot[i] \in Workers \X Nat /\ slot[j] \in Workers \X Nat
        /\ slot[i][2] \in 1..made[slot[i][1]] /\ slot[j][2] \in 1..made[slot[j][1]]
    BY <2>1, BaseTypes DEF Samples
  <2>3. slot[i][1] = slot[j][1] /\ MessageOf(slot[i]) = MessageOf(slot[j])
    OBVIOUS
  <2>4. slot[i][2] = slot[j][2]
    BY <2>2, <2>3 DEF MessageOf, RunInv, TakenOnce
  <2>5. slot[i] = slot[j]
    BY <2>2, <2>3, <2>4
  <2>6. QED  BY <2>1, <2>5 DEF Base, IInv, CountedSlotsAreSamples
<1>4. Cardinality(I) = to - from
  <2>1. from \in Int /\ to - 1 \in Int
    OBVIOUS
  <2>2. Cardinality(from..(to - 1)) = IF from > to - 1 THEN 0 ELSE (to - 1) - from + 1
    BY <2>1, FS_Interval
  <2>3. QED  BY <2>2
<1>5. Cardinality(I) <= Cardinality(R)
  <2>1. [i \in I |-> pair(i)] \in [I -> R]
    OBVIOUS
  <2>2. \A i, j \in I : [k \in I |-> pair(k)][i] = [k \in I |-> pair(k)][j] => i = j
    BY <1>3
  <2>3. IsFiniteSet(R)
    <3>1. R \in SUBSET (Workers \X Measured)
      BY <1>2 DEF Begun
    <3> HIDE DEF R
    <3>2. QED  BY <3>1, FiniteParts
  <2> HIDE DEF I, pair, R
  <2>4. QED  BY <2>1, <2>2, <2>3, InjectionLarger
<1>6. {p[2] : p \in R} = {MessageOf(slot[i]) : i \in I}
  <2>1. \A i \in I : pair(i)[2] = MessageOf(slot[i])
    OBVIOUS
  <2>2. {p[2] : p \in R} = {pair(i)[2] : i \in I}
    <3> HIDE DEF I, pair
    <3>1. QED  OBVIOUS
  <2>3. QED  BY <2>1, <2>2
<1> DEFINE r == Cardinality(R)
           m == Cardinality({MessageOf(slot[i]) : i \in I})
           p0 == Prefetch * Cardinality(crashed \cup stopped)
<1>7. r <= m + p0
  BY <1>2, <1>6, FewTwice
<1>8. r \in Nat /\ m \in Nat /\ p0 \in Nat
  <2>1. /\ R \in SUBSET (Workers \X Measured)
        /\ {MessageOf(slot[i]) : i \in I} \in SUBSET Measured
        /\ crashed \cup stopped \in SUBSET Workers
    BY <1>1, <1>2, BaseTypes DEF Begun
  <2> HIDE DEF R, I
  <2>2. r \in Nat /\ m \in Nat /\ Cardinality(crashed \cup stopped) \in Nat
    BY <2>1, FiniteParts
  <2>3. QED  BY <2>2, LatencyRunAssumption
<1> HIDE DEF r, p0
<1>9. to - from <= m + p0
  BY <1>4, <1>5, <1>7, <1>8 DEF r
<1>10. QED  BY <1>9 DEF p0

(* What has been reported are the messages of the first slots.             *)
LEMMA ReportedSlots ==
  ASSUME Base
  PROVE  /\ Len(latencies) \in Nat /\ Len(latencies) <= count
         /\ Reported = {MessageOf(slot[i]) : i \in 0..(Len(latencies) - 1)}
         /\ \A i \in 1..Len(latencies) : i - 1 \in 0..(count - 1) /\ latencies[i] = slot[i - 1]
<1>1. /\ Len(latencies) \in Nat /\ count \in Nat
      /\ Len(latencies) <= count
      /\ \A i \in 1..Len(latencies) : latencies[i] = slot[i - 1]
  BY DEF Base, IInv, TypeOK, Reading, Numbers, Progress, ReadSoFar
<1>2. Reported = {MessageOf(slot[i - 1]) : i \in 1..Len(latencies)}
  BY <1>1 DEF Reported
<1>3. \A x : (\E i \in 1..Len(latencies) : x = MessageOf(slot[i - 1]))
             <=> (\E i \in 0..(Len(latencies) - 1) : x = MessageOf(slot[i]))
  <2> SUFFICES ASSUME NEW x
               PROVE  (\E i \in 1..Len(latencies) : x = MessageOf(slot[i - 1]))
                      <=> (\E i \in 0..(Len(latencies) - 1) : x = MessageOf(slot[i]))
    OBVIOUS
  <2>1. ASSUME NEW i \in 1..Len(latencies), x = MessageOf(slot[i - 1])
        PROVE  \E j \in 0..(Len(latencies) - 1) : x = MessageOf(slot[j])
    <3>1. i - 1 \in 0..(Len(latencies) - 1)
      BY <1>1
    <3>2. QED  BY <2>1, <3>1
  <2>2. ASSUME NEW i \in 0..(Len(latencies) - 1), x = MessageOf(slot[i])
        PROVE  \E j \in 1..Len(latencies) : x = MessageOf(slot[j - 1])
    <3>1. i + 1 \in 1..Len(latencies) /\ (i + 1) - 1 = i
      BY <1>1
    <3>2. QED  BY <2>2, <3>1
  <2>3. QED  BY <2>1, <2>2
<1>4. Reported = {MessageOf(slot[i]) : i \in 0..(Len(latencies) - 1)}
  BY <1>2, <1>3
<1>5. QED  BY <1>1, <1>4

(* An ok run samples all its messages when it prints.                      *)
LEMMA SampledAll ==
  ASSUME Base, RunInv, stopped = {}, Len(latencies) = Capacity
  PROVE  Cardinality(Measured \ Reported) <= Prefetch * Cardinality(crashed)
<1> DEFINE r == Cardinality(Reported)
           p0 == Prefetch * Cardinality(crashed)
<1>1. Capacity \in Nat /\ Capacity = Cardinality(Measured) /\ IsFiniteSet(Measured)
  BY LatencyAssumption, LatencyRunAssumption
<1>2. Capacity - 0 <= Cardinality({MessageOf(slot[i]) : i \in 0..(Capacity - 1)})
                      + Prefetch * Cardinality(crashed \cup stopped)
  <2>1. 0 \in Nat /\ Capacity \in Nat /\ 0 <= Capacity /\ Capacity <= count
    BY <1>1, ReportedSlots
  <2>2. QED  BY <2>1, SlotsOfMessages, Zenon
<1>3. crashed \cup stopped = crashed
  OBVIOUS
<1>4. Capacity - 0 <= r + p0
  BY <1>2, <1>3, ReportedSlots
<1>5. Reported \subseteq Measured
  BY ReportedSlots, BaseTypes
<1>6. /\ Cardinality(Measured \ Reported) = Capacity - r
      /\ r \in Nat /\ p0 \in Nat
  <2>1. Cardinality(Measured \ Reported) = Capacity - r
    <3>1. Measured \cap Reported = Reported
      BY <1>5
    <3>2. Cardinality(Measured \ Reported)
            = Cardinality(Measured) - Cardinality(Measured \cap Reported)
      BY <1>1, FS_Difference
    <3>3. QED  BY <1>1, <3>1, <3>2
  <2>2. r \in Nat /\ Cardinality(crashed) \in Nat
    BY <1>5, BaseTypes, FiniteParts
  <2>3. p0 \in Nat
    BY <2>2, LatencyRunAssumption
  <2>4. QED  BY <2>1, <2>2, <2>3
<1> HIDE DEF r, p0
<1>7. Capacity - r <= p0
  BY <1>1, <1>4, <1>6
<1>8. QED  BY <1>6, <1>7 DEF p0

(* What is counted after the report was in hand.                           *)
LEMMA CountedLate ==
  ASSUME Base, RunInv, stopped = {}, runner = "reopen"
  PROVE  count <= samples + Cardinality(inHand \cap Measured) + Prefetch * Cardinality(crashed)
<1> DEFINE Late == {MessageOf(slot[i]) : i \in samples..(count - 1)}
           l == Cardinality(Late)
           h == Cardinality(inHand \cap Measured)
           p0 == Prefetch * Cardinality(crashed)
<1>1. samples \in Nat /\ count \in Nat /\ samples <= count /\ count <= count
  BY DEF Base, IInv, TypeOK, Reading, Numbers
<1>2. crashed \cup stopped = crashed
  OBVIOUS
<1>3. count - samples <= l + p0
  <2>1. count - samples <= l + Prefetch * Cardinality(crashed \cup stopped)
    BY <1>1, SlotsOfMessages, Zenon
  <2>2. QED  BY <1>2, <2>1
<1>4. Late \subseteq inHand \cap Measured
  <2>1. \A i \in samples..(count - 1) : i \in 0..(count - 1)
    BY <1>1
  <2>2. \A i \in samples..(count - 1) : MessageOf(slot[i]) \in Measured
    BY <2>1, BaseTypes
  <2>3. \A i \in samples..(count - 1) : MessageOf(slot[i]) \in inHand
    BY DEF RunInv, LateInHand
  <2>4. QED  BY <2>2, <2>3
<1>5. l \in Nat /\ h \in Nat /\ l <= h
  <2>1. IsFiniteSet(inHand \cap Measured)
    BY FiniteParts
  <2> HIDE DEF Late
  <2>2. QED  BY <1>4, <2>1, SmallerSet
<1>6. p0 \in Nat
  <2>1. Cardinality(crashed) \in Nat
    BY BaseTypes, FiniteParts
  <2>2. QED  BY <2>1, LatencyRunAssumption
<1> HIDE DEF Late, l, h, p0
<1>7. count <= samples + h + p0
  BY <1>1, <1>3, <1>5, <1>6
<1>8. QED  BY <1>7 DEF h, p0

LEMMA ProductGrows ==
  \A p, a, b \in Nat : a <= b => p * a \in Nat /\ p * b \in Nat /\ p * a <= p * b
<1> SUFFICES ASSUME NEW p \in Nat, NEW a \in Nat, NEW b \in Nat, a <= b
             PROVE  p * a \in Nat /\ p * b \in Nat /\ p * a <= p * b
  OBVIOUS
<1>1. PICK d \in Nat : b = a + d
  <2>1. b - a \in Nat /\ b = a + (b - a)
    OBVIOUS
  <2>2. QED  BY <2>1
<1>2. p * a \in Nat /\ p * d \in Nat /\ p * b = p * a + p * d
  BY <1>1
<1>3. QED  BY <1>2

(* The bounds allow no less when workers die.                              *)
LEMMA RoomGrows ==
  ASSUME Base, Base', [LatencyNext]_latencyVars
  PROVE  /\ Prefetch * Cardinality(crashed) \in Nat
         /\ Prefetch * Cardinality(crashed)' \in Nat
         /\ Prefetch * Cardinality(crashed) <= Prefetch * Cardinality(crashed)'
<1>1. crashed \subseteq crashed'
  BY RunIsWork, QueueAssumption, WQ!WorkGrows DEF Base, WQ!Grows
<1>2. crashed' \subseteq Workers
  BY DEF Base, WQ!WorkInv, WQ!WorkTypeOK
<1>3. /\ Cardinality(crashed) \in Nat /\ Cardinality(crashed)' \in Nat
      /\ Cardinality(crashed) <= Cardinality(crashed)'
  BY <1>1, <1>2, FiniteParts, SmallerSet
<1>4. QED  BY <1>3, ProductGrows, LatencyRunAssumption

(* What is printed is kept: the messages of the latencies read are those   *)
(* they were of.                                                           *)
LEMMA ReportKept ==
  ASSUME Base, Base', RunInv, [LatencyNext]_latencyVars, latencies' = latencies
  PROVE  Reported' = Reported
<1>1. \A w \in Workers : \A k \in 1..made[w] : taken'[w][k] = taken[w][k]
  <2>1. (\E w \in Workers, m \in Messages : TaskEnds(w, m)) \/ taken' = taken
    BY ControlQueue DEF LatencyNext, latencyVars, Broker, Worker, TaskCounted, Lock,
       RecordingGoesOn, Release, StopWorker, WorkerDies
  <2>2. QED  BY <2>1, Beginning
<1>2. \A i \in 1..Len(latencies) : /\ latencies[i][1] \in Workers
                                   /\ latencies[i][2] \in 1..made[latencies[i][1]]
  BY ReportedSlots, BaseTypes
<1>3. \A i \in 1..Len(latencies) : MessageOf(latencies[i])' = MessageOf(latencies[i])
  BY <1>1, <1>2 DEF MessageOf
<1>4. QED  BY <1>3 DEF Reported

LEMMA SumWithRoom ==
  \A a, b, c, d, e \in Nat : a <= b + c + d /\ d <= e => a <= b + c + e
  OBVIOUS

Bounds == OkRunSamplesAll /\ LateSamplesAreUnacked

LEMMA BoundsKept ==
  ASSUME Base, Base', RunInv, RunInv', Bounds, [LatencyNext]_latencyVars PROVE Bounds'
<1> DEFINE p0 == Prefetch * Cardinality(crashed)
           u == Cardinality(Measured \ Reported)
           h == Cardinality(inHand \cap Measured)
<1>1. p0 \in Nat /\ p0' \in Nat /\ p0 <= p0'
  BY RoomGrows
<1>2. /\ u \in Nat /\ h \in Nat /\ n \in Nat /\ samples \in Nat
  <2>1. Measured \ Reported \in SUBSET Measured /\ inHand \cap Measured \in SUBSET Measured
    OBVIOUS
  <2>2. u \in Nat /\ h \in Nat
    BY <2>1, FiniteParts
  <2>3. QED  BY <2>2 DEF Base, IInv, TypeOK
<1>3. CASE Read /\ ReadCount
  <2>1. /\ phase = "read" /\ runner = "reopen" /\ runner' = "slots" /\ n' = count
        /\ samples' = samples /\ inHand' = inHand /\ crashed' = crashed
    BY <1>3 DEF Read, ReadCount, RunnerStep, control, work
  <2>2. stopped = {}
    BY <2>1 DEF RunInv, Stages
  <2>3. count <= samples + h + p0
    BY <2>1, <2>2, CountedLate
  <2>4. LateSamplesAreUnacked'
    BY <2>1, <2>3 DEF LateSamplesAreUnacked
  <2>5. QED  BY <2>1, <2>4 DEF Bounds, OkRunSamplesAll
<1>4. ASSUME runner \in {"slots", "printed"} PROVE LateSamplesAreUnacked'
  <2>1. n' = n /\ samples' = samples /\ inHand' = inHand
    BY <1>4
    DEF RunInv, Stages, LatencyNext, latencyVars, vars, control, Control, StartWorkers,
        StartFails, Raise, ConsumersReady, ConsumersTimeout, PublishOne, PublishFails,
        WarmupPublished, MeasuredPublished, MeasurementEnds, Read, Drained, ReportSamples,
        ReadCount, ReadSlot, TimeOver, Deadline, Purge, RunnerAt, PrintReport, PrintLatencies,
        RunnerStep, WorkersStopped, Cleanup, Broker, Worker, TaskEnds, FinishTask, TaskCounted,
        Lock, Acquire, RecordingGoesOn, RecordStep, LoadCount, WriteSlot, WriteCount, Release,
        Unlock, StopWorker, WorkerDies, Crash, reading
  <2>2. n <= samples + h + p0
    BY <1>4 DEF Bounds, LateSamplesAreUnacked
  <2>3. h' = h
    BY <2>1
  <2> HIDE DEF h, p0
  <2>4. n <= samples + h + p0'
    BY <1>1, <1>2, <2>2, SumWithRoom
  <2>5. n' <= samples' + h' + p0'
    BY <2>1, <2>3, <2>4
  <2>6. QED  BY <2>5 DEF LateSamplesAreUnacked, h, p0
<1>5. CASE PrintReport
  <2>1. /\ phase = "read" /\ runner = "slots" /\ runner' = "printed" /\ Len(latencies) = n
        /\ status' = status /\ latencies' = latencies /\ crashed' = crashed
    BY <1>5 DEF PrintReport, PrintLatencies, RunnerAt, RunnerStep, work
  <2>2. stopped = {}
    BY <2>1 DEF RunInv, Stages
  <2>3. status = "ok" => Len(latencies) = Capacity
    BY <2>1, LatencyAssumption
    DEF Base, IInv, TypeOK, CountedSlotsAreSamples, Reading, Numbers
  <2>4. status = "ok" => u <= p0
    BY <2>2, <2>3, SampledAll
  <2>5. Reported' = Reported
    BY <2>1, ReportKept
  <2>6. OkRunSamplesAll'
    BY <2>1, <2>4, <2>5 DEF OkRunSamplesAll
  <2>7. QED  BY <1>4, <2>1, <2>6 DEF Bounds
<1>6. CASE runner = "printed"
  <2>1. status' = status /\ latencies' = latencies
    BY <1>6
    DEF LatencyNext, latencyVars, vars, control, Control, StartWorkers,
        StartFails, Raise, ConsumersReady, ConsumersTimeout, PublishOne, PublishFails,
        WarmupPublished, MeasuredPublished, MeasurementEnds, Read, Drained, ReportSamples,
        ReadCount, ReadSlot, TimeOver, Deadline, Purge, PrintReport, PrintLatencies,
        RunnerStep, WorkersStopped, Cleanup, Broker, Worker, TaskEnds, FinishTask, TaskCounted,
        Lock, Acquire, RecordingGoesOn, RecordStep, LoadCount, WriteSlot, WriteCount, Release,
        Unlock, StopWorker, WorkerDies, Crash, reading
  <2>2. u' = u
    BY <2>1, ReportKept
  <2>3. status = "ok" => u <= p0
    BY <1>6 DEF Bounds, OkRunSamplesAll
  <2> HIDE DEF u, p0
  <2>4. status = "ok" => u' <= p0'
    BY <1>1, <1>2, <2>2, <2>3
  <2>5. OkRunSamplesAll'
    BY <2>1, <2>4 DEF OkRunSamplesAll, u, p0
  <2>6. QED  BY <1>4, <1>6, <2>5 DEF Bounds
<1>7. CASE runner # "printed" /\ ~(Read /\ ReadCount) /\ ~PrintReport
  <2>1. runner' # "printed" /\ (runner' = "slots" => runner = "slots")
    BY <1>7
    DEF LatencyNext, latencyVars, vars, control, Control, StartWorkers,
        StartFails, Raise, ConsumersReady, ConsumersTimeout, PublishOne, PublishFails,
        WarmupPublished, MeasuredPublished, MeasurementEnds, Read, Drained, ReportSamples,
        ReadSlot, TimeOver, Deadline, Purge,
        RunnerStep, WorkersStopped, Cleanup, Broker, Worker, TaskEnds, FinishTask, TaskCounted,
        Lock, Acquire, RecordingGoesOn, RecordStep, LoadCount, WriteSlot, WriteCount, Release,
        Unlock, StopWorker, WorkerDies, Crash, reading
  <2>2. QED  BY <1>4, <2>1 DEF Bounds, OkRunSamplesAll, LateSamplesAreUnacked
<1>8. QED  BY <1>3, <1>5, <1>6, <1>7

(* Every variable of a latency run keeps its type.                         *)
LEMMA RunTypes == Base /\ RunInv => LatencyTypeOK
<1> SUFFICES ASSUME Base, RunInv PROVE LatencyTypeOK
  OBVIOUS
<1>1. TypeOK
  BY DEF Base, IInv
<1>2. Queue!WorkTypeOK
  BY DEF Base, WQ!WorkInv, WQ!WorkTypeOK, Queue!WorkTypeOK
<1>3. taken \in [Workers -> Seq(Messages)]
  <2>1. taken \in [Workers -> Seq(Measured)] /\ Measured \subseteq Messages
    BY DEF Base, TakenInv, Messages
  <2>2. Seq(Measured) \subseteq Seq(Messages)
    BY <2>1
  <2>3. QED  BY <2>1, <2>2
<1>4. QED  BY <1>1, <1>2, <1>3 DEF RunInv, ControlTypeOK, LatencyTypeOK

LEMMA BoundsInvariance == LatencySpec => []Bounds
<1>1. LatencyInit => Bounds
  BY DEF LatencyInit, Init, Bounds, OkRunSamplesAll, LateSamplesAreUnacked
<1>2. Base /\ RunInv /\ (Base /\ RunInv)' /\ Bounds /\ [LatencyNext]_latencyVars => Bounds'
  BY BoundsKept
<1>3. QED  BY <1>1, <1>2, RunInvariance, PTL DEF LatencySpec

(* A latency run keeps its types, its flock has a holder that gives it     *)
(* back, an ok run samples all its messages but for those that give way to *)
(* a second sample of a redelivered one, and what is sampled late is       *)
(* bounded by what the workers had when the queue was purged.              *)
THEOREM LatencyCorrect == LatencySpec => []Inv
<1>1. Base /\ RunInv /\ Bounds /\ Reported \subseteq Measured => Inv
  BY RunTypes DEF Base, FlockInv, Bounds, LatenciesOfTheRun, Inv
<1>2. QED  BY <1>1, RunInvariance, BoundsInvariance, OnlyMeasured, PTL
=============================================================================
