----------------------------- MODULE LatencyFile ----------------------------
(***************************************************************************)
(* The file of latency samples shared by the worker processes and the      *)
(* runner of a controlled-arrival latency run: a count of eight bytes and  *)
(* one slot of eight bytes for every measured message.  Workers write it   *)
(* under flock(LOCK_EX), which a dying process drops; the runner reads it  *)
(* without the lock, and while the workers still run.  A redelivered       *)
(* message is executed and sampled again, so there can be more samples     *)
(* than slots.                                                             *)
(***************************************************************************)
EXTENDS Naturals, Sequences, FiniteSets

CONSTANTS
  Workers,          \* the worker processes
  NoOne,            \* the holder of a free flock
  Capacity,         \* slots of the file: measurement_messages
  Zero,             \* eight zero bytes, a slot nobody has written
  SamplesPerWorker  \* bound: samples one worker takes

ASSUME LatencyAssumption ==
  /\ NoOne \notin Workers
  /\ Capacity \in Nat \ {0}
  /\ SamplesPerWorker \in Nat
  /\ Zero \notin Workers \X Nat

VARIABLES
  count,    \* the count at the start of the file
  slot,     \* the slots
  lock,     \* the holder of the flock
  pc,       \* where each worker is in record_latency_to_file
  idx,      \* the count each worker read under the lock
  made,     \* history: samples each worker has taken
  runner,   \* where the runner is in _run_latency_controlled
  backlog,  \* LATENCY_BACKLOG_AT_MEASUREMENT_END
  status,   \* STATUS
  samples,  \* TASKS_DONE: the count read after the drain
  n,        \* the count read by read_latencies_from_file
  latencies \* the slots it has read so far

vars == <<count, slot, lock, pc, idx, made, runner, backlog, status, samples,
          n, latencies>>

file == <<count, slot>>
reading == <<runner, backlog, status, samples, n, latencies>>

Sample(w) == <<w, made[w]>>    \* the sample a worker is recording
Samples == Workers \X Nat

(* init_latency_file; the runner is publishing the measured messages.      *)
Init == /\ count = 0
        /\ slot = [i \in 0..(Capacity - 1) |-> Zero]
        /\ lock = NoOne
        /\ pc = [w \in Workers |-> "task"]
        /\ idx = [w \in Workers |-> 0]
        /\ made = [w \in Workers |-> 0]
        /\ runner = "publish"
        /\ backlog = 0
        /\ status = "ok"
        /\ samples = 0
        /\ n = 0
        /\ latencies = <<>>

Move(w, from, to) == /\ pc[w] = from
                     /\ pc' = [pc EXCEPT ![w] = to]

Recording(w) == pc[w] \in {"wait", "locked", "loaded", "written"}

(***************************************************************************)
(* Slips: each stands for one bug somebody could write into the operation  *)
(* it is named after.  No action uses them; they are put in the place of   *)
(* that operation to see that a property notices.                          *)
(***************************************************************************)
AcquireWithoutWaiting(w) == /\ lock' = w
                            /\ Move(w, "wait", "locked")
                            /\ UNCHANGED <<file, idx, made, reading>>

LoadCountUnbounded(w) == /\ idx' = [idx EXCEPT ![w] = count]
                         /\ Move(w, "locked", IF count <= Capacity THEN "loaded" ELSE "unlock")
                         /\ UNCHANGED <<file, lock, made, reading>>

WriteSlotShifted(w) == /\ slot' = [slot EXCEPT ![idx[w] + 1] = Sample(w)]
                       /\ Move(w, "loaded", "written")
                       /\ UNCHANGED <<count, lock, idx, made, reading>>

UnlockForgotten(w) == /\ Move(w, "unlock", "task")
                      /\ UNCHANGED <<file, lock, idx, made, reading>>

DrainedOneShort == /\ runner = "drain"
                   /\ count + 1 >= Capacity
                   /\ runner' = "report"
                   /\ UNCHANGED <<file, lock, pc, idx, made, backlog, status, samples, n,
                                  latencies>>
-----------------------------------------------------------------------------
(***************************************************************************)
(* A worker.                                                               *)
(***************************************************************************)
FinishTask(w) == /\ made[w] < SamplesPerWorker
                 /\ made' = [made EXCEPT ![w] = @ + 1]
                 /\ Move(w, "task", "wait")
                 /\ UNCHANGED <<file, lock, idx, reading>>

Acquire(w) == /\ lock = NoOne
              /\ lock' = w
              /\ Move(w, "wait", "locked")
              /\ UNCHANGED <<file, idx, made, reading>>

LoadCount(w) == /\ idx' = [idx EXCEPT ![w] = count]
                /\ Move(w, "locked", IF count < Capacity THEN "loaded" ELSE "unlock")
                /\ UNCHANGED <<file, lock, made, reading>>

WriteSlot(w) == /\ slot' = [slot EXCEPT ![idx[w]] = Sample(w)]
                /\ Move(w, "loaded", "written")
                /\ UNCHANGED <<count, lock, idx, made, reading>>

WriteCount(w) == /\ count' = idx[w] + 1
                 /\ Move(w, "written", "unlock")
                 /\ UNCHANGED <<slot, lock, idx, made, reading>>

Unlock(w) == /\ lock' = NoOne
             /\ Move(w, "unlock", "task")
             /\ UNCHANGED <<file, idx, made, reading>>

(* A worker dies, or is ended by the runner.                               *)
Crash(w) == /\ pc[w] # "dead"
            /\ pc' = [pc EXCEPT ![w] = "dead"]
            /\ lock' = IF lock = w THEN NoOne ELSE lock
            /\ UNCHANGED <<file, idx, made, reading>>

Record(w) == \/ FinishTask(w)
             \/ Acquire(w)
             \/ LoadCount(w)
             \/ WriteSlot(w)
             \/ WriteCount(w)
             \/ Unlock(w)

(***************************************************************************)
(* The runner: the backlog when publishing ends, the drain until all the   *)
(* samples are there or the deadline, the count it prints, then the count  *)
(* and the slots it computes the percentiles from.                         *)
(***************************************************************************)
RunnerStep(from, to) == /\ runner = from
                        /\ runner' = to
                        /\ UNCHANGED <<file, lock, pc, idx, made>>

MeasurementEnds == /\ RunnerStep("publish", "drain")
                   /\ backlog' = IF count > Capacity THEN 0 ELSE Capacity - count
                   /\ UNCHANGED <<status, samples, n, latencies>>

Drained == /\ count >= Capacity
           /\ RunnerStep("drain", "report")
           /\ UNCHANGED <<backlog, status, samples, n, latencies>>

Deadline == /\ count < Capacity
            /\ RunnerStep("drain", "report")
            /\ status' = "timeout"
            /\ UNCHANGED <<backlog, samples, n, latencies>>

ReportSamples == /\ RunnerStep("report", "reopen")
                 /\ samples' = count
                 /\ UNCHANGED <<backlog, status, n, latencies>>

ReadCount == /\ RunnerStep("reopen", "slots")
             /\ n' = count
             /\ UNCHANGED <<backlog, status, samples, latencies>>

ReadSlot == /\ Len(latencies) < n
            /\ RunnerStep("slots", "slots")
            /\ latencies' = Append(latencies, slot[Len(latencies)])
            /\ UNCHANGED <<backlog, status, samples, n>>

PrintLatencies == /\ Len(latencies) = n
                  /\ RunnerStep("slots", "printed")
                  /\ UNCHANGED <<backlog, status, samples, n, latencies>>

Runner == \/ MeasurementEnds
          \/ Drained \/ Deadline
          \/ ReportSamples
          \/ ReadCount \/ ReadSlot \/ PrintLatencies

Next == \/ \E w \in Workers : Record(w) \/ Crash(w)
        \/ Runner

Spec == Init /\ [][Next]_vars

-----------------------------------------------------------------------------
TypeOK ==
  /\ count \in Nat
  /\ slot \in [0..(Capacity - 1) -> Samples \cup {Zero}]
  /\ lock \in Workers \cup {NoOne}
  /\ pc \in [Workers -> {"task", "wait", "locked", "loaded", "written", "unlock", "dead"}]
  /\ idx \in [Workers -> Nat]
  /\ made \in [Workers -> Nat]
  /\ runner \in {"publish", "drain", "report", "reopen", "slots", "printed"}
  /\ backlog \in Nat
  /\ status \in {"ok", "timeout"}
  /\ samples \in Nat
  /\ n \in Nat
  /\ latencies \in Seq(Samples \cup {Zero})

(* The count never counts a slot that is missing, unwritten or that holds  *)
(* a sample another slot holds, wherever a worker dies in the update.      *)
CountedSlotsAreSamples ==
  /\ count <= Capacity
  /\ \A i \in 0..(count - 1) : slot[i] # Zero
  /\ \A i, j \in 0..(count - 1) : slot[i] = slot[j] => i = j

(* A slot that has been counted is final: the runner, which reads the      *)
(* slots without the lock, cannot read a sample that is being overwritten. *)
CountedSlotsAreFinal ==
  [][\A i \in 0..(count - 1) : slot'[i] = slot[i]]_vars

(* The percentiles are computed from true samples, each of them once.      *)
PercentilesFromSamples ==
  \A i, j \in 1..Len(latencies) : /\ latencies[i] # Zero
                                  /\ latencies[i] = latencies[j] => i = j

(* The three numbers a run prints, read at three times while the workers   *)
(* still run, agree: the drain only shrinks the backlog, the percentiles   *)
(* use at least the samples reported, and all of them in an ok run.        *)
ReportsAgree ==
  /\ runner \in {"reopen", "slots", "printed"} => samples + backlog >= Capacity
  /\ runner = "printed" => /\ Len(latencies) >= samples
                           /\ status = "ok" => samples = Capacity /\ n = Capacity
=============================================================================
