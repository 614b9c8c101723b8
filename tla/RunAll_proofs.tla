--------------------------- MODULE RunAll_proofs ----------------------------
(***************************************************************************)
(* Proofs about the three parts of run_all.py, each for itself.            *)
(*                                                                         *)
(* MessageCounts: a counts file that can be read is whole, a benchmark     *)
(* with a preset is always run, and no steady run is planned with less     *)
(* than its window needs, for all presets and calibrations.                *)
(*                                                                         *)
(* RunOnce: a result that counts comes from a runner that ended well and   *)
(* left nothing, whatever processes were started and however they died.    *)
(*                                                                         *)
(* Suite: the averages match the CSV file, every run of the plan has its   *)
(* row in the end, and the three files follow each other, for all plans    *)
(* and any number of stops and resumes.                                    *)
(***************************************************************************)
EXTENDS RunOnce, MessageCounts, Suite, FiniteSetTheorems, SequenceTheorems, TLAPS

-----------------------------------------------------------------------------
(***************************************************************************)
(* MessageCounts.                                                          *)
(***************************************************************************)

(* Arithmetic.                                                             *)

(* Rounding up to thousands reaches what is rounded.                       *)
LEMMA RoundingUp ==
  ASSUME NEW e \in Nat PROVE 60 * (1000 * ((e + 59999) \div 60000)) >= e
<1>1. \A x \in Nat : 60000 * (x \div 60000) + (x % 60000) = x /\ x % 60000 < 60000
  BY SMT
<1>2. (e + 59999) \div 60000 \in Nat /\ (e + 59999) % 60000 \in Nat
  BY SMT
<1> QED BY <1>1, <1>2, SMT

(* A rounded number of messages is a number of messages.                   *)
LEMMA RoundedType ==
  ASSUME NEW x \in Nat, NEW unit \in Nat \ {0} PROVE Rounded(x, unit) \in Nat
<1>1. x \div unit \in Nat
  BY SMT
<1>2. (x \div unit) + 1 \in Nat
  BY <1>1, SMT
<1>3. \A k \in Nat : unit * k \in Nat
  BY SMT
<1> QED BY <1>1, <1>2, <1>3 DEF Rounded

LEMMA LargerType ==
  ASSUME NEW a \in Nat, NEW b \in Nat
  PROVE  Larger(a, b) \in Nat /\ Larger(a, b) >= a /\ Larger(a, b) >= b
BY DEF Larger

(* What is recommended after a calibration run is a number of messages.    *)
LEMMA RecommendedType ==
  ASSUME NEW thr \in Throughputs PROVE Recommended(thr) \in Nat
<1>1. thr * Target \in Nat
  BY CountsAssumption, SMT
<1>2. Rounded(thr * Target, 500) \in Nat
  BY <1>1, RoundedType, SMT
<1> QED BY <1>2, LargerType, SMT DEF Recommended

(* The estimate and the floor of a steady benchmark: the floor covers.     *)
LEMMA FloorCovers ==
  ASSUME NEW p \in Pairs, Base[p] # None
  PROVE  SteadyFloor(p) \in Nat /\ Covers(p, SteadyFloor(p)) /\ Estimate(p) \in Nat
<1>1. Estimate(p) \in Nat
  <2>1. Base[p] \in Nat
    BY CountsAssumption DEF Counts
  <2> QED BY <2>1, CountsAssumption, SMT DEF Estimate
<1> DEFINE E == Estimate(p)
           Q == (E + 59999) \div 60000
<1>2. Q \in Nat
  <2> HIDE DEF E
  <2> QED BY <1>1, SMT DEF E
<1>3. 60 * (1000 * Q) >= E
  BY <1>1, RoundingUp
<1> HIDE DEF Q, E
<1>4. /\ Larger(1000, 1000 * Q) \in Nat /\ Larger(1000, 1000 * Q) >= 1000 * Q
  BY <1>2, LargerType, SMT
<1>5. 60 * Larger(1000, 1000 * Q) >= E
  BY <1>1, <1>2, <1>3, <1>4, SMT DEF E
<1> QED BY <1>1, <1>4, <1>5 DEF SteadyFloor, Covers, E, Q

(* A number that is at least the floor covers the window.                  *)
LEMMA AtLeastFloorCovers ==
  ASSUME NEW p \in Pairs, NEW n \in Nat
  PROVE  AtLeastFloor(p, n) \in Nat /\ Covers(p, AtLeastFloor(p, n))
<1>1. CASE Base[p] = None
  BY <1>1 DEF AtLeastFloor, Covers
<1>2. CASE Base[p] # None
  <2>1. SteadyFloor(p) \in Nat /\ 60 * SteadyFloor(p) >= Estimate(p) /\ Estimate(p) \in Nat
    BY <1>2, FloorCovers DEF Covers
  <2>2. Larger(n, SteadyFloor(p)) \in Nat /\ Larger(n, SteadyFloor(p)) >= SteadyFloor(p)
    BY <2>1, LargerType
  <2>3. 60 * Larger(n, SteadyFloor(p)) >= Estimate(p)
    BY <2>1, <2>2, SMT
  <2> QED BY <1>2, <2>2, <2>3 DEF AtLeastFloor, Covers
<1> QED BY <1>1, <1>2

-----------------------------------------------------------------------------
(***************************************************************************)
(* The invariant.  While a calibration goes on, what has been calibrated   *)
(* has a number or no preset; when the file is opened nothing is left to   *)
(* calibrate, and it is opened for what is selected.                       *)
(***************************************************************************)
CalibrationIsWhole ==
  /\ stage \in {"calibrate", "dump"} =>
       \A p \in selected \ todo : counts[p] = None => Table[p] = None
  /\ stage = "dump" => todo = {} /\ filePairs = selected

CountsIInv == CountsTypeOK /\ FileIsWhole /\ CalibrationIsWhole /\ PresetsAreRun /\ SteadyIsCovered

(* messages_for, whatever the options.                                     *)
LEMMA MessagesForType ==
  ASSUME CountsTypeOK, explicit' \in [Frameworks -> Nat \cup {None}], NEW p \in Pairs
  PROVE  /\ MessagesFor(p) \in Nat \cup {None}
         /\ Table[p] # None => MessagesFor(p) # None
         /\ explicit'[p[1]] = None /\ MessagesFor(p) # None => Covers(p, MessagesFor(p))
<1> DEFINE known == IF counts[p] # None THEN counts[p] ELSE Table[p]
<1>1. known \in Nat \cup {None} /\ (Table[p] # None => known # None)
  BY CountsAssumption DEF CountsTypeOK, Counts
<1>2. explicit'[p[1]] \in Nat \cup {None}
  BY DEF Pairs
<1>3. None \notin Nat
  BY CountsAssumption
<1>4. MessagesFor(p) = IF explicit'[p[1]] # None THEN explicit'[p[1]]
                       ELSE IF known = None THEN None ELSE AtLeastFloor(p, known)
  BY DEF MessagesFor
<1> HIDE DEF known
<1>5. CASE explicit'[p[1]] # None
  BY <1>2, <1>3, <1>4, <1>5
<1>6. CASE explicit'[p[1]] = None /\ known = None
  BY <1>1, <1>4, <1>6
<1>7. CASE explicit'[p[1]] = None /\ known # None
  <2>1. AtLeastFloor(p, known) \in Nat /\ Covers(p, AtLeastFloor(p, known))
    BY <1>1, <1>7, AtLeastFloorCovers
  <2>2. MessagesFor(p) = AtLeastFloor(p, known)
    BY <1>4, <1>7
  <2> QED BY <1>3, <2>1, <2>2
<1> QED BY <1>5, <1>6, <1>7

LEMMA CountsInitIInv == CountsInit => CountsIInv
<1> SUFFICES ASSUME CountsInit PROVE CountsIInv
  OBVIOUS
<1>1. CountsTypeOK
  <2>1. Nothing \in Counts
    BY DEF Counts, Nothing
  <2>2. invocations \in 0..MaxInvocations
    BY CountsAssumption, SMT DEF CountsInit
  <2>3. explicit \in [Frameworks -> Nat \cup {None}]
    BY DEF CountsInit
  <2>4. suggested \in (Pairs \X Nat) \cup {<<None, None>>}
    BY DEF CountsInit
  <2> QED BY <2>1, <2>2, <2>3, <2>4 DEF CountsInit, CountsTypeOK
<1>2. FileIsWhole /\ CalibrationIsWhole /\ PresetsAreRun
  BY DEF CountsInit, FileIsWhole, CalibrationIsWhole, PresetsAreRun
<1>3. SteadyIsCovered
  BY DEF CountsInit, SteadyIsCovered
<1> QED BY <1>1, <1>2, <1>3 DEF CountsIInv

(* A start: nothing is planned, and the file is as it was.                 *)
LEMMA CountsStartStep ==
  ASSUME CountsIInv, NEW s \in SUBSET Pairs, NEW w \in BOOLEAN,
         \/ StartWithFile(s) \/ StartFails(s)
         \/ StartCalibrating(s, w) \/ StartWithTable(s, w)
  PROVE  CountsIInv'
<1> USE DEF CountsIInv, CountsTypeOK, Begin, StartWithFile, StartFails, StartCalibrating,
    StartWithTable
<1>1. invocations' \in 0..MaxInvocations
  BY CountsAssumption, SMT
<1>2. CountsTypeOK'
  BY <1>1, CountsAssumption DEF Counts, Nothing
<1>3. FileIsWhole' /\ CalibrationIsWhole'
  BY DEF FileIsWhole, CalibrationIsWhole
<1>4. PresetsAreRun' /\ SteadyIsCovered'
  BY DEF PresetsAreRun, SteadyIsCovered
<1> QED BY <1>2, <1>3, <1>4

LEMMA CalibrateStep ==
  ASSUME CountsIInv, NEW p \in Pairs, NEW thr \in Throughputs \cup {None}, Calibrate(p, thr)
  PROVE  CountsIInv'
<1> USE DEF CountsIInv, CountsTypeOK, Calibrate, options, numbers
<1> DEFINE number == IF thr = None THEN Table[p] ELSE Recommended(thr)
<1>1. number \in Nat \cup {None} /\ (number = None => Table[p] = None)
  <2>1. CASE thr = None
    BY <2>1, CountsAssumption DEF Counts
  <2>2. CASE thr # None
    <3>1. Recommended(thr) \in Nat
      BY <2>2, RecommendedType
    <3> QED BY <2>2, <3>1, CountsAssumption
  <2> QED BY <2>1, <2>2
<1>2. counts' = [counts EXCEPT ![p] = number]
  OBVIOUS
<1> HIDE DEF number
<1>3. counts' \in Counts
  BY <1>1, <1>2 DEF Counts
<1>4. CountsTypeOK'
  BY <1>3
<1>5. FileIsWhole' /\ PresetsAreRun' /\ SteadyIsCovered'
  BY DEF FileIsWhole, PresetsAreRun, SteadyIsCovered
<1>6. CalibrationIsWhole'
  BY <1>1, <1>2 DEF CalibrationIsWhole, Counts
<1> QED BY <1>4, <1>5, <1>6

(* Saving the counts: the file is torn until all of it is written.         *)
LEMMA SaveStep ==
  ASSUME CountsIInv, Calibrated \/ OpenFile \/ Dump
  PROVE  CountsIInv'
<1> USE DEF CountsIInv, CountsTypeOK, Calibrated, OpenFile, Dump, options, numbers
<1>1. CountsTypeOK'
  BY CountsAssumption
<1>2. FileIsWhole' /\ CalibrationIsWhole'
  BY CountsAssumption DEF FileIsWhole, CalibrationIsWhole
<1>3. PresetsAreRun' /\ SteadyIsCovered'
  BY DEF PresetsAreRun, SteadyIsCovered
<1> QED BY <1>1, <1>2, <1>3

LEMMA PlanStep ==
  ASSUME CountsIInv, NEW m \in Given \cup {None}, NEW o \in [Frameworks -> Given \cup {None}],
         Plan(m, o)
  PROVE  CountsIInv'
<1> USE DEF CountsIInv, CountsTypeOK
<1>1. explicit' \in [Frameworks -> Nat \cup {None}]
  BY CountsAssumption DEF Plan
<1>2. \A p \in Pairs : MessagesFor(p) \in Nat \cup {None}
  BY <1>1, MessagesForType
<1>3. plan' = [p \in Pairs |-> IF p \in selected THEN MessagesFor(p) ELSE None]
  BY DEF Plan
<1>4. plan' \in Counts
  BY <1>2, <1>3 DEF Counts
<1>5. UNCHANGED <<options, todo, counts, file, filePairs, suggested>> /\ stage' = "planned"
  BY DEF Plan
<1>6. CountsTypeOK'
  BY <1>1, <1>4, <1>5 DEF options
<1>7. FileIsWhole' /\ CalibrationIsWhole'
  BY <1>5 DEF FileIsWhole, CalibrationIsWhole
<1>8. PresetsAreRun'
  BY <1>1, <1>3, <1>5, MessagesForType DEF PresetsAreRun, options
<1>9. SteadyIsCovered'
  <2>1. \A p \in selected : plan'[p] # None /\ explicit'[p[1]] = None => Covers(p, plan'[p])
    BY <1>1, <1>3, MessagesForType
  <2> QED BY <1>5, <2>1 DEF SteadyIsCovered, Covers, Estimate, options
<1> QED BY <1>6, <1>7, <1>8, <1>9

LEMMA SuggestStep ==
  ASSUME CountsIInv, NEW p \in Pairs, NEW avg \in Throughputs, Suggest(p, avg)
  PROVE  CountsIInv'
<1> USE DEF CountsIInv, CountsTypeOK
<1> DEFINE n == Larger(1000, Rounded(avg * Target, 1000))
<1>1. n \in Nat
  <2>1. avg * Target \in Nat
    BY CountsAssumption, SMT
  <2>2. Rounded(avg * Target, 1000) \in Nat
    BY <2>1, RoundedType, SMT
  <2> QED BY <2>2, LargerType, SMT
<1>2. suggested' = <<p, AtLeastFloor(p, n)>>
  BY DEF Suggest
<1>3. UNCHANGED <<stage, options, todo, counts, file, filePairs, explicit, plan>>
  BY DEF Suggest
<1> HIDE DEF n
<1>4. AtLeastFloor(p, n) \in Nat /\ Covers(p, AtLeastFloor(p, n))
  BY <1>1, AtLeastFloorCovers
<1>5. CountsTypeOK'
  BY <1>2, <1>3, <1>4 DEF options
<1>6. FileIsWhole' /\ CalibrationIsWhole' /\ PresetsAreRun'
  BY <1>3 DEF FileIsWhole, CalibrationIsWhole, PresetsAreRun, options
<1>7. SteadyIsCovered'
  BY <1>2, <1>3, <1>4 DEF SteadyIsCovered, Covers, Estimate, options
<1> QED BY <1>5, <1>6, <1>7

LEMMA EndProgramStep ==
  ASSUME CountsIInv, EndProgram \/ UNCHANGED countsVars
  PROVE  CountsIInv'
<1> USE DEF CountsIInv, CountsTypeOK, EndProgram, options, numbers, countsVars
<1>1. CountsTypeOK'
  OBVIOUS
<1>2. FileIsWhole' /\ CalibrationIsWhole'
  BY DEF FileIsWhole, CalibrationIsWhole
<1>3. PresetsAreRun' /\ SteadyIsCovered'
  BY DEF PresetsAreRun, SteadyIsCovered
<1> QED BY <1>1, <1>2, <1>3

LEMMA CountsNextIInv == CountsIInv /\ [CountsNext]_countsVars => CountsIInv'
BY CountsStartStep, CalibrateStep, SaveStep, PlanStep, SuggestStep, EndProgramStep DEF CountsNext

LEMMA CountsInvariance == CountsSpec => []CountsIInv
BY CountsInitIInv, CountsNextIInv, PTL DEF CountsSpec

(* The types of the variables, and that a counts file that can be read is  *)
(* the whole of one calibration (open and dump in main of run_all.py).     *)
THEOREM CountsCorrect == CountsSpec => []CountsInv
<1>1. CountsIInv => CountsInv
  BY DEF CountsIInv, CountsInv
<1> QED BY CountsInvariance, <1>1, PTL

(* Whatever was calibrated or loaded, a selected benchmark with a preset   *)
(* is run (messages_for).                                                  *)
THEOREM CountsPresetsAreRun == CountsSpec => []PresetsAreRun
<1>1. CountsIInv => PresetsAreRun
  BY DEF CountsIInv
<1> QED BY CountsInvariance, <1>1, PTL

(* Whatever was measured, a steady run gets at least the messages its      *)
(* window takes at 1.25 times the preset's rate (steady_message_floor).    *)
THEOREM CountsSteadyIsCovered == CountsSpec => []SteadyIsCovered
<1>1. CountsIInv => SteadyIsCovered
  BY DEF CountsIInv
<1> QED BY CountsInvariance, <1>1, PTL

-----------------------------------------------------------------------------
(***************************************************************************)
(* RunOnce.                                                                *)
(***************************************************************************)

(* What run_once knows of the runner it started, at each of its steps.     *)
CallerKnows ==
  /\ suite = "call" => runner = "none"
  /\ suite = "join" => runner = "exited"
  /\ suite = "returned" => runner \in {"none", "exited"}

(* Which processes there can be at which step of the runner, and that only *)
(* a start that failed leaves some that are in no list.                    *)
Holding ==
  /\ runner \in {"none", "prepare"} => held = {} /\ lives = {}
  /\ runner \in {"none", "prepare", "mode"} => waiting = {}
  /\ runner = "stopPublishers" => waiting \subseteq Publishers
  /\ runner = "stopWorkers" => waiting \subseteq Workers
  /\ ~raising => lives \subseteq held

(* The processes of a list that still run.                                 *)
HeldOf(procsOf) == held \cap lives \cap procsOf

(* A subprocess has outlived its SIGKILL, and the exception is on its way. *)
Survived == raising /\ outlived # {}

(* Unless that happened, what is not waited for any more has stopped.  The *)
(* exit of the runner also waits for workers that live in its group.       *)
Stopped ==
  ~Survived =>
    /\ runner = "stopPublishers" => HeldOf(Publishers) \subseteq waiting
    /\ runner \in {"stopWorkers", "report", "finally"} => HeldOf(Publishers) = {}
    /\ home = "session" =>
         /\ runner = "stopWorkers" => HeldOf(Workers) \subseteq waiting
         /\ runner \in {"report", "finally"} => HeldOf(Workers) = {}

(* What a runner leaves that has exited: nothing, if it ended well.        *)
Exited ==
  runner = "exited" =>
    /\ home = "group" => lives \cap Workers = {}
    /\ exitCode = "zero" => files = {} /\ lives = {} /\ (queue => deleteFailed \/ keepQueue)

(* The inductive invariant of run_once and its runner.                     *)
OnceInv == /\ TypeOK /\ CallerKnows /\ Holding /\ Stopped /\ Exited
           /\ StopsWhatItHolds /\ OkRunIsClean

(* Before the runner is started there is nothing of it.                    *)
LEMMA OnceInit == Init => OnceInv
<1> SUFFICES ASSUME Init PROVE OnceInv
  OBVIOUS
<1>1. TypeOK
  BY DEF Init, TypeOK
<1>2. CallerKnows /\ Holding /\ Stopped /\ Exited /\ StopsWhatItHolds /\ OkRunIsClean
  BY DEF Init, CallerKnows, Holding, Stopped, Exited, StopsWhatItHolds, OkRunIsClean, Returned
<1>3. QED  BY <1>1, <1>2 DEF OnceInv

(* Every step keeps the types.                                             *)
LEMMA OnceType == ASSUME OnceInv, [Next]_vars PROVE TypeOK'
<1> USE DEF OnceInv, TypeOK, kind, process, stopping, procs, traces, Elsewhere
<1>1. CASE UNCHANGED vars
  BY <1>1 DEF vars
<1>2. CASE StartRunner \/ StartRunnerFails \/ RunnerReturns \/ Timeout
  BY <1>2 DEF StartRunner, StartRunnerFails, RunnerReturns, Timeout
<1>3. CASE KillGroup
  BY <1>3 DEF KillGroup
<1>4. CASE Return
  BY <1>4 DEF Return
<1>5. CASE DeclareQueue \/ PrepareFails \/ EnterMode \/ \E f \in TempFiles : CreateFile(f)
  BY <1>5 DEF DeclareQueue, PrepareFails, EnterMode, CreateFile
<1>6. CASE StartWorkers \/ StartWorkersFails \/ StartPublishers
  BY <1>6 DEF StartWorkers, StartWorkersFails, StartPublishers
<1>7. CASE StartPublishersFails
  BY <1>7 DEF StartPublishersFails, PublishersMayStart, Holding, Stop!Ask
<1>8. CASE EndMode \/ ModeFails \/ PublishersStopped
  BY <1>8 DEF EndMode, ModeFails, PublishersStopped, ReachesEnd, Holding, Stop!Ask
<1>9. CASE WorkersStopped \/ ReportFails \/ \E s \in Statuses \cup {"error"} : Report(s)
  BY <1>9 DEF WorkersStopped, ReportFails, Report
<1>10. ASSUME NEW p \in Workers \cup Publishers, ProcessExits(p) \/ StopStep(p) PROVE TypeOK'
  BY <1>10 DEF ProcessExits, StopStep, WaitReturns, Kill, JoinGivesUp, WaitRaises, Stop!Exits,
     Stop!WaitReturns, Stop!Kill, Stop!JoinGivesUp, Stop!WaitRaises
<1>11. CASE DeleteQueue \/ DeleteQueueFails \/ Exit
  BY <1>11 DEF DeleteQueue, DeleteQueueFails, Exit
<1>12. QED
  BY <1>1, <1>2, <1>3, <1>4, <1>5, <1>6, <1>7, <1>8, <1>9, <1>10, <1>11 DEF Next, Runner, Caller

(* What the steps of run_once keep of the runner they look at.             *)
Rest == CallerKnows /\ Holding /\ Stopped /\ Exited /\ StopsWhatItHolds /\ OkRunIsClean

(* The steps of run_once itself: start, wait, kill and the result.         *)
LEMMA CallerStep == ASSUME OnceInv, Caller PROVE Rest'
<1> USE DEF OnceInv, Rest, CallerKnows, Holding, Stopped, Survived, HeldOf, Exited,
    StopsWhatItHolds, kind, process,
            stopping, procs, traces
<1>1. CASE StartRunner
  BY <1>1 DEF StartRunner, OkRunIsClean, Returned
<1>2. CASE StartRunnerFails
  BY <1>2, RunOnceAssumption DEF StartRunnerFails, OkRunIsClean, Returned
<1>3. CASE RunnerReturns \/ Timeout
  BY <1>3 DEF RunnerReturns, Timeout, OkRunIsClean, Returned
<1>4. CASE KillGroup
  BY <1>4 DEF KillGroup, OkRunIsClean, Returned
<1>5. CASE Return
  BY <1>5, RunOnceAssumption DEF Return, OkRunIsClean, Returned
<1>6. QED  BY <1>1, <1>2, <1>3, <1>4, <1>5 DEF Caller

(* While the runner runs its caller waits for it, or is about to kill it.  *)
LEMMA RunnerIsWaitedFor ==
  ASSUME OnceInv, runner \notin {"none", "exited"}, suite' = suite
  PROVE  CallerKnows' /\ OkRunIsClean'
  BY DEF OnceInv, CallerKnows, OkRunIsClean, Returned, TypeOK

(* Before its try the runner has no process.                               *)
LEMMA PrepareStep ==
  ASSUME OnceInv,
         DeclareQueue \/ PrepareFails \/ EnterMode \/ \E f \in TempFiles : CreateFile(f)
  PROVE  Rest'
<1>1. runner \notin {"none", "exited"} /\ suite' = suite
  BY DEF DeclareQueue, PrepareFails, EnterMode, CreateFile
<1>2. QED
  BY <1>1, RunnerIsWaitedFor
  DEF OnceInv, Rest, CallerKnows, Holding, Stopped, Survived, HeldOf, Exited, StopsWhatItHolds,
      DeclareQueue,
      PrepareFails, EnterMode, CreateFile, process, stopping, procs, traces, kind

(* Starts of processes, those that fail half-way included.                 *)
LEMMA StartStep ==
  ASSUME OnceInv, StartWorkers \/ StartWorkersFails \/ StartPublishers \/ StartPublishersFails
  PROVE  Rest'
<1> USE DEF Rest, Holding, Stopped, Survived, HeldOf, Exited, StopsWhatItHolds, stopping,
    Elsewhere, kind
<1>1. /\ runner = "mode" /\ suite' = suite /\ waiting = {}
      /\ outlived' = outlived /\ home' = home
  BY DEF OnceInv, StartWorkers, StartWorkersFails, StartPublishers, StartPublishersFails,
     WorkersMayStart, PublishersMayStart, Stop!Ask
<1>2. CallerKnows' /\ OkRunIsClean'
  BY <1>1, RunnerIsWaitedFor
<1>3. CASE StartWorkers \/ StartPublishers
  BY <1>1, <1>2, <1>3 DEF OnceInv, StartWorkers, StartPublishers
<1>4. CASE StartWorkersFails
  BY <1>1, <1>2, <1>4 DEF OnceInv, StartWorkersFails, WorkersMayStart
<1>5. CASE StartPublishersFails
  <2>1. HeldOf(Publishers)' \subseteq waiting' /\ waiting' \subseteq Publishers
    BY <1>5 DEF StartPublishersFails, PublishersMayStart, Stop!Ask
  <2>2. runner' = "stopPublishers" /\ raising'
    BY <1>5 DEF StartPublishersFails
  <2>3. QED  BY <1>1, <1>2, <2>1, <2>2
<1>6. QED  BY <1>3, <1>4, <1>5

(* The end of a mode, its report, and both failing.                        *)
LEMMA EndStep ==
  ASSUME OnceInv,
         EndMode \/ ModeFails \/ ReportFails \/ \E s \in Statuses \cup {"error"} : Report(s)
  PROVE  Rest'
<1> USE DEF Rest, Holding, Stopped, Survived, HeldOf, Exited, StopsWhatItHolds, stopping,
    procs, traces, Elsewhere,
            kind
<1>1. runner \in {"mode", "report"} /\ suite' = suite
  BY DEF EndMode, ModeFails, ReportFails, Report, ReachesEnd
<1>2. CallerKnows' /\ OkRunIsClean'
  BY <1>1, RunnerIsWaitedFor
<1>3. CASE EndMode \/ ModeFails
  BY <1>2, <1>3 DEF OnceInv, EndMode, ModeFails, ReachesEnd, Stop!Ask
<1>4. CASE ReportFails \/ \E s \in Statuses \cup {"error"} : Report(s)
  BY <1>1, <1>2, <1>4 DEF OnceInv, ReportFails, Report
<1>5. QED  BY <1>3, <1>4

(* A process ends by itself.                                               *)
LEMMA ProcessStep ==
  ASSUME OnceInv, NEW p \in Workers \cup Publishers, ProcessExits(p)
  PROVE  Rest'
  BY DEF OnceInv, Rest, CallerKnows, Holding, Stopped, Survived, HeldOf, Exited,
     StopsWhatItHolds, OkRunIsClean,
     Returned, ProcessExits, Stop!Exits, Elsewhere, kind

(* The wait for one process ends, one way or another.                      *)
LEMMA StopOneStep ==
  ASSUME OnceInv, NEW p \in Workers \cup Publishers, StopStep(p)
  PROVE  Rest'
<1> USE DEF Rest, Holding, Stopped, Survived, HeldOf, Exited, StopsWhatItHolds, Elsewhere,
    kind, Stopping
<1>1. runner \in {"stopPublishers", "stopWorkers"} /\ suite' = suite
  BY DEF StopStep, WaitReturns, Kill, JoinGivesUp, WaitRaises
<1>2. CallerKnows' /\ OkRunIsClean'
  BY <1>1, RunnerIsWaitedFor
<1>3. CASE WaitReturns(p) \/ Kill(p)
  BY <1>2, <1>3 DEF OnceInv, WaitReturns, Kill, Stop!WaitReturns, Stop!Kill
<1>4. CASE JoinGivesUp(p)
  BY <1>2, <1>4, RunOnceAssumption DEF OnceInv, TypeOK, JoinGivesUp, Stop!JoinGivesUp
<1>5. CASE WaitRaises(p)
  BY <1>1, <1>2, <1>5 DEF OnceInv, WaitRaises, Stop!WaitRaises
<1>6. QED  BY <1>3, <1>4, <1>5 DEF StopStep

(* A whole list has been waited for.                                       *)
LEMMA StopListStep == ASSUME OnceInv, PublishersStopped \/ WorkersStopped PROVE Rest'
<1> USE DEF Rest, Holding, Stopped, Survived, HeldOf, Exited, StopsWhatItHolds, Elsewhere,
    kind, stopping, procs
<1>1. runner \in {"stopPublishers", "stopWorkers"} /\ suite' = suite
  BY DEF PublishersStopped, WorkersStopped
<1>2. CallerKnows' /\ OkRunIsClean'
  BY <1>1, RunnerIsWaitedFor
<1>3. CASE PublishersStopped
  BY <1>2, <1>3 DEF OnceInv, PublishersStopped, Stop!Ask
<1>4. CASE WorkersStopped
  BY <1>2, <1>4 DEF OnceInv, WorkersStopped
<1>5. QED  BY <1>3, <1>4

(* The finally of the runner, and its exit.                                *)
LEMMA FinallyStep == ASSUME OnceInv, DeleteQueue \/ DeleteQueueFails \/ Exit PROVE Rest'
<1> USE DEF Rest, Holding, Stopped, Survived, HeldOf, Exited, StopsWhatItHolds, kind, stopping,
    procs, process
<1>1. runner = "finally" /\ suite' = suite
  BY DEF DeleteQueue, DeleteQueueFails, Exit
<1>2. CallerKnows' /\ OkRunIsClean'
  BY <1>1, RunnerIsWaitedFor
<1>3. CASE DeleteQueue \/ DeleteQueueFails
  BY <1>2, <1>3 DEF OnceInv, DeleteQueue, DeleteQueueFails
<1>4. CASE Exit
  BY <1>2, <1>4 DEF OnceInv, TypeOK, Exit
<1>5. QED  BY <1>3, <1>4

(* Every state of run_once satisfies the invariant.                        *)
LEMMA OnceInvariance == Spec => []OnceInv
<1>1. OnceInv /\ [Next]_vars => OnceInv'
  <2> SUFFICES ASSUME OnceInv, [Next]_vars PROVE OnceInv'
    OBVIOUS
  <2>1. CASE UNCHANGED vars
    BY <2>1, OnceType DEF vars, OnceInv, CallerKnows, Holding, Stopped, Survived, HeldOf,
       Exited, StopsWhatItHolds,
       OkRunIsClean, Returned, kind, stopping, procs, process, traces
  <2>2. CASE Next
    <3>1. Rest'
      BY <2>2, CallerStep, PrepareStep, StartStep, EndStep, ProcessStep, StopOneStep,
         StopListStep, FinallyStep DEF Next, Runner
    <3>2. QED  BY <3>1, OnceType DEF OnceInv, Rest
  <2>3. QED  BY <2>1, <2>2
<1>2. QED  BY OnceInit, <1>1, PTL DEF Spec

(* Whatever is started, fails or is killed, when run_once returns the      *)
(* runner and its group are gone, and a runner that ended by itself has    *)
(* stopped what it held, or failed (run_once, and the finally of run).     *)
THEOREM OnceCorrect == Spec => []Inv
<1>1. OnceInv => Inv
  BY DEF OnceInv, Inv, GroupIsGone, CallerKnows, Exited, Holding, Returned
<1>2. QED  BY <1>1, OnceInvariance, PTL

(* A result that enters the averages comes from a runner that reported it, *)
(* exited with zero and left no process and no file (run_once).            *)
THEOREM OnceClean == Spec => []OkRunIsClean
<1>1. OnceInv => OkRunIsClean
  BY DEF OnceInv
<1>2. QED  BY <1>1, OnceInvariance, PTL

-----------------------------------------------------------------------------
(***************************************************************************)
(* Suite.                                                                  *)
(***************************************************************************)

(* The program is in its loop of measured runs.                            *)
Running == {"next", "metadata", "row", "latency"}

(* It is stopped once for every start at most.                             *)
StopsCounted == stops + (IF pc \in Running THEN 1 ELSE 0) <= starts

(* Only the header of a new file is ever left in a buffer.                 *)
Buffered ==
  /\ buffer # <<>> => csv = <<>>
  /\ latencyBuffer # <<>> => latencyCsv = <<>>
  /\ pc \notin Running => buffer = <<>> /\ latencyBuffer = <<>>
  /\ csv = NoFile <=> latencyCsv = NoFile
  /\ csv = NoFile => pc = "off"

(* The run that has been averaged and whose row is still to be written.    *)
OkNow(r) == IF pc \in {"metadata", "row"} /\ current = Row(r, "ok") THEN 1 ELSE 0

(* With that one, the averages match the file at every step of the loop.   *)
ResultsFollow ==
  /\ \A r \in tasks : results[r] = 0
  /\ Headed(Written) =>
       \A r \in Runs : /\ pc # "off" => results[r] = Cardinality(OkRows(csv, r)) + OkNow(r)
                       /\ Cardinality(OkRows(csv, r)) + OkNow(r) <= 1

(* A run that is not left to do has its row, or is about to get it.        *)
Tried ==
  pc \in Running \cup {"done"} =>
    \A r \in Runs \ tasks : RowsOf(r) # {} \/ (pc \in {"metadata", "row"} /\ current[1] = r)
TriedEnds == pc = "done" => tasks = {}

(* Of the latency rows that are missing one is about to be written.        *)
Waived == IF pc = "latency" /\ current[2] = "ok" THEN {current[1]} ELSE {}
MissingBound == Cardinality(LatencyRowsMissing \ Waived) <= stops

(* The same for the lines of the metadata file and the rows.               *)
LinesBound ==
  /\ IsFiniteSet(MetadataLines)
  /\ \A r \in Runs :
       Cardinality(RowsOf(r)) + (IF pc = "row" /\ current[1] = r THEN 1 ELSE 0) <= metadata[r]
  /\ Cardinality(MetadataLines) <= Cardinality(RowsInFile) + stops + (IF pc = "row" THEN 1 ELSE 0)

(* The inductive invariant of the suite.                                   *)
SuiteIInv ==
  /\ SuiteTypeOK /\ StopsCounted /\ Buffered
  /\ ResultsFollow /\ Tried /\ TriedEnds /\ MissingBound /\ LinesBound

-----------------------------------------------------------------------------
(* The lines of a file that are in a set, and how they grow.               *)
Selected(f, S) == {i \in DOMAIN f : f[i] \in S}

(* There are finitely many of them.                                        *)
LEMMA SelectedType ==
  ASSUME NEW X, NEW f \in Seq(X), NEW S
  PROVE  IsFiniteSet(Selected(f, S)) /\ Cardinality(Selected(f, S)) \in Nat
<1>1. Selected(f, S) \in SUBSET (1..Len(f)) /\ Len(f) \in Nat
  BY DEF Selected
<1>2. IsFiniteSet(1..Len(f))
  BY <1>1, FS_Interval
<1>3. IsFiniteSet(Selected(f, S))
  BY <1>1, <1>2, FS_Subset
<1> QED BY <1>3, FS_CardinalityType

(* One line more.                                                          *)
LEMMA SelectedAppend ==
  ASSUME NEW X, NEW f \in Seq(X), NEW x \in X, NEW S
  PROVE  /\ Selected(f, S) \subseteq Selected(Append(f, x), S)
         /\ x \in S => Selected(Append(f, x), S) # {}
         /\ x \notin S => Selected(Append(f, x), S) = Selected(f, S)
         /\ Cardinality(Selected(Append(f, x), S))
              = Cardinality(Selected(f, S)) + (IF x \in S THEN 1 ELSE 0)
<1>1. DOMAIN f = 1..Len(f) /\ Len(f) \in Nat /\ DOMAIN Append(f, x) = 1..(Len(f) + 1)
  BY AppendProperties
<1>2. \A i \in 1..Len(f) : Append(f, x)[i] = f[i]
  BY AppendProperties
<1>3. Append(f, x)[Len(f) + 1] = x
  BY AppendProperties
<1>4. CASE x \in S
  <2>1. Selected(Append(f, x), S) = Selected(f, S) \cup {Len(f) + 1}
    BY <1>1, <1>2, <1>3, <1>4 DEF Selected
  <2>2. Len(f) + 1 \notin Selected(f, S)
    BY <1>1 DEF Selected
  <2> QED BY <1>4, <2>1, <2>2, SelectedType, FS_AddElement
<1>5. CASE x \notin S
  <2>1. Selected(Append(f, x), S) = Selected(f, S)
    BY <1>1, <1>2, <1>3, <1>5 DEF Selected
  <2> QED BY <1>5, <2>1, SelectedType
<1> QED BY <1>4, <1>5

(* What is selected of a file without rows.                                *)
LEMMA SelectedNone ==
  ASSUME NEW S, Header \notin S, NoFile[1] \notin S
  PROVE  Selected(<<>>, S) = {} /\ Selected(<<Header>>, S) = {} /\ Selected(NoFile, S) = {}
BY DEF Selected, NoFile

(* The sets of lines that the invariant counts: none has the header.       *)
RowSets ==
  {{Row(r, "ok")} : r \in Runs} \cup {{Row(r, s) : s \in Outcomes} : r \in Runs} \cup {Rows}

(* Neither the header nor what stands for a missing file is a row.         *)
LEMMA RowSetsAreRows ==
  ASSUME NEW S \in RowSets PROVE S \subseteq Rows /\ Header \notin S /\ NoFile[1] \notin S
BY DEF RowSets, Row, Rows, Header, NoFile, Outcomes

(* What the properties of Suite count, in these terms.                     *)
LEMMA Selections ==
  /\ \A r \in Runs : {Row(r, "ok")} \in RowSets /\ {Row(r, s) : s \in Outcomes} \in RowSets
  /\ Rows \in RowSets
  /\ \A f : \A r \in Runs : OkRows(f, r) = Selected(f, {Row(r, "ok")})
  /\ \A r \in Runs : /\ RowsOf(r) = Selected(csv, {Row(r, s) : s \in Outcomes})
                     /\ RowsOf(r)' = Selected(csv', {Row(r, s) : s \in Outcomes})
  /\ RowsInFile = Selected(csv, Rows) /\ RowsInFile' = Selected(csv', Rows)
BY DEF OkRows, RowsOf, RowsInFile, Selected, RowSets

(* A file that exists differs from one that does not.                      *)
LEMMA NoFileIsNone == NoFile \notin Seq(Lines)
<1>1. NoFile[1] = <<"no", "file">> /\ 1 \in DOMAIN NoFile
  BY DEF NoFile
<1>2. <<"no", "file">> \notin Lines
  BY DEF Lines, Rows, Header, Outcomes
<1> QED BY <1>1, <1>2

(* What a buffer can hold between two steps.                               *)
Buffers == {<<>>, <<Header>>}

(* What a file gains when the line x is written to it.                     *)
Gains(f, out, x) ==
  \A S \in RowSets :
    /\ Selected(f, S) \subseteq Selected(out, S)
    /\ x \in S => Selected(out, S) # {}
    /\ x \notin S => Selected(out, S) = Selected(f, S)
    /\ Cardinality(Selected(out, S)) = Cardinality(Selected(f, S)) + (IF x \in S THEN 1 ELSE 0)

(* A flush, without and with a line written before it.                     *)
WithBuffer(f, b) == f \o b
WithLine(f, b, x) == f \o b \o <<x>>

(* A flush of the buffer alone adds no row, and at most the header.        *)
LEMMA Flushed ==
  ASSUME NEW f \in Seq(Lines), NEW b \in Buffers, b # <<>> => f = <<>>
  PROVE  /\ WithBuffer(f, b) \in Seq(Lines)
         /\ \A S \in RowSets : Selected(WithBuffer(f, b), S) = Selected(f, S)
         /\ Headed(WithBuffer(f, b)) <=> Headed(f) \/ b # <<>>
<1> USE DEF WithBuffer
<1>1. Header \in Lines
  BY DEF Lines
<1>2. CASE b = <<>>
  BY <1>2, ConcatEmptySeq
<1>3. CASE b = <<Header>>
  <2>1. <<Header>> \in Seq(Lines) /\ <<Header>> # <<>> /\ <<Header>>[1] = Header
    BY <1>1
  <2>2. f = <<>> /\ f \o b = <<Header>>
    BY <1>3, <2>1, ConcatEmptySeq
  <2>3. \A S \in RowSets : Selected(f \o b, S) = Selected(f, S)
    BY <2>2, RowSetsAreRows, SelectedNone
  <2> QED BY <1>3, <2>1, <2>2, <2>3 DEF Headed
<1> QED BY <1>2, <1>3 DEF Buffers

(* A row is written: the file gains it, and has its header as before.      *)
LEMMA WrittenOut ==
  ASSUME NEW f \in Seq(Lines), NEW b \in Buffers, b # <<>> => f = <<>>, NEW x \in Rows
  PROVE  /\ WithLine(f, b, x) \in Seq(Lines)
         /\ Headed(WithLine(f, b, x)) <=> Headed(WithBuffer(f, b))
         /\ Gains(f, WithLine(f, b, x), x)
<1> DEFINE g == f \o b
<1>1. g \in Seq(Lines) /\ \A S \in RowSets : Selected(g, S) = Selected(f, S)
  BY Flushed DEF WithBuffer
<1>2. x \in Lines /\ x # Header
  BY DEF Lines, Rows, Header, Outcomes
<1> HIDE DEF g
<1>3. g \o <<x>> = Append(g, x)
  BY <1>1, <1>2, AppendIsConcat
<1>4. Headed(Append(g, x)) <=> Headed(g)
  <2>1. CASE g = <<>>
    BY <1>2, <2>1 DEF Headed
  <2>2. CASE g # <<>>
    <3>1. Len(g) \in Nat /\ Len(g) >= 1
      BY <1>1, <2>2
    <3>2. Append(g, x)[1] = g[1] /\ Append(g, x) # <<>>
      BY <1>1, <1>2, <3>1, AppendProperties
    <3> QED BY <2>2, <3>2 DEF Headed
  <2> QED BY <2>1, <2>2
<1>5. Append(g, x) \in Seq(Lines)
  BY <1>1, <1>2, AppendProperties
<1>6. \A S \in RowSets :
         /\ Selected(g, S) \subseteq Selected(Append(g, x), S)
         /\ x \in S => Selected(Append(g, x), S) # {}
         /\ x \notin S => Selected(Append(g, x), S) = Selected(g, S)
         /\ Cardinality(Selected(Append(g, x), S))
              = Cardinality(Selected(g, S)) + (IF x \in S THEN 1 ELSE 0)
  BY <1>1, <1>2, SelectedAppend
<1>7. WithLine(f, b, x) = Append(g, x) /\ WithBuffer(f, b) = g
  BY <1>3 DEF g, WithLine, WithBuffer
<1> QED BY <1>1, <1>4, <1>5, <1>6, <1>7 DEF Gains

(* Only the runs of the plan can lack a latency row.                       *)
LEMMA MissingFinite ==
  /\ IsFiniteSet(LatencyRowsMissing \ Waived) /\ IsFiniteSet(LatencyRowsMissing)
  /\ Cardinality(LatencyRowsMissing \ Waived) \in Nat
<1>1. LatencyRowsMissing \in SUBSET Runs /\ LatencyRowsMissing \ Waived \in SUBSET Runs
  BY SuiteAssumption DEF LatencyRowsMissing
<1> QED BY <1>1, SuiteAssumption, FS_Subset, FS_CardinalityType

(* The row of the run reaches the CSV file: what was averaged is in it now. *)
LEMMA WriteRowStep == ASSUME SuiteIInv, WriteRow PROVE SuiteIInv'
<1>1. SuiteTypeOK /\ StopsCounted /\ Buffered /\ ResultsFollow /\ Tried /\ TriedEnds /\ MissingBound /\ LinesBound
  BY DEF SuiteIInv
<1>2. /\ pc = "row" /\ csv' = csv \o buffer \o <<current>> /\ buffer' = <<>>
      /\ pc' \in {"latency", "next"}
      /\ pc' = "latency" => current' = current /\ current[1] \in LatencyRuns
      /\ pc' = "next" => current[1] \notin LatencyRuns /\ current' = Header
      /\ UNCHANGED <<starts, stops, warmups, tasks, results, latencyCsv, latencyBuffer, metadata>>
  BY DEF WriteRow
<1>3. csv # NoFile /\ csv \in Seq(Lines) /\ latencyCsv # NoFile /\ current \in Rows
      /\ buffer \in Buffers /\ (buffer # <<>> => csv = <<>>)
  BY <1>1, <1>2 DEF SuiteTypeOK, Buffered, Buffers
<1>4. csv' \in Seq(Lines) /\ (Headed(csv') <=> Headed(Written)) /\ Gains(csv, csv', current)
  <2>1. csv' = WithLine(csv, buffer, current) /\ Written = WithBuffer(csv, buffer)
    BY <1>2 DEF Written, WithLine, WithBuffer
  <2> QED BY <1>3, <2>1, WrittenOut
<1>5. csv' # NoFile /\ Written' = csv'
  BY <1>2, <1>4, NoFileIsNone, ConcatEmptySeq DEF Written
<1>6. \A r \in Runs : Cardinality(OkRows(csv, r)) \in Nat /\ Cardinality(RowsOf(r)) \in Nat
  BY <1>3, Selections, SelectedType
<1>7. PICK r0 \in Runs, s0 \in Outcomes : current = <<r0, s0>>
  BY <1>3 DEF Rows
<1>8. \A r \in Runs : /\ current \in {Row(r, "ok")} <=> r = r0 /\ s0 = "ok"
                      /\ current \in {Row(r, s) : s \in Outcomes} <=> r = r0
  BY <1>7 DEF Row
<1>9. \A r \in Runs :
        /\ Cardinality(OkRows(csv', r)) = Cardinality(OkRows(csv, r)) + (IF r = r0 /\ s0 = "ok" THEN 1 ELSE 0)
        /\ OkRows(csv', r) # OkRows(csv, r) => r = r0 /\ s0 = "ok"
        /\ Cardinality(RowsOf(r)') = Cardinality(RowsOf(r)) + (IF r = r0 THEN 1 ELSE 0)
        /\ RowsOf(r) \subseteq RowsOf(r)' /\ (r = r0 => RowsOf(r)' # {})
  <2> SUFFICES ASSUME NEW r \in Runs
               PROVE  /\ Cardinality(OkRows(csv', r)) = Cardinality(OkRows(csv, r)) + (IF r = r0 /\ s0 = "ok" THEN 1 ELSE 0)
                      /\ OkRows(csv', r) # OkRows(csv, r) => r = r0 /\ s0 = "ok"
                      /\ Cardinality(RowsOf(r)') = Cardinality(RowsOf(r)) + (IF r = r0 THEN 1 ELSE 0)
                      /\ RowsOf(r) \subseteq RowsOf(r)' /\ (r = r0 => RowsOf(r)' # {})
    OBVIOUS
  <2> DEFINE A == {Row(r, "ok")}
             B == {Row(r, s) : s \in Outcomes}
  <2>1. A \in RowSets /\ B \in RowSets /\ (current \in A <=> r = r0 /\ s0 = "ok") /\ (current \in B <=> r = r0)
    BY <1>8, Selections
  <2>2. /\ OkRows(csv, r) = Selected(csv, A) /\ OkRows(csv', r) = Selected(csv', A)
        /\ RowsOf(r) = Selected(csv, B) /\ RowsOf(r)' = Selected(csv', B)
    BY Selections
  <2> HIDE DEF A, B
  <2> QED BY <1>4, <2>1, <2>2 DEF Gains
<1>10. SuiteTypeOK'
  BY <1>1, <1>2, <1>4 DEF SuiteTypeOK, Lines
<1>11. StopsCounted'
  BY <1>1, <1>2 DEF StopsCounted, Running
<1>12. Buffered'
  BY <1>1, <1>2, <1>3, <1>5 DEF Buffered, Running
<1>13. ResultsFollow'
  <2>1. \A r \in tasks' : results'[r] = 0
    BY <1>1, <1>2 DEF ResultsFollow
  <2>2. ASSUME Headed(Written'), NEW r \in Runs
        PROVE  results'[r] = Cardinality(OkRows(csv', r)) /\ Cardinality(OkRows(csv', r)) <= 1
    <3>1. Headed(Written)
      BY <1>4, <1>5, <2>2
    <3>2. /\ results[r] = Cardinality(OkRows(csv, r)) + OkNow(r)
          /\ Cardinality(OkRows(csv, r)) + OkNow(r) <= 1
      BY <1>1, <1>2, <3>1 DEF ResultsFollow
    <3>3. OkNow(r) = IF r = r0 /\ s0 = "ok" THEN 1 ELSE 0
      BY <1>2, <1>8 DEF OkNow
    <3> QED BY <1>2, <1>9, <3>2, <3>3
  <2>3. \A r \in Runs : OkNow(r)' = 0 /\ Cardinality(OkRows(csv', r)) \in Nat
    BY <1>2, <1>6, <1>9 DEF OkNow
  <2> QED BY <2>1, <2>2, <2>3 DEF ResultsFollow
<1>14. Tried' /\ TriedEnds'
  BY <1>1, <1>2, <1>7, <1>9 DEF Tried, TriedEnds, Running
<1>15. MissingBound'
  <2>1. (LatencyRowsMissing \ Waived)' \subseteq LatencyRowsMissing \ Waived
    <3>1. \A r \in LatencyRuns : OkRows(latencyCsv', r) = OkRows(latencyCsv, r)
      BY <1>2
    <3>2. \A r \in LatencyRuns : OkRows(csv', r) # OkRows(csv, r) => r \in Waived'
      BY <1>2, <1>7, <1>9, SuiteAssumption DEF Waived
    <3>3. Waived = {}
      BY <1>2 DEF Waived
    <3>4. LatencyRowsMissing' = {r \in LatencyRuns : OkRows(csv', r) # {} /\ OkRows(latencyCsv', r) = {}}
      BY DEF LatencyRowsMissing
    <3> QED BY <3>1, <3>2, <3>3, <3>4 DEF LatencyRowsMissing
  <2>2. Cardinality((LatencyRowsMissing \ Waived)') <= Cardinality(LatencyRowsMissing \ Waived)
        /\ Cardinality((LatencyRowsMissing \ Waived)') \in Nat
    BY <2>1, MissingFinite, FS_Subset, FS_CardinalityType
  <2>3. stops \in Nat
    BY <1>1, SuiteAssumption DEF SuiteTypeOK
  <2> QED BY <1>1, <1>2, <2>2, <2>3, MissingFinite DEF MissingBound
<1>16. LinesBound'
  <2>1. Cardinality(RowsInFile') = Cardinality(RowsInFile) + 1
        /\ Cardinality(RowsInFile) \in Nat
    BY <1>3, <1>4, Selections, SelectedType DEF Gains
  <2>2. IsFiniteSet(MetadataLines') /\ MetadataLines' = MetadataLines
    BY <1>1, <1>2 DEF LinesBound, MetadataLines
  <2>3. stops \in Nat /\ metadata \in [Runs -> Nat] /\ Cardinality(MetadataLines) \in Nat
    BY <1>1, SuiteAssumption, FS_CardinalityType DEF SuiteTypeOK, LinesBound
  <2>4. Cardinality(MetadataLines') <= Cardinality(RowsInFile') + stops'
    BY <1>1, <1>2, <2>1, <2>2, <2>3 DEF LinesBound
  <2>5. \A r \in Runs : Cardinality(RowsOf(r)') <= metadata'[r]
    BY <1>1, <1>2, <1>6, <1>7, <1>9, <2>3 DEF LinesBound
  <2>6. \A r \in Runs : Cardinality(RowsOf(r)') \in Nat
    BY <1>6, <1>9
  <2>7. pc' # "row" /\ Cardinality(RowsInFile') \in Nat /\ stops' \in Nat
    BY <1>2, <2>1, <2>3
  <2> QED BY <2>2, <2>4, <2>5, <2>6, <2>7 DEF LinesBound
<1> QED BY <1>10, <1>11, <1>12, <1>13, <1>14, <1>15, <1>16 DEF SuiteIInv

(* A step that writes no row.                                              *)
SameRows(f, out) == \A S \in RowSets : Selected(out, S) = Selected(f, S)

(* Then everything that is counted stays as it is.                         *)
LEMMA NoRowWritten ==
  ASSUME SameRows(csv, csv'), SameRows(latencyCsv, latencyCsv')
  PROVE  /\ \A r \in Runs : /\ OkRows(csv', r) = OkRows(csv, r)
                            /\ OkRows(latencyCsv', r) = OkRows(latencyCsv, r)
                            /\ RowsOf(r)' = RowsOf(r)
         /\ RowsInFile' = RowsInFile
         /\ LatencyRowsMissing' = LatencyRowsMissing
<1>1. \A r \in Runs : /\ OkRows(csv', r) = OkRows(csv, r)
                      /\ OkRows(latencyCsv', r) = OkRows(latencyCsv, r)
                      /\ RowsOf(r)' = RowsOf(r)
  BY Selections DEF SameRows
<1>2. RowsInFile' = RowsInFile
  BY Selections DEF SameRows
<1>3. LatencyRowsMissing' = {r \in LatencyRuns : OkRows(csv', r) # {} /\ OkRows(latencyCsv', r) = {}}
  BY DEF LatencyRowsMissing
<1>4. LatencyRowsMissing' = LatencyRowsMissing
  BY <1>1, <1>3, SuiteAssumption DEF LatencyRowsMissing
<1> QED BY <1>1, <1>2, <1>4

(* No lines are zero lines.                                                *)
LEMMA NoRows == IsFiniteSet({}) /\ Cardinality({}) = 0
BY FS_EmptySet

(* What all steps use of the counts.                                       *)
LEMMA CountTypes ==
  ASSUME SuiteIInv
  PROVE  /\ \A r \in Runs : /\ Cardinality(OkRows(csv, r)) \in Nat
                            /\ Cardinality(RowsOf(r)) \in Nat
                            /\ IsFiniteSet(OkRows(csv, r))
                            /\ OkRows(csv, r) \subseteq RowsOf(r)
         /\ Cardinality(RowsInFile) \in Nat /\ Cardinality(MetadataLines) \in Nat
         /\ stops \in Nat /\ metadata \in [Runs -> Nat]
         /\ csv = NoFile => \A S \in RowSets : Selected(csv, S) = {}
         /\ latencyCsv = NoFile => \A S \in RowSets : Selected(latencyCsv, S) = {}
<1>1. csv \in Seq(Lines) \/ csv = NoFile
  BY DEF SuiteIInv, SuiteTypeOK
<1>2. csv \in Seq(Lines) => \A S : IsFiniteSet(Selected(csv, S)) /\ Cardinality(Selected(csv, S)) \in Nat
  BY SelectedType
<1>3. \A S \in RowSets : Selected(NoFile, S) = {}
  BY RowSetsAreRows, SelectedNone
<1>4. \A S \in RowSets : IsFiniteSet(Selected(csv, S)) /\ Cardinality(Selected(csv, S)) \in Nat
  <2>1. CASE csv \in Seq(Lines)
    BY <1>2, <2>1
  <2>2. CASE csv = NoFile
    <3>1. \A S \in RowSets : Selected(csv, S) = {}
      BY <1>3, <2>2
    <3> QED BY <3>1, NoRows
  <2> QED BY <1>1, <2>1, <2>2
<1>5. \A r \in Runs : OkRows(csv, r) \subseteq RowsOf(r)
  BY DEF OkRows, RowsOf, Outcomes
<1>6. IsFiniteSet(MetadataLines) /\ stops \in Nat /\ metadata \in [Runs -> Nat]
  BY SuiteAssumption DEF SuiteIInv, SuiteTypeOK, LinesBound
<1>7. Cardinality(MetadataLines) \in Nat
  BY <1>6, FS_CardinalityType
<1>8. \A r \in Runs : /\ Cardinality(OkRows(csv, r)) \in Nat /\ IsFiniteSet(OkRows(csv, r))
                      /\ Cardinality(RowsOf(r)) \in Nat
  BY <1>4, Selections
<1>9. Cardinality(RowsInFile) \in Nat
  BY <1>4, Selections
<1>10. /\ csv = NoFile => \A S \in RowSets : Selected(csv, S) = {}
       /\ latencyCsv = NoFile => \A S \in RowSets : Selected(latencyCsv, S) = {}
  BY <1>3
<1> QED BY <1>5, <1>6, <1>7, <1>8, <1>9, <1>10

(* A warmup, and a resume that raises.                                     *)
LEMMA StayStep ==
  ASSUME SuiteIInv, RunWarmup \/ ResumeRaises \/ UNCHANGED suiteVars
  PROVE  SuiteIInv'
<1> USE DEF SuiteIInv, suiteVars, suiteFiles, csvFiles
<1>1. /\ UNCHANGED <<stops, tasks, current, results, csv, buffer, latencyCsv, latencyBuffer, metadata>>
      /\ pc' = pc \/ (pc \in {"off", "done"} /\ pc' = "off")
      /\ starts' = starts \/ (starts' = starts + 1 /\ starts < MaxStarts)
      /\ warmups' = warmups \/ (warmups' = warmups - 1 /\ warmups > 0)
  BY DEF RunWarmup, ResumeRaises
<1>2. SuiteTypeOK'
  BY <1>1, SuiteAssumption DEF SuiteTypeOK
<1>3. StopsCounted'
  BY <1>1, SuiteAssumption DEF SuiteTypeOK, StopsCounted, Running
<1>4. Buffered' /\ Tried' /\ TriedEnds'
  BY <1>1 DEF Buffered, Running, Tried, TriedEnds, RowsOf
<1>5. Written' = Written
  BY <1>1 DEF Written
<1>6. ResultsFollow'
  BY <1>1, <1>5 DEF ResultsFollow, OkNow
<1>7. LatencyRowsMissing' = LatencyRowsMissing /\ RowsInFile' = RowsInFile /\ MetadataLines' = MetadataLines
  BY <1>1 DEF LatencyRowsMissing, RowsInFile, MetadataLines
<1>8. Waived' = Waived
  BY <1>1 DEF Waived
<1>9. MissingBound' /\ LinesBound'
  BY <1>1, <1>7, <1>8 DEF MissingBound, LinesBound, RowsOf
<1> QED BY <1>2, <1>3, <1>4, <1>6, <1>9

(* A start begins the files anew.                                          *)
LEMMA SuiteStartStep == ASSUME SuiteIInv, Start PROVE SuiteIInv'
<1>1. /\ csv' = <<>> /\ latencyCsv' = <<>> /\ buffer' = <<Header>> /\ latencyBuffer' = <<Header>>
      /\ pc' = "next" /\ starts' = starts + 1 /\ starts < MaxStarts /\ stops' = 0
      /\ tasks' = Runs /\ results' = [r \in Runs |-> 0] /\ metadata' = [r \in Runs |-> 0]
      /\ warmups' = WarmupRuns /\ current' = current
  BY DEF Start
<1>2. \A S \in RowSets : Selected(csv', S) = {} /\ Selected(latencyCsv', S) = {}
  BY <1>1, RowSetsAreRows, SelectedNone
<1>3. RowsInFile' = {} /\ \A r \in Runs : RowsOf(r)' = {} /\ OkRows(csv', r) = {}
  BY <1>2, Selections
<1>4. LatencyRowsMissing' = {}
  <2>1. LatencyRowsMissing' \subseteq {r \in LatencyRuns : OkRows(csv', r) # {}}
    BY DEF LatencyRowsMissing
  <2> QED BY <1>3, <2>1, SuiteAssumption
<1>5. MetadataLines' = {}
  BY <1>1 DEF MetadataLines
<1>6. SuiteTypeOK'
  BY <1>1, SuiteAssumption DEF SuiteIInv, SuiteTypeOK
<1>7. StopsCounted' /\ Buffered'
  <2>1. <<>> # NoFile
    BY DEF NoFile
  <2>2. starts \in Nat
    BY SuiteAssumption DEF SuiteIInv, SuiteTypeOK
  <2>3. StopsCounted'
    BY <1>1, <2>2 DEF StopsCounted
  <2>4. Buffered'
    BY <1>1, <2>1 DEF Buffered, Running
  <2> QED BY <2>3, <2>4
<1>8. ResultsFollow'
  <2>1. \A r \in Runs : results'[r] = 0 /\ Cardinality(OkRows(csv', r)) = 0 /\ OkNow(r)' = 0
    BY <1>1, <1>3, NoRows DEF OkNow
  <2> QED BY <1>1, <2>1 DEF ResultsFollow
<1>9. Tried' /\ TriedEnds'
  BY <1>1 DEF Tried, TriedEnds
<1>10. Waived' = {}
  BY <1>1 DEF Waived
<1>11. MissingBound'
  BY <1>1, <1>4, <1>10, NoRows DEF MissingBound
<1>12. LinesBound'
  <2>1. \A r \in Runs : Cardinality(RowsOf(r)') = 0 /\ metadata'[r] = 0
    BY <1>1, <1>3, NoRows
  <2>2. pc' # "row" /\ Cardinality(RowsInFile') = 0 /\ Cardinality(MetadataLines') = 0
        /\ IsFiniteSet(MetadataLines') /\ stops' = 0
    BY <1>1, <1>3, <1>5, NoRows
  <2> QED BY <2>1, <2>2 DEF LinesBound
<1> QED BY <1>6, <1>7, <1>8, <1>9, <1>11, <1>12 DEF SuiteIInv

(* A step that writes no row and begins none.                              *)
LEMMA MissingStays ==
  ASSUME SuiteIInv, LatencyRowsMissing' = LatencyRowsMissing, Waived' = {}, Waived = {}, stops' = stops
  PROVE  MissingBound'
BY DEF SuiteIInv, MissingBound

(* A resume averages what it finds, and leaves it out of what is to do.    *)
LEMMA ResumeStep == ASSUME SuiteIInv, Resume PROVE SuiteIInv'
<1>1. /\ pc \in {"off", "done"} /\ pc' = "next" /\ starts' = starts + 1 /\ starts < MaxStarts
      /\ csv' = (IF csv = NoFile THEN <<>> ELSE csv)
      /\ latencyCsv' = (IF latencyCsv = NoFile THEN <<>> ELSE latencyCsv)
      /\ buffer' = (IF csv = NoFile THEN <<Header>> ELSE <<>>)
      /\ latencyBuffer' = (IF latencyCsv = NoFile THEN <<Header>> ELSE <<>>)
      /\ results' = [r \in Runs |-> Loaded(r)] /\ tasks' = {r \in Runs : Loaded(r) = 0}
      /\ warmups' = WarmupRuns
      /\ UNCHANGED <<stops, current, metadata>>
  BY DEF Resume
<1>2. /\ buffer = <<>> /\ (csv = NoFile \/ csv \in Seq(Lines)) /\ ~Headed(NoFile)
  BY <1>1 DEF SuiteIInv, SuiteTypeOK, Buffered, Running, Headed, NoFile, Header
<1>3. SameRows(csv, csv') /\ SameRows(latencyCsv, latencyCsv')
  <2>1. \A S \in RowSets : Selected(<<>>, S) = {}
    BY RowSetsAreRows, SelectedNone
  <2> QED BY <1>1, <2>1, CountTypes DEF SameRows
<1>4. LatencyRowsMissing' = LatencyRowsMissing /\ RowsInFile' = RowsInFile
      /\ \A r \in Runs : RowsOf(r)' = RowsOf(r) /\ OkRows(csv', r) = OkRows(csv, r)
  BY <1>3, NoRowWritten
<1>5. \A r \in Runs : Loaded(r) \in Nat
  BY CountTypes DEF Loaded
<1>6. SuiteTypeOK'
  BY <1>1, <1>5, SuiteAssumption DEF SuiteIInv, SuiteTypeOK
<1>7. StopsCounted'
  <2>1. starts \in Nat /\ stops \in Nat
    BY SuiteAssumption DEF SuiteIInv, SuiteTypeOK
  <2> QED BY <1>1, <2>1 DEF SuiteIInv, StopsCounted, Running
<1>8. Buffered'
  <2>1. <<>> # NoFile
    BY DEF NoFile
  <2> QED BY <1>1, <2>1 DEF Buffered, Running
<1>9. ResultsFollow'
  <2>1. \A r \in Runs : OkNow(r)' = 0 /\ OkNow(r) = 0
    BY <1>1 DEF OkNow
  <2>2. \A r \in tasks' : results'[r] = 0
    BY <1>1
  <2>3. CASE csv = NoFile
    <3>1. \A r \in Runs : Cardinality(OkRows(csv', r)) = 0
      <4>1. \A r \in Runs : OkRows(csv, r) = {}
        BY <2>3, CountTypes, Selections
      <4> QED BY <1>4, <4>1, NoRows
    <3>2. \A r \in Runs : results'[r] = 0
      BY <1>1, <1>2, <2>3 DEF Loaded
    <3> QED BY <2>1, <2>2, <3>1, <3>2 DEF ResultsFollow
  <2>4. CASE csv # NoFile
    <3>1. Written = csv /\ Written' = csv /\ csv' = csv
      BY <1>1, <1>2, <2>4, ConcatEmptySeq DEF Written
    <3>2. ASSUME Headed(csv), NEW r \in Runs
          PROVE  results'[r] = Cardinality(OkRows(csv, r)) /\ Cardinality(OkRows(csv, r)) <= 1
                 /\ Cardinality(OkRows(csv, r)) \in Nat
      BY <1>1, <2>1, <3>1, <3>2, CountTypes DEF Loaded, SuiteIInv, ResultsFollow
    <3> QED BY <2>1, <2>2, <3>1, <3>2 DEF ResultsFollow
  <2> QED BY <2>3, <2>4
<1>10. Tried' /\ TriedEnds'
  <2>1. ASSUME NEW r \in Runs \ tasks' PROVE RowsOf(r)' # {}
    <3>1. Loaded(r) # 0
      BY <1>1, <2>1
    <3>2. OkRows(csv, r) # {}
      BY <3>1, NoRows DEF Loaded
    <3> QED BY <1>4, <3>2, CountTypes
  <2> QED BY <1>1, <2>1 DEF Tried, TriedEnds
<1>11. MissingBound'
  <2>1. Waived = {} /\ Waived' = {}
    BY <1>1 DEF Waived
  <2> QED BY <1>1, <1>4, <2>1, MissingStays
<1>12. LinesBound'
  <2>1. MetadataLines' = MetadataLines
    BY <1>1 DEF MetadataLines
  <2> QED BY <1>1, <1>4, <2>1 DEF SuiteIInv, LinesBound
<1> QED BY <1>6, <1>7, <1>8, <1>9, <1>10, <1>11, <1>12 DEF SuiteIInv

(* A measured run has ended: its result is averaged before its row is      *)
(* written.                                                                *)
LEMMA RunOnceStep ==
  ASSUME SuiteIInv, NEW r0 \in Runs, NEW s0 \in Outcomes, RunOnce(r0, s0)
  PROVE  SuiteIInv'
<1>1. /\ pc = "next" /\ r0 \in tasks /\ tasks' = tasks \ {r0} /\ current' = Row(r0, s0)
      /\ results' = [results EXCEPT ![r0] = IF s0 = "ok" THEN @ + 1 ELSE @]
      /\ pc' = "metadata"
      /\ UNCHANGED <<starts, stops, warmups, csv, buffer, latencyCsv, latencyBuffer, metadata>>
  BY DEF RunOnce, suiteFiles, csvFiles
<1>2. results \in [Runs -> Nat] /\ current' \in Rows
  BY <1>1 DEF SuiteIInv, SuiteTypeOK, Row, Rows
<1>3. SuiteTypeOK'
  BY <1>1, <1>2 DEF SuiteIInv, SuiteTypeOK, Lines
<1>4. StopsCounted' /\ Buffered' /\ TriedEnds'
  BY <1>1 DEF SuiteIInv, StopsCounted, Buffered, TriedEnds, Running
<1>5. Written' = Written
  BY <1>1 DEF Written
<1>6. ResultsFollow'
  <2>1. results[r0] = 0 /\ \A r \in tasks : results[r] = 0
    BY <1>1 DEF SuiteIInv, ResultsFollow
  <2>2. \A r \in tasks' : results'[r] = 0
    BY <1>1, <1>2, <2>1 DEF SuiteIInv, SuiteTypeOK
  <2>3. ASSUME Headed(Written), NEW r \in Runs
        PROVE  /\ results'[r] = Cardinality(OkRows(csv, r)) + OkNow(r)'
               /\ Cardinality(OkRows(csv, r)) + OkNow(r)' <= 1
    <3>1. /\ results[r] = Cardinality(OkRows(csv, r)) /\ Cardinality(OkRows(csv, r)) <= 1
          /\ Cardinality(OkRows(csv, r)) \in Nat
      <4>1. OkNow(r) = 0 /\ Cardinality(OkRows(csv, r)) \in Nat
        BY <1>1, CountTypes DEF OkNow
      <4> QED BY <1>1, <2>3, <4>1 DEF SuiteIInv, ResultsFollow
    <3>2. OkNow(r)' = IF r = r0 /\ s0 = "ok" THEN 1 ELSE 0
      BY <1>1 DEF OkNow, Row
    <3>3. results'[r] = IF r = r0 /\ s0 = "ok" THEN results[r] + 1 ELSE results[r]
      BY <1>1, <1>2
    <3> QED BY <2>1, <3>1, <3>2, <3>3
  <2> QED BY <1>1, <1>5, <2>2, <2>3 DEF ResultsFollow
<1>7. Tried'
  <2>1. \A r \in Runs : RowsOf(r)' = RowsOf(r)
    BY <1>1 DEF RowsOf
  <2>2. current'[1] = r0
    BY <1>1 DEF Row
  <2> QED BY <1>1, <2>1, <2>2 DEF SuiteIInv, Tried, Running
<1>8. MissingBound'
  <2>1. Waived = {} /\ Waived' = {} /\ LatencyRowsMissing' = LatencyRowsMissing
    BY <1>1 DEF Waived, LatencyRowsMissing
  <2> QED BY <1>1, <2>1, MissingStays
<1>9. LinesBound'
  BY <1>1 DEF SuiteIInv, LinesBound, MetadataLines, RowsOf, RowsInFile
<1> QED BY <1>3, <1>4, <1>6, <1>7, <1>8, <1>9 DEF SuiteIInv

(* One more line of metadata, ahead of its row.                            *)
LEMMA WriteMetadataStep == ASSUME SuiteIInv, WriteMetadata PROVE SuiteIInv'
<1>1. /\ pc = "metadata" /\ pc' = "row"
      /\ metadata' = [metadata EXCEPT ![current[1]] = @ + 1]
      /\ UNCHANGED <<starts, stops, warmups, tasks, current, results, csv, buffer, latencyCsv,
                     latencyBuffer>>
  BY DEF WriteMetadata, csvFiles
<1>2. current \in Rows /\ current[1] \in Runs
  BY <1>1 DEF SuiteIInv, SuiteTypeOK, Rows
<1>3. SuiteTypeOK'
  BY <1>1, <1>2 DEF SuiteIInv, SuiteTypeOK
<1>4. StopsCounted' /\ Buffered' /\ TriedEnds'
  BY <1>1 DEF SuiteIInv, StopsCounted, Buffered, TriedEnds, Running
<1>5. Written' = Written
  BY <1>1 DEF Written
<1>6. ResultsFollow' /\ Tried'
  BY <1>1, <1>5 DEF SuiteIInv, ResultsFollow, OkNow, Tried, Running, RowsOf
<1>7. MissingBound'
  <2>1. Waived = {} /\ Waived' = {} /\ LatencyRowsMissing' = LatencyRowsMissing
    BY <1>1 DEF Waived, LatencyRowsMissing
  <2> QED BY <1>1, <2>1, MissingStays
<1>8. LinesBound'
  <2>1. metadata \in [Runs -> Nat] /\ IsFiniteSet(MetadataLines) /\ stops \in Nat
        /\ Cardinality(MetadataLines) \in Nat /\ Cardinality(RowsInFile) \in Nat
    BY CountTypes DEF SuiteIInv, LinesBound
  <2> DEFINE line == <<current[1], metadata[current[1]] + 1>>
  <2>2. MetadataLines' = MetadataLines \cup {line}
    <3>1. \A p : p \in MetadataLines <=> \E r \in Runs : \E n \in 1..metadata[r] : p = <<r, n>>
      BY DEF MetadataLines
    <3>2. \A p : p \in MetadataLines' <=> \E r \in Runs : \E n \in 1..metadata'[r] : p = <<r, n>>
      BY DEF MetadataLines
    <3>3. \A r \in Runs : 1..metadata'[r] =
            1..metadata[r] \cup (IF r = current[1] THEN {metadata[r] + 1} ELSE {})
      BY <1>1, <1>2, <2>1
    <3>4. \A p : p \in MetadataLines' <=> p \in MetadataLines \/ p = line
      BY <1>2, <3>1, <3>2, <3>3
    <3> QED BY <3>4
  <2>3. IsFiniteSet(MetadataLines') /\ Cardinality(MetadataLines') <= Cardinality(MetadataLines) + 1
        /\ Cardinality(MetadataLines') \in Nat
    <3> HIDE DEF line
    <3>1. /\ IsFiniteSet(MetadataLines \cup {line})
          /\ Cardinality(MetadataLines \cup {line})
               = IF line \in MetadataLines THEN Cardinality(MetadataLines) ELSE Cardinality(MetadataLines) + 1
      BY <2>1, FS_AddElement
    <3> QED BY <2>1, <2>2, <3>1
  <2>4. RowsInFile' = RowsInFile /\ \A r \in Runs : RowsOf(r)' = RowsOf(r)
    BY <1>1 DEF RowsInFile, RowsOf
  <2>5. Cardinality(MetadataLines) <= Cardinality(RowsInFile) + stops
    BY <1>1, <2>1 DEF SuiteIInv, LinesBound
  <2>6. Cardinality(MetadataLines') <= Cardinality(RowsInFile') + stops' + 1
    BY <1>1, <2>1, <2>3, <2>4, <2>5
  <2>7. \A r \in Runs : /\ Cardinality(RowsOf(r)) <= metadata[r] /\ Cardinality(RowsOf(r)) \in Nat
                        /\ metadata'[r] = IF r = current[1] THEN metadata[r] + 1 ELSE metadata[r]
    <3>1. \A r \in Runs : Cardinality(RowsOf(r)) \in Nat
      BY CountTypes
    <3> QED BY <1>1, <2>1, <3>1 DEF SuiteIInv, LinesBound
  <2>8. \A r \in Runs : Cardinality(RowsOf(r)') + (IF pc' = "row" /\ current'[1] = r THEN 1 ELSE 0) <= metadata'[r]
    BY <1>1, <2>1, <2>4, <2>7
  <2> QED BY <1>1, <2>3, <2>6, <2>8 DEF LinesBound
<1> QED BY <1>3, <1>4, <1>6, <1>7, <1>8 DEF SuiteIInv

(* The latency row follows: it is not missing any more.                    *)
LEMMA WriteLatencyRowStep == ASSUME SuiteIInv, WriteLatencyRow PROVE SuiteIInv'
<1>1. /\ pc = "latency" /\ pc' = "next" /\ current' = Header
      /\ latencyCsv' = WithLine(latencyCsv, latencyBuffer, current) /\ latencyBuffer' = <<>>
      /\ UNCHANGED <<starts, stops, warmups, tasks, results, csv, buffer, metadata>>
  BY DEF WriteLatencyRow, WithLine
<1>2. /\ current \in Rows /\ latencyCsv \in Seq(Lines) /\ latencyBuffer \in Buffers
      /\ latencyBuffer # <<>> => latencyCsv = <<>>
      /\ csv # NoFile
  BY <1>1 DEF SuiteIInv, SuiteTypeOK, Buffered, Buffers
<1>3. latencyCsv' \in Seq(Lines) /\ latencyCsv' # NoFile /\ Gains(latencyCsv, latencyCsv', current)
  BY <1>1, <1>2, WrittenOut, NoFileIsNone
<1>4. SuiteTypeOK'
  BY <1>1, <1>3 DEF SuiteIInv, SuiteTypeOK, Lines
<1>5. StopsCounted' /\ TriedEnds' /\ Buffered'
  BY <1>1, <1>2, <1>3 DEF SuiteIInv, StopsCounted, Buffered, TriedEnds, Running
<1>6. ResultsFollow'
  <2>1. Written' = Written /\ \A r \in Runs : OkNow(r)' = OkNow(r)
    BY <1>1 DEF Written, OkNow
  <2> QED BY <1>1, <2>1 DEF SuiteIInv, ResultsFollow
<1>7. Tried'
  BY <1>1 DEF SuiteIInv, Tried, Running, RowsOf
<1>8. MissingBound'
  <2>1. \A r \in LatencyRuns : OkRows(latencyCsv', r) = {} =>
                                 OkRows(latencyCsv, r) = {} /\ current # Row(r, "ok")
    <3> SUFFICES ASSUME NEW r \in LatencyRuns, OkRows(latencyCsv', r) = {}
                 PROVE  OkRows(latencyCsv, r) = {} /\ current # Row(r, "ok")
      OBVIOUS
    <3> DEFINE A == {Row(r, "ok")}
    <3>1. r \in Runs /\ A \in RowSets /\ OkRows(latencyCsv, r) = Selected(latencyCsv, A)
          /\ OkRows(latencyCsv', r) = Selected(latencyCsv', A) /\ (current = Row(r, "ok") => current \in A)
      BY SuiteAssumption, Selections
    <3> HIDE DEF A
    <3> QED BY <1>3, <3>1 DEF Gains
  <2>2. LatencyRowsMissing' = {r \in LatencyRuns : OkRows(csv', r) # {} /\ OkRows(latencyCsv', r) = {}}
    BY DEF LatencyRowsMissing
  <2>3. Waived' = {}
    BY <1>1 DEF Waived
  <2>4. \A r : current = Row(r, "ok") <=> current[1] = r /\ current[2] = "ok"
    BY <1>2 DEF Row, Rows
  <2>5. (LatencyRowsMissing \ Waived)' \subseteq LatencyRowsMissing \ Waived
    BY <1>1, <2>1, <2>2, <2>3, <2>4 DEF LatencyRowsMissing, Waived
  <2>6. Cardinality((LatencyRowsMissing \ Waived)') <= Cardinality(LatencyRowsMissing \ Waived)
        /\ Cardinality((LatencyRowsMissing \ Waived)') \in Nat
    BY <2>5, MissingFinite, FS_Subset, FS_CardinalityType
  <2>7. stops \in Nat /\ Cardinality(LatencyRowsMissing \ Waived) <= stops
    BY CountTypes DEF SuiteIInv, MissingBound
  <2> QED BY <1>1, <2>6, <2>7, MissingFinite DEF MissingBound
<1>9. LinesBound'
  BY <1>1 DEF SuiteIInv, LinesBound, MetadataLines, RowsOf, RowsInFile
<1> QED BY <1>4, <1>5, <1>6, <1>7, <1>8, <1>9 DEF SuiteIInv

(* The files when the program ends, whichever way.                         *)
LEMMA ClosedFiles ==
  ASSUME SuiteIInv, pc \in Running,
         \/ csv' = csv \o buffer /\ latencyCsv' = latencyCsv \o latencyBuffer
         \/ csv' = csv /\ latencyCsv' = latencyCsv
  PROVE  /\ csv' \in Seq(Lines) /\ latencyCsv' \in Seq(Lines)
         /\ csv' # NoFile /\ latencyCsv' # NoFile
         /\ SameRows(csv, csv') /\ SameRows(latencyCsv, latencyCsv')
         /\ Headed(csv') => Headed(Written)
<1>1. /\ csv \in Seq(Lines) /\ latencyCsv \in Seq(Lines)
      /\ buffer \in Buffers /\ latencyBuffer \in Buffers
      /\ buffer # <<>> => csv = <<>>
      /\ latencyBuffer # <<>> => latencyCsv = <<>>
  BY DEF SuiteIInv, SuiteTypeOK, Buffered, Buffers, Running
<1>2. CASE csv' = csv \o buffer /\ latencyCsv' = latencyCsv \o latencyBuffer
  <2>1. csv' = WithBuffer(csv, buffer) /\ latencyCsv' = WithBuffer(latencyCsv, latencyBuffer)
        /\ Written = csv'
    BY <1>2 DEF WithBuffer, Written
  <2> QED BY <1>1, <2>1, Flushed, NoFileIsNone DEF SameRows
<1>3. CASE csv' = csv /\ latencyCsv' = latencyCsv
  <2>1. Written = WithBuffer(csv, buffer)
    BY DEF WithBuffer, Written
  <2> QED BY <1>1, <1>3, <2>1, Flushed, NoFileIsNone DEF SameRows
<1> QED BY <1>2, <1>3

(* The end of the suite.                                                   *)
LEMMA FinishStep == ASSUME SuiteIInv, Finish PROVE SuiteIInv'
<1>1. /\ pc = "next" /\ tasks = {} /\ pc' = "done"
      /\ csv' = csv \o buffer /\ buffer' = <<>>
      /\ latencyCsv' = latencyCsv \o latencyBuffer /\ latencyBuffer' = <<>>
      /\ UNCHANGED <<starts, stops, warmups, tasks, current, results, metadata>>
  BY DEF Finish, Close
<1>2. /\ csv' \in Seq(Lines) /\ latencyCsv' \in Seq(Lines) /\ csv' # NoFile /\ latencyCsv' # NoFile
      /\ SameRows(csv, csv') /\ SameRows(latencyCsv, latencyCsv')
  BY <1>1, ClosedFiles DEF Running
<1>3. LatencyRowsMissing' = LatencyRowsMissing /\ RowsInFile' = RowsInFile
      /\ \A r \in Runs : RowsOf(r)' = RowsOf(r) /\ OkRows(csv', r) = OkRows(csv, r)
  BY <1>2, NoRowWritten
<1>4. SuiteTypeOK'
  BY <1>1, <1>2 DEF SuiteIInv, SuiteTypeOK
<1>5. StopsCounted' /\ TriedEnds' /\ Buffered'
  <2>1. stops \in Nat /\ starts \in Nat /\ stops + 1 <= starts
    BY <1>1, SuiteAssumption DEF SuiteIInv, SuiteTypeOK, StopsCounted, Running
  <2>2. StopsCounted'
    BY <1>1, <2>1 DEF StopsCounted, Running
  <2>3. TriedEnds' /\ Buffered'
    BY <1>1, <1>2 DEF Buffered, TriedEnds, Running
  <2> QED BY <2>2, <2>3
<1>6. ResultsFollow'
  <2>1. Written' = Written
    BY <1>1, <1>2, ConcatEmptySeq DEF Written
  <2>2. \A r \in Runs : OkNow(r)' = 0 /\ OkNow(r) = 0
    BY <1>1 DEF OkNow
  <2>3. \A r \in Runs : (OkRows(csv, r))' = OkRows(csv, r)
    BY <1>3 DEF OkRows
  <2> QED BY <1>1, <2>1, <2>2, <2>3 DEF SuiteIInv, ResultsFollow
<1>7. Tried'
  BY <1>1, <1>3 DEF SuiteIInv, Tried, Running
<1>8. MissingBound'
  <2>1. Waived = {} /\ Waived' = {}
    BY <1>1 DEF Waived
  <2> QED BY <1>1, <1>3, <2>1, MissingStays
<1>9. LinesBound'
  BY <1>1, <1>3 DEF SuiteIInv, LinesBound, MetadataLines
<1> QED BY <1>4, <1>5, <1>6, <1>7, <1>8, <1>9 DEF SuiteIInv

(* An interruption or a kill: what was being written may be missing.       *)
LEMMA StoppedStep == ASSUME SuiteIInv, Interrupt \/ KillSuite PROVE SuiteIInv'
<1>1. /\ pc \in Running /\ pc' = "off" /\ stops' = stops + 1
      /\ \/ csv' = csv \o buffer /\ latencyCsv' = latencyCsv \o latencyBuffer
         \/ csv' = csv /\ latencyCsv' = latencyCsv
      /\ buffer' = <<>> /\ latencyBuffer' = <<>>
      /\ warmups' = 0 /\ tasks' = {} /\ current' = Header /\ results' = [r \in Runs |-> 0]
      /\ UNCHANGED <<starts, metadata>>
  BY DEF Interrupt, KillSuite, Close, Forget, Running
<1>2. /\ csv' \in Seq(Lines) /\ latencyCsv' \in Seq(Lines) /\ csv' # NoFile /\ latencyCsv' # NoFile
      /\ SameRows(csv, csv') /\ SameRows(latencyCsv, latencyCsv')
      /\ Headed(csv') => Headed(Written)
  BY <1>1, ClosedFiles
<1>3. LatencyRowsMissing' = LatencyRowsMissing /\ RowsInFile' = RowsInFile
      /\ \A r \in Runs : RowsOf(r)' = RowsOf(r) /\ OkRows(csv', r) = OkRows(csv, r)
  BY <1>2, NoRowWritten
<1>4. stops \in Nat /\ stops + 1 <= starts /\ starts \in 0..MaxStarts
  BY <1>1, CountTypes DEF SuiteIInv, StopsCounted, SuiteTypeOK
<1>5. SuiteTypeOK'
  BY <1>1, <1>2, <1>4, SuiteAssumption DEF SuiteIInv, SuiteTypeOK, Lines
<1>6. StopsCounted' /\ TriedEnds' /\ Buffered'
  BY <1>1, <1>2, <1>4 DEF StopsCounted, Buffered, TriedEnds, Running
<1>7. ResultsFollow'
  <2>1. Written' = csv'
    BY <1>1, <1>2, ConcatEmptySeq DEF Written
  <2>2. ASSUME Headed(csv'), NEW r \in Runs PROVE Cardinality(OkRows(csv', r)) + OkNow(r)' <= 1
    <3>1. Cardinality(OkRows(csv, r)) + OkNow(r) <= 1 /\ Cardinality(OkRows(csv, r)) \in Nat
      BY <1>2, <2>2, CountTypes DEF SuiteIInv, ResultsFollow
    <3>2. OkNow(r)' = 0 /\ OkNow(r) \in {0, 1}
      BY <1>1 DEF OkNow
    <3> QED BY <1>3, <3>1, <3>2
  <2> QED BY <1>1, <2>1, <2>2 DEF ResultsFollow
<1>8. Tried'
  BY <1>1 DEF Tried, Running
<1>9. MissingBound'
  <2>1. Waived' = {}
    BY <1>1 DEF Waived
  <2>2. Cardinality(LatencyRowsMissing) <= Cardinality(LatencyRowsMissing \ Waived) + 1
    <3>1. IsFiniteSet(LatencyRowsMissing) /\ Cardinality(LatencyRowsMissing) \in Nat
      BY MissingFinite, FS_CardinalityType
    <3>2. CASE Waived = {}
      <4>1. LatencyRowsMissing \ Waived = LatencyRowsMissing
        BY <3>2
      <4> QED BY <3>1, <4>1
    <3>3. CASE Waived = {current[1]}
      BY <3>1, <3>3, FS_RemoveElement
    <3> QED BY <3>2, <3>3 DEF Waived
  <2>3. Cardinality(LatencyRowsMissing \ Waived) <= stops
    BY DEF SuiteIInv, MissingBound
  <2>4. (LatencyRowsMissing \ Waived)' = LatencyRowsMissing
    BY <1>3, <2>1
  <2>5. Cardinality(LatencyRowsMissing) \in Nat /\ Cardinality(LatencyRowsMissing \ Waived) \in Nat
    BY MissingFinite, FS_CardinalityType
  <2>6. Cardinality(LatencyRowsMissing) <= stops + 1
    BY <1>4, <2>2, <2>3, <2>5
  <2>7. MissingBound' <=> Cardinality((LatencyRowsMissing \ Waived)') <= stops'
    BY DEF MissingBound
  <2> QED BY <1>1, <2>4, <2>6, <2>7
<1>10. LinesBound'
  <2>1. MetadataLines' = MetadataLines /\ IsFiniteSet(MetadataLines)
    BY <1>1 DEF SuiteIInv, LinesBound, MetadataLines
  <2>2. Cardinality(MetadataLines) <= Cardinality(RowsInFile) + stops + 1
    BY CountTypes DEF SuiteIInv, LinesBound
  <2>3. \A r \in Runs : Cardinality(RowsOf(r)) <= metadata[r] /\ Cardinality(RowsOf(r)) \in Nat
    <3>1. \A r \in Runs : Cardinality(RowsOf(r)) \in Nat /\ metadata[r] \in Nat
      BY CountTypes
    <3> QED BY <3>1 DEF SuiteIInv, LinesBound
  <2>4. pc' # "row" /\ Cardinality(RowsInFile) \in Nat /\ Cardinality(MetadataLines) \in Nat
    BY <1>1, CountTypes
  <2> QED BY <1>1, <1>3, <1>4, <2>1, <2>2, <2>3, <2>4 DEF LinesBound
<1> QED BY <1>5, <1>6, <1>7, <1>8, <1>9, <1>10 DEF SuiteIInv

(* Before the first start there are no files.                              *)
LEMMA SuiteInitInv == SuiteInit => SuiteIInv
<1> SUFFICES ASSUME SuiteInit PROVE SuiteIInv
  OBVIOUS
<1>1. \A S \in RowSets : Selected(csv, S) = {}
  BY RowSetsAreRows, SelectedNone DEF SuiteInit
<1>2. RowsInFile = {} /\ \A r \in Runs : OkRows(csv, r) = {} /\ RowsOf(r) = {}
  BY <1>1, Selections
<1>3. MetadataLines = {} /\ LatencyRowsMissing = {} /\ Waived = {}
  BY <1>2, SuiteAssumption DEF SuiteInit, MetadataLines, LatencyRowsMissing, Waived
<1>4. SuiteTypeOK
  BY SuiteAssumption DEF SuiteInit, SuiteTypeOK, Lines
<1>5. StopsCounted /\ Buffered /\ Tried /\ TriedEnds
  BY DEF SuiteInit, StopsCounted, Buffered, Tried, TriedEnds, Running
<1>6. ResultsFollow
  <2>1. \A r \in Runs : Cardinality(OkRows(csv, r)) = 0 /\ OkNow(r) = 0
    BY <1>2, NoRows DEF SuiteInit, OkNow
  <2> QED BY <2>1 DEF SuiteInit, ResultsFollow
<1>7. MissingBound
  BY <1>3, NoRows DEF MissingBound, SuiteInit
<1>8. LinesBound
  <2>1. \A r \in Runs : Cardinality(RowsOf(r)) = 0 /\ metadata[r] = 0
    BY <1>2, NoRows DEF SuiteInit
  <2> QED BY <1>2, <1>3, <2>1, NoRows DEF LinesBound, SuiteInit
<1> QED BY <1>4, <1>5, <1>6, <1>7, <1>8 DEF SuiteIInv

(* Every state of the suite satisfies the invariant.                       *)
LEMMA SuiteInvariance == SuiteSpec => []SuiteIInv
<1>1. SuiteIInv /\ [SuiteNext]_suiteVars => SuiteIInv'
  BY StayStep, SuiteStartStep, ResumeStep, RunOnceStep, WriteMetadataStep, WriteRowStep,
     WriteLatencyRowStep, FinishStep, StoppedStep DEF SuiteNext
<1> QED BY SuiteInitInv, <1>1, PTL DEF SuiteSpec

(* Whenever the CSV file has its header, each run is averaged as often as  *)
(* the file has an ok row of it, and once at most, over any number of      *)
(* stops and resumes (throughput_results in main of run_all.py).           *)
THEOREM SuiteAverages == SuiteSpec => []AveragesMatchFile
<1>1. SuiteIInv => AveragesMatchFile
  <2> SUFFICES ASSUME SuiteIInv, pc \in {"next", "latency", "done"}, Headed(Written), NEW r \in Runs
               PROVE  results[r] = Cardinality(OkRows(csv, r)) /\ results[r] <= 1
    BY DEF AveragesMatchFile
  <2>1. OkNow(r) = 0 /\ Cardinality(OkRows(csv, r)) \in Nat
    BY CountTypes DEF OkNow
  <2> QED BY <2>1 DEF SuiteIInv, ResultsFollow
<1> QED BY SuiteInvariance, <1>1, PTL

(* When the suite is over every run has a row, and the three files differ  *)
(* by no more than one row or line for each time it was stopped.           *)
THEOREM SuiteCorrect == SuiteSpec => []SuiteInv
<1>1. SuiteIInv => SuiteInv
  <2> SUFFICES ASSUME SuiteIInv PROVE SuiteInv
    OBVIOUS
  <2>1. SuiteTypeOK
    BY DEF SuiteIInv
  <2>2. EveryRunHasRow
    BY DEF SuiteIInv, Tried, TriedEnds, EveryRunHasRow
  <2>3. LatencyFileFollows
    <3>1. pc # "latency" => LatencyRowsMissing \ Waived = LatencyRowsMissing
      BY DEF Waived
    <3> QED BY <3>1 DEF SuiteIInv, MissingBound, LatencyFileFollows
  <2>4. MetadataLeads
    <3>1. \A r \in Runs : Cardinality(RowsOf(r)) \in Nat /\ metadata[r] \in Nat
      BY CountTypes
    <3> QED BY <3>1 DEF SuiteIInv, LinesBound, MetadataLeads
  <2> QED BY <2>1, <2>2, <2>3, <2>4 DEF SuiteInv
<1> QED BY SuiteInvariance, <1>1, PTL
=============================================================================
