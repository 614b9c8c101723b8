--------------------------- MODULE MessageCounts ----------------------------
(***************************************************************************)
(* How main() of run_all.py comes to the number of messages of each run.   *)
(* A number is given by the user, or it is calibrated, or it is that of    *)
(* the preset.  Calibrated numbers can be saved in a file for later        *)
(* invocations, which may select other benchmarks.  The program may be     *)
(* stopped between any two steps, also while it writes the file.           *)
(***************************************************************************)
EXTENDS Integers

CONSTANTS
  Frameworks, SleepTimes,
  None,           \* no number
  NoCountsFile,   \* what a counts file can be besides counts: absent
  Torn,           \* or cut off
  Table,          \* the presets: SPECS[framework].messages.get(sleep time)
  Base,           \* the same of the base framework if the mode is steady, else None
  Window,         \* seconds of warmup and measurement of a steady run
  Target,         \* --target-duration
  Given,          \* bound: numbers the user gives
  Throughputs,    \* bound: measured messages per second
  MaxInvocations  \* bound: how often the program is started

Pairs == Frameworks \X SleepTimes
Counts == [Pairs -> Nat \cup {None}]

ASSUME CountsAssumption ==
  /\ None \notin Int /\ NoCountsFile \notin Counts /\ Torn \notin Counts
  /\ Table \in Counts /\ Base \in Counts
  /\ Window \in Nat /\ Target \in Nat
  /\ Given \subseteq Nat /\ Throughputs \subseteq Nat
  /\ MaxInvocations \in Nat

VARIABLES
  stage,       \* "off", "calibrate", "dump", "plan" or "planned"
  invocations, \* how often the program was started
  selected,    \* the pairs of this invocation
  withFile,    \* --counts-file was given
  todo,        \* pairs left to calibrate
  counts,      \* calibrated_counts
  file,        \* what the file says, or NoCountsFile, or Torn
  filePairs,   \* history: the pairs it was calibrated for
  explicit,    \* the number the user gave for a framework
  plan,        \* messages_for of each selected pair
  suggested    \* the pair and number suggested last

options == <<invocations, selected, withFile>>
numbers == <<explicit, plan, suggested>>
countsVars == <<stage, options, todo, counts, file, filePairs, numbers>>

Nothing == [p \in Pairs |-> None]

Larger(a, b) == IF a >= b THEN a ELSE b

(* round(x / unit) * unit: Python rounds a tie to the even number.         *)
Rounded(x, unit) ==
  LET q == x \div unit
      r == x % unit
      up == 2 * r > unit \/ (2 * r = unit /\ q % 2 = 1)
  IN  unit * (IF up THEN q + 1 ELSE q)

Recommended(thr) == Larger(500, Rounded(thr * Target, 500))

(***************************************************************************)
(* steady_message_floor: the base framework's count for 15 seconds, scaled *)
(* to the window with a margin of 1.25, rounded up to thousands.           *)
(***************************************************************************)
Estimate(p) == Base[p] * Window * 5   \* in units of 1/(15 * 4)

(***************************************************************************)
(* Slips: each stands for one bug somebody could write into the operation  *)
(* it is named after.  No action uses them; they are put in the place of   *)
(* that operation to see that a property notices.                          *)
(***************************************************************************)
SteadyFloorRoundedDown(p) == Larger(1000, 1000 * (Estimate(p) \div 60000))

SteadyFloor(p) == Larger(1000, 1000 * ((Estimate(p) + 59999) \div 60000))
AtLeastFloor(p, n) == IF Base[p] = None THEN n ELSE Larger(n, SteadyFloor(p))
-----------------------------------------------------------------------------
CountsInit == /\ stage = "off"
              /\ invocations = 0 /\ selected = {} /\ withFile = FALSE
              /\ todo = {} /\ counts = Nothing
              /\ file = NoCountsFile /\ filePairs = {}
              /\ explicit = [f \in Frameworks |-> None]
              /\ plan = Nothing
              /\ suggested = <<None, None>>

(* Two more slips.                                                         *)
MessagesForCalibratedOnly(p) ==
  LET known == IF counts # Nothing THEN counts[p] ELSE Table[p]
  IN  IF explicit'[p[1]] # None THEN explicit'[p[1]]
      ELSE IF known = None THEN None
      ELSE AtLeastFloor(p, known)

OpenFileEarly == /\ stage = "calibrate" /\ withFile /\ counts # Nothing
                 /\ file' = counts /\ filePairs' = selected
                 /\ stage' = IF todo = {} THEN "dump" ELSE "calibrate"
                 /\ UNCHANGED <<options, todo, counts, numbers>>

(* --messages-per-framework, else --messages, else what is known.          *)
MessagesFor(p) ==
  LET known == IF counts[p] # None THEN counts[p] ELSE Table[p]
  IN  IF explicit'[p[1]] # None THEN explicit'[p[1]]
      ELSE IF known = None THEN None
      ELSE AtLeastFloor(p, known)

-----------------------------------------------------------------------------
Begin(s, w) == /\ stage = "off" /\ invocations < MaxInvocations
               /\ invocations' = invocations + 1
               /\ selected' = s
               /\ withFile' = w
               /\ explicit' = [f \in Frameworks |-> None]
               /\ plan' = Nothing
               /\ suggested' = <<None, None>>
               /\ UNCHANGED <<file, filePairs>>

(* Numbers and sleep times come back from the JSON as they were written.   *)
(* A file that exists is loaded, whether or not --calibrate was given, and *)
(* whatever it was calibrated for.                                         *)
StartWithFile(s) == /\ Begin(s, TRUE)
                    /\ file \notin {NoCountsFile, Torn}
                    /\ counts' = file
                    /\ todo' = {}
                    /\ stage' = "plan"

StartFails(s) == /\ Begin(s, TRUE)       \* JSONDecodeError
                 /\ file = Torn
                 /\ counts' = Nothing /\ todo' = {}
                 /\ UNCHANGED stage

StartCalibrating(s, w) == /\ Begin(s, w)
                          /\ w => file = NoCountsFile
                          /\ counts' = Nothing
                          /\ todo' = s
                          /\ stage' = "calibrate"

StartWithTable(s, w) == /\ Begin(s, w)
                        /\ w => file = NoCountsFile
                        /\ counts' = Nothing /\ todo' = {}
                        /\ stage' = "plan"

(* run_once came back with a throughput and ok, or not: then the preset,   *)
(* if there is one, goes into the counts.                                  *)
Calibrate(p, thr) ==
  /\ stage = "calibrate" /\ p \in todo
  /\ todo' = todo \ {p}
  /\ counts' = [counts EXCEPT ![p] = IF thr = None THEN Table[p] ELSE Recommended(thr)]
  /\ UNCHANGED <<stage, options, file, filePairs, numbers>>

Calibrated == /\ stage = "calibrate" /\ todo = {} /\ ~withFile
              /\ stage' = "plan"
              /\ UNCHANGED <<options, todo, counts, file, filePairs, numbers>>

(* open("w") leaves nothing of the file until the dump is written.         *)
OpenFile == /\ stage = "calibrate" /\ todo = {} /\ withFile
            /\ file' = Torn /\ filePairs' = selected
            /\ stage' = "dump"
            /\ UNCHANGED <<options, todo, counts, numbers>>

Dump == /\ stage = "dump"
        /\ file' = counts
        /\ stage' = "plan"
        /\ UNCHANGED <<options, todo, counts, filePairs, numbers>>

Plan(messages, overrides) ==
  /\ stage = "plan"
  /\ explicit' = [f \in Frameworks |-> IF overrides[f] # None THEN overrides[f] ELSE messages]
  /\ plan' = [p \in Pairs |-> IF p \in selected THEN MessagesFor(p) ELSE None]
  /\ stage' = "planned"
  /\ UNCHANGED <<options, todo, counts, file, filePairs, suggested>>

(* suggest_message_counts, after the runs, for a pair that has results.    *)
Suggest(p, avg) ==
  /\ stage = "planned" /\ plan[p] # None
  /\ suggested' = <<p, AtLeastFloor(p, Larger(1000, Rounded(avg * Target, 1000)))>>
  /\ UNCHANGED <<stage, options, todo, counts, file, filePairs, explicit, plan>>

(* The end of the program, or an interruption of it.                       *)
EndProgram == /\ stage # "off"
              /\ stage' = "off"
              /\ UNCHANGED <<options, todo, counts, file, filePairs, numbers>>

CountsNext == \/ \E s \in SUBSET Pairs \ {{}}, w \in BOOLEAN :
                   \/ StartWithFile(s) \/ StartFails(s)
                   \/ StartCalibrating(s, w) \/ StartWithTable(s, w)
              \/ \E p \in Pairs, thr \in Throughputs \cup {None} : Calibrate(p, thr)
              \/ Calibrated \/ OpenFile \/ Dump
              \/ \E m \in Given \cup {None}, o \in [Frameworks -> Given \cup {None}] : Plan(m, o)
              \/ \E p \in Pairs, avg \in Throughputs : Suggest(p, avg)
              \/ EndProgram

CountsSpec == CountsInit /\ [][CountsNext]_countsVars
-----------------------------------------------------------------------------
CountsTypeOK ==
  /\ stage \in {"off", "calibrate", "dump", "plan", "planned"}
  /\ invocations \in 0..MaxInvocations
  /\ selected \subseteq Pairs /\ todo \subseteq selected
  /\ withFile \in BOOLEAN
  /\ counts \in Counts /\ plan \in Counts
  /\ file \in Counts \cup {NoCountsFile, Torn}
  /\ filePairs \subseteq Pairs
  /\ explicit \in [Frameworks -> Nat \cup {None}]
  /\ suggested \in (Pairs \X Nat) \cup {<<None, None>>}

(* A file that can be loaded is the whole of one calibration: every pair   *)
(* it was made for has a number, unless its run failed and it has no       *)
(* preset.  No stop leaves a file that silently covers a part.             *)
FileIsWhole ==
  file \notin {NoCountsFile, Torn} =>
    \A p \in filePairs : file[p] = None => Table[p] = None

(* The state invariant: the types, and that a file is whole.               *)
CountsInv == CountsTypeOK /\ FileIsWhole

(* A selected benchmark that has a preset is run, whatever went wrong in   *)
(* the calibration and whatever selection the file was made for.           *)
PresetsAreRun ==
  stage = "planned" => \A p \in selected : Table[p] # None => plan[p] # None

(* Neither the plan nor what is suggested for a later --messages lets a    *)
(* steady run be dry before its window is over, at 1.25 times the rate of  *)
(* the preset; only a number given by the user is taken as it is.          *)
Covers(p, n) == Base[p] # None => 60 * n >= Estimate(p)
SteadyIsCovered ==
  /\ stage = "planned" =>
       \A p \in selected : plan[p] # None /\ explicit[p[1]] = None => Covers(p, plan[p])
  /\ suggested[1] # None => Covers(suggested[1], suggested[2])
=============================================================================
