------------------------------- MODULE Suite --------------------------------
(***************************************************************************)
(* main() of run_all.py: the plan of runs, their results in memory, in     *)
(* two CSV files and in the metadata file, and --resume. What is written   *)
(* to a CSV file stays in a buffer until the next flush, its header above  *)
(* all. A line of the metadata file is flushed as it is written. The       *)
(* program can be interrupted, which closes the files, or killed, which    *)
(* loses the buffers, between any two steps, and started again. A run is   *)
(* a framework, a sleep time and a number. Its status is "ok" or           *)
(* "failed", for timeout, exhausted, error.                                *)
(***************************************************************************)
EXTENDS Integers, Sequences, FiniteSets

CONSTANTS
  Runs,         \* the measured runs of the plan
  LatencyRuns,  \* those of a latency benchmark
  WarmupRuns,   \* number of warmup runs
  MaxStarts     \* bound: how often the program is started

ASSUME SuiteAssumption ==
  /\ IsFiniteSet(Runs) /\ LatencyRuns \subseteq Runs
  /\ WarmupRuns \in Nat /\ MaxStarts \in Nat

VARIABLES
  pc,         \* "off", "next", "metadata", "row", "latency" or "done"
  starts,     \* how often the program was started
  stops,      \* how often it was stopped since the files were begun
  warmups,    \* warmup runs left
  tasks,      \* measured runs left
  current,    \* the run whose rows are being written, and its status
  results,    \* throughput_results: how many of each run are averaged
  csv,        \* benchmarks_results.csv: what has reached the file
  buffer,     \* and what has not
  latencyCsv, \* latency_results.csv
  latencyBuffer,
  metadata    \* benchmarks_metadata.jsonl: how many lines it has of each run

csvFiles == <<csv, buffer, latencyCsv, latencyBuffer>>
suiteFiles == <<csvFiles, metadata>>
suiteVars == <<pc, starts, stops, warmups, tasks, current, results, suiteFiles>>

Outcomes == {"ok", "failed"}
Header == <<"framework", "status">>
NoFile == <<<<"no", "file">>>>        \* the file does not exist
Row(r, s) == <<r, s>>
Rows == Runs \X Outcomes

OkRows(file, r) == {i \in DOMAIN file : file[i] = Row(r, "ok")}
Headed(file) == file # <<>> /\ file[1] = Header

SuiteInit == /\ pc = "off"
             /\ starts = 0 /\ stops = 0
             /\ warmups = 0 /\ tasks = {} /\ current = Header
             /\ results = [r \in Runs |-> 0]
             /\ csv = NoFile /\ buffer = <<>>
             /\ latencyCsv = NoFile /\ latencyBuffer = <<>>
             /\ metadata = [r \in Runs |-> 0]

(***************************************************************************)
(* csv.DictReader takes the first line for the header, whatever it is.     *)
(* Without the header in its place a second line has no "framework".       *)
(***************************************************************************)
Loaded(r) == IF Headed(csv) THEN Cardinality(OkRows(csv, r)) ELSE 0
LoadRaises == csv # NoFile /\ ~Headed(csv) /\ Len(csv) > 1
-----------------------------------------------------------------------------
(***************************************************************************)
(* Slips: each stands for one bug somebody could write into the operation  *)
(* it is named after.  No action uses them; they are put in the place of   *)
(* that operation to see that a property notices.                          *)
(***************************************************************************)
ResumeSkippingNothing ==
  /\ pc \in {"off", "done"} /\ starts < MaxStarts /\ ~LoadRaises
  /\ pc' = "next" /\ starts' = starts + 1
  /\ warmups' = WarmupRuns
  /\ results' = [r \in Runs |-> Loaded(r)]
  /\ tasks' = Runs
  /\ csv' = IF csv = NoFile THEN <<>> ELSE csv
  /\ buffer' = IF csv = NoFile THEN <<Header>> ELSE <<>>
  /\ latencyCsv' = IF latencyCsv = NoFile THEN <<>> ELSE latencyCsv
  /\ latencyBuffer' = IF latencyCsv = NoFile THEN <<Header>> ELSE <<>>
  /\ UNCHANGED <<stops, current, metadata>>

ResumeOverMetadata ==
  /\ pc \in {"off", "done"} /\ starts < MaxStarts /\ ~LoadRaises
  /\ pc' = "next" /\ starts' = starts + 1
  /\ warmups' = WarmupRuns
  /\ results' = [r \in Runs |-> Loaded(r)]
  /\ tasks' = {r \in Runs : Loaded(r) = 0}
  /\ csv' = IF csv = NoFile THEN <<>> ELSE csv
  /\ buffer' = IF csv = NoFile THEN <<Header>> ELSE <<>>
  /\ latencyCsv' = IF latencyCsv = NoFile THEN <<>> ELSE latencyCsv
  /\ latencyBuffer' = IF latencyCsv = NoFile THEN <<Header>> ELSE <<>>
  /\ metadata' = [r \in Runs |-> 0]
  /\ UNCHANGED <<stops, current>>

WriteLatencyRowUnflushed ==
  /\ pc = "latency"
  /\ latencyBuffer' = Append(latencyBuffer, current)
  /\ pc' = "next" /\ current' = Header
  /\ UNCHANGED <<starts, stops, warmups, tasks, results, csv, buffer, latencyCsv, metadata>>

FinishEarly == /\ pc = "next" /\ Cardinality(tasks) = 1
               /\ pc' = "done"
               /\ csv' = csv \o buffer /\ buffer' = <<>>
               /\ latencyCsv' = latencyCsv \o latencyBuffer /\ latencyBuffer' = <<>>
               /\ UNCHANGED <<starts, stops, warmups, tasks, current, results, metadata>>

FinishIfAllOk == /\ pc = "next" /\ warmups = 0 /\ \A r \in Runs : results[r] > 0
                 /\ pc' = "done"
                 /\ csv' = csv \o buffer /\ buffer' = <<>>
                 /\ latencyCsv' = latencyCsv \o latencyBuffer /\ latencyBuffer' = <<>>
                 /\ UNCHANGED <<starts, stops, warmups, tasks, current, results, metadata>>
-----------------------------------------------------------------------------
(* A start without --resume begins all files anew.                         *)
Start == /\ pc \in {"off", "done"} /\ starts < MaxStarts
         /\ pc' = "next" /\ starts' = starts + 1
         /\ stops' = 0
         /\ warmups' = WarmupRuns
         /\ tasks' = Runs
         /\ results' = [r \in Runs |-> 0]
         /\ csv' = <<>> /\ buffer' = <<Header>>
         /\ latencyCsv' = <<>> /\ latencyBuffer' = <<Header>>
         /\ metadata' = [r \in Runs |-> 0]
         /\ UNCHANGED current

(* --resume reads the rows, skips the runs that are ok, and appends; it    *)
(* writes a header only to a file that it creates.                         *)
Resume == /\ pc \in {"off", "done"} /\ starts < MaxStarts /\ ~LoadRaises
          /\ pc' = "next" /\ starts' = starts + 1
          /\ warmups' = WarmupRuns
          /\ results' = [r \in Runs |-> Loaded(r)]
          /\ tasks' = {r \in Runs : Loaded(r) = 0}
          /\ csv' = IF csv = NoFile THEN <<>> ELSE csv
          /\ buffer' = IF csv = NoFile THEN <<Header>> ELSE <<>>
          /\ latencyCsv' = IF latencyCsv = NoFile THEN <<>> ELSE latencyCsv
          /\ latencyBuffer' = IF latencyCsv = NoFile THEN <<Header>> ELSE <<>>
          /\ UNCHANGED <<stops, current, metadata>>

(* The KeyError of a row without "framework": no file is opened.           *)
ResumeRaises == /\ pc \in {"off", "done"} /\ starts < MaxStarts /\ LoadRaises
                /\ pc' = "off" /\ starts' = starts + 1
                /\ UNCHANGED <<stops, warmups, tasks, current, results, suiteFiles>>

RunWarmup == /\ pc = "next" /\ warmups > 0
             /\ warmups' = warmups - 1
             /\ UNCHANGED <<pc, starts, stops, tasks, current, results, suiteFiles>>

(* The order of the measured runs is random.                               *)
RunOnce(r, s) == /\ pc = "next" /\ warmups = 0
                 /\ r \in tasks
                 /\ tasks' = tasks \ {r}
                 /\ current' = Row(r, s)
                 /\ results' = [results EXCEPT ![r] = IF s = "ok" THEN @ + 1 ELSE @]
                 /\ pc' = "metadata"
                 /\ UNCHANGED <<starts, stops, warmups, suiteFiles>>

WriteMetadata == /\ pc = "metadata"
                 /\ metadata' = [metadata EXCEPT ![current[1]] = @ + 1]
                 /\ pc' = "row"
                 /\ UNCHANGED <<starts, stops, warmups, tasks, current, results, csvFiles>>

WriteRow == /\ pc = "row"
            /\ csv' = csv \o buffer \o <<current>>
            /\ buffer' = <<>>
            /\ IF current[1] \in LatencyRuns
               THEN pc' = "latency" /\ UNCHANGED current
               ELSE pc' = "next" /\ current' = Header
            /\ UNCHANGED <<starts, stops, warmups, tasks, results, latencyCsv, latencyBuffer,
                           metadata>>

WriteLatencyRow == /\ pc = "latency"
                   /\ latencyCsv' = latencyCsv \o latencyBuffer \o <<current>>
                   /\ latencyBuffer' = <<>>
                   /\ pc' = "next" /\ current' = Header
                   /\ UNCHANGED <<starts, stops, warmups, tasks, results, csv, buffer, metadata>>

Close == /\ csv' = csv \o buffer /\ buffer' = <<>>
         /\ latencyCsv' = latencyCsv \o latencyBuffer /\ latencyBuffer' = <<>>
         /\ UNCHANGED <<starts, metadata>>

Finish == /\ pc = "next" /\ warmups = 0 /\ tasks = {}
          /\ pc' = "done"
          /\ Close /\ UNCHANGED <<stops, warmups, tasks, current, results>>

(* What the program had in memory is gone with it.                         *)
Forget == /\ warmups' = 0 /\ tasks' = {} /\ current' = Header
          /\ results' = [r \in Runs |-> 0]

(* KeyboardInterrupt, or an exception outside run_once: finally closes.    *)
Interrupt == /\ pc \in {"next", "metadata", "row", "latency"}
             /\ pc' = "off"
             /\ Close /\ Forget /\ stops' = stops + 1

KillSuite == /\ pc \in {"next", "metadata", "row", "latency"}
             /\ pc' = "off"
             /\ stops' = stops + 1
             /\ buffer' = <<>> /\ latencyBuffer' = <<>>
             /\ Forget
             /\ UNCHANGED <<starts, csv, latencyCsv, metadata>>

SuiteNext == \/ Start \/ Resume \/ ResumeRaises \/ RunWarmup
             \/ \E r \in Runs, s \in Outcomes : RunOnce(r, s)
             \/ WriteMetadata \/ WriteRow \/ WriteLatencyRow \/ Finish \/ Interrupt \/ KillSuite

SuiteSpec == SuiteInit /\ [][SuiteNext]_suiteVars

(* run_once returns, at the latest after its outer timeout.                *)
FairSuiteSpec ==
  SuiteSpec /\ WF_suiteVars(\/ RunWarmup \/ WriteMetadata \/ WriteRow \/ WriteLatencyRow \/ Finish
                            \/ \E r \in Runs, s \in Outcomes : RunOnce(r, s))
-----------------------------------------------------------------------------
Lines == {Header} \cup Rows

SuiteTypeOK ==
  /\ pc \in {"off", "next", "metadata", "row", "latency", "done"}
  /\ starts \in 0..MaxStarts /\ stops \in 0..MaxStarts
  /\ warmups \in 0..WarmupRuns
  /\ tasks \subseteq Runs
  /\ current \in Lines /\ (pc \in {"metadata", "row", "latency"} => current \in Rows)
  /\ results \in [Runs -> Nat]
  /\ csv = NoFile \/ csv \in Seq(Lines)
  /\ latencyCsv = NoFile \/ latencyCsv \in Seq(Lines)
  /\ metadata \in [Runs -> Nat]
  /\ buffer \in {<<>>, <<Header>>} /\ latencyBuffer \in {<<>>, <<Header>>}

(* What will be in the file if the program is left alone.                  *)
Written == csv \o buffer

(* The table averages each run as often as the file has an ok row of it,   *)
(* and at most once, as long as the file has its header.                   *)
AveragesMatchFile ==
  pc \in {"next", "latency", "done"} /\ Headed(Written) =>
    \A r \in Runs : /\ results[r] = Cardinality(OkRows(csv, r))
                    /\ results[r] <= 1

RowsOf(r) == {i \in DOMAIN csv : csv[i] \in {Row(r, s) : s \in Outcomes}}

(* When the suite is over every run has been tried in this invocation or   *)
(* was ok before: it has a row, and one that is ok was not run again.      *)
EveryRunHasRow == pc = "done" => \A r \in Runs : RowsOf(r) # {}

(* The two files agree on the latency runs, except for the run that is     *)
(* being written and one for every time the program was stopped.           *)
LatencyRowsMissing ==
  {r \in LatencyRuns : /\ OkRows(csv, r) # {}
                       /\ OkRows(latencyCsv, r) = {}}
LatencyFileFollows ==
  pc # "latency" => Cardinality(LatencyRowsMissing) <= stops

RowsInFile == {i \in DOMAIN csv : csv[i] \in Rows}
MetadataLines == UNION {{r} \X (1..metadata[r]) : r \in Runs}

(* Every row of the CSV file has its line in the metadata file, written    *)
(* before it; each stop leaves at most one line without its row.           *)
MetadataLeads ==
  /\ \A r \in Runs : Cardinality(RowsOf(r)) <= metadata[r]
  /\ Cardinality(MetadataLines) <= Cardinality(RowsInFile) + stops + (IF pc = "row" THEN 1 ELSE 0)

(* The state invariant: the types, that every run has its row in the end,  *)
(* and that the files follow each other.                                   *)
SuiteInv == SuiteTypeOK /\ EveryRunHasRow /\ LatencyFileFollows /\ MetadataLeads

(* A suite that is not stopped ends.                                       *)
SuiteEnds == pc = "next" ~> pc \in {"done", "off"}

(* README, --resume: "skip already-completed ok runs".                     *)
ResumeSkipsCompleted == \A r \in tasks : pc = "next" => OkRows(csv, r) = {}
=============================================================================
