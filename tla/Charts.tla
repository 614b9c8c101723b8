------------------------------- MODULE Charts -------------------------------
(***************************************************************************)
(* plot_benchmarks.py: main() reads the CSV file of the throughputs three  *)
(* times and that of the latencies once, and after each reading draws and  *)
(* saves its charts, while the suite may be writing the files.  A row is a *)
(* run and its status; a run has a benchmark, a task duration and what was *)
(* measured.  A file is a set of lines: the header, which a suite writes   *)
(* first but does not flush before the first row, and the rows.            *)
(***************************************************************************)
EXTENDS ChartLabels, FiniteSets, SequencesExt, FiniteSetsExt

CONSTANTS
  Runs, Statuses,
  Benchmark,      \* Benchmark[r]: a record of framework and mode
  Duration,       \* Duration[r]: sleep_time
  Measured,       \* Measured[m][r]: what the row of r says of metric m
  TheoreticalMax, \* of each duration
  BaseMax,        \* BASE_THROUGHPUT_Y_MAX
  Absent,         \* a file that does not exist
  MaxWrites,      \* bound: what the suite does while charts are drawn
  FirstLines      \* bound: what the files can be before

VARIABLES
  csv,        \* benchmarks_results.csv
  latencyCsv, \* latency_results.csv
  writes,     \* what the suite has done since the start
  pc,         \* "off", "load", "charts", "axes", "done" or "raised"
  section,    \* the reading
  data,       \* what it returned: the rows it kept
  todo,       \* categories whose charts are left
  columns,    \* labels left in the present chart: a metric and a duration
  saved,      \* the rows of every chart that was saved
  atStart     \* history: rows in the files since the start

files == <<csv, latencyCsv, writes, atStart>>
vars == <<files, pc, section, data, todo, columns, saved, labelVars>>

Header == <<"framework", "status">>
Lines == {Header} \cup (Runs \X Statuses)
Sections == <<"throughput", "tail", "recovery", "latency">>
LatencyMetrics == {"throughput", "p50", "p95", "p99"}
KnownCategories == {"hc", "cpu", "burst", "latency", "steady"}
CategoryOrder ==
  <<"base", "hc", "cpu", "burst", "steady", "latency", "tradeoff", "scatter">>

(* The modes of SPECS; and a suite writes to the latency file only what it *)
(* measured in latency runs.                                               *)
ASSUME ChartsAssumption ==
  /\ \A r \in Runs :
       /\ Benchmark[r] = [framework |-> Benchmark[r].framework, mode |-> Benchmark[r].mode]
       /\ Benchmark[r].mode \in {"base", "nogt"} \cup KnownCategories
  /\ Duration \in [Runs -> Nat]
  /\ MaxWrites \in Nat
  /\ \A rows \in SUBSET Lines : Absent # rows
  /\ \A first \in FirstLines :
       /\ first[1] = Absent \/ first[1] \in SUBSET Lines
       /\ first[2] = Absent \/ first[2] \in SUBSET Lines
       /\ first[2] # Absent => \A row \in first[2] \ {Header} : Benchmark[row[1]].mode = "latency"

(***************************************************************************)
(* The name of a benchmark, as the parts that "_" joins, and what          *)
(* split_framework makes of it.                                            *)
(***************************************************************************)
Name(b) == IF b.mode = "base" THEN <<b.framework>> ELSE <<b.framework, b.mode>>

(* A slip: a part of the name that is no category is taken for one.        *)
SplitFrameworkAtLast(name) ==
  IF Len(name) > 1 THEN <<Front(name), IF Last(name) \in KnownCategories
                                       THEN Last(name) ELSE "base">>
  ELSE <<name, "base">>

SplitFramework(name) ==
  IF Len(name) > 1 /\ Last(name) \in KnownCategories THEN <<Front(name), Last(name)>>
  ELSE <<name, "base">>

Framework(row) == SplitFramework(Name(Benchmark[row[1]]))[1]
Category(row) == SplitFramework(Name(Benchmark[row[1]]))[2]

(* Runs that end "ok" have milestones if they drain their queue, and a     *)
(* recovery if they are bursts.                                            *)
HasMetric(row, s) ==
  CASE s = "tail"     -> Benchmark[row[1]].mode \notin {"steady", "latency"}
    [] s = "recovery" -> Benchmark[row[1]].mode = "burst"
    [] OTHER          -> TRUE

Kept(row, s) == CASE s = "tail"     -> Category(row) # "steady"
                  [] s = "recovery" -> Category(row) = "burst"
                  [] OTHER          -> TRUE

(* load_throughput, load_tail, load_category_metric and load_latency.      *)
Rows(file) == file \ {Header}
Loaded(s) ==
  {row \in Rows(IF s = "latency" THEN latencyCsv ELSE csv) :
     row[2] = "ok" /\ Kept(row, s) /\ HasMetric(row, s)}

(* A slip: a category is left out that only the tail charts leave out.     *)
CategoriesUnlikeTail(s, rows) ==
  IF s = "latency" THEN IF rows = {} THEN {} ELSE {"tradeoff", "scatter"}
  ELSE {Category(row) : row \in rows} \ {"latency", "steady"}

(* The charts of a reading; that of the latency runs has its own file.     *)
Categories(s, rows) ==
  IF s = "latency" THEN IF rows = {} THEN {} ELSE {"tradeoff", "scatter"}
  ELSE {Category(row) : row \in rows} \ (IF s = "throughput" THEN {"latency"} ELSE {})

Before(order, a, b) ==
  LET place(x) == IF x \in Range(order) THEN CHOOSE i \in DOMAIN order : order[i] = x
                  ELSE Len(order) + 1
  IN  place(a) < place(b)

Chart == <<Sections[section], CHOOSE c \in todo : \A d \in todo \ {c} : Before(CategoryOrder, c, d)>>
Shown == IF Chart[1] = "latency" THEN data ELSE {row \in data : Category(row) = Chart[2]}
-----------------------------------------------------------------------------
(***************************************************************************)
(* The points of a chart and the heights of their labels.  A point is the  *)
(* mean of the rows of a framework at a duration; 0 stands for the         *)
(* duration where a line ends.  Numbers are rounded.                       *)
(***************************************************************************)
Frameworks == {Framework(row) : row \in Shown}
Durations(f) == {Duration[row[1]] : row \in {r \in Shown : Framework(r) = f}}
Point(f, x) == {row \in Shown : Framework(row) = f /\ Duration[row[1]] = x}

Average(m, rows) ==
  MapThenSumSet(LAMBDA row : Measured[m][row[1]], rows) \div Cardinality(rows)
Height(m, f, x) == Average(m, Point(f, IF x = 0 THEN Max(Durations(f)) ELSE x))

IsBase == Chart = <<"throughput", "base">>

(* set_ylim: all lines, and the theoretical maximum up to BaseMax.         *)
Times == UNION {Durations(f) : f \in Frameworks}
Means == {fx \in Frameworks \X Times : fx[2] \in Durations(fx[1])}
Top == Max({(118 * Height("throughput", fx[1], fx[2])) \div 100 : fx \in Means}
           \cup {Min({BaseMax, Max({TheoreticalMax[x] : x \in Times})})})

(* Only the base chart labels every point; the others have labels at the   *)
(* ends of their lines instead.                                            *)
Labelled(x) == {f \in Frameworks : \/ x = 0
                                   \/ x \in Durations(f) /\ (IsBase \/ x # Max(Durations(f)))}
Items(m, x) ==
  {<<Height(m, f, x), f>> : f \in Labelled(x)}
    \cup (IF IsBase /\ TheoreticalMax[x] <= Top THEN {<<TheoreticalMax[x], <<"max">>>>} ELSE {})
SortedHeights(m, x) ==
  LET items == SetToSortSeq(Items(m, x), LAMBDA a, b : a[1] < b[1])
  IN  [i \in DOMAIN items |-> items[i][1]]

Columns == (IF Chart[1] = "latency" THEN LatencyMetrics ELSE {Chart[1]})
             \X (Times \cup (IF IsBase THEN {} ELSE {0}))
-----------------------------------------------------------------------------
Init == /\ \E first \in FirstLines : csv = first[1] /\ latencyCsv = first[2]
        /\ writes = 0
        /\ pc = "off" /\ section = 1
        /\ data = {} /\ todo = {} /\ columns = {}
        /\ saved = <<>>
        /\ atStart = {}
        /\ NoLabels

(* The suite: a start without --resume, the rows of a run, and the close.  *)
Write == /\ csv # Absent /\ latencyCsv # Absent
         /\ pc = "load" /\ writes < MaxWrites  \* elsewhere nothing is read
         /\ writes' = writes + 1
         /\ UNCHANGED <<pc, section, data, todo, columns, saved, labelVars>>

BeginFiles == /\ Write
              /\ csv' = {} /\ latencyCsv' = {}
              /\ atStart' = {}

WriteRow(r, s) == /\ Write
                  /\ \A row \in Rows(csv) : row[1] # r
                  /\ csv' = csv \cup {Header, <<r, s>>}
                  /\ UNCHANGED <<latencyCsv, atStart>>

WriteLatencyRow(row) == /\ Write
                        /\ row \in Rows(csv) \ latencyCsv
                        /\ Benchmark[row[1]].mode = "latency"
                        /\ latencyCsv' = latencyCsv \cup {Header, row}
                        /\ UNCHANGED <<csv, atStart>>

CloseFiles == /\ Write
              /\ csv' = csv \cup {Header} /\ latencyCsv' = latencyCsv \cup {Header}
              /\ UNCHANGED atStart
-----------------------------------------------------------------------------
Start == /\ pc = "off"
         /\ pc' = "load"
         /\ atStart' = (IF csv = Absent THEN {} ELSE Rows(csv))
                         \ {row \in Runs \X Statuses : /\ Benchmark[row[1]].mode = "latency"
                                                       /\ latencyCsv # Absent => row \notin latencyCsv}
         /\ UNCHANGED <<csv, latencyCsv, writes, section, data, todo, columns, saved, labelVars>>

(* open() of a file that does not exist, and the columns that are missing  *)
(* where there is no header.  The other two readings return nothing.       *)
Unheaded(file) == IF file = Absent THEN FALSE ELSE Header \notin file
Raises == \/ Sections[section] = "throughput" /\ (csv = Absent \/ Unheaded(csv))
          \/ Sections[section] = "latency" /\ Unheaded(latencyCsv)

LoadRaises == /\ pc = "load" /\ Raises
              /\ pc' = "raised"
              /\ UNCHANGED <<files, section, data, todo, columns, saved, labelVars>>

(* A reading is one step; the code reads the file in blocks, and a suite   *)
(* could begin it anew between two of them.                                *)
Load == /\ pc = "load" /\ ~Raises
        /\ data' = IF Sections[section] = "latency" /\ latencyCsv = Absent THEN {}
                   ELSE Loaded(Sections[section])
        /\ todo' = Categories(Sections[section], data')
        /\ pc' = "charts"
        /\ UNCHANGED <<files, section, columns, saved, labelVars>>

Draw == /\ pc = "charts" /\ todo # {} /\ pc' = "axes"
        /\ UNCHANGED <<files, section, data, todo, saved>>

DrawChart == /\ Draw /\ Chart[2] # "scatter"
             /\ columns' = Columns
             /\ UNCHANGED labelVars

(* Its labels are moved about by rules of their own, which are left out.   *)
DrawScatter == /\ Draw /\ Chart[2] = "scatter"
               /\ UNCHANGED <<columns, labelVars>>

SortColumn == /\ pc = "axes" /\ columns # {}
              /\ LET c == CHOOSE c \in columns : TRUE
                 IN  /\ SortLabels(SortedHeights(c[1], c[2]))
                     /\ columns' = columns \ {c}
              /\ UNCHANGED <<files, pc, section, data, todo, saved>>

Label == /\ pc = "axes" /\ PlaceLabel
         /\ UNCHANGED <<files, pc, section, data, todo, columns, saved>>

SaveChart == /\ pc = "axes" /\ columns = {} /\ Len(pos) = Len(heights)
             /\ saved' = [c \in DOMAIN saved \cup {Chart} |->
                           IF c = Chart THEN Shown ELSE saved[c]]
             /\ todo' = todo \ {Chart[2]}
             /\ pc' = "charts"
             /\ UNCHANGED <<files, section, data, columns, labelVars>>

NextSection == /\ pc = "charts" /\ todo = {}
               /\ IF section < Len(Sections) THEN section' = section + 1 /\ pc' = "load"
                  ELSE pc' = "done" /\ UNCHANGED section
               /\ UNCHANGED <<files, data, todo, columns, saved, labelVars>>

Next == \/ BeginFiles \/ CloseFiles
        \/ \E r \in Runs, s \in Statuses : WriteRow(r, s) \/ WriteLatencyRow(<<r, s>>)
        \/ Start \/ LoadRaises \/ Load \/ DrawChart \/ DrawScatter \/ SortColumn \/ Label
        \/ SaveChart \/ NextSection

Spec == Init /\ [][Next]_vars
-----------------------------------------------------------------------------
TypeOK ==
  /\ csv = Absent \/ csv \in SUBSET Lines
  /\ latencyCsv = Absent \/ latencyCsv \in SUBSET Lines
  /\ writes \in 0..MaxWrites
  /\ pc \in {"off", "load", "charts", "axes", "done", "raised"}
  /\ section \in DOMAIN Sections
  /\ todo \subseteq Range(CategoryOrder)
  /\ columns \subseteq (LatencyMetrics \cup Range(Sections)) \X Nat
  /\ \A c \in DOMAIN saved : saved[c] \subseteq Runs \X Statuses
  /\ LabelsTypeOK

(* The kinds of benchmark by what their specs say, not by their names.     *)
KindOf(row) == LET mode == Benchmark[row[1]].mode IN IF mode = "nogt" THEN "base" ELSE mode

(* "every chart compares equivalent runs only": runs that were ok, of the  *)
(* kind of the chart, and no line mixes two benchmarks.                    *)
ComparesEquivalentRuns ==
  \A c \in DOMAIN saved : \A row \in saved[c] :
    /\ row[2] = "ok"
    /\ KindOf(row) = IF c[1] = "latency" THEN "latency" ELSE c[2]
    /\ \A other \in saved[c] :
         Framework(row) = Framework(other) => Benchmark[row[1]] = Benchmark[other[1]]

(* What was in the files when the program was started, and has not been    *)
(* begun anew since, is on every chart that is about it, also if the       *)
(* latency file cannot be read.                                            *)
Shows(c, row) == c \in DOMAIN saved /\ row \in saved[c]
ChartsAreComplete ==
  \A row \in atStart : row[2] = "ok" =>
    /\ pc = "done" \/ (pc = "raised" /\ section > 1) =>
         /\ KindOf(row) # "latency" => Shows(<<"throughput", KindOf(row)>>, row)
         /\ KindOf(row) \notin {"latency", "steady"} => Shows(<<"tail", KindOf(row)>>, row)
         /\ KindOf(row) = "burst" => Shows(<<"recovery", "burst">>, row)
    /\ pc = "done" /\ KindOf(row) = "latency" =>
         Shows(<<"latency", "tradeoff">>, row) /\ Shows(<<"latency", "scatter">>, row)

Inv == TypeOK /\ ComparesEquivalentRuns
=============================================================================
