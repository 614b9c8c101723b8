---------------------------- MODULE Charts_proofs ---------------------------
(***************************************************************************)
(* Proofs about the charts, for any files, runs and points: the labels     *)
(* that are written above one another are readable and as low as they can  *)
(* be, the charts compare equivalent runs only, and no run that was in the *)
(* files when the program was started is left out of them.                 *)
(***************************************************************************)
EXTENDS Charts, SequenceTheorems, WellFoundedInduction, TLAPS

-----------------------------------------------------------------------------
(* Labels above one another.                                               *)

LabelIInv == LabelsTypeOK /\ LabelsReadable

(* The label placed next, and what it means for the ones before.           *)
LEMMA PlacedLabel ==
  ASSUME LabelIInv, PlaceLabel, NEW n, n = Len(pos)
  PROVE  /\ n \in Nat /\ n + 1 <= Len(heights) /\ heights[n + 1] \in Int
         /\ heights' = heights
         /\ pos' \in Seq(Int) /\ Len(pos') = n + 1
         /\ \A i \in 1..n : pos'[i] = pos[i] /\ pos[i] \in Int
         /\ pos'[n + 1] \in Int /\ heights[n + 1] <= pos'[n + 1]
         /\ n > 0 => pos'[n + 1] - pos[n] >= Gap
         /\ \/ pos'[n + 1] = heights[n + 1]
            \/ n > 0 /\ pos'[n + 1] = pos[n] + Gap
<1> USE GapAssumption DEF LabelIInv, LabelsTypeOK
<1> DEFINE y == heights[n + 1]
           v == IF pos # <<>> /\ y - pos[n] < Gap THEN pos[n] + Gap ELSE y
<1>1. n \in Nat /\ n < Len(heights) /\ pos' = Append(pos, v) /\ heights' = heights
  BY DEF PlaceLabel
<1>2. n + 1 \in 1..Len(heights) /\ y \in Int
  BY <1>1
<1>3. pos # <<>> <=> n > 0
  BY <1>1
<1>4. n > 0 => pos[n] \in Int
  BY <1>1
<1>5. /\ v \in Int /\ y <= v
      /\ n > 0 => v - pos[n] >= Gap
      /\ v = y \/ (n > 0 /\ v = pos[n] + Gap)
  BY <1>2, <1>3, <1>4
<1>6. /\ pos' \in Seq(Int) /\ Len(pos') = n + 1 /\ pos'[n + 1] = v
      /\ \A i \in 1..n : pos'[i] = pos[i] /\ pos[i] \in Int
  <2> HIDE DEF v
  <2> QED BY <1>1, <1>5
<1> QED BY <1>1, <1>2, <1>5, <1>6

LEMMA PlaceLabelInv == LabelIInv /\ PlaceLabel => LabelIInv'
<1> SUFFICES ASSUME LabelIInv, PlaceLabel PROVE LabelIInv'
  OBVIOUS
<1> DEFINE n == Len(pos)
<1>1. /\ n \in Nat /\ n + 1 <= Len(heights) /\ heights[n + 1] \in Int
      /\ heights' = heights
      /\ pos' \in Seq(Int) /\ Len(pos') = n + 1
      /\ \A i \in 1..n : pos'[i] = pos[i] /\ pos[i] \in Int
      /\ pos'[n + 1] \in Int /\ heights[n + 1] <= pos'[n + 1]
      /\ n > 0 => pos'[n + 1] - pos[n] >= Gap
      /\ \/ pos'[n + 1] = heights[n + 1]
         \/ n > 0 /\ pos'[n + 1] = pos[n] + Gap
  BY PlacedLabel
<1>2. /\ \A i \in 1..n, j \in 1..n : i < j => pos[j] - pos[i] >= Gap
      /\ \A i \in 1..n : heights[i] <= pos[i]
      /\ \A i \in 1..n : \E k \in 1..i : pos[i] = heights[k] + (i - k) * Gap
      /\ \A i \in 1..(n + 1) : heights[i] \in Int
  BY <1>1 DEF LabelIInv, LabelsTypeOK, LabelsReadable, Apart, NotBelow, Pushed
<1> HIDE DEF n
<1> USE GapAssumption
<1>6. LabelsTypeOK'
  BY <1>1 DEF LabelIInv, LabelsTypeOK, Ascending
<1>3. Apart'
  <2> SUFFICES ASSUME NEW i \in 1..(n + 1), NEW j \in 1..(n + 1), i < j
               PROVE  pos'[j] - pos'[i] >= Gap
    BY <1>1 DEF Apart
  <2>1. CASE j \in 1..n
    <3>1. i \in 1..n
      BY <1>1, <2>1
    <3> QED BY <1>1, <1>2, <2>1, <3>1
  <2>2. CASE j = n + 1
    <3>1. i \in 1..n /\ n \in 1..n /\ n > 0
      BY <1>1, <2>2
    <3>2. pos[n] \in Int /\ pos[i] \in Int /\ pos'[i] = pos[i]
      BY <1>1, <3>1
    <3>3. pos[n] >= pos[i]
      <4>1. CASE i = n
        BY <3>2, <4>1
      <4>2. CASE i < n
        <5>1. pos[n] - pos[i] >= Gap
          BY <1>2, <3>1, <4>2
        <5> QED BY <3>2, <5>1
      <4> QED BY <1>1, <3>1, <4>1, <4>2
    <3>4. pos'[n + 1] \in Int /\ pos'[n + 1] - pos[n] >= Gap
      BY <1>1, <3>1
    <3>5. pos'[n + 1] - pos[i] >= Gap
      BY <3>2, <3>3, <3>4
    <3> QED BY <2>2, <3>2, <3>5
  <2> QED BY <1>1, <2>1, <2>2
<1>4. NotBelow'
  <2> SUFFICES ASSUME NEW i \in 1..(n + 1) PROVE heights[i] <= pos'[i]
    BY <1>1 DEF NotBelow
  <2>1. CASE i \in 1..n
    BY <1>1, <1>2, <2>1
  <2>2. CASE i = n + 1
    BY <1>1, <2>2
  <2> QED BY <1>1, <2>1, <2>2
<1>5. Pushed'
  <2> SUFFICES ASSUME NEW i \in 1..(n + 1)
               PROVE  \E k \in 1..i : pos'[i] = heights[k] + (i - k) * Gap
    BY <1>1 DEF Pushed
  <2>1. CASE i \in 1..n
    BY <1>1, <1>2, <2>1
  <2>2. CASE i = n + 1 /\ pos'[n + 1] = heights[n + 1]
    <3>1. i \in 1..i /\ heights[i] \in Int /\ (i - i) * Gap = 0
      BY <1>1, <2>2
    <3> QED BY <2>2, <3>1
  <2>3. CASE i = n + 1 /\ n > 0 /\ pos'[n + 1] = pos[n] + Gap
    <3>1. PICK k \in 1..n : pos[n] = heights[k] + (n - k) * Gap
      <4>1. n \in 1..n
        BY <1>1, <2>3
      <4> QED BY <1>2, <4>1
    <3>2. heights[k] \in Int /\ k \in 1..i
      <4>1. n \in Nat /\ k \in 1..(n + 1)
        BY <1>1
      <4>2. heights[k] \in Int
        <5>1. \A j \in 1..(n + 1) : heights[j] \in Int
          BY <1>2
        <5> QED BY <4>1, <5>1
      <4> QED BY <2>3, <4>1, <4>2
    <3>3. \A d \in Int, g \in Int : d * g + g = (d + 1) * g
      BY SMT
    <3>4. (n - k) * Gap + Gap = (i - k) * Gap /\ (n - k) * Gap \in Int
      BY <1>1, <2>3, <3>1, <3>3
    <3>5. pos'[i] = heights[k] + (i - k) * Gap
      BY <2>3, <3>1, <3>2, <3>4
    <3> QED BY <3>2, <3>5
  <2> QED BY <1>1, <2>1, <2>2, <2>3
<1> QED BY <1>3, <1>4, <1>5, <1>6 DEF LabelIInv, LabelsReadable

LEMMA LabelStep ==
  LabelIInv /\ [SortLabels(heights') \/ PlaceLabel]_labelVars => LabelIInv'
<1> SUFFICES ASSUME LabelIInv, [SortLabels(heights') \/ PlaceLabel]_labelVars
             PROVE  LabelIInv'
  OBVIOUS
<1>1. CASE SortLabels(heights')
  BY <1>1 DEF SortLabels, LabelIInv, LabelsTypeOK, LabelsReadable, Ascending, Apart, NotBelow,
              Pushed
<1>2. CASE PlaceLabel
  BY <1>2, PlaceLabelInv
<1>3. CASE UNCHANGED labelVars
  BY <1>3 DEF labelVars, LabelIInv, LabelsTypeOK, LabelsReadable, Ascending, Apart, NotBelow,
              Pushed
<1> QED BY <1>1, <1>2, <1>3

LEMMA LabelInvariance == LabelSpec => []LabelIInv
<1>1. NoLabels => LabelIInv
  BY DEF NoLabels, LabelIInv, LabelsTypeOK, LabelsReadable, Ascending, Apart, NotBelow, Pushed
<1>2. LabelIInv /\ [SortLabels(heights') \/ PlaceLabel]_labelVars => LabelIInv'
  BY LabelStep
<1> QED BY <1>1, <1>2, PTL DEF LabelSpec

(* Labels never cover one another or lie below their points, and each is   *)
(* pushed up only by labels that touch (plot_series, deconflict).          *)
THEOREM LabelsAreReadable == LabelSpec => []LabelsReadable
<1>1. LabelIInv => LabelsReadable
  BY DEF LabelIInv
<1> QED BY LabelInvariance, <1>1, PTL

(* No arrangement q of readable labels has any of them lower than the code *)
(* has (plot_series, deconflict).                                          *)
Lowest(q) == Fits(q) => \A i \in 1..Len(pos) : pos[i] <= q[i]

THEOREM LabelsAreLowest ==
  ASSUME NEW q \in [Nat -> Int] PROVE LabelSpec => []Lowest(q)
<1>1. NoLabels => Lowest(q)
  BY DEF NoLabels, Lowest
<1>2. LabelIInv /\ Lowest(q) /\ [SortLabels(heights') \/ PlaceLabel]_labelVars => Lowest(q)'
  <2> SUFFICES ASSUME LabelIInv, Lowest(q), [SortLabels(heights') \/ PlaceLabel]_labelVars
               PROVE  Lowest(q)'
    OBVIOUS
  <2>1. CASE SortLabels(heights')
    BY <2>1 DEF SortLabels, Lowest
  <2>2. CASE PlaceLabel
    <3> DEFINE n == Len(pos)
    <3>1. /\ n \in Nat /\ n + 1 <= Len(heights)
          /\ heights' = heights /\ heights[n + 1] \in Int
          /\ Len(pos') = n + 1
          /\ \A i \in 1..n : pos'[i] = pos[i] /\ pos[i] \in Int
          /\ \/ pos'[n + 1] = heights[n + 1]
             \/ n > 0 /\ pos'[n + 1] = pos[n] + Gap
      BY <2>2, PlacedLabel
    <3> SUFFICES ASSUME Fits(q) PROVE \A i \in 1..(n + 1) : pos'[i] <= q[i]
      BY <3>1 DEF Lowest, Fits
    <3>2. \A i \in 1..n : pos[i] <= q[i]
      BY DEF Lowest
    <3>3. /\ heights[n + 1] <= q[n + 1]
          /\ n > 0 => q[n + 1] - q[n] >= Gap
      BY <3>1 DEF Fits
    <3>4. q[n + 1] \in Int /\ q[n] \in Int
      BY <3>1
    <3>5. pos'[n + 1] <= q[n + 1]
      <4>1. CASE pos'[n + 1] = heights[n + 1]
        BY <3>3, <4>1
      <4>2. CASE n > 0 /\ pos'[n + 1] = pos[n] + Gap
        <5>1. pos[n] \in Int /\ pos[n] <= q[n]
          BY <3>1, <3>2, <4>2
        <5> QED BY <3>3, <3>4, <4>2, <5>1, GapAssumption
      <4> QED BY <3>1, <4>1, <4>2
    <3> SUFFICES ASSUME NEW i \in 1..(n + 1) PROVE pos'[i] <= q[i]
      OBVIOUS
    <3>6. CASE i \in 1..n
      BY <3>1, <3>2, <3>6
    <3>7. CASE i = n + 1
      BY <3>5, <3>7
    <3> QED BY <3>1, <3>6, <3>7
  <2>3. CASE UNCHANGED labelVars
    BY <2>3 DEF labelVars, Lowest, Fits
  <2> QED BY <2>1, <2>2, <2>3
<1> QED BY <1>1, <1>2, LabelInvariance, PTL DEF LabelSpec
-----------------------------------------------------------------------------
(* The invariant of the charts.                                             *)

(* Rows of a kind are drawn in these charts of a section.                  *)
ChartsOf(row, s) ==
  CASE s = "throughput" -> {KindOf(row)} \ {"latency"}
    [] s = "tail"       -> {KindOf(row)} \ {"latency", "steady"}
    [] s = "recovery"   -> {KindOf(row)} \cap {"burst"}
    [] s = "latency"    -> IF KindOf(row) = "latency" THEN {"tradeoff", "scatter"} ELSE {}

Drawing == pc \in {"charts", "axes"}

(* What was in the files is still there, and the latency file has rows of  *)
(* latency runs only.                                                      *)
FilesKeep ==
  /\ section > 1 \/ Drawing => csv # Absent
  /\ \A row \in atStart : /\ csv # Absent /\ row \in Rows(csv)
                          /\ KindOf(row) = "latency" => latencyCsv # Absent /\ row \in latencyCsv
LatencyRows == latencyCsv # Absent => \A row \in Rows(latencyCsv) : KindOf(row) = "latency"

DataOk == /\ data \subseteq Runs \X Statuses
          /\ \A row \in data : row[2] = "ok"
          /\ Drawing /\ Sections[section] = "latency" => \A row \in data : KindOf(row) = "latency"

(* A chart that is saved is of an earlier section, or of this one and no   *)
(* longer to do: no chart is drawn twice.                                  *)
SavedOnce ==
  \A c \in DOMAIN saved : \E j \in 1..section :
    /\ c[1] = Sections[j]
    /\ j = section => pc \notin {"off", "load"} /\ c[2] \notin todo

(* The rows that were there are on their charts, or still going to be.     *)
Begun(j) == j < section \/ pc \notin {"off", "load", "raised"}
Drawn ==
  \A row \in atStart, j \in 1..section : row[2] = "ok" /\ Begun(j) =>
    \A k \in ChartsOf(row, Sections[j]) :
      \/ Shows(<<Sections[j], k>>, row)
      \/ j = section /\ k \in todo /\ row \in data

Ended == /\ pc = "off" => section = 1 /\ atStart = {}
         /\ pc = "axes" => todo # {}
         /\ pc = "done" => section = Len(Sections) /\ todo = {}
         /\ pc = "raised" => Sections[section] \in {"throughput", "latency"}

ChartsIInv == /\ TypeOK /\ LabelIInv
              /\ ComparesEquivalentRuns
              /\ FilesKeep /\ LatencyRows /\ DataOk /\ SavedOnce /\ Drawn /\ Ended
-----------------------------------------------------------------------------
(* The charts: what the names of benchmarks say.                           *)

AllRows == Runs \X Statuses

LEMMA NamesAndKinds ==
  ASSUME NEW row \in AllRows
  PROVE  /\ Category(row) = KindOf(row)
         /\ Framework(row) = IF Benchmark[row[1]].mode = "nogt"
                             THEN <<Benchmark[row[1]].framework, "nogt">>
                             ELSE <<Benchmark[row[1]].framework>>
         /\ KindOf(row) \in {"base"} \cup KnownCategories
<1> DEFINE b == Benchmark[row[1]]
           f == b.framework
           m == b.mode
<1>1. m \in {"base", "nogt"} \cup KnownCategories
  BY ChartsAssumption DEF AllRows
<1>2. /\ Framework(row) = SplitFramework(Name(b))[1]
      /\ Category(row) = SplitFramework(Name(b))[2]
      /\ KindOf(row) = IF m = "nogt" THEN "base" ELSE m
  BY DEF Framework, Category, KindOf
<1> HIDE DEF b
<1>3. CASE m = "base"
  <2>1. Name(b) = <<f>>
    BY <1>3 DEF Name
  <2>2. SplitFramework(Name(b)) = <<<<f>>, "base">>
    BY <2>1 DEF SplitFramework
  <2> QED BY <1>2, <1>3, <2>2 DEF b
<1>4. CASE m # "base"
  <2>1. Name(b) = <<f, m>>
    BY <1>4 DEF Name
  <2>2. Len(<<f, m>>) = 2 /\ Last(<<f, m>>) = m /\ Front(<<f, m>>) = <<f>>
    <3>1. <<f, m>> \in Seq({f, m}) /\ Len(<<f, m>>) = 2 /\ <<f, m>>[1] = f /\ <<f, m>>[2] = m
      OBVIOUS
    <3> DEFINE front == SubSeq(<<f, m>>, 1, 1)
    <3>2. front \in Seq({f, m}) /\ Len(front) = 1 /\ front[1] = f
      <4> DEFINE whole == <<f, m>>
      <4>1. \A i \in 1..1 : whole[i] \in {f, m}
        BY <3>1
      <4> HIDE DEF whole
      <4>2. /\ SubSeq(whole, 1, 1) \in Seq({f, m})
            /\ Len(SubSeq(whole, 1, 1)) = 1
            /\ SubSeq(whole, 1, 1)[1] = whole[1]
        BY <4>1, SubSeqProperties
      <4> QED BY <3>1, <4>2 DEF whole
    <3>3. front = <<f>>
      <4> HIDE DEF front
      <4> QED BY <3>2
    <3> QED BY <3>1, <3>3 DEF Last, Front
  <2>3. CASE m = "nogt"
    <3>1. SplitFramework(Name(b)) = <<<<f, "nogt">>, "base">>
      BY <2>1, <2>2, <2>3 DEF SplitFramework, KnownCategories
    <3> QED BY <1>2, <2>1, <2>2, <2>3, <3>1 DEF b
  <2>4. CASE m \in KnownCategories
    <3>1. SplitFramework(Name(b)) = <<<<f>>, m>>
      BY <2>1, <2>2, <2>4 DEF SplitFramework
    <3>2. m # "nogt"
      BY <2>4 DEF KnownCategories
    <3> QED BY <1>2, <2>1, <2>2, <2>4, <3>1, <3>2 DEF b
  <2> QED BY <1>1, <1>4, <2>3, <2>4
<1> QED BY <1>3, <1>4

(* Two rows of a kind that are drawn on one line are of one benchmark.     *)
LEMMA OneBenchmark ==
  ASSUME NEW r \in AllRows, NEW s \in AllRows,
         KindOf(r) = KindOf(s), Framework(r) = Framework(s)
  PROVE  Benchmark[r[1]] = Benchmark[s[1]]
<1> DEFINE b == Benchmark[r[1]]
           c == Benchmark[s[1]]
<1>1. b.framework = c.framework /\ b.mode = c.mode
  <2>1. /\ KindOf(r) = IF b.mode = "nogt" THEN "base" ELSE b.mode
        /\ KindOf(s) = IF c.mode = "nogt" THEN "base" ELSE c.mode
    BY DEF KindOf
  <2>2. /\ Framework(r) = IF b.mode = "nogt" THEN <<b.framework, "nogt">> ELSE <<b.framework>>
        /\ Framework(s) = IF c.mode = "nogt" THEN <<c.framework, "nogt">> ELSE <<c.framework>>
    BY NamesAndKinds
  <2> HIDE DEF b, c
  <2>3. \A x, y : <<x, "nogt">> # <<y>>
    <3> TAKE x, y
    <3>1. Len(<<x, "nogt">>) = 2 /\ Len(<<y>>) = 1
      OBVIOUS
    <3> QED BY <3>1
  <2>4. \A x, y : /\ <<x>> = <<y>> => x = y
                  /\ <<x, "nogt">> = <<y, "nogt">> => x = y
    OBVIOUS
  <2>5. b.mode = "nogt" <=> c.mode = "nogt"
    BY <2>2, <2>3
  <2>6. b.framework = c.framework
    BY <2>2, <2>4, <2>5
  <2>7. b.mode = c.mode
    BY <2>1, <2>5
  <2> QED BY <2>6, <2>7
<1>2. /\ b = [framework |-> b.framework, mode |-> b.mode]
      /\ c = [framework |-> c.framework, mode |-> c.mode]
  BY ChartsAssumption DEF AllRows
<1> HIDE DEF b, c
<1>3. b = c
  BY <1>1, <1>2
<1> QED BY <1>3 DEF b, c

LEMMA SectionNames ==
  /\ Len(Sections) = 4 /\ DOMAIN Sections = 1..4
  /\ Sections[1] = "throughput" /\ Sections[2] = "tail"
  /\ Sections[3] = "recovery" /\ Sections[4] = "latency"
BY DEF Sections

LEMMA CategoryNames ==
  Range(CategoryOrder) = {"base", "hc", "cpu", "burst", "steady", "latency", "tradeoff", "scatter"}
<1>1. DOMAIN CategoryOrder = 1..8
  BY DEF CategoryOrder
<1>2. /\ CategoryOrder[1] = "base" /\ CategoryOrder[2] = "hc" /\ CategoryOrder[3] = "cpu"
      /\ CategoryOrder[4] = "burst" /\ CategoryOrder[5] = "steady"
      /\ CategoryOrder[6] = "latency" /\ CategoryOrder[7] = "tradeoff"
      /\ CategoryOrder[8] = "scatter"
  BY DEF CategoryOrder
<1>3. 1..8 = {1, 2, 3, 4, 5, 6, 7, 8}
  OBVIOUS
<1> HIDE DEF CategoryOrder
<1> QED BY <1>1, <1>2, <1>3 DEF Range
-----------------------------------------------------------------------------
(* What a reading returns, and the charts that are drawn of it.            *)

LEMMA ChartIs == Chart[1] = Sections[section] /\ Chart = <<Sections[section], Chart[2]>>
BY DEF Chart

(* There is a first category among those that are left.                    *)
LEMMA ChartIsToDo ==
  ASSUME todo \subseteq Range(CategoryOrder), todo # {} PROVE Chart[2] \in todo
<1> DEFINE at(i) == CategoryOrder[i]
           S == {i \in 1..8 : at(i) \in todo}
           isFirst(c) == \A d \in todo \ {c} : Before(CategoryOrder, c, d)
<1>1. /\ DOMAIN CategoryOrder = 1..8
      /\ \A i, j \in 1..8 : at(i) = at(j) => i = j
  BY DEF CategoryOrder
<1>2. \A c \in todo : \E i \in 1..8 : c = at(i)
  BY <1>1 DEF Range
<1>3. PICK m \in S : \A i \in S : m <= i
  <2> DEFINE R == OpToRel(<, Nat)
  <2>1. S \subseteq Nat /\ S # {}
    BY <1>2
  <2>2. PICK m \in S : \A i \in S : ~(<<i, m>> \in R)
    <3> HIDE DEF S, R
    <3> QED BY <2>1, NatLessThanWellFounded, WFMin DEF R
  <2>3. \A i, j \in Nat : i < j => <<i, j>> \in R
    BY DEF OpToRel
  <2>4. \A i \in S : m <= i
    <3> SUFFICES ASSUME NEW i \in S, ~(m <= i) PROVE FALSE
      OBVIOUS
    <3>1. i \in Nat /\ m \in Nat
      BY <2>1, <2>2
    <3>2. i < m
      BY <3>1
    <3>3. <<i, m>> \in R
      BY <2>3, <3>1, <3>2
    <3> QED BY <2>2, <3>3
  <2> QED BY <2>4
<1>4. \A i \in 1..8 : (CHOOSE j \in DOMAIN CategoryOrder : CategoryOrder[j] = at(i)) = i
  BY <1>1
<1>5. ASSUME NEW d \in todo \ {at(m)} PROVE Before(CategoryOrder, at(m), d)
  <2>1. PICK i \in 1..8 : d = at(i)
    BY <1>2
  <2>2. m < i
    BY <1>3, <2>1
  <2>3. at(m) \in Range(CategoryOrder) /\ d \in Range(CategoryOrder)
    BY <1>3
  <2> QED BY <1>3, <1>4, <2>1, <2>2, <2>3 DEF Before
<1>6. \E c \in todo : isFirst(c)
  BY <1>3, <1>5
<1>7. (CHOOSE c \in todo : isFirst(c)) \in todo
  <2> HIDE DEF isFirst
  <2> QED BY <1>6
<1> QED BY <1>7 DEF Chart

LEMMA WhatIsLoaded ==
  ASSUME TypeOK, LatencyRows, NEW s \in Range(Sections),
         s = "latency" => latencyCsv # Absent, s # "latency" => csv # Absent
  PROVE  /\ Loaded(s) \subseteq AllRows
         /\ \A row \in Loaded(s) : /\ row[2] = "ok"
                                   /\ s = "latency" => KindOf(row) = "latency"
<1>1. Loaded(s) \subseteq Rows(IF s = "latency" THEN latencyCsv ELSE csv)
  BY DEF Loaded
<1>2. Loaded(s) \subseteq AllRows
  BY <1>1 DEF Rows, TypeOK, Lines, AllRows
<1>3. \A row \in Loaded(s) : row[2] = "ok"
  BY DEF Loaded
<1>4. s = "latency" => \A row \in Loaded(s) : KindOf(row) = "latency"
  BY <1>1 DEF LatencyRows
<1> QED BY <1>2, <1>3, <1>4

(* What the charts of a section are about is loaded for them, and each is  *)
(* among those to draw.                                                    *)
LEMMA LoadedForCharts ==
  ASSUME FilesKeep, NEW s \in Range(Sections), s \in {"throughput", "tail", "recovery", "latency"},
         NEW row \in atStart, row \in AllRows, row[2] = "ok", NEW k \in ChartsOf(row, s)
  PROVE  row \in Loaded(s) /\ k \in Categories(s, Loaded(s))
<1>1. Category(row) = KindOf(row)
  BY NamesAndKinds
<1>2. Benchmark[row[1]].mode \in {"steady", "latency", "burst"} =>
        KindOf(row) = Benchmark[row[1]].mode
  BY DEF KindOf
<1>3. KindOf(row) \in {"steady", "latency", "burst"} =>
        KindOf(row) = Benchmark[row[1]].mode
  BY DEF KindOf
<1>4. row \in Rows(csv) /\ (KindOf(row) = "latency" => row \in Rows(latencyCsv))
  BY DEF FilesKeep, Rows
<1>5. CASE s = "throughput"
  <2>1. k = KindOf(row) /\ k # "latency"
    BY <1>5 DEF ChartsOf
  <2>2. row \in Loaded(s)
    BY <1>4, <1>5 DEF Loaded, Kept, HasMetric
  <2> QED BY <1>1, <1>5, <2>1, <2>2 DEF Categories
<1>6. CASE s = "tail"
  <2>1. k = KindOf(row) /\ k \notin {"latency", "steady"}
    BY <1>6 DEF ChartsOf
  <2>2. row \in Loaded(s)
    BY <1>1, <1>2, <1>4, <1>6, <2>1 DEF Loaded, Kept, HasMetric
  <2> QED BY <1>1, <1>6, <2>1, <2>2 DEF Categories
<1>7. CASE s = "recovery"
  <2>1. k = KindOf(row) /\ k = "burst"
    BY <1>7 DEF ChartsOf
  <2>2. row \in Loaded(s)
    BY <1>1, <1>3, <1>4, <1>7, <2>1 DEF Loaded, Kept, HasMetric
  <2> QED BY <1>1, <1>7, <2>1, <2>2 DEF Categories
<1>8. CASE s = "latency"
  <2>1. k \in {"tradeoff", "scatter"} /\ KindOf(row) = "latency"
    BY <1>8 DEF ChartsOf
  <2>2. row \in Loaded(s)
    BY <1>4, <1>8, <2>1 DEF Loaded, Kept, HasMetric
  <2> QED BY <1>8, <2>1, <2>2 DEF Categories
<1> QED BY <1>5, <1>6, <1>7, <1>8

LEMMA CategoriesAreKnown ==
  ASSUME NEW s, NEW rows \in SUBSET AllRows PROVE Categories(s, rows) \subseteq Range(CategoryOrder)
<1>1. \A row \in rows : Category(row) \in {"base"} \cup KnownCategories
  BY NamesAndKinds
<1> QED BY <1>1, CategoryNames DEF Categories, KnownCategories

LEMMA ColumnsType ==
  ASSUME Shown \subseteq AllRows, section \in DOMAIN Sections
  PROVE  Columns \subseteq (LatencyMetrics \cup Range(Sections)) \X Nat
<1>1. Chart[1] \in Range(Sections)
  BY ChartIs DEF Range
<1>2. Times \subseteq Nat
  <2>1. \A f : Durations(f) \subseteq Nat
    BY ChartsAssumption DEF Durations, AllRows
  <2> QED BY <2>1 DEF Times
<1>3. /\ Times \cup (IF IsBase THEN {} ELSE {0}) \subseteq Nat
      /\ (IF Chart[1] = "latency" THEN LatencyMetrics ELSE {Chart[1]})
           \subseteq LatencyMetrics \cup Range(Sections)
  BY <1>1, <1>2
<1>4. \A X, Y, M : X \subseteq M /\ Y \subseteq Nat => X \X Y \subseteq M \X Nat
  OBVIOUS
<1> QED BY <1>3, <1>4 DEF Columns
-----------------------------------------------------------------------------
(* The invariant is kept: one lemma for each kind of step.                 *)

LEMMA LabelsUnchanged == LabelIInv /\ UNCHANGED labelVars => LabelIInv'
BY LabelStep

LEMMA LabelsType == LabelIInv => LabelsTypeOK
BY DEF LabelIInv

LEMMA ChartsInit == Init => ChartsIInv
<1> SUFFICES ASSUME Init PROVE ChartsIInv
  OBVIOUS
<1>1. LabelIInv
  BY DEF Init, NoLabels, LabelIInv, LabelsTypeOK, LabelsReadable, Ascending, Apart, NotBelow,
         Pushed
<1>3. PICK first \in FirstLines : csv = first[1] /\ latencyCsv = first[2]
  BY DEF Init
<1>4. /\ csv = Absent \/ csv \in SUBSET Lines
      /\ latencyCsv = Absent \/ latencyCsv \in SUBSET Lines
      /\ latencyCsv # Absent => \A row \in Rows(latencyCsv) : Benchmark[row[1]].mode = "latency"
  BY <1>3, ChartsAssumption DEF Rows
<1>5. DOMAIN saved = {}
  BY DEF Init
<1>6. TypeOK
  BY <1>1, <1>4, <1>5, LabelsType, SectionNames, ChartsAssumption DEF Init, TypeOK
<1>7. LatencyRows
  BY <1>4 DEF LatencyRows, KindOf
<1>8. ComparesEquivalentRuns /\ FilesKeep /\ DataOk /\ SavedOnce /\ Drawn /\ Ended
  BY <1>5 DEF Init, ComparesEquivalentRuns, FilesKeep, DataOk, SavedOnce, Drawn, Ended, Drawing
<1> QED BY <1>1, <1>6, <1>7, <1>8 DEF ChartsIInv

(* The suite takes rows away only with all that was there; what it adds to *)
(* the latency file are latency runs.                                      *)
LEMMA SuiteWrites ==
  ASSUME ChartsIInv,
         \/ BeginFiles \/ CloseFiles
         \/ \E r \in Runs, s \in Statuses : WriteRow(r, s) \/ WriteLatencyRow(<<r, s>>)
  PROVE  ChartsIInv'
<1>1. /\ UNCHANGED <<pc, section, data, todo, columns, saved>>
      /\ UNCHANGED labelVars
      /\ writes' = writes + 1 /\ writes < MaxWrites
      /\ csv # Absent /\ latencyCsv # Absent
      /\ pc = "load"
  BY DEF BeginFiles, CloseFiles, WriteRow, WriteLatencyRow, Write
<1>2. /\ csv \in SUBSET Lines /\ latencyCsv \in SUBSET Lines
      /\ writes \in 0..MaxWrites
  BY <1>1 DEF ChartsIInv, TypeOK
<1>3. /\ csv' \in SUBSET Lines /\ latencyCsv' \in SUBSET Lines
      /\ \/ atStart' = {} /\ csv' = {} /\ latencyCsv' = {}
         \/ /\ atStart' = atStart /\ csv \subseteq csv' /\ latencyCsv \subseteq latencyCsv'
            /\ \A row \in latencyCsv' \ {Header} :
                 row \in latencyCsv \/ Benchmark[row[1]].mode = "latency"
  <2>1. CASE BeginFiles
    BY <2>1 DEF BeginFiles
  <2>2. CASE CloseFiles
    BY <2>2, <1>2 DEF CloseFiles, Lines
  <2>3. CASE \E r \in Runs, s \in Statuses : WriteRow(r, s)
    BY <2>3, <1>2 DEF WriteRow, Lines
  <2>4. CASE \E r \in Runs, s \in Statuses : WriteLatencyRow(<<r, s>>)
    BY <2>4, <1>2 DEF WriteLatencyRow, Lines
  <2> QED BY <2>1, <2>2, <2>3, <2>4
<1>4. csv' # Absent /\ latencyCsv' # Absent
  BY <1>3, ChartsAssumption
<1>5. LabelIInv'
  BY <1>1, LabelsUnchanged DEF ChartsIInv
<1>6. writes' \in 0..MaxWrites
  BY <1>1, <1>2, ChartsAssumption
<1>7. TypeOK'
  BY <1>1, <1>3, <1>5, <1>6 DEF ChartsIInv, TypeOK, LabelIInv
<1>8. LatencyRows'
  BY <1>1, <1>3 DEF ChartsIInv, LatencyRows, Rows, KindOf
<1>9. FilesKeep'
  BY <1>1, <1>3, <1>4 DEF ChartsIInv, FilesKeep, Rows, Drawing
<1>10. atStart' \subseteq atStart
  BY <1>3
<1>11. Drawn'
  BY <1>1, <1>10 DEF ChartsIInv, Drawn, Begun, Shows
<1>12. ComparesEquivalentRuns' /\ DataOk' /\ SavedOnce' /\ Ended'
  BY <1>1, <1>10 DEF ChartsIInv, ComparesEquivalentRuns, DataOk, Drawing, SavedOnce, Ended
<1> QED BY <1>5, <1>7, <1>8, <1>9, <1>11, <1>12 DEF ChartsIInv

LEMMA StartKeeps ==
  ASSUME ChartsIInv, Start PROVE ChartsIInv'
<1>1. /\ UNCHANGED <<csv, latencyCsv, writes, section, data, todo, columns, saved>>
      /\ UNCHANGED labelVars
      /\ pc = "off" /\ pc' = "load" /\ section = 1
  BY DEF Start, ChartsIInv, Ended
<1>2. LabelIInv'
  BY <1>1, LabelsUnchanged DEF ChartsIInv
<1>3. TypeOK'
  BY <1>1, <1>2 DEF ChartsIInv, TypeOK, LabelIInv
<1>4. FilesKeep'
  <2> SUFFICES ASSUME NEW row \in atStart'
               PROVE  /\ csv # Absent /\ row \in Rows(csv)
                      /\ KindOf(row) = "latency" => latencyCsv # Absent /\ row \in latencyCsv
    BY <1>1 DEF FilesKeep, Rows, Drawing
  <2>1. csv # Absent /\ row \in Rows(csv)
    BY DEF Start
  <2>2. row \in Runs \X Statuses
    BY <2>1 DEF ChartsIInv, TypeOK, Rows, Lines
  <2>3. ~(/\ Benchmark[row[1]].mode = "latency"
          /\ latencyCsv # Absent => row \notin latencyCsv)
    BY <2>2 DEF Start
  <2> QED BY <2>1, <2>3 DEF KindOf
<1>5. Drawn'
  BY <1>1 DEF Drawn, Begun
<1>6. SavedOnce'
  BY <1>1 DEF ChartsIInv, SavedOnce
<1>7. LatencyRows' /\ ComparesEquivalentRuns' /\ DataOk' /\ Ended'
  BY <1>1 DEF ChartsIInv, LatencyRows, Rows, ComparesEquivalentRuns, DataOk, Drawing, Ended
<1> QED BY <1>2, <1>3, <1>4, <1>5, <1>6, <1>7 DEF ChartsIInv

LEMMA LoadRaisesKeeps ==
  ASSUME ChartsIInv, LoadRaises PROVE ChartsIInv'
<1>1. /\ UNCHANGED <<csv, latencyCsv, writes, atStart, section, data, todo, columns, saved>>
      /\ UNCHANGED labelVars
      /\ pc = "load" /\ pc' = "raised"
      /\ Sections[section] \in {"throughput", "latency"}
  BY DEF LoadRaises, Raises, files
<1>2. LabelIInv'
  BY <1>1, LabelsUnchanged DEF ChartsIInv
<1>3. TypeOK'
  BY <1>1, <1>2 DEF ChartsIInv, TypeOK, LabelIInv
<1>4. Drawn'
  BY <1>1 DEF ChartsIInv, Drawn, Begun, Shows
<1>5. SavedOnce'
  BY <1>1 DEF ChartsIInv, SavedOnce
<1>6. /\ LatencyRows' /\ ComparesEquivalentRuns' /\ DataOk' /\ FilesKeep' /\ Ended'
  BY <1>1 DEF ChartsIInv, LatencyRows, Rows, ComparesEquivalentRuns, DataOk, Drawing, Ended,
              FilesKeep
<1> QED BY <1>2, <1>3, <1>4, <1>5, <1>6 DEF ChartsIInv

LEMMA LoadKeeps ==
  ASSUME ChartsIInv, Load PROVE ChartsIInv'
<1> DEFINE s == Sections[section]
<1>1. /\ UNCHANGED <<csv, latencyCsv, writes, atStart, section, columns, saved>>
      /\ UNCHANGED labelVars
      /\ pc = "load" /\ pc' = "charts" /\ ~Raises
      /\ data' = IF s = "latency" /\ latencyCsv = Absent THEN {} ELSE Loaded(s)
      /\ todo' = Categories(s, data')
  BY DEF Load, files
<1>2. section \in DOMAIN Sections /\ s \in Range(Sections)
      /\ s \in {"throughput", "tail", "recovery", "latency"}
  BY SectionNames DEF ChartsIInv, TypeOK, Range
<1>3. /\ data' \subseteq AllRows
      /\ \A row \in data' : /\ row[2] = "ok"
                            /\ s = "latency" => KindOf(row) = "latency"
  <2>1. s # "latency" => csv # Absent
    <3>1. section = 1 => s = "throughput"
      BY SectionNames
    <3> QED BY <1>1, <1>2, <3>1, SectionNames DEF Raises, ChartsIInv, FilesKeep
  <2>2. CASE s = "latency" /\ latencyCsv = Absent
    BY <1>1, <2>2
  <2>3. CASE s = "latency" => latencyCsv # Absent
    BY <1>1, <1>2, <2>1, <2>3, WhatIsLoaded DEF ChartsIInv
  <2> QED BY <2>2, <2>3
<1>4. todo' \subseteq Range(CategoryOrder)
  BY <1>1, <1>3, CategoriesAreKnown
<1>5. LabelIInv'
  BY <1>1, LabelsUnchanged DEF ChartsIInv
<1>6. TypeOK'
  BY <1>1, <1>4, <1>5 DEF ChartsIInv, TypeOK, LabelIInv
<1>7. DataOk'
  BY <1>1, <1>3 DEF DataOk, AllRows
<1>8. SavedOnce'
  BY <1>1 DEF ChartsIInv, SavedOnce
<1>9. Drawn'
  <2> SUFFICES ASSUME NEW row \in atStart, NEW j \in 1..section, row[2] = "ok",
                      NEW k \in ChartsOf(row, Sections[j])
               PROVE  \/ Shows(<<Sections[j], k>>, row)
                      \/ j = section /\ k \in todo' /\ row \in data'
    BY <1>1 DEF Drawn, Shows
  <2>1. CASE j < section
    <3>1. Begun(j)
      BY <2>1 DEF Begun
    <3> QED BY <2>1, <3>1 DEF ChartsIInv, Drawn
  <2>2. CASE j = section
    <3>1. row \in AllRows
      BY DEF ChartsIInv, FilesKeep, TypeOK, Rows, Lines, AllRows
    <3>2. row \in Loaded(s) /\ k \in Categories(s, Loaded(s))
      BY <1>2, <2>2, <3>1, LoadedForCharts DEF ChartsIInv
    <3>3. s = "latency" => latencyCsv # Absent
      BY <2>2 DEF ChartsIInv, FilesKeep, ChartsOf
    <3> QED BY <1>1, <2>2, <3>2, <3>3
  <2> QED BY <1>2, <2>1, <2>2, SectionNames
<1>10. LatencyRows' /\ ComparesEquivalentRuns' /\ Ended'
  BY <1>1 DEF ChartsIInv, LatencyRows, Rows, ComparesEquivalentRuns, Ended
<1>11. FilesKeep'
  <2>1. csv # Absent
    <3>1. section = 1 => s = "throughput"
      BY SectionNames
    <3> QED BY <1>1, <1>2, <3>1, SectionNames DEF Raises, ChartsIInv, FilesKeep
  <2> QED BY <1>1, <2>1 DEF ChartsIInv, FilesKeep, Rows
<1> QED BY <1>5, <1>6, <1>7, <1>8, <1>9, <1>10, <1>11 DEF ChartsIInv

(* Steps that only draw: the chart, its rows and what is to do stay.       *)
LEMMA DrawingKeeps ==
  ASSUME ChartsIInv, UNCHANGED <<files, section, data, todo, saved>>,
         Drawing, Drawing', todo # {}, LabelIInv',
         columns' \subseteq (LatencyMetrics \cup Range(Sections)) \X Nat
  PROVE  ChartsIInv'
<1>1. UNCHANGED <<csv, latencyCsv, writes, atStart, section, data, todo, saved>>
  BY DEF files
<1>2. TypeOK'
  BY <1>1 DEF ChartsIInv, TypeOK, LabelIInv, Drawing
<1>3. Drawn'
  BY <1>1 DEF ChartsIInv, Drawn, Begun, Shows, Drawing
<1>4. SavedOnce'
  BY <1>1 DEF ChartsIInv, SavedOnce, Drawing
<1>5. /\ LatencyRows' /\ ComparesEquivalentRuns' /\ DataOk' /\ FilesKeep' /\ Ended'
  BY <1>1 DEF ChartsIInv, LatencyRows, Rows, ComparesEquivalentRuns, DataOk, Drawing, Ended,
              FilesKeep
<1> QED BY <1>2, <1>3, <1>4, <1>5 DEF ChartsIInv

LEMMA DrawKeeps ==
  ASSUME ChartsIInv, DrawChart \/ DrawScatter PROVE ChartsIInv'
<1>1. UNCHANGED <<files, section, data, todo, saved>> /\ Drawing /\ Drawing' /\ todo # {}
  BY DEF DrawChart, DrawScatter, Draw, Drawing
<1>2. CASE DrawChart
  <2>1. Columns \subseteq (LatencyMetrics \cup Range(Sections)) \X Nat
    <3>1. Shown \subseteq AllRows
      BY DEF Shown, ChartsIInv, DataOk, AllRows
    <3> QED BY <3>1, ColumnsType DEF ChartsIInv, TypeOK
  <2>2. LabelIInv' /\ columns' = Columns
    BY <1>2, LabelsUnchanged DEF DrawChart, ChartsIInv
  <2> QED BY <1>1, <2>1, <2>2, DrawingKeeps
<1>3. CASE DrawScatter
  <2>1. LabelIInv'
    BY <1>3, LabelsUnchanged DEF DrawScatter, ChartsIInv
  <2>2. columns' \subseteq (LatencyMetrics \cup Range(Sections)) \X Nat
    BY <1>3 DEF DrawScatter, ChartsIInv, TypeOK
  <2> QED BY <1>1, <2>1, <2>2, DrawingKeeps
<1> QED BY <1>2, <1>3

LEMMA LabelsKeep ==
  ASSUME ChartsIInv, SortColumn \/ Label PROVE ChartsIInv'
<1>1. UNCHANGED <<files, section, data, todo, saved>> /\ Drawing /\ Drawing' /\ todo # {}
  BY DEF SortColumn, Label, Drawing, ChartsIInv, Ended
<1>2. columns' \subseteq columns
  BY DEF SortColumn, Label
<1>3. LabelIInv'
  <2>1. CASE SortColumn
    <3>1. \E h : SortLabels(h)
      BY <2>1 DEF SortColumn
    <3>2. SortLabels(heights')
      BY <3>1 DEF SortLabels
    <3> QED BY <3>2, LabelStep DEF ChartsIInv
  <2>2. CASE Label
    BY <2>2, LabelStep DEF Label, ChartsIInv
  <2> QED BY <2>1, <2>2
<1>4. columns' \subseteq (LatencyMetrics \cup Range(Sections)) \X Nat
  BY <1>2 DEF ChartsIInv, TypeOK
<1> QED BY <1>1, <1>3, <1>4, DrawingKeeps

(* A chart that is saved shows rows of its kind.                           *)
LEMMA ShownIsOfKind ==
  ASSUME ChartsIInv, Drawing, NEW row \in Shown
  PROVE  /\ row \in AllRows /\ row[2] = "ok"
         /\ KindOf(row) = IF Chart[1] = "latency" THEN "latency" ELSE Chart[2]
<1>1. row \in AllRows /\ row[2] = "ok" /\ row \in data
  BY DEF Shown, ChartsIInv, DataOk, AllRows
<1>2. Category(row) = KindOf(row)
  BY <1>1, NamesAndKinds
<1>3. CASE Chart[1] = "latency"
  BY <1>1, <1>3, ChartIs DEF ChartsIInv, DataOk
<1>4. CASE Chart[1] # "latency"
  BY <1>1, <1>2, <1>4 DEF Shown
<1> QED BY <1>1, <1>3, <1>4

LEMMA SaveChartKeeps ==
  ASSUME ChartsIInv, SaveChart PROVE ChartsIInv'
<1> DEFINE s == Sections[section]
           kind == Chart[2]
<1>1. /\ UNCHANGED <<csv, latencyCsv, writes, atStart, section, data, columns>>
      /\ UNCHANGED labelVars
      /\ pc = "axes" /\ pc' = "charts" /\ todo' = todo \ {kind}
      /\ Drawing
  BY DEF SaveChart, files, Drawing
<1>2. Chart = <<s, kind>> /\ Chart[1] = s
  BY ChartIs
<1>3. /\ DOMAIN saved' = DOMAIN saved \cup {Chart}
      /\ saved'[Chart] = Shown
      /\ \A c \in DOMAIN saved : c # Chart => saved'[c] = saved[c]
  BY DEF SaveChart
<1>4. Chart \notin DOMAIN saved
  <2> SUFFICES ASSUME Chart \in DOMAIN saved PROVE FALSE
    OBVIOUS
  <2>1. kind \in todo
    BY <1>1, ChartIsToDo DEF ChartsIInv, TypeOK, Ended
  <2>2. PICK j \in 1..section : s = Sections[j] /\ (j = section => kind \notin todo)
    BY <1>2 DEF ChartsIInv, SavedOnce
  <2>3. section \in 1..4 /\ j \in 1..4
    BY SectionNames DEF ChartsIInv, TypeOK
  <2>4. j = section
    BY <2>2, <2>3, SectionNames
  <2> QED BY <2>1, <2>2, <2>4
<1>5. LabelIInv'
  BY <1>1, LabelsUnchanged DEF ChartsIInv
<1>6. ASSUME NEW c \in DOMAIN saved'
      PROVE  (c = Chart /\ saved'[c] = Shown) \/ (c \in DOMAIN saved /\ saved'[c] = saved[c])
  BY <1>3
<1>7. \A row \in Shown : row \in AllRows
  BY <1>1, ShownIsOfKind
<1>8. \A c \in DOMAIN saved' : saved'[c] \subseteq AllRows
  BY <1>3, <1>6, <1>7 DEF ChartsIInv, TypeOK, AllRows
<1>9. TypeOK'
  BY <1>1, <1>5, <1>8 DEF ChartsIInv, TypeOK, LabelIInv, AllRows
<1>10. ComparesEquivalentRuns'
  <2> SUFFICES ASSUME NEW c \in DOMAIN saved', NEW row \in saved'[c]
               PROVE  /\ row[2] = "ok"
                      /\ KindOf(row) = IF c[1] = "latency" THEN "latency" ELSE c[2]
                      /\ \A other \in saved'[c] : Framework(row) = Framework(other) =>
                           Benchmark[row[1]] = Benchmark[other[1]]
    BY DEF ComparesEquivalentRuns
  <2>1. CASE c \in DOMAIN saved /\ saved'[c] = saved[c]
    BY <2>1 DEF ChartsIInv, ComparesEquivalentRuns
  <2>2. CASE saved'[c] = Shown /\ c = Chart
    <3>1. /\ row[2] = "ok"
          /\ KindOf(row) = IF c[1] = "latency" THEN "latency" ELSE c[2]
      BY <1>1, <2>2, ShownIsOfKind
    <3>2. ASSUME NEW other \in saved'[c], Framework(row) = Framework(other)
          PROVE  Benchmark[row[1]] = Benchmark[other[1]]
      <4>1. KindOf(other) = KindOf(row)
        BY <1>1, <2>2, <3>1, ShownIsOfKind
      <4> QED BY <1>7, <2>2, <3>2, <4>1, OneBenchmark
    <3> QED BY <3>1, <3>2
  <2> QED BY <1>6, <2>1, <2>2
<1>11. SavedOnce'
  <2> SUFFICES ASSUME NEW c \in DOMAIN saved'
               PROVE  \E j \in 1..section : /\ c[1] = Sections[j]
                                            /\ j = section => c[2] \notin todo'
    BY <1>1 DEF SavedOnce
  <2>1. CASE c = Chart
    <3>1. section \in 1..section
      BY SectionNames DEF ChartsIInv, TypeOK
    <3> QED BY <1>1, <1>2, <2>1, <3>1
  <2>2. CASE c \in DOMAIN saved
    BY <1>1, <2>2 DEF ChartsIInv, SavedOnce
  <2> QED BY <1>3, <2>1, <2>2
<1>12. Drawn'
  <2> SUFFICES ASSUME NEW row \in atStart, NEW j \in 1..section, row[2] = "ok",
                      NEW k \in ChartsOf(row, Sections[j])
               PROVE  \/ Shows(<<Sections[j], k>>, row)'
                      \/ j = section /\ k \in todo' /\ row \in data
    BY <1>1 DEF Drawn, ChartsOf
  <2>1. \/ Shows(<<Sections[j], k>>, row)
        \/ j = section /\ k \in todo /\ row \in data
    BY <1>1 DEF ChartsIInv, Drawn, Begun
  <2>2. CASE Shows(<<Sections[j], k>>, row)
    BY <1>3, <1>4, <2>2 DEF Shows
  <2>3. CASE j = section /\ k \in todo /\ row \in data /\ k # kind
    BY <1>1, <2>3
  <2>4. CASE j = section /\ k \in todo /\ row \in data /\ k = kind
    <3>1. saved'[Chart] = Shown /\ Chart \in DOMAIN saved' /\ Chart = <<s, k>>
      BY <1>2, <1>3, <1>4, <2>4
    <3>2. row \in AllRows
      BY DEF ChartsIInv, FilesKeep, TypeOK, Rows, Lines, AllRows
    <3>3. s # "latency" => Category(row) = k
      <4>1. s \in {"throughput", "tail", "recovery", "latency"}
        BY SectionNames DEF ChartsIInv, TypeOK
      <4> QED BY <2>4, <3>2, <4>1, NamesAndKinds DEF ChartsOf
    <3>4. row \in Shown
      BY <1>2, <2>4, <3>3 DEF Shown
    <3> QED BY <2>4, <3>1, <3>4 DEF Shows
  <2> QED BY <2>1, <2>2, <2>3, <2>4
<1>13. LatencyRows' /\ DataOk' /\ FilesKeep' /\ Ended'
  BY <1>1 DEF ChartsIInv, LatencyRows, Rows, DataOk, Drawing, Ended, FilesKeep
<1> QED BY <1>5, <1>9, <1>10, <1>11, <1>12, <1>13 DEF ChartsIInv

LEMMA NextSectionKeeps ==
  ASSUME ChartsIInv, NextSection PROVE ChartsIInv'
<1>1. /\ UNCHANGED <<csv, latencyCsv, writes, atStart, data, todo, columns, saved>>
      /\ UNCHANGED labelVars
      /\ pc = "charts" /\ todo = {}
      /\ \/ section < 4 /\ section' = section + 1 /\ pc' = "load"
         \/ section = 4 /\ section' = section /\ pc' = "done"
  BY SectionNames DEF NextSection, files, ChartsIInv, TypeOK
<1>2. section \in 1..4 /\ section' \in 1..4
  BY <1>1, SectionNames DEF ChartsIInv, TypeOK
<1>3. LabelIInv'
  BY <1>1, LabelsUnchanged DEF ChartsIInv
<1>4. TypeOK'
  BY <1>1, <1>2, <1>3, SectionNames DEF ChartsIInv, TypeOK, LabelIInv
<1>5. SavedOnce'
  <2> SUFFICES ASSUME NEW c \in DOMAIN saved
               PROVE  \E j \in 1..section' :
                        /\ c[1] = Sections[j]
                        /\ j = section' => pc' \notin {"off", "load"} /\ c[2] \notin todo'
    BY <1>1 DEF SavedOnce
  <2>1. PICK j \in 1..section : c[1] = Sections[j]
    BY DEF ChartsIInv, SavedOnce
  <2> QED BY <1>1, <1>2, <2>1
<1>6. Drawn'
  <2> SUFFICES ASSUME NEW row \in atStart, NEW j \in 1..section', row[2] = "ok", Begun(j)',
                      NEW k \in ChartsOf(row, Sections[j])
               PROVE  Shows(<<Sections[j], k>>, row)
    BY <1>1 DEF Drawn, Shows, ChartsOf
  <2>1. j \in 1..section
    BY <1>1, <1>2 DEF Begun
  <2> QED BY <1>1, <2>1 DEF ChartsIInv, Drawn, Begun
<1>7. Ended'
  BY <1>1, SectionNames DEF Ended
<1>8. LatencyRows' /\ ComparesEquivalentRuns' /\ DataOk' /\ FilesKeep'
  BY <1>1 DEF ChartsIInv, LatencyRows, Rows, ComparesEquivalentRuns, DataOk, Drawing, FilesKeep
<1> QED BY <1>3, <1>4, <1>5, <1>6, <1>7, <1>8 DEF ChartsIInv

LEMMA ChartsStep == ChartsIInv /\ [Next]_vars => ChartsIInv'
<1> SUFFICES ASSUME ChartsIInv, [Next]_vars PROVE ChartsIInv'
  OBVIOUS
<1>1. CASE \/ BeginFiles \/ CloseFiles
           \/ \E r \in Runs, s \in Statuses : WriteRow(r, s) \/ WriteLatencyRow(<<r, s>>)
  BY <1>1, SuiteWrites
<1>2. CASE Start
  BY <1>2, StartKeeps
<1>3. CASE LoadRaises
  BY <1>3, LoadRaisesKeeps
<1>4. CASE Load
  BY <1>4, LoadKeeps
<1>5. CASE DrawChart \/ DrawScatter
  BY <1>5, DrawKeeps
<1>6. CASE SortColumn \/ Label
  BY <1>6, LabelsKeep
<1>7. CASE SaveChart
  BY <1>7, SaveChartKeeps
<1>8. CASE NextSection
  BY <1>8, NextSectionKeeps
<1>9. CASE UNCHANGED vars
  <2>1. /\ UNCHANGED <<csv, latencyCsv, writes, atStart, pc, section, data, todo, columns, saved>>
        /\ UNCHANGED labelVars
    BY <1>9 DEF vars, files
  <2>2. LabelIInv'
    BY <2>1, LabelsUnchanged DEF ChartsIInv
  <2>3. TypeOK'
    BY <2>1, <2>2 DEF ChartsIInv, TypeOK, LabelIInv
  <2>4. Drawn' /\ SavedOnce'
    BY <2>1 DEF ChartsIInv, Drawn, Begun, Shows, SavedOnce
  <2>5. /\ LatencyRows' /\ ComparesEquivalentRuns' /\ DataOk' /\ FilesKeep' /\ Ended'
    BY <2>1 DEF ChartsIInv, LatencyRows, Rows, ComparesEquivalentRuns, DataOk, Drawing, Ended,
                FilesKeep
  <2> QED BY <2>2, <2>3, <2>4, <2>5 DEF ChartsIInv
<1> QED BY <1>1, <1>2, <1>3, <1>4, <1>5, <1>6, <1>7, <1>8, <1>9 DEF Next

LEMMA ChartsInvariance == Spec => []ChartsIInv
BY ChartsInit, ChartsStep, PTL DEF Spec

(* Whatever the suite writes while the charts are drawn, a chart shows     *)
(* only runs that ended ok and are of its kind, and no line of it mixes    *)
(* two benchmarks (split_framework, load_throughput, main).                *)
THEOREM ChartsCorrect == Spec => []Inv
<1>1. ChartsIInv => Inv
  BY DEF ChartsIInv, Inv
<1> QED BY <1>1, ChartsInvariance, PTL

(* No run that ended ok and was in the files at the start is left out of a *)
(* chart about its kind, unless the suite has begun the files anew or the  *)
(* reading raised before (main, load_throughput, load_latency).            *)
THEOREM ChartsComplete == Spec => []ChartsAreComplete
<1>1. ChartsIInv => ChartsAreComplete
  <2> SUFFICES ASSUME ChartsIInv, NEW row \in atStart, row[2] = "ok"
               PROVE  /\ pc = "done" \/ (pc = "raised" /\ section > 1) =>
                           /\ KindOf(row) # "latency" => Shows(<<"throughput", KindOf(row)>>, row)
                           /\ KindOf(row) \notin {"latency", "steady"} =>
                                Shows(<<"tail", KindOf(row)>>, row)
                           /\ KindOf(row) = "burst" => Shows(<<"recovery", "burst">>, row)
                      /\ pc = "done" /\ KindOf(row) = "latency" =>
                           /\ Shows(<<"latency", "tradeoff">>, row)
                           /\ Shows(<<"latency", "scatter">>, row)
    BY DEF ChartsAreComplete
  <2>1. section \in 1..4
    BY SectionNames DEF ChartsIInv, TypeOK
  <2>2. pc = "done" \/ (pc = "raised" /\ section > 1) => section = 4
    BY <2>1, SectionNames DEF ChartsIInv, Ended
  <2>3. ASSUME NEW j \in 1..4, pc = "done" \/ (pc = "raised" /\ section > 1 /\ j \in 1..3),
               NEW k \in ChartsOf(row, Sections[j])
        PROVE  Shows(<<Sections[j], k>>, row)
    <3>1. j \in 1..section /\ (j = section => pc = "done")
      BY <2>2, <2>3
    <3>2. Begun(j)
      BY <2>1, <2>2, <2>3, <3>1 DEF Begun
    <3>3. \/ Shows(<<Sections[j], k>>, row)
          \/ j = section /\ k \in todo /\ row \in data
      BY <3>1, <3>2 DEF ChartsIInv, Drawn
    <3>4. j = section => todo = {}
      BY <3>1 DEF ChartsIInv, Ended
    <3> QED BY <3>3, <3>4
  <2>4. /\ KindOf(row) # "latency" => KindOf(row) \in ChartsOf(row, "throughput")
        /\ KindOf(row) \notin {"latency", "steady"} => KindOf(row) \in ChartsOf(row, "tail")
        /\ KindOf(row) = "burst" => "burst" \in ChartsOf(row, "recovery")
        /\ KindOf(row) = "latency" => /\ "tradeoff" \in ChartsOf(row, "latency")
                                      /\ "scatter" \in ChartsOf(row, "latency")
    BY DEF ChartsOf
  <2> QED BY <2>3, <2>4, SectionNames
<1> QED BY <1>1, ChartsInvariance, PTL

(* The labels are as readable in the charts the program draws as they are  *)
(* by themselves (plot_series, add_point_labels).                          *)
THEOREM ChartsReadable == Spec => []LabelsReadable
<1>1. ChartsIInv => LabelsReadable
  BY DEF ChartsIInv, LabelIInv
<1> QED BY <1>1, ChartsInvariance, PTL
=============================================================================
