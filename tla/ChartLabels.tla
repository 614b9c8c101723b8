---------------------------- MODULE ChartLabels -----------------------------
(***************************************************************************)
(* The labels that plot_benchmarks.py writes above one another beside the  *)
(* points of a chart: those at the ends of the lines (plot_series) and     *)
(* those at one task duration (deconflict).  They are sorted by the height *)
(* of their points and placed from the lowest to the highest, each at its  *)
(* point or as far above the label before it as is needed to read both.    *)
(***************************************************************************)
EXTENDS Integers, Sequences

CONSTANT Gap    \* the height of a label

ASSUME GapAssumption == Gap \in Nat

VARIABLES
  heights,  \* the heights of the points, in ascending order
  pos       \* the heights of the labels placed so far

labelVars == <<heights, pos>>

Ascending(h) == \A i \in 1..(Len(h) - 1) : h[i] <= h[i + 1]

NoLabels == heights = <<>> /\ pos = <<>>

(* sorted(items) puts the next labels in order.                            *)
SortLabels(h) == /\ Len(pos) = Len(heights)
                 /\ h \in Seq(Int) /\ Ascending(h)
                 /\ heights' = h /\ pos' = <<>>

(* A slip: labels are kept apart only where they would be drawn reversed.  *)
PlaceLabelAbove ==
  /\ Len(pos) < Len(heights)
  /\ LET y == heights[Len(pos) + 1]
     IN  pos' = Append(pos, IF pos # <<>> /\ y < pos[Len(pos)]
                            THEN pos[Len(pos)] + Gap ELSE y)
  /\ UNCHANGED heights

PlaceLabel ==
  /\ Len(pos) < Len(heights)
  /\ LET y == heights[Len(pos) + 1]
     IN  pos' = Append(pos, IF pos # <<>> /\ y - pos[Len(pos)] < Gap
                            THEN pos[Len(pos)] + Gap ELSE y)
  /\ UNCHANGED heights

LabelSpec == NoLabels /\ [][SortLabels(heights') \/ PlaceLabel]_labelVars
-----------------------------------------------------------------------------
LabelsTypeOK == /\ heights \in Seq(Int) /\ Ascending(heights)
                /\ pos \in Seq(Int) /\ Len(pos) <= Len(heights)

(* Labels do not cover one another and none is below its point; and one    *)
(* that is above it was pushed there by labels that touch each other, down *)
(* to one that is at its point.                                            *)
Apart == \A i \in 1..Len(pos), j \in 1..Len(pos) : i < j => pos[j] - pos[i] >= Gap
NotBelow == \A i \in 1..Len(pos) : heights[i] <= pos[i]
Pushed == \A i \in 1..Len(pos) : \E k \in 1..i : pos[i] = heights[k] + (i - k) * Gap

LabelsReadable == Apart /\ NotBelow /\ Pushed

(* Labels at heights q would be apart, and not below their points.         *)
Fits(q) == \A i \in 1..Len(heights) : /\ heights[i] <= q[i]
                                      /\ i > 1 => q[i] - q[i - 1] >= Gap
=============================================================================
