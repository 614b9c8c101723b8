------------------------------ MODULE MCCharts ------------------------------
(* Two frameworks; the base runs of "a" include two at one task duration   *)
(* and one at another.                                                     *)
EXTENDS Charts

Bench(f, m) == [framework |-> f, mode |-> m]
MCBenchmark == [r \in Runs |->
  CASE r \in {"a1", "a2", "a5"}  -> Bench("a", "base")
    [] r = "b1"                  -> Bench("b", "base")
    [] r = "nogt1"               -> Bench("a", "nogt")
    [] r = "burst1"              -> Bench("a", "burst")
    [] r = "steady1"             -> Bench("a", "steady")
    [] r \in {"lat1", "lat5"}    -> Bench("a", "latency")
    [] r = "latb1"               -> Bench("b", "latency")]

MCDuration == [r \in Runs |-> IF r \in {"a5", "lat5"} THEN 5 ELSE 1]

Throughput == [r \in Runs |->
  CASE r = "a1" -> 20 [] r = "a2" -> 14 [] r = "b1" -> 18 [] r = "nogt1" -> 17
    [] r = "lat1" -> 3 [] r = "lat5" -> 3 [] r = "latb1" -> 4 [] OTHER -> 10]
P95 == [r \in Runs |-> IF r = "lat1" THEN 2 ELSE 3]
MCMeasured == [m \in LatencyMetrics \cup {"tail", "recovery"} |->
                IF m = "throughput" THEN Throughput ELSE P95]

MCTheoreticalMax == 1 :> 22 @@ 5 :> 12

(* A run may have timed out, and two rows may be missing, or all but two.  *)
Latency(row) == MCBenchmark[row[1]].mode = "latency"
Files(rows) == <<{Header} \cup rows, {Header} \cup {row \in rows : Latency(row)}>>
Few == {runs \in SUBSET Runs : Cardinality(runs) <= 2}
MCFirstLines ==
  {Files({<<r, IF r = "a2" THEN s ELSE "ok">> : r \in runs}) :
     s \in Statuses, runs \in Few \cup {Runs \ few : few \in Few}}
  \cup {<<Absent, Absent>>, <<{}, {}>>, <<{Header, <<"a1", "ok">>}, {}>>,
        <<{Header, <<"burst1", "ok">>}, Absent>>}
=============================================================================
