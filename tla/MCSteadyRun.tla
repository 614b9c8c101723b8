---------------------------- MODULE MCSteadyRun -----------------------------
(***************************************************************************)
(* Small instances of SteadyRun for TLC: three messages for two publishers *)
(* with chunks of two and one, as _split_messages makes them.              *)
(***************************************************************************)
EXTENDS SteadyRun

CONSTANTS m1, m2, m3, p1, p2

MCMessages == {m1, m2, m3}
MCPublishers == {p1, p2}
MCChunk == [m \in MCMessages |-> IF m = m3 THEN p2 ELSE p1]
=============================================================================
