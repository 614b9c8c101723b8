-------------------------- MODULE MCMessageCounts ---------------------------
(* A base benchmark, a steady one, and one that lacks a preset for a sleep *)
(* time, as dramatiq_nogt does.                                            *)
EXTENDS MessageCounts

MCTable == [p \in Pairs |-> CASE p = <<"steady", 1>> -> 3000
                              [] p = <<"nogt", 1>> -> None
                              [] OTHER -> 2000]
MCBase == [p \in Pairs |-> IF p[1] = "steady" THEN 2200 ELSE None]
=============================================================================
