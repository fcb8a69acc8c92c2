-------------------------- MODULE MCReliableTransfer --------------------------
(* Two files for TLC: one of two segments, which needs the window, one of one. *)
EXTENDS ReliableTransfer

MCFiles == {"a", "b"}
MCSegments == [f \in MCFiles |-> IF f = "a" THEN 2 ELSE 1]
===============================================================================
