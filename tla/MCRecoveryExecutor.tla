------------------------- MODULE MCRecoveryExecutor -------------------------
(* RecoveryExecutor for TLC: a watchdog source and a subsystem source.       *)
EXTENDS RecoveryExecutor

CONSTANTS wd1, sub

MCIndex == [s \in Sources |-> IF s = wd1 THEN 0 ELSE 1]
=============================================================================
