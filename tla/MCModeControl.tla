---------------------------- MODULE MCModeControl ----------------------------
(* ModeControl for TLC.  The charges sit on the thresholds, where < and <=   *)
(* differ.                                                                   *)
EXTENDS ModeControl

CONSTANTS w1
=============================================================================
