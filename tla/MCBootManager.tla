---------------------------- MODULE MCBootManager ----------------------------
(***************************************************************************)
(* BootManager for TLC.  The windows and limits are scaled down: a confirm *)
(* window of two ticks for 60, a clamp after two recovery starts for 3.    *)
(***************************************************************************)
EXTENDS BootManager
=============================================================================
