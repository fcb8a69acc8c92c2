----------------------------- MODULE MCGroundLink -----------------------------
(* Three sends for TLC, the third larger than the staging area, under either   *)
(* policy; and one send among the polls of two uplink chunks.                  *)
EXTENDS GroundLink

MCFrames == <<2, 2, 3>>

MCWorkloads == {[policy |-> "V3", sends |-> 3, chunks |-> 0],
                [policy |-> "V2_ONLY", sends |-> 3, chunks |-> 0],
                [policy |-> "V2_ONLY", sends |-> 1, chunks |-> 2]}
===============================================================================
