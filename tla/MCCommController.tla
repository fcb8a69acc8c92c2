-------------------------- MODULE MCCommController --------------------------
(* CommController for TLC. *)
EXTENDS CommController

\* Commands the ground repeats, on either link and under any key.
MCUplinked == {[form |-> "SECURE", opcode |-> "STATUS", seq |-> 1],
               [form |-> "SECURE", opcode |-> "SEQ_CONTROL", seq |-> 2],
               [form |-> "BAD_REQUEST", opcode |-> "SEQ_CONTROL", seq |-> 3],
               [form |-> "PLAIN", opcode |-> "STATUS", seq |-> 3]}

NoUplink == {}
=============================================================================
