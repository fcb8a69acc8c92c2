---------------------------- MODULE FileDelivery ----------------------------
(***************************************************************************)
(* What a reliable transfer promises: a file appears on the ground whole or *)
(* not at all, and a transfer that is reported as a success is one whose    *)
(* file came there.  A failure report says nothing about the file.            *)
(***************************************************************************)
EXTENDS Naturals

CONSTANT Files
VARIABLES arrived,   \* files that have been on the ground, whole
          report     \* what is known on board of the last transfer of each file

vars == <<arrived, report>>

Init == arrived = {} /\ report = [f \in Files |-> "NONE"]

Begin(f) == report' = [report EXCEPT ![f] = "ACTIVE"] /\ UNCHANGED arrived

Arrive(f) == report[f] # "NONE" /\ arrived' = arrived \cup {f} /\ UNCHANGED report

Succeed(f) ==
  /\ report[f] = "ACTIVE" /\ f \in arrived
  /\ report' = [report EXCEPT ![f] = "SUCCESS"] /\ UNCHANGED arrived

Fail(f) ==
  /\ report[f] = "ACTIVE"
  /\ report' = [report EXCEPT ![f] = "FAILED"] /\ UNCHANGED arrived

Next == \E f \in Files : Begin(f) \/ Arrive(f) \/ Succeed(f) \/ Fail(f)

Spec == Init /\ [][Next]_vars
=============================================================================
