---------------------------- MODULE MCPayloadOps ----------------------------
(* Instances of PayloadOps for TLC. *)
EXTENDS PayloadOps

\* One slice for a preview, two for a raw frame.
MCSlices == [k \in Kinds |-> IF k = "RAW_FRAME" THEN 2 ELSE 1]
=============================================================================
