----------------------- MODULE MCPersistentFaultStore -----------------------
(* PersistentFaultStore for TLC: a three-slot ring, two distinguishable      *)
(* records and enough appends for the ring to wrap twice.                    *)
EXTENDS PersistentFaultStore

CONSTANTS r1, r2

MCRecords == {r1, r2}
=============================================================================
