---------------------------- MODULE FaultHistory ----------------------------
(***************************************************************************)
(* What the persistent fault ring promises its readers: a bounded history, *)
(* newest record first, to which records are added one at a time and from  *)
(* which only the oldest record ever disappears, when the history is full. *)
(* Nothing else - no failed write, no crash, no restart - changes it.      *)
(* PersistentFaultStore is shown to implement this specification.          *)
(***************************************************************************)
EXTENDS Naturals, Sequences

CONSTANTS Records,     \* the records RecoveryExecutor and BootManager append
          Capacity     \* PersistentFaultStoreCapacity, 64 in the code

VARIABLE history       \* the stored records, newest first

\* The newest n records of a history.
Newest(h, n) == [k \in 1 .. (IF Len(h) < n THEN Len(h) ELSE n) |-> h[k]]

\* History h with record r added in front and the excess dropped behind.
Push(h, r) ==
  [k \in 1 .. (IF Len(h) < Capacity THEN Len(h) + 1 ELSE Capacity) |->
     IF k = 1 THEN r ELSE h[k - 1]]

Init == history = <<>>

Record(r) == history' = Push(history, r)

Next == \E r \in Records : Record(r)

Spec == Init /\ [][Next]_history
=============================================================================
