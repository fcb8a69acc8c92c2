------------------------ MODULE PersistentFaultStore ------------------------
(***************************************************************************)
(* The dual-copy fault ring of PersistentFaultManager                      *)
(* (OBC/Components/PersistentFaultManager).  A snapshot of the whole ring  *)
(* is kept in two files.  append loads the newest valid copy, adds the     *)
(* record and rewrites the OTHER file in place: open(trunc), write, flush. *)
(* The process may die, or the write may fail, while that file is          *)
(* truncated or half written.  PersistentFaultManager::m_mutex serialises  *)
(* append and readback, so one write is in flight at a time and nobody     *)
(* reads in the middle of it.                                              *)
(***************************************************************************)
EXTENDS Integers, Sequences

CONSTANTS Records,        \* the records that may be appended
          Capacity,       \* PersistentFaultStoreCapacity
          MaxReadback,    \* PersistentFaultHistoryMaxReadback
          U32Modulus,     \* 2^32: the generation counter is a U32
          MaxGeneration,  \* bound: appends in one behaviour
          NoRecord,       \* the value-initialised record {}
          Invalid         \* a copy parseCopy rejects: absent, torn or corrupt

ASSUME StoreAssumption ==
  /\ Capacity \in Nat \ {0}
  /\ MaxReadback \in Nat \ {0}
  /\ MaxGeneration \in Nat
  /\ U32Modulus \in Nat
  /\ MaxGeneration < U32Modulus
  /\ Invalid \notin [generation : Nat, count : 0 .. Capacity,
                     nextIndex  : 0 .. Capacity - 1,
                     records    : [0 .. Capacity - 1 -> Records \cup {NoRecord}]]

VARIABLES copies,     \* the contents of fault-ring-a.bin and fault-ring-b.bin
          inFlight    \* the snapshot writeFileBytes is writing, if any

vars == <<copies, inFlight>>

Copies == {"COPY_A", "COPY_B"}

Snapshot == [generation : Nat, count : 0 .. Capacity, nextIndex : 0 .. Capacity - 1,
             records : [0 .. Capacity - 1 -> Records \cup {NoRecord}]]

Idle == [target |-> "NONE", snapshot |-> Invalid]

EmptySnapshot == [generation |-> 0, count |-> 0, nextIndex |-> 0,
                  records |-> [i \in 0 .. Capacity - 1 |-> NoRecord]]

\* loadSnapshot_: copy A wins ties, an invalid copy never wins.
Active(cs) ==
  IF cs["COPY_A"] # Invalid /\ (cs["COPY_B"] = Invalid
        \/ cs["COPY_A"].generation >= cs["COPY_B"].generation)
    THEN "COPY_A"
    ELSE IF cs["COPY_B"] # Invalid THEN "COPY_B" ELSE "NONE"

Load(cs) == IF Active(cs) = "NONE" THEN EmptySnapshot ELSE cs[Active(cs)]

\* The body of append between the load and the write.
Appended(s, r) ==
  [records    |-> [s.records EXCEPT ![s.nextIndex] = r],
   nextIndex  |-> (s.nextIndex + 1) % Capacity,
   count      |-> IF s.count + 1 < Capacity THEN s.count + 1 ELSE Capacity,
   generation |-> (s.generation + 1) % U32Modulus]

\* Mutant of Target: append rewrites the copy it has just loaded.
TargetActive(cs) == IF Active(cs) = "COPY_B" THEN "COPY_B" ELSE "COPY_A"

Target(cs) == IF Active(cs) = "COPY_A" THEN "COPY_B" ELSE "COPY_A"

\* readLatest walks backwards from the slot before nextIndex; WalkBack is the
\* slot of the k-th newest record.
WalkBack(s, k) ==
  IF s.nextIndex - k >= 0 THEN s.nextIndex - k ELSE s.nextIndex - k + Capacity

ReadLatest(s, limit) ==
  LET returned == IF limit = 0 \/ s.count < limit THEN s.count ELSE limit
  IN  [k \in 1 .. returned |-> s.records[WalkBack(s, k)]]

ClampLimit(requested) ==
  IF requested = 0 \/ MaxReadback < requested THEN MaxReadback ELSE requested

\* GET_PERSISTENT_FAULT_HISTORY(limit).
Readback(cs, limit) == ReadLatest(Load(cs), ClampLimit(limit))
-----------------------------------------------------------------------------
Init == copies = [c \in Copies |-> Invalid] /\ inFlight = Idle

\* append up to the truncating open of the target file.
BeginAppend(r) ==
  /\ inFlight = Idle
  /\ Load(copies).generation < MaxGeneration
  /\ inFlight' = [target |-> Target(copies), snapshot |-> Appended(Load(copies), r)]
  /\ copies' = [copies EXCEPT ![Target(copies)] = Invalid]

\* write and flush succeed: append returns true.
CompleteWrite ==
  /\ inFlight # Idle
  /\ copies' = [copies EXCEPT ![inFlight.target] = inFlight.snapshot]
  /\ inFlight' = Idle

\* The write stops half way: append returns false (stream error), or the
\* process dies and is restarted.  The target stays torn.
AbandonWrite ==
  /\ inFlight # Idle
  /\ inFlight' = Idle
  /\ UNCHANGED copies

Next == (\E r \in Records : BeginAppend(r)) \/ CompleteWrite \/ AbandonWrite

Spec == Init /\ [][Next]_vars
-----------------------------------------------------------------------------
(* Properties. *)

\* The copies hold snapshots or fail validation, and at most one write is open.
TypeOK ==
  /\ copies \in [Copies -> Snapshot \cup {Invalid}]
  /\ inFlight \in {Idle} \cup [target : Copies, snapshot : Snapshot]

\* The records the ring holds, newest first: readLatest with no limit.
Stored == ReadLatest(Load(copies), 0)

FH == INSTANCE FaultHistory WITH history <- Stored

\* The two-file ring implements the bounded history: it changes only by adding
\* a record in front and dropping at most the oldest, and neither the open
\* truncated target nor a write abandoned by a crash loses or invents a record.
ImplementsFaultHistory == FH!Spec

\* An append that returned true is seen by the next reader: the record it was
\* given, the last slot of the snapshot written, is now the newest one stored.
CompletedAppendIsNewest ==
  [][CompleteWrite =>
       Stored' = FH!Push(Stored, inFlight.snapshot.records[WalkBack(inFlight.snapshot, 1)])]_vars

\* The copy being rewritten is never the one holding the newest history, so a
\* crash inside writeFileBytes leaves every acknowledged record readable.
NewestCopyNeverInFlight ==
  inFlight # Idle =>
    /\ inFlight.target # Active(copies)
    /\ Load(copies).generation + 1 = inFlight.snapshot.generation

\* A bounded readback is the newest part of the stored history, whatever limit
\* the operator asks for.
ReadbackIsNewestPart ==
  \A limit \in 0 .. MaxReadback + 1 :
    Readback(copies, limit) =
      FH!Newest(Stored, IF limit = 0 THEN MaxReadback ELSE
                        IF limit < MaxReadback THEN limit ELSE MaxReadback)
=============================================================================
