--------------------------- MODULE StorageProofs ---------------------------
(***************************************************************************)
(* What the software says of its storage and of its camera is true.  First *)
(* the fault ring: it implements FaultHistory, for every ring capacity,    *)
(* every set of records and every number of appends that does not wrap the *)
(* U32 generation; the inductive invariant adds to TypeOK how the two      *)
(* copies and the write in flight relate.  Then the payload (PayloadOps,   *)
(* here Pay): the session the controller reports is the one the helper     *)
(* holds, and the products it lists as published are on storage, for every *)
(* number of slices, captures, publishes and restarts.                     *)
(***************************************************************************)
EXTENDS PersistentFaultStore, TLAPS

\* A copy that parses was written by one of the bounded appends.
GenerationsBounded ==
  \A c \in Copies : copies[c] # Invalid => copies[c].generation <= MaxGeneration

\* While a write is open its target does not parse, is the copy append must
\* rewrite, and the snapshot being written is the loaded one plus one record.
WriteInFlight ==
  inFlight # Idle =>
    /\ Load(copies).generation < MaxGeneration
    /\ copies[inFlight.target] = Invalid
    /\ inFlight.target = Target(copies)
    /\ \E r \in Records : inFlight.snapshot = Appended(Load(copies), r)

IInv == TypeOK /\ GenerationsBounded /\ WriteInFlight

-----------------------------------------------------------------------------
\* nextIndex advances cyclically.
LEMMA CyclicNext ==
  ASSUME NEW n \in 0 .. Capacity - 1
  PROVE  (n + 1) % Capacity = IF n + 1 = Capacity THEN 0 ELSE n + 1
BY StoreAssumption

\* The generation does not wrap below the U32 modulus.
LEMMA NoWrap ==
  ASSUME NEW g \in Nat, g < MaxGeneration
  PROVE  (g + 1) % U32Modulus = g + 1
BY StoreAssumption

\* A loaded snapshot is a snapshot.
LEMMA LoadType ==
  ASSUME TypeOK
  PROVE  Load(copies) \in Snapshot
<1>1. EmptySnapshot \in Snapshot
  BY StoreAssumption DEF EmptySnapshot, Snapshot
<1>2. QED
  BY <1>1 DEF TypeOK, Load, Active, Copies

\* What append builds from a snapshot is a snapshot one generation newer.
LEMMA AppendedType ==
  ASSUME NEW s \in Snapshot, NEW r \in Records, s.generation < MaxGeneration
  PROVE  /\ Appended(s, r) \in Snapshot
         /\ Appended(s, r).generation = s.generation + 1
<1>1. (s.generation + 1) % U32Modulus = s.generation + 1
  BY NoWrap DEF Snapshot
<1>2. (s.nextIndex + 1) % Capacity \in 0 .. Capacity - 1
  BY CyclicNext, StoreAssumption DEF Snapshot
<1>3. /\ s.generation \in Nat /\ s.count \in 0 .. Capacity
      /\ s.nextIndex \in 0 .. Capacity - 1
      /\ s.records \in [0 .. Capacity - 1 -> Records \cup {NoRecord}]
  BY DEF Snapshot
<1>4. (IF s.count + 1 < Capacity THEN s.count + 1 ELSE Capacity) \in 0 .. Capacity
  BY <1>3, StoreAssumption
<1>5. [s.records EXCEPT ![s.nextIndex] = r] \in [0 .. Capacity - 1 -> Records \cup {NoRecord}]
  BY <1>3
<1>6. s.generation + 1 \in Nat
  BY <1>3
<1>7. QED
  BY <1>1, <1>2, <1>4, <1>5, <1>6 DEF Appended, Snapshot

\* The walk of readLatest stays inside the ring.
LEMMA WalkBackType ==
  ASSUME NEW s \in Snapshot, NEW k \in 1 .. s.count
  PROVE  WalkBack(s, k) \in 0 .. Capacity - 1
BY StoreAssumption DEF WalkBack, Snapshot

\* After an append the walk finds the new record first and then visits the
\* slots it visited before, none of which the append overwrote.
LEMMA WalkAfterAppend ==
  ASSUME NEW s \in Snapshot, NEW r \in Records, NEW k \in 1 .. Capacity,
         k - 1 <= s.count
  PROVE  Appended(s, r).records[WalkBack(Appended(s, r), k)] =
           IF k = 1 THEN r ELSE s.records[WalkBack(s, k - 1)]
<1> DEFINE n == s.nextIndex
           m == Appended(s, r).nextIndex
<1>1. n \in 0 .. Capacity - 1 /\ s.records \in [0 .. Capacity - 1 -> Records \cup {NoRecord}]
  BY DEF Snapshot
<1>2. m = IF n + 1 = Capacity THEN 0 ELSE n + 1
  BY <1>1, CyclicNext DEF Appended
<1>3. Appended(s, r).records = [s.records EXCEPT ![n] = r]
  BY DEF Appended
<1>4. CASE k = 1
  <2>1. WalkBack(Appended(s, r), k) = n
    BY <1>1, <1>2, <1>4, StoreAssumption DEF WalkBack
  <2>2. QED
    BY <1>1, <1>3, <1>4, <2>1
<1>5. CASE k # 1
  <2>1. WalkBack(Appended(s, r), k) = WalkBack(s, k - 1)
    BY <1>1, <1>2, <1>5, StoreAssumption DEF WalkBack
  <2>2. WalkBack(s, k - 1) \in 0 .. Capacity - 1 /\ WalkBack(s, k - 1) # n
    BY <1>1, <1>5, StoreAssumption DEF WalkBack
  <2>3. QED
    BY <1>1, <1>3, <1>5, <2>1, <2>2
<1>6. QED
  BY <1>4, <1>5
-----------------------------------------------------------------------------
\* Once a write completes, the rewritten copy is the newest one.
LEMMA CompletedIsActive ==
  ASSUME IInv, inFlight # Idle
  PROVE  /\ inFlight.snapshot \in Snapshot
         /\ inFlight.snapshot.generation = Load(copies).generation + 1
         /\ inFlight.target \in Copies
         /\ Load([copies EXCEPT ![inFlight.target] = inFlight.snapshot]) = inFlight.snapshot
<1> DEFINE new == [copies EXCEPT ![inFlight.target] = inFlight.snapshot]
<1>1. /\ TypeOK /\ WriteInFlight
      /\ Load(copies) \in Snapshot
      /\ inFlight.target = Target(copies)
      /\ Load(copies).generation < MaxGeneration
  BY LoadType DEF IInv, WriteInFlight
<1>2. PICK r \in Records : inFlight.snapshot = Appended(Load(copies), r)
  BY <1>1 DEF WriteInFlight
<1>3. /\ inFlight.snapshot \in Snapshot
      /\ inFlight.snapshot.generation = Load(copies).generation + 1
  BY <1>1, <1>2, AppendedType
<1>4. inFlight.target \in Copies
  BY <1>1 DEF Target, Copies
<1>5. inFlight.snapshot # Invalid
  BY <1>3, StoreAssumption DEF Snapshot
<1>6. CASE Active(copies) = "COPY_A"
  <2>1. inFlight.target = "COPY_B" /\ Load(copies) = copies["COPY_A"]
    BY <1>1, <1>6 DEF Target, Load
  <2>2. new["COPY_A"] = copies["COPY_A"] /\ new["COPY_B"] = inFlight.snapshot
    BY <1>1, <2>1 DEF TypeOK, Copies
  <2>3. ~ (new["COPY_A"].generation >= new["COPY_B"].generation)
    BY <1>1, <1>3, <2>1, <2>2 DEF Snapshot
  <2>4. Active(new) = "COPY_B"
    BY <1>5, <2>2, <2>3 DEF Active
  <2>5. QED
    BY <1>3, <1>4, <2>2, <2>4 DEF Load
<1>7. CASE Active(copies) # "COPY_A"
  <2>1. inFlight.target = "COPY_A"
    BY <1>1, <1>7 DEF Target
  <2>2. new["COPY_B"] = copies["COPY_B"] /\ new["COPY_A"] = inFlight.snapshot
    BY <1>1, <2>1 DEF TypeOK, Copies
  <2>3. copies["COPY_B"] # Invalid => Load(copies) = copies["COPY_B"]
    BY <1>7 DEF Active, Load
  <2>4. copies["COPY_B"] # Invalid => new["COPY_A"].generation >= new["COPY_B"].generation
    BY <1>1, <1>3, <2>2, <2>3 DEF Snapshot
  <2>5. Active(new) = "COPY_A"
    BY <1>5, <2>2, <2>4 DEF Active
  <2>6. QED
    BY <1>3, <1>4, <2>2, <2>5 DEF Load
<1>8. QED
  BY <1>6, <1>7

\* Truncating the target of an append does not change what loads.
LEMMA TruncationKeepsLoad ==
  ASSUME TypeOK
  PROVE  LET new == [copies EXCEPT ![Target(copies)] = Invalid]
         IN  Load(new) = Load(copies) /\ Target(new) = Target(copies)
             /\ new[Target(copies)] = Invalid
<1> DEFINE new == [copies EXCEPT ![Target(copies)] = Invalid]
<1>1. CASE Active(copies) = "COPY_A"
  <2>1. new["COPY_A"] = copies["COPY_A"] /\ new["COPY_B"] = Invalid
    BY <1>1 DEF TypeOK, Copies, Target
  <2>2. copies["COPY_A"] # Invalid
    BY <1>1 DEF Active
  <2>3. QED
    BY <1>1, <2>1, <2>2 DEF Active, Load, Target
<1>2. CASE Active(copies) # "COPY_A"
  <2>1. new["COPY_B"] = copies["COPY_B"] /\ new["COPY_A"] = Invalid
    BY <1>2 DEF TypeOK, Copies, Target
  <2>2. Active(new) = Active(copies)
    BY <1>2, <2>1 DEF Active
  <2>3. QED
    BY <1>2, <2>1, <2>2 DEF Active, Load, Target
<1>3. QED
  BY <1>1, <1>2
-----------------------------------------------------------------------------
\* The invariant holds initially: neither file exists.
LEMMA InitIInv == Init => IInv
BY DEF Init, IInv, TypeOK, GenerationsBounded, WriteInFlight, Copies, Idle

\* Every step of the store preserves it.
LEMMA NextIInv == IInv /\ [Next]_vars => IInv'
<1> SUFFICES ASSUME IInv, [Next]_vars PROVE IInv'
  OBVIOUS
<1> USE DEF IInv
<1>1. ASSUME NEW r \in Records, BeginAppend(r) PROVE IInv'
  <2>1. /\ Load(copies) \in Snapshot /\ Load(copies).generation < MaxGeneration
        /\ Target(copies) \in Copies
    BY <1>1, LoadType DEF BeginAppend, Target, Copies
  <2>2. Appended(Load(copies), r) \in Snapshot
    BY <2>1, AppendedType
  <2>3. TypeOK'
    BY <1>1, <2>1, <2>2 DEF BeginAppend, TypeOK
  <2>4. /\ Load(copies') = Load(copies) /\ Target(copies') = Target(copies)
        /\ copies'[Target(copies)] = Invalid
    BY <1>1, TruncationKeepsLoad DEF BeginAppend
  <2>5. WriteInFlight'
    BY <1>1, <2>1, <2>4 DEF BeginAppend, WriteInFlight
  <2>6. GenerationsBounded'
    BY <1>1, <2>1 DEF BeginAppend, GenerationsBounded, TypeOK
  <2>7. QED
    BY <2>3, <2>5, <2>6
<1>2. ASSUME CompleteWrite PROVE IInv'
  <2>1. /\ inFlight.snapshot \in Snapshot /\ inFlight.target \in Copies
        /\ inFlight.snapshot.generation = Load(copies).generation + 1
        /\ Load(copies).generation < MaxGeneration
        /\ Load(copies) \in Snapshot
    BY <1>2, CompletedIsActive, LoadType DEF CompleteWrite, WriteInFlight
  <2>2. TypeOK' /\ WriteInFlight'
    BY <1>2, <2>1 DEF CompleteWrite, TypeOK, WriteInFlight
  <2>3. inFlight.snapshot.generation <= MaxGeneration
    BY <2>1, StoreAssumption DEF Snapshot
  <2>4. GenerationsBounded'
    BY <1>2, <2>1, <2>3 DEF CompleteWrite, GenerationsBounded, TypeOK
  <2>5. QED
    BY <2>2, <2>4
<1>3. ASSUME AbandonWrite PROVE IInv'
  BY <1>3 DEF AbandonWrite, TypeOK, GenerationsBounded, WriteInFlight
<1>4. ASSUME UNCHANGED vars PROVE IInv'
  BY <1>4 DEF vars, TypeOK, GenerationsBounded, WriteInFlight
<1>5. QED
  BY <1>1, <1>2, <1>3, <1>4 DEF Next

\* The copies and the write in flight always have the shapes append gives them.
THEOREM TypeCorrect == Spec => []TypeOK
<1>1. Spec => []IInv
  BY InitIInv, NextIInv, PTL DEF Spec
<1>2. QED
  BY <1>1, PTL DEF IInv

\* Whatever crashes or write failures happen, the file being rewritten is never
\* the one that holds the newest history.
THEOREM NewestSafe == Spec => []NewestCopyNeverInFlight
<1>1. IInv => NewestCopyNeverInFlight
  <2> SUFFICES ASSUME IInv, inFlight # Idle
               PROVE  /\ inFlight.target # Active(copies)
                      /\ Load(copies).generation + 1 = inFlight.snapshot.generation
    BY DEF NewestCopyNeverInFlight
  <2>1. inFlight.target = Target(copies) /\ copies[inFlight.target] = Invalid
    BY DEF IInv, WriteInFlight
  <2>2. QED
    BY <2>1, CompletedIsActive DEF Target, Active
<1>2. Spec => []IInv
  BY InitIInv, NextIInv, PTL DEF Spec
<1>3. QED
  BY <1>1, <1>2, PTL

\* An append changes the records readLatest returns exactly as Push does.
LEMMA AppendPushes ==
  ASSUME NEW s \in Snapshot, NEW r \in Records, s.generation < MaxGeneration
  PROVE  ReadLatest(Appended(s, r), 0) = FH!Push(ReadLatest(s, 0), r)
<1> DEFINE a == Appended(s, r)
           old == ReadLatest(s, 0)
<1>1. s.count \in 0 .. Capacity /\ a \in Snapshot
  BY AppendedType DEF Snapshot
<1>2. old = [k \in 1 .. s.count |-> s.records[WalkBack(s, k)]] /\ Len(old) = s.count
  BY <1>1 DEF ReadLatest
<1>3. a.count = IF s.count < Capacity THEN s.count + 1 ELSE Capacity
  BY <1>1, StoreAssumption DEF Appended
<1>4. ReadLatest(a, 0) = [k \in 1 .. a.count |-> a.records[WalkBack(a, k)]]
  BY DEF ReadLatest
<1>5. FH!Push(old, r) = [k \in 1 .. a.count |-> IF k = 1 THEN r ELSE old[k - 1]]
  BY <1>2, <1>3 DEF FH!Push
<1>6. ASSUME NEW k \in 1 .. a.count
      PROVE  a.records[WalkBack(a, k)] = IF k = 1 THEN r ELSE old[k - 1]
  <2>1. k \in 1 .. Capacity /\ k - 1 <= s.count
    BY <1>1, <1>3, StoreAssumption
  <2>2. a.records[WalkBack(a, k)] = IF k = 1 THEN r ELSE s.records[WalkBack(s, k - 1)]
    BY <2>1, WalkAfterAppend
  <2>3. k # 1 => old[k - 1] = s.records[WalkBack(s, k - 1)]
    BY <1>1, <1>2, <2>1
  <2>4. QED
    BY <2>2, <2>3
<1> HIDE DEF a, old
<1>7. QED
  BY <1>4, <1>5, <1>6 DEF a, old

\* A completed write stores the record it was begun with in front of the others.
LEMMA CompletePushes ==
  ASSUME IInv, CompleteWrite
  PROVE  \E r \in Records :
           /\ inFlight.snapshot.records[WalkBack(inFlight.snapshot, 1)] = r
           /\ Stored' = FH!Push(Stored, r)
<1>1. PICK r \in Records : inFlight.snapshot = Appended(Load(copies), r)
  BY DEF CompleteWrite, IInv, WriteInFlight
<1>2. Load(copies') = Appended(Load(copies), r)
  BY <1>1, CompletedIsActive DEF CompleteWrite
<1>3. Load(copies) \in Snapshot /\ Load(copies).generation < MaxGeneration
  BY LoadType DEF CompleteWrite, IInv, WriteInFlight
<1>4. Stored' = FH!Push(Stored, r)
  BY <1>2, <1>3, AppendPushes DEF Stored
<1>5. inFlight.snapshot.records[WalkBack(inFlight.snapshot, 1)] = r
  BY <1>1, <1>3, WalkAfterAppend, StoreAssumption DEF Snapshot
<1>6. QED
  BY <1>4, <1>5

\* An append that returned true put its record in front of what readers see.
THEOREM AppendIsNewest == Spec => CompletedAppendIsNewest
<1>1. IInv /\ [Next]_vars =>
        [CompleteWrite =>
           Stored' = FH!Push(Stored, inFlight.snapshot.records[WalkBack(inFlight.snapshot, 1)])]_vars
  BY CompletePushes
<1>2. Spec => []IInv
  BY InitIInv, NextIInv, PTL DEF Spec
<1>3. QED
  BY <1>1, <1>2, PTL DEF Spec, CompletedAppendIsNewest

\* GET_PERSISTENT_FAULT_HISTORY returns the newest part of the stored history
\* for every limit an operator can ask for, however often the ring has wrapped.
THEOREM ReadbackIsNewest == Spec => []ReadbackIsNewestPart
<1>1. IInv => ReadbackIsNewestPart
  <2> SUFFICES ASSUME IInv, NEW limit \in 0 .. MaxReadback + 1
               PROVE  Readback(copies, limit) =
                        FH!Newest(Stored, IF limit = 0 THEN MaxReadback ELSE
                                          IF limit < MaxReadback THEN limit ELSE MaxReadback)
    BY DEF ReadbackIsNewestPart
  <2> DEFINE s == Load(copies)
             n == ClampLimit(limit)
             full == [k \in 1 .. s.count |-> s.records[WalkBack(s, k)]]
  <2>1. s.count \in Nat
    BY LoadType DEF IInv, Snapshot
  <2>2. /\ n \in Nat \ {0}
        /\ n = IF limit = 0 THEN MaxReadback ELSE IF limit < MaxReadback THEN limit ELSE MaxReadback
    BY StoreAssumption DEF ClampLimit
  <2>3. Stored = full
    BY DEF Stored, ReadLatest
  <2>4. Len(full) = s.count
    BY <2>1
  <2> HIDE DEF n, s
  <2>5. FH!Newest(full, n) = [k \in 1 .. (IF s.count < n THEN s.count ELSE n) |-> full[k]]
    BY <2>4 DEF FH!Newest
  <2>6. ReadLatest(s, n) =
          [k \in 1 .. (IF s.count < n THEN s.count ELSE n) |-> s.records[WalkBack(s, k)]]
    BY <2>2 DEF ReadLatest
  <2>7. ASSUME NEW k \in 1 .. (IF s.count < n THEN s.count ELSE n)
        PROVE  full[k] = s.records[WalkBack(s, k)]
    BY <2>1, <2>2
  <2> HIDE DEF full
  <2>8. ReadLatest(s, n) = FH!Newest(full, n)
    BY <2>5, <2>6, <2>7
  <2>9. QED
    BY <2>2, <2>3, <2>8 DEF Readback, n, s
<1>2. Spec => []IInv
  BY InitIInv, NextIInv, PTL DEF Spec
<1>3. QED
  BY <1>1, <1>2, PTL

\* The dual-copy ring implements the bounded newest-first history.
THEOREM Implements == Spec => ImplementsFaultHistory
<1>1. Init => FH!Init
  BY StoreAssumption
     DEF Init, FH!Init, Stored, ReadLatest, Load, Active, EmptySnapshot, Copies
<1>2. IInv /\ [Next]_vars => [FH!Next]_Stored
  <2> SUFFICES ASSUME IInv, [Next]_vars PROVE [FH!Next]_Stored
    OBVIOUS
  <2>1. ASSUME NEW r \in Records, BeginAppend(r) PROVE Stored' = Stored
    BY <2>1, TruncationKeepsLoad DEF BeginAppend, IInv, Stored
  <2>2. ASSUME CompleteWrite PROVE FH!Next
    BY <2>2, CompletePushes DEF FH!Next, FH!Record
  <2>3. ASSUME AbandonWrite PROVE Stored' = Stored
    BY <2>3 DEF AbandonWrite, Stored
  <2>4. ASSUME UNCHANGED vars PROVE Stored' = Stored
    BY <2>4 DEF vars, Stored
  <2>5. QED
    BY <2>1, <2>2, <2>3, <2>4 DEF Next
<1>3. Spec => []IInv
  BY InitIInv, NextIInv, PTL DEF Spec
<1>4. QED
  BY <1>1, <1>2, <1>3, PTL DEF Spec, ImplementsFaultHistory, FH!Spec
-----------------------------------------------------------------------------
(* The payload. *)

CONSTANTS Indexes, Resolutions, DefaultResolution, Slices, PublishTicks, MaxCaptures,
          MaxRestarts, MaxPublishes

VARIABLES u, rail, mode, stored, restarts

Pay == INSTANCE PayloadOps
-----------------------------------------------------------------------------
(* The helper process: a killed helper that has not gone blocks the next one. *)

Helpers == [backend : Pay!Backends, process : Pay!Processes, lingers : BOOLEAN]

HelperOK(h) == h \in Helpers /\ (h.lingers => h.process = "NONE")

\* killHelperLocked_ leaves no helper to talk to.
LEMMA KilledIsGone ==
  ASSUME NEW h, HelperOK(h), NEW k \in Pay!Killed(h)
  PROVE  HelperOK(k) /\ k.process = "NONE"
<1>1. CASE h.process = "NONE"
  BY <1>1 DEF Pay!Killed
<1>2. CASE h.process # "NONE"
  <2>1. PICK l \in BOOLEAN : k = [h EXCEPT !.process = "NONE", !.lingers = l]
    BY <1>2, Zenon DEF Pay!Killed
  <2>2. k \in Helpers
    BY <2>1 DEF HelperOK, Helpers, Pay!Processes
  <2>3. k.process = "NONE"
    BY <2>1 DEF HelperOK, Helpers
  <2> QED
    BY <2>2, <2>3 DEF HelperOK
<1> QED
  BY <1>1, <1>2

\* ensureHelperLocked_ answers OK only with a helper that runs and no other.
LEMMA EnsuredRuns ==
  ASSUME NEW h, HelperOK(h), NEW a \in Pay!Ensured(h)
  PROVE  /\ HelperOK(a.helper)
         /\ a.ok => ~a.helper.lingers
         /\ h.process # "OPEN" => a.helper.process # "OPEN"
<1>1. PICK r \in Pay!Reaped(h) :
        a \in (CASE r.lingers -> {Pay!Answer(r, FALSE)}
                 [] ~r.lingers /\ r.process # "NONE" -> {Pay!Answer(r, TRUE)}
                 [] OTHER -> {Pay!Answer(r, FALSE),
                              Pay!Answer([r EXCEPT !.process = "IDLE"], TRUE)})
  BY Zenon DEF Pay!Ensured
<1>2. HelperOK(r) /\ r.process = h.process
  BY DEF Pay!Reaped, HelperOK, Helpers
<1>3. CASE r.lingers
  BY <1>1, <1>2, <1>3 DEF Pay!Answer
<1>4. CASE ~r.lingers /\ r.process # "NONE"
  BY <1>1, <1>2, <1>4 DEF Pay!Answer
<1>5. CASE ~r.lingers /\ r.process = "NONE"
  <2> DEFINE s == [r EXCEPT !.process = "IDLE"]
  <2>1. s \in Helpers /\ ~s.lingers /\ s.process = "IDLE"
    BY <1>2, <1>5 DEF HelperOK, Helpers, Pay!Processes
  <2>2. a = Pay!Answer(r, FALSE) \/ a = Pay!Answer(s, TRUE)
    BY <1>1, <1>5
  <2> HIDE DEF s
  <2> QED
    BY <1>2, <2>1, <2>2 DEF Pay!Answer, HelperOK
<1> QED
  BY <1>3, <1>4, <1>5

\* A helper that runs, whatever it is doing.
Runs(h) == h \in Helpers /\ ~h.lingers

\* Releasing or opening the camera does not end the helper.
LEMMA ReleasedRuns ==
  ASSUME NEW h, Runs(h)
  PROVE  Runs(Pay!Released(h)) /\ Runs([h EXCEPT !.process = "OPEN"])
BY DEF Runs, Helpers, Pay!Released, Pay!Processes

\* LibcameraPiCameraDriver::prepare keeps to the helper it runs in.
LEMMA PrepareRuns ==
  ASSUME NEW h, Runs(h), NEW a \in Pay!CameraPrepare(h)
  PROVE  Runs(a.helper)
<1>1. ASSUME NEW b \in Pay!CameraAcquired(h) PROVE Runs(b.helper)
  <2>1. b.helper \in {h, Pay!Released(h), [h EXCEPT !.process = "OPEN"]}
    BY <1>1 DEF Pay!CameraAcquired, Pay!Answer
  <2> QED
    BY <2>1, ReleasedRuns, Zenon
<1>2. ASSUME NEW g, Runs(g), NEW b \in Pay!CameraConfigured(g) PROVE Runs(b.helper)
  <2>1. b.helper \in {g, Pay!Released(g)}
    BY <1>2 DEF Pay!CameraConfigured, Pay!Answer
  <2> QED
    BY <1>2, <2>1, ReleasedRuns, Zenon
<1>3. ASSUME NEW g, Runs(g), NEW b \in Pay!CameraStarted(g) PROVE Runs(b.helper)
  <2>1. b.helper \in {g, Pay!Released(g)}
    BY <1>3 DEF Pay!CameraStarted, Pay!Answer
  <2> QED
    BY <1>3, <2>1, ReleasedRuns, Zenon
<1> DEFINE first == Pay!Then(Pay!CameraAcquired(h), Pay!CameraConfigured)
<1>4. ASSUME NEW b \in first PROVE Runs(b.helper)
  BY <1>1, <1>2, <1>4, Zenon DEF Pay!Then
<1>5. a \in Pay!Then(first, Pay!CameraStarted)
  BY Zenon DEF Pay!CameraPrepare
<1> HIDE DEF first
<1> QED
  BY <1>3, <1>4, <1>5, Zenon DEF Pay!Then

\* LibcameraPiCameraDriver::captureStill keeps to the helper it runs in.
LEMMA CaptureRuns ==
  ASSUME NEW h, Runs(h), NEW a \in Pay!CameraCapture(h)
  PROVE  Runs(a.helper)
<1>1. ASSUME NEW b \in Pay!FrameTaken(h) PROVE b.helper = h
  BY <1>1 DEF Pay!FrameTaken, Pay!Answer
<1>2. ASSUME NEW g, NEW b \in Pay!FilesWritten(g) PROVE b.helper = g
  BY <1>2 DEF Pay!FilesWritten, Pay!Answer
<1> QED
  BY <1>1, <1>2, Zenon DEF Pay!CameraCapture, Pay!Then

\* The requests of the client.
Requests == {"GET_CAPABILITIES", "PREPARE", "CAPTURE", "SHUTDOWN", "REGISTER"}

\* So does every request the helper serves.
LEMMA ServedRuns ==
  ASSUME NEW h, Runs(h), NEW op \in Requests, NEW a \in Pay!Served(h, op)
  PROVE  /\ Runs(a.helper)
         /\ op = "GET_CAPABILITIES" => a.helper = h
<1>1. CASE op = "GET_CAPABILITIES"
  BY <1>1 DEF Pay!Served, Pay!Answer
<1>2. CASE op = "PREPARE"
  <2>1. a \in Pay!CameraPrepare(h) \/ a \in Pay!StubPrepare(h)
    BY <1>2 DEF Pay!Served
  <2> QED
    BY <1>2, <2>1, PrepareRuns DEF Pay!StubPrepare, Pay!Answer
<1>3. CASE op = "CAPTURE"
  <2>1. a \in Pay!CameraCapture(h) \/ a \in Pay!StubCapture(h)
    BY <1>3 DEF Pay!Served
  <2> QED
    BY <1>3, <2>1, CaptureRuns DEF Pay!StubCapture, Pay!Answer
<1>4. CASE op = "SHUTDOWN"
  <2>1. a = Pay!Answer(Pay!Released(h), TRUE)
    BY <1>4 DEF Pay!Served
  <2> QED
    BY <1>4, <2>1, ReleasedRuns DEF Pay!Answer
<1>5. CASE op = "REGISTER"
  <2>1. a = Pay!Answer(h, FALSE) \/ a \in Pay!StubRegister(h)
    BY <1>5 DEF Pay!Served
  <2> QED
    BY <1>5, <2>1 DEF Pay!StubRegister, Pay!Answer
<1> QED
  BY <1>1, <1>2, <1>3, <1>4, <1>5 DEF Requests

\* transactLocked_ ends with at most one helper, however the exchange breaks.
LEMMA TransactKeeps ==
  ASSUME NEW h, HelperOK(h), NEW op \in Requests, NEW c, NEW a \in Pay!Transact(h, op, c)
  PROVE  /\ HelperOK(a.helper)
         /\ op = "GET_CAPABILITIES" /\ h.process # "OPEN" => a.helper.process # "OPEN"
<1>1. PICK e \in Pay!Ensured(h) :
        a \in (IF e.ok THEN Pay!Broken(e.helper) \cup (IF c THEN {} ELSE Pay!Served(e.helper, op))
                       ELSE {e})
  BY Zenon DEF Pay!Transact, Pay!Then
<1>2. HelperOK(e.helper) /\ (h.process # "OPEN" => e.helper.process # "OPEN")
  BY EnsuredRuns
<1>3. CASE ~e.ok
  BY <1>1, <1>2, <1>3
<1>4. CASE e.ok /\ a \in Pay!Broken(e.helper)
  <2>1. PICK k \in Pay!Killed(e.helper) : a = Pay!Answer(k, FALSE)
    BY <1>4, Zenon DEF Pay!Broken
  <2>2. HelperOK(k) /\ k.process = "NONE"
    BY <1>2, KilledIsGone
  <2> QED
    BY <2>1, <2>2 DEF Pay!Answer
<1>5. CASE e.ok /\ a \in Pay!Served(e.helper, op)
  <2>1. Runs(e.helper)
    BY <1>5, EnsuredRuns DEF Runs, HelperOK
  <2>2. Runs(a.helper) /\ (op = "GET_CAPABILITIES" => a.helper = e.helper)
    BY <1>5, <2>1, ServedRuns
  <2> QED
    BY <1>2, <2>2 DEF Runs, HelperOK
<1> QED
  BY <1>1, <1>3, <1>4, <1>5

\* shutdown of the client leaves no helper.
LEMMA ShutdownCloses ==
  ASSUME NEW h, HelperOK(h), NEW a \in Pay!DriverShutdown(h)
  PROVE  HelperOK(a.helper) /\ a.helper.process = "NONE"
<1>1. CASE h.process = "NONE"
  BY <1>1 DEF Pay!DriverShutdown, Pay!Answer
<1>2. CASE h.process # "NONE"
  <2>1. PICK r \in Pay!Transact(h, "SHUTDOWN", FALSE) :
          \E k \in Pay!Killed(r.helper) : a = Pay!Answer(k, r.ok)
    BY <1>2, Zenon DEF Pay!DriverShutdown
  <2>2. PICK k \in Pay!Killed(r.helper) : a = Pay!Answer(k, r.ok)
    BY <2>1
  <2>3. HelperOK(r.helper)
    BY TransactKeeps DEF Requests
  <2>4. HelperOK(k) /\ k.process = "NONE"
    BY <2>3, KilledIsGone
  <2> QED
    BY <2>2, <2>4 DEF Pay!Answer
<1> QED
  BY <1>1, <1>2
-----------------------------------------------------------------------------
(* The flight process: which fields an operator touches. *)

PFields == {"state", "kind", "active", "abort", "forced", "pub", "note", "res", "catalog",
            "captures", "pubs", "busy", "pc", "op", "cancel", "prepared", "asserted", "settings",
            "req", "index", "result", "done", "helper", "raw", "manifest", "queue"}
PubFields == {"active", "id", "index", "kind", "entry", "next", "expected", "ticks", "after"}

\* y is x but for some fields.
SameP(x, y, but) == DOMAIN y = PFields /\ \A f \in PFields \ but : y[f] = x[f]

PubShape(p) == p = Pay!NoPublish \/ (DOMAIN p = PubFields /\ p.active = TRUE)

Shape(x) == DOMAIN x = PFields /\ PubShape(x.pub)

\* The state of the controller once the publish in progress, if any, is over.
Phase(x) == IF x.pub.active THEN x.pub.after ELSE x.state

\* What the steps of a publish write.
PublishFields == {"state", "pub", "note", "catalog", "manifest", "pubs", "queue", "active"}

\* y is x after steps of a publish that ends, or will end, in a given phase.
PublishedTo(x, y, phase) ==
  /\ SameP(x, y, PublishFields) /\ PubShape(y.pub)
  /\ Phase(y) = phase
  /\ y.pub.active => y.state = "PUBLISHING"

\* A publish in progress shows in the controller's state.
Shown(x) == Shape(x) /\ (x.pub.active => x.state = "PUBLISHING")

\* publishNextPendingDataProductSlice_.
LEMMA SendSliceEffect ==
  ASSUME NEW x, Shown(x), x.pub.active
  PROVE  /\ PublishedTo(x, Pay!SendSlice(x), Phase(x))
         /\ SameP(x, Pay!SendSlice(x), {"pub", "queue"})
         /\ Pay!SendSlice(x).pub = [x.pub EXCEPT !.next = x.pub.next + 1, !.ticks = PublishTicks]
         /\ Pay!SendSlice(x).queue = Append(x.queue, [id |-> x.pub.id, slice |-> x.pub.next + 1])
<1> DEFINE y == Pay!SendSlice(x)
           k == x.pub.next + 1
<1>0. DOMAIN x = PFields /\ DOMAIN x.pub = PubFields /\ x.pub.active = TRUE /\ x.state = "PUBLISHING"
  BY DEF Shown, Shape, PubShape, Pay!NoPublish
<1>1. y = [x EXCEPT !.pub = [[x.pub EXCEPT !.next = k] EXCEPT !.ticks = PublishTicks],
                    !.queue = Append(x.queue, [id |-> x.pub.id, slice |-> k])]
  BY <1>0 DEF Pay!SendSlice, PFields
<1>2. SameP(x, y, {"pub", "queue"})
  BY <1>0, <1>1, Zenon DEF SameP
<1>3. /\ y.pub = [[x.pub EXCEPT !.next = k] EXCEPT !.ticks = PublishTicks]
      /\ y.queue = Append(x.queue, [id |-> x.pub.id, slice |-> k])
  BY <1>0, <1>1 DEF PFields
<1>4. y.state = "PUBLISHING"
  BY <1>0, <1>2, Zenon DEF SameP, PFields
<1>5. /\ DOMAIN y.pub = PubFields /\ y.pub.active = TRUE /\ y.pub.after = x.pub.after
  BY <1>0, <1>3 DEF PubFields
<1>6. y.pub = [x.pub EXCEPT !.next = k, !.ticks = PublishTicks]
  BY <1>3, Zenon
<1>7. SameP(x, y, PublishFields)
  BY <1>2, Zenon DEF SameP, PublishFields
<1> HIDE DEF y
<1>8. Phase(y) = Phase(x)
  BY <1>0, <1>5 DEF Phase
<1>9. PublishedTo(x, y, Phase(x))
  BY <1>4, <1>5, <1>7, <1>8, Zenon DEF PublishedTo, PubShape
<1> QED
  BY <1>2, <1>3, <1>6, <1>9, Zenon DEF y

\* finalizeDataProductPublishSuccess_ and ...Failure_.
LEMMA FinalizeEffect ==
  ASSUME NEW x, Shown(x), x.pub.active, NEW ok \in BOOLEAN
  PROVE  LET y == Pay!Finalize(x, ok)
             e == [x.pub.entry EXCEPT !.published[x.pub.kind] = ok]
         IN  /\ PublishedTo(x, y, Phase(x))
             /\ y.pub = Pay!NoPublish /\ y.note = Pay!NoNote
             /\ y.catalog = [x.catalog EXCEPT ![x.pub.index] = e]
             /\ y.manifest = [x.manifest EXCEPT ![x.pub.index] = e]
             /\ y.pubs = x.pubs /\ y.queue = x.queue
<1> DEFINE y == Pay!Finalize(x, ok)
           e == [x.pub.entry EXCEPT !.published[x.pub.kind] = ok]
<1>0. DOMAIN x = PFields
  BY DEF Shown, Shape
<1>1. y = [x EXCEPT !.catalog = [x.catalog EXCEPT ![x.pub.index] = e],
                    !.manifest = [x.manifest EXCEPT ![x.pub.index] = e],
                    !.state = x.pub.after, !.pub = Pay!NoPublish, !.note = Pay!NoNote,
                    !.active = "NONE"]
  BY <1>0 DEF Pay!Finalize, PFields
<1> HIDE DEF e
<1>2. SameP(x, y, PublishFields)
  BY <1>0, <1>1, Zenon DEF SameP, PublishFields
<1>3. /\ y.pub = Pay!NoPublish /\ y.note = Pay!NoNote
      /\ y.catalog = [x.catalog EXCEPT ![x.pub.index] = e]
      /\ y.manifest = [x.manifest EXCEPT ![x.pub.index] = e]
      /\ y.pubs = x.pubs /\ y.queue = x.queue /\ y.state = x.pub.after
  BY <1>0, <1>1 DEF PFields
<1>4. ~y.pub.active
  BY <1>3 DEF Pay!NoPublish
<1> HIDE DEF y
<1>5. PublishedTo(x, y, Phase(x))
  BY <1>2, <1>3, <1>4, Zenon DEF PublishedTo, Phase, PubShape
<1> QED
  BY <1>3, <1>5, Zenon DEF y, e

\* startArtifactPublish_ as far as opening the publish.
LEMMA OpenedEffect ==
  ASSUME NEW x, DOMAIN x = PFields, NEW i, NEW entry, NEW kind, NEW after
  PROVE  LET y == Pay!Opened(x, i, entry, kind, after)
             e == [entry EXCEPT !.product[kind] = x.pubs + 1, !.published[kind] = FALSE]
         IN  /\ PublishedTo(x, y, after) /\ y.pub.active
             /\ y.pub = [active |-> TRUE, id |-> x.pubs + 1, index |-> i, kind |-> kind,
                         entry |-> e, next |-> 0, expected |-> 1 .. Slices[kind],
                         ticks |-> PublishTicks, after |-> after]
             /\ y.catalog = [x.catalog EXCEPT ![i] = e]
             /\ y.manifest = [x.manifest EXCEPT ![i] = e]
             /\ y.pubs = x.pubs + 1 /\ y.queue = x.queue /\ y.note = x.note
<1> DEFINE y == Pay!Opened(x, i, entry, kind, after)
           e == [entry EXCEPT !.product[kind] = x.pubs + 1, !.published[kind] = FALSE]
           p == [active |-> TRUE, id |-> x.pubs + 1, index |-> i, kind |-> kind,
                 entry |-> e, next |-> 0, expected |-> 1 .. Slices[kind],
                 ticks |-> PublishTicks, after |-> after]
<1>0. /\ Pay!Planned(entry, kind, x.pubs + 1).entry = e
      /\ Pay!Planned(entry, kind, x.pubs + 1).expected = 1 .. Slices[kind]
  BY DEF Pay!Planned
<1>1. y = [x EXCEPT !.pubs = x.pubs + 1, !.catalog = [x.catalog EXCEPT ![i] = e],
                    !.manifest = [x.manifest EXCEPT ![i] = e],
                    !.state = "PUBLISHING", !.pub = p]
  BY <1>0 DEF Pay!Opened, PFields
<1>2. DOMAIN p = PubFields /\ p.active = TRUE /\ p.after = after
  BY DEF PubFields
<1> HIDE DEF e, p
<1>3. SameP(x, y, PublishFields)
  BY <1>1, Zenon DEF SameP, PublishFields
<1>4. /\ y.pub = p /\ y.catalog = [x.catalog EXCEPT ![i] = e]
      /\ y.manifest = [x.manifest EXCEPT ![i] = e]
      /\ y.pubs = x.pubs + 1 /\ y.queue = x.queue /\ y.note = x.note /\ y.state = "PUBLISHING"
  BY <1>1 DEF PFields
<1> HIDE DEF y
<1>5. PublishedTo(x, y, after) /\ y.pub.active
  BY <1>2, <1>3, <1>4, Zenon DEF PublishedTo, Phase, PubShape
<1> QED
  BY <1>4, <1>5, Zenon DEF y, e, p

\* startArtifactPublish_, however far it gets.
LEMMA StartPublishEffect ==
  ASSUME NEW x, Shown(x), ~x.pub.active, NEW i, NEW entry, NEW kind, NEW after,
         NEW outcome \in Pay!PublishOutcomes
  PROVE  LET y == Pay!StartPublish(x, i, entry, kind, after, outcome)
         IN  /\ PublishedTo(x, y, after) \/ PublishedTo(x, y, x.state)
             /\ outcome = "SENT" => PublishedTo(x, y, after)
             /\ outcome # "SENT" => y.pub = Pay!NoPublish
<1> DEFINE y == Pay!StartPublish(x, i, entry, kind, after, outcome)
           o == Pay!Opened(x, i, entry, kind, after)
<1>0. DOMAIN x = PFields /\ x.pub = Pay!NoPublish
  BY DEF Shown, Shape, PubShape
<1>1. PublishedTo(x, o, after) /\ o.pub.active
  BY <1>0, OpenedEffect, Zenon
<1>2. Shown(o) /\ Phase(o) = after
  BY <1>1, Zenon DEF PublishedTo, SameP, Shown, Shape
<1> HIDE DEF o
<1>3. ASSUME NEW z, PublishedTo(o, z, Phase(o)) PROVE PublishedTo(x, z, after)
  <2>1. SameP(x, z, PublishFields)
    BY <1>1, <1>3, Zenon DEF PublishedTo, SameP
  <2> QED
    BY <1>2, <1>3, <2>1, Zenon DEF PublishedTo
<1>4. CASE outcome = "SENT"
  <2>1. y = Pay!SendSlice(o)
    BY <1>4 DEF Pay!StartPublish, o
  <2>2. PublishedTo(o, Pay!SendSlice(o), Phase(o))
    BY <1>1, <1>2, SendSliceEffect, Zenon
  <2> QED
    BY <1>3, <1>4, <2>1, <2>2, Zenon
<1>5. CASE outcome = "UNREADABLE"
  <2>1. y = x
    BY <1>5 DEF Pay!StartPublish
  <2>2. PublishedTo(x, x, x.state)
    BY <1>0, Zenon DEF PublishedTo, SameP, Phase, Shown, Shape
  <2> QED
    BY <1>0, <1>5, <2>1, <2>2, Zenon
<1>6. CASE outcome = "MANIFEST_FAILED"
  <2>1. y = [x EXCEPT !.pubs = o.pubs, !.catalog = o.catalog,
                      !.manifest = [x.manifest EXCEPT ![i] = Pay!Torn]]
    BY <1>0, <1>6 DEF Pay!StartPublish, PFields, o
  <2>2. SameP(x, y, PublishFields)
    BY <1>0, <2>1, Zenon DEF SameP, PublishFields
  <2>3. y.pub = x.pub /\ y.state = x.state
    BY <1>0, <2>1 DEF PFields
  <2> HIDE DEF y
  <2>4. PublishedTo(x, y, x.state)
    BY <1>0, <2>2, <2>3, Zenon DEF PublishedTo, Phase, Shown, Shape
  <2> QED
    BY <1>0, <1>6, <2>3, <2>4, Zenon DEF y
<1>7. CASE outcome = "NO_BUFFER"
  <2>1. y = Pay!Finalize(o, FALSE)
    BY <1>7 DEF Pay!StartPublish, o
  <2>2. PublishedTo(o, Pay!Finalize(o, FALSE), Phase(o)) /\ Pay!Finalize(o, FALSE).pub = Pay!NoPublish
    <3> DEFINE ok == FALSE
    <3>1. ok \in BOOLEAN
      OBVIOUS
    <3> HIDE DEF ok
    <3>2. PublishedTo(o, Pay!Finalize(o, ok), Phase(o)) /\ Pay!Finalize(o, ok).pub = Pay!NoPublish
      BY <1>1, <1>2, <3>1, FinalizeEffect, Zenon
    <3> QED
      BY <3>2 DEF ok
  <2> QED
    BY <1>3, <1>7, <2>1, <2>2, Zenon
<1> QED
  BY <1>4, <1>5, <1>6, <1>7, Zenon DEF Pay!PublishOutcomes

\* The rest of a tick: a confirmed slice and the countdown.
LEMMA WriteCompletionEffect ==
  ASSUME NEW x, Shown(x), NEW sent
  PROVE  PublishedTo(x, Pay!WriteCompletion(x, sent), Phase(x))
<1> DEFINE y == [x EXCEPT !.note = Pay!NoNote]
           z == [y EXCEPT !.pub.expected = @ \ {x.pub.next}, !.pub.ticks = PublishTicks]
           w == Pay!WriteCompletion(x, sent)
<1>0. DOMAIN x = PFields
  BY DEF Shown, Shape
<1>1. SameP(x, y, {"note"})
  BY <1>0, Zenon DEF SameP
<1>2. y.pub = x.pub /\ y.state = x.state
  BY <1>1, Zenon DEF SameP, PFields
<1>3. PublishedTo(x, y, Phase(x)) /\ Shown(y)
  <2>1. SameP(x, y, PublishFields)
    BY <1>1, Zenon DEF SameP, PublishFields
  <2> HIDE DEF y
  <2>2. Phase(y) = Phase(x)
    BY <1>2, Zenon DEF Phase
  <2> QED
    BY <1>2, <2>1, <2>2, Zenon DEF PublishedTo, Shown, Shape, SameP
<1>4. CASE x.note = Pay!NoNote \/ ~Pay!Confirms(x.pub, x.note)
  <2>1. w = y
    BY <1>4 DEF Pay!WriteCompletion
  <2> QED
    BY <1>3, <2>1, Zenon
<1>5. CASE ~(x.note = Pay!NoNote \/ ~Pay!Confirms(x.pub, x.note))
  <2>0. x.pub.active /\ DOMAIN x.pub = PubFields /\ x.state = "PUBLISHING"
    BY <1>5 DEF Pay!Confirms, Shown, Shape, PubShape, Pay!NoPublish
  <2>1. z = [y EXCEPT !.pub = [[x.pub EXCEPT !.expected = x.pub.expected \ {x.pub.next}]
                                 EXCEPT !.ticks = PublishTicks]]
    BY <1>0, <1>2 DEF PFields
  <2>2. SameP(y, z, {"pub"})
    BY <1>1, <2>1, Zenon DEF SameP
  <2>3. z.pub = [[x.pub EXCEPT !.expected = x.pub.expected \ {x.pub.next}] EXCEPT !.ticks = PublishTicks]
    BY <1>0, <2>1 DEF PFields
  <2> HIDE DEF y, z
  <2>4. DOMAIN z.pub = PubFields /\ z.pub.active = TRUE /\ z.pub.after = x.pub.after
    BY <2>0, <2>3 DEF PubFields, Shown, Shape, PubShape, Pay!NoPublish
  <2>5. z.state = "PUBLISHING"
    BY <1>2, <2>0, <2>2, Zenon DEF SameP, PFields
  <2>6. Phase(z) = Phase(x)
    BY <2>0, <2>4 DEF Phase
  <2>7. SameP(x, z, PublishFields)
    BY <1>1, <2>2, Zenon DEF SameP, PublishFields
  <2>8. PublishedTo(x, z, Phase(x)) /\ Shown(z)
    BY <2>4, <2>5, <2>6, <2>7, Zenon DEF PublishedTo, PubShape, Shown, Shape, SameP
  <2>9. w \in {z, Pay!SendSlice(z), Pay!Finalize(z, FALSE), Pay!Finalize(z, TRUE)}
    BY <1>5 DEF Pay!WriteCompletion, y, z
  <2>10. ASSUME NEW v, PublishedTo(z, v, Phase(z)) PROVE PublishedTo(x, v, Phase(x))
    <3>1. SameP(x, v, PublishFields)
      BY <2>7, <2>10, Zenon DEF PublishedTo, SameP
    <3> QED
      BY <2>6, <2>10, <3>1, Zenon DEF PublishedTo
  <2>11. z.pub.active
    BY <2>4
  <2> QED
    BY <2>8, <2>9, <2>10, <2>11, SendSliceEffect, FinalizeEffect, Zenon
<1> QED
  BY <1>4, <1>5, Zenon

\* The countdown of a publish ends it or goes on.
LEMMA PublishTimeoutEffect ==
  ASSUME NEW x, Shown(x)
  PROVE  PublishedTo(x, Pay!PublishTimeout(x), Phase(x))
<1> DEFINE w == Pay!PublishTimeout(x)
           z == [x EXCEPT !.pub.ticks = @ - 1]
<1>0. DOMAIN x = PFields
  BY DEF Shown, Shape
<1>1. CASE w = x
  BY <1>0, <1>1, Zenon DEF PublishedTo, SameP, Shown, Shape
<1>2. CASE x.pub.active /\ w = Pay!Finalize(x, FALSE)
  <2> DEFINE ok == FALSE
  <2>1. ok \in BOOLEAN
    OBVIOUS
  <2> HIDE DEF ok
  <2>2. PublishedTo(x, Pay!Finalize(x, ok), Phase(x))
    BY <1>2, <2>1, FinalizeEffect, Zenon
  <2> QED
    BY <1>2, <2>2 DEF ok
<1>3. CASE x.pub.active /\ w = z
  <2>0. DOMAIN x.pub = PubFields /\ x.pub.active = TRUE /\ x.state = "PUBLISHING"
    BY <1>3 DEF Shown, Shape, PubShape, Pay!NoPublish
  <2>1. z = [x EXCEPT !.pub = [x.pub EXCEPT !.ticks = x.pub.ticks - 1]]
    BY <1>0
  <2>2. SameP(x, z, PublishFields)
    BY <1>0, <2>1, Zenon DEF SameP, PublishFields
  <2>3. z.pub = [x.pub EXCEPT !.ticks = x.pub.ticks - 1] /\ z.state = x.state
    BY <1>0, <2>1 DEF PFields
  <2>4. DOMAIN z.pub = PubFields /\ z.pub.active = TRUE /\ z.pub.after = x.pub.after
    BY <2>0, <2>3 DEF PubFields
  <2> HIDE DEF z
  <2>5. Phase(z) = Phase(x)
    BY <2>0, <2>4 DEF Phase
  <2> QED
    BY <1>3, <2>0, <2>2, <2>3, <2>4, <2>5, Zenon DEF PublishedTo, PubShape
<1>4. w = x \/ (x.pub.active /\ w = Pay!Finalize(x, FALSE)) \/ (x.pub.active /\ w = z)
  BY Zenon DEF Pay!PublishTimeout
<1> QED
  BY <1>1, <1>2, <1>3, <1>4, Zenon
-----------------------------------------------------------------------------
(* The camera: the inductive invariant of CameraFollowsState. *)

Steady == {"OFF", "READY", "FAULT"}

\* A settled READY holds a session; a settled OFF or FAULT has let it go.
Held(x, r) ==
  x.prepared /\ x.asserted /\ r = TRUE /\ x.settings = [kind |-> x.kind, res |-> x.res]
LetGo(x) == ~x.prepared /\ x.helper.process # "OPEN"

Fits(x, r) ==
  /\ Phase(x) \in Steady
  /\ IF Phase(x) = "READY" THEN Held(x, r) ELSE LetGo(x)

\* What a session of the defaults in force looks like.
SessionOf(x) == [kind : Pay!ReadyKinds, res : {x.res}]

Opens(x) == x.op \in {"PREPARE", "CAPTURE"}
Succeeded(x) == Opens(x) /\ x.result = "OK"

\* The manager at work: the rail is on from the settle delay to the driver's
\* answer, the settings asked for are those in force, and the result that waits
\* to be polled describes the session.
Works(x, r) ==
  /\ x.op \in {"PREPARE", "CAPTURE", "SHUTDOWN", "ABORT"}
  /\ Opens(x) => x.req \in SessionOf(x)
  /\ x.done <=> x.pc = "IDLE"
  /\ x.pc \in {"POWER", "SETTLE"} => x.op = "PREPARE"
  /\ x.pc = "UNDO" => Opens(x)
  /\ x.pc = "POWER" => x.helper.process # "OPEN"
  /\ x.pc = "SETTLE" \/ (x.pc = "DRIVE" /\ Opens(x)) => r = TRUE
  /\ x.done /\ Succeeded(x) =>
       x.prepared /\ x.asserted /\ r = TRUE /\ x.settings \in SessionOf(x)
  /\ x.done /\ ~Succeeded(x) => LetGo(x)

Rests(x, r) == x.pc = "IDLE" /\ ~x.done /\ Fits(x, r)

Cam(x, r) ==
  /\ Shown(x) /\ HelperOK(x.helper) /\ x.kind \in Pay!ReadyKinds
  /\ x.pub.active => ~x.busy
  /\ x.busy => Works(x, r)
  /\ ~x.busy => Rests(x, r)

\* Steps of a publish that keep the phase keep all this.
LEMMA PublishKeepsCam ==
  ASSUME NEW x, NEW y, NEW r, Cam(x, r), PublishedTo(x, y, Phase(x)),
         x.busy => y.pub = x.pub
  PROVE  Cam(y, r)
<1>1. /\ y.helper = x.helper /\ y.kind = x.kind /\ y.busy = x.busy /\ y.op = x.op /\ y.req = x.req
      /\ y.done = x.done /\ y.pc = x.pc /\ y.result = x.result /\ y.prepared = x.prepared
      /\ y.asserted = x.asserted /\ y.settings = x.settings /\ y.res = x.res
  BY Zenon DEF PublishedTo, SameP, PFields, PublishFields
<1>2. Shown(y) /\ Phase(y) = Phase(x)
  BY Zenon DEF PublishedTo, SameP, Shown, Shape
<1>3. (x.busy => Works(y, r)) /\ (~x.busy => Rests(y, r))
  BY <1>1, <1>2, Zenon DEF Cam, Works, Rests, Opens, Succeeded, SessionOf, LetGo, Fits, Held
<1>4. HelperOK(y.helper) /\ y.kind \in Pay!ReadyKinds
  BY <1>1, Zenon DEF Cam
<1>5. y.pub.active => ~y.busy
  BY <1>1, Zenon DEF Cam
<1> QED
  BY <1>1, <1>2, <1>3, <1>4, <1>5, Zenon DEF Cam

\* y is x with an operation begun.
Begun(x, y, op, req) ==
  /\ DOMAIN y = PFields /\ y.busy /\ y.op = op /\ y.req = req /\ ~y.done
  /\ y.pc = IF op = "PREPARE" THEN "POWER" ELSE "DRIVE"
  /\ y.pub = x.pub /\ y.helper = x.helper /\ y.res = x.res /\ y.kind \in Pay!ReadyKinds

MayBegin(x, r, op, req) ==
  /\ ~x.pub.active /\ op \in {"PREPARE", "CAPTURE", "SHUTDOWN", "ABORT"}
  /\ op \in {"PREPARE", "CAPTURE"} => req \in SessionOf(x)
  /\ op = "PREPARE" => x.helper.process # "OPEN"
  /\ op = "CAPTURE" => r = TRUE

\* beginPrepare, beginCapture and beginShutdown, with what the handler sets.
LEMMA BeginKeepsCam ==
  ASSUME NEW x, NEW y, NEW r, NEW op, NEW req, Cam(x, r), MayBegin(x, r, op, req),
         Begun(x, y, op, req)
  PROVE  Cam(y, r)
<1>1. Works(y, r)
  BY DEF Works, Opens, Succeeded, SessionOf, MayBegin, Begun
<1>2. Shown(y) /\ HelperOK(y.helper)
  BY Zenon DEF Cam, Shown, Shape, MayBegin, Begun
<1> QED
  BY <1>1, <1>2, Zenon DEF Cam, MayBegin, Begun

\* requestAbort during an operation: only the helper and the flags change.
LEMMA AbortKeepsCam ==
  ASSUME NEW x, NEW y, NEW r, Cam(x, r), x.busy,
         SameP(x, y, {"forced", "state", "cancel", "abort", "helper"}),
         y.helper \in Pay!Killed(x.helper)
  PROVE  Cam(y, r)
<1>1. /\ y.kind = x.kind /\ y.busy = x.busy /\ y.op = x.op /\ y.req = x.req /\ y.pub = x.pub
      /\ y.done = x.done /\ y.pc = x.pc /\ y.result = x.result /\ y.prepared = x.prepared
      /\ y.asserted = x.asserted /\ y.settings = x.settings /\ y.res = x.res
  BY Zenon DEF SameP, PFields
<1>2. HelperOK(x.helper)
  BY Zenon DEF Cam
<1>3. HelperOK(y.helper) /\ y.helper.process = "NONE"
  BY <1>2, KilledIsGone, Zenon
<1>4. y.helper.process # "OPEN"
  BY <1>3
<1>5. Works(x, r) /\ ~x.pub.active /\ PubShape(x.pub)
  BY Zenon DEF Cam, Shown, Shape
<1>6. Works(y, r)
  BY <1>1, <1>4, <1>5, Zenon DEF Works, Opens, Succeeded, SessionOf, LetGo
<1>7. Shown(y)
  BY <1>1, <1>5, Zenon DEF Shown, Shape, SameP
<1> QED
  BY <1>1, <1>3, <1>5, <1>6, <1>7, Zenon DEF Cam

\* startForcedCleanupIfNeeded_.
LEMMA CleanupKeepsCam ==
  ASSUME NEW x, NEW r, Cam(x, r), NEW y \in Pay!ForcedCleanup(x)
  PROVE  Cam(y, r)
<1> DEFINE z == [x EXCEPT !.forced = TRUE, !.state = "ABORTING"]
<1>0. DOMAIN x = PFields
  BY Zenon DEF Cam, Shown, Shape
<1>1. SameP(x, z, {"forced", "state"})
  BY <1>0, Zenon DEF SameP
<1>2. \/ y = x
      \/ x.busy /\ y \in Pay!RequestAbort(z)
      \/ ~x.busy /\ ~x.pub.active /\ y = Pay!Begin(z, "ABORT", Pay!NoSettings)
  BY Zenon DEF Pay!ForcedCleanup
<1> HIDE DEF z
<1>3. CASE y = x
  BY <1>3
<1>4. CASE x.busy /\ y \in Pay!RequestAbort(z)
  <2>1. PICK k \in Pay!Killed(z.helper) : y = [z EXCEPT !.cancel = TRUE, !.helper = k]
    BY <1>4, Zenon DEF Pay!RequestAbort, Pay!DriverAbort
  <2>2. SameP(x, y, {"forced", "state", "cancel", "abort", "helper"})
    BY <1>1, <2>1, Zenon DEF SameP
  <2>3. y.helper = k /\ z.helper = x.helper
    BY <1>1, <2>1 DEF SameP, PFields
  <2>4. y.helper \in Pay!Killed(x.helper)
    BY <2>3, Zenon
  <2> QED
    BY <1>4, <2>2, <2>4, AbortKeepsCam, Zenon
<1>5. CASE ~x.busy /\ ~x.pub.active /\ y = Pay!Begin(z, "ABORT", Pay!NoSettings)
  <2>1. DOMAIN z = PFields /\ z.pub = x.pub /\ z.helper = x.helper /\ z.res = x.res /\ z.kind = x.kind
    BY <1>1, Zenon DEF SameP, PFields
  <2>2. x.kind \in Pay!ReadyKinds
    BY Zenon DEF Cam
  <2>3. Begun(x, y, "ABORT", Pay!NoSettings)
    BY <1>5, <2>1, <2>2 DEF Pay!Begin, PFields, Begun
  <2>4. MayBegin(x, r, "ABORT", Pay!NoSettings)
    BY <1>5 DEF MayBegin
  <2> QED
    BY <2>3, <2>4, BeginKeepsCam, Zenon
<1> QED
  BY <1>2, <1>3, <1>4, <1>5, Zenon

\* y is x after handleCompletedOperation_, with or without a publish.
Ended(x, y) ==
  /\ DOMAIN y = PFields /\ PubShape(y.pub)
  /\ y.helper = x.helper /\ y.pc = x.pc /\ y.res = x.res
  /\ y.prepared = x.prepared /\ y.asserted = x.asserted /\ y.settings = x.settings
  /\ y.kind = IF Succeeded(x) THEN x.settings.kind ELSE x.kind
  /\ ~y.busy /\ ~y.done
  /\ Phase(y) = Pay!StateAfter(x)
  /\ y.pub.active => y.state = "PUBLISHING"

\* The manager as pollCompletion leaves it.
PolledOnly(x) ==
  [x EXCEPT !.busy = FALSE, !.done = FALSE, !.op = "NONE", !.cancel = FALSE,
            !.req = Pay!NoSettings, !.result = "NONE", !.index = 0,
            !.kind = IF x.result = "OK" /\ x.op \in {"PREPARE", "CAPTURE"}
                       THEN x.settings.kind ELSE @,
            !.catalog = IF x.op = "CAPTURE"
                          THEN [@ EXCEPT ![x.index] = Pay!Entry(x.captures)] ELSE @]

EndedAs(x, y) ==
  [y EXCEPT !.state = Pay!StateAfter(x), !.active = "NONE", !.abort = FALSE, !.forced = FALSE]

\* The three ways out of handleCompletedOperation_.
LEMMA CompletedCases ==
  ASSUME NEW x, NEW outcome \in Pay!PublishOutcomes
  PROVE  LET p == PolledOnly(x)
             e == Pay!Entry(x.captures)
             t == Pay!StartPublish(p, x.index, e, "PREVIEW_JPEG", "READY", outcome)
             y == Pay!Completed(x, outcome)
         IN  \/ x.op = "CAPTURE" /\ x.result = "OK" /\ outcome = "SENT" /\ y = t
             \/ x.op = "CAPTURE" /\ x.result = "OK" /\ outcome # "SENT"
                /\ y = EndedAs(x, [t EXCEPT !.catalog[x.index] = e, !.manifest[x.index] = e])
             \/ ~(x.op = "CAPTURE" /\ x.result = "OK") /\ y = EndedAs(x, p)
BY Zenon DEF Pay!Completed, Pay!PreviewPublish, PolledOnly, EndedAs

\* What pollCompletion leaves alone.
LEMMA PolledOnlyEffect ==
  ASSUME NEW x, DOMAIN x = PFields
  PROVE  LET p == PolledOnly(x)
         IN  /\ SameP(x, p, {"busy", "done", "op", "cancel", "req", "result", "index", "kind",
                             "catalog"})
             /\ p.busy = FALSE /\ p.done = FALSE
             /\ p.kind = IF Succeeded(x) THEN x.settings.kind ELSE x.kind
             /\ p.catalog = IF x.op = "CAPTURE"
                              THEN [x.catalog EXCEPT ![x.index] = Pay!Entry(x.captures)]
                              ELSE x.catalog
<1> DEFINE p == PolledOnly(x)
<1>1. SameP(x, p, {"busy", "done", "op", "cancel", "req", "result", "index", "kind", "catalog"})
  BY Zenon DEF SameP, PolledOnly
<1>2. /\ p.busy = FALSE /\ p.done = FALSE
      /\ p.kind = IF Succeeded(x) THEN x.settings.kind ELSE x.kind
      /\ p.catalog = IF x.op = "CAPTURE"
                       THEN [x.catalog EXCEPT ![x.index] = Pay!Entry(x.captures)]
                       ELSE x.catalog
  BY DEF PolledOnly, PFields, Succeeded, Opens
<1> QED
  BY <1>1, <1>2, Zenon

\* handleCompletedOperation_ with a result and no publish in progress.
LEMMA CompletedEnds ==
  ASSUME NEW x, Shown(x), ~x.pub.active, NEW outcome \in Pay!PublishOutcomes
  PROVE  Ended(x, Pay!Completed(x, outcome))
<1> DEFINE p == PolledOnly(x)
           e == Pay!Entry(x.captures)
           t == Pay!StartPublish(p, x.index, e, "PREVIEW_JPEG", "READY", outcome)
           y == Pay!Completed(x, outcome)
           Frame(z) == /\ DOMAIN z = PFields
                       /\ z.helper = x.helper /\ z.pc = x.pc /\ z.res = x.res
                       /\ z.prepared = x.prepared /\ z.asserted = x.asserted
                       /\ z.settings = x.settings
                       /\ z.kind = (IF Succeeded(x) THEN x.settings.kind ELSE x.kind)
                       /\ ~z.busy /\ ~z.done
<1>0. DOMAIN x = PFields /\ x.pub = Pay!NoPublish
  BY DEF Shown, Shape, PubShape
<1>1. SameP(x, p, {"busy", "done", "op", "cancel", "req", "result", "index", "kind", "catalog"})
  BY <1>0, PolledOnlyEffect, Zenon
<1>2. p.busy = FALSE /\ p.done = FALSE /\ p.kind = IF Succeeded(x) THEN x.settings.kind ELSE x.kind
  BY <1>0, PolledOnlyEffect, Zenon
<1>3. \/ x.op = "CAPTURE" /\ x.result = "OK" /\ outcome = "SENT" /\ y = t
      \/ outcome # "SENT" /\ y = EndedAs(x, [t EXCEPT !.catalog[x.index] = e, !.manifest[x.index] = e])
      \/ y = EndedAs(x, p)
  BY CompletedCases, Zenon
<1> HIDE DEF p
<1>4. Frame(p) /\ p.pub = Pay!NoPublish
  BY <1>0, <1>1, <1>2, Zenon DEF SameP, PFields
<1>5. Shown(p) /\ ~p.pub.active
  <2>1. ~p.pub.active
    BY <1>4 DEF Pay!NoPublish
  <2> QED
    BY <1>4, <2>1, Zenon DEF Shown, Shape, PubShape
<1> HIDE DEF e
<1>6. /\ PublishedTo(p, t, "READY") \/ PublishedTo(p, t, p.state)
      /\ outcome = "SENT" => PublishedTo(p, t, "READY")
      /\ outcome # "SENT" => t.pub = Pay!NoPublish
  BY <1>5, StartPublishEffect, Zenon
<1> HIDE DEF t, y
<1>7. Frame(t)
  <2>1. SameP(p, t, PublishFields)
    BY <1>6, Zenon DEF PublishedTo
  <2>2. /\ DOMAIN t = PFields /\ t.helper = p.helper /\ t.pc = p.pc /\ t.res = p.res
        /\ t.prepared = p.prepared /\ t.asserted = p.asserted /\ t.settings = p.settings
        /\ t.kind = p.kind /\ t.busy = p.busy /\ t.done = p.done
    BY <2>1, Zenon DEF SameP, PFields, PublishFields
  <2> QED
    BY <1>4, <2>2, Zenon
<1>8. ASSUME NEW z, Frame(z), z.pub = Pay!NoPublish PROVE Ended(x, EndedAs(x, z))
  <2> DEFINE v == EndedAs(x, z)
  <2>1. SameP(z, v, {"state", "active", "abort", "forced"})
    BY <1>8, Zenon DEF SameP, EndedAs
  <2>2. v.state = Pay!StateAfter(x) /\ v.pub = Pay!NoPublish
    BY <1>8 DEF EndedAs, PFields
  <2> HIDE DEF v
  <2>3. Frame(v)
    <3>1. /\ DOMAIN v = PFields /\ v.helper = z.helper /\ v.pc = z.pc /\ v.res = z.res
          /\ v.prepared = z.prepared /\ v.asserted = z.asserted /\ v.settings = z.settings
          /\ v.kind = z.kind /\ v.busy = z.busy /\ v.done = z.done
      BY <2>1, Zenon DEF SameP, PFields
    <3> QED
      BY <1>8, <3>1, Zenon
  <2>4. ~v.pub.active
    BY <2>2 DEF Pay!NoPublish
  <2>5. Ended(x, v)
    BY <2>2, <2>3, <2>4, Zenon DEF Ended, Phase, PubShape
  <2> QED
    BY <2>5, Zenon DEF v
<1>9. CASE x.op = "CAPTURE" /\ x.result = "OK" /\ outcome = "SENT" /\ y = t
  <2>1. PublishedTo(p, t, "READY")
    BY <1>6, <1>9, Zenon
  <2>2. Pay!StateAfter(x) = "READY"
    BY <1>9 DEF Pay!StateAfter
  <2>3. Ended(x, t)
    BY <1>7, <2>1, <2>2, Zenon DEF Ended, PublishedTo
  <2> QED
    BY <1>9, <2>3, Zenon DEF y
<1>10. CASE outcome # "SENT" /\ y = EndedAs(x, [t EXCEPT !.catalog[x.index] = e, !.manifest[x.index] = e])
  <2> DEFINE z == [t EXCEPT !.catalog[x.index] = e, !.manifest[x.index] = e]
  <2>0. DOMAIN t = PFields
    BY <1>7, Zenon
  <2>1. SameP(t, z, {"catalog", "manifest"})
    BY <2>0, Zenon DEF SameP
  <2> HIDE DEF z
  <2>2. /\ DOMAIN z = PFields /\ z.helper = t.helper /\ z.pc = t.pc /\ z.res = t.res
        /\ z.prepared = t.prepared /\ z.asserted = t.asserted /\ z.settings = t.settings
        /\ z.kind = t.kind /\ z.busy = t.busy /\ z.done = t.done /\ z.pub = t.pub
    BY <2>1, Zenon DEF SameP, PFields
  <2>3. Frame(z) /\ z.pub = Pay!NoPublish
    BY <1>6, <1>7, <1>10, <2>2, Zenon
  <2>4. Ended(x, EndedAs(x, z))
    BY <1>8, <2>3, Zenon
  <2> QED
    BY <1>10, <2>4, Zenon DEF z, y
<1>11. CASE y = EndedAs(x, p)
  BY <1>4, <1>8, <1>11, Zenon DEF y
<1> QED
  BY <1>3, <1>9, <1>10, <1>11, Zenon

\* The result that is polled tells the state the controller is then in.
LEMMA PolledKeepsCam ==
  ASSUME NEW x, NEW r, Cam(x, r), NEW outcome \in Pay!PublishOutcomes
  PROVE  Cam(Pay!Polled(x, outcome), r)
<1> DEFINE y == Pay!Completed(x, outcome)
<1>1. CASE ~x.done
  BY <1>1, Zenon DEF Pay!Polled
<1>2. CASE x.done
  <2>1. x.busy /\ Works(x, r) /\ ~x.pub.active
    BY <1>2, Zenon DEF Cam, Rests
  <2>2. Shown(x) /\ HelperOK(x.helper) /\ x.kind \in Pay!ReadyKinds
    BY Zenon DEF Cam
  <2>3. Ended(x, y)
    BY <2>1, <2>2, CompletedEnds, Zenon
  <2> HIDE DEF y
  <2>4. y.pc = "IDLE" /\ ~y.done /\ ~y.busy /\ HelperOK(y.helper) /\ Shown(y)
    BY <1>2, <2>1, <2>2, <2>3, Zenon DEF Ended, Works, Shown, Shape
  <2>5. ASSUME Succeeded(x) PROVE Cam(y, r)
    <3>1. x.prepared /\ x.asserted /\ r = TRUE /\ x.settings \in SessionOf(x)
      BY <1>2, <2>1, <2>5, Zenon DEF Works
    <3>2. Pay!StateAfter(x) = "READY"
      BY <2>5 DEF Pay!StateAfter, Succeeded, Opens
    <3>3. y.kind = x.settings.kind /\ y.settings = x.settings /\ y.res = x.res
      BY <2>3, <2>5, Zenon DEF Ended
    <3>4. y.settings = [kind |-> y.kind, res |-> y.res] /\ y.kind \in Pay!ReadyKinds
      BY <3>1, <3>3 DEF SessionOf
    <3>5. y.prepared /\ y.asserted /\ Phase(y) = "READY"
      BY <2>3, <3>1, <3>2, Zenon DEF Ended
    <3>6. Fits(y, r)
      BY <3>1, <3>4, <3>5 DEF Fits, Held, Steady
    <3> QED
      BY <2>4, <3>4, <3>6, Zenon DEF Cam, Rests
  <2>6. ASSUME ~Succeeded(x) PROVE Cam(y, r)
    <3>1. LetGo(x)
      BY <1>2, <2>1, <2>6, Zenon DEF Works
    <3>2. Pay!StateAfter(x) \in {"OFF", "FAULT"}
      BY <2>6 DEF Pay!StateAfter, Succeeded, Opens
    <3>3. y.kind = x.kind /\ LetGo(y) /\ Phase(y) = Pay!StateAfter(x)
      BY <2>3, <2>6, <3>1, Zenon DEF Ended, LetGo
    <3>4. Fits(y, r)
      BY <3>2, <3>3 DEF Fits, Steady
    <3> QED
      BY <2>2, <2>4, <3>3, <3>4, Zenon DEF Cam, Rests
  <2>7. Cam(y, r)
    BY <2>5, <2>6, Zenon
  <2> QED
    BY <1>2, <2>7, Zenon DEF Pay!Polled, y
<1> QED
  BY <1>1, <1>2, Zenon

\* Without a publish in progress the rest of a tick changes nothing of it.
LEMMA QuietTick ==
  ASSUME NEW x, Shown(x), ~x.pub.active, NEW sent
  PROVE  Pay!WriteCompletion(x, sent).pub = x.pub /\ Pay!PublishTimeout(x) = x
<1>1. Pay!WriteCompletion(x, sent) = [x EXCEPT !.note = Pay!NoNote]
  BY DEF Pay!WriteCompletion, Pay!Confirms
<1>2. [x EXCEPT !.note = Pay!NoNote].pub = x.pub
  BY DEF Shown, Shape, PFields
<1>3. Pay!PublishTimeout(x) = x
  BY DEF Pay!PublishTimeout
<1> QED
  BY <1>1, <1>2, <1>3, Zenon

\* schedIn_handler.
LEMMA SchedTickKeepsCam ==
  ASSUME Cam(u, rail), Pay!SchedTick
  PROVE  Cam(u', rail')
<1>1. PICK c \in Pay!ForcedCleanup(u), outcome \in Pay!PublishOutcomes :
        u' = Pay!PublishTimeout(Pay!WriteCompletion(Pay!Polled(c, outcome), outcome # "NO_BUFFER"))
  BY Zenon DEF Pay!SchedTick
<1> DEFINE p == Pay!Polled(c, outcome)
           w == Pay!WriteCompletion(p, outcome # "NO_BUFFER")
<1>2. Cam(c, rail)
  BY CleanupKeepsCam, Zenon
<1>3. Cam(p, rail)
  BY <1>2, PolledKeepsCam, Zenon
<1> HIDE DEF p
<1>4. Shown(p) /\ (p.busy => ~p.pub.active)
  BY <1>3, Zenon DEF Cam
<1>5. PublishedTo(p, w, Phase(p)) /\ (p.busy => w.pub = p.pub)
  BY <1>4, WriteCompletionEffect, QuietTick
<1> HIDE DEF w
<1>6. Cam(w, rail)
  BY <1>3, <1>5, PublishKeepsCam, Zenon
<1>7. Shown(w) /\ (w.busy => ~w.pub.active)
  BY <1>6, Zenon DEF Cam
<1>8. PublishedTo(w, Pay!PublishTimeout(w), Phase(w)) /\ (w.busy => Pay!PublishTimeout(w) = w)
  BY <1>7, PublishTimeoutEffect, QuietTick
<1>9. Cam(Pay!PublishTimeout(w), rail)
  BY <1>6, <1>8, PublishKeepsCam, Zenon
<1>10. u' = Pay!PublishTimeout(w) /\ rail' = rail
  BY <1>1, Zenon DEF w, p, Pay!SchedTick
<1> QED
  BY <1>9, <1>10, Zenon

\* beginPrepareReady_, beginCapture_, PAYLOAD_ABORT and PAYLOAD_SHUTDOWN.
LEMMA OperationKeepsCam ==
  ASSUME Cam(u, rail),
         \/ \E kind \in Pay!ReadyKinds : Pay!Prepare(kind)
         \/ \E i \in Indexes : Pay!CaptureStill(i) \/ Pay!CaptureRaw(i)
         \/ Pay!Abort \/ Pay!Shutdown
  PROVE  Cam(u', rail')
<1>0. DOMAIN u = PFields /\ u.kind \in Pay!ReadyKinds
  BY Zenon DEF Cam, Shown, Shape
<1>1. ASSUME ~Pay!WorkInProgress(u) PROVE ~u.busy /\ ~u.pub.active /\ Phase(u) = u.state /\ Fits(u, rail)
  <2>1. ~u.busy /\ ~u.pub.active
    BY <1>1, Zenon DEF Pay!WorkInProgress
  <2> QED
    BY <2>1, Zenon DEF Phase, Cam, Rests
<1>2. ASSUME NEW kind \in Pay!ReadyKinds, Pay!Prepare(kind) PROVE Cam(u', rail')
  <2> DEFINE req == Pay!PrepareSettings(u, kind)
  <2>1. /\ ~Pay!WorkInProgress(u) /\ u.state # "READY" /\ rail' = rail
        /\ u' = [Pay!Begin(u, "PREPARE", req) EXCEPT !.active = "PREPARE", !.state = "PREPARING",
                                                     !.kind = kind]
    BY <1>2, Zenon DEF Pay!Prepare
  <2>2. u.helper.process # "OPEN"
    BY <1>1, <2>1, Zenon DEF Fits, LetGo
  <2>3. req \in SessionOf(u)
    BY DEF SessionOf, Pay!PrepareSettings
  <2> HIDE DEF req
  <2>4. Begun(u, u', "PREPARE", req)
    BY <1>0, <2>1 DEF Begun, Pay!Begin, PFields
  <2>5. MayBegin(u, rail, "PREPARE", req)
    BY <1>1, <2>1, <2>2, <2>3 DEF MayBegin
  <2> QED
    BY <2>1, <2>4, <2>5, BeginKeepsCam, Zenon
<1>3. ASSUME NEW i \in Indexes, NEW kind \in Pay!ReadyKinds, Pay!Capture(i, kind) PROVE Cam(u', rail')
  <2> DEFINE req == Pay!Resolved(u, kind)
  <2>1. /\ ~Pay!WorkInProgress(u) /\ u.state = "READY" /\ rail' = rail
        /\ u' = [Pay!Begin(u, "CAPTURE", req) EXCEPT !.active = "CAPTURE", !.state = "CAPTURING",
                                                     !.captures = @ + 1, !.index = i]
    BY <1>3, Zenon DEF Pay!Capture
  <2>2. rail = TRUE
    BY <1>1, <2>1, Zenon DEF Fits, Held
  <2>3. req \in SessionOf(u)
    BY DEF SessionOf, Pay!Resolved
  <2> HIDE DEF req
  <2>4. Begun(u, u', "CAPTURE", req)
    BY <1>0, <2>1 DEF Begun, Pay!Begin, PFields
  <2>5. MayBegin(u, rail, "CAPTURE", req)
    BY <1>1, <2>1, <2>2, <2>3 DEF MayBegin
  <2> QED
    BY <2>1, <2>4, <2>5, BeginKeepsCam, Zenon
<1>4. CASE Pay!Abort
  <2>1. /\ ~u.pub.active /\ rail' = rail
        /\ u' \in {[x EXCEPT !.abort = TRUE, !.state = "ABORTING"] :
                     x \in IF u.busy THEN Pay!RequestAbort(u)
                                     ELSE {Pay!Begin(u, "ABORT", Pay!NoSettings)}}
    BY <1>4, Zenon DEF Pay!Abort
  <2>2. PICK x \in IF u.busy THEN Pay!RequestAbort(u) ELSE {Pay!Begin(u, "ABORT", Pay!NoSettings)} :
          u' = [x EXCEPT !.abort = TRUE, !.state = "ABORTING"]
    BY <2>1, Zenon
  <2>3. CASE u.busy
    <3>1. PICK k \in Pay!Killed(u.helper) : x = [u EXCEPT !.cancel = TRUE, !.helper = k]
      BY <2>2, <2>3, Zenon DEF Pay!RequestAbort, Pay!DriverAbort
    <3>2. SameP(u, x, {"cancel", "helper"}) /\ x.helper = k
      BY <1>0, <3>1 DEF SameP, PFields
    <3>3. SameP(u, u', {"forced", "state", "cancel", "abort", "helper"})
      BY <2>2, <3>2, Zenon DEF SameP
    <3>4. u'.helper \in Pay!Killed(u.helper)
      BY <2>2, <3>2 DEF SameP, PFields
    <3> QED
      BY <2>1, <2>3, <3>3, <3>4, AbortKeepsCam, Zenon
  <2>4. CASE ~u.busy
    <3>1. x = Pay!Begin(u, "ABORT", Pay!NoSettings)
      BY <2>2, <2>4
    <3>2. Begun(u, u', "ABORT", Pay!NoSettings)
      BY <1>0, <2>2, <3>1 DEF Begun, Pay!Begin, PFields
    <3>3. MayBegin(u, rail, "ABORT", Pay!NoSettings)
      BY <2>1 DEF MayBegin
    <3> QED
      BY <2>1, <3>2, <3>3, BeginKeepsCam, Zenon
  <2> QED
    BY <2>3, <2>4, Zenon
<1>5. CASE Pay!Shutdown
  <2>1. /\ ~Pay!WorkInProgress(u) /\ rail' = rail
        /\ u' = [Pay!Begin(u, "SHUTDOWN", Pay!NoSettings) EXCEPT !.active = "SHUTDOWN",
                                                                 !.state = "ABORTING"]
    BY <1>5, Zenon DEF Pay!Shutdown
  <2>2. Begun(u, u', "SHUTDOWN", Pay!NoSettings)
    BY <1>0, <2>1 DEF Begun, Pay!Begin, PFields
  <2>3. MayBegin(u, rail, "SHUTDOWN", Pay!NoSettings)
    BY <1>1, <2>1 DEF MayBegin
  <2> QED
    BY <2>1, <2>2, <2>3, BeginKeepsCam, Zenon
<1>6. "READY_NON_RAW" \in Pay!ReadyKinds /\ "READY_RAW_SENSOR" \in Pay!ReadyKinds
  BY Zenon DEF Pay!ReadyKinds
<1> QED
  BY <1>2, <1>3, <1>4, <1>5, <1>6, Zenon DEF Pay!CaptureStill, Pay!CaptureRaw

\* Fields the camera's invariant does not look at.
LEMMA UnseenKeepsCam ==
  ASSUME NEW x, NEW y, NEW r, Cam(x, r),
         SameP(x, y, {"note", "queue", "active", "res"}),
         y.res = x.res \/ (~x.busy /\ Phase(x) # "READY")
  PROVE  Cam(y, r)
<1>1. /\ y.helper = x.helper /\ y.kind = x.kind /\ y.busy = x.busy /\ y.op = x.op /\ y.req = x.req
      /\ y.done = x.done /\ y.pc = x.pc /\ y.result = x.result /\ y.prepared = x.prepared
      /\ y.asserted = x.asserted /\ y.settings = x.settings /\ y.pub = x.pub /\ y.state = x.state
  BY Zenon DEF SameP, PFields
<1>2. Shown(y) /\ Phase(y) = Phase(x)
  BY <1>1, Zenon DEF SameP, Shown, Shape, Phase, Cam
<1>3. x.busy => Works(y, r)
  BY <1>1, Zenon DEF Cam, Works, Opens, Succeeded, SessionOf, LetGo
<1>4. ~x.busy => Rests(y, r)
  BY <1>1, <1>2, Zenon DEF Cam, Rests, LetGo, Fits, Held
<1> QED
  BY <1>1, <1>2, <1>3, <1>4, Zenon DEF Cam

\* The commands that start no operation, and the calls of the writer.
LEMMA OtherKeepsCam ==
  ASSUME Cam(u, rail),
         \/ \E res \in Resolutions : Pay!SetCameraDefaults(res)
         \/ \E i \in Indexes, kind \in Pay!Kinds : Pay!Publish(i, kind)
         \/ Pay!RegisterAccess \/ Pay!Written \/ Pay!WriteLost \/ Pay!SetMode
  PROVE  Cam(u', rail')
<1>0. DOMAIN u = PFields /\ Shown(u)
  BY Zenon DEF Cam, Shown, Shape
<1>1. ASSUME NEW res \in Resolutions, Pay!SetCameraDefaults(res) PROVE Cam(u', rail')
  <2>1. ~u.busy /\ u.state = "OFF" /\ rail' = rail /\ u' = [u EXCEPT !.res = res]
    BY <1>1, Zenon DEF Pay!SetCameraDefaults, Pay!MaySetDefaults
  <2>2. Phase(u) # "READY"
    BY <1>0, <2>1 DEF Phase, Shown
  <2>3. SameP(u, u', {"note", "queue", "active", "res"})
    BY <1>0, <2>1, Zenon DEF SameP
  <2> QED
    BY <2>1, <2>2, <2>3, UnseenKeepsCam, Zenon
<1>2. ASSUME NEW i \in Indexes, NEW kind \in Pay!Kinds, Pay!Publish(i, kind) PROVE Cam(u', rail')
  <2> DEFINE after == IF u.state = "PUBLISHING" THEN "READY" ELSE u.state
  <2>1. PICK outcome \in Pay!PublishOutcomes :
          LET t == Pay!StartPublish(u, i, Pay!Manifest(i), kind, after, outcome)
          IN  u' = IF outcome = "SENT" THEN [t EXCEPT !.active = "PUBLISH_CAPTURE"] ELSE t
    BY <1>2, Zenon DEF Pay!Publish
  <2>2. ~u.busy /\ ~u.pub.active /\ rail' = rail
    BY <1>2, Zenon DEF Pay!Publish, Pay!WorkInProgress
  <2>3. Phase(u) = u.state /\ Phase(u) \in Steady
    BY <2>2, Zenon DEF Phase, Cam, Rests, Fits
  <2>4. after = u.state
    BY <2>3 DEF Steady
  <2> DEFINE t == Pay!StartPublish(u, i, Pay!Manifest(i), kind, after, outcome)
  <2> HIDE DEF after
  <2>5. PublishedTo(u, t, Phase(u))
    BY <1>0, <2>2, <2>3, <2>4, StartPublishEffect
  <2> HIDE DEF t
  <2>6. Cam(t, rail)
    BY <2>2, <2>5, PublishKeepsCam, Zenon
  <2>7. u' = t \/ u' = [t EXCEPT !.active = "PUBLISH_CAPTURE"]
    BY <2>1, Zenon DEF t, after
  <2>8. ASSUME u' = [t EXCEPT !.active = "PUBLISH_CAPTURE"] PROVE Cam(u', rail)
    <3>1. DOMAIN t = PFields
      BY <2>5, Zenon DEF PublishedTo, SameP
    <3>2. SameP(t, u', {"note", "queue", "active", "res"}) /\ u'.res = t.res
      BY <2>8, <3>1 DEF SameP, PFields
    <3> QED
      BY <2>6, <3>2, UnseenKeepsCam, Zenon
  <2> QED
    BY <2>2, <2>6, <2>7, <2>8, Zenon
<1>3. CASE Pay!RegisterAccess
  <2>1. PICK a \in Pay!DriverRegister(u.helper) : u' = [u EXCEPT !.helper = a.helper]
    BY <1>3, Zenon DEF Pay!RegisterAccess
  <2>2. ~u.busy /\ ~u.pub.active /\ u.state = "READY" /\ rail' = rail
    BY <1>3, Zenon DEF Pay!RegisterAccess, Pay!ReadyForRegister, Pay!WorkInProgress
  <2>3. HelperOK(a.helper)
    BY <2>1, TransactKeeps DEF Pay!DriverRegister, Requests, Cam
  <2>4. SameP(u, u', {"helper"}) /\ u'.helper = a.helper
    BY <1>0, <2>1 DEF SameP, PFields
  <2>5. /\ u'.kind = u.kind /\ u'.busy = u.busy /\ u'.done = u.done /\ u'.pc = u.pc
        /\ u'.prepared = u.prepared /\ u'.asserted = u.asserted /\ u'.settings = u.settings
        /\ u'.pub = u.pub /\ u'.state = u.state /\ u'.res = u.res
    BY <2>4, Zenon DEF SameP, PFields
  <2>6. Phase(u') = "READY" /\ Phase(u) = "READY" /\ Shown(u')
    BY <1>0, <2>2, <2>4, <2>5, Zenon DEF Phase, Shown, Shape, SameP
  <2>7. Rests(u', rail)
    BY <2>2, <2>5, <2>6, Zenon DEF Cam, Rests, Fits, Held
  <2>8. HelperOK(u'.helper) /\ ~u'.busy /\ u'.kind \in Pay!ReadyKinds
    BY <2>2, <2>3, <2>4, <2>5, Zenon DEF Cam
  <2> QED
    BY <2>2, <2>6, <2>7, <2>8, Zenon DEF Cam
<1>4. CASE Pay!Written \/ Pay!WriteLost
  <2>1. rail' = rail /\ SameP(u, u', {"note", "queue", "active", "res"}) /\ u'.res = u.res
    BY <1>0, <1>4 DEF Pay!Written, Pay!WriteLost, SameP, PFields
  <2> QED
    BY <2>1, UnseenKeepsCam, Zenon
<1>5. CASE Pay!SetMode
  BY <1>5, Zenon DEF Pay!SetMode
<1> QED
  BY <1>1, <1>2, <1>3, <1>4, <1>5, Zenon

\* y is x with the worker's result posted: finish_.
Posted(x, y, r, q) ==
  /\ SameP(x, y, {"pc", "done", "result", "prepared", "asserted", "settings", "helper"})
  /\ y.pc = "IDLE" /\ y.done = TRUE /\ HelperOK(y.helper)
  /\ \/ Succeeded(y) /\ y.prepared /\ y.asserted /\ q = TRUE /\ y.settings = x.req
     \/ ~Succeeded(y) /\ LetGo(y)

\* A posted result fits what the camera does.
LEMMA PostedKeepsCam ==
  ASSUME NEW x, NEW y, NEW r, NEW q, Cam(x, r), x.busy, Posted(x, y, r, q)
  PROVE  Cam(y, q)
<1>1. /\ y.kind = x.kind /\ y.busy = x.busy /\ y.op = x.op /\ y.req = x.req
      /\ y.res = x.res /\ y.pub = x.pub /\ y.state = x.state /\ DOMAIN y = PFields
  BY Zenon DEF Posted, SameP, PFields
<1>2. Works(x, r) /\ ~x.pub.active /\ Shown(x) /\ x.kind \in Pay!ReadyKinds
  BY Zenon DEF Cam
<1>3. y.op \in {"PREPARE", "CAPTURE", "SHUTDOWN", "ABORT"} /\ (Opens(y) => y.req \in SessionOf(y))
  BY <1>1, <1>2, Zenon DEF Works, Opens, SessionOf
<1>4. Succeeded(y) => y.prepared /\ y.asserted /\ q = TRUE /\ y.settings \in SessionOf(y)
  BY <1>1, <1>3, Zenon DEF Posted, Succeeded
<1>5. ~Succeeded(y) => LetGo(y)
  BY Zenon DEF Posted
<1>6. Works(y, q)
  BY <1>3, <1>4, <1>5 DEF Posted, Works
<1>7. Shown(y)
  BY <1>1, <1>2, Zenon DEF Shown, Shape
<1> QED
  BY <1>1, <1>2, <1>6, <1>7, Zenon DEF Cam, Posted

\* A result that is no success, with the camera let go, may be posted with any rail.
LEMMA FailurePosted ==
  ASSUME NEW x, DOMAIN x = PFields, NEW h, HelperOK(h), h.process # "OPEN", NEW result,
         ~(Opens(x) /\ result = "OK"), NEW r, NEW q
  PROVE  Posted(x, Pay!Finish([x EXCEPT !.helper = h], result, FALSE), r, q)
<1> DEFINE z == [x EXCEPT !.helper = h]
           y == Pay!Finish(z, result, FALSE)
<1>1. SameP(x, z, {"helper"}) /\ z.helper = h
  BY DEF SameP, PFields
<1> HIDE DEF z
<1>2. DOMAIN z = PFields
  BY <1>1, Zenon DEF SameP
<1>3. SameP(z, y, {"pc", "done", "result", "prepared", "asserted", "settings"})
  BY <1>2, Zenon DEF SameP, Pay!Finish
<1>4. y.pc = "IDLE" /\ y.done = TRUE /\ y.result = result /\ y.prepared = FALSE
  BY <1>2 DEF PFields, Pay!Finish
<1> HIDE DEF y
<1>5. SameP(x, y, {"pc", "done", "result", "prepared", "asserted", "settings", "helper"})
  BY <1>1, <1>3, Zenon DEF SameP
<1>6. y.helper = h /\ y.op = x.op
  BY <1>1, <1>3, Zenon DEF SameP, PFields
<1>7. ~Succeeded(y)
  BY <1>4, <1>6, Zenon DEF Succeeded, Opens
<1>8. LetGo(y) /\ HelperOK(y.helper)
  BY <1>4, <1>6, Zenon DEF LetGo
<1>9. Posted(x, y, r, q)
  BY <1>4, <1>5, <1>7, <1>8, Zenon DEF Posted
<1> QED
  BY <1>9, Zenon DEF y, z

\* The steps of the worker thread.
LEMMA WorkerKeepsCam ==
  ASSUME Cam(u, rail), Pay!Worker
  PROVE  Cam(u', rail')
<1>0. DOMAIN u = PFields /\ HelperOK(u.helper)
  BY Zenon DEF Cam, Shown, Shape
<1>1. u.pc # "IDLE"
  BY DEF Pay!Worker, Pay!PowerUp, Pay!Settle, Pay!Drive, Pay!Undo, Pay!PowerDown
<1>2. u.busy /\ Works(u, rail)
  BY <1>1, Zenon DEF Cam, Rests
<1>3. ~u.done /\ ~u.pub.active /\ Shown(u)
  BY <1>1, <1>2, Zenon DEF Works, Cam
<1>4. ASSUME NEW to \in {"SETTLE", "DRIVE", "UNDO"}, NEW h, HelperOK(h), NEW a,
             u' = [u EXCEPT !.pc = to, !.asserted = a, !.helper = h],
             to \in {"SETTLE", "DRIVE"} => u.op = "PREPARE" /\ rail' = TRUE,
             to = "UNDO" => Opens(u)
      PROVE  Cam(u', rail')
  <2>1. SameP(u, u', {"pc", "asserted", "helper"}) /\ u'.pc = to /\ u'.helper = h
    BY <1>0, <1>4 DEF SameP, PFields
  <2>2. /\ u'.kind = u.kind /\ u'.busy = u.busy /\ u'.op = u.op /\ u'.req = u.req /\ u'.pub = u.pub
        /\ u'.done = u.done /\ u'.state = u.state /\ u'.res = u.res
    BY <2>1, Zenon DEF SameP, PFields
  <2>3. /\ u'.op \in {"PREPARE", "CAPTURE", "SHUTDOWN", "ABORT"}
        /\ Opens(u') => u'.req \in SessionOf(u')
    BY <1>2, <2>2, Zenon DEF Works, Opens, SessionOf
  <2>4. to = "UNDO" => Opens(u')
    BY <1>4, <2>2, Zenon DEF Opens
  <2>5. ~u'.done
    BY <1>3, <2>2
  <2>6. Works(u', rail')
    BY <1>4, <2>1, <2>2, <2>3, <2>4, <2>5 DEF Works
  <2>7. Shown(u')
    BY <1>3, <2>1, <2>2, Zenon DEF Shown, Shape, SameP
  <2> QED
    BY <1>2, <1>3, <1>4, <2>1, <2>2, <2>6, <2>7, Zenon DEF Cam
<1>5. ASSUME NEW a PROVE [u EXCEPT !.pc = a] = [u EXCEPT !.pc = a, !.asserted = u.asserted, !.helper = u.helper]
  BY <1>0 DEF PFields
<1>6. CASE Pay!PowerUp
  <2>1. CASE u' = Pay!Finish(u, "FAILED", FALSE)
    <3>1. u.helper.process # "OPEN"
      BY <1>2, <1>6, Zenon DEF Works, Pay!PowerUp
    <3>2. /\ SameP(u, u', {"pc", "done", "result", "prepared", "asserted", "settings"})
          /\ u'.pc = "IDLE" /\ u'.done = TRUE /\ u'.result = "FAILED" /\ u'.prepared = FALSE
      BY <1>0, <2>1 DEF Pay!Finish, SameP, PFields
    <3>3. SameP(u, u', {"pc", "done", "result", "prepared", "asserted", "settings", "helper"})
          /\ u'.helper = u.helper
      BY <3>2, Zenon DEF SameP, PFields
    <3>4. Posted(u, u', rail, rail')
      BY <1>0, <3>1, <3>2, <3>3 DEF Posted, Succeeded, LetGo
    <3> QED
      BY <1>2, <3>4, PostedKeepsCam, Zenon
  <2>2. CASE u' = [u EXCEPT !.pc = "SETTLE", !.asserted = TRUE] /\ Pay!ProxyPower(TRUE, TRUE)
    <3>1. u' = [u EXCEPT !.pc = "SETTLE", !.asserted = TRUE, !.helper = u.helper]
      BY <1>0, <2>2 DEF PFields
    <3>2. u.op = "PREPARE"
      BY <1>2, <1>6 DEF Works, Pay!PowerUp
    <3>3. rail' = TRUE
      BY <2>2 DEF Pay!ProxyPower
    <3> QED
      BY <1>0, <1>4, <3>1, <3>2, <3>3
  <2> QED
    BY <1>6, <2>1, <2>2, Zenon DEF Pay!PowerUp
<1>7. CASE Pay!Settle
  <2>1. u.op = "PREPARE" /\ rail = TRUE /\ rail' = rail
    BY <1>2, <1>7 DEF Works, Pay!Settle
  <2>2. PICK to \in {"DRIVE", "UNDO"} : u' = [u EXCEPT !.pc = to]
    BY <1>7, Zenon DEF Pay!Settle
  <2>3. u' = [u EXCEPT !.pc = to, !.asserted = u.asserted, !.helper = u.helper]
    BY <1>5, <2>2
  <2>4. Opens(u)
    BY <2>1, Zenon DEF Opens
  <2> QED
    BY <1>0, <1>4, <2>1, <2>3, <2>4
<1>8. CASE Pay!Drive
  <2>1. PICK a \in Pay!Transact(u.helper, "PREPARE", u.cancel)
                    \cup Pay!Transact(u.helper, "CAPTURE", u.cancel) :
          u' = [(IF a.ok THEN Pay!Finish(u, "OK", TRUE) ELSE [u EXCEPT !.pc = "UNDO"])
                  EXCEPT !.helper = a.helper]
    BY <1>8, Zenon DEF Pay!Drive, Pay!DriverPrepare, Pay!DriverCapture
  <2>2. HelperOK(a.helper)
    BY <1>0, TransactKeeps DEF Requests
  <2>3. Opens(u) /\ u.pc = "DRIVE" /\ rail' = rail
    BY <1>8, Zenon DEF Pay!Drive, Opens
  <2>4. rail = TRUE
    BY <1>2, <2>3 DEF Works
  <2>5. CASE a.ok
    <3> DEFINE y == Pay!Finish(u, "OK", TRUE)
    <3>1. /\ SameP(u, y, {"pc", "done", "result", "prepared", "asserted", "settings"})
          /\ y.pc = "IDLE" /\ y.done = TRUE /\ y.result = "OK"
          /\ y.prepared = TRUE /\ y.asserted = TRUE /\ y.settings = u.req
      BY <1>0 DEF Pay!Finish, SameP, PFields
    <3>2. u' = [y EXCEPT !.helper = a.helper]
      BY <2>1, <2>5
    <3> HIDE DEF y
    <3>3. SameP(y, u', {"helper"}) /\ u'.helper = a.helper
      BY <3>1, <3>2 DEF SameP, PFields
    <3>4. SameP(u, u', {"pc", "done", "result", "prepared", "asserted", "settings", "helper"})
      BY <3>1, <3>3, Zenon DEF SameP
    <3>5. /\ u'.pc = "IDLE" /\ u'.done = TRUE /\ u'.result = "OK" /\ u'.op = u.op
          /\ u'.prepared = TRUE /\ u'.asserted = TRUE /\ u'.settings = u.req
      BY <3>1, <3>3, Zenon DEF SameP, PFields
    <3>6. Succeeded(u')
      BY <2>3, <3>5, Zenon DEF Succeeded, Opens
    <3>7. Posted(u, u', rail, rail')
      BY <2>2, <2>3, <2>4, <3>3, <3>4, <3>5, <3>6 DEF Posted
    <3> QED
      BY <1>2, <3>7, PostedKeepsCam, Zenon
  <2>6. CASE ~a.ok
    <3>1. u' = [u EXCEPT !.pc = "UNDO", !.asserted = u.asserted, !.helper = a.helper]
      BY <1>0, <2>1, <2>6 DEF PFields
    <3> QED
      BY <1>4, <2>2, <2>3, <3>1
  <2> QED
    BY <2>5, <2>6, Zenon
<1>9. CASE Pay!Undo
  <2>1. PICK down \in Pay!DriverShutdown(u.helper), result \in {"ABORTED", "FAILED"} :
          u' = Pay!Finish([u EXCEPT !.helper = down.helper], result, FALSE)
    BY <1>9, Zenon DEF Pay!Undo
  <2>2. HelperOK(down.helper) /\ down.helper.process # "OPEN"
    BY <1>0, ShutdownCloses
  <2>3. Posted(u, u', rail, rail')
    BY <1>0, <2>1, <2>2, FailurePosted
  <2> QED
    BY <1>2, <2>3, PostedKeepsCam, Zenon
<1>10. CASE Pay!PowerDown
  <2>1. PICK down \in Pay!DriverShutdown(u.helper), result \in {"OK", "FAILED"} :
          u' = Pay!Finish([u EXCEPT !.helper = down.helper], result, FALSE)
    BY <1>10, Zenon DEF Pay!PowerDown
  <2>2. HelperOK(down.helper) /\ down.helper.process # "OPEN"
    BY <1>0, ShutdownCloses
  <2>3. ~Opens(u)
    BY <1>10 DEF Pay!PowerDown, Opens
  <2>4. Posted(u, u', rail, rail')
    BY <1>0, <2>1, <2>2, <2>3, FailurePosted
  <2> QED
    BY <1>2, <2>4, PostedKeepsCam, Zenon
<1> QED
  BY <1>6, <1>7, <1>8, <1>9, <1>10, Zenon DEF Pay!Worker

\* configureRuntime in a new process: OFF, with no session.
LEMMA ConfiguredCam ==
  ASSUME NEW b \in Pay!Backends, NEW asked \in Pay!DriverCapabilities(Pay!NoHelper(b)),
         NEW m, NEW c, NEW p, NEW r
  PROVE  Cam(Pay!Configured(asked, m, c, p), r)
<1> DEFINE x == Pay!Configured(asked, m, c, p)
           n == Pay!NoHelper(b)
<1>1. HelperOK(n) /\ n.process # "OPEN"
  BY DEF HelperOK, Helpers, Pay!NoHelper, Pay!Processes
<1> HIDE DEF n
<1>2. asked \in Pay!Transact(n, "GET_CAPABILITIES", FALSE)
  BY Zenon DEF Pay!DriverCapabilities, n
<1>3. HelperOK(asked.helper) /\ asked.helper.process # "OPEN"
  BY <1>1, <1>2, TransactKeeps DEF Requests
<1>4. /\ DOMAIN x = PFields /\ x.pub = Pay!NoPublish /\ x.helper = asked.helper
      /\ x.kind = "READY_NON_RAW" /\ x.busy = FALSE /\ x.pc = "IDLE" /\ x.done = FALSE
      /\ x.state = "OFF" /\ x.prepared = FALSE
  BY DEF Pay!Configured, PFields
<1> HIDE DEF x
<1>5. ~x.pub.active
  BY <1>4 DEF Pay!NoPublish
<1>6. Phase(x) = "OFF" /\ Shown(x)
  BY <1>4, <1>5, Zenon DEF Phase, Shown, Shape, PubShape
<1>7. Rests(x, r)
  BY <1>3, <1>4, <1>6 DEF Rests, Fits, Steady, LetGo
<1>8. Cam(x, r)
  BY <1>3, <1>4, <1>5, <1>6, <1>7 DEF Cam, Pay!ReadyKinds
<1> QED
  BY <1>8, Zenon DEF x

\* The process dies in any state and is started again.
LEMMA RestartKeepsCam ==
  ASSUME Cam(u, rail), Pay!Restart
  PROVE  Cam(u', rail')
<1>1. u.helper.backend \in Pay!Backends
  BY DEF Cam, HelperOK, Helpers
<1>2. PICK asked \in Pay!DriverCapabilities(Pay!NoHelper(u.helper.backend)) :
        \E f : u' = Pay!Configured(asked, f, u.captures, u.pubs)
  <2> DEFINE F == {u.manifest} \cup
                      (IF u.pub.active THEN {[u.manifest EXCEPT ![u.pub.index] = Pay!Torn]} ELSE {})
             A == Pay!DriverCapabilities(Pay!NoHelper(u.helper.backend))
  <2>1. u' \in {Pay!Configured(asked, f, u.captures, u.pubs) : asked \in A, f \in F}
    BY DEF Pay!Restart
  <2> HIDE DEF A, F
  <2>2. \E a \in A, f \in F : u' = Pay!Configured(a, f, u.captures, u.pubs)
    BY <2>1
  <2> QED
    BY <2>2, Zenon DEF A
<1> QED
  BY <1>1, <1>2, ConfiguredCam, Zenon

\* What the controller says of the camera is true for every number of captures,
\* publishes and restarts: READY stands for a session with the settings in force
\* and the rail on, OFF for no session in the manager or in a helper, and never
\* are there two helpers.
THEOREM CameraTruth == Pay!Spec => []Pay!CameraFollowsState
<1>1. Pay!Init => Cam(u, rail)
  BY ConfiguredCam, Zenon DEF Pay!Init
<1>2. Cam(u, rail) /\ [Pay!Next]_(Pay!vars) => Cam(u, rail)'
  <2> SUFFICES ASSUME Cam(u, rail), [Pay!Next]_(Pay!vars) PROVE Cam(u', rail')
    OBVIOUS
  <2>1. CASE UNCHANGED Pay!vars
    BY <2>1, Zenon DEF Pay!vars
  <2> QED
    BY <2>1, SchedTickKeepsCam, WorkerKeepsCam, OperationKeepsCam, OtherKeepsCam, RestartKeepsCam,
       Zenon DEF Pay!Next, Pay!Command
<1>3. Cam(u, rail) => Pay!CameraFollowsState
  <2> SUFFICES ASSUME Cam(u, rail) PROVE Pay!CameraFollowsState
    OBVIOUS
  <2>1. Pay!OneHelper
    BY Zenon DEF Cam, HelperOK, Pay!OneHelper
  <2>2. Pay!Settled => Fits(u, rail) /\ Phase(u) = u.state
    BY Zenon DEF Pay!Settled, Cam, Rests, Phase
  <2>3. Pay!ReadyIsPrepared
    BY <2>2 DEF Pay!ReadyIsPrepared, Fits, Held
  <2>4. Pay!OffIsReleased
    BY <2>2 DEF Pay!OffIsReleased, Fits, LetGo
  <2> QED
    BY <2>1, <2>3, <2>4, Zenon DEF Pay!CameraFollowsState
<1> QED
  BY <1>1, <1>2, <1>3, PTL DEF Pay!Spec
-----------------------------------------------------------------------------
(* The data products: the inductive invariant of PublishedIsWritten. *)

Notes == [id : Nat, slice : Nat]

Slice(id, n) == [id |-> id, slice |-> n]

\* Every slice of what e lists as published is in st.
Backed(e, st) ==
  \A k \in Pay!Kinds : e.published[k] => \A n \in 1 .. Slices[k] : Slice(e.product[k], n) \in st

Real(e, st) ==
  /\ DOMAIN e = {"capture", "product", "published"}
  /\ DOMAIN e.product = Pay!Kinds /\ DOMAIN e.published = Pay!Kinds
  /\ Backed(e, st)

Listed(c, st) ==
  DOMAIN c = Indexes /\ \A i \in Indexes : c[i] \in {Pay!NoEntry, Pay!Torn} \/ Real(c[i], st)

\* A written slice belongs to a publish that was opened and, when it belongs to
\* the one in progress, is not ahead of it.
NoteFits(w, p, pubs) ==
  /\ w \in Notes /\ w.id <= pubs
  /\ p.active /\ w.id = p.id => w.slice <= p.next

\* The publish in progress: the slices it no longer expects are stored, and all
\* it expects come from a given one on.
Expects(p, st, from) ==
  /\ p.id \in Nat /\ p.kind \in Pay!Kinds /\ p.next \in Nat
  /\ Real(p.entry, st) /\ p.entry.product[p.kind] = p.id
  /\ \A n \in p.expected : n \in Int /\ n >= from
  /\ \A n \in 1 .. Slices[p.kind] : n \in p.expected \/ Slice(p.id, n) \in st

Products(x, st) ==
  /\ x.pubs \in Nat
  /\ Listed(x.catalog, st) /\ Listed(x.manifest, st)
  /\ x.pub.active => x.pub.id <= x.pubs /\ Expects(x.pub, st, x.pub.next)
  /\ NoteFits(x.note, x.pub, x.pubs) /\ (x.note = Pay!NoNote \/ x.note \in st)
  /\ x.queue \in Seq(Notes)
  /\ \A j \in 1 .. Len(x.queue) : NoteFits(x.queue[j], x.pub, x.pubs)

\* What is stored stays stored.
LEMMA StoredGrows ==
  ASSUME NEW x, NEW st, NEW more, st \subseteq more, Products(x, st)
  PROVE  Products(x, more)
<1>1. ASSUME NEW e, Real(e, st) PROVE Real(e, more)
  BY <1>1, Zenon DEF Real, Backed
<1>2. Listed(x.catalog, more) /\ Listed(x.manifest, more)
  BY <1>1, Zenon DEF Products, Listed
<1>3. x.pub.active => Expects(x.pub, more, x.pub.next)
  BY <1>1, Zenon DEF Products, Expects
<1>4. x.note = Pay!NoNote \/ x.note \in more
  BY Zenon DEF Products
<1> QED
  BY <1>2, <1>3, <1>4, Zenon DEF Products

\* The fields the data products live in.
ProductFields == {"pubs", "catalog", "manifest", "pub", "note", "queue"}

\* A step that writes none of them keeps the invariant.
LEMMA OthersKeepProducts ==
  ASSUME NEW x, NEW y, NEW st, Products(x, st), \A f \in ProductFields : y[f] = x[f]
  PROVE  Products(y, st)
<1>1. /\ y.pubs = x.pubs /\ y.catalog = x.catalog /\ y.manifest = x.manifest
      /\ y.pub = x.pub /\ y.note = x.note /\ y.queue = x.queue
  BY Zenon DEF ProductFields
<1> QED
  BY <1>1, Zenon DEF Products

\* An entry put into a catalog.
LEMMA EntryListed ==
  ASSUME NEW c, NEW st, NEW i, NEW e, Listed(c, st), e \in {Pay!NoEntry, Pay!Torn} \/ Real(e, st)
  PROVE  Listed([c EXCEPT ![i] = e], st)
<1> DEFINE d == [c EXCEPT ![i] = e]
<1>1. DOMAIN d = Indexes /\ \A j \in Indexes : d[j] = c[j] \/ d[j] = e
  BY DEF Listed
<1> HIDE DEF d
<1>2. Listed(d, st)
  BY <1>1, Zenon DEF Listed
<1> QED
  BY <1>2, Zenon DEF d

\* The metadata of a new capture lists nothing as published.
LEMMA EntryReal ==
  ASSUME NEW capture, NEW st
  PROVE  Real(Pay!Entry(capture), st)
<1> DEFINE e == Pay!Entry(capture)
<1>1. /\ DOMAIN e = {"capture", "product", "published"}
      /\ DOMAIN e.product = Pay!Kinds /\ DOMAIN e.published = Pay!Kinds
      /\ \A k \in Pay!Kinds : ~e.published[k]
  BY DEF Pay!Entry
<1> HIDE DEF e
<1>2. Real(e, st)
  BY <1>1, Zenon DEF Real, Backed
<1> QED
  BY <1>2, Zenon DEF e

\* publishNextPendingDataProductSlice_ when nothing before the next slice is
\* expected any more.
LEMMA SendSliceProducts ==
  ASSUME NEW x, NEW st, Shown(x), x.pub.active, Products(x, st),
         Expects(x.pub, st, x.pub.next + 1)
  PROVE  Products(Pay!SendSlice(x), st)
<1> DEFINE y == Pay!SendSlice(x)
           k == x.pub.next + 1
           w == Slice(x.pub.id, k)
<1>1. /\ SameP(x, y, {"pub", "queue"})
      /\ y.pub = [x.pub EXCEPT !.next = k, !.ticks = PublishTicks]
      /\ y.queue = Append(x.queue, w)
  BY SendSliceEffect, Zenon DEF Slice
<1>2. DOMAIN x.pub = PubFields
  BY DEF Shown, Shape, PubShape, Pay!NoPublish
<1> HIDE DEF y
<1>3. y.pubs = x.pubs /\ y.catalog = x.catalog /\ y.manifest = x.manifest /\ y.note = x.note
  BY <1>1, Zenon DEF SameP, PFields
<1>4. /\ y.pub.active = x.pub.active /\ y.pub.id = x.pub.id /\ y.pub.kind = x.pub.kind
      /\ y.pub.entry = x.pub.entry /\ y.pub.expected = x.pub.expected /\ y.pub.next = k
  BY <1>1, <1>2 DEF PubFields
<1>5. x.pub.next \in Nat /\ x.pub.id \in Nat /\ k \in Nat /\ x.pub.id <= x.pubs
  BY DEF Expects, Products
<1>6. Expects(y.pub, st, y.pub.next)
  BY <1>4, <1>5, Zenon DEF Expects
<1>7. ASSUME NEW v, NoteFits(v, x.pub, x.pubs) PROVE NoteFits(v, y.pub, y.pubs)
  BY <1>3, <1>4, <1>5, <1>7 DEF NoteFits, Notes
<1>8. NoteFits(w, y.pub, y.pubs) /\ w \in Notes
  BY <1>3, <1>4, <1>5 DEF NoteFits, Notes, Slice
<1> HIDE DEF w
<1>9. /\ y.queue \in Seq(Notes)
      /\ \A j \in 1 .. Len(y.queue) : NoteFits(y.queue[j], y.pub, y.pubs)
  <2>1. x.queue \in Seq(Notes) /\ \A j \in 1 .. Len(x.queue) : NoteFits(x.queue[j], x.pub, x.pubs)
    BY Zenon DEF Products
  <2>2. y.queue \in Seq(Notes) /\ Len(y.queue) = Len(x.queue) + 1 /\ Len(x.queue) \in Nat
    BY <1>1, <1>8, <2>1
  <2>3. ASSUME NEW j \in 1 .. Len(y.queue) PROVE NoteFits(y.queue[j], y.pub, y.pubs)
    <3>1. CASE j = Len(x.queue) + 1
      <4>1. y.queue[j] = w
        BY <1>1, <2>1, <3>1
      <4> QED
        BY <1>8, <4>1, Zenon
    <3>2. CASE j # Len(x.queue) + 1
      <4>1. j \in 1 .. Len(x.queue) /\ y.queue[j] = x.queue[j]
        BY <1>1, <2>1, <2>2, <2>3, <3>2
      <4> QED
        BY <1>7, <2>1, <4>1, Zenon
    <3> QED
      BY <3>1, <3>2, Zenon
  <2> QED
    BY <2>2, <2>3, Zenon
<1>10. NoteFits(y.note, y.pub, y.pubs)
  BY <1>3, <1>7, Zenon DEF Products
<1>11. Products(y, st)
  BY <1>3, <1>4, <1>5, <1>6, <1>9, <1>10, Zenon DEF Products
<1> QED
  BY <1>11, Zenon DEF y

\* finalizeDataProductPublishSuccess_ is called when nothing is expected.
LEMMA FinalizeProducts ==
  ASSUME NEW x, NEW st, Shown(x), x.pub.active, Products(x, st), NEW ok \in BOOLEAN,
         ok => x.pub.expected = {}
  PROVE  Products(Pay!Finalize(x, ok), st)
<1> DEFINE y == Pay!Finalize(x, ok)
           e == [x.pub.entry EXCEPT !.published[x.pub.kind] = ok]
<1>1. /\ y.pub = Pay!NoPublish /\ y.note = Pay!NoNote
      /\ y.catalog = [x.catalog EXCEPT ![x.pub.index] = e]
      /\ y.manifest = [x.manifest EXCEPT ![x.pub.index] = e]
      /\ y.pubs = x.pubs /\ y.queue = x.queue
  BY FinalizeEffect, Zenon
<1> HIDE DEF y
<1>2. /\ Real(x.pub.entry, st) /\ x.pub.entry.product[x.pub.kind] = x.pub.id
      /\ x.pub.kind \in Pay!Kinds
      /\ \A n \in 1 .. Slices[x.pub.kind] : n \in x.pub.expected \/ Slice(x.pub.id, n) \in st
  BY Zenon DEF Products, Expects
<1>3. Real(e, st)
  <2>1. /\ DOMAIN e = {"capture", "product", "published"} /\ e.product = x.pub.entry.product
        /\ e.published = [x.pub.entry.published EXCEPT ![x.pub.kind] = ok]
    BY <1>2 DEF Real
  <2> HIDE DEF e
  <2>2. /\ DOMAIN e.published = Pay!Kinds /\ e.published[x.pub.kind] = ok
        /\ \A k \in Pay!Kinds \ {x.pub.kind} : e.published[k] = x.pub.entry.published[k]
    BY <1>2, <2>1 DEF Real
  <2>3. ok => \A n \in 1 .. Slices[x.pub.kind] : Slice(e.product[x.pub.kind], n) \in st
    BY <1>2, <2>1, Zenon
  <2>4. Backed(e, st)
    <3> SUFFICES ASSUME NEW k \in Pay!Kinds, e.published[k]
                 PROVE  \A n \in 1 .. Slices[k] : Slice(e.product[k], n) \in st
      BY Zenon DEF Backed
    <3>1. CASE k = x.pub.kind
      BY <2>2, <2>3, <3>1, Zenon
    <3>2. CASE k # x.pub.kind
      BY <1>2, <2>1, <2>2, <3>2, Zenon DEF Real, Backed
    <3> QED
      BY <3>1, <3>2, Zenon
  <2> QED
    BY <1>2, <2>1, <2>2, <2>4, Zenon DEF Real
<1> HIDE DEF e
<1>4. Listed(y.catalog, st) /\ Listed(y.manifest, st)
  <2>1. Listed(x.catalog, st) /\ Listed(x.manifest, st)
    BY Zenon DEF Products
  <2>2. Real(e, st)
    BY <1>3
  <2>3. Listed([x.catalog EXCEPT ![x.pub.index] = e], st)
    BY <2>1, <2>2, EntryListed, Zenon
  <2>4. Listed([x.manifest EXCEPT ![x.pub.index] = e], st)
    BY <2>1, <2>2, EntryListed, Zenon
  <2> QED
    BY <1>1, <2>3, <2>4, Zenon
<1>5. ~y.pub.active
  BY <1>1 DEF Pay!NoPublish
<1>6. y.pubs \in Nat /\ y.queue \in Seq(Notes)
  BY <1>1, Zenon DEF Products
<1>7. NoteFits(y.note, y.pub, y.pubs)
  BY <1>1, <1>5, <1>6 DEF NoteFits, Notes, Pay!NoNote
<1>8. \A j \in 1 .. Len(y.queue) : NoteFits(y.queue[j], y.pub, y.pubs)
  BY <1>1, <1>5, Zenon DEF NoteFits, Products
<1>9. Products(y, st)
  BY <1>1, <1>4, <1>5, <1>6, <1>7, <1>8, Zenon DEF Products
<1> QED
  BY <1>9, Zenon DEF y

\* A publish is opened under a number no slice has had before.
LEMMA OpenedProducts ==
  ASSUME NEW x, NEW st, Shown(x), ~x.pub.active, Products(x, st), NEW i, NEW entry,
         Real(entry, st), NEW kind \in Pay!Kinds, NEW after
  PROVE  LET y == Pay!Opened(x, i, entry, kind, after)
         IN  Products(y, st) /\ y.pub.active /\ Shown(y) /\ Expects(y.pub, st, y.pub.next + 1)
<1> DEFINE y == Pay!Opened(x, i, entry, kind, after)
           id == x.pubs + 1
           e == [entry EXCEPT !.product[kind] = id, !.published[kind] = FALSE]
<1>0. DOMAIN x = PFields
  BY DEF Shown, Shape
<1>1. /\ PublishedTo(x, y, after) /\ y.pub.active
      /\ y.pub = [active |-> TRUE, id |-> id, index |-> i, kind |-> kind,
                  entry |-> e, next |-> 0, expected |-> 1 .. Slices[kind],
                  ticks |-> PublishTicks, after |-> after]
      /\ y.catalog = [x.catalog EXCEPT ![i] = e]
      /\ y.manifest = [x.manifest EXCEPT ![i] = e]
      /\ y.pubs = id /\ y.queue = x.queue /\ y.note = x.note
  BY <1>0, OpenedEffect, Zenon
<1> HIDE DEF y
<1>2. x.pubs \in Nat /\ id \in Nat
  BY DEF Products
<1>3. Real(e, st) /\ e.product[kind] = id
  <2>1. /\ DOMAIN e = {"capture", "product", "published"}
        /\ e.product = [entry.product EXCEPT ![kind] = id]
        /\ e.published = [entry.published EXCEPT ![kind] = FALSE]
    BY DEF Real
  <2> HIDE DEF e
  <2>2. /\ DOMAIN e.product = Pay!Kinds /\ DOMAIN e.published = Pay!Kinds
        /\ e.product[kind] = id /\ ~e.published[kind]
        /\ \A k \in Pay!Kinds \ {kind} : /\ e.product[k] = entry.product[k]
                                         /\ e.published[k] = entry.published[k]
    BY <2>1 DEF Real
  <2>3. Backed(e, st)
    BY <2>2, Zenon DEF Real, Backed
  <2> QED
    BY <2>1, <2>2, <2>3, Zenon DEF Real
<1> HIDE DEF e
<1>4. Listed(y.catalog, st) /\ Listed(y.manifest, st)
  <2>1. Listed(x.catalog, st) /\ Listed(x.manifest, st)
    BY Zenon DEF Products
  <2>2. Real(e, st)
    BY <1>3
  <2>3. Listed([x.catalog EXCEPT ![i] = e], st)
    BY <2>1, <2>2, EntryListed, Zenon
  <2>4. Listed([x.manifest EXCEPT ![i] = e], st)
    BY <2>1, <2>2, EntryListed, Zenon
  <2> QED
    BY <1>1, <2>3, <2>4, Zenon
<1>5. /\ y.pub.id = id /\ y.pub.kind = kind /\ y.pub.next = 0 /\ y.pub.entry = e
      /\ y.pub.expected = 1 .. Slices[kind]
  BY <1>1
<1>6. Expects(y.pub, st, y.pub.next + 1) /\ Expects(y.pub, st, y.pub.next)
  BY <1>2, <1>3, <1>5 DEF Expects
<1>7. ASSUME NEW v, NoteFits(v, x.pub, x.pubs) PROVE NoteFits(v, y.pub, y.pubs)
  BY <1>1, <1>2, <1>5, <1>7 DEF NoteFits, Notes
<1>8. NoteFits(y.note, y.pub, y.pubs)
  BY <1>1, <1>7, Zenon DEF Products
<1>9. \A j \in 1 .. Len(y.queue) : NoteFits(y.queue[j], y.pub, y.pubs)
  BY <1>1, <1>7, Zenon DEF Products
<1>10. y.pub.id <= y.pubs /\ y.pubs \in Nat
  BY <1>1, <1>2, <1>5
<1>11. Products(y, st)
  BY <1>1, <1>4, <1>6, <1>8, <1>9, <1>10, Zenon DEF Products
<1>12. Shown(y)
  BY <1>1, Zenon DEF PublishedTo, SameP, Shown, Shape
<1> QED
  BY <1>1, <1>6, <1>11, <1>12, Zenon DEF y

\* startArtifactPublish_, however far it gets.
LEMMA StartPublishProducts ==
  ASSUME NEW x, NEW st, Shown(x), ~x.pub.active, Products(x, st), NEW i, NEW entry,
         Real(entry, st), NEW kind \in Pay!Kinds, NEW after, NEW outcome \in Pay!PublishOutcomes
  PROVE  Products(Pay!StartPublish(x, i, entry, kind, after, outcome), st)
<1> DEFINE y == Pay!StartPublish(x, i, entry, kind, after, outcome)
           o == Pay!Opened(x, i, entry, kind, after)
<1>0. DOMAIN x = PFields
  BY DEF Shown, Shape
<1>1. Products(o, st) /\ o.pub.active /\ Shown(o) /\ Expects(o.pub, st, o.pub.next + 1)
  BY OpenedProducts, Zenon
<1>2. o.pubs = x.pubs + 1
  BY <1>0 DEF Pay!Opened, PFields
<1> HIDE DEF o
<1>3. CASE outcome = "SENT"
  <2>1. y = Pay!SendSlice(o)
    BY <1>3 DEF Pay!StartPublish, o
  <2> QED
    BY <1>1, <2>1, SendSliceProducts, Zenon
<1>4. CASE outcome = "UNREADABLE"
  <2>1. y = x
    BY <1>4 DEF Pay!StartPublish
  <2> QED
    BY <2>1, Zenon
<1>5. CASE outcome = "MANIFEST_FAILED"
  <2>1. y = [x EXCEPT !.pubs = o.pubs, !.catalog = o.catalog,
                      !.manifest = [x.manifest EXCEPT ![i] = Pay!Torn]]
    BY <1>0, <1>5 DEF Pay!StartPublish, PFields, o
  <2>2. /\ y.pubs = x.pubs + 1 /\ y.catalog = o.catalog
        /\ y.manifest = [x.manifest EXCEPT ![i] = Pay!Torn]
        /\ y.pub = x.pub /\ y.note = x.note /\ y.queue = x.queue
    BY <1>0, <1>2, <2>1 DEF PFields
  <2> HIDE DEF y
  <2>3. Listed(x.manifest, st) /\ Listed(o.catalog, st) /\ x.pubs \in Nat
    BY <1>1, Zenon DEF Products
  <2>4. Listed(y.catalog, st)
    BY <2>2, <2>3, Zenon
  <2>5. Pay!Torn \in {Pay!NoEntry, Pay!Torn}
    BY Zenon
  <2>6. Listed([x.manifest EXCEPT ![i] = Pay!Torn], st)
    BY <2>3, <2>5, EntryListed, Zenon
  <2>7. Listed(y.manifest, st)
    BY <2>2, <2>6, Zenon
  <2>8. ASSUME NEW v, NoteFits(v, x.pub, x.pubs) PROVE NoteFits(v, y.pub, y.pubs)
    BY <2>2, <2>3, <2>8 DEF NoteFits, Notes
  <2>9. NoteFits(y.note, y.pub, y.pubs) /\ y.queue \in Seq(Notes)
        /\ \A j \in 1 .. Len(y.queue) : NoteFits(y.queue[j], y.pub, y.pubs)
    BY <2>2, <2>8, Zenon DEF Products
  <2>10. y.pubs \in Nat
    BY <2>2, <2>3
  <2>11. ~y.pub.active
    BY <2>2, Zenon
  <2>12. Products(y, st)
    BY <2>2, <2>4, <2>7, <2>9, <2>10, <2>11, Zenon DEF Products
  <2> QED
    BY <2>12, Zenon DEF y
<1>6. CASE outcome = "NO_BUFFER"
  <2>1. y = Pay!Finalize(o, FALSE)
    BY <1>6 DEF Pay!StartPublish, o
  <2> DEFINE ok == FALSE
  <2>2. ok \in BOOLEAN /\ (ok => o.pub.expected = {})
    OBVIOUS
  <2> HIDE DEF ok
  <2>3. Products(Pay!Finalize(o, ok), st)
    BY <1>1, <2>2, FinalizeProducts, Zenon
  <2> QED
    BY <2>1, <2>3 DEF ok
<1> QED
  BY <1>3, <1>4, <1>5, <1>6, Zenon DEF Pay!PublishOutcomes

\* The entry of a capture, put into the catalog and the manifest at once.
LEMMA ListingKeepsProducts ==
  ASSUME NEW x, NEW y, NEW st, Products(x, st),
         y.pubs = x.pubs /\ y.pub = x.pub /\ y.note = x.note /\ y.queue = x.queue,
         Listed(y.catalog, st), Listed(y.manifest, st)
  PROVE  Products(y, st)
BY Zenon DEF Products

\* handleCompletedOperation_.
LEMMA CompletedProducts ==
  ASSUME NEW x, NEW st, Shown(x), ~x.pub.active, Products(x, st),
         NEW outcome \in Pay!PublishOutcomes
  PROVE  Products(Pay!Completed(x, outcome), st)
<1> DEFINE p == PolledOnly(x)
           e == Pay!Entry(x.captures)
           t == Pay!StartPublish(p, x.index, e, "PREVIEW_JPEG", "READY", outcome)
           z == [t EXCEPT !.catalog[x.index] = e, !.manifest[x.index] = e]
           y == Pay!Completed(x, outcome)
<1>0. DOMAIN x = PFields /\ x.pub = Pay!NoPublish
  BY DEF Shown, Shape, PubShape
<1>1. \/ y = t \/ y = EndedAs(x, z) \/ y = EndedAs(x, p)
  BY CompletedCases, Zenon
<1>2. /\ SameP(x, p, {"busy", "done", "op", "cancel", "req", "result", "index", "kind", "catalog"})
      /\ p.catalog = x.catalog \/ p.catalog = [x.catalog EXCEPT ![x.index] = e]
  BY <1>0, PolledOnlyEffect, Zenon
<1> HIDE DEF p
<1>3. Real(e, st)
  BY EntryReal, Zenon
<1> HIDE DEF e
<1>4. /\ p.pubs = x.pubs /\ p.pub = x.pub /\ p.note = x.note /\ p.queue = x.queue
      /\ p.manifest = x.manifest /\ DOMAIN p = PFields
  BY <1>2, Zenon DEF SameP, PFields
<1>5. Listed(p.catalog, st) /\ Listed(p.manifest, st)
  <2>1. Listed(x.catalog, st) /\ Listed(x.manifest, st)
    BY Zenon DEF Products
  <2>2. Listed([x.catalog EXCEPT ![x.index] = e], st)
    BY <1>3, <2>1, EntryListed, Zenon
  <2> QED
    BY <1>2, <1>4, <2>1, <2>2, Zenon
<1>6. Products(p, st)
  BY <1>4, <1>5, ListingKeepsProducts, Zenon
<1>7. ~p.pub.active /\ Shown(p)
  <2>1. ~p.pub.active
    BY <1>4, Zenon
  <2> QED
    BY <1>0, <1>4, <2>1, Zenon DEF Shown, Shape, PubShape
<1>8. Products(t, st)
  <2>1. "PREVIEW_JPEG" \in Pay!Kinds
    BY Zenon DEF Pay!Kinds
  <2> QED
    BY <1>3, <1>6, <1>7, <2>1, StartPublishProducts, Zenon
<1>9. DOMAIN t = PFields
  <2>1. PublishedTo(p, t, "READY") \/ PublishedTo(p, t, p.state)
    BY <1>7, StartPublishEffect, Zenon
  <2> QED
    BY <2>1, Zenon DEF PublishedTo, SameP
<1> HIDE DEF t
<1>10. Products(z, st) /\ DOMAIN z = PFields
  <2>1. z = [t EXCEPT !.catalog = [t.catalog EXCEPT ![x.index] = e],
                      !.manifest = [t.manifest EXCEPT ![x.index] = e]]
    BY <1>9 DEF PFields
  <2>2. /\ DOMAIN z = PFields /\ z.pubs = t.pubs /\ z.pub = t.pub /\ z.note = t.note
        /\ z.queue = t.queue /\ z.catalog = [t.catalog EXCEPT ![x.index] = e]
        /\ z.manifest = [t.manifest EXCEPT ![x.index] = e]
    BY <1>9, <2>1 DEF PFields
  <2> HIDE DEF z
  <2>3. Listed(t.catalog, st) /\ Listed(t.manifest, st)
    BY <1>8, Zenon DEF Products
  <2>4. Listed([t.catalog EXCEPT ![x.index] = e], st)
    BY <1>3, <2>3, EntryListed, Zenon
  <2>5. Listed([t.manifest EXCEPT ![x.index] = e], st)
    BY <1>3, <2>3, EntryListed, Zenon
  <2>6. Listed(z.catalog, st) /\ Listed(z.manifest, st)
    BY <2>2, <2>4, <2>5, Zenon
  <2> QED
    BY <1>8, <2>2, <2>6, ListingKeepsProducts, Zenon
<1> HIDE DEF z
<1>11. ASSUME NEW v, Products(v, st), DOMAIN v = PFields PROVE Products(EndedAs(x, v), st)
  <2>1. SameP(v, EndedAs(x, v), {"state", "active", "abort", "forced"})
    BY <1>11, Zenon DEF SameP, EndedAs
  <2>2. \A f \in ProductFields : EndedAs(x, v)[f] = v[f]
    BY <2>1 DEF SameP, PFields, ProductFields
  <2> QED
    BY <1>11, <2>2, OthersKeepProducts, Zenon
<1> QED
  BY <1>1, <1>4, <1>6, <1>8, <1>10, <1>11, Zenon

\* handlePendingDataProductWriteCompletion_: the note is of the one slice in
\* flight, so dropping that slice from the expected ones drops what was written.
LEMMA WriteCompletionProducts ==
  ASSUME NEW x, NEW st, Shown(x), Products(x, st), NEW sent
  PROVE  Products(Pay!WriteCompletion(x, sent), st)
<1> DEFINE y == [x EXCEPT !.note = Pay!NoNote]
           z == [y EXCEPT !.pub.expected = @ \ {x.pub.next}, !.pub.ticks = PublishTicks]
           w == Pay!WriteCompletion(x, sent)
<1>0. DOMAIN x = PFields
  BY DEF Shown, Shape
<1>1. SameP(x, y, {"note"}) /\ y.note = Pay!NoNote
  BY <1>0 DEF SameP, PFields
<1>2. /\ y.pubs = x.pubs /\ y.pub = x.pub /\ y.queue = x.queue /\ y.catalog = x.catalog
      /\ y.manifest = x.manifest /\ y.state = x.state /\ DOMAIN y = PFields
  BY <1>1, Zenon DEF SameP, PFields
<1>3. ASSUME NEW p, NEW n \in Nat, p.active => p.id # 0 \/ p.next \in Nat
      PROVE  NoteFits(Pay!NoNote, p, n)
  BY <1>3 DEF NoteFits, Notes, Pay!NoNote
<1>4. NoteFits(y.note, y.pub, y.pubs)
  <2>1. x.pubs \in Nat /\ (x.pub.active => x.pub.next \in Nat)
    BY Zenon DEF Products, Expects
  <2> QED
    BY <1>1, <1>2, <1>3, <2>1, Zenon
<1>5. CASE x.note = Pay!NoNote \/ ~Pay!Confirms(x.pub, x.note)
  <2>1. w = y
    BY <1>5 DEF Pay!WriteCompletion
  <2> HIDE DEF y
  <2>2. Products(y, st)
    BY <1>1, <1>2, <1>4, Zenon DEF Products
  <2> QED
    BY <2>1, <2>2, Zenon
<1>6. CASE ~(x.note = Pay!NoNote \/ ~Pay!Confirms(x.pub, x.note))
  <2>0. /\ x.pub.active /\ DOMAIN x.pub = PubFields /\ x.state = "PUBLISHING"
        /\ x.note.id = x.pub.id /\ x.note.slice \in x.pub.expected
    BY <1>6 DEF Pay!Confirms, Shown, Shape, PubShape, Pay!NoPublish
  <2>1. /\ Expects(x.pub, st, x.pub.next) /\ x.note \in st /\ x.note \in Notes
        /\ x.note.slice <= x.pub.next
    BY <1>6, <2>0, Zenon DEF Products, NoteFits
  <2>2. x.note.slice = x.pub.next /\ Slice(x.pub.id, x.pub.next) = x.note
    BY <2>0, <2>1 DEF Expects, Notes, Slice
  <2>3. z = [y EXCEPT !.pub = [[x.pub EXCEPT !.expected = x.pub.expected \ {x.pub.next}]
                                 EXCEPT !.ticks = PublishTicks]]
    BY <1>0, <1>2 DEF PFields
  <2> HIDE DEF y, z
  <2>4. SameP(y, z, {"pub"})
    BY <1>2, <2>3, Zenon DEF SameP
  <2>5. z.pub = [[x.pub EXCEPT !.expected = x.pub.expected \ {x.pub.next}] EXCEPT !.ticks = PublishTicks]
    BY <1>2, <2>3 DEF PFields
  <2>6. /\ DOMAIN z.pub = PubFields /\ z.pub.active = TRUE /\ z.pub.id = x.pub.id
        /\ z.pub.kind = x.pub.kind /\ z.pub.next = x.pub.next /\ z.pub.entry = x.pub.entry
        /\ z.pub.expected = x.pub.expected \ {x.pub.next}
    BY <2>0, <2>5 DEF PubFields, Shown, Shape, PubShape, Pay!NoPublish
  <2>7. /\ z.pubs = x.pubs /\ z.queue = x.queue /\ z.catalog = x.catalog
        /\ z.manifest = x.manifest /\ z.state = "PUBLISHING" /\ DOMAIN z = PFields
        /\ z.note = Pay!NoNote
    BY <1>1, <1>2, <2>0, <2>4, Zenon DEF SameP, PFields
  <2>8. Expects(z.pub, st, z.pub.next + 1) /\ Expects(z.pub, st, z.pub.next)
    <3>1. x.pub.next \in Nat /\ \A n \in x.pub.expected : n \in Int /\ n >= x.pub.next
      BY <2>1, Zenon DEF Expects
    <3>2. \A n \in z.pub.expected : n \in Int /\ n >= z.pub.next + 1 /\ n >= z.pub.next
      BY <2>6, <3>1
    <3>3. \A n \in 1 .. Slices[z.pub.kind] : n \in z.pub.expected \/ Slice(z.pub.id, n) \in st
      BY <2>1, <2>2, <2>6, Zenon DEF Expects
    <3> QED
      BY <2>1, <2>6, <3>2, <3>3, Zenon DEF Expects
  <2>9. ASSUME NEW v, NoteFits(v, x.pub, x.pubs) PROVE NoteFits(v, z.pub, z.pubs)
    BY <2>0, <2>6, <2>7, <2>9, Zenon DEF NoteFits
  <2>10. NoteFits(z.note, z.pub, z.pubs)
    <3>1. x.pubs \in Nat /\ x.pub.next \in Nat
      BY <2>1, Zenon DEF Products, Expects
    <3> QED
      BY <1>3, <2>6, <2>7, <3>1, Zenon
  <2>11. Products(z, st)
    BY <2>0, <2>6, <2>7, <2>8, <2>9, <2>10, Zenon DEF Products
  <2>12. Shown(z) /\ z.pub.active
    BY <2>6, <2>7, Zenon DEF Shown, Shape, PubShape
  <2>13. \/ w = z \/ w = Pay!SendSlice(z) \/ w = Pay!Finalize(z, FALSE)
         \/ w = Pay!Finalize(z, TRUE) /\ z.pub.expected = {}
    BY <1>6 DEF Pay!WriteCompletion, y, z
  <2>14. ASSUME NEW ok \in BOOLEAN, ok => z.pub.expected = {} PROVE Products(Pay!Finalize(z, ok), st)
    BY <2>11, <2>12, <2>14, FinalizeProducts, Zenon
  <2>15. Products(Pay!Finalize(z, FALSE), st)
    BY <2>14
  <2>16. z.pub.expected = {} => Products(Pay!Finalize(z, TRUE), st)
    BY <2>14
  <2>17. Products(Pay!SendSlice(z), st)
    BY <2>8, <2>11, <2>12, SendSliceProducts, Zenon
  <2> QED
    BY <2>11, <2>13, <2>15, <2>16, <2>17, Zenon
<1> QED
  BY <1>5, <1>6, Zenon

\* The countdown of a publish.
LEMMA PublishTimeoutProducts ==
  ASSUME NEW x, NEW st, Shown(x), Products(x, st)
  PROVE  Products(Pay!PublishTimeout(x), st)
<1> DEFINE w == Pay!PublishTimeout(x)
           z == [x EXCEPT !.pub.ticks = @ - 1]
           ok == FALSE
<1>0. DOMAIN x = PFields
  BY DEF Shown, Shape
<1>1. w = x \/ (x.pub.active /\ w = Pay!Finalize(x, ok)) \/ (x.pub.active /\ w = z)
  BY Zenon DEF Pay!PublishTimeout
<1>2. ok \in BOOLEAN /\ (ok => x.pub.expected = {})
  OBVIOUS
<1> HIDE DEF ok
<1>3. CASE x.pub.active /\ w = Pay!Finalize(x, ok)
  BY <1>2, <1>3, FinalizeProducts, Zenon
<1>4. CASE x.pub.active /\ w = z
  <2>0. DOMAIN x.pub = PubFields
    BY <1>4 DEF Shown, Shape, PubShape, Pay!NoPublish
  <2>1. z = [x EXCEPT !.pub = [x.pub EXCEPT !.ticks = x.pub.ticks - 1]]
    BY <1>0
  <2>2. /\ z.pub = [x.pub EXCEPT !.ticks = x.pub.ticks - 1]
        /\ z.pubs = x.pubs /\ z.queue = x.queue /\ z.catalog = x.catalog
        /\ z.manifest = x.manifest /\ z.note = x.note
    BY <1>0, <2>1 DEF PFields
  <2> HIDE DEF z
  <2>3. /\ z.pub.active = x.pub.active /\ z.pub.id = x.pub.id
        /\ z.pub.kind = x.pub.kind /\ z.pub.next = x.pub.next /\ z.pub.entry = x.pub.entry
        /\ z.pub.expected = x.pub.expected
    BY <2>0, <2>2 DEF PubFields
  <2>4. ASSUME NEW v, NoteFits(v, x.pub, x.pubs) PROVE NoteFits(v, z.pub, z.pubs)
    BY <2>2, <2>3, <2>4, Zenon DEF NoteFits
  <2>5. z.pub.active => Expects(z.pub, st, z.pub.next)
    BY <2>3, Zenon DEF Products, Expects
  <2>6. Products(z, st)
    BY <2>2, <2>3, <2>4, <2>5, Zenon DEF Products
  <2> QED
    BY <1>4, <2>6, Zenon
<1> QED
  BY <1>1, <1>3, <1>4, Zenon

\* y has the data products of x.
SameProducts(x, y) == \A f \in ProductFields : y[f] = x[f]

\* startForcedCleanupIfNeeded_ starts or cancels an operation, nothing else.
LEMMA CleanupProducts ==
  ASSUME NEW x, DOMAIN x = PFields, NEW y \in Pay!ForcedCleanup(x)
  PROVE  SameProducts(x, y)
<1> DEFINE z == [x EXCEPT !.forced = TRUE, !.state = "ABORTING"]
<1>1. SameP(x, z, {"forced", "state"})
  BY Zenon DEF SameP
<1>2. \/ y = x
      \/ y \in Pay!RequestAbort(z)
      \/ y = Pay!Begin(z, "ABORT", Pay!NoSettings)
  BY Zenon DEF Pay!ForcedCleanup
<1> HIDE DEF z
<1>3. SameProducts(x, z) /\ DOMAIN z = PFields
  BY <1>1 DEF SameP, PFields, ProductFields, SameProducts
<1>4. CASE y = x
  BY <1>4, Zenon DEF SameProducts
<1>5. CASE y \in Pay!RequestAbort(z)
  <2>1. PICK k \in Pay!Killed(z.helper) : y = [z EXCEPT !.cancel = TRUE, !.helper = k]
    BY <1>5, Zenon DEF Pay!RequestAbort, Pay!DriverAbort
  <2> QED
    BY <1>3, <2>1 DEF PFields, ProductFields, SameProducts
<1>6. CASE y = Pay!Begin(z, "ABORT", Pay!NoSettings)
  BY <1>3, <1>6 DEF Pay!Begin, PFields, ProductFields, SameProducts
<1> QED
  BY <1>2, <1>4, <1>5, <1>6, Zenon

\* The commands that publish nothing and the steps of the worker.
LEMMA OperationProducts ==
  ASSUME DOMAIN u = PFields,
         \/ \E res \in Resolutions : Pay!SetCameraDefaults(res)
         \/ \E kind \in Pay!ReadyKinds : Pay!Prepare(kind)
         \/ \E i \in Indexes : Pay!CaptureStill(i) \/ Pay!CaptureRaw(i)
         \/ Pay!Abort \/ Pay!Shutdown \/ Pay!RegisterAccess \/ Pay!Worker \/ Pay!SetMode
  PROVE  SameProducts(u, u') /\ stored' = stored
<1>1. ASSUME NEW res, Pay!SetCameraDefaults(res) PROVE SameProducts(u, u') /\ stored' = stored
  BY <1>1 DEF Pay!SetCameraDefaults, PFields, ProductFields, SameProducts
<1>2. ASSUME NEW kind, Pay!Prepare(kind) PROVE SameProducts(u, u') /\ stored' = stored
  BY <1>2 DEF Pay!Prepare, Pay!Begin, PFields, ProductFields, SameProducts
<1>3. ASSUME NEW i, NEW kind, Pay!Capture(i, kind) PROVE SameProducts(u, u') /\ stored' = stored
  BY <1>3 DEF Pay!Capture, Pay!Begin, PFields, ProductFields, SameProducts
<1>4. CASE Pay!Abort
  <2>1. PICK x \in IF u.busy THEN Pay!RequestAbort(u) ELSE {Pay!Begin(u, "ABORT", Pay!NoSettings)} :
          u' = [x EXCEPT !.abort = TRUE, !.state = "ABORTING"]
    BY <1>4, Zenon DEF Pay!Abort
  <2>2. SameProducts(u, x) /\ DOMAIN x = PFields
    <3>1. CASE x = Pay!Begin(u, "ABORT", Pay!NoSettings)
      BY <3>1 DEF Pay!Begin, PFields, ProductFields, SameProducts
    <3>2. CASE x \in Pay!RequestAbort(u)
      <4>1. PICK k \in Pay!Killed(u.helper) : x = [u EXCEPT !.cancel = TRUE, !.helper = k]
        BY <3>2, Zenon DEF Pay!RequestAbort, Pay!DriverAbort
      <4> QED
        BY <4>1 DEF PFields, ProductFields, SameProducts
    <3> QED
      BY <2>1, <3>1, <3>2
  <2>3. SameProducts(x, u')
    BY <2>1, <2>2 DEF PFields, ProductFields, SameProducts
  <2> QED
    BY <1>4, <2>2, <2>3, Zenon DEF SameProducts, Pay!Abort
<1>5. CASE Pay!Shutdown
  BY <1>5 DEF Pay!Shutdown, Pay!Begin, PFields, ProductFields, SameProducts
<1>6. CASE Pay!RegisterAccess
  <2>1. PICK a \in Pay!DriverRegister(u.helper) : u' = [u EXCEPT !.helper = a.helper]
    BY <1>6, Zenon DEF Pay!RegisterAccess
  <2> QED
    BY <1>6, <2>1 DEF PFields, ProductFields, SameProducts, Pay!RegisterAccess
<1>7. ASSUME NEW x, DOMAIN x = PFields, NEW result, NEW prepared PROVE SameProducts(x, Pay!Finish(x, result, prepared))
  BY <1>7 DEF Pay!Finish, PFields, ProductFields, SameProducts
<1>8. CASE Pay!Worker
  <2>0. stored' = stored
    BY <1>8 DEF Pay!Worker, Pay!PowerUp, Pay!Settle, Pay!Drive, Pay!Undo, Pay!PowerDown
  <2>1. ASSUME NEW h, NEW result, u' = Pay!Finish([u EXCEPT !.helper = h], result, FALSE)
        PROVE  SameProducts(u, u')
    BY <2>1 DEF Pay!Finish, PFields, ProductFields, SameProducts
  <2>2. CASE Pay!PowerUp
    <3>1. CASE u' = Pay!Finish(u, "FAILED", FALSE)
      BY <1>7, <2>0, <3>1
    <3>2. CASE u' = [u EXCEPT !.pc = "SETTLE", !.asserted = TRUE]
      BY <2>0, <3>2 DEF PFields, ProductFields, SameProducts
    <3> QED
      BY <2>2, <3>1, <3>2, Zenon DEF Pay!PowerUp
  <2>3. CASE Pay!Settle
    BY <2>0, <2>3 DEF Pay!Settle, PFields, ProductFields, SameProducts
  <2>4. CASE Pay!Drive
    <3>1. PICK a \in Pay!Transact(u.helper, "PREPARE", u.cancel)
                      \cup Pay!Transact(u.helper, "CAPTURE", u.cancel) :
            u' = [(IF a.ok THEN Pay!Finish(u, "OK", TRUE) ELSE [u EXCEPT !.pc = "UNDO"])
                    EXCEPT !.helper = a.helper]
      BY <2>4, Zenon DEF Pay!Drive, Pay!DriverPrepare, Pay!DriverCapture
    <3> DEFINE x == IF a.ok THEN Pay!Finish(u, "OK", TRUE) ELSE [u EXCEPT !.pc = "UNDO"]
    <3>2. SameProducts(u, x) /\ DOMAIN x = PFields
      BY DEF Pay!Finish, PFields, ProductFields, SameProducts
    <3>3. u' = [x EXCEPT !.helper = a.helper]
      BY <3>1, Zenon
    <3> HIDE DEF x
    <3>4. SameProducts(x, u')
      BY <3>2, <3>3 DEF PFields, ProductFields, SameProducts
    <3> QED
      BY <2>0, <3>2, <3>4, Zenon DEF SameProducts
  <2>5. CASE Pay!Undo
    <3>1. PICK down \in Pay!DriverShutdown(u.helper), result \in {"ABORTED", "FAILED"} :
            u' = Pay!Finish([u EXCEPT !.helper = down.helper], result, FALSE)
      BY <2>5, Zenon DEF Pay!Undo
    <3> QED
      BY <2>0, <2>1, <3>1, Zenon
  <2>6. CASE Pay!PowerDown
    <3>1. PICK down \in Pay!DriverShutdown(u.helper), result \in {"OK", "FAILED"} :
            u' = Pay!Finish([u EXCEPT !.helper = down.helper], result, FALSE)
      BY <2>6, Zenon DEF Pay!PowerDown
    <3> QED
      BY <2>0, <2>1, <3>1, Zenon
  <2> QED
    BY <1>8, <2>0, <2>2, <2>3, <2>4, <2>5, <2>6, Zenon DEF Pay!Worker
<1>9. CASE Pay!SetMode
  BY <1>9, Zenon DEF Pay!SetMode, SameProducts
<1> QED
  BY <1>1, <1>2, <1>3, <1>4, <1>5, <1>6, <1>8, <1>9, Zenon DEF Pay!CaptureStill, Pay!CaptureRaw

\* schedIn_handler.
LEMMA SchedTickProducts ==
  ASSUME Cam(u, rail), Products(u, stored), Pay!SchedTick
  PROVE  Products(u', stored')
<1>1. PICK c \in Pay!ForcedCleanup(u), outcome \in Pay!PublishOutcomes :
        u' = Pay!PublishTimeout(Pay!WriteCompletion(Pay!Polled(c, outcome), outcome # "NO_BUFFER"))
  BY Zenon DEF Pay!SchedTick
<1> DEFINE p == Pay!Polled(c, outcome)
           w == Pay!WriteCompletion(p, outcome # "NO_BUFFER")
<1>2. Cam(c, rail) /\ DOMAIN u = PFields
  BY CleanupKeepsCam, Zenon DEF Cam, Shown, Shape
<1>3. Products(c, stored)
  <2>1. SameProducts(u, c)
    BY <1>2, CleanupProducts, Zenon
  <2> QED
    BY <2>1, OthersKeepProducts, Zenon DEF SameProducts
<1>4. Cam(p, rail)
  BY <1>2, PolledKeepsCam, Zenon
<1>5. Products(p, stored)
  <2>1. CASE ~c.done
    BY <1>3, <2>1, Zenon DEF Pay!Polled
  <2>2. CASE c.done
    <3>1. ~c.pub.active /\ Shown(c)
      BY <1>2, <2>2, Zenon DEF Cam, Rests
    <3> QED
      BY <1>3, <2>2, <3>1, CompletedProducts, Zenon DEF Pay!Polled
  <2> QED
    BY <2>1, <2>2, Zenon
<1> HIDE DEF p
<1>6. Shown(p)
  BY <1>4, Zenon DEF Cam
<1>7. Products(w, stored)
  BY <1>5, <1>6, WriteCompletionProducts, Zenon
<1>8. Shown(w)
  <2>1. PublishedTo(p, w, Phase(p))
    BY <1>6, WriteCompletionEffect
  <2> QED
    BY <2>1, Zenon DEF PublishedTo, SameP, Shown, Shape
<1> HIDE DEF w
<1>9. Products(Pay!PublishTimeout(w), stored)
  BY <1>7, <1>8, PublishTimeoutProducts, Zenon
<1>10. u' = Pay!PublishTimeout(w) /\ stored' = stored
  BY <1>1, Zenon DEF w, p, Pay!SchedTick
<1> QED
  BY <1>9, <1>10, Zenon

\* PAYLOAD_PUBLISH_CAPTURE of a capture whose manifest can be read.
LEMMA PublishProducts ==
  ASSUME Shown(u), Products(u, stored), NEW i \in Indexes, NEW kind \in Pay!Kinds, Pay!Publish(i, kind)
  PROVE  Products(u', stored')
<1> DEFINE after == IF u.state = "PUBLISHING" THEN "READY" ELSE u.state
<1>1. PICK outcome \in Pay!PublishOutcomes :
        LET t == Pay!StartPublish(u, i, Pay!Manifest(i), kind, after, outcome)
        IN  u' = IF outcome = "SENT" THEN [t EXCEPT !.active = "PUBLISH_CAPTURE"] ELSE t
  BY Zenon DEF Pay!Publish
<1>2. ~u.pub.active /\ stored' = stored /\ Pay!Manifest(i) \notin {Pay!NoEntry, Pay!Torn}
  BY Zenon DEF Pay!Publish, Pay!WorkInProgress
<1>3. Real(Pay!Manifest(i), stored)
  BY <1>2, Zenon DEF Pay!Manifest, Products, Listed
<1> DEFINE t == Pay!StartPublish(u, i, Pay!Manifest(i), kind, after, outcome)
<1> HIDE DEF after
<1>4. Products(t, stored)
  BY <1>2, <1>3, StartPublishProducts, Zenon
<1>5. DOMAIN t = PFields
  <2>1. PublishedTo(u, t, after) \/ PublishedTo(u, t, u.state)
    BY <1>2, StartPublishEffect, Zenon
  <2> QED
    BY <2>1, Zenon DEF PublishedTo, SameP
<1> HIDE DEF t
<1>6. u' = t \/ u' = [t EXCEPT !.active = "PUBLISH_CAPTURE"]
  BY <1>1, Zenon DEF t, after
<1>7. SameProducts(t, u')
  BY <1>5, <1>6 DEF PFields, ProductFields, SameProducts
<1> QED
  BY <1>2, <1>4, <1>7, OthersKeepProducts, Zenon DEF SameProducts

\* The writer takes the head of its queue: it stores it and calls dpWrittenIn,
\* or it drops it.
LEMMA WriterProducts ==
  ASSUME DOMAIN u = PFields, Products(u, stored), Pay!Written \/ Pay!WriteLost
  PROVE  Products(u', stored')
<1> DEFINE h == Head(u.queue)
<1>1. u.queue # <<>> /\ u.queue \in Seq(Notes)
  BY Zenon DEF Pay!Written, Pay!WriteLost, Products
<1>2. h = u.queue[1] /\ 1 \in 1 .. Len(u.queue)
  BY <1>1
<1>3. NoteFits(h, u.pub, u.pubs)
  BY <1>2, Zenon DEF Products
<1>4. /\ Tail(u.queue) \in Seq(Notes) /\ Len(Tail(u.queue)) = Len(u.queue) - 1
      /\ Len(u.queue) \in Nat
      /\ \A j \in 1 .. Len(Tail(u.queue)) : Tail(u.queue)[j] = u.queue[j + 1]
  BY <1>1
<1>5. ASSUME NEW j \in 1 .. Len(Tail(u.queue)) PROVE NoteFits(Tail(u.queue)[j], u.pub, u.pubs)
  <2>1. j + 1 \in 1 .. Len(u.queue)
    BY <1>4
  <2> QED
    BY <1>4, <2>1, Zenon DEF Products
<1> HIDE DEF h
<1>6. /\ u'.queue = Tail(u.queue) /\ u'.pubs = u.pubs /\ u'.catalog = u.catalog
      /\ u'.manifest = u.manifest /\ u'.pub = u.pub
  BY DEF Pay!Written, Pay!WriteLost, PFields
<1>7. stored \subseteq stored' /\ (u'.note = u.note \/ (u'.note = h /\ h \in stored'))
  <2>1. CASE Pay!Written
    <3>1. u'.note = u.note \/ u'.note = h
      BY <2>1 DEF Pay!Written, PFields, h
    <3>2. stored' = stored \cup {h}
      BY <2>1, Zenon DEF Pay!Written, h
    <3> QED
      BY <3>1, <3>2
  <2>2. CASE Pay!WriteLost
    BY <2>2 DEF Pay!WriteLost, PFields
  <2> QED
    BY <2>1, <2>2, Zenon
<1>8. Products(u, stored')
  BY <1>7, StoredGrows, Zenon
<1>9. NoteFits(u'.note, u.pub, u.pubs) /\ (u'.note = Pay!NoNote \/ u'.note \in stored')
  BY <1>3, <1>7, <1>8, Zenon DEF Products
<1> QED
  BY <1>4, <1>5, <1>6, <1>8, <1>9, Zenon DEF Products

\* configureRuntime: no publish, nothing noted or queued, an empty catalog and
\* the manifests the storage holds.
LEMMA ConfiguredProducts ==
  ASSUME NEW asked, NEW m, NEW c, NEW n \in Nat, NEW st, Listed(m, st)
  PROVE  Products(Pay!Configured(asked, m, c, n), st)
<1> DEFINE x == Pay!Configured(asked, m, c, n)
<1>1. /\ x.pubs = n /\ x.catalog = [i \in Indexes |-> Pay!NoEntry] /\ x.manifest = m
      /\ x.pub = Pay!NoPublish /\ x.note = Pay!NoNote /\ x.queue = <<>>
  BY DEF Pay!Configured
<1> HIDE DEF x
<1>2. Listed(x.catalog, st)
  BY <1>1, Zenon DEF Listed
<1>3. ~x.pub.active
  BY <1>1 DEF Pay!NoPublish
<1>4. NoteFits(x.note, x.pub, x.pubs)
  BY <1>1, <1>3 DEF NoteFits, Notes, Pay!NoNote
<1>5. x.queue \in Seq(Notes) /\ \A j \in 1 .. Len(x.queue) : NoteFits(x.queue[j], x.pub, x.pubs)
  BY <1>1
<1>6. Products(x, st)
  BY <1>1, <1>2, <1>3, <1>4, <1>5, Zenon DEF Products
<1> QED
  BY <1>6, Zenon DEF x

\* The process dies in any state; a manifest being rewritten is left torn.
LEMMA RestartProducts ==
  ASSUME Products(u, stored), Pay!Restart
  PROVE  Products(u', stored')
<1> DEFINE F == {u.manifest} \cup
                    (IF u.pub.active THEN {[u.manifest EXCEPT ![u.pub.index] = Pay!Torn]} ELSE {})
           A == Pay!DriverCapabilities(Pay!NoHelper(u.helper.backend))
<1>1. u' \in {Pay!Configured(asked, f, u.captures, u.pubs) : asked \in A, f \in F}
  BY DEF Pay!Restart
<1>2. ASSUME NEW f \in F PROVE Listed(f, stored)
  <2>1. Listed(u.manifest, stored)
    BY Zenon DEF Products
  <2>2. Pay!Torn \in {Pay!NoEntry, Pay!Torn}
    BY Zenon
  <2>3. Listed([u.manifest EXCEPT ![u.pub.index] = Pay!Torn], stored)
    BY <2>1, <2>2, EntryListed, Zenon
  <2>4. f = u.manifest \/ f = [u.manifest EXCEPT ![u.pub.index] = Pay!Torn]
    BY <1>2, Zenon
  <2> QED
    BY <2>1, <2>3, <2>4, Zenon
<1> HIDE DEF A, F
<1>3. \E asked \in A, f \in F : u' = Pay!Configured(asked, f, u.captures, u.pubs)
  BY <1>1
<1>4. u.pubs \in Nat /\ stored' = stored
  BY Zenon DEF Products, Pay!Restart
<1> QED
  BY <1>2, <1>3, <1>4, ConfiguredProducts, Zenon

\* A capture listed as published, in memory or in the manifest a restart would
\* read, has every slice on storage: for every number of slices, captures,
\* publishes and restarts, and however late, lost or foreign the calls of the
\* writer are.
THEOREM PublishedBacked == Pay!Spec => []Pay!PublishedIsWritten
<1> DEFINE Inv == Cam(u, rail) /\ Products(u, stored)
<1>1. Pay!Init => Inv
  <2> SUFFICES ASSUME Pay!Init PROVE Inv
    OBVIOUS
  <2>1. PICK backend \in Pay!Backends :
          \E asked \in Pay!DriverCapabilities(Pay!NoHelper(backend)) :
            u = Pay!Configured(asked, [i \in Indexes |-> Pay!NoEntry], 0, 0)
    BY Zenon DEF Pay!Init
  <2>2. Cam(u, rail)
    BY <2>1, ConfiguredCam, Zenon
  <2> DEFINE none == [i \in Indexes |-> Pay!NoEntry]
             zero == 0
  <2>3. Listed(none, stored) /\ zero \in Nat
    BY DEF Listed
  <2> HIDE DEF none, zero
  <2>4. \E asked : u = Pay!Configured(asked, none, zero, zero)
    BY <2>1, Zenon DEF none, zero
  <2>5. Products(u, stored)
    BY <2>3, <2>4, ConfiguredProducts, Zenon
  <2> QED
    BY <2>2, <2>5, Zenon
<1>2. Inv /\ [Pay!Next]_(Pay!vars) => Inv'
  <2> SUFFICES ASSUME Inv, [Pay!Next]_(Pay!vars) PROVE Inv'
    OBVIOUS
  <2>0. DOMAIN u = PFields /\ Shown(u)
    BY Zenon DEF Cam, Shown, Shape
  <2>1. CASE UNCHANGED Pay!vars
    BY <2>1, Zenon DEF Pay!vars
  <2>2. CASE Pay!Next
    <3>1. Cam(u', rail')
      BY <2>2, SchedTickKeepsCam, WorkerKeepsCam, OperationKeepsCam, OtherKeepsCam,
         RestartKeepsCam, Zenon DEF Pay!Next, Pay!Command
    <3>2. Products(u', stored')
      <4>1. ASSUME SameProducts(u, u'), stored' = stored PROVE Products(u', stored')
        BY <4>1, OthersKeepProducts, Zenon DEF SameProducts
      <4> QED
        BY <2>0, <2>2, <4>1, SchedTickProducts, OperationProducts, PublishProducts, WriterProducts,
           RestartProducts, Zenon DEF Pay!Next, Pay!Command
    <3> QED
      BY <3>1, <3>2, Zenon
  <2> QED
    BY <2>1, <2>2, Zenon
<1>3. Inv => Pay!PublishedIsWritten
  <2> SUFFICES ASSUME Products(u, stored), NEW i \in Indexes, NEW entry \in {u.catalog[i], u.manifest[i]},
                      entry \notin {Pay!NoEntry, Pay!Torn}, NEW k \in Pay!Kinds, entry.published[k],
                      NEW n \in 1 .. Slices[k]
               PROVE  [id |-> entry.product[k], slice |-> n] \in stored
    BY Zenon DEF Pay!PublishedIsWritten
  <2>1. Real(entry, stored)
    BY Zenon DEF Products, Listed
  <2> QED
    BY <2>1, Zenon DEF Real, Backed, Slice
<1> QED
  BY <1>1, <1>2, <1>3, PTL DEF Pay!Spec
=============================================================================
