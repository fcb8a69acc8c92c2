-------------------------- MODULE BootManagerProofs --------------------------
(***************************************************************************)
(* Proofs about BootManager for every bound, every window and threshold.   *)
(*                                                                         *)
(* Type correctness and SlotsAgree hold for every way a save may fail and  *)
(* with overlapping threads.  Their invariant speaks of every copy of the  *)
(* metadata: in memory, in the saves under way and in the file.            *)
(*                                                                         *)
(* The version floor and the recorded intent need threads that do not      *)
(* overlap and saves that fail without touching the file.                  *)
(***************************************************************************)
EXTENDS BootManager, TLAPS

\* What the file may hold: an update half done only if load will roll it back.
FileAgrees(d) == ~IsPending(d) => SlotsAgreeIn(d)

IInv ==
  /\ TypeOK
  /\ SlotsAgreeIn(meta)
  /\ \A t \in Threads : SlotsAgreeIn(saving[t].content) /\ SlotsAgreeIn(saving[t].previous)
  /\ FileAgrees(file.data)

\* The initial values are a metadata record with nothing on trial.
LEMMA DefaultAgrees == Default \in Metadata /\ SlotsAgreeIn(Default)
  BY BootAssumption DEF Default, Metadata, Slots, Versions, TrustStatus, SlotsAgreeIn, IsPending

\* The staging steps of BOOT_PREPARE, BOOT_VERIFY and BOOT_ACTIVATE keep the
\* type of the record and the agreement of its slots.
LEMMA StagingAgrees ==
  ASSUME NEW m \in Metadata, NEW v \in Versions, SlotsAgreeIn(m)
  PROVE  /\ ClearStagedTrust(m) \in Metadata /\ SlotsAgreeIn(ClearStagedTrust(m))
         /\ [ClearStagedTrust(m) EXCEPT !.prepared = TRUE] \in Metadata
         /\ SlotsAgreeIn([ClearStagedTrust(m) EXCEPT !.prepared = TRUE])
         /\ RejectTrust(m, v) \in Metadata /\ SlotsAgreeIn(RejectTrust(m, v))
         /\ Staged(m, v) \in Metadata /\ SlotsAgreeIn(Staged(m, v))
  <1>0. 0 \in Versions
    BY BootAssumption DEF Versions
  <1>1. ClearStagedTrust(m) \in Metadata /\ SlotsAgreeIn(ClearStagedTrust(m))
    BY <1>0 DEF Metadata, TrustStatus, ClearStagedTrust, SlotsAgreeIn, IsPending
  <1>2. /\ [ClearStagedTrust(m) EXCEPT !.prepared = TRUE] \in Metadata
        /\ SlotsAgreeIn([ClearStagedTrust(m) EXCEPT !.prepared = TRUE])
    <2> HIDE DEF ClearStagedTrust
    <2> QED BY <1>1 DEF Metadata, SlotsAgreeIn, IsPending
  <1>3. RejectTrust(m, v) \in Metadata /\ SlotsAgreeIn(RejectTrust(m, v))
    BY DEF Metadata, TrustStatus, RejectTrust, SlotsAgreeIn, IsPending
  <1>4. Staged(m, v) \in Metadata /\ SlotsAgreeIn(Staged(m, v))
    BY DEF Metadata, TrustStatus, Staged, SlotsAgreeIn, IsPending
  <1> QED BY <1>1, <1>2, <1>3, <1>4

\* Activation, confirmation and rollback each produce a record whose slots agree.
\* Rollback needs nothing of the record it starts from.
LEMMA SwitchingAgrees ==
  ASSUME NEW m \in Metadata
  PROVE  /\ Activated(m) \in Metadata /\ SlotsAgreeIn(Activated(m))
         /\ ConfirmUpdate(m) \in Metadata /\ SlotsAgreeIn(ConfirmUpdate(m))
         /\ Rollback(m) \in Metadata /\ SlotsAgreeIn(Rollback(m))
  <1>0. 0 \in Versions
    BY BootAssumption DEF Versions
  <1>1. Activated(m) \in Metadata /\ SlotsAgreeIn(Activated(m))
    BY DEF Metadata, Slots, TrustStatus, Activated, InactiveSlot, SlotsAgreeIn, IsPending
  <1>2. ConfirmUpdate(m) \in Metadata /\ SlotsAgreeIn(ConfirmUpdate(m))
    BY <1>0 DEF Metadata, Slots, TrustStatus, ConfirmUpdate, SlotsAgreeIn, IsPending
  <1>3. Rollback(m) \in Metadata /\ SlotsAgreeIn(Rollback(m))
    BY <1>0 DEF Metadata, Slots, TrustStatus, Rollback, SlotsAgreeIn, IsPending
  <1> QED BY <1>1, <1>2, <1>3

\* The recovery bookkeeping keeps the type of the record and touches no slot.
LEMMA BookkeepingAgrees ==
  ASSUME NEW m \in Metadata, SlotsAgreeIn(m)
  PROVE  /\ Started(m) \in Metadata /\ SlotsAgreeIn(Started(m))
         /\ [m EXCEPT !.resetPending = TRUE] \in Metadata
         /\ SlotsAgreeIn([m EXCEPT !.resetPending = TRUE])
         /\ [m EXCEPT !.consecutive = 0, !.fallback = FALSE] \in Metadata
         /\ SlotsAgreeIn([m EXCEPT !.consecutive = 0, !.fallback = FALSE])
  <1>1. StartCount(m) \in 0 .. CountMax
    BY BootAssumption DEF StartCount, SaturatingIncrement, Metadata
  <1>2. Started(m) \in Metadata /\ SlotsAgreeIn(Started(m))
    <2>1. (StartCount(m) >= Threshold) \in BOOLEAN
      OBVIOUS
    <2> QED BY <1>1, <2>1 DEF Started, Metadata, SlotsAgreeIn, IsPending
  <1>3. /\ [m EXCEPT !.resetPending = TRUE] \in Metadata
        /\ SlotsAgreeIn([m EXCEPT !.resetPending = TRUE])
    BY DEF Metadata, SlotsAgreeIn, IsPending
  <1>4. /\ [m EXCEPT !.consecutive = 0, !.fallback = FALSE] \in Metadata
        /\ SlotsAgreeIn([m EXCEPT !.consecutive = 0, !.fallback = FALSE])
    <2>1. 0 \in 0 .. CountMax
      BY BootAssumption
    <2> QED BY <2>1 DEF Metadata, SlotsAgreeIn, IsPending
  <1> QED BY <1>2, <1>3, <1>4

\* A record cut short keeps its type, and either has nothing on trial and
\* agrees, or will be rolled back by load.
LEMMA CutAgrees ==
  ASSUME NEW m \in Metadata, SlotsAgreeIn(m)
  PROVE  /\ WithoutRecovery(m) \in Metadata /\ FileAgrees(WithoutRecovery(m))
         /\ WithoutTrust(m) \in Metadata /\ FileAgrees(WithoutTrust(m))
  <1>0. 0 \in Versions /\ 0 \in 0 .. CountMax
    BY BootAssumption DEF Versions
  <1>1. /\ WithoutRecovery(m) \in Metadata
        /\ SlotsAgreeIn(WithoutRecovery(m))
    BY <1>0 DEF Metadata, WithoutRecovery, SlotsAgreeIn, IsPending
  <1>2. WithoutTrust(m) \in Metadata /\ FileAgrees(WithoutTrust(m))
    <2> DEFINE w == WithoutRecovery(m)
    <2>1. w.confirmed = m.confirmed
      BY DEF WithoutRecovery, Metadata
    <2>2. WithoutTrust(m) =
            [w EXCEPT !.verified = FALSE,
               !.trust = IF w.confirmed THEN "CONFIRMED" ELSE "UNVERIFIED",
               !.staged = 0, !.activeV = 0, !.pendingV = 0, !.lkgV = 0, !.accepted = 0]
      BY <2>1 DEF WithoutTrust
    <2>3. w \in Metadata /\ SlotsAgreeIn(w)
      BY <1>1
    <2> DEFINE s == IF w.confirmed THEN "CONFIRMED" ELSE "UNVERIFIED"
    <2>4. s \in TrustStatus
      BY DEF TrustStatus
    <2>5. WithoutTrust(m) =
            [w EXCEPT !.verified = FALSE, !.trust = s,
               !.staged = 0, !.activeV = 0, !.pendingV = 0, !.lkgV = 0, !.accepted = 0]
      BY <2>2
    <2> HIDE DEF w, s
    <2>6. WithoutTrust(m) \in Metadata
      <3> DEFINE x == [w EXCEPT !.verified = FALSE, !.trust = s, !.staged = 0]
      <3>1. x \in Metadata
        BY <1>0, <2>3, <2>4 DEF Metadata
      <3>2. WithoutTrust(m) =
              [x EXCEPT !.activeV = 0, !.pendingV = 0, !.lkgV = 0, !.accepted = 0]
        BY <2>5
      <3> HIDE DEF x
      <3> QED BY <1>0, <3>1, <3>2 DEF Metadata
    <2>7. FileAgrees(WithoutTrust(m))
      BY <2>3, <2>5 DEF Metadata, FileAgrees, SlotsAgreeIn, IsPending
    <2> QED BY <2>6, <2>7
  <1> QED BY <1>1, <1>2 DEF FileAgrees

\* However a save ends, the file holds what load can make agree.
LEMMA WrittenAgrees ==
  ASSUME NEW f \in Files, FileAgrees(f.data), NEW m \in Metadata, SlotsAgreeIn(m), NEW o
  PROVE  Written(f, m, o) \in Files /\ FileAgrees(Written(f, m, o).data)
  <1>1. CASE o = "ok"
    BY <1>1 DEF Written, Files, FileAgrees
  <1>2. CASE o = "torn"
    BY <1>2, DefaultAgrees DEF Written, Files, FileAgrees
  <1>3. CASE o = "cutTrust"
    BY <1>3, CutAgrees DEF Written, Files
  <1>4. CASE o = "cutRecovery"
    BY <1>4, CutAgrees DEF Written, Files
  <1>5. CASE o \notin {"ok", "torn", "cutTrust", "cutRecovery"}
    BY <1>5 DEF Written
  <1> QED BY <1>1, <1>2, <1>3, <1>4, <1>5

\* Whatever is in the file, what load makes of it agrees.
LEMMA LoadedAgrees ==
  ASSUME NEW f \in Files, FileAgrees(f.data), NEW unreadable
  PROVE  LoadedFrom(f, unreadable) \in Metadata /\ SlotsAgreeIn(LoadedFrom(f, unreadable))
  <1>0. f.data \in Metadata
    BY DEF Files
  <1>1. CASE Readable(f, unreadable) /\ IsCoherent(f.data)
    BY <1>0, <1>1 DEF LoadedFrom, IsCoherent, SlotsAgreeIn, FileAgrees
  <1>2. CASE Readable(f, unreadable) /\ ~IsCoherent(f.data)
    BY <1>0, <1>2, SwitchingAgrees DEF LoadedFrom
  <1>3. CASE ~Readable(f, unreadable)
    BY <1>3, DefaultAgrees DEF LoadedFrom
  <1> QED BY <1>1, <1>2, <1>3

\* The window load sets is a window.
LEMMA ConfirmWindowType ==
  ASSUME NEW m
  PROVE  ConfirmWindow(m) \in 0 .. ConfirmTimeout
  BY BootAssumption DEF ConfirmWindow

\* A handler that saves keeps the invariant if the record it makes agrees.
LEMMA BeginKeepsIInv ==
  ASSUME IInv, NEW t \in Threads, NEW op \in Operations, NEW m \in Metadata,
         SlotsAgreeIn(m), Begin(t, op, m), remaining' \in 0 .. ConfirmTimeout
  PROVE  IInv'
  <1> DEFINE p == IF Undoes(op) THEN meta ELSE Default
  <1>1. p \in Metadata /\ SlotsAgreeIn(p)
    BY DefaultAgrees DEF IInv, TypeOK
  <1>2. saving' = [saving EXCEPT ![t] = [op |-> op, content |-> m, previous |-> p]]
    BY DEF Begin
  <1> HIDE DEF p
  <1>3. saving' \in [Threads -> Saves]
    BY <1>1, <1>2 DEF IInv, TypeOK, Saves
  <1>4. \A u \in Threads :
          SlotsAgreeIn(saving'[u].content) /\ SlotsAgreeIn(saving'[u].previous)
    BY <1>1, <1>2 DEF IInv, TypeOK
  <1>5. loop' \in Nat
    BY DEF Begin, IInv, TypeOK
  <1> QED BY <1>3, <1>4, <1>5 DEF Begin, IInv, TypeOK

\* The end of a save, failed or not, keeps the invariant.
LEMMA EndKeepsIInv ==
  ASSUME IInv, NEW t \in Threads, End(t)
  PROVE  IInv'
  <1>1. /\ saving[t] \in Saves
        /\ SlotsAgreeIn(saving[t].content) /\ SlotsAgreeIn(saving[t].previous)
    BY DEF IInv, TypeOK
  <1>2. saving[t].content \in Metadata /\ saving[t].previous \in Metadata
    BY <1>1 DEF Saves
  <1>3. PICK o \in {"ok"} \cup Faults :
          /\ file' = Written(file, saving[t].content, o)
          /\ meta' = IF o # "ok" /\ Undoes(saving[t].op) THEN saving[t].previous ELSE meta
          /\ intent' = (intent \/ (o = "ok" /\ saving[t].op = "intent"))
    BY DEF End
  <1>4. file' \in Files /\ FileAgrees(file'.data)
    BY <1>1, <1>2, <1>3, WrittenAgrees DEF IInv, TypeOK
  <1>5. meta' \in Metadata /\ SlotsAgreeIn(meta')
    BY <1>1, <1>2, <1>3 DEF IInv, TypeOK
  <1>6. NoSave \in Saves /\ SlotsAgreeIn(NoSave.content) /\ SlotsAgreeIn(NoSave.previous)
    BY DefaultAgrees DEF NoSave, Saves, Operations
  <1>7. saving' = [saving EXCEPT ![t] = NoSave]
    BY DEF End
  <1>8. /\ saving' \in [Threads -> Saves]
        /\ \A u \in Threads :
             SlotsAgreeIn(saving'[u].content) /\ SlotsAgreeIn(saving'[u].previous)
    <2> HIDE DEF NoSave
    <2> QED BY <1>6, <1>7 DEF IInv, TypeOK
  <1>9. intent' \in BOOLEAN
    BY <1>3
  <1> QED BY <1>4, <1>5, <1>8, <1>9 DEF End, IInv, TypeOK

\* A late loadOrInitializeMetadata_ keeps the invariant.
LEMMA LoadKeepsIInv ==
  ASSUME IInv, Load
  PROVE  IInv'
  <1>1. PICK unreadable \in UnreadableChoices, o \in BootOutcomes :
          LET m == LoadedFrom(file, unreadable)
          IN /\ loaded' = (MustRewrite(file, unreadable) => o = "ok")
             /\ file' = IF MustRewrite(file, unreadable) THEN Written(file, m, o) ELSE file
             /\ meta' = m
             /\ remaining' = ConfirmWindow(m)
    BY DEF Load
  <1>2. meta' \in Metadata /\ SlotsAgreeIn(meta')
    BY <1>1, LoadedAgrees DEF IInv, TypeOK
  <1>3. file' \in Files /\ FileAgrees(file'.data)
    BY <1>1, <1>2, WrittenAgrees DEF IInv, TypeOK
  <1>4. remaining' \in 0 .. ConfirmTimeout
    BY <1>1, ConfirmWindowType
  <1>5. loaded' \in BOOLEAN
    BY <1>1
  <1> QED BY <1>2, <1>3, <1>4, <1>5 DEF Load, IInv, TypeOK

\* What a stopped process leaves is a file that load can make agree.
LEMMA LeftAgrees ==
  ASSUME IInv, NEW f \in FilesLeft
  PROVE  f \in Files /\ FileAgrees(f.data)
  <1>1. CASE f = file
    BY <1>1 DEF IInv, TypeOK
  <1>2. CASE f # file
    <2>1. PICK t \in Threads, o \in {"ok"} \cup Faults :
            f = Written(file, saving[t].content, o)
      BY <1>2 DEF FilesLeft
    <2>2. saving[t].content \in Metadata /\ SlotsAgreeIn(saving[t].content)
      BY DEF IInv, TypeOK, Saves
    <2> QED BY <2>1, <2>2, WrittenAgrees DEF IInv, TypeOK
  <1> QED BY <1>1, <1>2

\* A new process finds or makes an agreeing record, whatever the last one left.
LEMMA StartKeepsIInv ==
  ASSUME IInv, Start
  PROVE  IInv'
  <1>1. PICK f \in FilesLeft, unreadable \in UnreadableChoices,
             o1 \in BootOutcomes, o2 \in BootOutcomes :
          LET m == LoadedFrom(f, unreadable)
              f1 == IF MustRewrite(f, unreadable) THEN Written(f, m, o1) ELSE f
          IN /\ loaded' = (MustRewrite(f, unreadable) => o1 = "ok")
             /\ file' = IF loaded' THEN Written(f1, Started(m), o2) ELSE f1
             /\ meta' = IF loaded' /\ o2 = "ok" THEN Started(m) ELSE m
             /\ remaining' = ConfirmWindow(m)
    BY DEF Start
  <1> DEFINE m == LoadedFrom(f, unreadable)
             f1 == IF MustRewrite(f, unreadable) THEN Written(f, m, o1) ELSE f
  <1>2. m \in Metadata /\ SlotsAgreeIn(m)
    BY LeftAgrees, LoadedAgrees
  <1>3. f1 \in Files /\ FileAgrees(f1.data)
    <2> HIDE DEF m
    <2>1. f \in Files /\ FileAgrees(f.data)
      BY LeftAgrees
    <2>2. Written(f, m, o1) \in Files /\ FileAgrees(Written(f, m, o1).data)
      BY <1>2, <2>1, WrittenAgrees
    <2> QED BY <2>1, <2>2
  <1>4. Started(m) \in Metadata /\ SlotsAgreeIn(Started(m))
    BY <1>2, BookkeepingAgrees
  <1>5. /\ loaded' \in BOOLEAN
        /\ file' = IF loaded' THEN Written(f1, Started(m), o2) ELSE f1
        /\ meta' = IF loaded' /\ o2 = "ok" THEN Started(m) ELSE m
        /\ remaining' = ConfirmWindow(m)
    BY <1>1
  <1> HIDE DEF m, f1
  <1>6. file' \in Files /\ FileAgrees(file'.data)
    BY <1>3, <1>4, <1>5, WrittenAgrees
  <1>7. meta' \in Metadata /\ SlotsAgreeIn(meta')
    BY <1>2, <1>4, <1>5
  <1>8. remaining' \in 0 .. ConfirmTimeout
    BY <1>5, ConfirmWindowType
  <1>9. NoSave \in Saves /\ SlotsAgreeIn(NoSave.content) /\ SlotsAgreeIn(NoSave.previous)
    BY DefaultAgrees DEF NoSave, Saves, Operations
  <1>10. /\ saving' \in [Threads -> Saves]
         /\ \A u \in Threads :
              SlotsAgreeIn(saving'[u].content) /\ SlotsAgreeIn(saving'[u].previous)
    <2> HIDE DEF NoSave
    <2> QED BY <1>9 DEF Start
  <1>11. starts' \in 0 .. MaxStarts /\ intent' \in BOOLEAN /\ loop' \in Nat
    <2>1. starts < MaxStarts /\ starts' = starts + 1 /\ intent' = FALSE
      BY DEF Start
    <2>2. starts' \in 0 .. MaxStarts
      BY <2>1, BootAssumption DEF IInv, TypeOK
    <2>3. loop' \in Nat
      BY DEF Start, IInv, TypeOK
    <2> QED BY <2>1, <2>2, <2>3
  <1> QED BY <1>5, <1>6, <1>7, <1>8, <1>10, <1>11 DEF IInv, TypeOK

\* A first installation satisfies the invariant.
LEMMA InitIInv == Init => IInv
  <1> SUFFICES ASSUME Init PROVE IInv
    OBVIOUS
  <1>1. meta = Default /\ file = [kind |-> "missing", data |-> Default]
    BY DEF Init
  <1>2. file \in Files /\ FileAgrees(file.data)
    BY <1>1, DefaultAgrees DEF Files, FileAgrees
  <1>3. NoSave \in Saves /\ SlotsAgreeIn(NoSave.content) /\ SlotsAgreeIn(NoSave.previous)
    BY DefaultAgrees DEF NoSave, Saves, Operations
  <1>4. /\ saving \in [Threads -> Saves]
        /\ \A u \in Threads : SlotsAgreeIn(saving[u].content) /\ SlotsAgreeIn(saving[u].previous)
    <2> HIDE DEF NoSave
    <2> QED BY <1>3 DEF Init
  <1>5. /\ loaded \in BOOLEAN /\ remaining \in 0 .. ConfirmTimeout
        /\ starts \in 0 .. MaxStarts /\ intent \in BOOLEAN /\ loop \in Nat
    <2>1. loaded = FALSE /\ intent = FALSE /\ remaining = 0 /\ starts = 0 /\ loop = 0
      BY DEF Init
    <2>2. remaining \in 0 .. ConfirmTimeout /\ starts \in 0 .. MaxStarts /\ loop \in Nat
      BY <2>1, BootAssumption
    <2>3. loaded \in BOOLEAN /\ intent \in BOOLEAN
      BY <2>1
    <2> QED BY <2>2, <2>3
  <1> QED BY <1>1, <1>2, <1>4, <1>5, DefaultAgrees DEF IInv, TypeOK

\* Every operation keeps the invariant.
LEMMA NextIInv == IInv /\ [Next]_vars => IInv'
  <1> SUFFICES ASSUME IInv, [Next]_vars PROVE IInv'
    OBVIOUS
  <1>0. /\ meta \in Metadata /\ SlotsAgreeIn(meta)
        /\ remaining \in 0 .. ConfirmTimeout
        /\ 0 \in 0 .. ConfirmTimeout /\ ConfirmTimeout \in 0 .. ConfirmTimeout
        /\ {"update", "intent", "ack"} \subseteq Operations
        /\ Threads = {"rg1", "rg2", "cmd"} /\ 0 \in Versions
    BY BootAssumption DEF IInv, TypeOK, Operations, Threads, Versions
  <1>1. CASE Start
    BY <1>1, StartKeepsIInv
  <1>2. CASE Load
    BY <1>2, LoadKeepsIInv
  <1>3. ASSUME NEW t \in Threads, End(t) PROVE IInv'
    BY <1>3, EndKeepsIInv
  <1>4. ASSUME NEW t \in Threads, RecordIntent(t) PROVE IInv'
    BY <1>0, <1>4, BookkeepingAgrees, BeginKeepsIInv DEF RecordIntent
  <1>5. CASE AcknowledgeStable
    BY <1>0, <1>5, BookkeepingAgrees, BeginKeepsIInv DEF AcknowledgeStable
  <1>6. CASE PrepareUpdate
    BY <1>0, <1>6, StagingAgrees, BeginKeepsIInv DEF PrepareUpdate
  <1>7. CASE VerifyMismatch
    <2>1. meta' \in Metadata /\ SlotsAgreeIn(meta')
      BY <1>0, <1>7, StagingAgrees DEF VerifyMismatch
    <2> QED BY <1>7, <2>1 DEF VerifyMismatch, IInv, TypeOK
  <1>8. ASSUME NEW v \in Versions, VerifyRejected(v) \/ ActivateRejected(v) PROVE IInv'
    BY <1>0, <1>8, StagingAgrees, BeginKeepsIInv DEF VerifyRejected, ActivateRejected
  <1>9. ASSUME NEW v \in Versions, VerifyAccepted(v) PROVE IInv'
    BY <1>0, <1>9, StagingAgrees, BeginKeepsIInv DEF VerifyAccepted
  <1>10. CASE Activate
    BY <1>0, <1>10, SwitchingAgrees, BeginKeepsIInv DEF Activate
  <1>11. CASE Confirm
    <2>1. PICK m \in {ConfirmUpdate(meta), Rollback(meta)} : Begin("cmd", "update", m)
      BY <1>11 DEF Confirm
    <2>2. m \in Metadata /\ SlotsAgreeIn(m)
      BY <1>0, SwitchingAgrees
    <2> QED BY <1>0, <1>11, <2>1, <2>2, BeginKeepsIInv DEF Confirm
  <1>12. CASE RollbackCommand
    BY <1>0, <1>12, SwitchingAgrees, BeginKeepsIInv DEF RollbackCommand
  <1>13. CASE CountDown
    <2>1. remaining' \in 0 .. ConfirmTimeout
      BY <1>0, <1>13, BootAssumption DEF CountDown
    <2> QED BY <1>13, <2>1 DEF CountDown, IInv, TypeOK
  <1>14. CASE ConfirmExpires
    BY <1>0, <1>14, SwitchingAgrees, BeginKeepsIInv DEF ConfirmExpires
  <1>15. CASE UNCHANGED vars
    BY <1>15 DEF vars, IInv, TypeOK
  <1> QED BY <1>1, <1>2, <1>3, <1>4, <1>5, <1>6, <1>7, <1>8, <1>9, <1>10, <1>11, <1>12,
             <1>13, <1>14, <1>15 DEF Next, SchedIn

\* Type correctness: every handler of BootManager leaves a well-formed record
\* in memory, in its save and in the file.
THEOREM TypeCorrect == Spec => []TypeOK
  <1>1. IInv => TypeOK
    BY DEF IInv
  <1> QED BY <1>1, InitIInv, NextIInv, PTL DEF Spec

\* Half an update is never left behind: SlotsAgree holds whatever saves fail,
\* in whatever way, and however the threads overlap.
THEOREM SlotsAlwaysAgree == Spec => []SlotsAgree
  <1>1. IInv => SlotsAgree
    BY DEF IInv, SlotsAgree
  <1> QED BY <1>1, InitIInv, NextIInv, PTL DEF Spec

----------------------------------------------------------------------------
(* One thread at a time, and saves that fail without touching the file *)

Careful == ~Overlap /\ Faults \subseteq {"kept"} /\ BootFaults \subseteq {"kept"}

\* The record a and everything made from it: at least the floor and, once an
\* intent was reported, the intent.
Carries(a) == file.data.accepted <= a.accepted /\ (intent => a.resetPending)

\* With one thread at a time a save under way writes what is in memory, and
\* what it would put back carries the same floor and intent.
SInv ==
  /\ IInv
  /\ file.kind \in {"missing", "ok"}
  /\ file.kind = "missing" => file.data = Default
  /\ IntentIsDurable
  /\ Carries(meta)
  /\ \A t, u \in Threads : ~Idle(t) /\ ~Idle(u) => t = u
  /\ \A t \in Threads : ~Idle(t) => /\ loaded /\ saving[t].content = meta
                                    /\ Undoes(saving[t].op) => Carries(saving[t].previous)
                                    /\ saving[t].op = "intent" => meta.resetPending

FloorStep == file.data.accepted <= file'.data.accepted

\* A first installation satisfies the stronger invariant.
LEMMA InitSInv == Init => SInv
  <1> SUFFICES ASSUME Init PROVE SInv
    OBVIOUS
  <1>1. IInv
    BY InitIInv
  <1>2. file = [kind |-> "missing", data |-> Default] /\ meta = Default /\ ~intent
    BY DEF Init
  <1>3. \A t \in Threads : Idle(t)
    BY DEF Init, Idle
  <1>4. Carries(meta)
    BY <1>2 DEF Carries, Default
  <1> QED BY <1>1, <1>2, <1>3, <1>4 DEF SInv, IntentIsDurable

\* A handler that lowers no floor and forgets no intent keeps it.
LEMMA BeginKeepsSInv ==
  ASSUME Careful, SInv, NEW t \in Threads, NEW op \in Operations \ {"none"},
         NEW m \in Metadata, SlotsAgreeIn(m), Begin(t, op, m),
         remaining' \in 0 .. ConfirmTimeout,
         meta.accepted <= m.accepted, meta.resetPending \/ op = "intent" => m.resetPending
  PROVE  SInv' /\ FloorStep
  <1> DEFINE p == IF Undoes(op) THEN meta ELSE Default
             s == [op |-> op, content |-> m, previous |-> p]
  <1>1. IInv'
    BY BeginKeepsIInv DEF SInv
  <1>2. /\ meta' = m /\ saving' = [saving EXCEPT ![t] = s]
        /\ loaded' /\ UNCHANGED <<file, intent>>
    BY DEF Begin, CanEnter
  <1>3. \A u \in Threads : Idle(u)
    BY DEF Begin, CanEnter, Careful
  <1>4. meta \in Metadata /\ file.data \in Metadata /\ saving \in [Threads -> Saves]
    BY DEF SInv, IInv, TypeOK, Files
  <1>5. /\ meta.accepted \in Nat /\ m.accepted \in Nat /\ file.data.accepted \in Nat
    BY <1>4 DEF Metadata, Versions
  <1>6. Carries(meta)' /\ Carries(meta)
    BY <1>2, <1>5 DEF SInv, Carries
  <1>7. Undoes(op) => p = meta
    OBVIOUS
  <1>8. s.op = op /\ s.content = m /\ s.previous = p
    OBVIOUS
  <1> HIDE DEF p, s
  <1>9. saving'[t] = s /\ \A u \in Threads \ {t} : saving'[u] = NoSave
    BY <1>2, <1>3, <1>4 DEF Idle
  <1>10. \A u, w \in Threads : ~Idle(u)' /\ ~Idle(w)' => u = w
    BY <1>9 DEF Idle
  <1>11. \A u \in Threads : ~Idle(u)' =>
           /\ loaded' /\ saving'[u].content = meta'
           /\ Undoes(saving'[u].op) => Carries(saving[u].previous)'
           /\ saving'[u].op = "intent" => meta'.resetPending
    <2>1. Undoes(op) => Carries(saving[t].previous)'
      BY <1>2, <1>6, <1>7, <1>8, <1>9 DEF Carries
    <2> QED BY <1>2, <1>8, <1>9, <2>1 DEF Idle
  <1>12. IntentIsDurable' /\ FloorStep
    BY <1>2, <1>5 DEF SInv, IntentIsDurable, FloorStep
  <1> QED BY <1>1, <1>2, <1>6, <1>10, <1>11, <1>12 DEF SInv

\* With careful faults a save either writes everything or nothing.
LEMMA WrittenWhole ==
  ASSUME NEW f, NEW m, NEW o \in {"ok", "kept"}
  PROVE  Written(f, m, o) = IF o = "ok" THEN [kind |-> "ok", data |-> m] ELSE f
  BY DEF Written

\* A file is whole if it was never written or parses.
Whole(f) == f \in Files /\ f.kind \in {"missing", "ok"} /\ (f.kind = "missing" => f.data = Default)

\* Loading a whole file keeps its floor.
LEMMA LoadedFloor ==
  ASSUME NEW f, Whole(f)
  PROVE  LoadedFrom(f, FALSE).accepted = f.data.accepted
  <1>0. f.data \in Metadata
    BY DEF Whole, Files
  <1>1. Rollback(f.data).accepted = f.data.accepted
    BY <1>0 DEF Rollback, Metadata
  <1> QED BY <1>1 DEF LoadedFrom, Readable, Whole

\* A save that ends writes memory's floor and intent, or nothing.
LEMMA EndKeepsSInv ==
  ASSUME Careful, SInv, NEW t \in Threads, End(t)
  PROVE  SInv' /\ FloorStep
  <1>1. IInv'
    BY EndKeepsIInv DEF SInv
  <1>2. PICK o \in {"ok", "kept"} :
          /\ file' = Written(file, saving[t].content, o)
          /\ meta' = IF o # "ok" /\ Undoes(saving[t].op) THEN saving[t].previous ELSE meta
          /\ intent' = (intent \/ (o = "ok" /\ saving[t].op = "intent"))
    BY DEF End, Careful
  <1>3. /\ saving[t].content = meta
        /\ Undoes(saving[t].op) => Carries(saving[t].previous)
        /\ saving[t].op = "intent" => meta.resetPending
    BY DEF SInv, End
  <1>4. \A u \in Threads : Idle(u)'
    BY DEF SInv, IInv, TypeOK, End, Idle
  <1>5. file.data.accepted \in Nat /\ meta.accepted \in Nat
    <2>1. file.data \in Metadata /\ meta \in Metadata
      BY DEF SInv, IInv, TypeOK, Files
    <2> QED BY <2>1 DEF Metadata, Versions
  <1>6. CASE o = "ok"
    <2>1. file' = [kind |-> "ok", data |-> meta] /\ meta' = meta
      BY <1>2, <1>3, <1>6, WrittenWhole
    <2>2. intent' => meta.resetPending
      BY <1>2, <1>3, <1>6 DEF SInv, Carries
    <2>3. Carries(meta)' /\ IntentIsDurable'
      BY <1>5, <2>1, <2>2 DEF Carries, IntentIsDurable
    <2>4. FloorStep
      BY <1>5, <2>1 DEF FloorStep, SInv, Carries
    <2> QED BY <1>1, <1>4, <2>1, <2>3, <2>4 DEF SInv
  <1>7. CASE o = "kept"
    <2>1. file' = file /\ intent' = intent
      BY <1>2, <1>7, WrittenWhole DEF SInv, IInv, TypeOK
    <2>2. Carries(meta)'
      BY <1>2, <1>3, <1>7, <2>1 DEF SInv, Carries
    <2>3. IntentIsDurable' /\ FloorStep
      BY <1>5, <2>1 DEF SInv, IntentIsDurable, FloorStep
    <2> QED BY <1>1, <1>4, <2>1, <2>2, <2>3 DEF SInv
  <1> QED BY <1>6, <1>7

\* A stopped process leaves a whole file whose floor is no lower.
LEMMA LeftWhole ==
  ASSUME Careful, SInv, NEW f \in FilesLeft
  PROVE  Whole(f) /\ file.data.accepted <= f.data.accepted /\ f.data.accepted \in Nat
  <1>1. Whole(file) /\ file.data.accepted \in Nat
    BY DEF SInv, IInv, TypeOK, Whole, Files, Metadata, Versions
  <1>2. CASE f = file
    BY <1>1, <1>2
  <1>3. CASE f # file
    <2>1. PICK t \in Threads, o \in {"ok", "kept"} :
            ~Idle(t) /\ f = Written(file, saving[t].content, o)
      BY <1>3 DEF FilesLeft, Careful
    <2>2. f = [kind |-> "ok", data |-> meta]
      BY <1>3, <2>1, WrittenWhole DEF SInv
    <2>3. meta \in Metadata
      BY DEF SInv, IInv, TypeOK
    <2> QED BY <2>2, <2>3 DEF SInv, Carries, Whole, Files, Metadata, Versions
  <1> QED BY <1>2, <1>3

\* A new process takes the floor over from the file.
LEMMA StartKeepsSInv ==
  ASSUME Careful, SInv, Start
  PROVE  SInv' /\ FloorStep
  <1>1. IInv'
    BY StartKeepsIInv DEF SInv
  <1>0. UnreadableChoices = {FALSE} /\ BootOutcomes \subseteq {"ok", "kept"}
    BY DEF Careful, UnreadableChoices, BootOutcomes
  <1>2. PICK f \in FilesLeft, unreadable \in UnreadableChoices,
             o1 \in BootOutcomes, o2 \in BootOutcomes :
          LET m == LoadedFrom(f, unreadable)
              f1 == IF MustRewrite(f, unreadable) THEN Written(f, m, o1) ELSE f
          IN /\ loaded' = (MustRewrite(f, unreadable) => o1 = "ok")
             /\ file' = IF loaded' THEN Written(f1, Started(m), o2) ELSE f1
             /\ meta' = IF loaded' /\ o2 = "ok" THEN Started(m) ELSE m
             /\ remaining' = ConfirmWindow(m)
    BY DEF Start
  <1> DEFINE m == LoadedFrom(f, FALSE)
             f1 == IF MustRewrite(f, FALSE) THEN Written(f, m, o1) ELSE f
  <1>3. Whole(f) /\ file.data.accepted <= f.data.accepted /\ f.data.accepted \in Nat
    BY LeftWhole
  <1>4. m \in Metadata /\ m.accepted = f.data.accepted
    BY <1>3, LoadedFloor, LoadedAgrees, LeftAgrees DEF SInv, Whole
  <1>5. f1 = f \/ f1 = [kind |-> "ok", data |-> m]
    BY <1>0, WrittenWhole
  <1>6. Started(m).accepted = m.accepted
    <2> HIDE DEF m
    <2> QED BY <1>4 DEF Started, Metadata
  <1>7. /\ file' = IF loaded' THEN Written(f1, Started(m), o2) ELSE f1
        /\ meta' = IF loaded' /\ o2 = "ok" THEN Started(m) ELSE m
    BY <1>0, <1>2
  <1> HIDE DEF m, f1
  <1>8. \/ file' = f \/ file' = [kind |-> "ok", data |-> m]
        \/ file' = [kind |-> "ok", data |-> Started(m)]
    BY <1>0, <1>5, <1>7, WrittenWhole
  <1>9. /\ file'.data.accepted = f.data.accepted /\ meta'.accepted = f.data.accepted
        /\ file'.kind \in {"missing", "ok"}
        /\ file'.kind = "missing" => file'.data = Default
    BY <1>3, <1>4, <1>6, <1>7, <1>8 DEF Whole
  <1>10. ~intent' /\ \A t \in Threads : Idle(t)'
    BY DEF Start, Idle
  <1>11. Carries(meta)' /\ IntentIsDurable' /\ FloorStep
    BY <1>3, <1>9, <1>10 DEF Carries, IntentIsDurable, FloorStep
  <1> QED BY <1>1, <1>9, <1>10, <1>11 DEF SInv

\* So does a late loadOrInitializeMetadata_.
LEMMA LoadKeepsSInv ==
  ASSUME Careful, SInv, Load
  PROVE  SInv' /\ FloorStep
  <1>0. UnreadableChoices = {FALSE} /\ BootOutcomes \subseteq {"ok", "kept"}
    BY DEF Careful, UnreadableChoices, BootOutcomes
  <1>1. IInv'
    BY LoadKeepsIInv DEF SInv
  <1>2. PICK unreadable \in UnreadableChoices, o \in BootOutcomes :
          LET m == LoadedFrom(file, unreadable)
          IN /\ loaded' = (MustRewrite(file, unreadable) => o = "ok")
             /\ file' = IF MustRewrite(file, unreadable) THEN Written(file, m, o) ELSE file
             /\ meta' = m
             /\ remaining' = ConfirmWindow(m)
    BY DEF Load
  <1>3. meta' = LoadedFrom(file, FALSE) /\ (file' = file \/ file' = [kind |-> "ok", data |-> meta'])
    BY <1>0, <1>2, WrittenWhole
  <1>4. Whole(file) /\ file.data \in Metadata /\ file.data.accepted \in Nat
    BY DEF SInv, IInv, TypeOK, Whole, Files, Metadata, Versions
  <1>5. meta'.accepted = file.data.accepted
    BY <1>3, <1>4, LoadedFloor
  <1>6. intent => meta'.resetPending
    <2>1. Rollback(file.data).resetPending = file.data.resetPending
      BY <1>4 DEF Rollback, Metadata
    <2> QED BY <1>3, <2>1 DEF SInv, IntentIsDurable, LoadedFrom, Readable
  <1>7. intent' = intent /\ \A t \in Threads : Idle(t)'
    BY DEF Load, SInv, Idle
  <1>a. /\ file'.data.accepted = file.data.accepted
        /\ file'.kind \in {"missing", "ok"} /\ (file'.kind = "missing" => file'.data = Default)
        /\ intent => file'.kind = "ok" /\ file'.data.resetPending
    <2>1. CASE file' = file
      BY <1>4, <2>1 DEF Whole, SInv, IntentIsDurable
    <2>2. CASE file' = [kind |-> "ok", data |-> meta']
      <3>1. file'.kind = "ok" /\ file'.data = meta'
        BY <2>2
      <3> QED BY <1>5, <1>6, <3>1
    <2> QED BY <1>3, <2>1, <2>2
  <1>8. Carries(meta)' /\ IntentIsDurable' /\ FloorStep
    BY <1>4, <1>5, <1>6, <1>7, <1>a DEF Carries, IntentIsDurable, FloorStep
  <1>9. file'.kind \in {"missing", "ok"} /\ (file'.kind = "missing" => file'.data = Default)
    BY <1>a
  <1> QED BY <1>1, <1>7, <1>8, <1>9 DEF SInv

\* What the handlers make of the record never lowers the floor and never
\* forgets a recorded intent.
LEMMA HandlersCarry ==
  ASSUME NEW m \in Metadata, NEW v \in Versions
  PROVE  /\ \A x \in {[ClearStagedTrust(m) EXCEPT !.prepared = TRUE], ClearStagedTrust(m),
                      RejectTrust(m, v), Staged(m, v), ConfirmUpdate(m), Rollback(m),
                      [m EXCEPT !.consecutive = 0, !.fallback = FALSE]} :
              m.accepted <= x.accepted /\ x.resetPending = m.resetPending
         /\ Activated(m).accepted = m.staged /\ Activated(m).resetPending = m.resetPending
         /\ [m EXCEPT !.resetPending = TRUE].accepted = m.accepted
         /\ [m EXCEPT !.resetPending = TRUE].resetPending
         /\ m.accepted \in Nat /\ m.staged \in Nat
  <1>0. m.accepted \in Nat /\ m.staged \in Nat /\ m.accepted <= m.accepted
    BY DEF Metadata, Versions
  <1>1. /\ ClearStagedTrust(m).accepted = m.accepted
        /\ ClearStagedTrust(m).resetPending = m.resetPending
        /\ [ClearStagedTrust(m) EXCEPT !.prepared = TRUE].accepted = m.accepted
        /\ [ClearStagedTrust(m) EXCEPT !.prepared = TRUE].resetPending = m.resetPending
    BY DEF Metadata, ClearStagedTrust
  <1>2. /\ RejectTrust(m, v).accepted = m.accepted /\ RejectTrust(m, v).resetPending = m.resetPending
        /\ Staged(m, v).accepted = m.accepted /\ Staged(m, v).resetPending = m.resetPending
    BY DEF Metadata, RejectTrust, Staged
  <1>3. /\ ConfirmUpdate(m).accepted = m.accepted /\ ConfirmUpdate(m).resetPending = m.resetPending
        /\ Rollback(m).accepted = m.accepted /\ Rollback(m).resetPending = m.resetPending
    BY DEF Metadata, ConfirmUpdate, Rollback
  <1>4. /\ [m EXCEPT !.consecutive = 0, !.fallback = FALSE].accepted = m.accepted
        /\ [m EXCEPT !.consecutive = 0, !.fallback = FALSE].resetPending = m.resetPending
        /\ [m EXCEPT !.resetPending = TRUE].accepted = m.accepted
        /\ [m EXCEPT !.resetPending = TRUE].resetPending
    BY DEF Metadata
  <1>5. Activated(m).accepted = m.staged /\ Activated(m).resetPending = m.resetPending
    BY DEF Metadata, Activated
  <1> QED BY <1>0, <1>1, <1>2, <1>3, <1>4, <1>5

\* Every operation keeps the stronger invariant and the persisted floor.
LEMMA NextSInv ==
  ASSUME Careful, SInv, [Next]_vars
  PROVE  SInv' /\ FloorStep
  <1>0. /\ meta \in Metadata /\ SlotsAgreeIn(meta) /\ IInv
        /\ remaining \in 0 .. ConfirmTimeout
        /\ 0 \in 0 .. ConfirmTimeout /\ ConfirmTimeout \in 0 .. ConfirmTimeout
        /\ {"update", "intent", "ack"} \subseteq Operations \ {"none"}
        /\ Threads = {"rg1", "rg2", "cmd"} /\ 0 \in Versions
        /\ meta.resetPending \in BOOLEAN
    BY BootAssumption DEF SInv, IInv, TypeOK, Operations, Threads, Versions, Metadata
  <1>a. file.data.accepted \in Nat /\ file.data.accepted <= file.data.accepted
    BY DEF SInv, IInv, TypeOK, Files, Metadata, Versions
  <1>1. CASE Start
    BY <1>1, StartKeepsSInv
  <1>2. CASE Load
    BY <1>2, LoadKeepsSInv
  <1>3. ASSUME NEW t \in Threads, End(t) PROVE SInv' /\ FloorStep
    BY <1>3, EndKeepsSInv
  <1>4. ASSUME NEW t \in Threads, RecordIntent(t) PROVE SInv' /\ FloorStep
    <2> DEFINE m == [meta EXCEPT !.resetPending = TRUE]
    <2>1. m \in Metadata /\ SlotsAgreeIn(m)
      BY <1>0, BookkeepingAgrees
    <2>2. meta.accepted <= m.accepted /\ m.resetPending
      BY <1>0, HandlersCarry
    <2>3. Begin(t, "intent", m) /\ remaining' \in 0 .. ConfirmTimeout
      BY <1>0, <1>4 DEF RecordIntent
    <2> HIDE DEF m
    <2>4. "intent" \in Operations \ {"none"}
      BY <1>0
    <2> QED BY <2>1, <2>2, <2>3, <2>4, BeginKeepsSInv
  <1>b. ASSUME NEW t \in {"rg1", "rg2", "cmd"}, NEW op \in {"update", "ack"},
               NEW m \in Metadata, SlotsAgreeIn(m), Begin(t, op, m),
               remaining' \in 0 .. ConfirmTimeout,
               meta.accepted <= m.accepted, m.resetPending = meta.resetPending
        PROVE  SInv' /\ FloorStep
    <2>1. t \in Threads /\ op \in Operations \ {"none"} /\ op # "intent"
      BY <1>0
    <2>2. meta.resetPending \/ op = "intent" => m.resetPending
      BY <1>b, <2>1
    <2> QED BY <1>b, <2>1, <2>2, BeginKeepsSInv
  <1>5. CASE AcknowledgeStable
    BY <1>0, <1>5, <1>b, BookkeepingAgrees, HandlersCarry DEF AcknowledgeStable
  <1>6. CASE PrepareUpdate
    BY <1>0, <1>6, <1>b, StagingAgrees, HandlersCarry DEF PrepareUpdate
  <1>7. CASE VerifyMismatch
    <2>1. IInv'
      BY <1>0, <1>7, NextIInv DEF Next
    <2>2. /\ CanEnter("cmd") /\ meta' = ClearStagedTrust(meta)
          /\ UNCHANGED <<loaded, remaining, saving, file, starts, intent, loop>>
      BY <1>7 DEF VerifyMismatch
    <2>3. \A u \in Threads : Idle(u) /\ Idle(u)'
      BY <2>2 DEF CanEnter, Careful, Idle
    <2>4. meta.accepted <= meta'.accepted /\ meta'.resetPending = meta.resetPending
          /\ meta.accepted \in Nat /\ meta'.accepted \in Nat
      BY <1>0, <2>1, <2>2, HandlersCarry DEF IInv, TypeOK
    <2>5. Carries(meta)'
      BY <1>a, <2>2, <2>4 DEF SInv, Carries
    <2> QED BY <1>a, <2>1, <2>2, <2>3, <2>5 DEF SInv, FloorStep, IntentIsDurable
  <1>8. ASSUME NEW v \in Versions, VerifyRejected(v) \/ ActivateRejected(v)
        PROVE  SInv' /\ FloorStep
    BY <1>0, <1>8, <1>b, StagingAgrees, HandlersCarry DEF VerifyRejected, ActivateRejected
  <1>9. ASSUME NEW v \in Versions, VerifyAccepted(v) PROVE SInv' /\ FloorStep
    BY <1>0, <1>9, <1>b, StagingAgrees, HandlersCarry DEF VerifyAccepted
  <1>10. CASE Activate
    <2>1. meta.accepted <= Activated(meta).accepted
      BY <1>0, <1>10, HandlersCarry DEF Activate
    <2> QED BY <1>0, <1>10, <1>b, <2>1, SwitchingAgrees, HandlersCarry DEF Activate
  <1>11. CASE Confirm
    <2>1. PICK m \in {ConfirmUpdate(meta), Rollback(meta)} : Begin("cmd", "update", m)
      BY <1>11 DEF Confirm
    <2>2. m \in Metadata /\ SlotsAgreeIn(m)
      BY <1>0, SwitchingAgrees
    <2>3. meta.accepted <= m.accepted /\ m.resetPending = meta.resetPending
      BY <1>0, HandlersCarry
    <2> QED BY <1>0, <1>11, <1>b, <2>1, <2>2, <2>3 DEF Confirm
  <1>12. CASE RollbackCommand
    BY <1>0, <1>12, <1>b, SwitchingAgrees, HandlersCarry DEF RollbackCommand
  <1>13. CASE CountDown
    <2>1. IInv'
      BY <1>0, <1>13, NextIInv DEF Next, SchedIn
    <2> QED BY <1>13, <1>a, <2>1 DEF CountDown, SInv, Carries, IntentIsDurable, Idle, FloorStep
  <1>14. CASE ConfirmExpires
    BY <1>0, <1>14, <1>b, SwitchingAgrees, HandlersCarry DEF ConfirmExpires
  <1>15. CASE UNCHANGED vars
    <2>1. IInv'
      BY <1>0, <1>15, NextIInv
    <2> QED BY <1>15, <1>a, <2>1 DEF vars, SInv, Carries, IntentIsDurable, Idle, FloorStep
  <1> QED BY <1>1, <1>2, <1>3, <1>4, <1>5, <1>6, <1>7, <1>8, <1>9, <1>10, <1>11, <1>12,
             <1>13, <1>14, <1>15 DEF Next, SchedIn

\* With one thread at a time and saves that fail cleanly, the floor that
\* BOOT_VERIFY and BOOT_ACTIVATE compare with covers the persisted one.
THEOREM FloorEnforced ==
  ASSUME Careful
  PROVE  Spec => []FloorIsEnforced
  <1>1. SInv => FloorIsEnforced
    BY DEF SInv, Carries, FloorIsEnforced
  <1>2. SInv /\ [Next]_vars => SInv'
    BY NextSInv
  <1> QED BY <1>1, <1>2, InitSInv, PTL DEF Spec

\* Under the same conditions the persisted floor never goes down, over any
\* number of activations, rollbacks, failed saves and restarts.
THEOREM FloorMonotone ==
  ASSUME Careful
  PROVE  Spec => FloorNeverFalls
  <1>1. SInv /\ [Next]_vars => SInv'
    BY NextSInv
  <1>2. SInv /\ [Next]_vars => [file.data.accepted <= file'.data.accepted]_vars
    BY NextSInv DEF FloorStep
  <1> QED BY <1>1, <1>2, InitSInv, PTL DEF Spec, FloorNeverFalls

\* Under the same conditions an intent that was reported as recorded stays in
\* the file until the process ends.
THEOREM IntentDurable ==
  ASSUME Careful
  PROVE  Spec => []IntentIsDurable
  <1>1. SInv => IntentIsDurable
    BY DEF SInv
  <1>2. SInv /\ [Next]_vars => SInv'
    BY NextSInv
  <1> QED BY <1>1, <1>2, InitSInv, PTL DEF Spec

----------------------------------------------------------------------------
(* The restart loop *)

\* A record m counts n recovery restarts, up to the saturation of the counter,
\* and asks for the fall-back once the threshold is reached.
Counts(m, n) == /\ n <= m.consecutive \/ m.consecutive = CountMax
                /\ m.consecutive >= Threshold => m.fallback

\* Every copy of the metadata counts the loop: a start may go on from the file,
\* and a failed save of an intent puts the previous record back.
LInv ==
  /\ Counts(meta, loop) /\ Counts(file.data, loop)
  /\ \A t \in Threads : ~Idle(t) /\ Undoes(saving[t].op) => Counts(saving[t].previous, loop)

\* The update handlers keep the count, an acknowledgement ends it.
LEMMA HandlersCount ==
  ASSUME NEW m \in Metadata, NEW v \in Versions
  PROVE  /\ \A x \in {[ClearStagedTrust(m) EXCEPT !.prepared = TRUE], ClearStagedTrust(m),
                      RejectTrust(m, v), Staged(m, v), ConfirmUpdate(m), Rollback(m),
                      Activated(m), [m EXCEPT !.resetPending = TRUE]} :
              x.consecutive = m.consecutive /\ x.fallback = m.fallback
         /\ [m EXCEPT !.consecutive = 0, !.fallback = FALSE].consecutive = 0
  <1>1. \A x \in {[ClearStagedTrust(m) EXCEPT !.prepared = TRUE], ClearStagedTrust(m)} :
          x.consecutive = m.consecutive /\ x.fallback = m.fallback
    BY DEF Metadata, ClearStagedTrust
  <1>2. \A x \in {RejectTrust(m, v), Staged(m, v)} :
          x.consecutive = m.consecutive /\ x.fallback = m.fallback
    BY DEF Metadata, RejectTrust, Staged
  <1>3. \A x \in {ConfirmUpdate(m), Rollback(m)} :
          x.consecutive = m.consecutive /\ x.fallback = m.fallback
    BY DEF Metadata, ConfirmUpdate, Rollback
  <1>4. \A x \in {Activated(m), [m EXCEPT !.resetPending = TRUE]} :
          x.consecutive = m.consecutive /\ x.fallback = m.fallback
    BY DEF Metadata, Activated
  <1>5. [m EXCEPT !.consecutive = 0, !.fallback = FALSE].consecutive = 0
    BY DEF Metadata
  <1> QED BY <1>1, <1>2, <1>3, <1>4, <1>5

\* A save begins: memory goes on from a copy that counts the restarts in a row.
LEMMA BeginKeepsLInv ==
  ASSUME LInv, NEW t \in Threads, NEW op, NEW m, Begin(t, op, m),
         Counts(m, IF op = "ack" THEN 0 ELSE loop),
         TypeOK
  PROVE  LInv'
  <1>1. /\ meta' = m /\ loop' = IF op = "ack" THEN 0 ELSE loop
        /\ file' = file
        /\ saving' = [saving EXCEPT ![t] = [op |-> op, content |-> m,
                                           previous |-> IF Undoes(op) THEN meta ELSE Default]]
    BY DEF Begin
  <1>2. file.data.consecutive \in Nat /\ meta.consecutive \in Nat /\ loop \in Nat
    <2>1. file.data \in Metadata /\ meta \in Metadata
      BY DEF TypeOK, Files
    <2> QED BY <2>1, BootAssumption DEF TypeOK, Metadata
  <1>3. Counts(meta, loop') /\ Counts(file.data, loop')
    BY <1>1, <1>2 DEF LInv, Counts
  <1>4. ASSUME NEW u \in Threads, ~Idle(u), Undoes(saving[u].op)
        PROVE  Counts(saving[u].previous, loop')
    <2>1. saving[u].previous \in Metadata
      BY DEF TypeOK, Saves
    <2>2. saving[u].previous.consecutive \in Nat
      BY <2>1, BootAssumption DEF Metadata
    <2> QED BY <1>1, <1>2, <1>4, <2>2 DEF LInv, Counts
  <1>5. ASSUME NEW u \in Threads, Idle(u)' = FALSE, Undoes(saving'[u].op)
        PROVE  Counts(saving'[u].previous, loop')
    <2>1. CASE u = t
      <3>1. saving'[t].op = op /\ saving'[t].previous = IF Undoes(op) THEN meta ELSE Default
        BY <1>1 DEF TypeOK
      <3> QED BY <1>3, <1>5, <2>1, <3>1
    <2>2. CASE u # t
      <3>1. saving'[u] = saving[u]
        BY <1>1, <2>2 DEF TypeOK
      <3> QED BY <1>4, <1>5, <3>1 DEF Idle
    <2> QED BY <2>1, <2>2
  <1> QED BY <1>1, <1>3, <1>5 DEF LInv, Idle

\* The end of a save: the file, or the copy an undo restores, counts them too.
LEMMA EndKeepsLInv ==
  ASSUME Careful, SInv, LInv, NEW t \in Threads, End(t)
  PROVE  LInv'
  <1>1. PICK o \in {"ok", "kept"} :
          /\ file' = Written(file, saving[t].content, o)
          /\ meta' = IF o # "ok" /\ Undoes(saving[t].op) THEN saving[t].previous ELSE meta
    BY DEF End, Careful
  <1>2. saving[t].content = meta /\ ~Idle(t) /\ loop' = loop
    BY DEF SInv, End
  <1>3. \A u \in Threads : Idle(u)'
    BY DEF SInv, IInv, TypeOK, End, Idle
  <1>4. file'.data = meta \/ file' = file
    BY <1>1, <1>2, WrittenWhole
  <1>5. Counts(meta', loop') /\ Counts(file'.data, loop')
    BY <1>1, <1>2, <1>4 DEF LInv
  <1> QED BY <1>3, <1>5 DEF LInv

\* Loading keeps the count of a whole file and its intent.
LEMMA LoadedCount ==
  ASSUME NEW f, Whole(f)
  PROVE  LET m == LoadedFrom(f, FALSE)
         IN  /\ m.consecutive = f.data.consecutive /\ m.fallback = f.data.fallback
             /\ m.resetPending = f.data.resetPending
  <1>0. f.data \in Metadata
    BY DEF Whole, Files
  <1>1. /\ Rollback(f.data).consecutive = f.data.consecutive
        /\ Rollback(f.data).fallback = f.data.fallback
        /\ Rollback(f.data).resetPending = f.data.resetPending
    BY <1>0 DEF Rollback, Metadata
  <1> QED BY <1>1 DEF LoadedFrom, Readable, Whole

\* A start: what the file counts, with this restart, is what memory counts.
LEMMA LoadKeepsLInv ==
  ASSUME Careful, SInv, LInv, Load
  PROVE  LInv'
  <1>0. UnreadableChoices = {FALSE} /\ BootOutcomes \subseteq {"ok", "kept"}
    BY DEF Careful, UnreadableChoices, BootOutcomes
  <1>1. PICK unreadable \in UnreadableChoices, o \in BootOutcomes :
          LET m == LoadedFrom(file, unreadable)
          IN /\ file' = IF MustRewrite(file, unreadable) THEN Written(file, m, o) ELSE file
             /\ meta' = m
    BY DEF Load
  <1>2. meta' = LoadedFrom(file, FALSE) /\ (file' = file \/ file' = [kind |-> "ok", data |-> meta'])
    BY <1>0, <1>1, WrittenWhole
  <1>3. Whole(file)
    BY DEF SInv, IInv, TypeOK, Whole
  <1>4. Counts(meta', loop)
    BY <1>2, <1>3, LoadedCount DEF LInv, Counts
  <1>5. loop' = loop /\ \A t \in Threads : Idle(t)'
    BY DEF Load, SInv, Idle
  <1>6. Counts(file'.data, loop)
    <2>1. CASE file' = file
      BY <2>1 DEF LInv
    <2>2. CASE file' = [kind |-> "ok", data |-> meta']
      <3>1. file'.data = meta'
        BY <2>2
      <3> QED BY <1>4, <3>1
    <2> QED BY <1>2, <2>1, <2>2
  <1> QED BY <1>4, <1>5, <1>6 DEF LInv

\* A start after a recorded intent counts one restart more, or, when it cannot be
\* saved, none: then the record of the file stays in force.
LEMMA StartKeepsLInv ==
  ASSUME Careful, SInv, LInv, Start
  PROVE  LInv'
  <1>0. UnreadableChoices = {FALSE} /\ BootOutcomes \subseteq {"ok", "kept"}
    BY DEF Careful, UnreadableChoices, BootOutcomes
  <1>1. PICK f \in FilesLeft, unreadable \in UnreadableChoices,
             o1 \in BootOutcomes, o2 \in BootOutcomes :
          LET m == LoadedFrom(f, unreadable)
              f1 == IF MustRewrite(f, unreadable) THEN Written(f, m, o1) ELSE f
          IN /\ file' = IF loaded' THEN Written(f1, Started(m), o2) ELSE f1
             /\ meta' = IF loaded' /\ o2 = "ok" THEN Started(m) ELSE m
             /\ loop' = IF ~intent THEN 0 ELSE IF loaded' /\ o2 = "ok" THEN loop + 1 ELSE loop
    BY DEF Start
  <1> DEFINE m == LoadedFrom(f, FALSE)
             f1 == IF MustRewrite(f, FALSE) THEN Written(f, m, o1) ELSE f
             n == Started(m)
  <1>2. Whole(f) /\ Counts(f.data, loop) /\ (intent => f.data.resetPending)
    <2>1. CASE f = file
      BY <2>1, LeftWhole DEF LInv, SInv, IntentIsDurable
    <2>2. CASE f # file
      <3>1. PICK t \in Threads, o \in {"ok", "kept"} :
              ~Idle(t) /\ f = Written(file, saving[t].content, o)
        BY <2>2 DEF FilesLeft, Careful
      <3>2. f = [kind |-> "ok", data |-> meta]
        BY <2>2, <3>1, WrittenWhole DEF SInv
      <3>3. f.data = meta
        BY <3>2
      <3> QED BY <3>3, LeftWhole DEF LInv, SInv, Carries
    <2> QED BY <2>1, <2>2
  <1>3. m \in Metadata /\ Counts(m, loop) /\ (intent => m.resetPending)
    BY <1>2, LoadedCount, LoadedAgrees, LeftAgrees DEF SInv, Whole, Counts
  <1>4. f1 = f \/ f1 = [kind |-> "ok", data |-> m]
    BY <1>0, WrittenWhole
  <1>5. /\ file' = IF loaded' THEN Written(f1, n, o2) ELSE f1
        /\ meta' = IF loaded' /\ o2 = "ok" THEN n ELSE m
        /\ loop' = IF ~intent THEN 0 ELSE IF loaded' /\ o2 = "ok" THEN loop + 1 ELSE loop
    BY <1>0, <1>1
  <1> HIDE DEF m, f1
  <1>6. m.consecutive \in 0 .. CountMax /\ loop \in Nat /\ f.data.consecutive \in 0 .. CountMax
    BY <1>2, <1>3 DEF Metadata, SInv, IInv, TypeOK, Whole, Files
  <1>7. n.consecutive = StartCount(m) /\ (StartCount(m) >= Threshold => n.fallback)
    BY <1>3 DEF Started, Metadata
  <1> HIDE DEF n
  <1>8. intent => StartCount(m) = CountMax \/ StartCount(m) >= loop + 1
    BY <1>3, <1>6, BootAssumption DEF StartCount, SaturatingIncrement, Counts
  <1>9. StartCount(m) \in Nat
    BY <1>3, <1>6, BootAssumption DEF StartCount, SaturatingIncrement, Metadata
  <1>10. /\ intent => Counts(n, loop + 1)
         /\ Counts(n, 0) /\ Counts(m, 0) /\ Counts(f.data, 0)
    <2>1. intent => Counts(n, loop + 1)
      BY <1>6, <1>7, <1>8, <1>9 DEF Counts
    <2>2. Counts(n, 0)
      BY <1>7, <1>9 DEF Counts
    <2>3. Counts(m, 0) /\ Counts(f.data, 0)
      BY <1>2, <1>3, <1>6 DEF Counts
    <2> QED BY <2>1, <2>2, <2>3
  <1>11. CASE loaded' /\ o2 = "ok"
    <2>1. meta' = n /\ file'.data = n /\ loop' = IF ~intent THEN 0 ELSE loop + 1
      BY <1>5, <1>11, WrittenWhole
    <2> QED BY <1>10, <2>1 DEF Start, LInv, Idle
  <1>12. CASE ~(loaded' /\ o2 = "ok")
    <2>1. meta' = m /\ file' = f1 /\ loop' = IF ~intent THEN 0 ELSE loop
      BY <1>0, <1>5, <1>12, WrittenWhole
    <2>2. f1.data = f.data \/ f1.data = m
      BY <1>4
    <2>3. Counts(meta', loop') /\ Counts(file'.data, loop')
      BY <1>2, <1>3, <1>10, <2>1, <2>2
    <2> QED BY <2>3 DEF Start, LInv, Idle
  <1> QED BY <1>11, <1>12

\* Every step keeps the count, when threads take turns and a failed write keeps the
\* old file.
LEMMA NextLInv ==
  ASSUME Careful, SInv, LInv, [Next]_vars
  PROVE  LInv'
  <1>0. TypeOK /\ meta \in Metadata /\ 0 \in Versions /\ Threads = {"rg1", "rg2", "cmd"}
    BY BootAssumption DEF SInv, IInv, TypeOK, Versions, Threads
  <1>a. ASSUME NEW t \in {"rg1", "rg2", "cmd"}, NEW op \in {"update", "intent"}, NEW m,
               Begin(t, op, m), m.consecutive = meta.consecutive /\ m.fallback = meta.fallback
        PROVE  LInv'
    <2>1. Counts(m, IF op = "ack" THEN 0 ELSE loop)
      BY <1>a DEF LInv, Counts
    <2> QED BY <1>0, <1>a, <2>1, BeginKeepsLInv
  <1>1. CASE Start
    BY <1>1, StartKeepsLInv
  <1>2. CASE Load
    BY <1>2, LoadKeepsLInv
  <1>3. ASSUME NEW t \in Threads, End(t) PROVE LInv'
    BY <1>3, EndKeepsLInv
  <1>4. ASSUME NEW t \in Threads, RecordIntent(t) PROVE LInv'
    BY <1>0, <1>4, <1>a, HandlersCount DEF RecordIntent
  <1>5. CASE AcknowledgeStable
    <2> DEFINE m == [meta EXCEPT !.consecutive = 0, !.fallback = FALSE]
    <2>1. Begin("rg1", "ack", m)
      BY <1>5 DEF AcknowledgeStable
    <2>2. m.consecutive = 0
      BY <1>0, HandlersCount
    <2> HIDE DEF m
    <2>3. Counts(m, 0)
      BY <2>2, BootAssumption DEF Counts
    <2> QED BY <1>0, <2>1, <2>3, BeginKeepsLInv
  <1>6. CASE PrepareUpdate
    BY <1>0, <1>6, <1>a, HandlersCount DEF PrepareUpdate
  <1>7. CASE VerifyMismatch
    <2>1. meta'.consecutive = meta.consecutive /\ meta'.fallback = meta.fallback
      BY <1>0, <1>7, HandlersCount DEF VerifyMismatch
    <2> QED BY <1>7, <2>1 DEF VerifyMismatch, LInv, Counts, Idle
  <1>8. ASSUME NEW v \in Versions, VerifyRejected(v) \/ ActivateRejected(v)
        PROVE  LInv'
    BY <1>0, <1>8, <1>a, HandlersCount DEF VerifyRejected, ActivateRejected
  <1>9. ASSUME NEW v \in Versions, VerifyAccepted(v) PROVE LInv'
    BY <1>0, <1>9, <1>a, HandlersCount DEF VerifyAccepted
  <1>10. CASE Activate
    BY <1>0, <1>10, <1>a, HandlersCount DEF Activate
  <1>11. CASE Confirm
    <2>1. PICK m \in {ConfirmUpdate(meta), Rollback(meta)} : Begin("cmd", "update", m)
      BY <1>11 DEF Confirm
    <2> QED BY <1>0, <1>a, <2>1, HandlersCount
  <1>12. CASE RollbackCommand
    BY <1>0, <1>12, <1>a, HandlersCount DEF RollbackCommand
  <1>13. CASE CountDown
    BY <1>13 DEF CountDown, LInv, Counts, Idle
  <1>14. CASE ConfirmExpires
    BY <1>0, <1>14, <1>a, HandlersCount DEF ConfirmExpires
  <1>15. CASE UNCHANGED vars
    BY <1>15 DEF vars, LInv, Counts, Idle
  <1> QED BY <1>1, <1>2, <1>3, <1>4, <1>5, <1>6, <1>7, <1>8, <1>9, <1>10, <1>11, <1>12,
             <1>13, <1>14, <1>15 DEF Next, SchedIn

\* Under the same conditions the runtime is told to fall back to SAFE after
\* Threshold recovery restarts in a row, over any number of starts, failed saves
\* and updates in between, and although the counter saturates.
THEOREM LoopClamped ==
  ASSUME Careful
  PROVE  Spec => []LoopIsClamped
  <1>1. Init => LInv
    <2> SUFFICES ASSUME Init PROVE LInv
      OBVIOUS
    <2>1. Counts(Default, 0)
      BY BootAssumption DEF Counts, Default
    <2>2. meta = Default /\ file.data = Default /\ loop = 0 /\ \A t \in Threads : Idle(t)
      BY DEF Init, Idle
    <2> QED BY <2>1, <2>2 DEF LInv
  <1>2. SInv /\ LInv /\ [Next]_vars => SInv' /\ LInv'
    BY NextSInv, NextLInv
  <1>3. SInv /\ LInv => LoopIsClamped
    <2> SUFFICES ASSUME SInv, LInv PROVE LoopIsClamped
      OBVIOUS
    <2>1. meta.consecutive \in Nat /\ loop \in Nat
      BY BootAssumption DEF SInv, IInv, TypeOK, Metadata
    <2> QED BY <2>1, BootAssumption DEF LInv, Counts, LoopIsClamped
  <1> QED BY <1>1, <1>2, <1>3, InitSInv, PTL DEF Spec
=============================================================================
