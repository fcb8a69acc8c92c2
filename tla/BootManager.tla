----------------------------- MODULE BootManager -----------------------------
(***************************************************************************)
(* BootManager, BootMetadataStore and BootManifestVerifier                 *)
(* (OBC/Components/BootManager): the A/B update lifecycle and the recovery *)
(* reset bookkeeping, both kept in one metadata record (m_metadata) that   *)
(* every operation changes in memory and then saves.                       *)
(*                                                                         *)
(* The component has no mutex.  Recovery intents and acknowledgements come *)
(* from the 1 Hz rate group (rg1), the confirm countdown from rg2 and the  *)
(* BOOT_ commands from the command thread (cmd).  An operation is two      *)
(* steps: it changes m_metadata and serialises it (Begin), then the file   *)
(* is written and a failed write is undone in memory by the operations     *)
(* that undo it (End).  Overlap says whether two threads may be between    *)
(* the two steps at once.                                                  *)
(*                                                                         *)
(* BootMetadataStore::writeFile_ opens the file with OVERWRITE, so a write *)
(* that fails may leave the old contents ("kept", the open failed), a file *)
(* that does not parse ("torn"), or a prefix that does: without the trust  *)
(* fields ("cutTrust") or without the recovery fields ("cutRecovery").     *)
(* `file' is what BootMetadataStore::load will make of the contents.       *)
(*                                                                         *)
(* Left out: the reset cause and last recovery source and level (every     *)
(* intent carries a recovery cause), the signer identity (a manifest that  *)
(* verifies has a complete one), bootCount, error codes and breadcrumbs.   *)
(***************************************************************************)
EXTENDS Naturals, BootManifest

CONSTANTS MaxVersion,      \* bound: software versions are 0 .. MaxVersion
          ConfirmTimeout,  \* DEFAULT_CONFIRM_TIMEOUT_SEC
          Threshold,       \* RECOVERY_SAFE_FALLBACK_THRESHOLD
          CountMax,        \* the saturation point of the counters, 2^32 - 1 in the code
          MaxStarts,       \* bound: starts of the process
          Faults,          \* how a save by a running handler may fail
          BootFaults,      \* how reading and saving during startup may fail
          Overlap          \* two threads may be inside BootManager at once

Failures == {"kept", "torn", "cutTrust", "cutRecovery"}

ASSUME BootAssumption ==
  /\ MaxVersion \in Nat /\ MaxStarts \in Nat
  /\ ConfirmTimeout \in Nat \ {0}
  /\ Threshold \in Nat \ {0} /\ CountMax \in Nat /\ Threshold <= CountMax
  /\ Faults \subseteq Failures
  /\ BootFaults \subseteq Failures \cup {"unreadable"}
  /\ Overlap \in BOOLEAN

VARIABLES meta,       \* m_metadata
          loaded,     \* m_loaded
          remaining,  \* m_remainingConfirmSeconds
          saving,     \* the save each thread is in the middle of
          file,       \* the metadata file
          starts,     \* starts of the process so far
          intent,     \* an intent was reported as recorded since the last start
          loop        \* recovery restarts in a row whose start was saved, none acknowledged as stable

vars == <<meta, loaded, remaining, saving, file, starts, intent, loop>>

Threads == {"rg1", "rg2", "cmd"}
Versions == 0 .. MaxVersion
Slots == {"A", "B"}
TrustStatus == {"UNVERIFIED", "TRUSTED", "PENDING", "CONFIRMED", "REJECTED"}

Metadata ==
  [active : Slots, pending : Slots \cup {"NONE"}, lkg : Slots, confirmed : BOOLEAN,
   prepared : BOOLEAN, verified : BOOLEAN, trust : TrustStatus, staged : Versions,
   activeV : Versions, pendingV : Versions, lkgV : Versions, accepted : Versions,
   consecutive : 0 .. CountMax, fallback : BOOLEAN, resetPending : BOOLEAN]

\* BootMetadata's initial values, with the trust status a first start gives them.
Default ==
  [active |-> "A", pending |-> "NONE", lkg |-> "A", confirmed |-> TRUE,
   prepared |-> FALSE, verified |-> FALSE, trust |-> "CONFIRMED", staged |-> 0,
   activeV |-> 0, pendingV |-> 0, lkgV |-> 0, accepted |-> 0,
   consecutive |-> 0, fallback |-> FALSE, resetPending |-> FALSE]

Operations == {"none", "update", "intent", "ack"}
NoSave == [op |-> "none", content |-> Default, previous |-> Default]
Saves == [op : Operations, content : Metadata, previous : Metadata]
Idle(t) == saving[t] = NoSave

Files == [kind : {"missing", "invalid", "ok"}, data : Metadata]

----------------------------------------------------------------------------
(* The metadata record *)

IsPending(m) == m.pending # "NONE" /\ ~m.confirmed

InactiveSlot(m) == IF m.active = "A" THEN "B" ELSE "A"

\* isPendingTrustStateCoherent_
IsCoherent(m) ==
  IsPending(m) => /\ m.pending = m.active /\ m.trust = "PENDING"
                  /\ m.pendingV # 0 /\ m.activeV = m.pendingV /\ m.accepted = m.pendingV

ClearStagedTrust(m) == [m EXCEPT !.verified = FALSE, !.trust = "UNVERIFIED", !.staged = 0]

\* rejectTrust_: v is the version of the manifest, 0 when it was not read.
RejectTrust(m, v) == [m EXCEPT !.verified = FALSE, !.trust = "REJECTED", !.staged = v]

Staged(m, v) == [m EXCEPT !.verified = TRUE, !.trust = "TRUSTED", !.staged = v]

Activated(m) ==
  [m EXCEPT !.active = InactiveSlot(m), !.pending = InactiveSlot(m), !.confirmed = FALSE,
            !.activeV = m.staged, !.pendingV = m.staged, !.accepted = m.staged,
            !.trust = "PENDING"]

ConfirmUpdate(m) ==
  [m EXCEPT !.lkg = m.active, !.lkgV = m.activeV, !.pending = "NONE", !.pendingV = 0,
            !.confirmed = TRUE, !.verified = FALSE, !.staged = 0, !.trust = "CONFIRMED"]

\* Mutant: it leaves the version of the abandoned image.
RollbackKeepsVersion(m) ==
  [m EXCEPT !.active = m.lkg, !.pending = "NONE", !.pendingV = 0,
            !.confirmed = TRUE, !.verified = FALSE, !.staged = 0, !.trust = "CONFIRMED"]

Rollback(m) ==
  [m EXCEPT !.active = m.lkg, !.pending = "NONE", !.activeV = m.lkgV, !.pendingV = 0,
            !.confirmed = TRUE, !.verified = FALSE, !.staged = 0, !.trust = "CONFIRMED"]

SaturatingIncrement(n) == IF n < CountMax THEN n + 1 ELSE CountMax

\* initializeRuntimeBoot_ up to its save: a start that follows a recorded
\* intent counts as one more recovery reset, any other start ends the count.
StartCount(m) == IF m.resetPending THEN SaturatingIncrement(m.consecutive) ELSE 0

\* Mutant: it needs one recovery start more.
StartedLate(m) ==
  [m EXCEPT !.consecutive = StartCount(m), !.fallback = StartCount(m) > Threshold,
            !.resetPending = FALSE]

Started(m) ==
  [m EXCEPT !.consecutive = StartCount(m), !.fallback = StartCount(m) >= Threshold,
            !.resetPending = FALSE]

----------------------------------------------------------------------------
(* The metadata file *)

\* BootMetadataStore::load of a file without the recovery fields.
WithoutRecovery(m) == [m EXCEPT !.consecutive = 0, !.fallback = FALSE, !.resetPending = FALSE]

\* BootMetadataStore::load of a file that predates the trust fields.
WithoutTrust(m) ==
  [WithoutRecovery(m) EXCEPT
     !.verified = FALSE, !.trust = IF m.confirmed THEN "CONFIRMED" ELSE "UNVERIFIED",
     !.staged = 0, !.activeV = 0, !.pendingV = 0, !.lkgV = 0, !.accepted = 0]

\* BootMetadataStore::save of m over the file f.
Written(f, m, outcome) ==
  CASE outcome = "ok" -> [kind |-> "ok", data |-> m]
    [] outcome = "torn" -> [kind |-> "invalid", data |-> Default]
    [] outcome = "cutTrust" -> [kind |-> "ok", data |-> WithoutTrust(m)]
    [] outcome = "cutRecovery" -> [kind |-> "ok", data |-> WithoutRecovery(m)]
    [] OTHER -> f

\* loadOrInitializeMetadata_: what is taken from the file, and whether it is
\* saved again because the file was missing, unreadable or incoherent.
Readable(f, unreadable) == f.kind = "ok" /\ ~unreadable

LoadedFrom(f, unreadable) ==
  IF Readable(f, unreadable)
  THEN IF IsCoherent(f.data) THEN f.data ELSE Rollback(f.data)
  ELSE Default
MustRewrite(f, unreadable) == ~(Readable(f, unreadable) /\ IsCoherent(f.data))

----------------------------------------------------------------------------
(* Startup *)

Init ==
  /\ meta = Default /\ loaded = FALSE /\ remaining = 0
  /\ saving = [t \in Threads |-> NoSave]
  /\ file = [kind |-> "missing", data |-> Default]
  /\ starts = 0 /\ intent = FALSE /\ loop = 0

UnreadableChoices == {FALSE} \cup {u \in {TRUE} : "unreadable" \in BootFaults}
BootOutcomes == {"ok"} \cup (BootFaults \ {"unreadable"})

\* The files a process that stops now may leave: a save under way has not
\* begun to write, has finished, or has failed.
FilesLeft ==
  {file} \cup {Written(file, saving[t].content, o) : t \in {u \in Threads : ~Idle(u)},
                                                      o \in {"ok"} \cup Faults}

ConfirmWindow(m) == IF IsPending(m) THEN ConfirmTimeout ELSE 0

\* configureRuntimeStorageRoots in a new process, whatever ended the last one.
Start ==
  /\ starts < MaxStarts
  /\ \E f \in FilesLeft, unreadable \in UnreadableChoices, o1, o2 \in BootOutcomes :
       LET m == LoadedFrom(f, unreadable)
           f1 == IF MustRewrite(f, unreadable) THEN Written(f, m, o1) ELSE f
       IN /\ loaded' = (MustRewrite(f, unreadable) => o1 = "ok")
          /\ file' = IF loaded' THEN Written(f1, Started(m), o2) ELSE f1
          /\ meta' = IF loaded' /\ o2 = "ok" THEN Started(m) ELSE m
          /\ remaining' = ConfirmWindow(m)
          /\ loop' = IF ~intent THEN 0 ELSE IF loaded' /\ o2 = "ok" THEN loop + 1 ELSE loop
  /\ saving' = [t \in Threads |-> NoSave]
  /\ starts' = starts + 1
  /\ intent' = FALSE

\* Every handler calls loadOrInitializeMetadata_ first; BOOT_STATUS and the
\* other queries do nothing else.
Load ==
  /\ starts > 0 /\ ~loaded
  /\ \E unreadable \in UnreadableChoices, o \in BootOutcomes :
       LET m == LoadedFrom(file, unreadable)
       IN /\ loaded' = (MustRewrite(file, unreadable) => o = "ok")
          /\ file' = IF MustRewrite(file, unreadable) THEN Written(file, m, o) ELSE file
          /\ meta' = m
          /\ remaining' = ConfirmWindow(m)
  /\ UNCHANGED <<saving, starts, intent, loop>>

----------------------------------------------------------------------------
(* Operations *)

CanEnter(t) == loaded /\ Idle(t) /\ (Overlap \/ \A u \in Threads : Idle(u))

\* The two recovery operations put the previous m_metadata back when the save
\* fails; the update operations keep what they did.
Undoes(op) == op \in {"intent", "ack"}

Begin(t, op, m) ==
  /\ CanEnter(t)
  /\ meta' = m
  /\ saving' = [saving EXCEPT ![t] = [op |-> op, content |-> m,
                                     previous |-> IF Undoes(op) THEN meta ELSE Default]]
  /\ loop' = IF op = "ack" THEN 0 ELSE loop
  /\ UNCHANGED <<loaded, file, starts, intent>>

End(t) ==
  /\ ~Idle(t)
  /\ \E o \in {"ok"} \cup Faults :
       /\ file' = Written(file, saving[t].content, o)
       /\ meta' = IF o # "ok" /\ Undoes(saving[t].op) THEN saving[t].previous ELSE meta
       /\ intent' = (intent \/ (o = "ok" /\ saving[t].op = "intent"))
  /\ saving' = [saving EXCEPT ![t] = NoSave]
  /\ UNCHANGED <<loaded, remaining, starts, loop>>

\* recordRecoveryRestartIntentForRuntime, called by RecoveryExecutor
RecordIntent(t) ==
  /\ t \in {"rg1", "cmd"}
  /\ Begin(t, "intent", [meta EXCEPT !.resetPending = TRUE])
  /\ UNCHANGED remaining

\* acknowledgeRuntimeStableForRuntime, called by RecoveryExecutor
AcknowledgeStable ==
  /\ Begin("rg1", "ack", [meta EXCEPT !.consecutive = 0, !.fallback = FALSE])
  /\ UNCHANGED remaining

\* BOOT_PREPARE_UPDATE with a well-formed digest
PrepareUpdate ==
  /\ ~IsPending(meta)
  /\ Begin("cmd", "update", [ClearStagedTrust(meta) EXCEPT !.prepared = TRUE])
  /\ UNCHANGED remaining

\* BOOT_VERIFY_STAGED_IMAGE of a file that is missing or not the expected one;
\* the handler returns without a save.
VerifyMismatch ==
  /\ CanEnter("cmd") /\ meta.prepared
  /\ meta' = ClearStagedTrust(meta)
  /\ UNCHANGED <<loaded, remaining, saving, file, starts, intent, loop>>

\* The versions a verification against a slot and a version floor may end with.
AcceptedVersions ==
  [slot \in Slots, floor \in Versions |->
     {man.version : man \in {x \in Manifests(Versions) : Accepts(x, slot, floor)}}]

RejectedVersions ==
  [slot \in Slots, floor \in Versions |->
     {ReadVersion(man) : man \in {x \in Manifests(Versions) : ~Accepts(x, slot, floor)}}]

AcceptsVersion(m, v) == v \in AcceptedVersions[InactiveSlot(m), m.accepted]
RejectsVersion(m, v) == v \in RejectedVersions[InactiveSlot(m), m.accepted]

\* BOOT_VERIFY_STAGED_IMAGE of the expected file: verifyBootManifestFile turns
\* down the manifest, of which version v was read, or accepts version v.
VerifyRejected(v) ==
  /\ meta.prepared /\ RejectsVersion(meta, v)
  /\ Begin("cmd", "update", RejectTrust(meta, v))
  /\ UNCHANGED remaining

VerifyAccepted(v) ==
  /\ meta.prepared /\ AcceptsVersion(meta, v)
  /\ Begin("cmd", "update", Staged(meta, v))
  /\ UNCHANGED remaining

\* BOOT_ACTIVATE_STAGED_IMAGE: validateStagedTrust_ verifies the staged file
\* once more.  It may have changed on disk (v = 0), its manifest may be turned
\* down now or be another one than the one that was verified.
MayActivate(m) == m.verified /\ m.trust = "TRUSTED" /\ m.staged # 0

ActivateRejected(v) ==
  /\ MayActivate(meta)
  /\ \/ v = 0
     \/ RejectsVersion(meta, v)
     \/ AcceptsVersion(meta, v)
  /\ Begin("cmd", "update", RejectTrust(meta, v))
  /\ UNCHANGED remaining

Activate ==
  /\ MayActivate(meta) /\ meta.staged > meta.accepted
  /\ AcceptsVersion(meta, meta.staged)
  /\ Begin("cmd", "update", Activated(meta))
  /\ remaining' = ConfirmTimeout

\* BOOT_CONFIRM
Confirm ==
  /\ IsPending(meta)
  /\ Begin("cmd", "update", IF IsCoherent(meta) THEN ConfirmUpdate(meta) ELSE Rollback(meta))
  /\ remaining' = 0

\* BOOT_ROLLBACK
RollbackCommand ==
  /\ Begin("cmd", "update", Rollback(meta))
  /\ remaining' = 0

\* schedIn while an image is pending
CountDown ==
  /\ Idle("rg2") /\ IsPending(meta) /\ remaining > 1
  /\ remaining' = remaining - 1
  /\ UNCHANGED <<meta, loaded, saving, file, starts, intent, loop>>

\* Mutant: it waits for a tick that CountDown never makes.
ConfirmExpiresLate ==
  /\ IsPending(meta) /\ remaining < 1
  /\ Begin("rg2", "update", Rollback(meta))
  /\ remaining' = 0

ConfirmExpires ==
  /\ IsPending(meta) /\ remaining <= 1
  /\ Begin("rg2", "update", Rollback(meta))
  /\ remaining' = 0

SchedIn == CountDown \/ ConfirmExpires

Next ==
  \/ Start \/ Load
  \/ \E t \in Threads : End(t) \/ RecordIntent(t)
  \/ AcknowledgeStable
  \/ PrepareUpdate \/ VerifyMismatch
  \/ \E v \in Versions : VerifyRejected(v) \/ VerifyAccepted(v) \/ ActivateRejected(v)
  \/ Activate \/ Confirm \/ RollbackCommand
  \/ SchedIn

Spec == Init /\ [][Next]_vars

\* The rate group keeps running and no save takes for ever.  In the code nothing
\* holds the rate group back; where Overlap = FALSE keeps it out during the
\* other threads' saves, it still gets its turn between them.
FairSpec == Spec /\ SF_vars(SchedIn) /\ \A t \in Threads : WF_vars(End(t))

----------------------------------------------------------------------------
(* Properties *)

\* The metadata in memory, in a save under way and in the file stays well
\* formed: the consecutive reset count stops at its maximum and the confirm
\* window never exceeds DEFAULT_CONFIRM_TIMEOUT_SEC.
TypeOK ==
  /\ meta \in Metadata /\ loaded \in BOOLEAN /\ remaining \in 0 .. ConfirmTimeout
  /\ saving \in [Threads -> Saves] /\ file \in Files
  /\ starts \in 0 .. MaxStarts /\ intent \in BOOLEAN /\ loop \in Nat

SlotsAgreeIn(m) ==
  IF IsPending(m)
  THEN m.pending = m.active /\ m.activeV = m.pendingV /\ m.accepted = m.pendingV
  ELSE m.pending = "NONE" /\ m.confirmed /\ m.active = m.lkg /\ m.activeV = m.lkgV

\* Whatever the order of commands, timeouts, restarts and failed saves, an
\* image on trial is the active one and carries the newest accepted version,
\* and with no image on trial the active slot and version are the last known
\* good ones: rollback_, confirmUpdate_ and the load paths never leave half
\* an update behind.
SlotsAgree == loaded => SlotsAgreeIn(meta)

\* The version floor in the file (last_accepted_version) never goes down:
\* not by rollback, by a restart that forgets an unsaved activation, or by a
\* save that undoes another operation.  A file that does not parse has floor
\* 0: loadOrInitializeMetadata_ goes on from the initial values.
FloorNeverFalls == [][file.data.accepted <= file'.data.accepted]_vars

\* BOOT_VERIFY and BOOT_ACTIVATE compare with the floor in memory, so it must
\* never be below the one that was persisted.
FloorIsEnforced == loaded => file.data.accepted <= meta.accepted

\* Once recordRecoveryRestartIntentForRuntime has returned true the intent is
\* in the file, until the process that was told so has ended.
IntentIsDurable == intent => file.kind = "ok" /\ file.data.resetPending

\* After Threshold recovery restarts in a row without a stable acknowledgement
\* the runtime is told to fall back to SAFE (isBootSafeFallbackRequired).  A
\* start whose save failed is not counted: initializeRuntimeBoot_ undoes it.
LoopIsClamped == loaded /\ loop >= Threshold => meta.fallback

\* An image on trial is confirmed, rolled back or timed out in the end.
PendingEnds == IsPending(meta) ~> ~IsPending(meta)

\* A rollback leaves the slot that was on trial.
RollbackLeavesTrial == IsPending(meta) => meta.pending # meta.lkg
=============================================================================
