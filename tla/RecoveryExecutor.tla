-------------------------- MODULE RecoveryExecutor --------------------------
(***************************************************************************)
(* RecoveryExecutor (OBC/Components/RecoveryExecutor): the shared owner of *)
(* recovery incidents.  Detectors submit and clear faults; the executor    *)
(* decides under m_mutex which actions an incident needs and carries them  *)
(* out after releasing it, in the caller's thread.  Its callers are        *)
(*   rg1   the rate group thread, which runs every detector's schedIn and  *)
(*         the executor's own schedIn one after the other, and             *)
(*   cmd   the command dispatcher, through SET_WATCHDOG_PROBE_SUPPRESSION, *)
(* while the main loop polls consumeRecoveryExitRequestForRuntime.         *)
(* Each locked section is one action of this module; between two of them   *)
(* the other threads may run.                                              *)
(*                                                                         *)
(* Left out: highestLevel, lastAction, the totals and the fault records,   *)
(* which no decision reads; restartIntentIssued, resetIssued and           *)
(* commFailoverIssued, which openIncident_ clears just before the only     *)
(* place that tests them; relatchCount, which is epoch - 1 at any opening. *)
(* The mode the executor reads is an input: other components may change it *)
(* at any time between the read and its use.                               *)
(***************************************************************************)
EXTENDS Naturals, Sequences, FiniteSets

CONSTANTS WatchdogSources, EpsSources, AdcsSources, CommSources,
          Modes,                 \* the modes getModeForRuntime may return
          HardwareWatchdogMode,  \* m_hardwareWatchdogModeEnabled
          UnclearedTicks,        \* UNCLEARED_REBOOT_TIMEOUT_TICKS, 3 in the code
          StableAckTicks,        \* STABLE_ACK_TICKS, 5 in the code
          NoSource,              \* RecoveryIncidentSource::NONE
          Index,                 \* recoveryIncidentIndex: the order of the sources
          MaxEpoch               \* bound: openings of one incident

SubsystemSources == EpsSources \cup AdcsSources \cup CommSources

Sources == WatchdogSources \cup SubsystemSources

ASSUME RecoveryAssumption ==
  /\ IsFiniteSet(Sources) /\ NoSource \notin Sources
  /\ WatchdogSources \cap SubsystemSources = {}
  /\ Modes \subseteq {"SAFE", "IDLE", "HELL", "PAYLOAD", "TTC"}
  /\ HardwareWatchdogMode \in BOOLEAN
  /\ UnclearedTicks \in Nat \ {0} /\ StableAckTicks \in Nat \ {0}
  /\ Index \in [Sources -> Nat] /\ MaxEpoch \in Nat

VARIABLES incidents,                \* m_status.incidents
          processRestartRequested, rebootRequested,
          exit,                     \* what the main loop consumed; m_exitRequestConsumed
                                    \* is exit # "NONE"
          bootClampApplied, stableTicks, stableAcked,
          todo,                     \* per thread: the actions executeExternalActions_ holds
          boot                      \* the part of BootManager's metadata used here

vars == <<incidents, processRestartRequested, rebootRequested, exit,
          bootClampApplied, stableTicks, stableAcked, todo, boot>>

Threads == {"rg1", "cmd"}
Levels == {0, 2, 3, 5, 6}         \* R0, R2, R3, R5 and R6
Kinds == {"APPLY_SAFE", "EPS_RESET", "ADCS_RESET", "COMM_FAILOVER",
          "RECORD_PROCESS_RESTART_INTENT", "RECORD_REBOOT_INTENT"}
Outcomes == {"none", "ok", "failed"}

Incident == [active : BOOLEAN, epoch : Nat, firstActionIssued : BOOLEAN,
             safeFallbackIssued : BOOLEAN, processRestartPending : BOOLEAN,
             rebootPending : BOOLEAN, level : Levels, openTicks : 0 .. UnclearedTicks]

Requests == [kind : Kinds, source : Sources, outcome : Outcomes]
              \cup [kind : {"ACK_STABLE"}, source : {NoSource}, outcome : Outcomes]

\* recoveryResetPending, lastRecoveryLevel, consecutiveResetCount > 0 and
\* bootSafeFallbackRequired of the persisted metadata.
BootRecord == [resetPending : BOOLEAN, level : Levels,
               recovered : BOOLEAN, safeFallbackRequired : BOOLEAN]

Request(kind, s) == [kind |-> kind, source |-> s, outcome |-> "none"]
AckRequest == [kind |-> "ACK_STABLE", source |-> NoSource, outcome |-> "none"]

SafeRequestable == {"IDLE", "PAYLOAD", "TTC"}
-----------------------------------------------------------------------------
(* The incident updates made under the lock. *)

InitialLevel(s) == IF s \in WatchdogSources THEN 2 ELSE 3

Opened(s, i) ==
  [active |-> TRUE, epoch |-> i.epoch + 1, firstActionIssued |-> FALSE,
   safeFallbackIssued |-> FALSE, processRestartPending |-> FALSE,
   rebootPending |-> FALSE, level |-> InitialLevel(s), openTicks |-> 0]

Pending(i) == i.processRestartPending \/ i.rebootPending

Closed(i) == [i EXCEPT !.active = FALSE, !.level = IF Pending(i) THEN @ ELSE 0]

FirstAction(i, level) == [i EXCEPT !.firstActionIssued = TRUE, !.level = level]

CanFallBack(i, mode, allowAlreadySafe) ==
  ~i.safeFallbackIssued /\ (mode \in SafeRequestable \/ (allowAlreadySafe /\ mode = "SAFE"))

FellBack(i) == [i EXCEPT !.safeFallbackIssued = TRUE, !.level = 5]

RebootPrepared(i) == [i EXCEPT !.level = 6]

ExitRequested == processRestartRequested \/ rebootRequested \/ exit # "NONE"

\* updateStatusSummaryLocked_ derives these from the incidents each time one
\* changes, so they are not state of their own.
Quiet == \A s \in Sources : ~incidents[s].active /\ ~Pending(incidents[s])
-----------------------------------------------------------------------------
Init ==
  /\ incidents = [s \in Sources |->
       [active |-> FALSE, epoch |-> 0, firstActionIssued |-> FALSE,
        safeFallbackIssued |-> FALSE, processRestartPending |-> FALSE,
        rebootPending |-> FALSE, level |-> 0, openTicks |-> 0]]
  /\ processRestartRequested = FALSE /\ rebootRequested = FALSE /\ exit = "NONE"
  /\ bootClampApplied = FALSE /\ stableTicks = 0 /\ stableAcked = FALSE
  /\ todo = [t \in Threads |-> <<>>]
  \* initializeRuntimeBoot_ has counted and cleared the previous reset; its
  \* level is read by nobody before the next boot.
  /\ boot \in [resetPending : {FALSE}, level : {0},
               recovered : BOOLEAN, safeFallbackRequired : BOOLEAN]
  /\ boot.safeFallbackRequired => boot.recovered

\* Thread t leaves the lock with the given incident for s and requests q.
Decide(t, s, i, q) ==
  /\ incidents' = [incidents EXCEPT ![s] = i]
  /\ todo' = [todo EXCEPT ![t] = q]
  /\ UNCHANGED <<processRestartRequested, rebootRequested, exit, bootClampApplied,
                 stableTicks, stableAcked, boot>>

Free(t) == todo[t] = <<>>

CanOpen(s) == ~incidents[s].active /\ incidents[s].epoch < MaxEpoch

\* submitWatchdogFault(s), from WatchdogSupervisor's schedIn.
SubmitWatchdogFault(s, mode) ==
  /\ Free("rg1") /\ CanOpen(s)
  /\ LET i == Opened(s, incidents[s])
     IN  IF boot.safeFallbackRequired /\ CanFallBack(i, mode, TRUE)
           THEN Decide("rg1", s, FellBack(i), <<Request("APPLY_SAFE", s)>>)
           ELSE Decide("rg1", s, FirstAction(i, 2),
                       <<Request("RECORD_PROCESS_RESTART_INTENT", s)>>)

\* submitWatchdogSuppression(s), from WatchdogSupervisor's schedIn or from the
\* SET_WATCHDOG_PROBE_SUPPRESSION command.
SubmitWatchdogSuppression(t, s) ==
  /\ Free(t)
  /\ incidents[s].active \/ incidents[s].epoch < MaxEpoch
  /\ LET i == IF incidents[s].active THEN incidents[s] ELSE Opened(s, incidents[s])
     IN  /\ ~i.rebootPending
         /\ Decide(t, s, RebootPrepared(i), <<Request("RECORD_REBOOT_INTENT", s)>>)

\* clearIncidentBySource_(s).
ClearIncident(t, s) ==
  /\ Free(t) /\ incidents[s].active
  /\ Decide(t, s, Closed(incidents[s]), <<>>)

\* handleSubsystemFault_(s, mode).
HandleSubsystemFault(s, mode) ==
  /\ Free("rg1") /\ CanOpen(s) /\ ~ExitRequested
  /\ LET i == Opened(s, incidents[s])
         first == FirstAction(i, 3)
         fallback(allowAlreadySafe, kind) ==
           IF CanFallBack(first, mode, allowAlreadySafe)
             THEN Decide("rg1", s, FellBack(first), <<Request(kind, s), Request("APPLY_SAFE", s)>>)
             ELSE Decide("rg1", s, first, <<Request(kind, s)>>)
     IN  \/ i.epoch > 1 /\ Decide("rg1", s, RebootPrepared(i), <<Request("RECORD_REBOOT_INTENT", s)>>)
         \/ i.epoch = 1 /\ s \in EpsSources /\ fallback(FALSE, "EPS_RESET")
         \/ /\ i.epoch = 1 /\ s \in AdcsSources
            /\ IF boot.safeFallbackRequired
                 THEN fallback(TRUE, "ADCS_RESET")
                 ELSE Decide("rg1", s, first, <<Request("ADCS_RESET", s)>>)
         \/ /\ i.epoch = 1 /\ s \in CommSources
            /\ Decide("rg1", s, first, <<Request("COMM_FAILOVER", s)>>)
-----------------------------------------------------------------------------
(* schedIn_handler. *)

\* The incident is waiting for its detector to clear it after a first action.
Waiting(i) == i.active /\ ~Pending(i) /\ i.firstActionIssued

\* An earlier attempt to record the reboot of the incident failed.
RebootUnrecorded(i) == i.active /\ ~Pending(i) /\ ~i.firstActionIssued /\ i.level = 6

\* Mutant: the timeout is tested for equality, so a reboot whose record failed
\* once is never asked for again.
RebootDueOnce(i) == (Waiting(i) /\ i.openTicks + 1 = UnclearedTicks) \/ RebootUnrecorded(i)

RebootDue(i) == (Waiting(i) /\ i.openTicks + 1 >= UnclearedTicks) \/ RebootUnrecorded(i)

Ticked(i) ==
  IF Waiting(i)
    THEN [i EXCEPT !.openTicks = IF @ < UnclearedTicks THEN @ + 1 ELSE @,
                   !.level = IF RebootDue(i) THEN 6 ELSE @]
    ELSE i

\* The sources of D in the order the loop over m_status.incidents visits them.
InIndexOrder(q, D) ==
  /\ \A s \in D : \E k \in DOMAIN q : q[k] = s
  /\ \A j, k \in DOMAIN q : j < k => Index[q[j]] < Index[q[k]]

\* A quiet runtime counts towards the acknowledgement of a recovery boot.
Counting == Quiet /\ boot.recovered /\ ~stableAcked

\* Mutant: tested for equality, so a failed acknowledgement is not retried.
AckDueOnce == Counting /\ stableTicks + 1 = StableAckTicks

AckDue == Counting /\ stableTicks + 1 >= StableAckTicks

SchedIn ==
  /\ Free("rg1")
  /\ bootClampApplied' = (bootClampApplied \/ boot.safeFallbackRequired)
  /\ LET due == IF ExitRequested THEN {} ELSE {s \in Sources : RebootDue(incidents[s])}
     IN  /\ incidents' = IF ExitRequested THEN incidents
                         ELSE [s \in Sources |-> Ticked(incidents[s])]
         /\ stableTicks' = IF Counting
                             THEN IF stableTicks < StableAckTicks THEN stableTicks + 1 ELSE stableTicks
                             ELSE IF Quiet THEN stableTicks ELSE 0
         /\ \E q \in [1 .. Cardinality(due) -> due] :
              /\ InIndexOrder(q, due)
              /\ todo' = [todo EXCEPT !["rg1"] =
                   [k \in 1 .. Cardinality(due) |-> Request("RECORD_REBOOT_INTENT", q[k])]
                     \o (IF AckDue THEN <<AckRequest>> ELSE <<>>)]
  /\ UNCHANGED <<processRestartRequested, rebootRequested, exit, stableAcked, boot>>
-----------------------------------------------------------------------------
(* executeExternalAction_: the call outside the lock, then the locked part. *)

External == {"COMM_FAILOVER", "RECORD_PROCESS_RESTART_INTENT",
             "RECORD_REBOOT_INTENT", "ACK_STABLE"}

\* The first request of q with the outcome of its call.
Answered(q, outcome) == [q EXCEPT ![1] = [q[1] EXCEPT !.outcome = outcome]]

\* The call into BootManager or CommController.  It may fail: the metadata
\* could not be persisted, or there is no healthy backup link.
Call(t, outcome) ==
  /\ todo[t] # <<>> /\ todo[t][1].kind \in External /\ todo[t][1].outcome = "none"
  /\ todo' = [todo EXCEPT ![t] = Answered(todo[t], outcome)]
  /\ boot' = CASE outcome = "failed" \/ todo[t][1].kind = "COMM_FAILOVER" -> boot
               [] outcome = "ok" /\ todo[t][1].kind = "RECORD_PROCESS_RESTART_INTENT" ->
                    [boot EXCEPT !.resetPending = TRUE, !.level = 2]
               [] outcome = "ok" /\ todo[t][1].kind = "RECORD_REBOOT_INTENT" ->
                    [boot EXCEPT !.resetPending = TRUE, !.level = 6]
               [] outcome = "ok" /\ todo[t][1].kind = "ACK_STABLE" ->
                    [boot EXCEPT !.recovered = FALSE, !.safeFallbackRequired = FALSE]
  /\ UNCHANGED <<incidents, processRestartRequested, rebootRequested, exit,
                 bootClampApplied, stableTicks, stableAcked>>

Done(t) == todo' = [todo EXCEPT ![t] = Tail(@)]

\* The head of t's requests has kind k and its call, if it makes one, returned.
Returned(t, k, outcome) ==
  todo[t] # <<>> /\ todo[t][1].kind = k /\ todo[t][1].outcome = outcome

\* APPLY_SAFE, EPS_RESET and ADCS_RESET: the call changes no state modelled
\* here and the locked part only counts.
FinishPlain(t) ==
  /\ \E k \in Kinds \ External : Returned(t, k, "none")
  /\ Done(t)
  /\ UNCHANGED <<incidents, processRestartRequested, rebootRequested, exit,
                 bootClampApplied, stableTicks, stableAcked, boot>>

\* The SAFE fallback that follows an action on s that did not help.
FallBackAfter(t, s, mode, allowAlreadySafe, applies) ==
  IF applies /\ CanFallBack(incidents[s], mode, allowAlreadySafe)
    THEN /\ incidents' = [incidents EXCEPT ![s] = FellBack(@)]
         /\ todo' = [todo EXCEPT ![t] = Append(Tail(@), Request("APPLY_SAFE", s))]
    ELSE Done(t) /\ UNCHANGED incidents

FinishCommFailover(t, mode) ==
  LET s == todo[t][1].source
  IN  /\ \/ Returned(t, "COMM_FAILOVER", "ok") /\ Done(t) /\ UNCHANGED incidents
         \/ /\ Returned(t, "COMM_FAILOVER", "failed")
            /\ FallBackAfter(t, s, mode, FALSE, incidents[s].active /\ ~incidents[s].rebootPending)
      /\ UNCHANGED <<processRestartRequested, rebootRequested, exit, bootClampApplied,
                     stableTicks, stableAcked, boot>>

FinishProcessRestart(t, mode) ==
  LET s == todo[t][1].source
  IN  /\ \/ /\ Returned(t, "RECORD_PROCESS_RESTART_INTENT", "ok")
            /\ incidents' = [incidents EXCEPT ![s].processRestartPending = TRUE]
            /\ processRestartRequested' = TRUE
            /\ Done(t)
         \/ /\ Returned(t, "RECORD_PROCESS_RESTART_INTENT", "failed")
            /\ FallBackAfter(t, s, mode, TRUE, incidents[s].active /\ ~Pending(incidents[s]))
            /\ UNCHANGED processRestartRequested
      /\ UNCHANGED <<rebootRequested, exit, bootClampApplied, stableTicks, stableAcked, boot>>

RequestsRuntimeExit(s) == ~(HardwareWatchdogMode /\ s \in WatchdogSources)

\* Mutant: the result of recordRecoveryRestartIntent is not looked at.
FinishRebootUnchecked(t) ==
  LET s == todo[t][1].source
  IN  /\ \E outcome \in {"ok", "failed"} : Returned(t, "RECORD_REBOOT_INTENT", outcome)
      /\ incidents' = [incidents EXCEPT ![s].rebootPending = TRUE]
      /\ rebootRequested' = (rebootRequested \/ RequestsRuntimeExit(s))
      /\ Done(t)
      /\ UNCHANGED <<processRestartRequested, exit, bootClampApplied, stableTicks,
                     stableAcked, boot>>

FinishReboot(t) ==
  LET s == todo[t][1].source
  IN  /\ \/ /\ Returned(t, "RECORD_REBOOT_INTENT", "ok")
            /\ incidents' = [incidents EXCEPT ![s].rebootPending = TRUE]
            /\ rebootRequested' = (rebootRequested \/ RequestsRuntimeExit(s))
         \/ Returned(t, "RECORD_REBOOT_INTENT", "failed") /\ UNCHANGED <<incidents, rebootRequested>>
      /\ Done(t)
      /\ UNCHANGED <<processRestartRequested, exit, bootClampApplied, stableTicks,
                     stableAcked, boot>>

FinishAck(t) ==
  /\ \/ Returned(t, "ACK_STABLE", "ok") /\ stableAcked' = TRUE /\ stableTicks' = 0
     \/ Returned(t, "ACK_STABLE", "failed") /\ UNCHANGED <<stableAcked, stableTicks>>
  /\ Done(t)
  /\ UNCHANGED <<incidents, processRestartRequested, rebootRequested, exit,
                 bootClampApplied, boot>>

\* consumeRecoveryExitRequestForRuntime, polled by the main loop, which leaves
\* the loop once it has consumed a request.
Consume ==
  /\ exit = "NONE"
  /\ \/ /\ rebootRequested
        /\ exit' = "OBC_REBOOT" /\ rebootRequested' = FALSE
        /\ incidents' = [s \in Sources |-> [incidents[s] EXCEPT !.rebootPending = FALSE]]
        /\ UNCHANGED processRestartRequested
     \/ /\ ~rebootRequested /\ processRestartRequested
        /\ exit' = "PROCESS_RESTART" /\ processRestartRequested' = FALSE
        /\ incidents' = [s \in Sources |-> [incidents[s] EXCEPT !.processRestartPending = FALSE]]
        /\ UNCHANGED rebootRequested
  /\ UNCHANGED <<bootClampApplied, stableTicks, stableAcked, todo, boot>>
-----------------------------------------------------------------------------
\* What thread t does with the requests it holds.
Execute(t) ==
  \/ \E outcome \in {"ok", "failed"} : Call(t, outcome)
  \/ FinishPlain(t) \/ FinishReboot(t) \/ FinishAck(t)
  \/ \E mode \in Modes : FinishCommFailover(t, mode) \/ FinishProcessRestart(t, mode)

Detectors ==
  \/ \E s \in WatchdogSources, mode \in Modes : SubmitWatchdogFault(s, mode)
  \/ \E s \in WatchdogSources, t \in Threads : SubmitWatchdogSuppression(t, s) \/ ClearIncident(t, s)
  \/ \E s \in SubsystemSources, mode \in Modes : HandleSubsystemFault(s, mode)
  \/ \E s \in SubsystemSources : ClearIncident("rg1", s)

Next == Detectors \/ SchedIn \/ (\E t \in Threads : Execute(t)) \/ Consume

Spec == Init /\ [][Next]_vars

\* Every rate group cycle ends with schedIn and finishes the actions it
\* started; the main loop keeps polling; metadata writes do not fail forever.
Fairness ==
  /\ SF_vars(SchedIn) /\ WF_vars(Consume)
  /\ \A t \in Threads : WF_vars(Execute(t)) /\ SF_vars(Call(t, "ok"))

FairSpec == Spec /\ Fairness
-----------------------------------------------------------------------------
(* Properties. *)

\* Incidents, requests and boot metadata have the shapes the code gives them.
TypeOK ==
  /\ incidents \in [Sources -> Incident]
  /\ processRestartRequested \in BOOLEAN /\ rebootRequested \in BOOLEAN
  /\ exit \in {"NONE", "PROCESS_RESTART", "OBC_REBOOT"}
  /\ bootClampApplied \in BOOLEAN /\ stableTicks \in 0 .. StableAckTicks
  /\ stableAcked \in BOOLEAN
  /\ todo \in [Threads -> Seq(Requests)]
  /\ boot \in BootRecord

\* The runtime never exits, or even offers to exit, for recovery before the
\* restart intent is on disk: without it the next boot would not count the
\* reset and the restart-loop clamp would never engage.
ExitIsDurable == ExitRequested => boot.resetPending

\* In hardware-watchdog mode a watchdog incident leaves its reboot to the
\* hardware: exit code 32 is requested exactly while a subsystem incident has
\* a recorded reboot, however watchdog incidents open, relatch and clear.
RebootExitNeedsSubsystem ==
  HardwareWatchdogMode =>
    (rebootRequested <=> \E s \in SubsystemSources : incidents[s].rebootPending)

\* While the boot-after-recovery clamp is required no R2 process restart is
\* queued (applyBootSafeFallbackClampLocked_).
NoRestartUnderClamp ==
  boot.safeFallbackRequired =>
    \A t \in Threads : \A k \in DOMAIN todo[t] :
      todo[t][k].kind # "RECORD_PROCESS_RESTART_INTENT"

\* The reset counter and the clamp are dropped only while no incident is open
\* and no reboot intent is pending (ACK_STABLE).
AckOnlyWhenQuiet == [][boot.recovered /\ ~boot'.recovered => Quiet]_vars

\* A subsystem incident does not stay open for ever: its detector clears it or
\* the runtime is asked to exit, also when recording the intent fails at first.
SubsystemIncidentResolves ==
  \A s \in SubsystemSources : incidents[s].active ~> (~incidents[s].active \/ ExitRequested)

\* Once the runtime stays quiet after a recovery boot, the boot is eventually
\* acknowledged as stable even if persisting the acknowledgement fails first.
QuietBootIsAcknowledged == (<>[]Quiet) => <>(~boot.recovered \/ exit # "NONE")
=============================================================================
