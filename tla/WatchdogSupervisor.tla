------------------------- MODULE WatchdogSupervisor -------------------------
(***************************************************************************)
(* WatchdogSupervisor and WatchdogPolicy                                   *)
(* (OBC/Components/WatchdogSupervisor): heartbeats of the supervised       *)
(* sources are aged once per cycle, the ages give each source a state, and *)
(* the states are rolled up into the eligibility of the hardware feed.     *)
(* Beats and schedIn run in the rate group thread; SET_WATCHDOG_CONFIG and *)
(* SET_WATCHDOG_PROBE_SUPPRESSION run in the command thread.  All of them  *)
(* hold m_runtimeMutex, but the command thread calls RecoveryExecutor only *)
(* after it has released it (cmdCall), while schedIn calls it under the    *)
(* lock; so does the feed stroke follow the unlock (strokeDue).            *)
(*                                                                         *)
(* RecoveryExecutor appears here as `open', the sources whose incident is  *)
(* active.  A command's late call on a source can fall before or after     *)
(* schedIn's calls on it with the same effect on `open' as before or after *)
(* the whole of schedIn, so schedIn is one step.                           *)
(*                                                                         *)
(* Left out: the event and telemetry counters, lastBeatCode, and resource  *)
(* monitoring, which shares the lock and no state.                         *)
(***************************************************************************)
EXTENDS Naturals, FiniteSets

CONSTANTS Sources,
          DefaultConfig,  \* WatchdogSourceConfig's initial values
          Tunable,        \* the sources SET_WATCHDOG_CONFIG is used on
          Configs,        \* what it may be given
          AgeMax,         \* the saturation point of ageTicks, 2^32 - 1 in the code
          CmdLag          \* bound: cycles that pass between a command's unlock
                          \* and its call of RecoveryExecutor

ConfigRecord == [enabled : BOOLEAN, warning : Nat, safe : Nat, suppress : Nat]

\* WatchdogPolicy::isValidConfig; the numbers are U32.
IsValidConfig(c) == c.warning > 0 /\ c.warning <= c.safe /\ c.safe <= c.suppress

ASSUME WatchdogAssumption ==
  /\ IsFiniteSet(Sources)
  /\ DefaultConfig \in ConfigRecord /\ IsValidConfig(DefaultConfig) /\ DefaultConfig.enabled
  /\ Tunable \subseteq Sources /\ Configs \subseteq ConfigRecord
  /\ AgeMax \in Nat /\ CmdLag \in Nat
  /\ \A c \in Configs \cup {DefaultConfig} : c.suppress <= AgeMax

VARIABLES sources,            \* m_runtimeStatus.sources
          safeRequestIssued,  \* m_safeRequestIssuedForCurrentFault
          aggregate,          \* the rolled-up fields of m_runtimeStatus
          strokeDue,          \* strokeWatchdog of a schedIn that has unlocked
          open,               \* sources whose incident is active in RecoveryExecutor
          cmdCall,            \* the call the command thread has yet to make
          lag,                \* cycles since the command thread unlocked
          requestable         \* the mode is one that SAFE may be requested from

vars == <<sources, safeRequestIssued, aggregate, strokeDue, open, cmdCall, lag, requestable>>

States == {"DISABLED", "HEALTHY", "WARNING", "LATCHED_FAULT", "FEED_SUPPRESSED"}
Faulty == {"LATCHED_FAULT", "FEED_SUPPRESSED"}

NoCall == [op |-> "none"]
Calls == {NoCall} \cup [op : {"suppression", "clear"}, source : Sources]

Source == [config : ConfigRecord, state : States, age : 0 .. AgeMax,
           beatPending : BOOLEAN, probeSuppressed : BOOLEAN]
-----------------------------------------------------------------------------
(* WatchdogPolicy. *)

Severity(state) ==
  CASE state = "DISABLED" -> 0 [] state = "HEALTHY" -> 1 [] state = "WARNING" -> 2
    [] state = "LATCHED_FAULT" -> 3 [] state = "FEED_SUPPRESSED" -> 4

NextTick(age) == IF age = AgeMax THEN age ELSE age + 1

StateForAge(c, age) ==
  CASE ~c.enabled -> "DISABLED"
    [] c.enabled /\ age >= c.suppress -> "FEED_SUPPRESSED"
    [] c.enabled /\ age < c.suppress /\ age >= c.safe -> "LATCHED_FAULT"
    [] c.enabled /\ age < c.safe /\ age >= c.warning -> "WARNING"
    [] c.enabled /\ age < c.warning -> "HEALTHY"

\* evaluateSource.
NextAge(src) == IF ~src.config.enabled \/ src.beatPending THEN 0 ELSE NextTick(src.age)

NextState(src) == StateForAge(src.config, NextAge(src))

Recovered(src) ==
  (~src.config.enabled \/ src.beatPending) /\ Severity(src.state) > Severity("HEALTHY")

Ages(src) == src.config.enabled /\ ~src.beatPending

\* Mutant: the fault severity itself does not count as crossed.
CrossedFaultLate(src) ==
  Ages(src) /\ Severity(src.state) < 3 /\ Severity(NextState(src)) > 3

CrossedFault(src) ==
  Ages(src) /\ Severity(src.state) < 3 /\ Severity(NextState(src)) >= 3

CrossedSuppression(src) ==
  Ages(src) /\ src.state # "FEED_SUPPRESSED" /\ NextState(src) = "FEED_SUPPRESSED"

\* Mutant: the feed stops only when no enabled source is left to feed for.
FeedEligibleWhileAny(enabled, suppressed) == suppressed # enabled

FeedEligible(enabled, suppressed) == enabled # {} /\ suppressed = {}

\* rollup: the masks as sets of sources.
Rollup(ss, issued) ==
  LET enabled == {s \in Sources : ss[s].state # "DISABLED" /\ ss[s].config.enabled}
      suppressed == {s \in enabled : ss[s].state = "FEED_SUPPRESSED"}
      faulty == {s \in enabled : ss[s].state \in Faulty}
      warning == {s \in enabled : ss[s].state = "WARNING"}
      state == CASE enabled = {} -> "DISABLED"
                 [] suppressed # {} -> "FEED_SUPPRESSED"
                 [] suppressed = {} /\ faulty # {} -> "LATCHED_FAULT"
                 [] enabled # {} /\ faulty = {} /\ warning # {} -> "WARNING"
                 [] enabled # {} /\ faulty = {} /\ warning = {} -> "HEALTHY"
  IN  [state |-> state,
       level |-> IF state = "LATCHED_FAULT" /\ issued THEN "SAFE_REQUESTED"
                 ELSE IF state \in {"DISABLED", "HEALTHY"} THEN "NONE" ELSE state,
       feedEligible |-> FeedEligible(enabled, suppressed),
       faultMask |-> faulty, suppressMask |-> suppressed, warningMask |-> warning]

Aggregate == [state : States,
              level : {"NONE", "WARNING", "LATCHED_FAULT", "SAFE_REQUESTED", "FEED_SUPPRESSED"},
              feedEligible : BOOLEAN, faultMask : SUBSET Sources,
              suppressMask : SUBSET Sources, warningMask : SUBSET Sources]
-----------------------------------------------------------------------------
Init ==
  /\ sources = [s \in Sources |->
       [config |-> DefaultConfig, state |-> StateForAge(DefaultConfig, 0), age |-> 0,
        beatPending |-> FALSE, probeSuppressed |-> FALSE]]
  /\ safeRequestIssued = FALSE
  /\ aggregate = Rollup(sources, FALSE)
  /\ strokeDue = FALSE /\ open = {} /\ cmdCall = NoCall /\ lag = 0
  /\ requestable = FALSE                                \* the satellite boots in SAFE

\* The flag is dropped when no aggregate fault is left, and the aggregate
\* fields are recomputed, at the end of each locked section that changes a state.
Settle(ss, issued) ==
  LET r == Rollup(ss, issued)
  IN  /\ sources' = ss
      /\ safeRequestIssued' = (issued /\ r.state \in Faulty)
      /\ aggregate' = r

\* beatIn_handler: a source's schedIn, earlier in the same cycle.
BeatIn(s) ==
  /\ ~strokeDue
  /\ sources' = [sources EXCEPT ![s].beatPending = @ \/ ~sources[s].probeSuppressed]
  /\ UNCHANGED <<safeRequestIssued, aggregate, strokeDue, open, cmdCall, lag, requestable>>

\* schedIn_handler, with the mode read at its start.
SchedIn ==
  /\ ~strokeDue
  /\ cmdCall # NoCall => lag < CmdLag
  /\ lag' = IF cmdCall = NoCall THEN 0 ELSE lag + 1
  /\ LET ss == [s \in Sources |->
                  [sources[s] EXCEPT !.beatPending = FALSE, !.age = NextAge(sources[s]),
                                     !.state = NextState(sources[s])]]
         crossed == {s \in Sources : CrossedFault(sources[s])}
         suppressed == {s \in Sources : CrossedSuppression(sources[s])}
         recovered == {s \in Sources : Recovered(sources[s])}
         issued == safeRequestIssued \/ (requestable /\ crossed # {})
         resubmit == requestable /\ ~issued /\ Rollup(ss, issued).state \in Faulty
     IN  /\ Settle(ss, issued \/ resubmit)
         /\ open' = ((open \cup crossed \cup suppressed) \ recovered)
                      \cup (IF resubmit THEN {s \in Sources : ss[s].state \in Faulty} ELSE {})
  /\ strokeDue' = aggregate'.feedEligible
  /\ UNCHANGED <<cmdCall, requestable>>

\* watchdogFeedOut after the unlock: one stroke of the hardware watchdog.
Stroke ==
  /\ strokeDue /\ strokeDue' = FALSE
  /\ UNCHANGED <<sources, safeRequestIssued, aggregate, open, cmdCall, lag, requestable>>

\* setConfigForRuntime; it does not call RecoveryExecutor.
SetConfig(s, c) ==
  /\ cmdCall = NoCall /\ IsValidConfig(c)
  /\ LET src == [sources[s] EXCEPT !.config = c, !.state = StateForAge(c, sources[s].age)]
     IN  Settle([sources EXCEPT ![s] =
                   IF c.enabled THEN src ELSE [src EXCEPT !.age = 0, !.beatPending = FALSE]],
                safeRequestIssued)
  /\ UNCHANGED <<strokeDue, open, cmdCall, lag, requestable>>

\* setProbeBeatSuppressionForRuntime up to its unlock.
SetProbeBeatSuppression(s, suppressed) ==
  /\ cmdCall = NoCall
  /\ LET src == [sources[s] EXCEPT !.probeSuppressed = suppressed, !.beatPending = FALSE]
         was == src.state = "FEED_SUPPRESSED"
         enters == suppressed /\ ~was /\ src.config.enabled
         leaves == ~suppressed /\ was
     IN  /\ Settle([sources EXCEPT ![s] =
                      [src EXCEPT !.age = IF enters THEN src.config.suppress
                                          ELSE IF leaves THEN 0 ELSE @,
                                  !.state = IF enters THEN "FEED_SUPPRESSED"
                                            ELSE IF ~leaves THEN @
                                            ELSE IF src.config.enabled THEN "HEALTHY" ELSE "DISABLED"]],
                   safeRequestIssued)
         /\ cmdCall' = IF enters THEN [op |-> "suppression", source |-> s]
                       ELSE IF leaves THEN [op |-> "clear", source |-> s] ELSE NoCall
  /\ lag' = 0
  /\ UNCHANGED <<strokeDue, open, requestable>>

\* Its call of submitWatchdogSuppression or clearWatchdogFault.
CallRecovery ==
  /\ cmdCall # NoCall
  /\ open' = IF cmdCall.op = "suppression" THEN open \cup {cmdCall.source}
             ELSE open \ {cmdCall.source}
  /\ cmdCall' = NoCall /\ lag' = 0
  /\ UNCHANGED <<sources, safeRequestIssued, aggregate, strokeDue, requestable>>

\* The mode owner leaves or enters IDLE, PAYLOAD and TTC at any time.
ModeChange ==
  /\ requestable' = ~requestable
  /\ UNCHANGED <<sources, safeRequestIssued, aggregate, strokeDue, open, cmdCall, lag>>

Next ==
  \/ \E s \in Sources : BeatIn(s) \/ \E b \in BOOLEAN : SetProbeBeatSuppression(s, b)
  \/ \E s \in Tunable, c \in Configs : SetConfig(s, c)
  \/ SchedIn \/ Stroke \/ CallRecovery \/ ModeChange

Spec == Init /\ [][Next]_vars
-----------------------------------------------------------------------------
(* Properties. *)

\* Sources, aggregate fields and the call in flight have the shapes of the code.
TypeOK ==
  /\ sources \in [Sources -> Source]
  /\ safeRequestIssued \in BOOLEAN /\ aggregate \in Aggregate /\ strokeDue \in BOOLEAN
  /\ open \subseteq Sources /\ cmdCall \in Calls /\ lag \in 0 .. CmdLag
  /\ requestable \in BOOLEAN

\* The feed eligibility and masks kept in m_runtimeStatus, and reported, are
\* those of the source states at any moment the lock is free, whatever mix of
\* cycles, reconfigurations and probe commands went before.
AggregateIsCurrent == aggregate = Rollup(sources, safeRequestIssued)

\* The sources that keep their default thresholds.
Untouched == Sources \ Tunable

\* A source that latched a fault has an incident in RecoveryExecutor, or the
\* command thread is about to open it, whatever happens to other sources.
\* (For a source whose thresholds are lowered below its age this fails:
\* setConfigForRuntime latches its fault and tells nobody.)
FaultHasIncident ==
  \A s \in Untouched : sources[s].state \in Faulty =>
    s \in open \/ cmdCall = [op |-> "suppression", source |-> s]

\* An incident stays open only while its source is faulty, or until the command
\* thread makes its clearing call: no incident is left behind to escalate.
IncidentHasFault ==
  \A s \in open \cap Untouched :
    sources[s].state \in Faulty \/ cmdCall = [op |-> "clear", source |-> s]

\* The two together: supervisor and RecoveryExecutor agree on what is faulty.
IncidentsMatchFaults == FaultHasIncident /\ IncidentHasFault
=============================================================================
