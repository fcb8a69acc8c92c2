------------------------------ MODULE ModeControl ------------------------------
(*****************************************************************************)
(* The satellite mode and its four writers: the operator (ModeManager on the *)
(* command thread), and on rate group 1 the state-of-charge policy           *)
(* (ModeSafetyController), the pass-window policy (TtcPassManager) and the   *)
(* recovery executor.  ModeManager has no lock: every writer reads the mode, *)
(* decides, and writes it in a later step.  Overlap says whether a command   *)
(* may run between such a read and its write, and the other way round.       *)
(*****************************************************************************)
EXTENDS Naturals

CONSTANTS Socs,      \* the states of charge the EPS reports, in percent
          Windows,   \* pass windows an operator configures
          Timeouts,  \* values given to lossOfLockTimeoutSec
          LossMax,   \* one more than the longest timeout, or greater
          Overlap,   \* BOOLEAN: may a command and a cycle interleave
          None, Unavailable

VARIABLES mode,      \* ModeManager::m_currentMode
          eps,       \* EpsBridge's cached state of charge, or Unavailable
          judged,    \* the SoC policy has run on this cached status (history)
          ttc,       \* TtcPassManager: config, window, suppression, timers
          gps,       \* the window GPS time is in, None outside, or Unavailable
          link,      \* some radio link is available
          step,      \* the component rate group 1 runs next
          intent,    \* a mode rate group 1 has decided on and not yet written
          op,        \* an accepted operator mode not yet written, or None
          bootClamp  \* the boot SAFE clamp is still to be applied

vars == <<mode, eps, judged, ttc, gps, link, step, intent, op, bootClamp>>

Modes == {"SAFE", "HELL", "IDLE", "PAYLOAD", "TTC"}
Ttc == [enabled : BOOLEAN, timeout : Timeouts \cup {0}, window : Windows \cup {None},
        suppressed : Windows \cup {None}, ttcActive : BOOLEAN, loss : (0 .. LossMax) \cup {None}]
Intents == [source : {"safety", "ttc", "recovery"}, target : Modes]
Steps == {"eps", "safety", "ttc"}

ASSUME ModeAssumption ==
  /\ Socs \subseteq Nat /\ Unavailable \notin Socs
  /\ Timeouts \subseteq Nat /\ LossMax \in Nat /\ \A t \in Timeouts : t < LossMax
  /\ None \notin Windows /\ Unavailable \notin Windows /\ None # Unavailable
  /\ None \notin 0 .. LossMax /\ None \notin Intents
  /\ Overlap \in BOOLEAN

SAFE_TO_HELL_SOC == 10
HELL_TO_SAFE_SOC == 15
ACTIVE_TO_SAFE_SOC == 40
SAFE_TO_IDLE_SOC == 50
PAYLOAD_TO_IDLE_SOC == 60
IDLE_TO_PAYLOAD_SOC == 70

Valid(s) == s # Unavailable
Below(s, threshold) == Valid(s) /\ s < threshold
Above(s, threshold) == Valid(s) /\ s > threshold

-------------------------------------------------------------------------------
(* The policies.                                                             *)

\* evaluateOperatorTransition: what an operator may request from a mode.
OperatorMay(from, to, s) ==
  \/ from = to
  \/ from = "SAFE" /\ to = "IDLE" /\ Above(s, SAFE_TO_IDLE_SOC)
  \/ from = "IDLE" /\ to \in {"SAFE", "TTC"}
  \/ from = "IDLE" /\ to = "PAYLOAD" /\ Above(s, IDLE_TO_PAYLOAD_SOC)
  \/ from \in {"PAYLOAD", "TTC"} /\ to \in {"SAFE", "IDLE"}
  \/ from = "HELL" /\ to = "SAFE" /\ Above(s, HELL_TO_SAFE_SOC)

\* Mutant of Evaluate: PAYLOAD is left only for SAFE.
EvaluateKeepsPayload(from, s) ==
  CASE from = "SAFE" /\ Below(s, SAFE_TO_HELL_SOC) -> "HELL"
    [] from = "HELL" /\ Above(s, HELL_TO_SAFE_SOC) -> "SAFE"
    [] from \in {"PAYLOAD", "IDLE", "TTC"} /\ Below(s, ACTIVE_TO_SAFE_SOC) -> "SAFE"
    [] OTHER -> from

\* Mutant of Evaluate: TTC has no floor.
EvaluateKeepsTtc(from, s) ==
  CASE from = "SAFE" /\ Below(s, SAFE_TO_HELL_SOC) -> "HELL"
    [] from = "HELL" /\ Above(s, HELL_TO_SAFE_SOC) -> "SAFE"
    [] from \in {"PAYLOAD", "IDLE"} /\ Below(s, ACTIVE_TO_SAFE_SOC) -> "SAFE"
    [] from = "PAYLOAD" /\ ~Below(s, ACTIVE_TO_SAFE_SOC) /\ Below(s, PAYLOAD_TO_IDLE_SOC) -> "IDLE"
    [] OTHER -> from

\* ModeSafetyPolicy::evaluate: the mode a state of charge calls for.
Evaluate(from, s) ==
  CASE from = "SAFE" /\ Below(s, SAFE_TO_HELL_SOC) -> "HELL"
    [] from = "HELL" /\ Above(s, HELL_TO_SAFE_SOC) -> "SAFE"
    [] from \in {"PAYLOAD", "IDLE", "TTC"} /\ Below(s, ACTIVE_TO_SAFE_SOC) -> "SAFE"
    [] from = "PAYLOAD" /\ ~Below(s, ACTIVE_TO_SAFE_SOC) /\ Below(s, PAYLOAD_TO_IDLE_SOC) -> "IDLE"
    [] OTHER -> from

\* The configured window is valid and holds the GPS time.
WindowActive == gps \in Windows /\ gps = ttc.window

\* updateLossOfLockTimer: the timer runs in TTC without a link, one second a
\* cycle.
Lost ==
  IF mode # "TTC" \/ link THEN None ELSE IF ttc.loss = None THEN 0 ELSE ttc.loss + 1

\* The pass is abandoned: no link for longer than the timeout.
CommLoss ==
  /\ mode = "TTC" /\ ttc.enabled /\ WindowActive /\ ttc.timeout > 0
  /\ Lost # None /\ Lost > ttc.timeout

\* TTC is left when the policy is off, the window is over or the link is lost.
ExitDue == mode = "TTC" /\ (~ttc.enabled \/ ~WindowActive \/ CommLoss)

\* Mutant of Suppressed: losing the link does not suppress the window.
SuppressedByOperatorOnly ==
  IF mode = "IDLE" /\ ttc.ttcActive /\ WindowActive THEN ttc.window
  ELSE IF WindowActive /\ ttc.window = ttc.suppressed THEN ttc.suppressed ELSE None

\* The window that is not to be entered again: the one whose pass was lost, or
\* was ended by a change from TTC to IDLE, for as long as it stays active.
Suppressed ==
  IF CommLoss \/ (mode = "IDLE" /\ ttc.ttcActive /\ WindowActive) THEN ttc.window
  ELSE IF WindowActive /\ ttc.window = ttc.suppressed THEN ttc.suppressed ELSE None

\* TTC is entered from IDLE in an active window that is not suppressed.
EntryDue == mode = "IDLE" /\ ttc.enabled /\ WindowActive /\ ttc.window # Suppressed

-------------------------------------------------------------------------------
(* The threads.                                                              *)

Init ==
  /\ mode = "SAFE" /\ eps = Unavailable /\ judged = FALSE
  /\ ttc = [enabled |-> FALSE, timeout |-> 0, window |-> None, suppressed |-> None,
            ttcActive |-> FALSE, loss |-> None]
  /\ gps = Unavailable /\ link \in BOOLEAN
  /\ step = "eps" /\ intent = None /\ op = None
  /\ bootClamp \in BOOLEAN

\* Rate group 1 may run, or a command may.
CycleRuns == Overlap \/ op = None
CommandRuns == op = None /\ (Overlap \/ intent = None)

NewStatus == eps' \in Socs \cup {Unavailable} /\ judged' = FALSE

\* EpsBridge's scheduled poll: a reply, a failure, or a reply still awaited.
EpsPoll ==
  /\ step = "eps" /\ intent = None /\ CycleRuns /\ step' = "safety"
  /\ NewStatus \/ UNCHANGED <<eps, judged>>
  /\ UNCHANGED <<mode, ttc, gps, link, intent, op, bootClamp>>

\* ModeSafetyController::runCycle up to the decision.
SafetyCycle ==
  /\ step = "safety" /\ intent = None /\ CycleRuns /\ step' = "ttc"
  /\ intent' = IF Evaluate(mode, eps) = mode THEN None
               ELSE [source |-> "safety", target |-> Evaluate(mode, eps)]
  /\ judged' = (Evaluate(mode, eps) = mode)
  /\ UNCHANGED <<mode, eps, ttc, gps, link, op, bootClamp>>

\* TtcPassManager::schedIn up to the end of its locked section.
TtcCycle ==
  /\ step = "ttc" /\ intent = None /\ CycleRuns /\ step' = "eps"
  /\ ttc' = [ttc EXCEPT !.suppressed = Suppressed, !.ttcActive = (mode = "TTC"), !.loss = Lost]
  /\ intent' = CASE EntryDue -> [source |-> "ttc", target |-> "TTC"]
                 [] ExitDue -> [source |-> "ttc", target |-> "IDLE"]
                 [] OTHER -> None
  /\ UNCHANGED <<mode, eps, judged, gps, link, op, bootClamp>>

\* RecoveryExecutor asks for SAFE: from an active mode, or once at boot from any.
RecoveryRequest ==
  /\ intent = None /\ CycleRuns
  /\ \/ mode \in {"IDLE", "PAYLOAD", "TTC"} /\ UNCHANGED bootClamp
     \/ bootClamp /\ bootClamp' = FALSE
  /\ intent' = [source |-> "recovery", target |-> "SAFE"]
  /\ UNCHANGED <<mode, eps, judged, ttc, gps, link, step, op>>

\* applyModeForInternalSource, and what its caller does with the answer.
ApplyInternal ==
  /\ intent # None /\ CycleRuns
  /\ mode' = intent.target /\ intent' = None
  /\ judged' = (judged \/ intent.source = "safety")
  /\ ttc' = IF intent.source # "ttc" THEN ttc
            ELSE [ttc EXCEPT !.ttcActive = (intent.target = "TTC"),
                             !.loss = IF intent.target = "TTC" THEN ttc.loss ELSE None]
  /\ UNCHANGED <<eps, gps, link, step, op, bootClamp>>

\* MODE_SET up to the guard's decision: a rejected request changes nothing.
RequestMode(to) ==
  /\ CommandRuns /\ OperatorMay(mode, to, eps)
  /\ op' = to
  /\ UNCHANGED <<mode, eps, judged, ttc, gps, link, step, intent, bootClamp>>

\* applyMode_ for the operator.
ApplyOperator ==
  /\ op # None /\ (Overlap \/ intent = None)
  /\ mode' = op /\ op' = None
  /\ UNCHANGED <<eps, judged, ttc, gps, link, step, intent, bootClamp>>

\* EPS_GET_STATUS and the EPS commands refresh or drop the cached status.
EpsCommand ==
  /\ CommandRuns /\ NewStatus
  /\ UNCHANGED <<mode, ttc, gps, link, step, intent, op, bootClamp>>

\* TTC_SET_POLICY: an enabled policy needs a timeout.
SetPolicy(enabled, timeout) ==
  /\ CommandRuns /\ (enabled => timeout > 0)
  /\ ttc' = [ttc EXCEPT !.enabled = enabled, !.timeout = timeout]
  /\ UNCHANGED <<mode, eps, judged, gps, link, step, intent, op, bootClamp>>

\* TTC_SET_PASS_WINDOW with a valid window.
SetPassWindow(w) ==
  /\ CommandRuns
  /\ ttc' = [ttc EXCEPT !.window = w,
                        !.suppressed = IF w = ttc.suppressed THEN ttc.suppressed ELSE None]
  /\ UNCHANGED <<mode, eps, judged, gps, link, step, intent, op, bootClamp>>

\* TTC_SET_PASS_WINDOW with an invalid window: the configured one is dropped.
RejectPassWindow ==
  /\ CommandRuns /\ ttc' = [ttc EXCEPT !.window = None]
  /\ UNCHANGED <<mode, eps, judged, gps, link, step, intent, op, bootClamp>>

\* TTC_CLEAR_PASS_WINDOW.
ClearPassWindow ==
  /\ CommandRuns /\ ttc' = [ttc EXCEPT !.window = None, !.suppressed = None]
  /\ UNCHANGED <<mode, eps, judged, gps, link, step, intent, op, bootClamp>>

\* GPS time and the radio links, as the bridges report them.
Surroundings ==
  /\ gps' \in Windows \cup {None, Unavailable} /\ link' \in BOOLEAN
  /\ UNCHANGED <<mode, eps, judged, ttc, step, intent, op, bootClamp>>

Cycle == EpsPoll \/ SafetyCycle \/ TtcCycle \/ ApplyInternal

Operator == (\E to \in Modes : RequestMode(to)) \/ ApplyOperator

Next ==
  \/ Cycle \/ RecoveryRequest \/ Operator \/ EpsCommand
  \/ \E enabled \in BOOLEAN, timeout \in Timeouts \cup {0} : SetPolicy(enabled, timeout)
  \/ \E w \in Windows : SetPassWindow(w)
  \/ RejectPassWindow \/ ClearPassWindow \/ Surroundings

Spec == Init /\ [][Next]_vars

\* The rate group's thread keeps cycling, whatever commands run between its
\* steps, and a command handler that started ends.
FairSpec == Spec /\ SF_vars(Cycle) /\ WF_vars(ApplyOperator)

-------------------------------------------------------------------------------
(* Properties.                                                               *)

\* Every variable has its type.  The loss-of-lock timer has no bound in the
\* code: that it stays within LossMax says that TtcPassManager leaves TTC, and
\* with it resets the timer, as soon as the timer passes the longest timeout.
TypeOK ==
  /\ mode \in Modes /\ eps \in Socs \cup {Unavailable} /\ judged \in BOOLEAN
  /\ ttc \in Ttc /\ gps \in Windows \cup {None, Unavailable} /\ link \in BOOLEAN
  /\ step \in Steps /\ intent \in Intents \cup {None} /\ op \in Modes \cup {None}
  /\ bootClamp \in BOOLEAN

\* Once ModeSafetyController has judged a cached status, no writer takes the
\* mode where that charge does not allow it: no active mode below the fallback
\* floor, no PAYLOAD below its exit threshold.
ModeMatchesPower ==
  judged => /\ Below(eps, ACTIVE_TO_SAFE_SOC) => mode \in {"SAFE", "HELL"}
            /\ Below(eps, PAYLOAD_TO_IDLE_SOC) => mode # "PAYLOAD"

\* SAFE is left, other than for HELL, only for IDLE by an operator's request
\* that the SoC guard admits: no policy takes the satellite out of SAFE.
SafeIsLeftByOperator ==
  [][mode = "SAFE" /\ mode' \notin {"SAFE", "HELL"} =>
       op = "IDLE" /\ mode' = "IDLE" /\ Above(eps, SAFE_TO_IDLE_SOC)]_vars

\* The pass policy takes the satellite to TTC only from IDLE: "TTC auto-entry
\* does not bypass non-IDLE modes".
TtcEntersFromIdle ==
  [][intent # None /\ intent.source = "ttc" /\ intent.target = "TTC" /\ mode' # mode =>
       mode = "IDLE" \/ mode' # "TTC"]_vars

\* A charge below the fallback floor ends in SAFE or HELL, unless a later
\* status takes it back: ModeSafetyController's cycle is never starved.
LowPowerFallsBack ==
  Below(eps, ACTIVE_TO_SAFE_SOC) ~> (mode \in {"SAFE", "HELL"} \/ ~Below(eps, ACTIVE_TO_SAFE_SOC))

\* In a window that stays active without a link, TtcPassManager does not keep
\* entering and leaving TTC: unless the operator keeps setting modes, TTC is
\* left for good.
LostPassIsAbandoned ==
  \A w \in Windows :
    <>[](ttc.enabled /\ gps = w /\ ttc.window = w /\ ~link) => (<>[](mode # "TTC") \/ []<><<Operator>>_vars)
=============================================================================
