--------------------------- MODULE ModeControlProofs ---------------------------
(*****************************************************************************)
(* Proofs about ModeControl: its types in every run, and, when commands do   *)
(* not run between a cycle's read of the mode and its write, that the mode   *)
(* keeps to the charge and that only the operator leaves SAFE.               *)
(*****************************************************************************)
EXTENDS ModeControl, TLAPS

\* The policy answers with a mode.
LEMMA EvaluateType ==
  ASSUME NEW from \in Modes, NEW s
  PROVE  Evaluate(from, s) \in Modes
BY DEF Evaluate, Modes

\* The loss-of-lock timer has passed every timeout only while the exit from TTC
\* that resets it is awaiting its write; an enabled policy has a timeout.
TimerBound ==
  /\ ttc.enabled => ttc.timeout > 0
  /\ ttc.loss # None => \/ ttc.loss < LossMax
                        \/ intent # None /\ intent.source = "ttc" /\ intent.target = "IDLE"

TInv == TypeOK /\ TimerBound

\* What TtcPassManager's cycle stores is of its type.
LEMMA TtcCycleType ==
  ASSUME TInv, intent = None
  PROVE  [ttc EXCEPT !.suppressed = Suppressed, !.ttcActive = (mode = "TTC"), !.loss = Lost] \in Ttc
<1>1. Suppressed \in Windows \cup {None}
  BY DEF TInv, TypeOK, Ttc, Suppressed
<1>2. Lost \in (0 .. LossMax) \cup {None}
  <2>1. ttc.loss # None => ttc.loss \in 0 .. LossMax /\ ttc.loss < LossMax
    BY DEF TInv, TimerBound, TypeOK, Ttc
  <2>2. QED
    BY <2>1, ModeAssumption DEF Lost
<1>3. (mode = "TTC") \in BOOLEAN
  OBVIOUS
<1>4. QED
  BY <1>1, <1>2, <1>3 DEF TInv, TypeOK, Ttc

\* Every step keeps the types.
LEMMA TypeStep ==
  ASSUME TInv, [Next]_vars
  PROVE  TypeOK'
<1>0. TypeOK
  BY DEF TInv
<1> USE <1>0
<1>1. CASE EpsPoll
  BY <1>1 DEF TypeOK, EpsPoll, NewStatus, Steps
<1>2. CASE SafetyCycle
  <2>1. Evaluate(mode, eps) \in Modes
    BY EvaluateType DEF TypeOK
  <2>2. intent' \in Intents \cup {None} /\ judged' \in BOOLEAN /\ step' \in Steps
    BY <1>2, <2>1 DEF SafetyCycle, Intents, Steps
  <2>3. QED
    BY <1>2, <2>2 DEF TypeOK, SafetyCycle
<1>3. CASE TtcCycle
  <2>1. ttc' \in Ttc
    BY <1>3, TtcCycleType DEF TtcCycle
  <2>2. intent' \in Intents \cup {None} /\ step' \in Steps
    BY <1>3 DEF TtcCycle, Intents, Modes, Steps
  <2>3. QED
    BY <1>3, <2>1, <2>2 DEF TypeOK, TtcCycle
<1>4. CASE ApplyInternal
  <2>1. intent \in Intents
    BY <1>4 DEF TypeOK, ApplyInternal
  <2>2. ttc' \in Ttc
    <3>1. CASE intent.source # "ttc"
      BY <1>4, <3>1 DEF ApplyInternal, TypeOK
    <3>2. CASE intent.source = "ttc"
      <4>1. (IF intent.target = "TTC" THEN ttc.loss ELSE None) \in (0 .. LossMax) \cup {None}
        BY DEF TypeOK, Ttc
      <4>2. (intent.target = "TTC") \in BOOLEAN
        OBVIOUS
      <4>3. QED
        BY <1>4, <3>2, <4>1, <4>2 DEF ApplyInternal, TypeOK, Ttc
    <3>3. QED
      BY <3>1, <3>2
  <2>3. judged' \in BOOLEAN /\ mode' \in Modes
    BY <1>4, <2>1 DEF ApplyInternal, TypeOK, Intents
  <2>4. QED
    BY <1>4, <2>2, <2>3 DEF TypeOK, ApplyInternal
<1>5. CASE RecoveryRequest
  BY <1>5 DEF TypeOK, RecoveryRequest, Intents, Modes
<1>6. ASSUME NEW to \in Modes, RequestMode(to) PROVE TypeOK'
  BY <1>6 DEF TypeOK, RequestMode
<1>7. CASE ApplyOperator
  BY <1>7 DEF TypeOK, ApplyOperator
<1>8. CASE EpsCommand
  BY <1>8 DEF TypeOK, EpsCommand, NewStatus
<1>9. ASSUME NEW enabled \in BOOLEAN, NEW timeout \in Timeouts \cup {0}, SetPolicy(enabled, timeout)
      PROVE  TypeOK'
  <2>1. ttc' \in Ttc
    BY <1>9 DEF TypeOK, SetPolicy, Ttc
  <2>2. QED
    BY <1>9, <2>1 DEF TypeOK, SetPolicy
<1>10. ASSUME NEW w \in Windows, SetPassWindow(w) PROVE TypeOK'
  <2>1. (IF w = ttc.suppressed THEN ttc.suppressed ELSE None) \in Windows \cup {None}
    OBVIOUS
  <2>2. ttc' \in Ttc
    BY <1>10, <2>1 DEF TypeOK, SetPassWindow, Ttc
  <2>3. QED
    BY <1>10, <2>2 DEF TypeOK, SetPassWindow
<1>11. CASE RejectPassWindow
  BY <1>11 DEF TypeOK, RejectPassWindow, Ttc
<1>12. CASE ClearPassWindow
  BY <1>12 DEF TypeOK, ClearPassWindow, Ttc
<1>13. CASE Surroundings
  BY <1>13 DEF TypeOK, Surroundings
<1>14. CASE UNCHANGED vars
  BY <1>14 DEF TypeOK, vars
<1>15. QED
  BY <1>1, <1>2, <1>3, <1>4, <1>5, <1>6, <1>7, <1>8, <1>9, <1>10, <1>11, <1>12, <1>13, <1>14
     DEF Next, Cycle, Operator

\* A cycle that finds the timer past its timeout decides to leave TTC.
LEMMA TtcCycleBound ==
  ASSUME TInv, TtcCycle
  PROVE  TimerBound'
<1>1. /\ ttc.enabled => ttc.timeout > 0 /\ ttc.timeout \in Timeouts
      /\ ttc'.enabled = ttc.enabled /\ ttc'.timeout = ttc.timeout /\ ttc'.loss = Lost
  BY DEF TInv, TimerBound, TypeOK, Ttc, TtcCycle
<1>2. Lost \in (0 .. LossMax) \cup {None} /\ (Lost # None => mode = "TTC")
  <2>1. ttc.loss # None => ttc.loss \in 0 .. LossMax /\ ttc.loss < LossMax
    BY DEF TInv, TimerBound, TypeOK, Ttc, TtcCycle
  <2>2. QED
    BY <2>1, ModeAssumption DEF Lost
<1>3. CASE Lost # None /\ ExitDue
  <2>1. intent' = [source |-> "ttc", target |-> "IDLE"]
    BY <1>2, <1>3 DEF TtcCycle, EntryDue
  <2>2. intent' # None
    BY <2>1, ModeAssumption DEF Intents, Modes
  <2>3. QED
    BY <1>1, <2>1, <2>2 DEF TimerBound
<1>4. CASE Lost # None /\ ~ExitDue
  <2>1. ttc.enabled /\ WindowActive /\ ~CommLoss
    BY <1>2, <1>4 DEF ExitDue
  <2>2. ~(Lost > ttc.timeout)
    BY <1>1, <1>2, <1>4, <2>1 DEF CommLoss
  <2>3. Lost < LossMax
    <3>1. ttc.timeout \in Nat /\ ttc.timeout < LossMax
      BY <1>1, <2>1, ModeAssumption
    <3>2. Lost \in Nat /\ LossMax \in Nat
      BY <1>2, <1>4, ModeAssumption
    <3>3. QED
      BY <2>2, <3>1, <3>2
  <2>4. QED
    BY <1>1, <2>3 DEF TimerBound
<1>5. CASE Lost = None
  BY <1>1, <1>5 DEF TimerBound
<1>6. QED
  BY <1>3, <1>4, <1>5

\* Every step keeps the bound on the timer.
LEMMA BoundStep ==
  ASSUME TInv, [Next]_vars
  PROVE  TimerBound'
<1>0. TimerBound
  BY DEF TInv
<1>1. CASE TtcCycle
  BY <1>1, TtcCycleBound
<1>2. CASE SafetyCycle
  BY <1>0, <1>2 DEF SafetyCycle, TimerBound
<1>3. CASE ApplyInternal
  <2>1. CASE intent.source # "ttc"
    BY <1>0, <1>3, <2>1 DEF ApplyInternal, TimerBound
  <2>2. CASE intent.source = "ttc"
    <3>1. /\ ttc'.enabled = ttc.enabled /\ ttc'.timeout = ttc.timeout
          /\ ttc'.loss = IF intent.target = "TTC" THEN ttc.loss ELSE None
      BY <1>3, <2>2 DEF ApplyInternal, TInv, TypeOK, Ttc
    <3>2. QED
      BY <1>0, <3>1 DEF TimerBound
  <2>3. QED
    BY <2>1, <2>2
<1>4. CASE RecoveryRequest
  BY <1>0, <1>4 DEF RecoveryRequest, TimerBound
<1>5. ASSUME NEW enabled \in BOOLEAN, NEW timeout \in Timeouts \cup {0}, SetPolicy(enabled, timeout)
      PROVE  TimerBound'
  <2>1. /\ ttc'.enabled = enabled /\ ttc'.timeout = timeout /\ ttc'.loss = ttc.loss
        /\ intent' = intent /\ (enabled => timeout > 0)
    BY <1>5 DEF SetPolicy, TInv, TypeOK, Ttc
  <2>2. QED
    BY <1>0, <2>1 DEF TimerBound
<1>6. CASE /\ ttc'.enabled = ttc.enabled /\ ttc'.timeout = ttc.timeout /\ ttc'.loss = ttc.loss
           /\ intent' = intent
  BY <1>0, <1>6 DEF TimerBound
<1>7. ASSUME NEW w \in Windows, SetPassWindow(w) PROVE TimerBound'
  BY <1>6, <1>7 DEF SetPassWindow, TInv, TypeOK, Ttc
<1>8. CASE RejectPassWindow \/ ClearPassWindow
  BY <1>6, <1>8 DEF RejectPassWindow, ClearPassWindow, TInv, TypeOK, Ttc
<1>9. ASSUME NEW to \in Modes, RequestMode(to) PROVE TimerBound'
  BY <1>6, <1>9 DEF RequestMode
<1>10. CASE EpsPoll \/ ApplyOperator \/ EpsCommand \/ Surroundings \/ UNCHANGED vars
  BY <1>6, <1>10 DEF EpsPoll, ApplyOperator, EpsCommand, Surroundings, vars
<1>11. QED
  BY <1>1, <1>2, <1>3, <1>4, <1>5, <1>7, <1>8, <1>9, <1>10 DEF Next, Cycle, Operator

\* The types, and the bound on the timer, hold initially.
LEMMA TypeInit ==
  ASSUME Init
  PROVE  TInv
BY ModeAssumption DEF Init, TInv, TimerBound, TypeOK, Modes, Ttc, Steps

\* ModeManager, its guard and the three policies keep their state well typed,
\* commands and cycles interleaved or not; the loss-of-lock timer does not
\* outlast the longest timeout by more than the cycle that leaves TTC.
THEOREM TypeCorrect == Spec => []TypeOK
<1>1. Init => TInv
  BY TypeInit
<1>2. TInv /\ [Next]_vars => TInv'
  BY TypeStep, BoundStep DEF TInv
<1>3. TInv => TypeOK
  BY DEF TInv
<1>4. QED
  BY <1>1, <1>2, <1>3, PTL DEF Spec

-------------------------------------------------------------------------------
(* Commands that do not interleave with a cycle's read and write.            *)

\* A decision awaiting its write was made on the mode and the charge as they
\* still are, and only one is awaited.
Decided ==
  /\ op = None \/ intent = None
  /\ op # None => OperatorMay(mode, op, eps)
  /\ intent # None => \/ intent.source = "safety" /\ intent.target = Evaluate(mode, eps)
                      \/ intent.source = "ttc" /\ intent.target = "TTC" /\ mode = "IDLE"
                      \/ intent.source = "ttc" /\ intent.target = "IDLE" /\ mode = "TTC"
                      \/ intent.source = "recovery" /\ intent.target = "SAFE"

IInv == TInv /\ Decided /\ ModeMatchesPower

\* What a mode and a charge owe each other.
Matches(m, s) == /\ Below(s, ACTIVE_TO_SAFE_SOC) => m \in {"SAFE", "HELL"}
                 /\ Below(s, PAYLOAD_TO_IDLE_SOC) => m # "PAYLOAD"

\* The policy's answer suits the charge.
LEMMA EvaluateMatches ==
  ASSUME NEW m \in Modes, NEW s \in Socs \cup {Unavailable}
  PROVE  Matches(Evaluate(m, s), s)
<1>1. Valid(s) => s \in Nat
  BY ModeAssumption DEF Valid
<1>2. Below(s, ACTIVE_TO_SAFE_SOC) => Below(s, PAYLOAD_TO_IDLE_SOC)
  BY <1>1 DEF Below, ACTIVE_TO_SAFE_SOC, PAYLOAD_TO_IDLE_SOC
<1> HIDE DEF Below, Above
<1>3. QED
  BY <1>2 DEF Matches, Evaluate, Modes

\* An admitted operator request keeps the match.
LEMMA OperatorMatches ==
  ASSUME NEW m \in Modes, NEW s \in Socs \cup {Unavailable}, NEW to \in Modes,
         Matches(m, s), OperatorMay(m, to, s)
  PROVE  Matches(to, s)
<1>1. Valid(s) => s \in Nat
  BY ModeAssumption DEF Valid
<1>2. /\ Below(s, ACTIVE_TO_SAFE_SOC) => ~Above(s, SAFE_TO_IDLE_SOC) /\ ~Above(s, IDLE_TO_PAYLOAD_SOC)
      /\ Below(s, PAYLOAD_TO_IDLE_SOC) => ~Above(s, IDLE_TO_PAYLOAD_SOC)
  BY <1>1 DEF Below, Above, ACTIVE_TO_SAFE_SOC, PAYLOAD_TO_IDLE_SOC, SAFE_TO_IDLE_SOC,
              IDLE_TO_PAYLOAD_SOC
<1>3. QED
  BY <1>2 DEF Matches, OperatorMay, Modes

\* ModeMatchesPower in terms of Matches, before a step and after it.
LEMMA MatchMeans == ModeMatchesPower <=> (judged => Matches(mode, eps))
BY DEF ModeMatchesPower, Matches

\* The same after the step.
LEMMA MatchMeansNext == ModeMatchesPower' <=> (judged' => Matches(mode', eps'))
BY DEF ModeMatchesPower, Matches

\* The invariant is inductive.
LEMMA IInvStep ==
  ASSUME Overlap = FALSE, IInv, [Next]_vars
  PROVE  IInv'
<1>0. TInv' /\ TypeOK /\ Decided
  BY TypeStep, BoundStep DEF IInv, TInv
<1>m. judged => Matches(mode, eps)
  BY MatchMeans DEF IInv
<1> SUFFICES Decided' /\ (judged' => Matches(mode', eps'))
  BY <1>0, MatchMeansNext DEF IInv
<1>1. CASE EpsPoll
  BY <1>0, <1>m, <1>1 DEF EpsPoll, NewStatus, CycleRuns, Decided
<1>2. CASE SafetyCycle
  <2>1. op' = None /\ mode' = mode /\ eps' = eps
    BY <1>2 DEF SafetyCycle, CycleRuns
  <2>2. CASE Evaluate(mode, eps) = mode
    <3>1. intent' = None
      BY <1>2, <2>2 DEF SafetyCycle
    <3>2. Matches(mode, eps)
      BY <1>0, <2>2, EvaluateMatches DEF TypeOK
    <3>3. QED
      BY <2>1, <3>1, <3>2 DEF Decided
  <2>3. CASE Evaluate(mode, eps) # mode
    <3>1. /\ intent' = [source |-> "safety", target |-> Evaluate(mode, eps)] /\ judged' = FALSE
      BY <1>2, <2>3 DEF SafetyCycle
    <3>2. QED
      BY <2>1, <3>1 DEF Decided
  <2>4. QED
    BY <2>2, <2>3
<1>3. CASE TtcCycle
  <2>1. op' = None /\ mode' = mode /\ eps' = eps /\ judged' = judged
    BY <1>3 DEF TtcCycle, CycleRuns
  <2>2. \/ intent' = None
        \/ intent' = [source |-> "ttc", target |-> "TTC"] /\ mode = "IDLE"
        \/ intent' = [source |-> "ttc", target |-> "IDLE"] /\ mode = "TTC"
    BY <1>3 DEF TtcCycle, EntryDue, ExitDue
  <2>3. QED
    BY <1>m, <2>1, <2>2 DEF Decided
<1>4. CASE ApplyInternal
  <2>1. /\ op' = None /\ intent' = None /\ mode' = intent.target /\ eps' = eps
        /\ judged' = (judged \/ intent.source = "safety")
    BY <1>4 DEF ApplyInternal, CycleRuns
  <2>2. CASE intent.source = "safety"
    <3>1. mode' = Evaluate(mode, eps)
      BY <1>0, <1>4, <2>1, <2>2 DEF ApplyInternal, Decided
    <3>2. QED
      BY <1>0, <2>1, <3>1, EvaluateMatches DEF TypeOK, Decided
  <2>3. CASE intent.source # "safety"
    <3>1. judged' = judged
      BY <1>0, <2>1, <2>3 DEF TypeOK
    <3>2. \/ mode' = "SAFE"
          \/ mode \in {"IDLE", "TTC"} /\ mode' \in {"IDLE", "TTC"}
      BY <1>0, <1>4, <2>1, <2>3 DEF ApplyInternal, Decided
    <3>3. QED
      BY <1>m, <2>1, <3>1, <3>2 DEF Matches, Decided
  <2>4. QED
    BY <2>2, <2>3
<1>5. CASE RecoveryRequest
  BY <1>m, <1>5 DEF RecoveryRequest, CycleRuns, Decided
<1>6. ASSUME NEW to \in Modes, RequestMode(to)
      PROVE  Decided' /\ (judged' => Matches(mode', eps'))
  BY <1>m, <1>6 DEF RequestMode, CommandRuns, Decided
<1>7. CASE ApplyOperator
  <2>1. /\ op' = None /\ intent' = None /\ mode' = op /\ eps' = eps /\ judged' = judged
    BY <1>7 DEF ApplyOperator
  <2>2. op \in Modes /\ OperatorMay(mode, op, eps)
    BY <1>0, <1>7 DEF ApplyOperator, TypeOK, Decided
  <2>3. QED
    BY <1>0, <1>m, <2>1, <2>2, OperatorMatches DEF TypeOK, Decided
<1>8. CASE EpsCommand
  BY <1>8 DEF EpsCommand, NewStatus, CommandRuns, Decided
<1>9. CASE UNCHANGED <<mode, eps, judged, intent, op>>
  BY <1>0, <1>m, <1>9 DEF Decided
<1>10. ASSUME NEW enabled \in BOOLEAN, NEW timeout \in Timeouts \cup {0}, SetPolicy(enabled, timeout)
       PROVE  UNCHANGED <<mode, eps, judged, intent, op>>
  BY <1>10 DEF SetPolicy
<1>11. ASSUME NEW w \in Windows, SetPassWindow(w) PROVE UNCHANGED <<mode, eps, judged, intent, op>>
  BY <1>11 DEF SetPassWindow
<1>12. RejectPassWindow \/ ClearPassWindow \/ Surroundings \/ UNCHANGED vars
         => UNCHANGED <<mode, eps, judged, intent, op>>
  BY DEF RejectPassWindow, ClearPassWindow, Surroundings, vars
<1>13. QED
  BY <1>1, <1>2, <1>3, <1>4, <1>5, <1>6, <1>7, <1>8, <1>9, <1>10, <1>11, <1>12
     DEF Next, Cycle, Operator

\* The invariant holds at the start: nothing is judged and no write is pending.
LEMMA IInvInit ==
  ASSUME Init
  PROVE  IInv
BY TypeInit DEF Init, IInv, Decided, ModeMatchesPower

\* The invariant holds of every behaviour without interleaving.
LEMMA IInvHolds ==
  ASSUME Overlap = FALSE
  PROVE  Spec => []IInv
<1>1. Init => IInv
  BY IInvInit
<1>2. IInv /\ [Next]_vars => IInv'
  BY IInvStep
<1>3. QED
  BY <1>1, <1>2, PTL DEF Spec

\* Once ModeSafetyController has judged a status, neither an operator's
\* request, nor the pass policy, nor recovery takes the mode where that charge
\* does not allow it.
THEOREM ModeKeepsToPower ==
  ASSUME Overlap = FALSE
  PROVE  Spec => []ModeMatchesPower
<1>1. IInv => ModeMatchesPower
  BY DEF IInv
<1>2. QED
  BY <1>1, IInvHolds, PTL

\* SAFE is left for an active mode only by an operator's request to IDLE that
\* the SoC guard admits.
THEOREM OnlyOperatorLeavesSafe ==
  ASSUME Overlap = FALSE
  PROVE  Spec => SafeIsLeftByOperator
<1>1. ASSUME IInv, [Next]_vars
      PROVE  [mode = "SAFE" /\ mode' \notin {"SAFE", "HELL"} =>
                op = "IDLE" /\ mode' = "IDLE" /\ Above(eps, SAFE_TO_IDLE_SOC)]_vars
  <2> SUFFICES ASSUME mode = "SAFE", mode' \notin {"SAFE", "HELL"}
               PROVE  op = "IDLE" /\ mode' = "IDLE" /\ Above(eps, SAFE_TO_IDLE_SOC)
    OBVIOUS
  <2>1. ApplyInternal \/ ApplyOperator
    BY <1>1 DEF Next, Cycle, Operator, EpsPoll, SafetyCycle, TtcCycle, RecoveryRequest, RequestMode,
                EpsCommand, SetPolicy, SetPassWindow, RejectPassWindow, ClearPassWindow,
                Surroundings, vars
  <2>2. CASE ApplyInternal
    <3>1. mode' = intent.target /\ intent # None
      BY <2>2 DEF ApplyInternal
    <3>2. mode' \in {Evaluate("SAFE", eps), "SAFE"}
      BY <1>1, <3>1 DEF IInv, Decided
    <3>3. Evaluate("SAFE", eps) \in {"SAFE", "HELL"}
      BY DEF Evaluate
    <3>4. QED
      BY <3>2, <3>3
  <2>3. CASE ApplyOperator
    BY <1>1, <2>3 DEF ApplyOperator, IInv, Decided, OperatorMay
  <2>4. QED
    BY <2>1, <2>2, <2>3
<1>2. QED
  BY <1>1, IInvHolds, PTL DEF Spec, SafeIsLeftByOperator
=============================================================================
