-------------------------- MODULE EquipmentProofs --------------------------
(***************************************************************************)
(* Proofs about the equipment around the flight software.  First           *)
(* WatchdogSupervisor, for any set of sources and thresholds, and its      *)
(* guarantees over restarts of the process and resets of the board, and    *)
(* the sink's, for every timeout.  Then the device bus (DeviceBus, here    *)
(* Bus): the FDIR controllers' incidents and the beacon, for any commands, *)
(* poll period and threshold.                                              *)
(***************************************************************************)
EXTENDS HardwareWatchdog, Integers, Sequences, TLAPS
-----------------------------------------------------------------------------
(* The supervisor in one process. *)


\* stateForAge gives one of the five states.
LEMMA StateForAgeType ==
  ASSUME NEW c \in ConfigRecord, NEW age \in Nat
  PROVE  StateForAge(c, age) \in States
BY DEF StateForAge, States, ConfigRecord

\* rollup returns masks over the sources and an eligibility flag.
LEMMA RollupType ==
  ASSUME NEW ss \in [Sources -> Source], NEW issued \in BOOLEAN
  PROVE  Rollup(ss, issued) \in Aggregate
<1> DEFINE monitored == {s \in Sources : ss[s].state # "DISABLED" /\ ss[s].config.enabled}
           suppressed == {s \in monitored : ss[s].state = "FEED_SUPPRESSED"}
           faulty == {s \in monitored : ss[s].state \in Faulty}
           warning == {s \in monitored : ss[s].state = "WARNING"}
           state == CASE monitored = {} -> "DISABLED"
                 [] suppressed # {} -> "FEED_SUPPRESSED"
                 [] suppressed = {} /\ faulty # {} -> "LATCHED_FAULT"
                 [] monitored # {} /\ faulty = {} /\ warning # {} -> "WARNING"
                 [] monitored # {} /\ faulty = {} /\ warning = {} -> "HEALTHY"
           level == IF state = "LATCHED_FAULT" /\ issued THEN "SAFE_REQUESTED"
                    ELSE IF state \in {"DISABLED", "HEALTHY"} THEN "NONE" ELSE state
<1>1. /\ monitored \subseteq Sources /\ suppressed \subseteq faulty /\ faulty \subseteq monitored
      /\ warning \subseteq monitored
  BY DEF Faulty
<1>2. Rollup(ss, issued) =
        [state |-> state, level |-> level, feedEligible |-> monitored # {} /\ suppressed = {},
         faultMask |-> faulty, suppressMask |-> suppressed, warningMask |-> warning]
  BY DEF Rollup, FeedEligible
<1> HIDE DEF monitored, suppressed, faulty, warning
<1>3. state \in States
  BY <1>1 DEF States
<1> HIDE DEF state
<1>4. level \in {"NONE", "WARNING", "LATCHED_FAULT", "SAFE_REQUESTED", "FEED_SUPPRESSED"}
  BY <1>3 DEF States
<1> HIDE DEF level
<1>5. (monitored # {} /\ suppressed = {}) \in BOOLEAN
  OBVIOUS
<1>6. QED
  BY <1>1, <1>2, <1>3, <1>4, <1>5 DEF Aggregate

\* rollup reads only the states and the configurations.
LEMMA SameRollup ==
  ASSUME NEW s1 \in [Sources -> Source], NEW s2 \in [Sources -> Source], NEW issued,
         \A u \in Sources : s1[u].state = s2[u].state /\ s1[u].config = s2[u].config
  PROVE  Rollup(s1, issued) = Rollup(s2, issued)
<1> DEFINE monitored(ss) == {s \in Sources : ss[s].state # "DISABLED" /\ ss[s].config.enabled}
           suppressed(ss) == {s \in monitored(ss) : ss[s].state = "FEED_SUPPRESSED"}
           faulty(ss) == {s \in monitored(ss) : ss[s].state \in Faulty}
           warning(ss) == {s \in monitored(ss) : ss[s].state = "WARNING"}
           state(e, x, f, w) == CASE e = {} -> "DISABLED"
                 [] x # {} -> "FEED_SUPPRESSED"
                 [] x = {} /\ f # {} -> "LATCHED_FAULT"
                 [] e # {} /\ f = {} /\ w # {} -> "WARNING"
                 [] e # {} /\ f = {} /\ w = {} -> "HEALTHY"
           roll(e, x, f, w) ==
             [state |-> state(e, x, f, w),
              level |-> IF state(e, x, f, w) = "LATCHED_FAULT" /\ issued THEN "SAFE_REQUESTED"
                        ELSE IF state(e, x, f, w) \in {"DISABLED", "HEALTHY"} THEN "NONE"
                        ELSE state(e, x, f, w),
              feedEligible |-> e # {} /\ x = {},
              faultMask |-> f, suppressMask |-> x, warningMask |-> w]
<1>1. /\ Rollup(s1, issued) = roll(monitored(s1), suppressed(s1), faulty(s1), warning(s1))
      /\ Rollup(s2, issued) = roll(monitored(s2), suppressed(s2), faulty(s2), warning(s2))
  BY DEF Rollup, FeedEligible
<1> HIDE DEF roll
<1>2. monitored(s1) = monitored(s2)
  OBVIOUS
<1>3. suppressed(s1) = suppressed(s2) /\ faulty(s1) = faulty(s2) /\ warning(s1) = warning(s2)
  BY <1>2
<1> HIDE DEF monitored, suppressed, faulty, warning
<1>4. QED
  BY <1>1, <1>2, <1>3

\* One cycle ages or resets a source within its type.
LEMMA EvaluateType ==
  ASSUME NEW src \in Source
  PROVE  /\ NextAge(src) \in 0 .. AgeMax /\ NextState(src) \in States
         /\ [src EXCEPT !.beatPending = FALSE, !.age = NextAge(src),
                        !.state = NextState(src)] \in Source
<1>1. AgeMax \in Nat
  BY WatchdogAssumption
<1>2. NextAge(src) \in 0 .. AgeMax
  BY <1>1 DEF NextAge, NextTick, Source
<1>3. NextState(src) \in States
  BY <1>1, <1>2, StateForAgeType DEF NextState, Source
<1>4. QED
  BY <1>2, <1>3 DEF Source

\* A locked section that ends in Settle keeps the state well typed and the
\* aggregate current.
LEMMA SettleType ==
  ASSUME NEW ss \in [Sources -> Source], NEW issued \in BOOLEAN, Settle(ss, issued)
  PROVE  /\ sources' \in [Sources -> Source] /\ safeRequestIssued' \in BOOLEAN
         /\ aggregate' \in Aggregate /\ AggregateIsCurrent'
<1>1. Rollup(ss, issued) \in Aggregate
  BY RollupType
<1>2. Rollup(ss, issued).state \notin Faulty => Rollup(ss, FALSE) = Rollup(ss, issued)
  BY DEF Rollup, Faulty
<1>3. /\ sources' = ss /\ aggregate' = Rollup(ss, issued)
      /\ safeRequestIssued' = (issued /\ Rollup(ss, issued).state \in Faulty)
  BY DEF Settle
<1>4. safeRequestIssued' \in BOOLEAN /\ (safeRequestIssued' = issued \/ safeRequestIssued' = FALSE)
  BY <1>3
<1>5. Rollup(ss, safeRequestIssued') = Rollup(ss, issued)
  BY <1>2, <1>3, <1>4
<1>6. QED
  BY <1>1, <1>3, <1>4, <1>5 DEF AggregateIsCurrent

Shape == TypeOK /\ AggregateIsCurrent

\* initializeSources_ establishes the types and a current aggregate.
LEMMA InitShape == Init => Shape
<1> SUFFICES ASSUME Init PROVE Shape
  OBVIOUS
<1>1. DefaultConfig \in ConfigRecord /\ AgeMax \in Nat /\ CmdLag \in Nat
  BY WatchdogAssumption
<1>2. StateForAge(DefaultConfig, 0) \in States
  BY <1>1, StateForAgeType
<1>3. sources \in [Sources -> Source]
  BY <1>1, <1>2 DEF Init, Source
<1>4. aggregate \in Aggregate
  BY <1>3, RollupType DEF Init
<1>5. lag \in 0 .. CmdLag /\ open \subseteq Sources /\ cmdCall \in Calls
  BY <1>1 DEF Init, Calls
<1>6. strokeDue \in BOOLEAN /\ requestable \in BOOLEAN /\ safeRequestIssued \in BOOLEAN
  BY DEF Init
<1>7. AggregateIsCurrent
  BY DEF Init, AggregateIsCurrent
<1>8. QED
  BY <1>3, <1>4, <1>5, <1>6, <1>7 DEF Shape, TypeOK

\* What schedIn makes of the sources.
Evaluated == [s \in Sources |->
                [sources[s] EXCEPT !.beatPending = FALSE, !.age = NextAge(sources[s]),
                                   !.state = NextState(sources[s])]]

\* schedIn settles the evaluated sources with some flag and opens only
\* incidents of sources.
LEMMA SchedInSettles ==
  ASSUME Shape, SchedIn
  PROVE  /\ Evaluated \in [Sources -> Source]
         /\ \E issued \in BOOLEAN : Settle(Evaluated, issued)
         /\ open' \subseteq Sources
<1>1. Evaluated \in [Sources -> Source]
  BY EvaluateType DEF Evaluated, Shape, TypeOK
<1> DEFINE crossed == {s \in Sources : CrossedFault(sources[s])}
           suppressed == {s \in Sources : CrossedSuppression(sources[s])}
           recovered == {s \in Sources : Recovered(sources[s])}
           issued == safeRequestIssued \/ (requestable /\ crossed # {})
           resubmit == requestable /\ ~issued /\ Rollup(Evaluated, issued).state \in Faulty
           resent == IF resubmit THEN {s \in Sources : Evaluated[s].state \in Faulty} ELSE {}
<1>2. /\ Settle(Evaluated, issued \/ resubmit)
      /\ open' = ((open \cup crossed \cup suppressed) \ recovered) \cup resent
  BY DEF SchedIn, Evaluated
<1>3. open \subseteq Sources /\ crossed \subseteq Sources /\ suppressed \subseteq Sources
      /\ resent \subseteq Sources
  BY DEF Shape, TypeOK
<1>4. (issued \/ resubmit) \in BOOLEAN
  OBVIOUS
<1> HIDE DEF crossed, suppressed, recovered, resent, issued, resubmit
<1>5. QED
  BY <1>1, <1>2, <1>3, <1>4, Zenon

\* resetSourceAfterProbeSuppressionClear_ keeps the type of a source.
LEMMA ResetType ==
  ASSUME NEW src \in Source
  PROVE  [src EXCEPT !.age = 0, !.beatPending = FALSE] \in Source
<1>1. 0 \in 0 .. AgeMax
  BY WatchdogAssumption
<1>2. QED
  BY <1>1 DEF Source

\* The command's reconfiguration of one source stays within the types.
LEMMA SetConfigShape ==
  ASSUME Shape, NEW s \in Tunable, NEW c \in Configs, SetConfig(s, c)
  PROVE  Shape'
<1>1. c \in ConfigRecord /\ AgeMax \in Nat /\ s \in Sources /\ sources[s] \in Source
  BY WatchdogAssumption DEF Shape, TypeOK
<1>2. StateForAge(c, sources[s].age) \in States
  BY <1>1, StateForAgeType DEF Source
<1> DEFINE src == [sources[s] EXCEPT !.config = c, !.state = StateForAge(c, sources[s].age)]
           new == IF c.enabled THEN src ELSE [src EXCEPT !.age = 0, !.beatPending = FALSE]
           ss == [sources EXCEPT ![s] = new]
<1>3. new \in Source
  <2>1. src \in Source
    BY <1>1, <1>2 DEF Source
  <2> HIDE DEF src
  <2>2. [src EXCEPT !.age = 0, !.beatPending = FALSE] \in Source
    BY <2>1, ResetType
  <2>3. QED
    BY <2>1, <2>2
<1>4. Settle(ss, safeRequestIssued)
  BY DEF SetConfig
<1> HIDE DEF src, new
<1>5. ss \in [Sources -> Source] /\ safeRequestIssued \in BOOLEAN
  BY <1>1, <1>3 DEF Shape, TypeOK
<1> HIDE DEF ss
<1>6. QED
  BY <1>4, <1>5, SettleType DEF SetConfig, Shape, TypeOK

\* What the probe command makes of the source s.
Probed(s, suppressed) ==
  LET src == [sources[s] EXCEPT !.probeSuppressed = suppressed, !.beatPending = FALSE]
      was == src.state = "FEED_SUPPRESSED"
      enters == suppressed /\ ~was /\ src.config.enabled
      leaves == ~suppressed /\ was
  IN  [src EXCEPT !.age = IF enters THEN src.config.suppress ELSE IF leaves THEN 0 ELSE @,
                  !.state = IF enters THEN "FEED_SUPPRESSED"
                            ELSE IF ~leaves THEN @
                            ELSE IF src.config.enabled THEN "HEALTHY" ELSE "DISABLED"]

\* So does SET_WATCHDOG_PROBE_SUPPRESSION.
LEMMA ProbedType ==
  ASSUME Shape, NEW s \in Sources, NEW b \in BOOLEAN,
         sources[s].config.suppress <= AgeMax
  PROVE  Probed(s, b) \in Source
<1> DEFINE src == [sources[s] EXCEPT !.probeSuppressed = b, !.beatPending = FALSE]
           was == src.state = "FEED_SUPPRESSED"
           enters == b /\ ~was /\ src.config.enabled
           leaves == ~b /\ was
           age == IF enters THEN src.config.suppress ELSE IF leaves THEN 0 ELSE src.age
           state == IF enters THEN "FEED_SUPPRESSED"
                    ELSE IF ~leaves THEN src.state
                    ELSE IF src.config.enabled THEN "HEALTHY" ELSE "DISABLED"
<1>1. sources[s] \in Source /\ AgeMax \in Nat
  BY WatchdogAssumption DEF Shape, TypeOK
<1>2. src \in Source /\ src.config.suppress <= AgeMax
  BY <1>1 DEF Source
<1>3. Probed(s, b) = [src EXCEPT !.age = age, !.state = state]
  BY DEF Probed
<1> HIDE DEF src
<1>4. age \in 0 .. AgeMax
  BY <1>1, <1>2 DEF Source, ConfigRecord
<1>5. state \in States
  BY <1>2 DEF Source, States
<1> HIDE DEF age, state
<1>6. QED
  BY <1>2, <1>3, <1>4, <1>5 DEF Source

\* Every threshold in force is one the operator gave or the default.
ConfigsInForce == \A s \in Sources : sources[s].config \in Configs \cup {DefaultConfig}

\* SET_WATCHDOG_PROBE_SUPPRESSION ends in a rollup, so the aggregate is current.
LEMMA SetProbeShape ==
  ASSUME Shape, ConfigsInForce, NEW s \in Sources, NEW b \in BOOLEAN,
         SetProbeBeatSuppression(s, b)
  PROVE  Shape'
<1>1. sources[s].config.suppress <= AgeMax /\ CmdLag \in Nat
  BY WatchdogAssumption DEF ConfigsInForce
<1>2. Probed(s, b) \in Source
  BY <1>1, ProbedType
<1>3. Settle([sources EXCEPT ![s] = Probed(s, b)], safeRequestIssued)
  BY DEF SetProbeBeatSuppression, Probed
<1>4. cmdCall' \in Calls
  BY DEF SetProbeBeatSuppression, Calls
<1>5. [sources EXCEPT ![s] = Probed(s, b)] \in [Sources -> Source]
  BY <1>2 DEF Shape, TypeOK
<1>6. UNCHANGED <<strokeDue, open, requestable>> /\ lag' = 0
  BY DEF SetProbeBeatSuppression
<1>7. safeRequestIssued \in BOOLEAN
  BY DEF Shape, TypeOK
<1>8. /\ sources' \in [Sources -> Source] /\ safeRequestIssued' \in BOOLEAN
      /\ aggregate' \in Aggregate /\ AggregateIsCurrent'
  <2> DEFINE ss == [sources EXCEPT ![s] = Probed(s, b)]
  <2> HIDE DEF ss
  <2>1. Settle(ss, safeRequestIssued) /\ ss \in [Sources -> Source]
    BY <1>3, <1>5 DEF ss
  <2>2. QED
    BY <2>1, <1>7, SettleType
<1>9. lag' \in 0 .. CmdLag
  BY <1>1, <1>6
<1>10. QED
  BY <1>4, <1>6, <1>8, <1>9 DEF Shape, TypeOK

\* The configuration of a source changes only to one of the operator's.
LEMMA ConfigsKept ==
  ASSUME Shape, ConfigsInForce, [Next]_vars
  PROVE  ConfigsInForce'
<1>1. ASSUME NEW s \in Sources, BeatIn(s) PROVE ConfigsInForce'
  BY <1>1 DEF BeatIn, ConfigsInForce, Shape, TypeOK, Source
<1>2. ASSUME NEW s \in Sources, NEW b \in BOOLEAN, SetProbeBeatSuppression(s, b)
      PROVE  ConfigsInForce'
  <2>1. sources' = [sources EXCEPT ![s] = Probed(s, b)]
    BY <1>2 DEF SetProbeBeatSuppression, Settle, Probed
  <2>2. Probed(s, b).config = sources[s].config
    BY DEF Probed, Shape, TypeOK, Source
  <2>3. QED
    BY <2>1, <2>2 DEF ConfigsInForce, Shape, TypeOK
<1>3. ASSUME NEW s \in Tunable, NEW c \in Configs, SetConfig(s, c) PROVE ConfigsInForce'
  <2>1. PICK new : sources' = [sources EXCEPT ![s] = new] /\ new.config = c
    <3> DEFINE src == [sources[s] EXCEPT !.config = c, !.state = StateForAge(c, sources[s].age)]
               new == IF c.enabled THEN src ELSE [src EXCEPT !.age = 0, !.beatPending = FALSE]
    <3>1. new.config = c
      BY DEF Shape, TypeOK, Source
    <3>2. sources' = [sources EXCEPT ![s] = new]
      BY <1>3 DEF SetConfig, Settle
    <3> HIDE DEF new
    <3>3. QED
      BY <3>1, <3>2
  <2>2. QED
    BY <2>1 DEF ConfigsInForce, Shape, TypeOK
<1>4. CASE SchedIn
  <2>1. sources' = Evaluated
    BY <1>4, SchedInSettles DEF Settle
  <2>2. \A s \in Sources : Evaluated[s].config = sources[s].config
    BY DEF Evaluated, Shape, TypeOK, Source
  <2>3. QED
    BY <2>1, <2>2 DEF ConfigsInForce
<1>5. CASE Stroke \/ CallRecovery \/ ModeChange \/ UNCHANGED vars
  BY <1>5 DEF Stroke, CallRecovery, ModeChange, vars, ConfigsInForce
<1>6. QED
  BY <1>1, <1>2, <1>3, <1>4, <1>5 DEF Next

\* Every step keeps the types and the aggregate current.
LEMMA NextShape == Shape /\ ConfigsInForce /\ [Next]_vars => Shape'
<1> SUFFICES ASSUME Shape, ConfigsInForce, [Next]_vars PROVE Shape'
  OBVIOUS
<1>1. ASSUME NEW s \in Sources, BeatIn(s) PROVE Shape'
  <2>1. PICK b \in BOOLEAN : sources' = [sources EXCEPT ![s] = [sources[s] EXCEPT !.beatPending = b]]
    BY <1>1 DEF BeatIn
  <2>2. sources' \in [Sources -> Source]
    BY <2>1 DEF Shape, TypeOK, Source
  <2>3. Rollup(sources', safeRequestIssued) = Rollup(sources, safeRequestIssued)
    <3>1. \A u \in Sources : sources'[u].state = sources[u].state /\ sources'[u].config = sources[u].config
      BY <2>1 DEF Shape, TypeOK, Source
    <3>2. QED
      BY <3>1, SameRollup, <2>2 DEF Shape, TypeOK
  <2>4. UNCHANGED <<safeRequestIssued, aggregate, strokeDue, open, cmdCall, lag, requestable>>
    BY <1>1 DEF BeatIn
  <2>5. QED
    BY <2>2, <2>3, <2>4 DEF Shape, TypeOK, AggregateIsCurrent
<1>2. ASSUME NEW s \in Sources, NEW b \in BOOLEAN, SetProbeBeatSuppression(s, b) PROVE Shape'
  BY <1>2, SetProbeShape
<1>3. ASSUME NEW s \in Tunable, NEW c \in Configs, SetConfig(s, c) PROVE Shape'
  BY <1>3, SetConfigShape
<1>4. CASE SchedIn
  <2>1. /\ sources' \in [Sources -> Source] /\ safeRequestIssued' \in BOOLEAN
        /\ aggregate' \in Aggregate /\ AggregateIsCurrent' /\ open' \subseteq Sources
    <3>1. /\ Evaluated \in [Sources -> Source] /\ open' \subseteq Sources
          /\ \E issued \in BOOLEAN : Settle(Evaluated, issued)
      BY <1>4, SchedInSettles
    <3>2. QED
      BY <3>1, SettleType
  <2>2. lag' \in 0 .. CmdLag
    <3>1. lag \in 0 .. CmdLag /\ CmdLag \in Nat
      BY WatchdogAssumption DEF Shape, TypeOK
    <3>2. (cmdCall # NoCall => lag < CmdLag) /\ lag' = IF cmdCall = NoCall THEN 0 ELSE lag + 1
      BY <1>4 DEF SchedIn
    <3>3. QED
      BY <3>1, <3>2
  <2>3. strokeDue' \in BOOLEAN /\ UNCHANGED <<cmdCall, requestable>>
    BY <1>4, <2>1 DEF SchedIn, Aggregate
  <2>4. QED
    BY <2>1, <2>2, <2>3 DEF Shape, TypeOK
<1>5. CASE CallRecovery
  BY <1>5, WatchdogAssumption DEF CallRecovery, Shape, TypeOK, AggregateIsCurrent, Calls, NoCall
<1>6. CASE Stroke \/ ModeChange \/ UNCHANGED vars
  BY <1>6 DEF Stroke, ModeChange, vars, Shape, TypeOK, AggregateIsCurrent
<1>7. QED
  BY <1>1, <1>2, <1>3, <1>4, <1>5, <1>6 DEF Next

\* Every reachable state is well typed; no age leaves its saturation bound.
THEOREM TypeCorrect == Spec => []TypeOK
<1>1. Init => Shape /\ ConfigsInForce
  BY InitShape DEF Init, ConfigsInForce
<1>2. (Shape /\ ConfigsInForce) /\ [Next]_vars => (Shape /\ ConfigsInForce)'
  BY NextShape, ConfigsKept
<1>3. Shape => TypeOK
  BY DEF Shape
<1>4. QED
  BY <1>1, <1>2, <1>3, PTL DEF Spec

\* The reported aggregate is the rollup of the source states whenever the lock
\* is free (applyAggregateRollup_).
THEOREM AggregateTruth == Spec => []AggregateIsCurrent
<1>1. Init => Shape /\ ConfigsInForce
  BY InitShape DEF Init, ConfigsInForce
<1>2. (Shape /\ ConfigsInForce) /\ [Next]_vars => (Shape /\ ConfigsInForce)'
  BY NextShape, ConfigsKept
<1>3. Shape => AggregateIsCurrent
  BY DEF Shape
<1>4. QED
  BY <1>1, <1>2, <1>3, PTL DEF Spec
-----------------------------------------------------------------------------
(* Incidents and faults agree for a source the operator does not reconfigure *)
(* while a command's late call is not delayed by safeTicks cycles.           *)

Faulted(s) == sources[s].age >= DefaultConfig.safe

\* Without reconfiguration the state of a source is that of its age, and a
\* suppressed heartbeat is not pending.
Steady ==
  \A s \in Untouched :
    /\ sources[s].config = DefaultConfig
    /\ sources[s].state = StateForAge(DefaultConfig, sources[s].age)
    /\ sources[s].probeSuppressed => ~sources[s].beatPending

\* While the command thread has still to call RecoveryExecutor: a source it
\* suppressed stays suppressed, one it cleared is too young to be faulty again.
Flight ==
  \A s \in Untouched :
    /\ cmdCall = [op |-> "suppression", source |-> s] =>
         sources[s].age >= DefaultConfig.suppress /\ sources[s].probeSuppressed
    /\ cmdCall = [op |-> "clear", source |-> s] => sources[s].age <= lag

Agreement == Shape /\ ConfigsInForce /\ Steady /\ Flight /\ FaultHasIncident /\ IncidentHasFault

\* The default thresholds are positive and ordered.
LEMMA DefaultThresholds ==
  /\ DefaultConfig.enabled = TRUE /\ AgeMax \in Nat /\ CmdLag \in Nat
  /\ DefaultConfig.warning \in Nat /\ DefaultConfig.safe \in Nat /\ DefaultConfig.suppress \in Nat
  /\ 0 < DefaultConfig.warning /\ DefaultConfig.warning <= DefaultConfig.safe
  /\ DefaultConfig.safe <= DefaultConfig.suppress /\ DefaultConfig.suppress <= AgeMax
BY WatchdogAssumption DEF ConfigRecord, IsValidConfig

\* What stateForAge and the severities say of the age.
LEMMA StateOfAge ==
  ASSUME NEW age \in Nat
  PROVE  /\ StateForAge(DefaultConfig, age) \in Faulty <=> age >= DefaultConfig.safe
         /\ StateForAge(DefaultConfig, age) = "FEED_SUPPRESSED" <=> age >= DefaultConfig.suppress
         /\ Severity(StateForAge(DefaultConfig, age)) >= 3 <=> age >= DefaultConfig.safe
         /\ Severity(StateForAge(DefaultConfig, age)) < 3 <=> age < DefaultConfig.safe
         /\ Severity(StateForAge(DefaultConfig, age)) > Severity("HEALTHY")
              <=> age >= DefaultConfig.warning
BY DefaultThresholds DEF StateForAge, Faulty, Severity

\* While the default thresholds are in force a source's state is determined by
\* its age.
LEMMA SteadyFaults ==
  ASSUME Agreement, NEW s \in Untouched
  PROVE  /\ sources[s] \in Source /\ sources[s].age \in Nat
         /\ sources[s].state \in Faulty <=> Faulted(s)
         /\ sources[s].state = "FEED_SUPPRESSED" <=> sources[s].age >= DefaultConfig.suppress
<1>1. sources[s] \in Source /\ sources[s].age \in 0 .. AgeMax /\ AgeMax \in Nat
  BY DefaultThresholds DEF Agreement, Shape, TypeOK, Source, Untouched
<1>2. sources[s].age \in Nat
  BY <1>1
<1>3. QED
  BY <1>1, <1>2, StateOfAge DEF Agreement, Steady, Faulted

\* One cycle: a source is faulty after it exactly if it kept its fault or
\* crossed a threshold, and recovers exactly if it beat after a warning.
LEMMA CycleOfSource ==
  ASSUME Agreement, NEW s \in Untouched
  PROVE  LET src == sources[s] IN
         /\ NextAge(src) \in Nat
         /\ NextState(src) = StateForAge(DefaultConfig, NextAge(src))
         /\ src.beatPending => NextAge(src) = 0
         /\ ~src.beatPending => NextAge(src) >= src.age /\ NextAge(src) <= src.age + 1
         /\ Recovered(src) => src.beatPending
         /\ src.beatPending /\ Faulted(s) => Recovered(src)
         /\ CrossedFault(src) <=>
              ~src.beatPending /\ ~Faulted(s) /\ NextAge(src) >= DefaultConfig.safe
         /\ CrossedSuppression(src) => NextAge(src) >= DefaultConfig.safe
<1> DEFINE src == sources[s]
<1>1. src \in Source /\ src.age \in Nat /\ src.age <= AgeMax /\ src.config = DefaultConfig
      /\ src.state = StateForAge(DefaultConfig, src.age) /\ src.beatPending \in BOOLEAN
  BY SteadyFaults DEF Agreement, Steady, Source
<1> HIDE DEF src
<1>2. /\ NextAge(src) \in Nat /\ (src.beatPending => NextAge(src) = 0)
      /\ (~src.beatPending => NextAge(src) >= src.age /\ NextAge(src) <= src.age + 1)
  BY <1>1, DefaultThresholds DEF NextAge, NextTick
<1>3. NextState(src) = StateForAge(DefaultConfig, NextAge(src))
  BY <1>1 DEF NextState
<1>4. Faulted(s) <=> src.age >= DefaultConfig.safe
  BY DEF Faulted, src
<1>5. Recovered(src) <=> src.beatPending /\ src.age >= DefaultConfig.warning
  BY <1>1, StateOfAge, DefaultThresholds DEF Recovered
<1>6. CrossedFault(src) <=> ~src.beatPending /\ ~Faulted(s) /\ NextAge(src) >= DefaultConfig.safe
  BY <1>1, <1>2, <1>3, <1>4, StateOfAge, DefaultThresholds DEF CrossedFault, Ages
<1>7. CrossedSuppression(src) => NextAge(src) >= DefaultConfig.safe
  <2>1. CrossedSuppression(src) => NextState(src) = "FEED_SUPPRESSED"
    BY DEF CrossedSuppression
  <2>2. NextState(src) = "FEED_SUPPRESSED" => NextAge(src) >= DefaultConfig.suppress
    BY <1>2, <1>3, StateOfAge
  <2>3. QED
    BY <1>2, <2>1, <2>2, DefaultThresholds
<1>8. src.beatPending /\ Faulted(s) => Recovered(src)
  BY <1>1, <1>4, <1>5, DefaultThresholds
<1>9. QED
  BY <1>2, <1>3, <1>5, <1>6, <1>7, <1>8 DEF src

\* schedIn keeps incidents and faults in step.
LEMMA SchedInAgrees ==
  ASSUME Agreement, CmdLag < DefaultConfig.safe, SchedIn, Shape', ConfigsInForce'
  PROVE  Agreement'
<1> DEFINE crossed == {s \in Sources : CrossedFault(sources[s])}
           suppressed == {s \in Sources : CrossedSuppression(sources[s])}
           recovered == {s \in Sources : Recovered(sources[s])}
<1>1. sources' = Evaluated
  BY SchedInSettles DEF Settle, Agreement
<1>2. PICK resent : /\ open' = ((open \cup crossed \cup suppressed) \ recovered) \cup resent
                    /\ resent \subseteq {s \in Sources : Evaluated[s].state \in Faulty}
  BY DEF SchedIn, Evaluated
<1> HIDE DEF crossed, suppressed, recovered
<1>3. /\ cmdCall' = cmdCall /\ lag \in Nat /\ lag' \in Nat
      /\ (cmdCall # NoCall => lag < CmdLag /\ lag' = lag + 1)
  <2>1. lag \in 0 .. CmdLag /\ CmdLag \in Nat
    BY DefaultThresholds DEF Agreement, Shape, TypeOK
  <2>2. /\ cmdCall' = cmdCall /\ (cmdCall # NoCall => lag < CmdLag)
        /\ lag' = IF cmdCall = NoCall THEN 0 ELSE lag + 1
    BY DEF SchedIn
  <2>3. CASE cmdCall = NoCall
    BY <2>1, <2>2, <2>3
  <2>4. CASE cmdCall # NoCall
    BY <2>1, <2>2, <2>4
  <2>5. QED
    BY <2>3, <2>4
<1>4. ASSUME NEW s \in Untouched
      PROVE  /\ sources'[s].age = NextAge(sources[s]) /\ sources'[s].state = NextState(sources[s])
             /\ sources'[s].config = DefaultConfig /\ sources'[s].beatPending = FALSE
             /\ sources'[s].probeSuppressed = sources[s].probeSuppressed
  BY <1>1, SteadyFaults DEF Evaluated, Source, Agreement, Steady, Untouched
<1>5. Steady'
  BY <1>4, CycleOfSource DEF Steady
<1>6. ASSUME NEW s \in Untouched
      PROVE  sources'[s].state \in Faulty <=> NextAge(sources[s]) >= DefaultConfig.safe
  <2>1. sources'[s].state = NextState(sources[s])
    BY <1>4
  <2>2. /\ NextAge(sources[s]) \in Nat
        /\ NextState(sources[s]) = StateForAge(DefaultConfig, NextAge(sources[s]))
    BY CycleOfSource
  <2>3. QED
    BY <2>1, <2>2, StateOfAge
<1>7. Flight'
  <2> SUFFICES ASSUME NEW s \in Untouched
               PROVE  /\ cmdCall = [op |-> "suppression", source |-> s] =>
                           sources'[s].age >= DefaultConfig.suppress /\ sources'[s].probeSuppressed
                      /\ cmdCall = [op |-> "clear", source |-> s] => sources'[s].age <= lag'
    BY <1>3 DEF Flight
  <2>1. /\ NextAge(sources[s]) \in Nat /\ sources[s].age \in Nat /\ sources[s].beatPending \in BOOLEAN
        /\ sources[s].beatPending => NextAge(sources[s]) = 0
        /\ ~sources[s].beatPending => /\ NextAge(sources[s]) >= sources[s].age
                                      /\ NextAge(sources[s]) <= sources[s].age + 1
    BY CycleOfSource, SteadyFaults DEF Source
  <2>2. ASSUME cmdCall = [op |-> "suppression", source |-> s]
        PROVE  sources'[s].age >= DefaultConfig.suppress /\ sources'[s].probeSuppressed
    <3>1. /\ sources[s].age >= DefaultConfig.suppress /\ sources[s].probeSuppressed
          /\ ~sources[s].beatPending
      BY <2>2 DEF Agreement, Flight, Steady
    <3>2. QED
      <4>1. /\ sources'[s].age = NextAge(sources[s])
            /\ sources'[s].probeSuppressed = sources[s].probeSuppressed
        BY <1>4
      <4>2. NextAge(sources[s]) >= DefaultConfig.suppress
        BY <2>1, <3>1, DefaultThresholds
      <4>3. QED
        BY <3>1, <4>1, <4>2
  <2>3. ASSUME cmdCall = [op |-> "clear", source |-> s]
        PROVE  sources'[s].age <= lag'
    <3>1. cmdCall # NoCall /\ sources[s].age <= lag
      BY <2>3 DEF NoCall, Agreement, Flight
    <3>2. QED
      <4>1. sources'[s].age = NextAge(sources[s])
        BY <1>4
      <4>2. NextAge(sources[s]) <= lag + 1
        BY <1>3, <2>1, <3>1
      <4>3. QED
        BY <1>3, <3>1, <4>1, <4>2
  <2>4. QED
    BY <2>2, <2>3
<1>8. FaultHasIncident'
  <2> SUFFICES ASSUME NEW s \in Untouched, sources'[s].state \in Faulty,
                      cmdCall # [op |-> "suppression", source |-> s]
               PROVE  s \in open'
    BY <1>3 DEF FaultHasIncident
  <2>1. NextAge(sources[s]) >= DefaultConfig.safe
    BY <1>6
  <2>2. ~sources[s].beatPending
    BY <2>1, CycleOfSource, DefaultThresholds
  <2>3. s \notin recovered
    BY <2>2, CycleOfSource DEF recovered
  <2>4. s \in open \cup crossed
    <3>1. CASE Faulted(s)
      BY <3>1, SteadyFaults DEF Agreement, FaultHasIncident
    <3>2. CASE ~Faulted(s)
      BY <2>1, <2>2, <3>2, CycleOfSource DEF crossed, Untouched
    <3>3. QED
      BY <3>1, <3>2
  <2>5. QED
    BY <1>2, <2>3, <2>4
<1>9. IncidentHasFault'
  <2> SUFFICES ASSUME NEW s \in open' \cap Untouched, cmdCall # [op |-> "clear", source |-> s]
               PROVE  sources'[s].state \in Faulty
    BY <1>3 DEF IncidentHasFault
  <2>1. s \in Untouched /\ s \in Sources
    BY DEF Untouched
  <2>2. CASE s \in resent
    BY <1>1, <1>2, <2>2
  <2>3. CASE s \in crossed \cup suppressed
    BY <1>6, <2>1, <2>3, CycleOfSource DEF crossed, suppressed
  <2>4. CASE s \in open /\ s \notin recovered
    <3>1. Faulted(s)
      BY <2>1, <2>4, SteadyFaults DEF Agreement, IncidentHasFault
    <3>2. ~sources[s].beatPending
      BY <2>1, <2>4, <3>1, CycleOfSource DEF recovered
    <3>3. NextAge(sources[s]) >= sources[s].age /\ NextAge(sources[s]) \in Nat /\ sources[s].age \in Nat
      BY <2>1, <3>2, CycleOfSource, SteadyFaults
    <3>4. QED
      BY <1>6, <2>1, <3>1, <3>3, DefaultThresholds DEF Faulted
  <2>5. QED
    BY <1>2, <2>2, <2>3, <2>4
<1>10. QED
  BY <1>5, <1>7, <1>8, <1>9 DEF Agreement

\* What the probe command does to the age, and which call it leaves pending.
LEMMA ProbeOfSource ==
  ASSUME Agreement, NEW s \in Untouched, NEW b \in BOOLEAN, SetProbeBeatSuppression(s, b)
  PROVE  LET src == sources[s]
             new == sources'[s]
             was == src.age >= DefaultConfig.suppress
         IN  /\ sources' = [sources EXCEPT ![s] = Probed(s, b)]
             /\ new.config = DefaultConfig /\ new.probeSuppressed = b /\ new.beatPending = FALSE
             /\ b /\ ~was => /\ new.age = DefaultConfig.suppress /\ new.state = "FEED_SUPPRESSED"
                             /\ cmdCall' = [op |-> "suppression", source |-> s]
             /\ ~b /\ was => /\ new.age = 0 /\ new.state = "HEALTHY"
                             /\ cmdCall' = [op |-> "clear", source |-> s]
             /\ (b <=> was) => new.age = src.age /\ new.state = src.state /\ cmdCall' = NoCall
<1> DEFINE src == [sources[s] EXCEPT !.probeSuppressed = b, !.beatPending = FALSE]
           was == src.state = "FEED_SUPPRESSED"
           enters == b /\ ~was /\ src.config.enabled
           leaves == ~b /\ was
<1>1. /\ sources[s] \in Source /\ sources[s].config = DefaultConfig
      /\ sources[s].state = "FEED_SUPPRESSED" <=> sources[s].age >= DefaultConfig.suppress
  BY SteadyFaults DEF Agreement, Steady
<1>2. /\ src \in Source /\ src.config = DefaultConfig /\ src.probeSuppressed = b
      /\ src.beatPending = FALSE /\ src.age = sources[s].age /\ src.state = sources[s].state
  BY <1>1 DEF Source
<1>3. sources' = [sources EXCEPT ![s] = Probed(s, b)]
  BY DEF SetProbeBeatSuppression, Settle, Probed
<1>4. sources'[s] = Probed(s, b)
  BY <1>3 DEF Agreement, Shape, TypeOK, Untouched
<1>5. cmdCall' = IF enters THEN [op |-> "suppression", source |-> s]
                 ELSE IF leaves THEN [op |-> "clear", source |-> s] ELSE NoCall
  BY DEF SetProbeBeatSuppression
<1>6. Probed(s, b) = [src EXCEPT !.age = IF enters THEN src.config.suppress
                                         ELSE IF leaves THEN 0 ELSE src.age,
                                 !.state = IF enters THEN "FEED_SUPPRESSED"
                                           ELSE IF ~leaves THEN src.state
                                           ELSE IF src.config.enabled THEN "HEALTHY" ELSE "DISABLED"]
  BY DEF Probed
<1>7. (was <=> sources[s].age >= DefaultConfig.suppress) /\ src.config.enabled = TRUE
  BY <1>1, <1>2, DefaultThresholds
<1> HIDE DEF src
<1>8. /\ Probed(s, b).config = DefaultConfig /\ Probed(s, b).probeSuppressed = b
      /\ Probed(s, b).beatPending = FALSE
      /\ Probed(s, b).age = IF enters THEN DefaultConfig.suppress ELSE IF leaves THEN 0 ELSE src.age
      /\ Probed(s, b).state = IF enters THEN "FEED_SUPPRESSED" ELSE IF leaves THEN "HEALTHY" ELSE src.state
  BY <1>2, <1>6, <1>7 DEF Source
<1> HIDE DEF was
<1>9. QED
  BY <1>2, <1>3, <1>4, <1>5, <1>7, <1>8

\* Suppression and its clearing leave a call outstanding that accounts for the
\* difference between the source's state and its incident.
LEMMA SetProbeAgrees ==
  ASSUME Agreement, NEW s \in Untouched, NEW b \in BOOLEAN, SetProbeBeatSuppression(s, b), Shape', ConfigsInForce'
  PROVE  Agreement'
<1>1. cmdCall = NoCall /\ open' = open /\ lag' = 0
  BY DEF SetProbeBeatSuppression
<1>2. /\ StateForAge(DefaultConfig, 0) = "HEALTHY"
      /\ StateForAge(DefaultConfig, DefaultConfig.suppress) = "FEED_SUPPRESSED"
  BY DefaultThresholds DEF StateForAge
<1>3. \A u \in Untouched : u # s => sources'[u] = sources[u]
  BY ProbeOfSource DEF Agreement, Shape, TypeOK, Untouched
<1>4. sources[s].state = StateForAge(DefaultConfig, sources[s].age) /\ sources[s].age \in Nat
  BY SteadyFaults DEF Agreement, Steady
<1>5. Steady'
  <2>1. sources'[s].state = StateForAge(DefaultConfig, sources'[s].age)
    BY <1>2, <1>4, ProbeOfSource
  <2>2. sources'[s].config = DefaultConfig /\ ~sources'[s].beatPending
    BY ProbeOfSource
  <2>3. QED
    BY <1>3, <2>1, <2>2 DEF Steady, Agreement
<1>6. \/ /\ cmdCall' = [op |-> "suppression", source |-> s]
         /\ sources'[s].age = DefaultConfig.suppress /\ sources'[s].probeSuppressed
      \/ cmdCall' = [op |-> "clear", source |-> s] /\ sources'[s].age = 0
      \/ cmdCall' = NoCall
  BY ProbeOfSource
<1>7. Flight'
  <2> SUFFICES ASSUME NEW u \in Untouched
               PROVE  /\ cmdCall' = [op |-> "suppression", source |-> u] =>
                           sources'[u].age >= DefaultConfig.suppress /\ sources'[u].probeSuppressed
                      /\ cmdCall' = [op |-> "clear", source |-> u] => sources'[u].age <= lag'
    BY DEF Flight
  <2>1. ASSUME cmdCall' = [op |-> "suppression", source |-> u]
        PROVE  sources'[u].age >= DefaultConfig.suppress /\ sources'[u].probeSuppressed
    <3>1. cmdCall'.op = "suppression" /\ cmdCall'.source = u
      BY <2>1
    <3>2. u = s /\ sources'[s].age = DefaultConfig.suppress /\ sources'[s].probeSuppressed
      BY <1>6, <3>1 DEF NoCall
    <3>3. QED
      BY <3>2, DefaultThresholds
  <2>2. ASSUME cmdCall' = [op |-> "clear", source |-> u]
        PROVE  sources'[u].age <= lag'
    <3>1. cmdCall'.op = "clear" /\ cmdCall'.source = u
      BY <2>2
    <3>2. u = s /\ sources'[s].age = 0
      BY <1>6, <3>1 DEF NoCall
    <3>3. QED
      BY <1>1, <3>2
  <2>3. QED
    BY <2>1, <2>2
<1>8. \A u \in open \cap Untouched : sources[u].state \in Faulty
  BY <1>1 DEF Agreement, IncidentHasFault, NoCall
<1>9. \A u \in Untouched : sources[u].state \in Faulty => u \in open
  BY <1>1 DEF Agreement, FaultHasIncident, NoCall
<1>10. FaultHasIncident'
  <2> SUFFICES ASSUME NEW u \in Untouched, sources'[u].state \in Faulty
               PROVE  u \in open \/ cmdCall' = [op |-> "suppression", source |-> u]
    BY <1>1 DEF FaultHasIncident
  <2>1. CASE u # s
    BY <1>3, <1>9, <2>1
  <2>2. CASE u = s
    BY <1>9, <2>2, ProbeOfSource DEF Faulty
  <2>3. QED
    BY <2>1, <2>2
<1>11. IncidentHasFault'
  <2> SUFFICES ASSUME NEW u \in open \cap Untouched
               PROVE  sources'[u].state \in Faulty \/ cmdCall' = [op |-> "clear", source |-> u]
    BY <1>1 DEF IncidentHasFault
  <2>1. u \in Untouched
    OBVIOUS
  <2>2. CASE u # s
    BY <1>3, <1>8, <2>1, <2>2
  <2>3. CASE u = s
    BY <1>8, <2>3, ProbeOfSource DEF Faulty
  <2>4. QED
    BY <2>2, <2>3
<1>12. QED
  BY <1>5, <1>7, <1>10, <1>11 DEF Agreement

\* The same command on another source leaves the untouched ones alone.
LEMMA SetProbeElsewhere ==
  ASSUME Agreement, NEW s \in Sources \ Untouched, NEW b \in BOOLEAN,
         SetProbeBeatSuppression(s, b), Shape', ConfigsInForce'
  PROVE  Agreement'
<1>1. cmdCall = NoCall /\ open' = open
  BY DEF SetProbeBeatSuppression
<1>2. \A u \in Untouched : sources'[u] = sources[u]
  <2>1. sources' = [sources EXCEPT ![s] = Probed(s, b)]
    BY DEF SetProbeBeatSuppression, Settle, Probed
  <2>2. QED
    BY <2>1 DEF Agreement, Shape, TypeOK, Untouched
<1>3. \A u \in Untouched : /\ cmdCall' # [op |-> "suppression", source |-> u]
                           /\ cmdCall' # [op |-> "clear", source |-> u]
  <2>1. \/ cmdCall' = [op |-> "suppression", source |-> s]
        \/ cmdCall' = [op |-> "clear", source |-> s] \/ cmdCall' = NoCall
    BY DEF SetProbeBeatSuppression
  <2>2. QED
    BY <2>1 DEF NoCall
<1>4. \A u \in Untouched : /\ cmdCall # [op |-> "suppression", source |-> u]
                           /\ cmdCall # [op |-> "clear", source |-> u]
  BY <1>1 DEF NoCall
<1>5. Steady' /\ Flight'
  BY <1>2, <1>3 DEF Agreement, Steady, Flight
<1>6. FaultHasIncident' /\ IncidentHasFault'
  BY <1>1, <1>2, <1>4 DEF Agreement, FaultHasIncident, IncidentHasFault
<1>7. QED
  BY <1>5, <1>6 DEF Agreement

\* So does SET_WATCHDOG_CONFIG.
LEMMA SetConfigElsewhere ==
  ASSUME Agreement, NEW s \in Tunable, NEW c \in Configs, SetConfig(s, c), Shape', ConfigsInForce'
  PROVE  Agreement'
<1>1. UNCHANGED <<open, cmdCall, lag>>
  BY DEF SetConfig
<1>2. \A u \in Untouched : sources'[u] = sources[u]
  <2>1. PICK new : sources' = [sources EXCEPT ![s] = new]
    BY DEF SetConfig, Settle
  <2>2. QED
    BY <2>1 DEF Agreement, Shape, TypeOK, Untouched
<1>3. Steady' /\ Flight'
  BY <1>1, <1>2 DEF Agreement, Steady, Flight
<1>4. FaultHasIncident' /\ IncidentHasFault'
  BY <1>1, <1>2 DEF Agreement, FaultHasIncident, IncidentHasFault
<1>5. QED
  BY <1>3, <1>4 DEF Agreement

\* The late call of the command thread settles that difference.
LEMMA CallRecoveryAgrees ==
  ASSUME Agreement, CmdLag < DefaultConfig.safe, CallRecovery, Shape', ConfigsInForce'
  PROVE  Agreement'
<1>1. /\ cmdCall # NoCall /\ cmdCall' = NoCall /\ sources' = sources /\ lag \in 0 .. CmdLag
      /\ open' = IF cmdCall.op = "suppression" THEN open \cup {cmdCall.source} ELSE open \ {cmdCall.source}
  BY DEF CallRecovery, Agreement, Shape, TypeOK
<1>2. PICK s \in Sources : \/ cmdCall = [op |-> "suppression", source |-> s]
                           \/ cmdCall = [op |-> "clear", source |-> s]
  BY <1>1 DEF Agreement, Shape, TypeOK, Calls
<1>3. Steady' /\ Flight'
  BY <1>1 DEF Agreement, Steady, Flight, NoCall
<1>4. CASE cmdCall = [op |-> "suppression", source |-> s]
  <2>1. open' = open \cup {s} /\ \A u \in Untouched : cmdCall # [op |-> "clear", source |-> u]
    BY <1>1, <1>4
  <2>2. s \in Untouched => sources[s].state \in Faulty
    BY <1>4, SteadyFaults, DefaultThresholds DEF Agreement, Flight, Faulty
  <2>3. FaultHasIncident'
    BY <1>1, <1>4, <2>1 DEF Agreement, FaultHasIncident
  <2>4. IncidentHasFault'
    BY <1>1, <2>1, <2>2 DEF Agreement, IncidentHasFault
  <2>5. QED
    BY <1>3, <2>3, <2>4 DEF Agreement
<1>5. CASE cmdCall = [op |-> "clear", source |-> s]
  <2>1. open' = open \ {s} /\ \A u \in Untouched : cmdCall # [op |-> "suppression", source |-> u]
    BY <1>1, <1>5
  <2>2. s \in Untouched => sources[s].state \notin Faulty
    <3> SUFFICES ASSUME s \in Untouched PROVE sources[s].state \notin Faulty
      OBVIOUS
    <3>1. sources[s].age <= lag /\ sources[s].age \in Nat /\ CmdLag \in Nat /\ lag \in Nat
      <4>1. sources[s].age <= lag
        BY <1>5 DEF Agreement, Flight
      <4>2. sources[s].age \in Nat /\ CmdLag \in Nat
        BY SteadyFaults, DefaultThresholds
      <4>3. QED
        BY <1>1, <4>1, <4>2
    <3>2. sources[s].age < DefaultConfig.safe
      BY <1>1, <3>1, DefaultThresholds
    <3>3. QED
      BY <3>1, <3>2, SteadyFaults, DefaultThresholds DEF Faulted
  <2>3. FaultHasIncident'
    BY <1>1, <2>1, <2>2 DEF Agreement, FaultHasIncident
  <2>4. IncidentHasFault'
    <3> SUFFICES ASSUME NEW u \in open \cap Untouched, u # s PROVE sources[u].state \in Faulty
      BY <1>1, <2>1 DEF IncidentHasFault
    <3>1. QED
      BY <1>5 DEF Agreement, IncidentHasFault
  <2>5. QED
    BY <1>3, <2>3, <2>4 DEF Agreement
<1>6. QED
  BY <1>2, <1>4, <1>5

\* A heartbeat alone changes no state that the incidents depend on.
LEMMA BeatInAgrees ==
  ASSUME Agreement, NEW s \in Sources, BeatIn(s), Shape', ConfigsInForce'
  PROVE  Agreement'
<1>1. \A u \in Sources : sources[u] \in Source
  BY DEF Agreement, Shape, TypeOK
<1>2. /\ sources' = [sources EXCEPT ![s] = [sources[s] EXCEPT
                       !.beatPending = sources[s].beatPending \/ ~sources[s].probeSuppressed]]
      /\ UNCHANGED <<open, cmdCall, lag>>
  BY DEF BeatIn
<1>3. \A u \in Sources : /\ sources'[u].config = sources[u].config /\ sources'[u].state = sources[u].state
                         /\ sources'[u].age = sources[u].age
                         /\ sources'[u].probeSuppressed = sources[u].probeSuppressed
                         /\ sources'[u].beatPending => sources[u].beatPending \/ ~sources[u].probeSuppressed
  BY <1>1, <1>2 DEF Agreement, Shape, TypeOK, Source
<1>4. Steady'
  BY <1>3 DEF Agreement, Steady, Untouched
<1>5. Flight' /\ FaultHasIncident'
  BY <1>2, <1>3 DEF Agreement, Flight, FaultHasIncident, Untouched
<1>6. IncidentHasFault'
  BY <1>2, <1>3 DEF Agreement, IncidentHasFault, Untouched
<1>7. QED
  BY <1>4, <1>5, <1>6 DEF Agreement

\* initializeSources_ leaves nothing faulty, nothing open and no call pending.
LEMMA InitAgrees == Init => Agreement
<1> SUFFICES ASSUME Init PROVE Agreement
  OBVIOUS
<1>1. \A s \in Sources : /\ sources[s].config = DefaultConfig /\ sources[s].age = 0
                         /\ sources[s].state = StateForAge(DefaultConfig, 0)
                         /\ sources[s].probeSuppressed = FALSE
  BY DEF Init
<1>2. StateForAge(DefaultConfig, 0) \notin Faulty
  BY StateOfAge, DefaultThresholds
<1>3. open = {} /\ cmdCall = NoCall
  BY DEF Init
<1>4. QED
  BY <1>1, <1>2, <1>3, InitShape
     DEF Agreement, ConfigsInForce, Steady, Flight, FaultHasIncident, IncidentHasFault, NoCall,
         Untouched

\* With a command delayed by fewer than safeTicks cycles, every step keeps
\* incidents and faults of the untouched sources in agreement.
LEMMA NextAgrees ==
  ASSUME CmdLag < DefaultConfig.safe, Agreement, [Next]_vars
  PROVE  Agreement'
<1>1. Shape' /\ ConfigsInForce'
  BY NextShape, ConfigsKept DEF Agreement
<1>2. ASSUME NEW s \in Sources, BeatIn(s) PROVE Agreement'
  BY <1>1, <1>2, BeatInAgrees
<1>3. ASSUME NEW s \in Sources, NEW b \in BOOLEAN, SetProbeBeatSuppression(s, b) PROVE Agreement'
  BY <1>1, <1>3, SetProbeAgrees, SetProbeElsewhere
<1>4. CASE SchedIn
  BY <1>1, <1>4, SchedInAgrees
<1>5. CASE CallRecovery
  BY <1>1, <1>5, CallRecoveryAgrees
<1>6. CASE Stroke \/ ModeChange \/ UNCHANGED vars
  BY <1>1, <1>6 DEF Stroke, ModeChange, vars, Agreement, Steady, Flight, FaultHasIncident, IncidentHasFault
<1>7. ASSUME NEW s \in Tunable, NEW c \in Configs, SetConfig(s, c) PROVE Agreement'
  BY <1>1, <1>7, SetConfigElsewhere
<1>8. QED
  BY <1>2, <1>3, <1>4, <1>5, <1>6, <1>7 DEF Next

\* While the supervisor runs, a latched fault has an incident in
\* RecoveryExecutor and an incident has a fault, but for the call of a command
\* in flight.
THEOREM IncidentsAgree ==
  ASSUME CmdLag < DefaultConfig.safe
  PROVE  Spec => []IncidentsMatchFaults
<1>1. Agreement => IncidentsMatchFaults
  BY DEF Agreement, IncidentsMatchFaults
<1>2. Agreement /\ [Next]_vars => Agreement'
  BY NextAgrees
<1>3. QED
  BY <1>1, <1>2, InitAgrees, PTL DEF Spec
-----------------------------------------------------------------------------
(* The chain of process, sink and board. *)


\* A process that has ended leaves the state the next one starts from.
LEMMA GoneIsInit == Gone => Init'
  BY DEF Gone, Init

\* A step of the chain is a step of the supervisor, or the end of its process.
LEMMA ChainStep == [ChainNext]_chainVars => [Next]_vars \/ Init'
<1> SUFFICES ASSUME [ChainNext]_chainVars PROVE [Next]_vars \/ Init'
  OBVIOUS
<1>1. CASE Launch \/ Initialize \/ LoopEnds \/ CloseSink \/ DeviceTick
  BY <1>1 DEF Launch, Initialize, LoopEnds, CloseSink, DeviceTick
<1>2. CASE Ends \/ Reset
  BY <1>2, GoneIsInit DEF Ends, Reset
<1>3. CASE Cycle \/ Feed \/ Supervise \/ CommandCalls
  BY <1>3 DEF Cycle, Feed, Supervise, CommandCalls, Next
<1>4. CASE UNCHANGED chainVars
  BY <1>4 DEF chainVars
<1>5. QED
  BY <1>1, <1>2, <1>3, <1>4 DEF ChainNext

\* Incidents and faults agree over any number of crashes, orderly exits,
\* launches and board resets (the life of main around WatchdogSupervisor).
THEOREM IncidentsAgreeOverRestarts ==
  ASSUME CmdLag < DefaultConfig.safe
  PROVE  ChainSpec => []IncidentsMatchFaults
<1>1. ChainInit => Agreement
  BY InitAgrees DEF ChainInit
<1>2. Agreement /\ [ChainNext]_chainVars => Agreement'
  <2>1. Init' => Agreement'
    BY InitAgrees, PTL
  <2>2. QED
    BY <2>1, ChainStep, NextAgrees
<1>3. Agreement => IncidentsMatchFaults
  BY DEF Agreement, IncidentsMatchFaults
<1>4. QED
  BY <1>1, <1>2, <1>3, PTL DEF ChainSpec
-----------------------------------------------------------------------------
\* The countdown of the device stays within its timeout.
DeviceType == device \in [armed : BOOLEAN, left : 0 .. Timeout]

Supervised == RunningIsSupervised /\ DeviceType

\* Every outcome of setupTopology leaves a device, and its success an armed one
\* when the hardware watchdog is in use.
LEMMA SetupLeavesDevice ==
  ASSUME DeviceType, NEW s \in SetupTopology
  PROVE  /\ s.device \in [armed : BOOLEAN, left : 0 .. Timeout]
         /\ s.ok /\ enabled => s.device.armed
<1>1. Kicked \in [armed : BOOLEAN, left : 0 .. Timeout] /\ Kicked.armed
  BY HardwareAssumption DEF Kicked
<1>2. ASSUME NEW c \in ConfigureSink(device)
      PROVE  /\ c.device \in [armed : BOOLEAN, left : 0 .. Timeout]
             /\ c.ok /\ enabled => c.device.armed
  BY <1>1, <1>2 DEF ConfigureSink, OpenDevice, ConfigureTimeout, Keepalive, DeviceType
<1>3. CASE s = [ok |-> FALSE, device |-> device]
  BY <1>3 DEF DeviceType
<1>4. CASE s # [ok |-> FALSE, device |-> device]
  <2>1. PICK c \in ConfigureSink(device), rest \in BOOLEAN : s = [ok |-> c.ok /\ rest, device |-> c.device]
    BY <1>4 DEF SetupTopology
  <2>2. s.device = c.device /\ (s.ok => c.ok)
    BY <2>1
  <2>3. QED
    BY <1>2, <2>2
<1>5. QED
  BY <1>3, <1>4

\* A process that runs with the hardware watchdog enabled holds an open,
\* counting device (configureLocked_, openDevice, teardownTopology).
THEOREM AlwaysSupervised == ChainSpec => []RunningIsSupervised
<1>1. ChainInit => Supervised
  BY HardwareAssumption DEF ChainInit, Supervised, RunningIsSupervised, DeviceType, Off
<1>2. Supervised /\ [ChainNext]_chainVars => Supervised'
  <2> SUFFICES ASSUME Supervised, [ChainNext]_chainVars PROVE Supervised'
    OBVIOUS
  <2>1. CASE Launch
    <3>1. PICK s \in SetupTopology : /\ process' = IF s.ok THEN "READY" ELSE "DOWN"
                                     /\ isOpen' = (enabled /\ s.ok) /\ device' = s.device
      BY <2>1 DEF Launch
    <3>2. enabled' = enabled
      BY <2>1 DEF Launch
    <3>3. QED
      BY <3>1, <3>2, SetupLeavesDevice DEF Supervised, RunningIsSupervised, DeviceType
  <2>2. CASE Initialize \/ LoopEnds \/ CloseSink
    BY <2>2 DEF Initialize, LoopEnds, CloseSink, Supervised, RunningIsSupervised, DeviceType
  <2>3. CASE Ends \/ Reset
    <3>1. process' = "DOWN" /\ (device' = device \/ device' = Off)
      BY <2>3 DEF Ends, Reset
    <3>2. Off \in [armed : BOOLEAN, left : 0 .. Timeout]
      BY HardwareAssumption DEF Off
    <3>3. QED
      BY <3>1, <3>2 DEF Supervised, RunningIsSupervised, DeviceType
  <2>4. CASE Feed
    <3>1. device' = device \/ device' = Kicked
      BY <2>4 DEF Feed, FeedIn, Keepalive
    <3>2. UNCHANGED <<process, enabled, isOpen>>
      BY <2>4 DEF Feed, lifeVars
    <3>3. Kicked \in [armed : BOOLEAN, left : 0 .. Timeout] /\ Kicked.armed
      BY HardwareAssumption DEF Kicked
    <3>4. QED
      BY <3>1, <3>2, <3>3 DEF Supervised, RunningIsSupervised, DeviceType
  <2>5. CASE DeviceTick
    <3>1. UNCHANGED <<process, enabled, isOpen>>
      BY <2>5 DEF DeviceTick, lifeVars
    <3>2. device' \in [armed : BOOLEAN, left : 0 .. Timeout] /\ device'.armed = device.armed
      BY <2>5, HardwareAssumption DEF DeviceTick, Supervised, DeviceType
    <3>3. QED
      BY <3>1, <3>2 DEF Supervised, RunningIsSupervised, DeviceType
  <2>6. CASE Cycle \/ Supervise \/ CommandCalls \/ UNCHANGED chainVars
    <3>1. UNCHANGED <<process, enabled, isOpen, device>>
      BY <2>6 DEF Cycle, Supervise, CommandCalls, chainVars, lifeVars
    <3>2. QED
      BY <3>1 DEF Supervised, RunningIsSupervised, DeviceType
  <2>7. QED
    BY <2>1, <2>2, <2>3, <2>4, <2>5, <2>6 DEF ChainNext
<1>3. Supervised => RunningIsSupervised
  BY DEF Supervised
<1>4. QED
  BY <1>1, <1>2, <1>3, PTL DEF ChainSpec
-----------------------------------------------------------------------------
(* The device bus. *)

CONSTANTS EpsCommands, AdcsCommands, MaxHandles, PollPeriod, Threshold, PingTargets,
          MaxCommands, MaxBeacons, MaxFaults

VARIABLES owner, csp, ready, node, eps, adcs, fdir, incidents, call, rg1, beacon, budget

Bus == INSTANCE DeviceBus

\* What the two FDIR controllers may have latched.
Latches == [eps : {Bus!NoSource, Bus!EpsSource}, adcs : {Bus!NoSource} \cup Bus!AdcsSources]

\* The inductive invariant: the latches have their types.
LatchInv == fdir \in Latches /\ Bus!IncidentMatchesLatch

\* evaluate of the EPS policy answers with its one source or with none.
LEMMA EpsLatchedType ==
  ASSUME NEW b, NEW l \in {Bus!NoSource, Bus!EpsSource}
  PROVE  Bus!EpsLatched(b, l) \in {Bus!NoSource, Bus!EpsSource}
BY Zenon DEF Bus!EpsLatched

\* evaluate of the ADCS policy keeps a latched source until it clears it.
LEMMA AdcsLatchedType ==
  ASSUME NEW b, NEW l \in {Bus!NoSource} \cup Bus!AdcsSources
  PROVE  /\ Bus!AdcsLatched(b, l) \in {Bus!NoSource} \cup Bus!AdcsSources
         /\ l # Bus!NoSource => Bus!AdcsLatched(b, l) \in {l, Bus!NoSource}
BY Zenon DEF Bus!AdcsLatched, Bus!AdcsSources

\* EpsFdirController::schedIn_handler latches and reports the same source.
LEMMA EpsTickLatches ==
  ASSUME LatchInv, Bus!EpsTick
  PROVE  LatchInv'
<1> DEFINE s == Bus!EpsLatched(eps', fdir.eps)
<1>1. fdir' = [fdir EXCEPT !.eps = s] /\ incidents' = Bus!EpsReported(incidents, s)
  BY Zenon DEF Bus!EpsTick
<1>2. s \in {Bus!NoSource, Bus!EpsSource}
  BY EpsLatchedType DEF LatchInv, Latches
<1> HIDE DEF s
<1>3. fdir' \in Latches /\ fdir'.eps = s /\ fdir'.adcs = fdir.adcs
  BY <1>1, <1>2 DEF LatchInv, Latches
<1>4. incidents = {fdir.eps, fdir.adcs} \ {Bus!NoSource}
  BY Zenon DEF LatchInv, Bus!IncidentMatchesLatch
<1>5. incidents' = {s, fdir.adcs} \ {Bus!NoSource}
  BY <1>1, <1>2, <1>4 DEF LatchInv, Latches, Bus!EpsReported, Bus!NoSource, Bus!EpsSource, Bus!AdcsSources
<1> QED
  BY <1>3, <1>5 DEF LatchInv, Bus!IncidentMatchesLatch

\* AdcsFdirController::schedIn_handler does too, also when one source takes over from none.
LEMMA AdcsTickLatches ==
  ASSUME LatchInv, Bus!AdcsTick
  PROVE  LatchInv'
<1> DEFINE s == Bus!AdcsLatched(adcs', fdir.adcs)
<1>1. fdir' = [fdir EXCEPT !.adcs = s] /\ incidents' = Bus!AdcsReported(incidents, fdir.adcs, s)
  BY Zenon DEF Bus!AdcsTick
<1>2. fdir.adcs \in {Bus!NoSource} \cup Bus!AdcsSources
  BY DEF LatchInv, Latches
<1>3. /\ s \in {Bus!NoSource} \cup Bus!AdcsSources
      /\ fdir.adcs # Bus!NoSource => s \in {fdir.adcs, Bus!NoSource}
  BY <1>2, AdcsLatchedType, Zenon
<1> HIDE DEF s
<1>4. fdir' \in Latches /\ fdir'.adcs = s /\ fdir'.eps = fdir.eps
  BY <1>1, <1>3 DEF LatchInv, Latches
<1>5. incidents = {fdir.eps, fdir.adcs} \ {Bus!NoSource}
  BY Zenon DEF LatchInv, Bus!IncidentMatchesLatch
<1>6. fdir.eps \in {Bus!NoSource, Bus!EpsSource}
  BY DEF LatchInv, Latches
<1>7. incidents' = {fdir.eps, s} \ {Bus!NoSource}
  BY <1>1, <1>2, <1>3, <1>5, <1>6
     DEF Bus!AdcsReported, Bus!NoSource, Bus!EpsSource, Bus!AdcsSources
<1> QED
  BY <1>4, <1>7 DEF LatchInv, Bus!IncidentMatchesLatch

\* Nothing but the two ticks touches a latch or reports an incident.
LEMMA LatchStep ==
  ASSUME LatchInv, [Bus!Next]_(Bus!vars)
  PROVE  LatchInv'
<1>1. CASE Bus!EpsTick
  BY <1>1, EpsTickLatches, Zenon
<1>2. CASE Bus!AdcsTick
  BY <1>2, AdcsTickLatches, Zenon
<1>3. CASE UNCHANGED <<fdir, incidents>>
  BY <1>3, Zenon DEF LatchInv, Bus!IncidentMatchesLatch
<1>4. Bus!EpsTick \/ Bus!AdcsTick \/ UNCHANGED <<fdir, incidents>>
  <2>1. CASE Bus!Worker
    BY <2>1, Zenon DEF Bus!Worker, Bus!WorkerServes, Bus!WorkerReturns
  <2>2. CASE Bus!RateGroup1
    BY <2>2, Zenon DEF Bus!RateGroup1, Bus!CommTick, Bus!CommSuppresses, Bus!TtcTick, Bus!RecoveryTick,
                Bus!CycleEnds, Bus!RuntimeEnsured, Bus!RateGroupReturns
  <2>3. CASE Bus!RateGroup3
    BY <2>3, Zenon DEF Bus!RateGroup3, Bus!BeaconSends, Bus!BeaconReturns
  <2>4. CASE Bus!Command
    BY <2>4, Zenon DEF Bus!Command, Bus!CommandStarts, Bus!RuntimeEnsured, Bus!CommandReturns
  <2>5. CASE Bus!Faults
    BY <2>5, Zenon DEF Bus!Faults, Bus!NodeStops, Bus!NodeStarts, Bus!SensorFails, Bus!FaultOf
  <2>6. CASE Bus!StopWorker
    BY <2>6, Zenon DEF Bus!StopWorker
  <2>7. CASE UNCHANGED Bus!vars
    BY <2>7, Zenon DEF Bus!vars
  <2>8. QED
    BY <2>1, <2>2, <2>3, <2>4, <2>5, <2>6, <2>7, Zenon DEF Bus!Next
<1> QED
  BY <1>1, <1>2, <1>3, <1>4, Zenon

\* RecoveryExecutor holds exactly the incidents the two FDIR controllers have
\* latched, for every threshold and poll period and however requests, faults of
\* the nodes, restarts of the CSP runtime and ticks are interleaved.
THEOREM IncidentsFollowLatches == Bus!Spec => []Bus!IncidentMatchesLatch
<1>1. Bus!Init => LatchInv
  BY DEF Bus!Init, LatchInv, Latches, Bus!IncidentMatchesLatch
<1>2. LatchInv /\ [Bus!Next]_(Bus!vars) => LatchInv'
  BY LatchStep, Zenon
<1>3. LatchInv => Bus!IncidentMatchesLatch
  BY Zenon DEF LatchInv
<1> QED
  BY <1>1, <1>2, <1>3, PTL DEF Bus!Spec
-----------------------------------------------------------------------------
(* The beacon: it is sent under the mutex that setUhfBeaconSuppressedForRuntime *)
(* waits for.                                                                  *)

\* The record of a call, as far as the beacon is concerned.
Shaped(v) == v = [f \in DOMAIN v |-> v[f]] /\ "state" \in DOMAIN v

\* Caller c waits for the worker of the bus.
Waits(c) == call[c] # Bus!Idle /\ call[c].state = "WAIT"

\* Every caller has a call record.
CallShape ==
  /\ DOMAIN call = Bus!Callers /\ call = [c \in Bus!Callers |-> call[c]]
  /\ \A c \in Bus!Callers : Shaped(call[c])

\* The inductive invariant: a beacon on its way holds the mutex.
BeaconInv ==
  /\ CallShape
  /\ beacon \in [suppressed : BOOLEAN, locked : BOOLEAN]
  /\ Waits("rg3") => beacon.locked /\ ~beacon.suppressed

\* A step of caller c alone.
CallStep(c) == \E v : Shaped(v) /\ call' = [call EXCEPT ![c] = v]

\* Such a step keeps the shape of the calls and every other call.
LEMMA CallStepKeeps ==
  ASSUME NEW c \in Bus!Callers, CallShape, CallStep(c)
  PROVE  CallShape' /\ (\A d \in Bus!Callers \ {c} : call'[d] = call[d])
<1>1. PICK v : Shaped(v) /\ call' = [call EXCEPT ![c] = v]
  BY Zenon DEF CallStep
<1> QED
  BY <1>1 DEF CallShape, Shaped

\* A request is queued, or it fails at once when the worker is stopped.
LEMMA AsksStep ==
  ASSUME NEW c \in Bus!Callers, NEW r, NEW g, Bus!Asks(c, r, g)
  PROVE  CallStep(c)
<1> DEFINE w == [state |-> "WAIT", request |-> r, goal |-> g, outcome |-> Bus!NoRequest]
           d == [state |-> "DONE", request |-> r, goal |-> g,
                 outcome |-> Bus!Failure("EXECUTION_ERROR")]
<1>1. Shaped(w) /\ Shaped(d)
  BY DEF Shaped
<1>2. call' = [call EXCEPT ![c] = IF owner.running THEN w ELSE d]
  BY Zenon DEF Bus!Asks
<1> HIDE DEF w, d
<1> QED
  BY <1>1, <1>2, Zenon DEF CallStep

\* Every call begins with a request.
LEMMA CallsStep ==
  ASSUME NEW c \in Bus!Callers, NEW r, Bus!Calls(c, r)
  PROVE  CallStep(c)
BY AsksStep, Zenon DEF Bus!Calls

\* A caller takes its outcome and is idle again.
LEMMA ReturnsStep ==
  ASSUME NEW c \in Bus!Callers, Bus!Returns(c)
  PROVE  CallStep(c) /\ (CallShape => call'[c] = Bus!Idle)
<1>1. call' = [call EXCEPT ![c] = Bus!Idle]
  BY Zenon DEF Bus!Returns
<1>2. Shaped(Bus!Idle)
  BY DEF Shaped, Bus!Idle
<1> QED
  BY <1>1, <1>2 DEF CallStep, CallShape

\* The request that waited for the runtime is made, or it fails with it.
LEMMA RuntimeEnsuredStep ==
  ASSUME NEW c \in Bus!Callers, CallShape, Bus!RuntimeEnsured(c)
  PROVE  CallStep(c) /\ UNCHANGED beacon
<1> DEFINE g == call[c].goal
           v == [call[c] EXCEPT !.request = g]
<1>1. Bus!Asks(c, g, g) \/ call' = [call EXCEPT ![c] = [@ EXCEPT !.request = g]]
  BY Zenon DEF Bus!RuntimeEnsured
<1>2. CASE Bus!Asks(c, g, g)
  BY <1>2, AsksStep, Zenon DEF Bus!RuntimeEnsured
<1>3. CASE call' = [call EXCEPT ![c] = [@ EXCEPT !.request = g]]
  <2>1. Shaped(v)
    BY DEF CallShape, Shaped
  <2>2. call' = [call EXCEPT ![c] = v]
    BY <1>3 DEF CallShape
  <2> QED
    BY <2>1, <2>2, Zenon DEF CallStep, Bus!RuntimeEnsured
<1> QED
  BY <1>1, <1>2, <1>3, Zenon

\* Completing a request wakes its caller and no other.
LEMMA CompletesStep ==
  ASSUME CallShape, NEW r, NEW out, Bus!Completes(r, out)
  PROVE  CallShape' /\ (Waits("rg3")' => Waits("rg3"))
<1>1. CASE UNCHANGED call
  BY <1>1, Zenon DEF CallShape, Waits
<1>2. CASE call' = [call EXCEPT ![r.from] = [@ EXCEPT !.state = "DONE", !.outcome = out]]
  <2>1. CASE r.from \in Bus!Callers
    <3> DEFINE c == r.from
               v == [call[c] EXCEPT !.state = "DONE", !.outcome = out]
    <3>1. Shaped(v) /\ v.state = "DONE"
      BY <2>1 DEF CallShape, Shaped
    <3>2. call' = [call EXCEPT ![c] = v]
      BY <1>2, <2>1 DEF CallShape
    <3> HIDE DEF v
    <3>3. CallStep(c)
      BY <3>1, <3>2, Zenon DEF CallStep
    <3>4. CallShape' /\ (\A d \in Bus!Callers \ {c} : call'[d] = call[d])
      BY <2>1, <3>3, CallStepKeeps, Zenon
    <3>5. call'[c].state = "DONE"
      BY <2>1, <3>1, <3>2 DEF CallShape
    <3> QED
      BY <3>4, <3>5 DEF Waits, Bus!Callers
  <2>2. CASE r.from \notin Bus!Callers
    <3>1. call' = call
      BY <1>2, <2>2 DEF CallShape
    <3> QED
      BY <3>1, Zenon DEF CallShape, Waits
  <2> QED
    BY <2>1, <2>2, Zenon
<1> QED
  BY <1>1, <1>2, Zenon DEF Bus!Completes

\* The worker completes the request at the head of its queue.
LEMMA WorkerServesStep ==
  ASSUME CallShape, Bus!WorkerServes
  PROVE  CallShape' /\ (Waits("rg3")' => Waits("rg3")) /\ UNCHANGED beacon
<1> DEFINE r == Head(owner.queue)
<1>1. \/ Bus!RequestReply(r) \/ Bus!Ping(r) \/ Bus!SendRaw(r)
      \/ Bus!InitRuntime(r) \/ Bus!ShutdownRuntime(r)
  BY Zenon DEF Bus!WorkerServes
<1> HIDE DEF r
<1>2. \E out : Bus!Completes(r, out)
  BY <1>1, Zenon DEF Bus!RequestReply, Bus!Transacts, Bus!Ping, Bus!SendRaw, Bus!InitRuntime, Bus!ShutdownRuntime
<1> QED
  BY <1>2, CompletesStep, Zenon DEF Bus!WorkerServes

\* A step that neither wakes the beacon nor touches its flags.
LEMMA OtherStep ==
  ASSUME BeaconInv, CallShape', Waits("rg3")' => Waits("rg3"), UNCHANGED beacon
  PROVE  BeaconInv'
BY Zenon DEF BeaconInv

\* A step of another thread than the beacon's.
LEMMA OtherCaller ==
  ASSUME BeaconInv, NEW c \in {"cmd", "rg1"}, CallStep(c), UNCHANGED beacon
  PROVE  BeaconInv'
<1>1. CallShape' /\ (\A d \in Bus!Callers \ {c} : call'[d] = call[d])
  BY CallStepKeeps, Zenon DEF BeaconInv, Bus!Callers
<1>2. call'["rg3"] = call["rg3"]
  BY <1>1 DEF Bus!Callers
<1> QED
  BY <1>1, <1>2, OtherStep, Zenon DEF Waits

\* Every step keeps the beacon's invariant: the lock is held while it sends.
LEMMA BeaconStep ==
  ASSUME BeaconInv, [Bus!Next]_(Bus!vars)
  PROVE  BeaconInv'
<1> CallShape
  BY Zenon DEF BeaconInv
<1>0. CASE UNCHANGED <<call, beacon>>
  BY <1>0, Zenon DEF BeaconInv, CallShape, Waits
<1>1. CASE Bus!Worker
  BY <1>0, <1>1, WorkerServesStep, OtherStep, Zenon DEF Bus!Worker, Bus!WorkerReturns
<1>2. CASE Bus!RateGroup1
  <2>1. CASE Bus!CommSuppresses
    <3>1. ~beacon.locked /\ beacon' = [beacon EXCEPT !.suppressed = ~beacon.suppressed]
      BY <2>1, Zenon DEF Bus!CommSuppresses, Bus!Suppresses
    <3>2. UNCHANGED call
      BY <2>1, Zenon DEF Bus!CommSuppresses
    <3>3. beacon' \in [suppressed : BOOLEAN, locked : BOOLEAN]
      BY <3>1, Zenon DEF BeaconInv
    <3> QED
      BY <3>1, <3>2, <3>3, Zenon DEF BeaconInv, CallShape, Waits
  <2>2. CASE Bus!TtcTick
    BY <2>2, CallsStep, OtherCaller, Zenon DEF Bus!TtcTick, Bus!Callers
  <2>3. CASE Bus!RecoveryTick
    BY <2>3, CallsStep, OtherCaller, Zenon DEF Bus!RecoveryTick, Bus!Callers
  <2>4. CASE Bus!RuntimeEnsured("rg1")
    BY <2>4, RuntimeEnsuredStep, OtherCaller, Zenon DEF Bus!Callers
  <2>5. CASE Bus!RateGroupReturns
    BY <2>5, ReturnsStep, OtherCaller, Zenon DEF Bus!RateGroupReturns, Bus!Callers
  <2>6. CASE Bus!EpsTick \/ Bus!AdcsTick \/ Bus!CommTick \/ Bus!CycleEnds
    BY <1>0, <2>6, Zenon DEF Bus!EpsTick, Bus!AdcsTick, Bus!CommTick, Bus!CycleEnds
  <2> QED
    BY <1>2, <2>1, <2>2, <2>3, <2>4, <2>5, <2>6, Zenon DEF Bus!RateGroup1
<1>3. CASE Bus!BeaconSends
  <2>1. ~beacon.suppressed /\ beacon' = [beacon EXCEPT !.locked = TRUE]
    BY <1>3, Zenon DEF Bus!BeaconSends
  <2>2. CallShape'
    BY <1>3, CallsStep, CallStepKeeps, Zenon DEF Bus!BeaconSends, Bus!Callers
  <2>3. beacon' \in [suppressed : BOOLEAN, locked : BOOLEAN] /\ beacon'.locked /\ ~beacon'.suppressed
    BY <2>1 DEF BeaconInv
  <2> QED
    BY <2>2, <2>3, Zenon DEF BeaconInv
<1>4. CASE Bus!BeaconReturns
  <2>1. CallShape' /\ call'["rg3"] = Bus!Idle
    BY <1>4, ReturnsStep, CallStepKeeps, Zenon DEF Bus!BeaconReturns, Bus!Callers
  <2>2. beacon' \in [suppressed : BOOLEAN, locked : BOOLEAN]
    BY <1>4, Zenon DEF BeaconInv, Bus!BeaconReturns
  <2> QED
    BY <2>1, <2>2, Zenon DEF BeaconInv, Waits
<1>5. CASE Bus!Command
  <2>1. CASE Bus!CommandStarts
    <3>1. \E r : Bus!Calls("cmd", r)
      BY <2>1, Zenon DEF Bus!CommandStarts, Bus!EpsCommand, Bus!AdcsCommand, Bus!CspPing, Bus!CspSendRaw, Bus!CspInit, Bus!CspShutdown
    <3>2. UNCHANGED beacon
      BY <2>1, Zenon DEF Bus!CommandStarts
    <3> QED
      BY <3>1, <3>2, CallsStep, OtherCaller, Zenon DEF Bus!Callers
  <2>2. CASE Bus!RuntimeEnsured("cmd")
    BY <2>2, RuntimeEnsuredStep, OtherCaller, Zenon DEF Bus!Callers
  <2>3. CASE Bus!CommandReturns
    BY <2>3, ReturnsStep, OtherCaller, Zenon DEF Bus!CommandReturns, Bus!Callers
  <2> QED
    BY <1>5, <2>1, <2>2, <2>3, Zenon DEF Bus!Command
<1>6. CASE Bus!Faults \/ Bus!StopWorker
  BY <1>0, <1>6, Zenon DEF Bus!Faults, Bus!NodeStops, Bus!NodeStarts, Bus!SensorFails, Bus!FaultOf, Bus!StopWorker
<1>7. CASE UNCHANGED Bus!vars
  BY <1>0, <1>7, Zenon DEF Bus!vars
<1> QED
  BY <1>1, <1>2, <1>3, <1>4, <1>5, <1>6, <1>7, Zenon DEF Bus!Next, Bus!RateGroup3

\* While the beacon is suppressed none is queued or on the air:
\* setUhfBeaconSuppressedForRuntime waits for the mutex sendBeacon holds, for
\* every interleaving of the threads.
THEOREM SuppressedSilent == Bus!Spec => []Bus!SuppressedBeaconIsSilent
<1>1. Bus!Init => BeaconInv
  <2> SUFFICES ASSUME Bus!Init PROVE BeaconInv
    OBVIOUS
  <2>1. call = [c \in Bus!Callers |-> Bus!Idle] /\ beacon = Bus!BeaconInit
    BY Zenon DEF Bus!Init
  <2>2. Shaped(Bus!Idle)
    BY DEF Shaped, Bus!Idle
  <2>3. CallShape /\ call["rg3"] = Bus!Idle
    BY <2>1, <2>2 DEF CallShape, Bus!Callers
  <2>4. beacon \in [suppressed : BOOLEAN, locked : BOOLEAN]
    BY <2>1 DEF Bus!BeaconInit
  <2> QED
    BY <2>3, <2>4, Zenon DEF BeaconInv, Waits
<1>2. BeaconInv /\ [Bus!Next]_(Bus!vars) => BeaconInv'
  BY BeaconStep, Zenon
<1>3. BeaconInv => Bus!SuppressedBeaconIsSilent
  BY Zenon DEF BeaconInv, Waits, Bus!SuppressedBeaconIsSilent
<1> QED
  BY <1>1, <1>2, <1>3, PTL DEF Bus!Spec
=============================================================================
