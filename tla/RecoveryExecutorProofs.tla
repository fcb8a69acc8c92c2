----------------------- MODULE RecoveryExecutorProofs -----------------------
(***************************************************************************)
(* Type correctness, ExitIsDurable and RebootExitNeedsSubsystem of         *)
(* RecoveryExecutor, for any sets of sources and modes and any timeouts.   *)
(***************************************************************************)
EXTENDS RecoveryExecutor, SequenceTheorems, FiniteSetTheorems, TLAPS

Recording == {"RECORD_PROCESS_RESTART_INTENT", "RECORD_REBOOT_INTENT"}

\* A thread that was told its intent is recorded finds it recorded: nothing in
\* this process withdraws an intent once BootManager has persisted it.
AnswersAreDurable ==
  \A t \in Threads : \A k \in DOMAIN todo[t] :
    todo[t][k].kind \in Recording /\ todo[t][k].outcome = "ok" => boot.resetPending

IInv == TypeOK /\ AnswersAreDurable /\ ExitIsDurable
-----------------------------------------------------------------------------
(* The shapes of incidents and of request sequences. *)

\* Every update that openIncident_, closeIncident_, the prepare functions and
\* schedIn make to an incident gives an incident.
LEMMA IncidentUpdates ==
  ASSUME NEW s \in Sources, NEW i \in Incident
  PROVE  /\ Opened(s, i) \in Incident
         /\ Closed(i) \in Incident
         /\ FirstAction(i, 2) \in Incident /\ FirstAction(i, 3) \in Incident
         /\ FellBack(i) \in Incident
         /\ RebootPrepared(i) \in Incident
         /\ Ticked(i) \in Incident
         /\ [i EXCEPT !.processRestartPending = TRUE] \in Incident
         /\ [i EXCEPT !.processRestartPending = FALSE] \in Incident
         /\ [i EXCEPT !.rebootPending = TRUE] \in Incident
         /\ [i EXCEPT !.rebootPending = FALSE] \in Incident
<1> USE RecoveryAssumption
<1>1. Opened(s, i) \in Incident
  BY DEF Incident, Opened, InitialLevel, Levels
<1>2. Closed(i) \in Incident
  BY DEF Incident, Closed, Levels
<1>3. FirstAction(i, 2) \in Incident /\ FirstAction(i, 3) \in Incident
  BY DEF Incident, FirstAction, Levels
<1>4. FellBack(i) \in Incident
  BY DEF Incident, FellBack, Levels
<1>5. RebootPrepared(i) \in Incident
  BY DEF Incident, RebootPrepared, Levels
<1>6. Ticked(i) \in Incident
  <2>1. i.openTicks \in 0 .. UnclearedTicks /\ i.level \in Levels
    BY DEF Incident
  <2>2. (IF i.openTicks < UnclearedTicks THEN i.openTicks + 1 ELSE i.openTicks) \in 0 .. UnclearedTicks
    BY <2>1
  <2>3. (IF RebootDue(i) THEN 6 ELSE i.level) \in Levels
    BY <2>1 DEF Levels
  <2>4. CASE Waiting(i)
    BY <2>2, <2>3, <2>4 DEF Incident, Ticked
  <2>5. CASE ~Waiting(i)
    BY <2>5 DEF Ticked
  <2>6. QED
    BY <2>4, <2>5
<1>7. /\ [i EXCEPT !.processRestartPending = TRUE] \in Incident
      /\ [i EXCEPT !.processRestartPending = FALSE] \in Incident
      /\ [i EXCEPT !.rebootPending = TRUE] \in Incident
      /\ [i EXCEPT !.rebootPending = FALSE] \in Incident
  BY DEF Incident
<1>8. QED
  BY <1>1, <1>2, <1>3, <1>4, <1>5, <1>6, <1>7

\* A request is made with a source and no outcome.
LEMMA RequestType ==
  ASSUME NEW kind \in Kinds, NEW s \in Sources
  PROVE  /\ Request(kind, s) \in Requests
         /\ Request(kind, s).outcome = "none" /\ Request(kind, s).kind = kind
         /\ Request(kind, s).source = s
BY DEF Request, Requests, Outcomes

\* The acknowledgement schedIn queues is an unanswered request.
LEMMA AckRequestType ==
  AckRequest \in Requests /\ AckRequest.outcome = "none" /\ AckRequest.kind = "ACK_STABLE"
BY DEF AckRequest, Requests, Outcomes

\* Requests that have not been answered yet.
Fresh(q) == q \in Seq(Requests) /\ \A k \in DOMAIN q : q[k].outcome = "none"

\* The requests a decision hands to executeExternalActions_ are unanswered.
LEMMA FreshRequests ==
  ASSUME NEW s \in Sources, NEW k1 \in Kinds, NEW k2 \in Kinds
  PROVE  /\ Fresh(<<>>) /\ Fresh(<<Request(k1, s)>>)
         /\ Fresh(<<Request(k1, s), Request(k2, s)>>)
<1>1. /\ Request(k1, s) \in Requests /\ Request(k2, s) \in Requests
      /\ Request(k1, s).outcome = "none" /\ Request(k2, s).outcome = "none"
  BY RequestType
<1>2. QED
  BY <1>1 DEF Fresh

\* A locked section that hands fresh requests to its thread.
LEMMA DecideKeepsIInv ==
  ASSUME IInv, NEW t \in Threads, NEW s \in Sources, NEW i \in Incident,
         NEW q, Fresh(q), Decide(t, s, i, q)
  PROVE  IInv'
<1> USE DEF IInv, Decide
<1>1. TypeOK'
  <2>1. incidents' \in [Sources -> Incident]
    BY DEF TypeOK
  <2>2. todo' \in [Threads -> Seq(Requests)]
    BY DEF TypeOK, Fresh
  <2>3. QED
    BY <2>1, <2>2 DEF TypeOK
<1>2. AnswersAreDurable'
  <2> SUFFICES ASSUME NEW u \in Threads, NEW k \in DOMAIN todo'[u],
                      todo'[u][k].kind \in Recording, todo'[u][k].outcome = "ok"
               PROVE  boot'.resetPending
    BY DEF AnswersAreDurable
  <2>1. CASE u = t
    <3>1. todo'[u] = q
      BY <2>1 DEF TypeOK
    <3>2. QED
      BY <3>1 DEF Fresh
  <2>2. CASE u # t
    <3>1. todo'[u] = todo[u]
      BY <2>2 DEF TypeOK
    <3>2. QED
      BY <3>1 DEF AnswersAreDurable
  <2>3. QED
    BY <2>1, <2>2
<1>3. ExitIsDurable'
  BY DEF ExitIsDurable, ExitRequested
<1>4. QED
  BY <1>1, <1>2, <1>3

\* Taking the first request off a thread's list keeps the list well formed and
\* invents no answer.
LEMMA TailOfTodo ==
  ASSUME TypeOK, NEW t \in Threads, todo[t] # <<>>
  PROVE  /\ Tail(todo[t]) \in Seq(Requests)
         /\ \A k \in DOMAIN Tail(todo[t]) :
              k + 1 \in DOMAIN todo[t] /\ Tail(todo[t])[k] = todo[t][k + 1]
         /\ todo[t][1] \in Requests /\ 1 \in DOMAIN todo[t]
<1>1. todo[t] \in Seq(Requests)
  BY DEF TypeOK
<1>2. QED
  BY <1>1

\* Requests taken from the thread's own list or not answered yet.
Carried(t, q) ==
  /\ q \in Seq(Requests)
  /\ \A k \in DOMAIN q : q[k].outcome = "none" \/ \E j \in DOMAIN todo[t] : q[k] = todo[t][j]

\* A thread that goes on with carried requests keeps every answer durable.
LEMMA CarriedKeepsAnswers ==
  ASSUME IInv, NEW t \in Threads, NEW q, Carried(t, q),
         todo' = [todo EXCEPT ![t] = q], boot.resetPending => boot'.resetPending
  PROVE  todo' \in [Threads -> Seq(Requests)] /\ AnswersAreDurable'
<1>1. todo' \in [Threads -> Seq(Requests)]
  BY DEF IInv, TypeOK, Carried
<1>2. AnswersAreDurable'
  <2> SUFFICES ASSUME NEW u \in Threads, NEW k \in DOMAIN todo'[u],
                      todo'[u][k].kind \in Recording, todo'[u][k].outcome = "ok"
               PROVE  boot'.resetPending
    BY DEF AnswersAreDurable
  <2>1. CASE u = t
    <3>1. todo'[u] = q
      BY <2>1 DEF IInv, TypeOK
    <3>2. PICK j \in DOMAIN todo[t] : q[k] = todo[t][j]
      BY <3>1 DEF Carried
    <3>3. QED
      BY <3>1, <3>2 DEF IInv, AnswersAreDurable
  <2>2. CASE u # t
    <3>1. todo'[u] = todo[u]
      BY <2>2 DEF IInv, TypeOK
    <3>2. QED
      BY <3>1 DEF IInv, AnswersAreDurable
  <2>3. QED
    BY <2>1, <2>2
<1>3. QED
  BY <1>1, <1>2

\* Dropping the request that was just executed keeps the others' answers.
LEMMA DoneIsCarried ==
  ASSUME TypeOK, NEW t \in Threads, todo[t] # <<>>
  PROVE  Carried(t, Tail(todo[t]))
BY TailOfTodo DEF Carried

\* So does adding the SAFE fallback that a failed action asks for.
LEMMA FollowUpIsCarried ==
  ASSUME TypeOK, NEW t \in Threads, todo[t] # <<>>, NEW s \in Sources
  PROVE  Carried(t, Append(Tail(todo[t]), Request("APPLY_SAFE", s)))
<1> DEFINE rest == Tail(todo[t])
           r == Request("APPLY_SAFE", s)
<1>1. r \in Requests /\ r.outcome = "none"
  BY RequestType DEF Kinds
<1>2. rest \in Seq(Requests) /\ Carried(t, rest)
  BY TailOfTodo, DoneIsCarried
<1>3. Append(rest, r) \in Seq(Requests)
  BY <1>1, <1>2
<1>4. ASSUME NEW k \in DOMAIN Append(rest, r)
      PROVE  Append(rest, r)[k] = r \/ (k \in DOMAIN rest /\ Append(rest, r)[k] = rest[k])
  BY <1>2
<1> HIDE DEF rest, r
<1>5. QED
  BY <1>1, <1>2, <1>3, <1>4 DEF Carried, rest, r

\* The source of a recovery request is a source.
LEMMA HeadSource ==
  ASSUME TypeOK, NEW t \in Threads, NEW kind \in Kinds, NEW o, Returned(t, kind, o)
  PROVE  todo[t][1].source \in Sources /\ todo[t] # <<>>
<1>1. todo[t] # <<>> /\ todo[t][1] \in Requests /\ todo[t][1].kind = kind
  BY TailOfTodo DEF Returned
<1>2. kind # "ACK_STABLE"
  BY DEF Kinds
<1>3. QED
  BY <1>1, <1>2 DEF Requests
-----------------------------------------------------------------------------
\* The constructor establishes the invariant.
LEMMA InitIInv == Init => IInv
<1> SUFFICES ASSUME Init PROVE IInv
  OBVIOUS
<1>1. incidents \in [Sources -> Incident]
  BY RecoveryAssumption DEF Init, Incident, Levels
<1>2. todo \in [Threads -> Seq(Requests)] /\ AnswersAreDurable
  BY DEF Init, AnswersAreDurable
<1>3. boot \in BootRecord
  BY DEF Init, BootRecord, Levels
<1>4. stableTicks \in 0 .. StableAckTicks
  BY RecoveryAssumption DEF Init
<1>5. /\ processRestartRequested \in BOOLEAN /\ rebootRequested \in BOOLEAN
      /\ exit \in {"NONE", "PROCESS_RESTART", "OBC_REBOOT"}
      /\ bootClampApplied \in BOOLEAN /\ stableAcked \in BOOLEAN
  BY DEF Init
<1>6. ExitIsDurable
  BY DEF Init, ExitIsDurable, ExitRequested
<1>7. QED
  BY <1>1, <1>2, <1>3, <1>4, <1>5, <1>6 DEF IInv, TypeOK

\* The submit and clear entry points decide under the lock and execute later;
\* none of them touches an answer or the exit flags.
LEMMA DetectorsKeepIInv ==
  ASSUME IInv, Detectors
  PROVE  IInv'
<1>0. \A s \in Sources : incidents[s] \in Incident
  BY DEF IInv, TypeOK
<1>1. ASSUME NEW s \in WatchdogSources, NEW mode \in Modes, SubmitWatchdogFault(s, mode)
      PROVE  IInv'
  <2> DEFINE i == Opened(s, incidents[s])
  <2>1. s \in Sources /\ i \in Incident /\ FellBack(i) \in Incident /\ FirstAction(i, 2) \in Incident
    BY <1>0, IncidentUpdates DEF Sources
  <2>2. /\ Fresh(<<Request("APPLY_SAFE", s)>>)
        /\ Fresh(<<Request("RECORD_PROCESS_RESTART_INTENT", s)>>)
    BY <2>1, FreshRequests DEF Kinds
  <2>3. \/ Decide("rg1", s, FellBack(i), <<Request("APPLY_SAFE", s)>>)
        \/ Decide("rg1", s, FirstAction(i, 2), <<Request("RECORD_PROCESS_RESTART_INTENT", s)>>)
    BY <1>1 DEF SubmitWatchdogFault
  <2> HIDE DEF i
  <2>4. QED
    BY <2>1, <2>2, <2>3, DecideKeepsIInv DEF Threads
<1>2. ASSUME NEW s \in WatchdogSources, NEW t \in Threads, SubmitWatchdogSuppression(t, s)
      PROVE  IInv'
  <2> DEFINE i == IF incidents[s].active THEN incidents[s] ELSE Opened(s, incidents[s])
  <2>1. s \in Sources /\ i \in Incident /\ RebootPrepared(i) \in Incident
    BY <1>0, IncidentUpdates DEF Sources
  <2>2. Fresh(<<Request("RECORD_REBOOT_INTENT", s)>>)
    BY <2>1, FreshRequests DEF Kinds
  <2>3. Decide(t, s, RebootPrepared(i), <<Request("RECORD_REBOOT_INTENT", s)>>)
    BY <1>2 DEF SubmitWatchdogSuppression
  <2> HIDE DEF i
  <2>4. QED
    BY <2>1, <2>2, <2>3, DecideKeepsIInv
<1>3. ASSUME NEW s \in Sources, NEW t \in Threads, ClearIncident(t, s)
      PROVE  IInv'
  <2>1. Closed(incidents[s]) \in Incident /\ Fresh(<<>>)
    BY <1>0, IncidentUpdates, FreshRequests DEF Kinds
  <2>2. Decide(t, s, Closed(incidents[s]), <<>>)
    BY <1>3 DEF ClearIncident
  <2>3. QED
    BY <2>1, <2>2, DecideKeepsIInv
<1>4. ASSUME NEW s \in SubsystemSources, NEW mode \in Modes, HandleSubsystemFault(s, mode)
      PROVE  IInv'
  <2> DEFINE i == Opened(s, incidents[s])
             first == FirstAction(i, 3)
  <2>1. s \in Sources /\ i \in Incident /\ RebootPrepared(i) \in Incident
    BY <1>0, IncidentUpdates DEF Sources
  <2>2. first \in Incident /\ FellBack(first) \in Incident
    <3> HIDE DEF i
    <3>1. QED
      BY <2>1, IncidentUpdates
  <2>3. /\ Fresh(<<Request("RECORD_REBOOT_INTENT", s)>>)
        /\ Fresh(<<Request("EPS_RESET", s), Request("APPLY_SAFE", s)>>)
        /\ Fresh(<<Request("ADCS_RESET", s), Request("APPLY_SAFE", s)>>)
        /\ Fresh(<<Request("EPS_RESET", s)>>) /\ Fresh(<<Request("ADCS_RESET", s)>>)
        /\ Fresh(<<Request("COMM_FAILOVER", s)>>)
    BY <2>1, FreshRequests DEF Kinds
  <2>4. \/ Decide("rg1", s, RebootPrepared(i), <<Request("RECORD_REBOOT_INTENT", s)>>)
        \/ Decide("rg1", s, FellBack(first), <<Request("EPS_RESET", s), Request("APPLY_SAFE", s)>>)
        \/ Decide("rg1", s, FellBack(first), <<Request("ADCS_RESET", s), Request("APPLY_SAFE", s)>>)
        \/ Decide("rg1", s, first, <<Request("EPS_RESET", s)>>)
        \/ Decide("rg1", s, first, <<Request("ADCS_RESET", s)>>)
        \/ Decide("rg1", s, first, <<Request("COMM_FAILOVER", s)>>)
    BY <1>4, Zenon DEF HandleSubsystemFault
  <2> HIDE DEF i, first
  <2>5. QED
    BY <2>1, <2>2, <2>3, <2>4, DecideKeepsIInv DEF Threads
<1>5. QED
  BY <1>1, <1>2, <1>3, <1>4 DEF Detectors, Sources, Threads

\* The requests one schedIn call issues are fresh.
LEMMA FreshSchedule ==
  ASSUME NEW n \in Nat, NEW q \in [1 .. n -> Sources], NEW a, Fresh(a)
  PROVE  Fresh([k \in 1 .. n |-> Request("RECORD_REBOOT_INTENT", q[k])] \o a)
<1> DEFINE r == [k \in 1 .. n |-> Request("RECORD_REBOOT_INTENT", q[k])]
<1>1. \A k \in 1 .. n : r[k] \in Requests /\ r[k].outcome = "none"
  BY RequestType DEF Kinds
<1>2. r \in Seq(Requests) /\ Len(r) = n
  <2>1. r \in [1 .. n -> Requests]
    BY <1>1
  <2> HIDE DEF r
  <2>2. QED
    BY <2>1
<1>3. a \in Seq(Requests) /\ \A k \in DOMAIN a : a[k].outcome = "none"
  BY DEF Fresh
<1> HIDE DEF r
<1>4. r \o a \in Seq(Requests)
  BY <1>2, <1>3
<1>5. ASSUME NEW k \in DOMAIN (r \o a) PROVE (r \o a)[k].outcome = "none"
  <2>1. CASE k <= n
    <3>1. k \in 1 .. n /\ (r \o a)[k] = r[k]
      BY <1>2, <1>3, <1>5, <2>1
    <3>2. QED
      BY <3>1, <1>1
  <2>2. CASE ~(k <= n)
    <3>1. k - n \in DOMAIN a /\ (r \o a)[k] = a[k - n]
      BY <1>2, <1>3, <1>5, <2>2
    <3>2. QED
      BY <3>1, <1>3
  <2>3. QED
    BY <2>1, <2>2
<1>6. QED
  BY <1>4, <1>5 DEF Fresh, r

\* The cycle that ages incidents queues only unanswered requests.
LEMMA SchedInKeepsIInv ==
  ASSUME IInv, SchedIn
  PROVE  IInv'
<1> DEFINE due == IF ExitRequested THEN {} ELSE {s \in Sources : RebootDue(incidents[s])}
           n == Cardinality(due)
           reboots(q) == [k \in 1 .. n |-> Request("RECORD_REBOOT_INTENT", q[k])]
<1>1. due \subseteq Sources /\ n \in Nat
  <2>1. due \subseteq Sources
    OBVIOUS
  <2> HIDE DEF due
  <2>2. IsFiniteSet(Sources)
    BY RecoveryAssumption
  <2>3. IsFiniteSet(due)
    BY <2>1, <2>2, FS_Subset
  <2>4. QED
    BY <2>1, <2>3, FS_CardinalityType
<1>2. PICK q \in [1 .. n -> due], a \in {<<AckRequest>>, <<>>} :
        todo' = [todo EXCEPT !["rg1"] = reboots(q) \o a]
  BY DEF SchedIn
<1>3. Fresh(reboots(q) \o a)
  <2>1. q \in [1 .. n -> Sources]
    BY <1>1
  <2>2. Fresh(a)
    <3>1. Fresh(<<>>) /\ Fresh(<<AckRequest>>)
      BY AckRequestType DEF Fresh
    <3>2. QED
      BY <1>2, <3>1
  <2>3. QED
    BY <1>1, <2>1, <2>2, FreshSchedule
<1>4. UNCHANGED <<processRestartRequested, rebootRequested, exit, stableAcked, boot>>
  BY DEF SchedIn
<1>5. todo' \in [Threads -> Seq(Requests)] /\ AnswersAreDurable'
  <2> HIDE DEF reboots
  <2>1. Carried("rg1", reboots(q) \o a)
    BY <1>3 DEF Fresh, Carried
  <2>2. QED
    BY <1>2, <1>4, <2>1, CarriedKeepsAnswers DEF Threads
<1>6. incidents' \in [Sources -> Incident]
  <2>1. \A s \in Sources : incidents[s] \in Incident /\ Ticked(incidents[s]) \in Incident
    BY IncidentUpdates DEF IInv, TypeOK
  <2>2. incidents \in [Sources -> Incident]
    BY DEF IInv, TypeOK
  <2>3. incidents' = IF ExitRequested THEN incidents ELSE [s \in Sources |-> Ticked(incidents[s])]
    BY DEF SchedIn
  <2>4. QED
    BY <2>1, <2>2, <2>3
<1>7. stableTicks' \in 0 .. StableAckTicks
  <2>1. stableTicks \in 0 .. StableAckTicks
    BY DEF IInv, TypeOK
  <2>2. PICK b \in BOOLEAN :
          stableTicks' = IF b THEN IF stableTicks < StableAckTicks THEN stableTicks + 1 ELSE stableTicks
                         ELSE IF Quiet THEN stableTicks ELSE 0
    BY Zenon DEF SchedIn, IInv, TypeOK
  <2>3. QED
    BY <2>1, <2>2, RecoveryAssumption
<1>8. bootClampApplied' \in BOOLEAN
  BY DEF SchedIn
<1>9. TypeOK'
  BY <1>4, <1>5, <1>6, <1>7, <1>8 DEF IInv, TypeOK
<1>10. ExitIsDurable'
  BY <1>4 DEF IInv, ExitIsDurable, ExitRequested
<1>11. QED
  BY <1>5, <1>9, <1>10 DEF IInv

\* An intent is answered "ok" only in the step that persists it.
LEMMA CallKeepsIInv ==
  ASSUME IInv, NEW t \in Threads, NEW outcome \in {"ok", "failed"}, Call(t, outcome)
  PROVE  IInv'
<1> DEFINE head == todo[t][1]
           answered == [head EXCEPT !.outcome = outcome]
           q == [todo[t] EXCEPT ![1] = answered]
<1>1. /\ todo[t] \in Seq(Requests) /\ todo[t] # <<>> /\ 1 \in DOMAIN todo[t]
      /\ head \in Requests /\ head.kind \in External
      /\ todo' = [todo EXCEPT ![t] = q]
  <2>1. todo \in [Threads -> Seq(Requests)] /\ todo[t] # <<>> /\ head.kind \in External
    BY DEF Call, IInv, TypeOK
  <2>2. todo' = [todo EXCEPT ![t] = q]
    BY DEF Call, Answered
  <2>3. QED
    BY <2>1, <2>2, TailOfTodo DEF IInv
<1>2. answered \in Requests /\ answered.kind = head.kind /\ answered.outcome = outcome
  BY <1>1 DEF Requests, Outcomes
<1>3. q \in Seq(Requests) /\ DOMAIN q = DOMAIN todo[t]
  BY <1>1, <1>2
<1>4. /\ boot \in BootRecord
      /\ \/ boot' = boot
         \/ boot' = [boot EXCEPT !.resetPending = TRUE, !.level = 2]
         \/ boot' = [boot EXCEPT !.resetPending = TRUE, !.level = 6]
         \/ boot' = [boot EXCEPT !.recovered = FALSE, !.safeFallbackRequired = FALSE]
  BY <1>1 DEF Call, IInv, TypeOK, External
<1>5. boot' \in BootRecord /\ (boot.resetPending => boot'.resetPending)
  BY <1>4 DEF BootRecord, Levels
<1>6. head.kind \in Recording /\ outcome = "ok" => boot'.resetPending
  BY <1>4 DEF Call, Recording, BootRecord
<1>7. todo' \in [Threads -> Seq(Requests)]
  BY <1>1, <1>3 DEF IInv, TypeOK
<1>8. AnswersAreDurable'
  <2> SUFFICES ASSUME NEW u \in Threads, NEW k \in DOMAIN todo'[u],
                      todo'[u][k].kind \in Recording, todo'[u][k].outcome = "ok"
               PROVE  boot'.resetPending
    BY DEF AnswersAreDurable
  <2>1. CASE u = t /\ k = 1
    <3>1. todo'[u][k] = answered
      BY <1>1, <2>1 DEF IInv, TypeOK
    <3>2. QED
      BY <1>2, <1>6, <3>1
  <2>2. CASE ~(u = t /\ k = 1)
    <3>1. k \in DOMAIN todo[u] /\ todo'[u][k] = todo[u][k]
      BY <1>1, <1>3, <2>2 DEF IInv, TypeOK
    <3>2. QED
      BY <1>5, <3>1 DEF IInv, AnswersAreDurable
  <2>3. QED
    BY <2>1, <2>2
<1>9. /\ UNCHANGED <<incidents, processRestartRequested, rebootRequested, exit,
                     bootClampApplied, stableTicks, stableAcked>>
  BY DEF Call
<1>10. TypeOK' /\ ExitIsDurable'
  BY <1>5, <1>7, <1>9 DEF IInv, TypeOK, ExitIsDurable, ExitRequested
<1>11. QED
  BY <1>8, <1>10 DEF IInv

\* The exit flags are raised only for an answered, hence durable, intent.
LEMMA FinishKeepsIInv ==
  ASSUME IInv, NEW t \in Threads, NEW mode,
         FinishPlain(t) \/ FinishReboot(t) \/ FinishAck(t)
           \/ FinishCommFailover(t, mode) \/ FinishProcessRestart(t, mode)
  PROVE  IInv'
<1> DEFINE s == todo[t][1].source
<1>1. todo[t] # <<>> /\ todo[t][1] \in Requests /\ 1 \in DOMAIN todo[t]
      /\ \A i \in Sources : incidents[i] \in Incident
  BY TailOfTodo DEF IInv, TypeOK, FinishPlain, FinishReboot, FinishAck, FinishCommFailover,
                    FinishProcessRestart, Returned
<1>2. /\ \/ Done(t) 
         \/ s \in Sources /\ todo' = [todo EXCEPT ![t] = Append(Tail(todo[t]), Request("APPLY_SAFE", s))]
      /\ boot' = boot
  BY <1>1, HeadSource
     DEF FinishPlain, FinishReboot, FinishAck, FinishCommFailover,
         FinishProcessRestart, FallBackAfter, IInv, Kinds
<1>3. todo' \in [Threads -> Seq(Requests)] /\ AnswersAreDurable'
  BY <1>1, <1>2, DoneIsCarried, FollowUpIsCarried, CarriedKeepsAnswers DEF IInv, Done
<1>4. incidents' \in [Sources -> Incident]
  <2>1. \/ incidents' = incidents
        \/ /\ s \in Sources
           /\ \/ incidents' = [incidents EXCEPT ![s] = FellBack(incidents[s])]
              \/ incidents' = [incidents EXCEPT ![s] = [incidents[s] EXCEPT !.processRestartPending = TRUE]]
              \/ incidents' = [incidents EXCEPT ![s] = [incidents[s] EXCEPT !.rebootPending = TRUE]]
    BY <1>1, HeadSource
       DEF FinishPlain, FinishReboot, FinishAck, FinishCommFailover,
           FinishProcessRestart, FallBackAfter, IInv, Kinds
  <2>2. s \in Sources => /\ FellBack(incidents[s]) \in Incident
                         /\ [incidents[s] EXCEPT !.processRestartPending = TRUE] \in Incident
                         /\ [incidents[s] EXCEPT !.rebootPending = TRUE] \in Incident
    BY <1>1, IncidentUpdates
  <2>3. incidents \in [Sources -> Incident]
    BY DEF IInv, TypeOK
  <2> HIDE DEF s
  <2>4. QED
    BY <2>1, <2>2, <2>3, Zenon
<1>5. exit' = exit /\ bootClampApplied' = bootClampApplied
  BY DEF FinishPlain, FinishReboot, FinishAck, FinishCommFailover, FinishProcessRestart
<1>6. /\ stableTicks' \in 0 .. StableAckTicks /\ stableAcked' \in BOOLEAN
      /\ processRestartRequested' \in BOOLEAN /\ rebootRequested' \in BOOLEAN
  <2>1. stableTicks' = stableTicks \/ stableTicks' = 0
    BY DEF FinishPlain, FinishReboot, FinishAck, FinishCommFailover, FinishProcessRestart
  <2>2. /\ stableAcked' = stableAcked \/ stableAcked' = TRUE
        /\ processRestartRequested' = processRestartRequested \/ processRestartRequested' = TRUE
        /\ rebootRequested' = rebootRequested \/ rebootRequested' = (rebootRequested \/ RequestsRuntimeExit(s))
    BY DEF FinishPlain, FinishReboot, FinishAck, FinishCommFailover, FinishProcessRestart
  <2>3. stableTicks' \in 0 .. StableAckTicks
    BY <2>1, RecoveryAssumption DEF IInv, TypeOK
  <2>4. /\ stableAcked' \in BOOLEAN /\ processRestartRequested' \in BOOLEAN
        /\ rebootRequested' \in BOOLEAN
    BY <2>2, Zenon DEF IInv, TypeOK
  <2>5. QED
    BY <2>3, <2>4
<1>7. ExitIsDurable'
  <2>1. \/ /\ todo[t][1].kind \in Recording /\ todo[t][1].outcome = "ok"
        \/ UNCHANGED <<processRestartRequested, rebootRequested>>
    BY DEF FinishPlain, FinishReboot, FinishAck, FinishCommFailover, FinishProcessRestart,
           Returned, Recording
  <2>2. QED
    BY <1>1, <1>2, <1>5, <2>1 DEF IInv, AnswersAreDurable, ExitIsDurable, ExitRequested
<1>8. TypeOK'
  <2>1. exit' \in {"NONE", "PROCESS_RESTART", "OBC_REBOOT"} /\ bootClampApplied' \in BOOLEAN
    BY <1>5 DEF IInv, TypeOK
  <2>2. boot' \in BootRecord
    BY <1>2 DEF IInv, TypeOK
  <2>3. QED
    BY <1>3, <1>4, <1>6, <2>1, <2>2 DEF TypeOK
<1>9. QED
  BY <1>3, <1>7, <1>8 DEF IInv

\* The main loop turns a raised flag into an exit and closes the incidents.
LEMMA ConsumeKeepsIInv ==
  ASSUME IInv, Consume
  PROVE  IInv'
<1>1. incidents' \in [Sources -> Incident]
  BY IncidentUpdates DEF Consume, IInv, TypeOK
<1>2. /\ UNCHANGED <<bootClampApplied, stableTicks, stableAcked, todo, boot>>
      /\ exit' \in {"PROCESS_RESTART", "OBC_REBOOT"}
      /\ processRestartRequested' \in BOOLEAN /\ rebootRequested' \in BOOLEAN
      /\ rebootRequested \/ processRestartRequested
  BY DEF Consume, IInv, TypeOK
<1>3. TypeOK'
  BY <1>1, <1>2 DEF IInv, TypeOK
<1>4. AnswersAreDurable'
  BY <1>2 DEF IInv, AnswersAreDurable
<1>5. ExitIsDurable'
  BY <1>2 DEF IInv, ExitIsDurable, ExitRequested
<1>6. QED
  BY <1>3, <1>4, <1>5 DEF IInv

\* Every step of the executor keeps the invariant.
LEMMA NextIInv == IInv /\ [Next]_vars => IInv'
<1> SUFFICES ASSUME IInv, [Next]_vars PROVE IInv'
  OBVIOUS
<1>1. CASE Detectors
  BY <1>1, DetectorsKeepIInv
<1>2. CASE SchedIn
  BY <1>2, SchedInKeepsIInv
<1>3. ASSUME NEW t \in Threads, Execute(t) PROVE IInv'
  <2>1. CASE \E outcome \in {"ok", "failed"} : Call(t, outcome)
    BY <2>1, CallKeepsIInv
  <2>2. CASE FinishPlain(t) \/ FinishReboot(t) \/ FinishAck(t)
    BY <2>2, FinishKeepsIInv
  <2>3. CASE \E mode \in Modes : FinishCommFailover(t, mode) \/ FinishProcessRestart(t, mode)
    BY <2>3, FinishKeepsIInv
  <2>4. QED
    BY <1>3, <2>1, <2>2, <2>3 DEF Execute
<1>4. CASE Consume
  BY <1>4, ConsumeKeepsIInv
<1>5. CASE UNCHANGED vars
  BY <1>5 DEF vars, IInv, TypeOK, AnswersAreDurable, ExitIsDurable, ExitRequested
<1>6. QED
  BY <1>1, <1>2, <1>3, <1>4, <1>5 DEF Next

\* Incidents, requests and metadata keep their shapes.
THEOREM TypeCorrect == Spec => []TypeOK
<1>1. Spec => []IInv
  BY InitIInv, NextIInv, PTL DEF Spec
<1>2. QED
  BY <1>1, PTL DEF IInv

\* However the rate group, the command thread and the main loop interleave, and
\* whichever metadata writes fail, no recovery exit precedes its durable intent.
THEOREM DurableBeforeExit == Spec => []ExitIsDurable
<1>1. Spec => []IInv
  BY InitIInv, NextIInv, PTL DEF Spec
<1>2. QED
  BY <1>1, PTL DEF IInv
-----------------------------------------------------------------------------
(* RebootExitNeedsSubsystem. *)

\* A step that neither records a reboot nor consumes one leaves the equivalence
\* alone: it keeps rebootRequested and every subsystem's rebootPending flag.
LEMMA UntouchedReboots ==
  ASSUME RebootExitNeedsSubsystem, rebootRequested' = rebootRequested,
         \A s \in SubsystemSources : incidents'[s].rebootPending = incidents[s].rebootPending
  PROVE  RebootExitNeedsSubsystem'
BY Zenon DEF RebootExitNeedsSubsystem

\* An incident that Decide replaces keeps or loses its flag only if no reboot
\* is requested.
LEMMA DecideKeepsReboots ==
  ASSUME TypeOK, RebootExitNeedsSubsystem, NEW t \in Threads, NEW s \in Sources,
         NEW i, NEW q, Decide(t, s, i, q),
         s \in SubsystemSources => i.rebootPending = incidents[s].rebootPending
  PROVE  RebootExitNeedsSubsystem'
<1>1. rebootRequested' = rebootRequested /\ incidents' = [incidents EXCEPT ![s] = i]
  BY DEF Decide
<1>2. ASSUME NEW u \in SubsystemSources
      PROVE  incidents'[u].rebootPending = incidents[u].rebootPending
  BY <1>1 DEF TypeOK, Sources
<1>3. QED
  BY <1>1, <1>2, UntouchedReboots

\* What the incident updates do to the flag.
LEMMA FlagUpdates ==
  ASSUME NEW s, NEW i \in Incident
  PROVE  /\ Opened(s, i).rebootPending = FALSE
         /\ Closed(i).rebootPending = i.rebootPending
         /\ FellBack(i).rebootPending = i.rebootPending
         /\ FirstAction(i, 3).rebootPending = i.rebootPending
         /\ RebootPrepared(i).rebootPending = i.rebootPending
         /\ Ticked(i).rebootPending = i.rebootPending
BY DEF Incident, Opened, Closed, FellBack, FirstAction, RebootPrepared, Ticked

\* A subsystem incident is reopened only when no reboot is requested, and then
\* in hardware-watchdog mode none is pending.
LEMMA NoneRequestedNonePending ==
  ASSUME TypeOK, RebootExitNeedsSubsystem, HardwareWatchdogMode, ~ExitRequested,
         NEW s \in SubsystemSources
  PROVE  incidents[s].rebootPending = FALSE
<1>1. incidents[s].rebootPending \in BOOLEAN
  BY DEF TypeOK, Sources, Incident
<1>2. QED
  BY <1>1 DEF RebootExitNeedsSubsystem, ExitRequested

\* In hardware-watchdog mode handleSubsystemFault_ prepares reboots for
\* subsystem sources only.
LEMMA HandleSubsystemFaultKeepsReboots ==
  ASSUME TypeOK, RebootExitNeedsSubsystem, HardwareWatchdogMode,
         NEW s \in SubsystemSources, NEW mode, HandleSubsystemFault(s, mode)
  PROVE  RebootExitNeedsSubsystem'
<1> DEFINE i == Opened(s, incidents[s])
           first == FirstAction(i, 3)
<1>1. s \in Sources /\ incidents[s] \in Incident
  BY DEF TypeOK, Sources
<1>2. i \in Incident /\ first \in Incident
  <2>1. i \in Incident
    BY <1>1, IncidentUpdates
  <2> HIDE DEF i
  <2>2. QED
    BY <1>1, <2>1, IncidentUpdates
<1>3. i.rebootPending = FALSE
  BY <1>1, FlagUpdates
<1>4. /\ RebootPrepared(i).rebootPending = FALSE /\ first.rebootPending = FALSE
      /\ FellBack(first).rebootPending = FALSE
  <2>1. first.rebootPending = FALSE /\ RebootPrepared(i).rebootPending = FALSE
    <3> HIDE DEF i
    <3>1. QED
      BY <1>2, <1>3, FlagUpdates
  <2> HIDE DEF first
  <2>2. FellBack(first).rebootPending = first.rebootPending
    BY <1>2, FlagUpdates
  <2>3. QED
    BY <2>1, <2>2
<1>5. incidents[s].rebootPending = FALSE
  BY NoneRequestedNonePending DEF HandleSubsystemFault
<1>6. \E j \in {RebootPrepared(i), first, FellBack(first)}, q \in
         {<<Request("RECORD_REBOOT_INTENT", s)>>, <<Request("COMM_FAILOVER", s)>>,
          <<Request("EPS_RESET", s), Request("APPLY_SAFE", s)>>, <<Request("EPS_RESET", s)>>,
          <<Request("ADCS_RESET", s), Request("APPLY_SAFE", s)>>, <<Request("ADCS_RESET", s)>>} :
        Decide("rg1", s, j, q)
  BY Zenon DEF HandleSubsystemFault
<1> HIDE DEF i, first
<1>7. QED
  BY <1>1, <1>4, <1>5, <1>6, DecideKeepsReboots DEF Threads

\* In hardware-watchdog mode no entry point makes a watchdog source reboot.
LEMMA DetectorsKeepReboots ==
  ASSUME TypeOK, RebootExitNeedsSubsystem, HardwareWatchdogMode, Detectors
  PROVE  RebootExitNeedsSubsystem'
<1>1. WatchdogSources \cap SubsystemSources = {} /\ "rg1" \in Threads
  BY RecoveryAssumption DEF Threads
<1>2. ASSUME NEW s \in WatchdogSources, NEW t \in Threads, NEW i, NEW q, Decide(t, s, i, q)
      PROVE  RebootExitNeedsSubsystem'
  BY <1>1, <1>2, DecideKeepsReboots DEF Sources
<1>3. CASE \E s \in WatchdogSources, mode \in Modes : SubmitWatchdogFault(s, mode)
  BY <1>1, <1>2, <1>3, Zenon DEF SubmitWatchdogFault
<1>4. ASSUME NEW s \in WatchdogSources, NEW t \in Threads,
             SubmitWatchdogSuppression(t, s) \/ ClearIncident(t, s)
      PROVE  RebootExitNeedsSubsystem'
  BY <1>2, <1>4, Zenon DEF SubmitWatchdogSuppression, ClearIncident
<1>5. CASE \E s \in SubsystemSources, mode \in Modes : HandleSubsystemFault(s, mode)
  BY <1>5, HandleSubsystemFaultKeepsReboots
<1>6. ASSUME NEW s \in SubsystemSources, ClearIncident("rg1", s)
      PROVE  RebootExitNeedsSubsystem'
  <2>1. s \in Sources /\ Closed(incidents[s]).rebootPending = incidents[s].rebootPending
    BY FlagUpdates DEF TypeOK, Sources
  <2>2. QED
    BY <1>1, <1>6, <2>1, DecideKeepsReboots DEF ClearIncident
<1>7. QED
  BY <1>3, <1>4, <1>5, <1>6 DEF Detectors

\* schedIn and the calls out of the lock record no reboot; the locked part of
\* RECORD_REBOOT_INTENT sets both sides together, and consuming clears both.
LEMMA OthersKeepReboots ==
  ASSUME TypeOK, RebootExitNeedsSubsystem, HardwareWatchdogMode,
         SchedIn \/ (\E t \in Threads : Execute(t)) \/ Consume
  PROVE  RebootExitNeedsSubsystem'
<1>1. CASE SchedIn
  <2>1. rebootRequested' = rebootRequested
    BY <1>1 DEF SchedIn
  <2>2. ASSUME NEW s \in SubsystemSources
        PROVE  incidents'[s].rebootPending = incidents[s].rebootPending
    <3>1. s \in Sources /\ Ticked(incidents[s]).rebootPending = incidents[s].rebootPending
      BY FlagUpdates DEF TypeOK, Sources
    <3>2. incidents' = incidents \/ incidents' = [u \in Sources |-> Ticked(incidents[u])]
      BY <1>1 DEF SchedIn
    <3>3. QED
      BY <3>1, <3>2
  <2>3. QED
    BY <2>1, <2>2, UntouchedReboots
<1>2. ASSUME NEW t \in Threads, Execute(t) PROVE RebootExitNeedsSubsystem'
  <2> DEFINE s == todo[t][1].source
  <2>1. CASE \/ (\E outcome \in {"ok", "failed"} : Call(t, outcome))
             \/ FinishPlain(t) \/ FinishAck(t)
    BY <2>1, UntouchedReboots DEF Call, FinishPlain, FinishAck
  <2>2. CASE FinishReboot(t)
    <3>1. CASE UNCHANGED <<incidents, rebootRequested>>
      BY <3>1, UntouchedReboots
    <3>2. CASE /\ incidents' = [incidents EXCEPT ![s] = [incidents[s] EXCEPT !.rebootPending = TRUE]]
               /\ rebootRequested' = (rebootRequested \/ RequestsRuntimeExit(s))
               /\ s \in Sources
      <4>1. \A u \in Sources : incidents[u] \in Incident
        BY DEF TypeOK
      <4>2. ASSUME NEW u \in Sources
            PROVE  incidents'[u].rebootPending = (IF u = s THEN TRUE ELSE incidents[u].rebootPending)
        BY <3>2, <4>1 DEF TypeOK, Incident
      <4>3. RequestsRuntimeExit(s) <=> s \in SubsystemSources
        BY <3>2, RecoveryAssumption DEF RequestsRuntimeExit, Sources
      <4> HIDE DEF s
      <4>4. QED
        BY <3>2, <4>2, <4>3 DEF RebootExitNeedsSubsystem, Sources, TypeOK
    <3>3. todo[t][1] \in Requests /\ (todo[t][1].kind = "RECORD_REBOOT_INTENT" => s \in Sources)
      BY <2>2 DEF FinishReboot, Returned, TypeOK, Requests
    <3>4. QED
      BY <2>2, <3>1, <3>2, <3>3 DEF FinishReboot, Returned
  <2>3. ASSUME NEW mode \in Modes, FinishCommFailover(t, mode) \/ FinishProcessRestart(t, mode)
        PROVE  RebootExitNeedsSubsystem'
    <3>1. rebootRequested' = rebootRequested
      BY <2>3 DEF FinishCommFailover, FinishProcessRestart
    <3>2. \/ incidents' = incidents
          \/ incidents' = [incidents EXCEPT ![s] = FellBack(incidents[s])]
          \/ incidents' = [incidents EXCEPT ![s] = [incidents[s] EXCEPT !.processRestartPending = TRUE]]
      BY <2>3 DEF FinishCommFailover, FinishProcessRestart, FallBackAfter
    <3>3. ASSUME NEW u \in SubsystemSources
          PROVE  incidents'[u].rebootPending = incidents[u].rebootPending
      <4>1. u \in Sources /\ incidents[u] \in Incident
        BY DEF TypeOK, Sources
      <4>2. FellBack(incidents[u]).rebootPending = incidents[u].rebootPending
        BY <4>1, FlagUpdates
      <4>3. [incidents[u] EXCEPT !.processRestartPending = TRUE].rebootPending
              = incidents[u].rebootPending
        BY <4>1 DEF Incident
      <4> HIDE DEF s
      <4>4. QED
        BY <3>2, <4>1, <4>2, <4>3 DEF TypeOK
    <3>4. QED
      BY <3>1, <3>3, UntouchedReboots
  <2>4. QED
    BY <1>2, <2>1, <2>2, <2>3 DEF Execute
<1>3. CASE Consume
  <2>1. CASE rebootRequested
    BY <1>3, <2>1 DEF Consume, RebootExitNeedsSubsystem, TypeOK, Sources, Incident
  <2>2. CASE ~rebootRequested
    <3>1. /\ rebootRequested' = rebootRequested
          /\ incidents' = [u \in Sources |-> [incidents[u] EXCEPT !.processRestartPending = FALSE]]
      BY <1>3, <2>2 DEF Consume
    <3>2. \A u \in SubsystemSources : incidents'[u].rebootPending = incidents[u].rebootPending
      BY <3>1 DEF TypeOK, Sources, Incident
    <3>3. QED
      BY <3>1, <3>2, UntouchedReboots
  <2>3. QED
    BY <2>1, <2>2
<1>4. QED
  BY <1>1, <1>2, <1>3

\* In hardware-watchdog mode exit code 32 is requested exactly while some
\* subsystem incident has a recorded reboot (recoveryRebootRequestsRuntimeExit_).
THEOREM RebootExitIsSubsystems == Spec => []RebootExitNeedsSubsystem
<1>1. Init => RebootExitNeedsSubsystem
  BY DEF Init, RebootExitNeedsSubsystem, Sources
<1>2. TypeOK /\ RebootExitNeedsSubsystem /\ [Next]_vars => RebootExitNeedsSubsystem'
  <2> SUFFICES ASSUME TypeOK, RebootExitNeedsSubsystem, [Next]_vars
               PROVE  RebootExitNeedsSubsystem'
    OBVIOUS
  <2>1. CASE ~HardwareWatchdogMode
    BY <2>1 DEF RebootExitNeedsSubsystem
  <2>2. CASE HardwareWatchdogMode /\ Next
    BY <2>2, DetectorsKeepReboots, OthersKeepReboots DEF Next
  <2>3. CASE UNCHANGED vars
    BY <2>3 DEF vars, RebootExitNeedsSubsystem
  <2>4. QED
    BY <2>1, <2>2, <2>3
<1>3. QED
  BY <1>1, <1>2, TypeCorrect, PTL DEF Spec
=============================================================================
