------------------------------ MODULE DeviceBus ------------------------------
(***************************************************************************)
(* The CSP bus between the OBC and its EPS and ADCS nodes.  One worker of  *)
(* CspRuntimeOwner performs every transaction, one at a time and in the    *)
(* order of its queue.  Callers that need the answer at once block on it:  *)
(* ground commands, the TT&C pass and the recovery executor in the first   *)
(* rate group, and the beacon, which holds its own mutex meanwhile.  The   *)
(* scheduled polls of EpsBridge and AdcsBridge do not block: a tick        *)
(* collects the completion of the last poll and submits the next one.  The *)
(* FDIR controllers turn runs of failed polls into recovery incidents.     *)
(* A reply travels on the connection csp_transaction opened for its        *)
(* request, so the sequence number decodeEpsReply compares always matches. *)
(***************************************************************************)
EXTENDS Integers, Sequences, FiniteSets

CONSTANTS EpsCommands,      \* the commands of EpsBridge that are sent
          AdcsCommands,     \* the commands of AdcsBridge that are sent
          MaxHandles,       \* the U64 handles, of which two are in use at a time
          PollPeriod,       \* m_pollPeriodTicks of both bridges
          Threshold,        \* ESCALATION_FAILURE_THRESHOLD
          PingTargets,      \* the nodes CSP_PING is sent to
          MaxCommands,      \* bound: commands, passes and resets
          MaxBeacons,       \* bound: beacons
          MaxFaults         \* bound: faults of the nodes and of the bus, and the stop

ASSUME BusAssumption ==
  /\ MaxHandles \in Nat /\ MaxHandles > 2
  /\ PollPeriod \in Nat \ {0} /\ Threshold \in Nat \ {0}
  /\ PingTargets \subseteq {"EPS", "ADCS"} /\ MaxCommands \in Nat /\ MaxBeacons \in Nat /\ MaxFaults \in Nat \ {0}

VARIABLES owner,      \* CspRuntimeOwner: its queue, worker and completions
          csp,        \* LibCspRuntime: is it initialised
          ready,      \* m_runtimeReady of the transport of each bridge
          node,       \* the EPS and ADCS nodes
          eps, adcs,  \* the two bridges
          fdir,       \* what each FDIR controller has latched
          incidents,  \* the incidents open in the recovery executor
          call,       \* the blocked callers
          rg1,        \* which member the first rate group runs next
          beacon,     \* BeaconPublisher, in the third rate group
          budget      \* what is left of the bounds

vars == <<owner, csp, ready, node, eps, adcs, fdir, incidents, call, rg1, beacon, budget>>

Callers == {"cmd", "rg1", "rg3"}
NoRequest == [kind |-> "NONE"]
Idle == [state |-> "IDLE"]
NoSource == "NONE"
-----------------------------------------------------------------------------
(* CspRuntimeOwner. *)

\* running is m_workerRunning; alive says that the thread is in workerLoop_.
\* queue holds what is accepted and not completed: the worker serves its front.
OwnerInit == [running |-> TRUE, alive |-> TRUE, queue |-> <<>>, done |-> {}]

\* enqueueSyncRequest_ refuses once the worker is being stopped.
EnqueueSync(o, r) == [o EXCEPT !.queue = Append(@, r)]

\* m_nextHandle never comes round: a handle that is in use is never given again.
NextHandle(o) ==
  CHOOSE h \in 1 .. MaxHandles :
    (\A i \in 1 .. Len(o.queue) : o.queue[i].handle # h) /\ (\A c \in o.done : c.handle # h)

\* enqueueAsyncRequest_, after the same test: the request gets the next handle.
EnqueueAsync(o, r) == [o EXCEPT !.queue = Append(@, [r EXCEPT !.handle = NextHandle(o)])]

\* submitAsyncRequestReply of a scheduled poll.
PollRequest(n) == [kind |-> "REQUEST_REPLY", node |-> n, service |-> "STATUS", arg |-> "NONE",
                   from |-> "async", handle |-> 0]

\* requestReply, ping, sendRaw, init and shutdown of a blocked caller.
SyncRequest(c, kind, n, service, arg) ==
  [kind |-> kind, node |-> n, service |-> service, arg |-> arg, from |-> c, handle |-> 0]

\* takeAsyncRequestReplyCompletion: what is stored under a handle.
Completion(o, h) == {c \in o.done : c.handle = h}

\* Mutant of WorkerReturns: a stopped worker leaves its queue behind.
WorkerReturnsAtOnce ==
  /\ owner.alive /\ ~owner.running
  /\ owner' = [owner EXCEPT !.alive = FALSE]
  /\ UNCHANGED <<csp, ready, node, eps, adcs, fdir, incidents, call, rg1, beacon, budget>>

\* workerLoop_ returns when it is told to stop and nothing is queued.
WorkerReturns ==
  /\ owner.alive /\ ~owner.running
  /\ owner.queue = <<>>
  /\ owner' = [owner EXCEPT !.alive = FALSE]
  /\ UNCHANGED <<csp, ready, node, eps, adcs, fdir, incidents, call, rg1, beacon, budget>>

\* stopWorkerForRuntime: nothing is accepted from now on.
StopWorker ==
  /\ budget.faults > 0
  /\ owner.running
  /\ owner' = [owner EXCEPT !.running = FALSE]
  /\ budget' = [budget EXCEPT !.faults = @ - 1]
  /\ UNCHANGED <<csp, ready, node, eps, adcs, fdir, incidents, call, rg1, beacon>>
-----------------------------------------------------------------------------
(* The nodes. *)

\* EpsSimModel::loadDefaults_ and AdcsSimModel::loadDefaults_.
\* One bit stands for the settings of the EPS, its rails and its heater.
EpsDefaults == [set |-> FALSE]
AdcsDefaults == [mode |-> "IDLE", valid |-> TRUE]

NodeInit == [EPS  |-> [up |-> TRUE, data |-> EpsDefaults],
             ADCS |-> [up |-> TRUE, data |-> AdcsDefaults]]

\* EpsSimModel::processCspRequest, the state after the request.
EpsProcess(s, service, arg) ==
  CASE service \in {"PDU", "CONFIG"} -> [set |-> TRUE]
    [] service = "RESET"             -> EpsDefaults
    [] OTHER                         -> s

\* AdcsSimModel::processCspRequest.
AdcsProcess(s, service, arg) ==
  CASE service = "MODE"      -> [s EXCEPT !.mode = arg]
    [] service = "CALIBRATE" -> [s EXCEPT !.valid = TRUE]
    [] service = "RESET"     -> AdcsDefaults
    [] OTHER                 -> s

\* A service number or an argument out of range: a PDU channel or a sensor
\* that does not exist.
Rejected(r) == r.arg = "BAD"

\* EpsSimServer::handleConnection_ and AdcsSimServer::handleConnection_, one
\* packet.
Handled(n, r) ==
  IF Rejected(r) THEN n
  ELSE [n EXCEPT !.data = IF r.node = "EPS" THEN EpsProcess(@, r.service, r.arg)
                                            ELSE AdcsProcess(@, r.service, r.arg)]

Result(r) == IF Rejected(r) THEN "INVALID_REQUEST" ELSE "OK"
-----------------------------------------------------------------------------
(* LibCspRuntime, called by processRequest_.  Each operator is the step of   *)
(* the worker up to the completion: after the node has handled the packet    *)
(* the worker only brings the answer home.                                   *)

Outcome(status, result, reply) == [status |-> status, result |-> result, reply |-> reply]
Failure(status) == Outcome(status, "NONE", "NONE")

\* The end of processRequest_: store the completion, or wake the caller.
Completes(r, out) ==
  IF r.from = "async"
    THEN /\ owner' = [owner EXCEPT !.queue = Tail(@), !.done = {c \in @ : c.handle # r.handle}
                                        \cup {[handle |-> r.handle, outcome |-> out]}]
         /\ UNCHANGED call
    ELSE /\ owner' = [owner EXCEPT !.queue = Tail(@)]
         /\ call' = [call EXCEPT ![r.from] = [@ EXCEPT !.state = "DONE", !.outcome = out]]

\* csp_transaction with a node that is up; as a fault the request or the reply
\* is lost.  A status request the node was told not to answer counts as lost.
Transacts(r) ==
  LET n == node[r.node] IN
  \/ /\ node' = [node EXCEPT ![r.node] = Handled(n, r)]
     /\ Completes(r, Outcome("OK", Result(r), Handled(n, r).data))
     /\ UNCHANGED budget
  \/ /\ budget.faults > 0
     /\ node' \in {node, [node EXCEPT ![r.node] = Handled(n, r)]}
     /\ Completes(r, Failure("TIMEOUT"))
     /\ budget' = [budget EXCEPT !.faults = @ - 1]

\* requestReply.
RequestReply(r) ==
  /\ IF csp /\ node[r.node].up THEN Transacts(r)
     ELSE /\ Completes(r, Failure(IF csp THEN "TIMEOUT" ELSE "EXECUTION_ERROR"))
          /\ UNCHANGED <<node, budget>>
  /\ UNCHANGED csp

\* ping: an unanswered ping is a success of the call, with success = false.
Ping(r) ==
  /\ Completes(r, IF csp THEN Outcome("OK", IF node[r.node].up THEN "OK" ELSE "NONE", "NONE")
                         ELSE Failure("EXECUTION_ERROR"))
  /\ UNCHANGED <<csp, node, budget>>

\* sendRaw: nobody answers, the counters of the interface tell whether the
\* packet left.
SendRaw(r) ==
  /\ \/ csp /\ Completes(r, Outcome("OK", "OK", "NONE"))
     \/ Completes(r, Failure("EXECUTION_ERROR"))
  /\ UNCHANGED <<csp, node, budget>>

\* init: a second one with the same configuration changes nothing.
InitRuntime(r) ==
  /\ \/ csp' = TRUE /\ Completes(r, Outcome("OK", "OK", "NONE"))
     \/ ~csp /\ Completes(r, Failure("EXECUTION_ERROR")) /\ UNCHANGED csp
  /\ UNCHANGED <<node, budget>>

ShutdownRuntime(r) ==
  /\ csp' = FALSE
  /\ Completes(r, Outcome("OK", "OK", "NONE"))
  /\ UNCHANGED <<node, budget>>

\* workerLoop_ takes the front of the queue to processRequest_.
WorkerServes ==
  /\ owner.alive /\ owner.queue # <<>>
  /\ LET r == Head(owner.queue) IN
     \/ r.kind = "REQUEST_REPLY" /\ RequestReply(r)
     \/ r.kind = "PING" /\ Ping(r)
     \/ r.kind = "SEND_RAW" /\ SendRaw(r)
     \/ r.kind = "INIT" /\ InitRuntime(r)
     \/ r.kind = "SHUTDOWN" /\ ShutdownRuntime(r)
  /\ UNCHANGED <<ready, eps, adcs, fdir, incidents, rg1, beacon>>
-----------------------------------------------------------------------------
(* EpsBridge. *)

EpsInit == [valid |-> FALSE, status |-> EpsDefaults, lastOk |-> FALSE, fails |-> 0,
            ticks |-> 0, poll |-> 0]

\* decodeEpsReply and decodeAdcsReply, with mapAsyncRuntimeStatus.
Decoded(out) == IF out.status # "OK" THEN out.status ELSE out.result

\* saturatingIncrement_: nothing tells counts above the threshold apart.
Increment(n) == IF n < Threshold THEN n + 1 ELSE n

UpdateCachedStatus(b, s) == [b EXCEPT !.valid = TRUE, !.status = s]
InvalidateCachedStatus(b) == [b EXCEPT !.valid = FALSE]
NotePollSuccess(b) == [b EXCEPT !.lastOk = TRUE, !.fails = 0]

\* Mutant of NotePollFailure: the run of failures is not counted.
NotePollFailureUncounted(b) == [b EXCEPT !.lastOk = FALSE]

NotePollFailure(b) == [b EXCEPT !.lastOk = FALSE, !.fails = Increment(@)]

\* consumeAsyncScheduledStatus_ with the completion in hand.
EpsConsume(b, out) ==
  LET p == [b EXCEPT !.poll = 0] IN
  IF Decoded(out) = "OK" THEN NotePollSuccess(UpdateCachedStatus(p, out.reply))
                         ELSE NotePollFailure(InvalidateCachedStatus(p))

\* submitAsyncScheduledStatus_: a refusal counts as a failed poll.
EpsSubmit(b, o) ==
  IF o.running THEN [b EXCEPT !.poll = NextHandle(o)] ELSE NotePollFailure(InvalidateCachedStatus(b))

\* pollScheduledStatus_ and pollScheduledStateAsync_: otherwise the poll is
\* coalesced with the one in flight.
MaySubmit(b) == b.poll = 0

Submitted(b, o, n) == IF b.ticks = 0 /\ MaySubmit(b) /\ o.running
                        THEN EnqueueAsync(o, PollRequest(n)) ELSE o

\* The completion of the poll of bridge b: none, or a singleton.
Ready(b) == IF b.poll = 0 THEN {} ELSE Completion(owner, b.poll)

\* getStatusForRuntime: a failed refresh drops the cache but is no failed poll.
EpsRefreshed(b, out) ==
  IF Decoded(out) = "OK" THEN UpdateCachedStatus(b, out.reply) ELSE InvalidateCachedStatus(b)

\* setPduForRuntime, setHeaterForRuntime and resetForRuntime.
EpsCommanded(b, out) ==
  IF Decoded(out) = "OK" THEN UpdateCachedStatus(b, out.reply) ELSE b
-----------------------------------------------------------------------------
(* AdcsBridge. *)

AdcsInit == [valid |-> FALSE, state |-> AdcsDefaults, refreshed |-> FALSE, transport |-> 0,
             stale |-> 0, ticks |-> 0, poll |-> 0]

\* updateCachedState_: a state with sensor_valid = 0 is not cached.
UpdateCachedState(b, s) == IF s.valid THEN [b EXCEPT !.valid = TRUE, !.state = s] ELSE b

NoteTransportFailure(b) ==
  [b EXCEPT !.refreshed = FALSE, !.transport = Increment(@), !.stale = 0]
NoteNoValidRefresh(b) ==
  [b EXCEPT !.refreshed = FALSE, !.transport = 0, !.stale = Increment(@)]

\* Mutant of NoteValidRefresh: only the counters are cleared.
NoteValidRefreshCounters(b) == [b EXCEPT !.transport = 0, !.stale = 0]

NoteValidRefresh(b) == [b EXCEPT !.refreshed = TRUE, !.transport = 0, !.stale = 0]

\* consumeAsyncScheduledState_.
AdcsConsume(b, out) ==
  LET p == [b EXCEPT !.poll = 0] IN
  IF Decoded(out) # "OK" THEN NoteTransportFailure(p)
  ELSE IF out.reply.valid THEN NoteValidRefresh(UpdateCachedState(p, out.reply))
  ELSE NoteNoValidRefresh(p)

\* submitAsyncScheduledState_.
AdcsSubmit(b, o) ==
  IF o.running THEN [b EXCEPT !.poll = NextHandle(o)] ELSE NoteTransportFailure(b)

\* getStateForRuntime, setModeForRuntime, setTargetForRuntime,
\* calibrateForRuntime and resetForRuntime: a failure leaves the cache alone.
AdcsAnswered(b, out) ==
  IF Decoded(out) = "OK" THEN UpdateCachedState(b, out.reply) ELSE b
-----------------------------------------------------------------------------
(* EpsFdirController and AdcsFdirController. *)

EpsSource == "EPS_TIMEOUT"
AdcsSources == {"ADCS_POLL_TRANSPORT", "ADCS_POLL_FRESHNESS"}

\* EpsFdirPolicy::evaluate.
EpsLatched(b, latched) ==
  IF b.lastOk THEN NoSource
  ELSE IF b.fails >= Threshold THEN EpsSource ELSE latched

\* Mutant of AdcsLatched: the latched source gives way to the other failure.
AdcsLatchedCurrent(b, latched) ==
  IF b.refreshed THEN NoSource
  ELSE IF b.transport >= Threshold THEN "ADCS_POLL_TRANSPORT"
  ELSE IF b.stale >= Threshold THEN "ADCS_POLL_FRESHNESS" ELSE latched

\* AdcsFdirPolicy::evaluate: a latched source stays until a valid refresh.
AdcsLatched(b, latched) ==
  IF b.refreshed THEN NoSource
  ELSE IF latched # NoSource THEN latched
  ELSE IF b.transport >= Threshold THEN "ADCS_POLL_TRANSPORT"
  ELSE IF b.stale >= Threshold THEN "ADCS_POLL_FRESHNESS" ELSE NoSource

\* runCycle of EpsFdirController.
EpsReported(open, is) == IF is = NoSource THEN open \ {EpsSource} ELSE open \cup {EpsSource}

\* runCycle of AdcsFdirController, with submitFault_ and clearFault_.
AdcsReported(open, was, is) ==
  IF is = was THEN open ELSE IF is # NoSource THEN open \cup {is} ELSE open \ {was}

\* schedIn_handler of EpsBridge, then of EpsFdirController, whose inputs only
\* the rate group changes.
EpsTick ==
  LET c == Ready(eps)
      b == IF c = {} THEN eps ELSE EpsConsume(eps, (CHOOSE x \in c : TRUE).outcome)
      o == [owner EXCEPT !.done = @ \ c]
      source == EpsLatched(eps', fdir.eps)
  IN
  /\ rg1 = "eps"
  /\ eps' = IF b.ticks > 0 THEN [b EXCEPT !.ticks = @ - 1]
            ELSE [(IF MaySubmit(b) THEN EpsSubmit(b, o) ELSE b) EXCEPT !.ticks = PollPeriod - 1]
  /\ owner' = Submitted(b, o, "EPS")
  /\ fdir' = [fdir EXCEPT !.eps = source]
  /\ incidents' = EpsReported(incidents, source)
  /\ rg1' = "adcs"
  /\ UNCHANGED <<csp, ready, node, adcs, call, beacon, budget>>

\* schedIn_handler of AdcsBridge, then of AdcsFdirController.
AdcsTick ==
  LET c == Ready(adcs)
      b == IF c = {} THEN adcs ELSE AdcsConsume(adcs, (CHOOSE x \in c : TRUE).outcome)
      o == [owner EXCEPT !.done = @ \ c]
      source == AdcsLatched(adcs', fdir.adcs)
  IN
  /\ rg1 = "adcs"
  /\ adcs' = IF b.ticks > 0 THEN [b EXCEPT !.ticks = @ - 1]
             ELSE [(IF MaySubmit(b) THEN AdcsSubmit(b, o) ELSE b) EXCEPT !.ticks = PollPeriod - 1]
  /\ owner' = Submitted(b, o, "ADCS")
  /\ fdir' = [fdir EXCEPT !.adcs = source]
  /\ incidents' = AdcsReported(incidents, fdir.adcs, source)
  /\ rg1' = "comm"
  /\ UNCHANGED <<csp, ready, node, eps, call, beacon, budget>>
-----------------------------------------------------------------------------
(* Blocking callers: ping, sendRaw, requestReply, init and shutdown of the  *)
(* owner wait on a condition variable until the worker has the outcome.     *)

\* ensureRuntime_ of EpsTransport and AdcsTransport: the first request of a
\* transport initialises a runtime whose start-up initialisation failed.
NeedsRuntime(r) == r.kind = "REQUEST_REPLY" /\ ~ready[r.node] /\ ~csp

InitRequest(c) == SyncRequest(c, "INIT", "NONE", "NONE", "NONE")

\* enqueueSyncRequest_ takes the request, or refuses it because the worker is
\* being stopped; goal is what the caller is after.
Asks(c, r, goal) ==
  /\ owner' = IF owner.running THEN EnqueueSync(owner, r) ELSE owner
  /\ call' = [call EXCEPT ![c] =
                 IF owner.running
                   THEN [state |-> "WAIT", request |-> r, goal |-> goal, outcome |-> NoRequest]
                   ELSE [state |-> "DONE", request |-> r, goal |-> goal,
                         outcome |-> Failure("EXECUTION_ERROR")]]

Calls(c, r) ==
  /\ call[c] = Idle
  /\ Asks(c, IF NeedsRuntime(r) THEN InitRequest(c) ELSE r, r)
  /\ ready' = IF r.kind = "REQUEST_REPLY" THEN [ready EXCEPT ![r.node] = @ \/ csp] ELSE ready

Answered(c) == call[c] # Idle /\ call[c].state = "DONE"

\* request_ after ensureRuntime_ has initialised the runtime, or has failed to.
RuntimeEnsured(c) ==
  LET goal == call[c].goal IN
  /\ Answered(c) /\ call[c].request # goal
  /\ IF call[c].outcome.status = "OK"
       THEN Asks(c, goal, goal) /\ ready' = [ready EXCEPT ![goal.node] = TRUE]
       ELSE /\ call' = [call EXCEPT ![c] = [@ EXCEPT !.request = goal]]
            /\ UNCHANGED <<owner, ready>>
  /\ UNCHANGED <<csp, node, eps, adcs, fdir, incidents, rg1, beacon, budget>>

\* The caller is woken and its component uses the answer.
Returns(c) ==
  LET r == call[c].request
      out == call[c].outcome
  IN
  /\ Answered(c) /\ r = call[c].goal
  /\ call' = [call EXCEPT ![c] = Idle]
  /\ eps' = IF r.kind # "REQUEST_REPLY" \/ r.node # "EPS" THEN eps
            ELSE IF r.service = "STATUS" THEN EpsRefreshed(eps, out) ELSE EpsCommanded(eps, out)
  /\ adcs' = IF r.kind # "REQUEST_REPLY" \/ r.node # "ADCS" THEN adcs
             ELSE AdcsAnswered(adcs, out)

\* The commands of EpsBridge, of AdcsBridge and of CspBridge.
EpsServices == {<<"STATUS", "NONE">>, <<"PDU", "ON">>, <<"PDU", "BAD">>, <<"CONFIG", "ON">>,
                <<"RESET", "NONE">>}
AdcsServices == {<<"STATUS", "NONE">>, <<"TARGET", "NONE">>, <<"CALIBRATE", "NONE">>,
                 <<"CALIBRATE", "BAD">>, <<"MODE", "IDLE">>, <<"MODE", "POINTING">>}

EpsCommand(c) == Calls("cmd", SyncRequest("cmd", "REQUEST_REPLY", "EPS", c[1], c[2]))
AdcsCommand(c) == Calls("cmd", SyncRequest("cmd", "REQUEST_REPLY", "ADCS", c[1], c[2]))

\* pingForRuntime, sendRawForRuntime, initForRuntime, and shutdownForRuntime
\* when the process ends: the runtime stays down.
CspPing(n) == Calls("cmd", SyncRequest("cmd", "PING", n, "NONE", "NONE"))
CspSendRaw == Calls("cmd", SyncRequest("cmd", "SEND_RAW", "COMM", "NONE", "NONE"))
CspInit == Calls("cmd", InitRequest("cmd"))
CspShutdown == Calls("cmd", SyncRequest("cmd", "SHUTDOWN", "NONE", "NONE", "NONE"))

CommandStarts ==
  /\ budget.commands > 0
  /\ \/ \E c \in EpsCommands : EpsCommand(c)
     \/ \E c \in AdcsCommands : AdcsCommand(c)
     \/ \E n \in PingTargets : CspPing(n)
     \/ CspSendRaw \/ CspInit \/ CspShutdown
  /\ budget' = [budget EXCEPT !.commands = @ - 1]
  /\ UNCHANGED <<csp, node, eps, adcs, fdir, incidents, rg1, beacon>>

CommandReturns ==
  /\ Returns("cmd")
  /\ UNCHANGED <<ready, owner, csp, node, fdir, incidents, rg1, beacon, budget>>
-----------------------------------------------------------------------------
(* The first rate group after the FDIR controllers. *)

\* Mutant of Suppresses: the flag is set without m_runtimeMutex.
SuppressesUnlocked(on) ==
  beacon' = [beacon EXCEPT !.suppressed = on]

\* setUhfBeaconSuppressedForRuntime waits for the mutex.
Suppresses(on) ==
  /\ ~beacon.locked
  /\ beacon' = [beacon EXCEPT !.suppressed = on]

\* schedIn_handler of CommController, which suppresses the beacon while an
\* S-band session lives.
CommTick ==
  /\ rg1 = "comm" /\ budget.commands > 0
  /\ rg1' = "suppress"
  /\ budget' = [budget EXCEPT !.commands = @ - 1]
  /\ UNCHANGED <<owner, csp, ready, node, eps, adcs, fdir, incidents, call, beacon>>

CommSuppresses ==
  /\ rg1 = "suppress"
  /\ Suppresses(~beacon.suppressed)
  /\ rg1' = "ttc"
  /\ UNCHANGED <<owner, csp, ready, node, eps, adcs, fdir, incidents, call, budget>>

\* schedIn_handler of TtcPassManager: requestPointingForTtcEntry when it enters
\* a pass, otherwise nothing on the bus.
TtcTick ==
  /\ rg1 \in {"comm", "ttc"} /\ budget.commands > 0
  /\ Calls("rg1", SyncRequest("rg1", "REQUEST_REPLY", "ADCS", "MODE", "POINTING"))
  /\ budget' = [budget EXCEPT !.commands = @ - 1]
  /\ rg1' = "recovery"
  /\ UNCHANGED <<csp, node, eps, adcs, fdir, incidents, beacon>>

\* schedIn_handler of RecoveryExecutor, which may reset the device of an open
\* incident: resetEpsForRecovery, resetAdcsForRecovery.
RecoveryTick ==
  /\ rg1 \in {"comm", "ttc", "recovery"} /\ budget.commands > 0
  /\ \E n \in {IF i = EpsSource THEN "EPS" ELSE "ADCS" : i \in incidents} :
       Calls("rg1", SyncRequest("rg1", "REQUEST_REPLY", n, "RESET", "NONE"))
  /\ budget' = [budget EXCEPT !.commands = @ - 1]
  /\ rg1' = "end"
  /\ UNCHANGED <<csp, node, eps, adcs, fdir, incidents, beacon>>

\* The members that are left have nothing to do on the bus in this cycle.
CycleEnds ==
  /\ rg1 \notin {"eps", "adcs", "suppress"} /\ call["rg1"] = Idle
  /\ rg1' = "eps"
  /\ UNCHANGED <<owner, csp, ready, node, eps, adcs, fdir, incidents, call, beacon, budget>>

RateGroupReturns ==
  /\ Returns("rg1")
  /\ UNCHANGED rg1
  /\ UNCHANGED <<ready, owner, csp, node, fdir, incidents, beacon, budget>>
-----------------------------------------------------------------------------
(* The third rate group: of its members only BeaconPublisher uses the bus.   *)

\* The ticks left to the next beacon are not kept: any tick may be the one.
BeaconInit == [suppressed |-> FALSE, locked |-> FALSE]

\* schedIn_handler of BeaconPublisher when a beacon is due and is not
\* suppressed: sendBeacon, under the mutex, waits for sendRaw of the owner.
BeaconSends ==
  /\ budget.beacons > 0
  /\ ~beacon.locked /\ ~beacon.suppressed
  /\ Calls("rg3", SyncRequest("rg3", "SEND_RAW", "COMM", "NONE", "NONE"))
  /\ beacon' = [beacon EXCEPT !.locked = TRUE]
  /\ budget' = [budget EXCEPT !.beacons = @ - 1]
  /\ UNCHANGED <<csp, node, eps, adcs, fdir, incidents, rg1>>

BeaconReturns ==
  /\ Returns("rg3")
  /\ beacon' = [beacon EXCEPT !.locked = FALSE]
  /\ UNCHANGED <<owner, csp, ready, node, fdir, incidents, rg1, budget>>
-----------------------------------------------------------------------------
(* Faults.  start and stop of EpsSimServer and AdcsSimServer are the power   *)
(* of a node: a stopped server loses its model, a sensor may fail in the     *)
(* hardware that the ADCS server stands for.                                 *)

FaultOf(n, changed) ==
  /\ budget.faults > 0
  /\ node' = [node EXCEPT ![n] = changed]
  /\ budget' = [budget EXCEPT !.faults = @ - 1]
  /\ UNCHANGED <<owner, csp, ready, eps, adcs, fdir, incidents, call, rg1, beacon>>

NodeStops(n) == node[n].up /\ FaultOf(n, [NodeInit[n] EXCEPT !.up = FALSE])

SensorFails == node["ADCS"].data.valid /\ FaultOf("ADCS", [node["ADCS"] EXCEPT !.data.valid = FALSE])

NodeStarts(n) ==
  /\ ~node[n].up
  /\ node' = [node EXCEPT ![n] = NodeInit[n]]
  /\ UNCHANGED <<owner, csp, ready, eps, adcs, fdir, incidents, call, rg1, beacon, budget>>

Faults ==
  \/ \E n \in {"EPS", "ADCS"} : NodeStops(n) \/ NodeStarts(n)
  \/ SensorFails
-----------------------------------------------------------------------------
\* initForRuntime runs before the rate groups start and may have failed, or
\* the sensor may have failed before that.
Init ==
  /\ owner = OwnerInit /\ csp \in BOOLEAN /\ ready = [n \in {"EPS", "ADCS"} |-> FALSE]
  /\ \/ node = NodeInit
     \/ csp /\ node = [NodeInit EXCEPT !.ADCS.data.valid = FALSE]
  /\ eps = EpsInit /\ adcs = AdcsInit
  /\ fdir = [eps |-> NoSource, adcs |-> NoSource] /\ incidents = {}
  /\ call = [c \in Callers |-> Idle]
  /\ rg1 = "eps" /\ beacon = BeaconInit
  /\ budget = [commands |-> MaxCommands, beacons |-> MaxBeacons,
               faults |-> IF csp THEN MaxFaults ELSE MaxFaults - 1]

Worker == WorkerServes \/ WorkerReturns

RateGroup1 ==
  \/ EpsTick \/ AdcsTick \/ CommTick \/ CommSuppresses \/ TtcTick \/ RecoveryTick \/ CycleEnds
  \/ RuntimeEnsured("rg1") \/ RateGroupReturns

RateGroup3 == BeaconSends \/ BeaconReturns

Command == CommandStarts \/ RuntimeEnsured("cmd") \/ CommandReturns

Next == Worker \/ RateGroup1 \/ RateGroup3 \/ Command \/ Faults \/ StopWorker

Spec == Init /\ [][Next]_vars

\* The first rate group waits for the worker or for the beacon's mutex.
RateGroupBlocked ==
  \/ call["rg1"] # Idle /\ call["rg1"].state = "WAIT"
  \/ rg1 = "suppress" /\ beacon.locked

RateGroupSteps == rg1' # rg1 \/ (Answered("rg1") /\ call'["rg1"] # call["rg1"])

\* The worker, the rate-group threads and the thread of a woken command keep
\* running; commands, faults and the end of the process are never due.  This is
\* the weak fairness of Worker, of RateGroup1 and of the answered callers, with
\* the state in which each can step in place of ENABLED.
FairSpec ==
  /\ Spec
  /\ []<>(owner.queue = <<>> \/ ~owner.alive) \/ []<><<owner'.queue = Tail(owner.queue)>>_owner
  /\ []<>RateGroupBlocked \/ []<><<RateGroupSteps>>_vars
  /\ []<>~Answered("rg3") /\ []<>~Answered("cmd")
-----------------------------------------------------------------------------
(* Properties. *)

\* The incidents open in the recovery executor are the faults latched by the
\* FDIR controllers, at most one of them for the ADCS: no incident is orphaned
\* when the kind of failure changes while it is open.
IncidentMatchesLatch ==
  incidents = {fdir.eps, fdir.adcs} \ {NoSource}

\* A beacon that has reached the bus queue was allowed: while the beacon is
\* suppressed for an S-band session none is queued or on the air.
SuppressedBeaconIsSilent ==
  call["rg3"] # Idle /\ call["rg3"].state = "WAIT" => ~beacon.suppressed

\* Nobody waits for ever: a command blocked on the worker is answered, and the
\* first rate group, which waits for the worker and for the beacon's mutex,
\* keeps starting cycles, also when the worker is stopped with requests queued.
CallersAreAnswered ==
  /\ call["cmd"] # Idle ~> call["cmd"] = Idle
  /\ []<>(rg1 = "eps") /\ []<>(rg1 # "eps")

\* A node that stays silent ends as an open incident.
DeadNodeIsReported ==
  /\ ~node["EPS"].up ~> node["EPS"].up \/ EpsSource \in incidents
  /\ ~node["ADCS"].up ~> node["ADCS"].up \/ incidents \cap AdcsSources # {}

\* The bus, the nodes and the sensors are in order.
Healthy == /\ owner.running /\ csp
           /\ node["EPS"].up /\ node["ADCS"].up
           /\ node["ADCS"].data.valid

\* Once the bus stays in order the caches agree with the devices and every
\* incident is closed, whatever late answers, resets and lost replies went
\* before.
Converges ==
  <>[]Healthy => <>[](/\ eps.valid /\ eps.status = node["EPS"].data
                      /\ adcs.valid /\ adcs.state = node["ADCS"].data
                      /\ incidents = {})
=============================================================================
