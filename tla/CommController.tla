--------------------------- MODULE CommController ---------------------------
(***************************************************************************)
(* CommController (OBC/Components/CommController) with what it drives: the  *)
(* secure uplink (CommandIngress), the downlink scheduler, the egress mux,  *)
(* the health views of the two ground links and the recovery sink.  Every   *)
(* handler runs under the component's lock and is one action.  The handlers *)
(* of the uplink run in the link threads and take the lock only to report   *)
(* sessions; they are taken as one action too (see the README).             *)
(***************************************************************************)
EXTENDS CommandIngress, CommDownlinkScheduler

CONSTANTS Probed,           \* bands whose health is a CSP ping (usesSubsystemHealthForBand_)
          Async,            \* the runtime owner pings asynchronously
          ProbePeriod, ProbeThreshold,
          FaultThreshold,   \* unavailableFailureThreshold
          QuiesceTicks,     \* UHF_FILE_LAUNCH_QUIESCE_TICKS
          SuppressTicks,    \* UHF_BEACON_SUPPRESS_TIMEOUT_TICKS
          ReliableDir,      \* COMM_RT_OUTPUT_DIR is set
          PassDurations,    \* durations COMM_START_PASS is called with
          Uplinked,         \* commands the ground sends: form, opcode and sequence number
          MaxKeys,          \* bound: challenges issued
          MaxRequests       \* bound: downlink requests accepted

ASSUME CommAssumption ==
  /\ Probed \subseteq {"SBAND", "UHF"} /\ Async \in BOOLEAN /\ ReliableDir \in BOOLEAN
  /\ ProbePeriod \in Nat \ {0} /\ ProbeThreshold \in Nat \ {0} /\ FaultThreshold \in Nat
  /\ QuiesceTicks \in Nat /\ SuppressTicks \in Nat \ {0} /\ PassDurations \subseteq Nat \ {0}
  /\ MaxKeys \in Nat /\ MaxRequests \in Nat /\ \A m \in Uplinked : m.seq \in Nat

VARIABLES c,        \* the controller's fields
          u,        \* the uplink
          egress,   \* CommEgressMux
          health,   \* GroundLinkHealthProvider's views
          ext       \* external: pings, FileDownlink, the catalogue, the recovery sink

vars == <<c, u, egress, health, ext>>

Bands == {"SBAND", "UHF"}
Other(b) == IF b = "SBAND" THEN "UHF" ELSE "SBAND"
PortOf(b) == IF b = "SBAND" THEN 0 ELSE 1
Quiet == [active |-> FALSE, id |-> 0]
NoSuppress == [active |-> FALSE, id |-> 0, ticks |-> 0]
NoProbe == [inFlight |-> FALSE, ready |-> FALSE, available |-> FALSE, discard |-> FALSE]
NoDeferred == [pending |-> FALSE, ticks |-> 0, request |-> NoRequest]

\* The system while a handler runs: both sides of every call it makes.
System == [c |-> c, u |-> u, egress |-> egress, ext |-> ext]

\* syncEgressPolicy_, which publishState_ calls: what the egress mux is told.
\* computeSbandLiveObservabilityState_ needs S-band to be the primary band.
Policy(s) ==
  [primary |-> s.c.primary,
   live    |-> s.c.primary = "SBAND" /\ s.c.live.active /\ s.c.live.id # 0,
   hold    |-> s.c.primary = "UHF" /\ s.c.sched.active # NoRequest]

Sync(s) == [s EXCEPT !.egress = Policy(s)]

\* CommEgressMux::packetIn: the link an event or telemetry packet leaves on.
PacketLink(e) == IF (e.primary = "SBAND" /\ ~e.live) \/ (e.primary = "UHF" /\ e.hold)
                   THEN "NONE" ELSE e.primary

\* fileIngressAllowedForConfig, and the roles applyAuthorityProfiles_ selects.
RoleOf(p, primary) == IF PortOf(primary) # p THEN "BACKUP"
                      ELSE IF p = 0 THEN "PRIMARY" ELSE "PRIMARY_AFTER_FAILOVER"
FileAllowed(p, role) == role = IF p = 0 THEN "PRIMARY" ELSE "PRIMARY_AFTER_FAILOVER"
-----------------------------------------------------------------------------
(* Sessions, as CommandIngressAuthority reports them. *)

\* startOrRefreshUhfBeaconSuppress_.
Suppress(s, p, id) ==
  IF p # 1 \/ id = 0 THEN s
  ELSE Sync([s EXCEPT !.c.suppress = [active |-> TRUE, id |-> id, ticks |-> SuppressTicks]])

\* onCommandSessionOpenedForRuntime.
SessionOpened(s, p) ==
  Sync(Suppress(IF p = 0 THEN [s EXCEPT !.c.live = [active |-> TRUE, id |-> s.u.session[p].id]] ELSE s,
                p, s.u.session[p].id))

OwnsSuppress(s, p, id) == p = 1 /\ s.c.suppress.active /\ s.c.suppress.id = id

\* onCommandSessionActivityForRuntime.
SessionActivity(s, p) ==
  IF OwnsSuppress(s, p, s.u.session[p].id) THEN Suppress(s, p, s.u.session[p].id) ELSE s

\* Mutant of SessionRevoked: the new state is not published.
SessionRevokedUnpublished(s, p, id) ==
  [s EXCEPT !.c.live = IF p = 0 /\ @.active /\ @.id = id THEN Quiet ELSE @,
            !.c.suppress = IF OwnsSuppress(s, p, id) THEN NoSuppress ELSE @]

\* onCommandSessionRevokedForRuntime.
SessionRevoked(s, p, id) ==
  Sync([s EXCEPT !.c.live = IF p = 0 /\ @.active /\ @.id = id THEN Quiet ELSE @,
                 !.c.suppress = IF OwnsSuppress(s, p, id) THEN NoSuppress ELSE @])

\* A handler that holds the component's lock invalidates the authorisation of
\* a port.  If a session is still open, authRevokedIn calls back into the
\* controller, which takes the lock it already holds.
InvalidateLocked(s, p) ==
  [s EXCEPT !.u = Invalidate(s.u, p),
            !.c.stuck = @ \/ (s.u.auth[p].active /\ s.u.session[p].open)]

\* Mutant of ReconfigureIngress: the authorisation is invalidated first.
ReconfigureIngressLate(s, p, role) ==
  LET cleared == IF p = 1 THEN [s EXCEPT !.c.suppress = NoSuppress] ELSE s
      invalid == InvalidateLocked(cleared, p)
      revoked == [invalid EXCEPT !.u = CloseSession(invalid.u, p)]
      moved   == [revoked EXCEPT !.u.role[p] = role]
  IN  [(IF p = 0 THEN [moved EXCEPT !.c.live = Quiet] ELSE moved)
         EXCEPT !.u = FilePolicy(moved.u, p, FileAllowed(p, role))]

\* reconfigureIngressProfile_.
ReconfigureIngress(s, p, role) ==
  LET cleared == IF p = 1 THEN [s EXCEPT !.c.suppress = NoSuppress] ELSE s
      revoked == [cleared EXCEPT !.u = CloseSession(s.u, p)]
      invalid == InvalidateLocked(revoked, p)
      moved   == [invalid EXCEPT !.u.role[p] = role]
  IN  [(IF p = 0 THEN [moved EXCEPT !.c.live = Quiet] ELSE moved)
         EXCEPT !.u = FilePolicy(moved.u, p, FileAllowed(p, role))]

\* applyAuthorityProfiles_.
ApplyProfiles(s) ==
  LET one == ReconfigureIngress(s, 0, RoleOf(0, s.c.primary))
  IN  ReconfigureIngress(one, 1, RoleOf(1, s.c.primary))
-----------------------------------------------------------------------------
(* The downlink. *)

\* shouldUseReliableTransfer_ (whole data product files only).
UsesReliable(s) == /\ ReliableDir
                   /\ s.c.primary = "SBAND" \/ s.c.reason = "OPERATOR_SWITCH"

\* launchSelectedDownlink_: FileDownlink numbers the files it is given, a
\* reliable transfer is known by its request context.
LaunchOk(s, request) ==
  IF UsesReliable(s)
    THEN [s EXCEPT !.c.rt = request, !.c.sched = Confirm(@, request)]
    ELSE [s EXCEPT !.ext.fd = @ \cup {[context |-> s.ext.fdNext, request |-> request]},
                   !.ext.fdNext = @ + 1,
                   !.c.sched = Confirm(@, s.ext.fdNext)]

LaunchFailed(s) == IF UsesReliable(s) THEN s ELSE [s EXCEPT !.ext.fdNext = @ + 1]

\* Mutant of EndRequest: the reliable transfer is not cancelled.
EndRequestKeepsTransfer(s) ==
  Sync([s EXCEPT !.c.deferred = NoDeferred, !.c.sched = ClearActive(@),
                 !.ext.awaiting = @ \ {s.c.sched.active}])

\* handleSchedulerResult_ for a request that is over: the reliable transfer is
\* cancelled, the deferred launch forgotten and the catalogue told.
EndRequest(s) ==
  Sync([s EXCEPT !.c.rt = NoRequest, !.c.deferred = NoDeferred, !.c.sched = ClearActive(@),
                 !.ext.awaiting = @ \ {s.c.sched.active}])

\* dropForPrimarySwitch and what becomes of its result.
DropActive(s) == IF s.c.sched.active = NoRequest THEN s ELSE EndRequest(s)

\* Mutant of ProcessDeferred: the countdown does not count.
ProcessDeferredStuck(s, ok) ==
  IF ~s.c.deferred.pending \/ s.c.deferred.ticks > 0 THEN s
  ELSE Sync(LaunchOk([s EXCEPT !.c.deferred = NoDeferred], s.c.deferred.request))

\* processDeferredLaunch_; ok is the outcome of a launch.
ProcessDeferred(s, ok) ==
  IF ~s.c.deferred.pending THEN s
  ELSE IF s.c.deferred.ticks > 0 THEN [s EXCEPT !.c.deferred.ticks = @ - 1]
  ELSE LET launched == [s EXCEPT !.c.deferred = NoDeferred]
       IN  IF ok THEN Sync(LaunchOk(launched, s.c.deferred.request))
           ELSE DropActive(LaunchFailed(launched))

\* pollReliableTransfer_: a step of the transfer goes on or finishes it.
PollReliable(s, finished) ==
  IF s.c.rt = NoRequest \/ ~finished THEN s
  ELSE LET done == [s EXCEPT !.c.rt = NoRequest]
       IN  IF Completes(s.c.sched, s.c.rt) THEN EndRequest(done) ELSE Sync(done)
-----------------------------------------------------------------------------
(* Links. *)

\* setPrimaryLinks_.
SetPrimary(s, band, reason) ==
  LET dropped == IF s.c.primary # band THEN DropActive(s) ELSE s
  IN  Sync(ApplyProfiles([dropped EXCEPT !.c.primary = band, !.c.reason = reason]))

\* The tail shared by the probe forms: the streak decides when a link that was
\* available is given up.
Judge(s, b, ok, forced) ==
  [s EXCEPT !.c.cooldown[b] = ProbePeriod - 1,
            !.c.streak[b] = IF ok THEN 0 ELSE IF @ + 1 < ProbeThreshold THEN @ + 1 ELSE @,
            !.c.available[b] = ok \/ (~forced /\ @ /\ s.c.streak[b] + 1 < ProbeThreshold)]

\* Mutant of ForceProbe: an answer still on its way is not discarded.
ForceProbeKeepsOld(s, b, ok) ==
  IF b \notin Probed THEN s
  ELSE IF ~Async THEN Judge(s, b, ok, TRUE)
  ELSE Judge([s EXCEPT !.c.probe[b] = [@ EXCEPT !.ready = FALSE, !.available = FALSE],
                       !.ext.stale[b] = s.c.probe[b].inFlight], b, ok, TRUE)

\* refreshBandAvailability_ with forceProbe: a ping of its own, and an
\* asynchronous answer still on its way is to be discarded (the ghost ext.stale
\* remembers which).  A band without pings keeps the health view last read,
\* which is what available[b] already holds.
ForceProbe(s, b, ok) ==
  IF b \notin Probed THEN s
  ELSE IF ~Async THEN Judge(s, b, ok, TRUE)
  ELSE Judge([s EXCEPT !.c.probe[b] = [@ EXCEPT !.ready = FALSE, !.available = FALSE, !.discard = s.c.probe[b].inFlight],
                       !.ext.stale[b] = s.c.probe[b].inFlight], b, ok, TRUE)

\* The completion of a ping is taken, or discarded.
PingCompleted(s, b) ==
  [s EXCEPT !.c.probe[b] = IF @.discard THEN NoProbe
                           ELSE [NoProbe EXCEPT !.ready = TRUE, !.available = s.ext.ping[b] = "OK"],
            !.ext.applied = @ \/ (s.ext.stale[b] /\ ~s.c.probe[b].discard),
            !.ext.stale[b] = FALSE,
            !.ext.ping[b] = "NONE"]

\* pollAsyncSubsystemProbeCompletions_ for one band.
PollProbe(s, b) ==
  IF ~Async \/ ~s.c.probe[b].inFlight \/ s.ext.ping[b] = "NONE" THEN s ELSE PingCompleted(s, b)

\* refreshBandAvailability_ of the primary band without forceProbe.
RefreshPrimary(s, b, ok, sent) ==
  IF b \notin Probed THEN [s EXCEPT !.c.available[b] = health[b].available]
  ELSE IF Async /\ s.c.probe[b].ready
    THEN Judge([s EXCEPT !.c.probe[b].ready = FALSE], b, s.c.probe[b].available, FALSE)
  ELSE IF s.c.cooldown[b] > 0 THEN [s EXCEPT !.c.cooldown[b] = @ - 1]
  ELSE IF Async THEN [s EXCEPT !.c.probe[b].inFlight = @ \/ sent]
  ELSE Judge(s, b, ok, FALSE)

\* refreshLinkAvailability_.
RefreshLinks(s, ok, sent) ==
  LET primary == RefreshPrimary(s, s.c.primary, ok, sent)
      backup  == Other(s.c.primary)
  IN  IF backup \in Probed THEN primary
      ELSE [primary EXCEPT !.c.available[backup] = health[backup].available]

\* recomputeBandAvailabilityForQuery_: COMM_GET_STATUS uses what is at hand.
QueryBand(s, b) ==
  IF b \notin Probed THEN [s EXCEPT !.c.available[b] = health[b].available]
  ELSE IF Async /\ s.c.probe[b].ready
    THEN Judge([s EXCEPT !.c.probe[b].ready = FALSE], b, s.c.probe[b].available, FALSE)
  ELSE s

\* Mutant of EvaluateFdir: a latched fault changes its kind.
EvaluateFdirRelatches(fault, available, growth, cu, ct) ==
  IF available /\ ~growth THEN "NONE"
  ELSE IF cu >= FaultThreshold THEN "UNAVAILABLE"
  ELSE IF ct >= FaultThreshold THEN "TRANSPORT" ELSE fault

\* CommFdirPolicy::evaluate: the fault that is latched after it.
EvaluateFdir(fault, available, growth, cu, ct) ==
  IF available /\ ~growth THEN "NONE"
  ELSE IF fault # "NONE" THEN fault
  ELSE IF cu >= FaultThreshold THEN "UNAVAILABLE"
  ELSE IF ct >= FaultThreshold THEN "TRANSPORT" ELSE "NONE"

\* updateFdirState_ (the counters are cut at the threshold); the recovery sink is
\* told after the lock is released, by the same thread.
UpdateFdir(s) ==
  LET b         == s.c.primary
      available == s.c.available[b]
      growth    == b \notin Probed /\ health[b].growth
      Count(n)  == IF n < FaultThreshold THEN n + 1 ELSE n
      cu        == IF available THEN 0 ELSE Count(s.c.cu)
      ct        == IF available /\ growth THEN Count(s.c.ct) ELSE 0
      fault     == IF FaultThreshold = 0 THEN "NONE"
                   ELSE EvaluateFdir(s.c.fault, available, growth, cu, ct)
  IN  [s EXCEPT !.c.cu = cu, !.c.ct = ct, !.c.fault = fault,
                !.ext.sink = IF fault = s.c.fault THEN @
                             ELSE IF fault = "NONE" THEN @ \ {s.c.fault} ELSE @ \cup {fault}]

Finish(s) == c' = s.c /\ u' = s.u /\ egress' = s.egress /\ ext' = s.ext
-----------------------------------------------------------------------------
Init ==
  /\ c = [primary |-> "SBAND", reason |-> "NONE", available |-> [b \in Bands |-> FALSE],
          cu |-> 0, ct |-> 0, fault |-> "NONE",
          cooldown |-> [b \in Bands |-> 0], streak |-> [b \in Bands |-> 0],
          probe |-> [b \in Bands |-> NoProbe],
          sched |-> SchedulerInit, rt |-> NoRequest, deferred |-> NoDeferred,
          live |-> Quiet, suppress |-> NoSuppress, pass |-> 0, stuck |-> FALSE]
  /\ u = LET first == IngressInit([p \in Ports |-> RoleOf(p, "SBAND")])
         IN  FilePolicy(FilePolicy(first, 0, TRUE), 1, FALSE)
  /\ egress = [primary |-> "SBAND", live |-> FALSE, hold |-> FALSE]
  /\ health = [b \in Bands |-> [available |-> FALSE, growth |-> FALSE]]
  /\ ext = [ping |-> [b \in Bands |-> "NONE"], stale |-> [b \in Bands |-> FALSE],
            applied |-> FALSE, fd |-> {}, fdNext |-> 0, awaiting |-> {}, sink |-> {}]

\* schedIn.
Tick(ok, sent, launched, finished) ==
  LET polled   == PollProbe(PollProbe(System, "SBAND"), "UHF")
      judged   == UpdateFdir(RefreshLinks(polled, ok, sent))
      served   == PollReliable(ProcessDeferred(judged, launched), finished)
      suppress == served.c.suppress
      left     == IF suppress.ticks > 1 THEN [suppress EXCEPT !.ticks = @ - 1] ELSE NoSuppress
      passed   == [served EXCEPT !.c.suppress = left, !.c.pass = IF @ > 0 THEN @ - 1 ELSE 0]
  IN  Finish(IF (suppress.active /\ ~left.active) \/ c.pass = 1 THEN Sync(passed) ELSE passed)
      /\ UNCHANGED health

\* COMM_SET_ACTIVE.
SetActive(band, ok) ==
  LET probed == ForceProbe(System, band, ok)
  IN  /\ Finish(IF probed.c.available[band] THEN SetPrimary(probed, band, "OPERATOR_SWITCH") ELSE probed)
      /\ UNCHANGED health

\* COMM_START_PASS and COMM_STOP_PASS.
SetPass(duration) ==
  /\ c.pass # duration
  /\ Finish(Sync([System EXCEPT !.c.pass = duration])) /\ UNCHANGED health

\* COMM_GET_STATUS; it publishes nothing to the egress mux.
GetStatus ==
  LET polled == PollProbe(PollProbe(System, "SBAND"), "UHF")
      asked  == QueryBand(QueryBand(polled, "SBAND"), "UHF")
  IN  Finish(asked) /\ UNCHANGED health

\* performRecoveryLinkFailoverForRuntime.
RecoveryFailover(ok, backupOk) ==
  LET b      == c.primary
      probed == ForceProbe(ForceProbe(System, b, ok), Other(b), backupOk)
      p      == PortOf(b)
      lost   == IF Drops(c.sched, b) THEN EndRequest(probed) ELSE probed
      silent == [lost EXCEPT !.c.suppress = IF p = 1 THEN NoSuppress ELSE @,
                             !.c.live = IF p = 0 THEN Quiet ELSE @,
                             !.u = CloseSession(lost.u, p)]
  IN  /\ \/ probed.c.available[b] /\ c.fault = "NONE" /\ Finish(probed)
         \/ /\ ~(probed.c.available[b] /\ c.fault = "NONE")
            /\ probed.c.available[Other(b)]
            /\ Finish(SetPrimary(probed, Other(b), "LINK_FAILOVER"))
         \/ /\ ~(probed.c.available[b] /\ c.fault = "NONE")
            /\ ~probed.c.available[Other(b)]
            /\ Finish(Sync(InvalidateLocked(silent, p)))
      /\ UNCHANGED health

\* dpFileRequestIn on an available link (DpCatalog, external, asks; awaiting
\* holds the requests it was promised an answer for).
RequestFile(launched) ==
  /\ c.sched.next <= MaxRequests
  /\ c.available[c.primary]
  /\ LET asked == [System EXCEPT !.c.sched = Submit(@, c.primary)]
         id    == c.sched.next
         taken == [asked EXCEPT !.ext.awaiting = @ \cup {id}]
     IN  \/ c.sched.active # NoRequest /\ Finish(Sync(asked))
         \/ /\ c.sched.active = NoRequest /\ c.primary = "UHF"
            /\ Finish(Sync([taken EXCEPT
                  !.c.deferred = [pending |-> TRUE, ticks |-> QuiesceTicks, request |-> id]]))
         \/ /\ c.sched.active = NoRequest /\ c.primary = "SBAND"
            /\ Finish(IF launched THEN Sync(LaunchOk(taken, id)) ELSE EndRequest(LaunchFailed(asked)))
  /\ UNCHANGED health

\* fileCompleteIn: FileDownlink (external) has sent or given up a file.
FileComplete(e) ==
  /\ e \in ext.fd
  /\ LET gone == [System EXCEPT !.ext.fd = @ \ {e}]
     IN  Finish(IF Completes(c.sched, e.context) THEN EndRequest(gone) ELSE Sync(gone))
  /\ UNCHANGED health
-----------------------------------------------------------------------------
(* The uplink. *)

\* handshakeUplinkIn, REQ_AUTH.
RequestAuth(p) ==
  /\ u.nonce < MaxKeys
  /\ u' = IssueChallenge(u, p)
  /\ UNCHANGED <<c, egress, health, ext>>

\* handshakeUplinkIn, RESPONSE.
AuthResponse(p, key) ==
  /\ ResponseValid(u, p, key)
  /\ Finish(SessionOpened([System EXCEPT !.u = EstablishAuth(u, p)], p))
  /\ UNCHANGED health

\* The age of an authorisation after a tick.  A clock that went back restarts the
\* timeout.
Aged(auth, back) ==
  IF ~auth.active THEN auth ELSE [auth EXCEPT !.idle = IF back THEN 0 ELSE @ + 1]

\* revokeActiveAuth_ of an authorisation that timed out; the session reports it.
TimedOut(s, p) ==
  [SessionRevoked(s, p, s.u.session[p].id) EXCEPT !.u = RevokeAuth(s.u, p)]

\* schedIn of SecureLinkAuthorizer.
AuthTick(back) ==
  LET due  == {p \in Ports : u.auth[p].active /\ ~back /\ u.auth[p].idle + 1 >= AuthTimeout}
      aged == [System EXCEPT !.u = [u EXCEPT !.auth = [p \in Ports |-> Aged(u.auth[p], back)]]]
      one  == IF 0 \in due THEN TimedOut(aged, 0) ELSE aged
  IN  /\ \E p \in Ports : u.auth[p].active
      /\ Finish(IF 1 \in due THEN TimedOut(one, 1) ELSE one)
      /\ UNCHANGED health

\* seqCmdBuffIn: a rejected command is answered and changes nothing; the governed
\* sequence commands go to the admission controller.
Command(p, cmd, admitted) ==
  /\ IngressReject(u, p, cmd) = "NONE"
  /\ LET entered  == WindowAdvance(u, p, cmd.seq)
         accepted == SequenceAccepted(entered, p, cmd.seq)
     IN  IF cmd.opcode = "SEQ_CONTROL"
           THEN Finish(IF admitted THEN SessionActivity([System EXCEPT !.u = accepted], p)
                                   ELSE [System EXCEPT !.u = entered])
           ELSE Finish(SessionActivity([System EXCEPT !.u = MuxDispatch(accepted, p)], p))
  /\ UNCHANGED health

\* commandStatusIn: the dispatcher (external) answers in any order.
CommandStatus(r) ==
  /\ r \in u.running
  /\ u' = MuxStatus(u, r)
  /\ UNCHANGED <<c, egress, health, ext>>

\* FileIngressAuthority::bufferSendIn with a START packet.
FileStart(p, path) ==
  /\ u' = IF StartReject(u, p, path) = "NONE"
            THEN Activity([u EXCEPT !.file[p].drop = FALSE], p)
            ELSE [u EXCEPT !.file[p].drop = TRUE]
  /\ UNCHANGED <<c, egress, health, ext>>

\* bufferSendIn with any other packet of a transfer that is not dropped.
FileData(p) ==
  /\ ~u.file[p].drop
  /\ u' = IF u.file[p].auth /\ u.file[p].allowed THEN Activity(u, p)
                                                ELSE [u EXCEPT !.file[p].drop = TRUE]
  /\ UNCHANGED <<c, egress, health, ext>>
-----------------------------------------------------------------------------
(* What the controller observes. *)

\* GroundLinkHealthProvider updates the view of a link: connection and activity
\* come and go, and errors grow, as the link driver counts them.  For a pinged
\* band the view only feeds telemetry.
HealthTick(b, available, growth) ==
  /\ b \notin Probed
  /\ health' = [health EXCEPT ![b] = [available |-> available, growth |-> growth]]
  /\ UNCHANGED <<c, u, egress, ext>>

\* The runtime owner (external) finishes an asynchronous ping.
PingAnswered(b, result) ==
  /\ c.probe[b].inFlight /\ ext.ping[b] = "NONE"
  /\ ext' = [ext EXCEPT !.ping[b] = result]
  /\ UNCHANGED <<c, u, egress, health>>

\* The outcomes of a call that is made only under a condition.
When(condition) == IF condition THEN BOOLEAN ELSE {FALSE}

Downlink ==
  \/ \E launched \in BOOLEAN : RequestFile(launched)
  \/ \E e \in ext.fd : FileComplete(e)

Ground ==
  \/ \E p \in Ports : RequestAuth(p) \/ FileData(p)
  \/ \E p \in Ports, key \in 1 .. MaxKeys : AuthResponse(p, key)
  \/ \E p \in Ports, path \in StartPaths : FileStart(p, path)
  \/ \E p \in Ports, key \in 1 .. MaxKeys, m \in Uplinked, admitted \in BOOLEAN :
       Command(p, [form |-> m.form, key |-> key, seq |-> m.seq, opcode |-> m.opcode], admitted)

Operator ==
  \/ \E b \in Bands, ok \in BOOLEAN : SetActive(b, ok)
  \/ \E d \in PassDurations \cup {0} : SetPass(d)
  \/ GetStatus

Scheduled ==
  \/ \E ok \in BOOLEAN, sent \in When(Async), launched \in When(c.deferred.pending),
        finished \in When(ReliableDir) : Tick(ok, sent, launched, finished)
  \/ \E back \in BOOLEAN : AuthTick(back)

Next ==
  \/ Scheduled \/ Operator \/ Ground \/ Downlink
  \/ \E ok, backupOk \in BOOLEAN : RecoveryFailover(ok, backupOk)
  \/ \E r \in u.running : CommandStatus(r)
  \/ \E b \in Bands, available, growth \in BOOLEAN : HealthTick(b, available, growth)
  \/ \E b \in Bands, result \in {"OK", "FAILED"} : PingAnswered(b, result)

Spec == Init /\ [][Next]_vars

\* A tick of schedIn while it has a file to launch or to transfer.
HasFileWork == c.deferred.pending \/ c.rt # NoRequest

WorkingTick ==
  /\ HasFileWork
  /\ UNCHANGED <<u, health>>
  /\ \E ok \in BOOLEAN, sent \in When(Async), launched \in When(c.deferred.pending) :
       Tick(ok, sent, launched, TRUE)

\* The rate group calls schedIn for ever, and a reliable transfer ends (its
\* retries are bounded).  FileDownlink reports every file it took.  The weak
\* fairness of the two, with the state in which each has work in place of ENABLED.
FairSpec ==
  /\ Spec
  /\ []<>(~HasFileWork) \/ []<><<WorkingTick>>_vars
  /\ []<>(ext.fd = {}) \/ []<><<\E e \in ext.fd : FileComplete(e)>>_vars
-----------------------------------------------------------------------------
(* Properties. *)

\* A session exists exactly while its port is authorised, under the key of the
\* authorisation and in the role the port has now; file ingress, the live
\* S-band flag and the UHF beacon suppression follow it, and the sequence window
\* holds no entry of a session that is gone (so it cannot fill up).
SessionMatchesAuth ==
  /\ \A p \in Ports :
       /\ u.session[p].open = u.auth[p].active /\ u.file[p].auth = u.auth[p].active
       /\ u.session[p].open => u.session[p].key = u.auth[p].key /\ u.session[p].role = u.role[p]
  /\ c.live = IF u.session[0].open THEN [active |-> TRUE, id |-> u.session[0].id] ELSE Quiet
  /\ c.suppress.active => u.session[1].open /\ c.suppress.id = u.session[1].id
  /\ \A w \in u.window : u.session[w.port].open /\ u.session[w.port].id = w.id

\* No command is accepted twice under one session key, whatever is replayed and
\* however often the ports are re-authorised and switched.
NoReplay == ~u.replayed

\* The status of every command the dispatcher still runs goes back to the link
\* the command came from, although all links use context 0.
StatusReturnsToSender == \A r \in u.running : StatusPort(u, r.ctx) = r.from

\* No handler that holds the controller's lock gets called back through
\* authRevokedIn: the session is revoked silently before it is invalidated.
LockNotRetaken == ~c.stuck

\* The roles of both ingress ports, the file policy and the egress mux always
\* belong to one and the same choice of the primary band: packets leave on it,
\* on S-band only while a session is open and on UHF only while no file is sent.
LinksFollowPrimary ==
  /\ \A p \in Ports : /\ u.role[p] = RoleOf(p, c.primary)
                      /\ u.file[p].allowed = FileAllowed(p, u.role[p])
                      /\ ~u.file[p].allowed => u.file[p].drop
  /\ egress = Policy(System)
  /\ PacketLink(egress) =
       IF IF c.primary = "SBAND" THEN u.session[0].open ELSE c.sched.active = NoRequest
         THEN c.primary ELSE "NONE"

\* DpCatalog waits for exactly the request the scheduler holds, and that request
\* is waiting for its launch, in a reliable transfer or in FileDownlink.
AcceptedIsTracked ==
  /\ ext.awaiting = {c.sched.active} \ {NoRequest}
  /\ c.sched.active # NoRequest =>
       \/ c.deferred.pending /\ c.deferred.request = c.sched.active
       \/ c.rt = c.sched.active /\ c.sched.launch = c.rt
       \/ [context |-> c.sched.launch, request |-> c.sched.active] \in ext.fd
  /\ c.rt \in {NoRequest, c.sched.active}

\* A completion of FileDownlink ends only the request it was launched for, even
\* when it arrives after that request was dropped and another one took its place.
CompletionEndsItsOwn ==
  [][\A e \in ext.fd \ ext'.fd :
       c'.sched.active # c.sched.active => e.request = c.sched.active]_vars

\* A ping sent before a forced probe never decides the availability after it.
StaleProbeIsDiscarded == ~ext.applied

\* The recovery sink holds exactly the incident of the fault that is latched.
IncidentMatchesFault == ext.sink = {c.fault} \ {"NONE"}

\* Every accepted downlink request is answered.
AcceptedIsAnswered == \A r \in 1 .. MaxRequests : r \in ext.awaiting ~> r \notin ext.awaiting
=============================================================================
