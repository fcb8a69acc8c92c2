------------------------ MODULE CommControllerProofs ------------------------
(***************************************************************************)
(* The safety properties of CommController for every number of challenges,  *)
(* requests, sequence numbers, slots and thresholds.  A handler is a        *)
(* composition of operators on the whole system s; each part of the         *)
(* inductive invariant is a predicate on s.  The first half shows what each *)
(* operator keeps of it, the second composes these facts along each         *)
(* handler, and the properties follow.                                      *)
(***************************************************************************)
EXTENDS CommController, TLAPS

CFields == {"primary", "reason", "available", "cu", "ct", "fault", "cooldown", "streak", "probe",
            "sched", "rt", "deferred", "live", "suppress", "pass", "stuck"}
UFields == {"pending", "auth", "session", "window", "role", "file", "nonce", "token", "mux",
            "muxNext", "running", "seen", "replayed"}
XFields == {"ping", "stale", "applied", "fd", "fdNext", "awaiting", "sink"}

\* s has the fields of a system.
Shape(s) ==
  /\ DOMAIN s = {"c", "u", "egress", "ext"}
  /\ DOMAIN s.c = CFields /\ DOMAIN s.ext = XFields
  /\ s.c.primary \in Bands

\* t has the controller's fields, or the external ones, of s but for some.
SameC(s, t, but) == \A f \in CFields \ but : t.c[f] = s.c[f]
SameX(s, t, but) == \A f \in XFields \ but : t.ext[f] = s.ext[f]

\* An answer that a forced probe has made stale is marked to be discarded.
Probes(s) ==
  /\ s.c.probe \in [Bands -> [inFlight : BOOLEAN, ready : BOOLEAN, available : BOOLEAN,
                              discard : BOOLEAN]]
  /\ s.ext.stale \in [Bands -> BOOLEAN] /\ DOMAIN s.ext.ping = Bands
  /\ \A b \in Bands : s.ext.stale[b] => s.c.probe[b].discard
  /\ s.ext.applied = FALSE

\* The sink follows the latched fault.
Fdir(s) == s.ext.sink = {s.c.fault} \ {"NONE"}

\* The request the scheduler holds waits for its launch, is in a reliable
\* transfer or is in FileDownlink.  Requests are numbered from 1 and launches
\* from 0, so the context of a file is below the number of its request, and the
\* context of a reliable transfer, which is its request, is met by no file.
Tracked(s) ==
  \/ s.c.deferred.pending /\ s.c.deferred.request = s.c.sched.active
  \/ s.c.rt = s.c.sched.active /\ s.c.sched.launch = s.c.rt
  \/ [context |-> s.c.sched.launch, request |-> s.c.sched.active] \in s.ext.fd

Scheduler(s) ==
  /\ s.c.sched \in [active : Nat, link : Bands, launch : Int, next : Nat \ {0}]
  /\ s.c.sched.active < s.c.sched.next
  /\ s.c.deferred \in [pending : BOOLEAN, ticks : Nat, request : Nat]
  /\ s.c.rt \in {NoRequest, s.c.sched.active}
  /\ s.c.rt # NoRequest => s.c.sched.launch = s.c.rt /\ ~s.c.deferred.pending
  /\ s.c.deferred.pending =>
       /\ s.c.sched.active # NoRequest /\ s.c.deferred.request = s.c.sched.active
       /\ s.c.sched.launch = NO_ACTIVE_CONTEXT /\ s.ext.fdNext < s.c.sched.active

Files(s) ==
  /\ s.ext.fdNext \in Nat /\ s.ext.fdNext < s.c.sched.next
  /\ s.ext.fd \subseteq [context : Nat, request : Nat]
  /\ \A e \in s.ext.fd :
       /\ e.context < e.request /\ e.context < s.ext.fdNext /\ e.request < s.c.sched.next
       /\ s.c.sched.active # NoRequest => e.request <= s.c.sched.active
  /\ \A d, e \in s.ext.fd : d.context = e.context => d = e

Down(s) ==
  /\ Scheduler(s) /\ Files(s)
  /\ s.ext.awaiting = {s.c.sched.active} \ {NoRequest}
  /\ s.c.sched.active # NoRequest => Tracked(s)

\* The roles a port or a session may have.
Roles == {"UNKNOWN", "BACKUP", "PRIMARY", "PRIMARY_AFTER_FAILOVER"}

FileStates == [Ports -> [auth : BOOLEAN, allowed : BOOLEAN, drop : BOOLEAN]]

\* The types of the uplink.
UplinkType(u1) ==
  /\ DOMAIN u1 = UFields
  /\ u1.pending \in [Ports -> Nat] /\ u1.nonce \in Nat /\ u1.token \in Nat \ {0}
  /\ u1.auth \in [Ports -> [active : BOOLEAN, key : Nat, idle : Nat]]
  /\ u1.session \in [Ports -> [open : BOOLEAN, key : Nat, role : Roles, id : Nat, last : Nat]]
  /\ u1.role \in [Ports -> Roles]
  /\ u1.file \in FileStates
  /\ u1.window \subseteq [port : Ports, role : Roles, id : Nat, last : Nat]
  /\ u1.seen \subseteq Nat \X Nat

\* The session of a port, its authorisation and its entry in the window.
Authorised(u1, p) ==
  /\ u1.session[p].open = u1.auth[p].active /\ u1.file[p].auth = u1.auth[p].active
  /\ u1.session[p].open => /\ u1.session[p].key = u1.auth[p].key /\ u1.session[p].role = u1.role[p]
                           /\ u1.session[p].id # 0
  /\ ~u1.session[p].open => u1.session[p] = NoSession

Windows(u1) ==
  \A w \in u1.window : /\ u1.session[w.port].open /\ u1.session[w.port].id = w.id
                       /\ u1.session[w.port].role = w.role

\* The keys in use: of the open sessions and of the pending challenges.
KeyOf(u1, p) == IF u1.session[p].open THEN u1.session[p].key ELSE 0

\* A key in use is the key of one port only, a pending challenge was never used,
\* and whatever was accepted under the key of an open session is below the last
\* number of its window.
Fresh(u1) ==
  /\ \A x \in u1.seen : x[1] <= u1.nonce
  /\ \A p \in Ports : KeyOf(u1, p) <= u1.nonce /\ u1.pending[p] <= u1.nonce
  /\ \A p \in Ports : u1.pending[p] # 0 =>
       /\ \A x \in u1.seen : x[1] # u1.pending[p]
       /\ \A q \in Ports : KeyOf(u1, q) # u1.pending[p]
       /\ \A q \in Ports \ {p} : u1.pending[q] # u1.pending[p]
  /\ \A p \in Ports : u1.session[p].open =>
       /\ u1.session[p].key # 0
       /\ \A q \in Ports \ {p} : KeyOf(u1, q) # u1.session[p].key
       /\ \A x \in u1.seen : x[1] = u1.session[p].key =>
            \E w \in u1.window : w.port = p /\ x[2] <= w.last
  /\ u1.replayed = FALSE

\* A running command has its entry in the mux, under a context of its own.
Muxed(u1) ==
  /\ u1.muxNext \in Nat
  /\ u1.mux \subseteq [ctx : Nat, port : Ports] /\ u1.running \subseteq [ctx : Nat, from : Ports]
  /\ \A e \in u1.mux : e.ctx < u1.muxNext
  /\ \A d, e \in u1.mux : d.ctx = e.ctx => d = e
  /\ \A r \in u1.running : [ctx |-> r.ctx, port |-> r.from] \in u1.mux

Uplink(u1) ==
  UplinkType(u1) /\ (\A p \in Ports : Authorised(u1, p)) /\ Windows(u1) /\ Fresh(u1) /\ Muxed(u1)

\* The controller's view of the sessions.
Sessions(s) ==
  /\ s.c.live = IF s.u.session[0].open THEN [active |-> TRUE, id |-> s.u.session[0].id] ELSE Quiet
  /\ DOMAIN s.c.suppress = {"active", "id", "ticks"}
  /\ s.c.suppress.active \in BOOLEAN
  /\ s.c.suppress.active => s.u.session[1].open /\ s.c.suppress.id = s.u.session[1].id

\* The role and the file policy of a port are those of the primary band.
Linked(s, p) ==
  /\ s.u.role[p] = RoleOf(p, s.c.primary)
  /\ s.u.file[p].allowed = FileAllowed(p, s.u.role[p])
  /\ ~s.u.file[p].allowed => s.u.file[p].drop

Links(s) == \A p \in Ports : Linked(s, p)

Synced(s) == s.egress = Policy(s)

\* What holds also while the links are switched, and the invariant.
Core(s) ==
  /\ Shape(s) /\ Probes(s) /\ Fdir(s) /\ Down(s) /\ Uplink(s.u) /\ Sessions(s)
  /\ s.c.stuck = FALSE

Good(s) == Core(s) /\ Links(s) /\ Synced(s)

IInv == Good(System)
-----------------------------------------------------------------------------
(* Which parts of a system a part of the invariant depends on. *)

\* A step that leaves scheduler, transfer, FileDownlink and catalogue alone
\* keeps what is said of the downlink.
LEMMA DownKeeps ==
  ASSUME NEW s, NEW t, Down(s), t.c.sched = s.c.sched, t.c.rt = s.c.rt,
         t.c.deferred = s.c.deferred, t.ext.fd = s.ext.fd, t.ext.fdNext = s.ext.fdNext,
         t.ext.awaiting = s.ext.awaiting
  PROVE  Down(t)
BY Zenon DEF Down, Scheduler, Files, Tracked

\* A step that leaves probes and pings alone keeps what is said of them.
LEMMA ProbesKeep ==
  ASSUME NEW s, NEW t, Probes(s), t.c.probe = s.c.probe, t.ext.stale = s.ext.stale,
         t.ext.ping = s.ext.ping, t.ext.applied = s.ext.applied
  PROVE  Probes(t)
BY Zenon DEF Probes

\* The same for the sessions and the controller's record of them.
LEMMA SessionsKeep ==
  ASSUME NEW s, NEW t, Sessions(s), t.c.live = s.c.live, t.c.suppress = s.c.suppress,
         t.u.session = s.u.session
  PROVE  Sessions(t)
BY Zenon DEF Sessions

\* The same for the roles and file policies.
LEMMA LinksKeep ==
  ASSUME NEW s, NEW t, Links(s), t.c.primary = s.c.primary, t.u.role = s.u.role,
         t.u.file = s.u.file
  PROVE  Links(t)
BY Zenon DEF Links, Linked

\* The same for the egress policy.
LEMMA SyncedKeeps ==
  ASSUME NEW s, NEW t, Synced(s), t.egress = s.egress, t.c.primary = s.c.primary,
         t.c.live = s.c.live, t.c.sched.active = s.c.sched.active
  PROVE  Synced(t)
BY Zenon DEF Synced, Policy

\* Publishing the state changes only what the egress mux was told.
LEMMA SyncFields ==
  ASSUME NEW s, Shape(s)
  PROVE  LET t == Sync(s)
         IN  Shape(t) /\ t.c = s.c /\ t.u = s.u /\ t.ext = s.ext /\ Synced(t)
BY Zenon DEF Shape, Sync, Synced, Policy

\* Publishing the egress policy restores Synced and disturbs nothing else.
LEMMA SyncCore ==
  ASSUME NEW s, Core(s)
  PROVE  Core(Sync(s)) /\ (Links(s) => Good(Sync(s)))
<1> DEFINE t == Sync(s)
<1>1. Shape(t) /\ t.c = s.c /\ t.u = s.u /\ t.ext = s.ext /\ Synced(t)
  BY Zenon, SyncFields DEF Core
<1> HIDE DEF t
<1>2. Down(t) /\ Probes(t) /\ Sessions(t)
  BY Zenon, <1>1, DownKeeps, ProbesKeep, SessionsKeep DEF Core
<1>3. Core(t)
  BY Zenon, <1>1, <1>2 DEF Core, Fdir
<1>4. Links(s) => Links(t)
  BY Zenon, <1>1, LinksKeep
<1>5. Core(t) /\ (Links(s) => Good(t))
  BY Zenon, <1>1, <1>3, <1>4 DEF Good
<1> QED
  BY Zenon, <1>5 DEF t
-----------------------------------------------------------------------------
(* Probes of the links and the faults they lead to. *)

\* What a probe does to the rest of the system: nothing.
ProbeStep(s, t) ==
  /\ Shape(t) /\ t.u = s.u /\ t.egress = s.egress
  /\ SameC(s, t, {"available", "cooldown", "streak", "probe"})
  /\ SameX(s, t, {"ping", "stale", "applied"})
  /\ Probes(s) => Probes(t)

\* A step on the probes alone keeps the whole invariant.
LEMMA ProbeStepGood ==
  ASSUME NEW s, NEW t, Good(s), ProbeStep(s, t)
  PROVE  Good(t)
<1>1. /\ t.c.sched = s.c.sched /\ t.c.rt = s.c.rt /\ t.c.deferred = s.c.deferred
      /\ t.c.live = s.c.live /\ t.c.suppress = s.c.suppress /\ t.c.primary = s.c.primary
      /\ t.c.stuck = s.c.stuck /\ t.c.fault = s.c.fault
      /\ t.ext.fd = s.ext.fd /\ t.ext.fdNext = s.ext.fdNext /\ t.ext.awaiting = s.ext.awaiting
      /\ t.ext.sink = s.ext.sink
  BY Zenon DEF ProbeStep, SameC, SameX, CFields, XFields
<1>2. Down(t) /\ Sessions(t) /\ Links(t) /\ Synced(t)
  BY Zenon, <1>1, DownKeeps, SessionsKeep, LinksKeep, SyncedKeeps DEF Good, Core, ProbeStep
<1> QED
  BY Zenon, <1>1, <1>2 DEF Good, Core, ProbeStep, Fdir

\* Judging a probe's result touches availability and streak only.
LEMMA JudgeStep ==
  ASSUME NEW s, Shape(s), NEW b, NEW ok, NEW forced
  PROVE  ProbeStep(s, Judge(s, b, ok, forced))
<1> DEFINE t == Judge(s, b, ok, forced)
<1>1. /\ Shape(t) /\ t.u = s.u /\ t.egress = s.egress /\ t.ext = s.ext
      /\ SameC(s, t, {"available", "cooldown", "streak"})
  BY Zenon DEF Judge, Shape, SameC, CFields
<1> HIDE DEF t
<1>2. t.c.probe = s.c.probe /\ SameC(s, t, {"available", "cooldown", "streak", "probe"})
  BY Zenon, <1>1 DEF SameC, CFields
<1>3. ProbeStep(s, t)
  BY Zenon, <1>1, <1>2, ProbesKeep DEF ProbeStep, SameX
<1> QED
  BY Zenon, <1>3 DEF t

\* A step of the probe's own fields that keeps Probes.
LEMMA ProbeJudged ==
  ASSUME NEW s, NEW t, Shape(s), ProbeStep(s, t), NEW b, NEW ok, NEW forced
  PROVE  ProbeStep(s, Judge(t, b, ok, forced))
<1> DEFINE j == Judge(t, b, ok, forced)
<1>1. ProbeStep(t, j)
  BY Zenon, JudgeStep DEF ProbeStep
<1> HIDE DEF j
<1>2. ProbeStep(s, j)
  BY Zenon, <1>1 DEF ProbeStep, SameC, SameX
<1> QED
  BY Zenon, <1>2 DEF j

\* A forced probe marks an answer still under way as one to discard.
LEMMA ForceProbeStep ==
  ASSUME NEW s, Shape(s), NEW b \in Bands, NEW ok
  PROVE  ProbeStep(s, ForceProbe(s, b, ok))
<1> DEFINE old == s.c.probe[b]
           new == [old EXCEPT !.ready = FALSE, !.available = FALSE, !.discard = old.inFlight]
           t == [s EXCEPT !.c.probe[b] = new, !.ext.stale[b] = old.inFlight]
<1>1. ProbeStep(s, s)
  BY Zenon DEF ProbeStep, SameC, SameX
<1>2. ProbeStep(s, t)
  <2> HIDE DEF new
  <2>1. /\ Shape(t) /\ t.u = s.u /\ t.egress = s.egress
        /\ SameC(s, t, {"probe"}) /\ SameX(s, t, {"stale"})
        /\ t.c.probe = [s.c.probe EXCEPT ![b] = new]
        /\ t.ext.stale = [s.ext.stale EXCEPT ![b] = old.inFlight]
    BY Zenon DEF Shape, SameC, SameX, CFields, XFields
  <2> HIDE DEF t
  <2>2. /\ SameC(s, t, {"available", "cooldown", "streak", "probe"})
        /\ SameX(s, t, {"ping", "stale", "applied"})
        /\ t.ext.ping = s.ext.ping /\ t.ext.applied = s.ext.applied
    BY Zenon, <2>1 DEF SameC, SameX, XFields
  <2>3. ASSUME Probes(s) PROVE Probes(t)
    <3>1. /\ new \in [inFlight : BOOLEAN, ready : BOOLEAN, available : BOOLEAN, discard : BOOLEAN]
          /\ new.discard = old.inFlight
      BY ZenonT(40), <2>3 DEF Probes, new
    <3> QED
      BY <2>1, <2>2, <2>3, <3>1 DEF Probes
  <2> QED
    BY Zenon, <2>1, <2>2, <2>3 DEF ProbeStep
<1> HIDE DEF t
<1>3. ProbeStep(s, Judge(t, b, ok, TRUE)) /\ ProbeStep(s, Judge(s, b, ok, TRUE))
  BY Zenon, <1>1, <1>2, ProbeJudged
<1> QED
  BY Zenon, <1>1, <1>3 DEF ForceProbe, t

\* A change of one band's probe and of what is known of its ping.
LEMMA ProbeChanged ==
  ASSUME NEW s, NEW t, Shape(s), Shape(t), t.u = s.u, t.egress = s.egress,
         SameC(s, t, {"probe"}), SameX(s, t, {"ping", "stale", "applied"}),
         Probes(s) => Probes(t)
  PROVE  ProbeStep(s, t)
BY Zenon DEF ProbeStep, SameC, SameX

\* A collected answer is applied unless it was marked.
LEMMA PollProbeStep ==
  ASSUME NEW s, Shape(s), NEW b \in Bands
  PROVE  ProbeStep(s, PollProbe(s, b))
<1> DEFINE old == s.c.probe[b]
           new == IF old.discard THEN NoProbe
                  ELSE [NoProbe EXCEPT !.ready = TRUE, !.available = s.ext.ping[b] = "OK"]
           t == PingCompleted(s, b)
<1>1. /\ Shape(t) /\ t.u = s.u /\ t.egress = s.egress
      /\ SameC(s, t, {"probe"}) /\ SameX(s, t, {"ping", "stale", "applied"})
      /\ t.c.probe = [s.c.probe EXCEPT ![b] = new]
      /\ t.ext.applied = (s.ext.applied \/ (s.ext.stale[b] /\ ~old.discard))
      /\ t.ext.stale = [s.ext.stale EXCEPT ![b] = FALSE]
      /\ t.ext.ping = [s.ext.ping EXCEPT ![b] = "NONE"]
  BY ZenonT(40) DEF PingCompleted, Shape, SameC, SameX, CFields, XFields
<1> HIDE DEF t
<1>2. ASSUME Probes(s) PROVE Probes(t)
  <2>1. new \in [inFlight : BOOLEAN, ready : BOOLEAN, available : BOOLEAN, discard : BOOLEAN]
    BY Zenon DEF NoProbe
  <2> HIDE DEF new
  <2>2. t.c.probe \in [Bands -> [inFlight : BOOLEAN, ready : BOOLEAN, available : BOOLEAN,
                                 discard : BOOLEAN]]
    BY <1>1, <1>2, <2>1 DEF Probes
  <2>3. t.ext.stale \in [Bands -> BOOLEAN] /\ DOMAIN t.ext.ping = Bands
    BY <1>1, <1>2 DEF Probes
  <2>4. \A d \in Bands : t.ext.stale[d] => t.c.probe[d].discard
    BY Zenon, <1>1, <1>2 DEF Probes
  <2>5. t.ext.applied = FALSE
    BY Zenon, <1>1, <1>2 DEF Probes
  <2> QED
    BY Zenon, <2>2, <2>3, <2>4, <2>5 DEF Probes
<1>3. ProbeStep(s, t) /\ ProbeStep(s, s)
  BY Zenon, <1>1, <1>2, ProbeChanged DEF ProbeStep, SameC, SameX
<1> QED
  BY Zenon, <1>3 DEF PollProbe, t

\* An answer is taken: its flag is cleared and the link is judged.
LEMMA AnswerTaken ==
  ASSUME NEW s, Shape(s), NEW b \in Bands, NEW ok
  PROVE  ProbeStep(s, Judge([s EXCEPT !.c.probe[b].ready = FALSE], b, ok, FALSE))
<1> DEFINE t == [s EXCEPT !.c.probe[b].ready = FALSE]
<1>1. /\ Shape(t) /\ t.u = s.u /\ t.egress = s.egress /\ t.ext = s.ext
      /\ SameC(s, t, {"probe"})
      /\ t.c.probe = [s.c.probe EXCEPT ![b] = [s.c.probe[b] EXCEPT !.ready = FALSE]]
  BY Zenon DEF Shape, SameC, CFields
<1> HIDE DEF t
<1>2. ASSUME Probes(s) PROVE Probes(t)
  <2> DEFINE new == [s.c.probe[b] EXCEPT !.ready = FALSE]
  <2>1. /\ new \in [inFlight : BOOLEAN, ready : BOOLEAN, available : BOOLEAN, discard : BOOLEAN]
        /\ new.discard = s.c.probe[b].discard
    BY Zenon, <1>2 DEF Probes
  <2> HIDE DEF new
  <2> QED
    BY <1>1, <1>2, <2>1 DEF Probes, new
<1>3. ProbeStep(s, t)
  BY Zenon, <1>1, <1>2, ProbeChanged DEF SameX
<1>4. ProbeStep(s, Judge(t, b, ok, FALSE))
  BY Zenon, <1>3, ProbeJudged
<1> QED
  BY Zenon, <1>4 DEF t

\* The refresh of one band polls or sends its probe.
LEMMA RefreshPrimaryStep ==
  ASSUME NEW s, Shape(s), NEW b \in Bands, NEW ok, NEW sent \in BOOLEAN
  PROVE  ProbeStep(s, RefreshPrimary(s, b, ok, sent))
<1>1. ProbeStep(s, [s EXCEPT !.c.available[b] = health[b].available])
  <2> DEFINE t == [s EXCEPT !.c.available[b] = health[b].available]
  <2>1. /\ Shape(t) /\ t.u = s.u /\ t.egress = s.egress /\ t.ext = s.ext
        /\ SameC(s, t, {"available"}) /\ t.c.probe = s.c.probe
    BY Zenon DEF Shape, SameC, CFields
  <2> HIDE DEF t
  <2>2. ProbeStep(s, t)
    BY Zenon, <2>1, ProbesKeep DEF ProbeStep, SameC, SameX
  <2> QED
    BY Zenon, <2>2 DEF t
<1>2. ProbeStep(s, [s EXCEPT !.c.cooldown[b] = @ - 1])
  <2> DEFINE t == [s EXCEPT !.c.cooldown[b] = @ - 1]
  <2>1. /\ Shape(t) /\ t.u = s.u /\ t.egress = s.egress /\ t.ext = s.ext
        /\ SameC(s, t, {"cooldown"}) /\ t.c.probe = s.c.probe
    BY Zenon DEF Shape, SameC, CFields
  <2> HIDE DEF t
  <2>2. ProbeStep(s, t)
    BY Zenon, <2>1, ProbesKeep DEF ProbeStep, SameC, SameX
  <2> QED
    BY Zenon, <2>2 DEF t
<1>3. ProbeStep(s, [s EXCEPT !.c.probe[b].inFlight = @ \/ sent])
  <2> DEFINE t == [s EXCEPT !.c.probe[b].inFlight = @ \/ sent]
             flight == s.c.probe[b].inFlight \/ sent
  <2>1. /\ Shape(t) /\ t.u = s.u /\ t.egress = s.egress /\ t.ext = s.ext
        /\ SameC(s, t, {"probe"})
        /\ t.c.probe = [s.c.probe EXCEPT ![b] = [s.c.probe[b] EXCEPT !.inFlight = flight]]
    BY Zenon DEF Shape, SameC, CFields
  <2>2. flight \in BOOLEAN
    BY Zenon
  <2> HIDE DEF t, flight
  <2>3. Probes(s) => Probes(t)
    BY <2>1, <2>2 DEF Probes
  <2>4. ProbeStep(s, t)
    BY Zenon, <2>1, <2>3, ProbeChanged DEF SameX
  <2> QED
    BY Zenon, <2>4 DEF t
<1>4. ProbeStep(s, Judge([s EXCEPT !.c.probe[b].ready = FALSE], b, s.c.probe[b].available, FALSE))
  BY Zenon, AnswerTaken
<1>5. ProbeStep(s, Judge(s, b, ok, FALSE))
  BY Zenon, JudgeStep
<1> QED
  BY Zenon, <1>1, <1>2, <1>3, <1>4, <1>5 DEF RefreshPrimary

\* The refresh of both bands is one such step.
LEMMA RefreshLinksStep ==
  ASSUME NEW s, Shape(s), NEW ok, NEW sent \in BOOLEAN
  PROVE  ProbeStep(s, RefreshLinks(s, ok, sent))
<1> DEFINE r1 == RefreshPrimary(s, s.c.primary, ok, sent)
           b == Other(s.c.primary)
           t == [r1 EXCEPT !.c.available[b] = health[b].available]
<1>1. ProbeStep(s, r1)
  BY Zenon, RefreshPrimaryStep DEF Shape
<1> HIDE DEF r1
<1>2. ProbeStep(s, t)
  <2>1. /\ Shape(t) /\ t.u = r1.u /\ t.egress = r1.egress /\ t.ext = r1.ext
        /\ SameC(r1, t, {"available"}) /\ t.c.probe = r1.c.probe
    BY Zenon, <1>1 DEF ProbeStep, Shape, SameC, CFields
  <2> HIDE DEF t
  <2>2. Probes(r1) => Probes(t)
    BY Zenon, <2>1, ProbesKeep
  <2> QED
    BY Zenon, <1>1, <2>1, <2>2 DEF ProbeStep, SameC, SameX
<1> QED
  BY Zenon, <1>1, <1>2 DEF RefreshLinks, r1

\* A status query collects the band's answer.
LEMMA QueryBandStep ==
  ASSUME NEW s, Shape(s), NEW b \in Bands
  PROVE  ProbeStep(s, QueryBand(s, b))
<1>1. ProbeStep(s, s)
  BY Zenon DEF ProbeStep, SameC, SameX
<1>2. ProbeStep(s, Judge([s EXCEPT !.c.probe[b].ready = FALSE], b, s.c.probe[b].available, FALSE))
  BY Zenon, AnswerTaken
<1>3. ProbeStep(s, [s EXCEPT !.c.available[b] = health[b].available])
  <2> DEFINE t == [s EXCEPT !.c.available[b] = health[b].available]
  <2>1. /\ Shape(t) /\ t.u = s.u /\ t.egress = s.egress /\ t.ext = s.ext
        /\ SameC(s, t, {"available"}) /\ t.c.probe = s.c.probe
    BY Zenon DEF Shape, SameC, CFields
  <2> HIDE DEF t
  <2>2. ProbeStep(s, t)
    BY Zenon, <2>1, ProbesKeep DEF ProbeStep, SameC, SameX
  <2> QED
    BY Zenon, <2>2 DEF t
<1> QED
  BY Zenon, <1>1, <1>2, <1>3 DEF QueryBand

\* The sink follows the fault: a latched fault is first cleared before another
\* one is latched.
LEMMA UpdateFdirGood ==
  ASSUME NEW s, Good(s)
  PROVE  Good(UpdateFdir(s))
<1> DEFINE t == UpdateFdir(s)
<1>1. Shape(s) /\ Fdir(s)
  BY ZenonT(40) DEF Good, Core
<1>2. /\ Shape(t) /\ t.u = s.u /\ t.egress = s.egress
      /\ SameC(s, t, {"cu", "ct", "fault"}) /\ SameX(s, t, {"sink"})
      /\ t.ext.sink = IF t.c.fault = s.c.fault THEN s.ext.sink
                      ELSE IF t.c.fault = "NONE" THEN s.ext.sink \ {s.c.fault}
                      ELSE s.ext.sink \cup {t.c.fault}
  BY ZenonT(40), <1>1 DEF UpdateFdir, Shape, SameC, SameX, CFields, XFields
<1>3. t.c.fault \in {"NONE", s.c.fault} \/ s.c.fault = "NONE"
  BY ZenonT(30), <1>1 DEF UpdateFdir, Shape, CFields, EvaluateFdir
<1> HIDE DEF t
<1>4. Fdir(t)
  BY Zenon, <1>1, <1>2, <1>3 DEF Fdir
<1>5. /\ t.c.sched = s.c.sched /\ t.c.rt = s.c.rt /\ t.c.deferred = s.c.deferred
      /\ t.c.live = s.c.live /\ t.c.suppress = s.c.suppress /\ t.c.primary = s.c.primary
      /\ t.c.stuck = s.c.stuck /\ t.c.probe = s.c.probe
      /\ t.ext.fd = s.ext.fd /\ t.ext.fdNext = s.ext.fdNext /\ t.ext.awaiting = s.ext.awaiting
      /\ t.ext.stale = s.ext.stale /\ t.ext.ping = s.ext.ping /\ t.ext.applied = s.ext.applied
  BY Zenon, <1>2 DEF SameC, SameX, CFields, XFields
<1>6. Down(t) /\ Probes(t) /\ Sessions(t) /\ Links(t) /\ Synced(t)
  BY Zenon, <1>2, <1>5, DownKeeps, ProbesKeep, SessionsKeep, LinksKeep, SyncedKeeps DEF Good, Core
<1>7. Good(t)
  BY Zenon, <1>2, <1>4, <1>5, <1>6 DEF Good, Core
<1> QED
  BY Zenon, <1>7 DEF t
-----------------------------------------------------------------------------
(* The downlink. *)

\* What the downlink does to the rest of the system: nothing.
DownStep(s, t) ==
  /\ Shape(t) /\ t.u = s.u
  /\ SameC(s, t, {"sched", "rt", "deferred"}) /\ SameX(s, t, {"fd", "fdNext", "awaiting"})

\* A step on the downlink alone needs only Down and Synced afterwards.
LEMMA DownStepGood ==
  ASSUME NEW s, NEW t, Core(s), Links(s), DownStep(s, t), Down(t), Synced(t)
  PROVE  Good(t)
<1>1. /\ t.c.live = s.c.live /\ t.c.suppress = s.c.suppress /\ t.c.primary = s.c.primary
      /\ t.c.stuck = s.c.stuck /\ t.c.fault = s.c.fault /\ t.c.probe = s.c.probe
      /\ t.ext.sink = s.ext.sink /\ t.ext.stale = s.ext.stale /\ t.ext.ping = s.ext.ping
      /\ t.ext.applied = s.ext.applied
  BY Zenon DEF DownStep, SameC, SameX, CFields, XFields
<1>2. Probes(t) /\ Sessions(t) /\ Links(t)
  BY Zenon, <1>1, ProbesKeep, SessionsKeep, LinksKeep DEF Core, DownStep
<1> QED
  BY Zenon, <1>1, <1>2 DEF Good, Core, DownStep, Fdir

\* The scheduler holds a request that nothing has been launched for yet.
Launching(s) ==
  /\ Scheduler(s) /\ Files(s)
  /\ s.c.sched.active # NoRequest /\ s.ext.fdNext < s.c.sched.active
  /\ s.c.rt = NoRequest /\ ~s.c.deferred.pending

\* A request that may be ended: nobody else waits.
Ending(s) ==
  /\ s.c.sched \in [active : Nat, link : Bands, launch : Int, next : Nat \ {0}]
  /\ s.c.sched.active < s.c.sched.next
  /\ Files(s) /\ s.ext.awaiting \subseteq {s.c.sched.active}

\* A launch hands the active request to the transfer or to FileDownlink, under
\* a fresh context.
LEMMA LaunchOkDown ==
  ASSUME NEW s, Shape(s), Launching(s), s.ext.awaiting = {s.c.sched.active}
  PROVE  LET t == LaunchOk(s, s.c.sched.active)
         IN  DownStep(s, t) /\ Down(t) /\ t.c.sched.active = s.c.sched.active
<1> DEFINE id == s.c.sched.active
           t == LaunchOk(s, id)
<1>1. id \in Nat /\ id # NoRequest /\ DOMAIN s.c.sched = {"active", "link", "launch", "next"}
  BY Zenon DEF Launching, Scheduler
<1>2. CASE UsesReliable(s)
  <2>1. /\ DownStep(s, t) /\ t.ext = s.ext
        /\ t.c.rt = id /\ t.c.deferred = s.c.deferred
        /\ t.c.sched = [s.c.sched EXCEPT !.launch = id]
    BY Zenon, <1>1, <1>2 DEF LaunchOk, Confirm, DownStep, Shape, SameC, SameX, CFields, XFields
  <2> HIDE DEF t
  <2>2. /\ t.c.sched \in [active : Nat, link : Bands, launch : Int, next : Nat \ {0}]
        /\ t.c.sched.active = id /\ t.c.sched.next = s.c.sched.next /\ t.c.sched.launch = id
    BY <1>1, <2>1 DEF Launching, Scheduler
  <2>3. Scheduler(t)
    BY Zenon, <1>1, <2>1, <2>2 DEF Launching, Scheduler
  <2>4. Files(t)
    BY Zenon, <2>1, <2>2 DEF Launching, Files
  <2>5. Tracked(t)
    BY Zenon, <2>1, <2>2 DEF Tracked
  <2>6. Down(t)
    BY <1>1, <2>1, <2>2, <2>3, <2>4, <2>5 DEF Down
  <2> QED
    BY Zenon, <2>1, <2>2, <2>6 DEF t
<1>3. CASE ~UsesReliable(s)
  <2> DEFINE n == s.ext.fdNext
             e == [context |-> n, request |-> id]
  <2>1. /\ DownStep(s, t)
        /\ t.c.rt = s.c.rt /\ t.c.deferred = s.c.deferred
        /\ t.c.sched = [s.c.sched EXCEPT !.launch = n]
        /\ t.ext.fd = s.ext.fd \cup {e} /\ t.ext.fdNext = n + 1
        /\ t.ext.awaiting = s.ext.awaiting
    BY Zenon, <1>1, <1>3 DEF LaunchOk, Confirm, DownStep, Shape, SameC, SameX, CFields, XFields
  <2> HIDE DEF t
  <2>2. n \in Nat /\ n < id /\ id < s.c.sched.next
    BY Zenon DEF Launching, Scheduler, Files
  <2>3. /\ t.c.sched \in [active : Nat, link : Bands, launch : Int, next : Nat \ {0}]
        /\ t.c.sched.active = id /\ t.c.sched.next = s.c.sched.next /\ t.c.sched.launch = n
    BY <1>1, <2>1, <2>2 DEF Launching, Scheduler
  <2>4. Scheduler(t)
    BY Zenon, <1>1, <2>1, <2>2, <2>3 DEF Launching, Scheduler
  <2>5. Files(t)
    <3>1. e \in [context : Nat, request : Nat] /\ e.context = n /\ e.request = id
      BY Zenon, <1>1, <2>2
    <3> HIDE DEF e
    <3>2. t.ext.fdNext \in Nat /\ t.ext.fdNext < t.c.sched.next
      BY <1>1, <2>1, <2>2, <2>3 DEF Launching, Scheduler
    <3>3. t.ext.fd \subseteq [context : Nat, request : Nat]
      BY Zenon, <2>1, <3>1 DEF Launching, Files
    <3>4. \A d \in t.ext.fd :
            /\ d.context < d.request /\ d.context < t.ext.fdNext /\ d.request < t.c.sched.next
            /\ t.c.sched.active # NoRequest => d.request <= t.c.sched.active
      BY <1>1, <2>1, <2>2, <2>3, <3>1, <3>3 DEF Launching, Files
    <3>5. \A d1, d2 \in t.ext.fd : d1.context = d2.context => d1 = d2
      BY <2>1, <2>2, <3>1 DEF Launching, Files
    <3> QED
      BY Zenon, <3>2, <3>3, <3>4, <3>5 DEF Files
  <2>6. Tracked(t)
    BY Zenon, <2>1, <2>3 DEF Tracked
  <2>7. Down(t)
    BY ZenonT(40), <1>1, <2>1, <2>3, <2>4, <2>5, <2>6 DEF Down
  <2> QED
    BY Zenon, <2>1, <2>3, <2>7 DEF t
<1> QED
  BY Zenon, <1>2, <1>3

\* A failed launch leaves a request that is about to be ended.
LEMMA LaunchFailedEnds ==
  ASSUME NEW s, Shape(s), Launching(s), s.ext.awaiting \subseteq {s.c.sched.active}
  PROVE  LET t == LaunchFailed(s)
         IN  DownStep(s, t) /\ Ending(t) /\ t.c.sched.active = s.c.sched.active
<1> DEFINE t == LaunchFailed(s)
<1>1. /\ DownStep(s, t) /\ t.c = s.c /\ t.ext.fd = s.ext.fd /\ t.ext.awaiting = s.ext.awaiting
      /\ t.ext.fdNext \in {s.ext.fdNext, s.ext.fdNext + 1}
  BY Zenon DEF LaunchFailed, DownStep, Shape, SameC, SameX, CFields, XFields
<1> HIDE DEF t
<1>2. Files(t)
  BY <1>1 DEF Launching, Scheduler, Files
<1>3. Ending(t)
  BY Zenon, <1>1, <1>2 DEF Launching, Scheduler, Ending
<1> QED
  BY Zenon, <1>1, <1>3 DEF t

\* Ending a request answers the catalogue and empties the scheduler.
LEMMA EndRequestDown ==
  ASSUME NEW s, Shape(s), Ending(s)
  PROVE  LET t == EndRequest(s)
         IN  DownStep(s, t) /\ Down(t) /\ Synced(t)
<1> DEFINE v == [s EXCEPT !.c.rt = NoRequest, !.c.deferred = NoDeferred, !.c.sched = ClearActive(@),
                          !.ext.awaiting = @ \ {s.c.sched.active}]
           t == Sync(v)
<1>1. /\ Shape(v) /\ v.u = s.u
      /\ SameC(s, v, {"sched", "rt", "deferred"}) /\ SameX(s, v, {"awaiting"})
      /\ v.c.rt = NoRequest /\ v.c.deferred = NoDeferred /\ v.c.sched = ClearActive(s.c.sched)
      /\ v.ext.awaiting = s.ext.awaiting \ {s.c.sched.active}
  BY Zenon DEF Shape, SameC, SameX, CFields, XFields
<1> HIDE DEF v
<1>2. Shape(t) /\ t.c = v.c /\ t.u = v.u /\ t.ext = v.ext /\ Synced(t)
  BY Zenon, <1>1, SyncFields
<1> HIDE DEF t
<1>3. /\ t.c.sched \in [active : Nat, link : Bands, launch : Int, next : Nat \ {0}]
      /\ t.c.sched.active = NoRequest /\ t.c.sched.next = s.c.sched.next
  <2>1. ASSUME NEW q \in [active : Nat, link : Bands, launch : Int, next : Nat \ {0}]
        PROVE  /\ ClearActive(q) \in [active : Nat, link : Bands, launch : Int, next : Nat \ {0}]
               /\ ClearActive(q).active = NoRequest /\ ClearActive(q).next = q.next
    <3> DEFINE a == [q EXCEPT !.active = NoRequest]
    <3>1. /\ a \in [active : Nat, link : Bands, launch : Int, next : Nat \ {0}]
          /\ a.active = NoRequest /\ a.next = q.next
      BY Zenon DEF NoRequest
    <3> HIDE DEF a
    <3>2. NO_ACTIVE_CONTEXT \in Int
      BY DEF NO_ACTIVE_CONTEXT
    <3>3. ClearActive(q) = [a EXCEPT !.launch = NO_ACTIVE_CONTEXT]
      BY Zenon DEF ClearActive, a
    <3> QED
      BY Zenon, <3>1, <3>2, <3>3
  <2> QED
    BY ZenonT(40), <1>1, <1>2, <2>1 DEF Ending
<1>4. t.ext.fd = s.ext.fd /\ t.ext.fdNext = s.ext.fdNext /\ t.ext.awaiting = {}
  BY Zenon, <1>1, <1>2 DEF SameX, XFields, Ending
<1>5. Scheduler(t)
  <2>1. NoDeferred \in [pending : BOOLEAN, ticks : Nat, request : Nat] /\ ~NoDeferred.pending
    BY Zenon DEF NoDeferred, NoRequest
  <2>2. t.c.sched.active < t.c.sched.next
    BY <1>3 DEF NoRequest
  <2> QED
    BY Zenon, <1>1, <1>2, <1>3, <2>1, <2>2 DEF Scheduler
<1>6. Files(t)
  BY Zenon, <1>3, <1>4 DEF Files, Ending
<1>7. Down(t)
  BY Zenon, <1>3, <1>4, <1>5, <1>6 DEF Down
<1>8. DownStep(s, t)
  BY Zenon, <1>1, <1>2 DEF DownStep, SameC, SameX
<1> QED
  BY Zenon, <1>2, <1>7, <1>8 DEF EndRequest, t, v

\* A tracked request may be ended at any time.
LEMMA DownEnds ==
  ASSUME NEW s, Down(s)
  PROVE  Ending(s)
BY Zenon DEF Down, Scheduler, Ending

\* Ending a request restores the whole invariant.
LEMMA EndRequestGood ==
  ASSUME NEW s, Core(s), Links(s)
  PROVE  Good(EndRequest(s))
<1>1. Ending(s) /\ Shape(s)
  BY Zenon, DownEnds DEF Core
<1> QED
  BY Zenon, <1>1, EndRequestDown, DownStepGood

\* Dropping the active request keeps it.
LEMMA DropActiveGood ==
  ASSUME NEW s, Good(s)
  PROVE  Good(DropActive(s))
BY Zenon, EndRequestGood DEF DropActive, Good

\* A deferred launch is postponed, made or given up; each keeps it.
LEMMA ProcessDeferredGood ==
  ASSUME NEW s, Good(s), NEW ok
  PROVE  Good(ProcessDeferred(s, ok))
<1>1. Shape(s) /\ Down(s) /\ Core(s) /\ Links(s)
  BY Zenon DEF Good, Core
<1>2. CASE s.c.deferred.pending /\ s.c.deferred.ticks > 0
  <2> DEFINE t == [s EXCEPT !.c.deferred.ticks = @ - 1]
  <2>1. /\ DownStep(s, t) /\ t.egress = s.egress /\ t.c.sched = s.c.sched /\ t.c.rt = s.c.rt
        /\ t.ext = s.ext
        /\ t.c.deferred = [s.c.deferred EXCEPT !.ticks = @ - 1]
    BY Zenon, <1>1 DEF Shape, DownStep, SameC, SameX, CFields
  <2> HIDE DEF t
  <2>2. /\ t.c.deferred \in [pending : BOOLEAN, ticks : Nat, request : Nat]
        /\ t.c.deferred.pending = s.c.deferred.pending
        /\ t.c.deferred.request = s.c.deferred.request
    <3>1. ASSUME NEW d \in [pending : BOOLEAN, ticks : Nat, request : Nat], d.ticks > 0
          PROVE  /\ [d EXCEPT !.ticks = @ - 1] \in [pending : BOOLEAN, ticks : Nat, request : Nat]
                 /\ [d EXCEPT !.ticks = @ - 1].pending = d.pending
                 /\ [d EXCEPT !.ticks = @ - 1].request = d.request
      BY <3>1
    <3> QED
      BY ZenonT(40), <1>1, <1>2, <2>1, <3>1 DEF Down, Scheduler
  <2>3. Down(t)
    BY Zenon, <1>1, <2>1, <2>2 DEF Down, Scheduler, Files, Tracked
  <2>4. t.c.primary = s.c.primary /\ t.c.live = s.c.live
    BY Zenon, <2>1 DEF DownStep, SameC, CFields
  <2>5. Good(t)
    BY Zenon, <1>1, <2>1, <2>3, <2>4, DownStepGood, SyncedKeeps DEF Good
  <2> QED
    BY Zenon, <1>2, <2>5 DEF ProcessDeferred, t
<1>3. CASE s.c.deferred.pending /\ ~(s.c.deferred.ticks > 0)
  <2> DEFINE v == [s EXCEPT !.c.deferred = NoDeferred]
  <2>1. /\ DownStep(s, v) /\ v.egress = s.egress /\ v.c.sched = s.c.sched /\ v.c.rt = s.c.rt
        /\ v.ext = s.ext /\ v.c.deferred = NoDeferred
    BY Zenon, <1>1 DEF Shape, DownStep, SameC, SameX, CFields
  <2>2. /\ s.c.deferred.request = s.c.sched.active /\ s.c.sched.active # NoRequest
        /\ s.ext.awaiting = {s.c.sched.active}
    BY Zenon, <1>1, <1>3 DEF Down, Scheduler
  <2> HIDE DEF v
  <2>3. Launching(v)
    <3>1. v.c.rt = NoRequest /\ v.ext.fdNext < v.c.sched.active
      BY Zenon, <1>1, <1>3, <2>1, <2>2 DEF Down, Scheduler
    <3>2. Scheduler(v)
      BY <1>1, <2>1, <3>1 DEF Down, Scheduler, NoDeferred, NoRequest
    <3>3. Files(v)
      BY Zenon, <1>1, <2>1 DEF Down, Files
    <3> QED
      BY <2>1, <2>2, <3>1, <3>2, <3>3 DEF Launching, NoDeferred
  <2>4. Shape(v) /\ v.ext.awaiting = {v.c.sched.active}
    BY Zenon, <2>1, <2>2 DEF DownStep
  <2>5. CASE ok
    <3> DEFINE t == LaunchOk(v, v.c.sched.active)
    <3>1. DownStep(v, t) /\ Down(t)
      BY Zenon, <2>3, <2>4, LaunchOkDown
    <3> HIDE DEF t
    <3>2. Shape(Sync(t)) /\ Sync(t).c = t.c /\ Sync(t).u = t.u /\ Sync(t).ext = t.ext /\ Synced(Sync(t))
      BY Zenon, <3>1, SyncFields DEF DownStep
    <3>3. DownStep(s, Sync(t))
      BY Zenon, <2>1, <3>1, <3>2 DEF DownStep, SameC, SameX
    <3>4. Down(Sync(t))
      BY Zenon, <3>1, <3>2, DownKeeps
    <3>5. Good(Sync(t))
      BY Zenon, <1>1, <3>2, <3>3, <3>4, DownStepGood
    <3> QED
      BY Zenon, <1>3, <2>1, <2>2, <2>5, <3>5 DEF ProcessDeferred, v, t
  <2>6. CASE ~ok
    <3> DEFINE f == LaunchFailed(v)
               t == EndRequest(f)
    <3>1. DownStep(v, f) /\ Ending(f) /\ f.c.sched.active = v.c.sched.active
      BY Zenon, <2>3, <2>4, LaunchFailedEnds
    <3> HIDE DEF f
    <3>2. DownStep(f, t) /\ Down(t) /\ Synced(t)
      BY Zenon, <3>1, EndRequestDown DEF DownStep
    <3> HIDE DEF t
    <3>3. DownStep(s, t)
      BY Zenon, <2>1, <3>1, <3>2 DEF DownStep, SameC, SameX
    <3>4. Good(t)
      BY Zenon, <1>1, <3>2, <3>3, DownStepGood
    <3>5. f.c.sched.active # NoRequest
      BY Zenon, <2>1, <2>2, <3>1
    <3> QED
      BY Zenon, <1>3, <2>6, <3>4, <3>5 DEF ProcessDeferred, DropActive, v, f, t
  <2> QED
    BY Zenon, <2>5, <2>6
<1>4. CASE ~s.c.deferred.pending
  BY Zenon, <1>4 DEF ProcessDeferred
<1> QED
  BY Zenon, <1>2, <1>3, <1>4

\* The end of a reliable transfer ends its own request.
LEMMA PollReliableGood ==
  ASSUME NEW s, Good(s), NEW finished
  PROVE  Good(PollReliable(s, finished))
<1>1. Shape(s) /\ Down(s) /\ Core(s) /\ Links(s)
  BY Zenon DEF Good, Core
<1>2. CASE s.c.rt = NoRequest \/ ~finished
  BY Zenon, <1>2 DEF PollReliable
<1>3. CASE ~(s.c.rt = NoRequest \/ ~finished)
  <2> DEFINE v == [s EXCEPT !.c.rt = NoRequest]
             t == EndRequest(v)
  <2>1. Completes(s.c.sched, s.c.rt)
    BY <1>1, <1>3 DEF Down, Scheduler, Completes, NO_ACTIVE_CONTEXT, NoRequest
  <2>2. DownStep(s, v) /\ v.c.sched = s.c.sched /\ v.ext = s.ext
    BY Zenon, <1>1 DEF Shape, DownStep, SameC, SameX, CFields
  <2> HIDE DEF v
  <2>3. Ending(v)
    BY Zenon, <1>1, <2>2 DEF Down, Scheduler, Files, Ending
  <2>4. DownStep(v, t) /\ Down(t) /\ Synced(t)
    BY Zenon, <2>2, <2>3, EndRequestDown DEF DownStep
  <2> HIDE DEF t
  <2>5. DownStep(s, t)
    BY Zenon, <2>2, <2>4 DEF DownStep, SameC, SameX
  <2>6. Good(t)
    BY Zenon, <1>1, <2>4, <2>5, DownStepGood
  <2> QED
    BY Zenon, <1>3, <2>1, <2>6 DEF PollReliable, t, v
<1> QED
  BY Zenon, <1>2, <1>3
-----------------------------------------------------------------------------
(* The uplink. *)

SameU(v, t, but) == \A f \in UFields \ but : t[f] = v[f]

\* The running commands concern the mux alone.
LEMMA MuxedKeeps ==
  ASSUME NEW v, NEW t, Muxed(v), t.mux = v.mux, t.muxNext = v.muxNext, t.running = v.running
  PROVE  Muxed(t)
BY Zenon DEF Muxed

\* A change of the authorisations and file states that opens and closes nothing.
LEMMA AuthKept ==
  ASSUME NEW v, NEW t, Uplink(v), DOMAIN t = UFields, SameU(v, t, {"auth", "file"}),
         t.auth \in [Ports -> [active : BOOLEAN, key : Nat, idle : Nat]],
         t.file \in FileStates,
         \A p \in Ports : /\ t.auth[p].active = v.auth[p].active /\ t.auth[p].key = v.auth[p].key
                          /\ t.file[p].auth = v.file[p].auth
  PROVE  Uplink(t)
<1>1. /\ t.pending = v.pending /\ t.session = v.session /\ t.window = v.window /\ t.role = v.role
      /\ t.nonce = v.nonce /\ t.token = v.token /\ t.mux = v.mux /\ t.muxNext = v.muxNext
      /\ t.running = v.running /\ t.seen = v.seen /\ t.replayed = v.replayed
  BY Zenon DEF SameU, UFields
<1>2. UplinkType(t)
  BY Zenon, <1>1 DEF Uplink, UplinkType
<1>3. \A p \in Ports : Authorised(t, p)
  BY SMTT(30), <1>1 DEF Uplink, Authorised
<1>4. Windows(t) /\ Fresh(t)
  BY <1>1 DEF Uplink, Windows, Fresh, KeyOf
<1>5. Muxed(t)
  BY Zenon, <1>1, MuxedKeeps DEF Uplink
<1> QED
  BY Zenon, <1>2, <1>3, <1>4, <1>5 DEF Uplink

\* Closing a session removes its entries of the sequence window.
LEMMA CloseFields ==
  ASSUME NEW v, UplinkType(v), Windows(v), NEW p \in Ports,
         ~v.session[p].open => v.session[p] = NoSession
  PROVE  LET t == CloseSession(v, p)
         IN  /\ DOMAIN t = UFields /\ SameU(v, t, {"session", "window"})
             /\ t.session = [v.session EXCEPT ![p] = NoSession]
             /\ t.window = {w \in v.window : w.port # p}
<1> DEFINE t == CloseSession(v, p)
<1>1. CASE ~v.session[p].open
  <2>1. t = v
    BY Zenon, <1>1 DEF CloseSession
  <2>2. v.session = [v.session EXCEPT ![p] = NoSession]
    BY Zenon, <1>1 DEF UplinkType
  <2>3. v.window = {w \in v.window : w.port # p}
    BY Zenon, <1>1 DEF Windows
  <2> QED
    BY Zenon, <2>1, <2>2, <2>3 DEF SameU, UplinkType
<1>2. CASE v.session[p].open
  <2> DEFINE left == ResetSource(v.window, p, v.session[p].role)
  <2>1. t = [v EXCEPT !.window = left, !.session[p] = NoSession]
    BY Zenon, <1>2 DEF CloseSession
  <2> HIDE DEF left
  <2>2. /\ DOMAIN t = UFields /\ SameU(v, t, {"session", "window"})
        /\ t.session = [v.session EXCEPT ![p] = NoSession] /\ t.window = left
    BY Zenon, <2>1 DEF UplinkType, SameU, UFields
  <2>3. left = {w \in v.window : w.port # p}
    BY Zenon DEF left, ResetSource, Windows, UplinkType
  <2> QED
    BY Zenon, <2>2, <2>3
<1> QED
  BY Zenon, <1>1, <1>2

\* The port p of v is no longer authorised in t.
RevokedTo(v, t, p) ==
  /\ DOMAIN t = UFields
  /\ SameU(v, t, {"session", "window", "auth", "file", "pending", "role"})
  /\ t.session = [v.session EXCEPT ![p] = NoSession]
  /\ t.window = {w \in v.window : w.port # p}
  /\ t.auth \in [Ports -> [active : BOOLEAN, key : Nat, idle : Nat]] /\ ~t.auth[p].active
  /\ t.file \in FileStates /\ ~t.file[p].auth
  /\ t.pending \in [Ports -> Nat] /\ t.pending[p] \in {v.pending[p], 0}
  /\ t.role \in [Ports -> Roles]
  /\ \A q \in Ports \ {p} : /\ t.auth[q] = v.auth[q] /\ t.file[q] = v.file[q]
                            /\ t.pending[q] = v.pending[q] /\ t.role[q] = v.role[q]

\* A revoked port has neither session, window nor grant left, and the other
\* port keeps its own.
LEMMA RevokedUplink ==
  ASSUME NEW v, NEW t, NEW p \in Ports, Uplink(v), RevokedTo(v, t, p)
  PROVE  Uplink(t)
<1>1. /\ t.nonce = v.nonce /\ t.token = v.token /\ t.mux = v.mux /\ t.muxNext = v.muxNext
      /\ t.running = v.running /\ t.seen = v.seen /\ t.replayed = v.replayed
  BY Zenon DEF RevokedTo, SameU, UFields
<1>2. /\ NoSession \in [open : BOOLEAN, key : Nat, role : Roles, id : Nat, last : Nat]
      /\ NoSession.open = FALSE
  BY Zenon DEF NoSession, Roles
<1>3. /\ t.session[p] = NoSession /\ \A q \in Ports \ {p} : t.session[q] = v.session[q]
      /\ t.session \in [Ports -> [open : BOOLEAN, key : Nat, role : Roles, id : Nat, last : Nat]]
  BY <1>2 DEF RevokedTo, Uplink, UplinkType
<1>4. UplinkType(t)
  BY Zenon, <1>1, <1>3 DEF RevokedTo, Uplink, UplinkType
<1>5. ASSUME NEW q \in Ports PROVE Authorised(t, q)
  <2>1. CASE q = p
    BY ZenonT(30), <1>2, <1>3, <2>1 DEF RevokedTo, Authorised, FileStates
  <2>2. CASE q # p
    BY SMTT(30), <1>3, <2>2 DEF RevokedTo, Authorised, Uplink, FileStates
  <2> QED
    BY Zenon, <2>1, <2>2
<1>6. Windows(t)
  BY <1>3 DEF RevokedTo, Uplink, UplinkType, Windows
<1>7. Fresh(t)
  <2>1. KeyOf(t, p) = 0 /\ \A q \in Ports \ {p} : KeyOf(t, q) = KeyOf(v, q)
    BY Zenon, <1>2, <1>3 DEF KeyOf
  <2>2. \A q \in Ports : KeyOf(t, q) <= t.nonce /\ t.pending[q] <= t.nonce
    <3>1. v.nonce \in Nat /\ \A q \in Ports : KeyOf(v, q) <= v.nonce /\ v.pending[q] <= v.nonce
      BY Zenon DEF Uplink, UplinkType, Fresh
    <3>2. \A q \in Ports : t.pending[q] \in {v.pending[q], 0} /\ KeyOf(t, q) \in {KeyOf(v, q), 0}
      BY Zenon, <2>1 DEF RevokedTo
    <3> QED
      BY <1>1, <3>1, <3>2
  <2>3. ASSUME NEW q \in Ports, t.pending[q] # 0
        PROVE  /\ \A x \in t.seen : x[1] # t.pending[q]
               /\ \A o \in Ports : KeyOf(t, o) # t.pending[q]
               /\ \A o \in Ports \ {q} : t.pending[o] # t.pending[q]
    <3>1. t.pending[q] = v.pending[q]
      BY Zenon, <2>3 DEF RevokedTo
    <3>2. \A o \in Ports : t.pending[o] \in {v.pending[o], 0} /\ KeyOf(t, o) \in {KeyOf(v, o), 0}
      BY Zenon, <2>1 DEF RevokedTo
    <3> QED
      BY <1>1, <2>3, <3>1, <3>2 DEF Uplink, Fresh
  <2>4. ASSUME NEW q \in Ports, t.session[q].open
        PROVE  /\ t.session[q].key # 0
               /\ \A o \in Ports \ {q} : KeyOf(t, o) # t.session[q].key
               /\ \A x \in t.seen : x[1] = t.session[q].key =>
                    \E w \in t.window : w.port = q /\ x[2] <= w.last
    <3>1. q # p /\ t.session[q] = v.session[q]
      BY Zenon, <1>2, <1>3, <2>4
    <3>2. \A o \in Ports : KeyOf(t, o) \in {KeyOf(v, o), 0}
      BY Zenon, <2>1
    <3>3. \A w \in v.window : w.port = q => w \in t.window
      BY Zenon, <3>1 DEF RevokedTo
    <3> QED
      BY <1>1, <2>4, <3>1, <3>2, <3>3 DEF Uplink, Fresh
  <2> QED
    BY Zenon, <1>1, <2>2, <2>3, <2>4 DEF Uplink, Fresh
<1>8. Muxed(t)
  BY Zenon, <1>1, MuxedKeeps DEF Uplink
<1> QED
  BY Zenon, <1>4, <1>5, <1>6, <1>7, <1>8 DEF Uplink

\* Revoking a file grant drops the transfer under way on that port only.
LEMMA FileRevokedFields ==
  ASSUME NEW v, NEW p \in Ports, DOMAIN v = UFields, v.file \in FileStates
  PROVE  LET t == FileRevoked(v, p)
         IN  /\ DOMAIN t = UFields /\ SameU(v, t, {"file"}) /\ t.file \in FileStates
             /\ ~t.file[p].auth /\ t.file[p].allowed = v.file[p].allowed
             /\ v.file[p].drop => t.file[p].drop
             /\ \A q \in Ports \ {p} : t.file[q] = v.file[q]
<1> DEFINE d == v.file[p].drop \/ v.file[p].auth
           new == [v.file[p] EXCEPT !.drop = d]
           last == [new EXCEPT !.auth = FALSE]
           one == [v EXCEPT !.file[p].drop = d]
           t == [one EXCEPT !.file[p].auth = FALSE]
<1>1. t = FileRevoked(v, p)
  BY Zenon DEF FileRevoked
<1>2. /\ d \in BOOLEAN /\ (v.file[p].drop => d)
      /\ v.file[p] \in [auth : BOOLEAN, allowed : BOOLEAN, drop : BOOLEAN]
  BY Zenon DEF FileStates
<1>3. DOMAIN one = UFields /\ SameU(v, one, {"file"}) /\ one.file = [v.file EXCEPT ![p] = new]
  BY Zenon DEF UFields, SameU
<1> HIDE DEF one, d
<1>4. /\ new \in [auth : BOOLEAN, allowed : BOOLEAN, drop : BOOLEAN]
      /\ new.drop = d /\ new.allowed = v.file[p].allowed
  BY Zenon, <1>2
<1> HIDE DEF new
<1>5. /\ one.file \in FileStates /\ one.file[p] = new
      /\ \A q \in Ports \ {p} : one.file[q] = v.file[q]
  BY Zenon, <1>3, <1>4 DEF FileStates
<1>6. DOMAIN t = UFields /\ SameU(one, t, {"file"}) /\ t.file = [one.file EXCEPT ![p] = last]
  BY Zenon, <1>3, <1>5 DEF UFields, SameU
<1>7. /\ last \in [auth : BOOLEAN, allowed : BOOLEAN, drop : BOOLEAN]
      /\ last.auth = FALSE /\ last.drop = d /\ last.allowed = v.file[p].allowed
  BY Zenon, <1>4
<1> HIDE DEF last, t
<1>8. /\ t.file \in FileStates /\ t.file[p] = last
      /\ \A q \in Ports \ {p} : t.file[q] = one.file[q]
  BY ZenonT(40), <1>5, <1>6, <1>7 DEF FileStates
<1>9. SameU(v, t, {"file"})
  BY Zenon, <1>3, <1>6 DEF SameU
<1> QED
  BY Zenon, <1>1, <1>2, <1>5, <1>6, <1>7, <1>8, <1>9

\* revokeActiveAuth_ with both consumers told.
LEMMA RevokeAuthRevokes ==
  ASSUME NEW v, NEW p \in Ports, Uplink(v)
  PROVE  LET t == RevokeAuth(v, p)
         IN  /\ RevokedTo(v, t, p) /\ t.role = v.role
             /\ t.file[p].allowed = v.file[p].allowed
             /\ v.file[p].drop => t.file[p].drop
<1> DEFINE shut == CloseSession(v, p)
           t == RevokeAuth(v, p)
<1>1. /\ DOMAIN shut = UFields /\ SameU(v, shut, {"session", "window"})
      /\ shut.session = [v.session EXCEPT ![p] = NoSession]
      /\ shut.window = {w \in v.window : w.port # p}
  BY CloseFields DEF Uplink, Authorised
<1> HIDE DEF shut
<1>2. shut.file = v.file /\ shut.auth = v.auth /\ shut.pending = v.pending /\ shut.role = v.role
  BY Zenon, <1>1 DEF SameU, UFields
<1> DEFINE file == FileRevoked(shut, p)
<1>3. /\ DOMAIN file = UFields /\ SameU(shut, file, {"file"})
      /\ file.file \in FileStates
      /\ ~file.file[p].auth /\ file.file[p].allowed = v.file[p].allowed
      /\ v.file[p].drop => file.file[p].drop
      /\ \A q \in Ports \ {p} : file.file[q] = v.file[q]
  BY <1>1, <1>2, FileRevokedFields DEF Uplink, UplinkType
<1>4. t = [file EXCEPT !.auth[p] = NoAuth]
  BY Zenon DEF RevokeAuth, shut
<1> HIDE DEF file, t
<1>5. file.auth = v.auth /\ file.pending = v.pending /\ file.role = v.role
      /\ file.session = shut.session /\ file.window = shut.window
  BY Zenon, <1>2, <1>3 DEF SameU, UFields
<1>6. DOMAIN t = UFields /\ SameU(file, t, {"auth"}) /\ t.auth = [v.auth EXCEPT ![p] = NoAuth]
  BY Zenon, <1>3, <1>4, <1>5 DEF SameU, UFields
<1>7. /\ t.auth \in [Ports -> [active : BOOLEAN, key : Nat, idle : Nat]] /\ ~t.auth[p].active
      /\ \A q \in Ports \ {p} : t.auth[q] = v.auth[q]
  BY <1>6 DEF NoAuth, Uplink, UplinkType
<1>8. /\ t.file = file.file /\ t.pending = v.pending /\ t.role = v.role
      /\ t.session = shut.session /\ t.window = shut.window
  BY Zenon, <1>5, <1>6 DEF SameU, UFields
<1>9. SameU(v, t, {"session", "window", "auth", "file", "pending", "role"})
  BY Zenon, <1>1, <1>3, <1>6 DEF SameU
<1>10. RevokedTo(v, t, p)
  <2>1. v.pending \in [Ports -> Nat] /\ v.role \in [Ports -> Roles]
    BY Zenon DEF Uplink, UplinkType
  <2> QED
    BY ZenonT(40), <1>1, <1>3, <1>6, <1>7, <1>8, <1>9, <2>1 DEF RevokedTo
<1> QED
  BY Zenon, <1>3, <1>8, <1>10 DEF t

\* A session revoked silently, then the authorisation of its port invalidated:
\* what the handlers that hold the controller's lock do.
LEMMA InvalidatedRevokes ==
  ASSUME NEW v, NEW p \in Ports, Uplink(v)
  PROVE  LET t == Invalidate(CloseSession(v, p), p)
         IN  /\ RevokedTo(v, t, p) /\ t.role = v.role /\ ~CloseSession(v, p).session[p].open
             /\ t.file[p].allowed = v.file[p].allowed
             /\ v.file[p].drop => t.file[p].drop
<1> DEFINE shut == CloseSession(v, p)
           t == Invalidate(shut, p)
<1>1. /\ DOMAIN shut = UFields /\ SameU(v, shut, {"session", "window"})
      /\ shut.session = [v.session EXCEPT ![p] = NoSession]
      /\ shut.window = {w \in v.window : w.port # p}
  BY CloseFields DEF Uplink, Authorised
<1> HIDE DEF shut
<1>2. /\ shut.file = v.file /\ shut.auth = v.auth /\ shut.pending = v.pending /\ shut.role = v.role
      /\ ~shut.session[p].open
  BY <1>1 DEF SameU, UFields, NoSession, Uplink, UplinkType
<1> DEFINE cleared == [shut EXCEPT !.pending[p] = 0]
<1>3. /\ DOMAIN cleared = UFields /\ SameU(shut, cleared, {"pending"})
      /\ cleared.pending = [v.pending EXCEPT ![p] = 0]
  BY Zenon, <1>1, <1>2 DEF SameU, UFields
<1>4. t = IF v.auth[p].active THEN RevokeAuth(cleared, p) ELSE cleared
  BY Zenon, <1>2 DEF Invalidate
<1> HIDE DEF cleared, t
<1>5. /\ cleared.file = v.file /\ cleared.auth = v.auth /\ cleared.role = v.role
      /\ cleared.session = shut.session /\ cleared.window = shut.window
  BY Zenon, <1>2, <1>3 DEF SameU, UFields
<1>6. /\ v.pending \in [Ports -> Nat] /\ v.role \in [Ports -> Roles]
      /\ v.auth \in [Ports -> [active : BOOLEAN, key : Nat, idle : Nat]]
      /\ v.file \in FileStates
      /\ v.file[p].auth = v.auth[p].active
  BY Zenon DEF Uplink, UplinkType, Authorised
<1>7. /\ cleared.pending \in [Ports -> Nat] /\ cleared.pending[p] = 0
      /\ \A q \in Ports \ {p} : cleared.pending[q] = v.pending[q]
  BY <1>3, <1>6
<1>8. CASE ~v.auth[p].active
  <2>1. RevokedTo(v, cleared, p)
    BY Zenon, <1>1, <1>3, <1>5, <1>6, <1>7, <1>8 DEF RevokedTo, SameU
  <2> QED
    BY Zenon, <1>2, <1>4, <1>5, <1>8, <2>1 DEF shut, t
<1>9. CASE v.auth[p].active
  <2> DEFINE file == FileRevoked(cleared, p)
  <2>1. CloseSession(cleared, p) = cleared
    BY Zenon, <1>2, <1>5 DEF CloseSession
  <2>2. /\ DOMAIN file = UFields /\ SameU(cleared, file, {"file"})
        /\ file.file \in FileStates
        /\ ~file.file[p].auth /\ file.file[p].allowed = v.file[p].allowed
        /\ v.file[p].drop => file.file[p].drop
        /\ \A q \in Ports \ {p} : file.file[q] = v.file[q]
    BY <1>3, <1>5, <1>6, FileRevokedFields
  <2>3. t = [file EXCEPT !.auth[p] = NoAuth]
    BY Zenon, <1>4, <1>9, <2>1 DEF RevokeAuth
  <2> HIDE DEF file
  <2>4. /\ file.auth = v.auth /\ file.pending = cleared.pending /\ file.role = v.role
        /\ file.session = shut.session /\ file.window = shut.window
    BY Zenon, <1>5, <2>2 DEF SameU, UFields
  <2>5. DOMAIN t = UFields /\ SameU(file, t, {"auth"}) /\ t.auth = [v.auth EXCEPT ![p] = NoAuth]
    BY Zenon, <2>2, <2>3, <2>4 DEF SameU, UFields
  <2>6. /\ t.auth \in [Ports -> [active : BOOLEAN, key : Nat, idle : Nat]] /\ ~t.auth[p].active
        /\ \A q \in Ports \ {p} : t.auth[q] = v.auth[q]
    BY <1>6, <2>5 DEF NoAuth
  <2>7. /\ t.file = file.file /\ t.pending = cleared.pending /\ t.role = v.role
        /\ t.session = shut.session /\ t.window = shut.window
    BY Zenon, <2>4, <2>5 DEF SameU, UFields
  <2>8. SameU(v, t, {"session", "window", "auth", "file", "pending", "role"})
    BY SMTT(30), <1>1, <1>3, <2>2, <2>5 DEF SameU
  <2>9. RevokedTo(v, t, p)
    BY SMTT(30), <1>1, <1>6, <1>7, <2>2, <2>5, <2>6, <2>7, <2>8 DEF RevokedTo
  <2> QED
    BY Zenon, <1>2, <2>2, <2>7, <2>9 DEF shut, t
<1> QED
  BY Zenon, <1>8, <1>9

\* A new challenge is a number no key has used.
LEMMA ChallengeUplink ==
  ASSUME NEW v, NEW p \in Ports, Uplink(v)
  PROVE  Uplink(IssueChallenge(v, p))
<1> DEFINE t == IssueChallenge(v, p)
           n == v.nonce + 1
<1>1. v.nonce \in Nat /\ v.pending \in [Ports -> Nat] /\ DOMAIN v = UFields
  BY Zenon DEF Uplink, UplinkType
<1>2. /\ DOMAIN t = UFields /\ SameU(v, t, {"nonce", "pending"})
      /\ t.nonce = n /\ t.pending = [v.pending EXCEPT ![p] = n]
  BY Zenon, <1>1 DEF IssueChallenge, SameU, UFields
<1> HIDE DEF t
<1>3. /\ t.auth = v.auth /\ t.session = v.session /\ t.window = v.window /\ t.role = v.role
      /\ t.file = v.file /\ t.token = v.token /\ t.mux = v.mux /\ t.muxNext = v.muxNext
      /\ t.running = v.running /\ t.seen = v.seen /\ t.replayed = v.replayed
  BY Zenon, <1>2 DEF SameU, UFields
<1>4. UplinkType(t) /\ Windows(t) /\ \A q \in Ports : Authorised(t, q)
  BY <1>1, <1>2, <1>3 DEF Uplink, UplinkType, Windows, Authorised
<1>5. \A q \in Ports : /\ KeyOf(t, q) = KeyOf(v, q) /\ KeyOf(v, q) \in Nat /\ KeyOf(v, q) <= v.nonce
                       /\ v.pending[q] \in Nat /\ v.pending[q] <= v.nonce
  BY Zenon, <1>3 DEF KeyOf, Uplink, UplinkType, Fresh
<1>6. \A x \in v.seen : x[1] \in Nat /\ x[1] <= v.nonce
  BY Zenon DEF Uplink, UplinkType, Fresh
<1>7. t.pending[p] = n /\ \A q \in Ports \ {p} : t.pending[q] = v.pending[q]
  BY Zenon, <1>1, <1>2
<1>8. Fresh(t)
  <2>1. ASSUME NEW q \in Ports, t.pending[q] # 0
        PROVE  /\ \A x \in t.seen : x[1] # t.pending[q]
               /\ \A o \in Ports : KeyOf(t, o) # t.pending[q]
               /\ \A o \in Ports \ {q} : t.pending[o] # t.pending[q]
    <3>1. CASE q = p
      BY <1>1, <1>3, <1>5, <1>6, <1>7, <3>1
    <3>2. CASE q # p
      <4>1. /\ \A x \in v.seen : x[1] # v.pending[q]
            /\ \A o \in Ports : KeyOf(v, o) # v.pending[q]
            /\ \A o \in Ports \ {q} : v.pending[o] # v.pending[q]
        BY Zenon, <1>7, <2>1, <3>2 DEF Uplink, Fresh
      <4>2. \A o \in Ports \ {q} : t.pending[o] # t.pending[q]
        BY SMTT(30), <1>1, <1>5, <1>7, <3>2, <4>1
      <4> QED
        BY Zenon, <1>3, <1>5, <1>7, <3>2, <4>1, <4>2
    <3> QED
      BY Zenon, <3>1, <3>2
  <2>2. \A x \in t.seen : x[1] <= t.nonce
    BY <1>1, <1>2, <1>3, <1>6
  <2>3. \A q \in Ports : KeyOf(t, q) <= t.nonce /\ t.pending[q] <= t.nonce
    BY <1>1, <1>2, <1>5, <1>7
  <2> QED
    BY <1>3, <1>5, <2>1, <2>2, <2>3 DEF Uplink, Fresh
<1>9. Uplink(t)
  BY Zenon, <1>3, <1>4, <1>8, MuxedKeeps DEF Uplink
<1> QED
  BY Zenon, <1>9 DEF t

\* The session and the authorisation a response to the pending challenge gives.
NewSession(v, p) ==
  [open |-> TRUE, key |-> v.pending[p], role |-> v.role[p], id |-> v.token, last |-> 0]
NewAuth(v, p) == [active |-> TRUE, key |-> v.pending[p], idle |-> 0]

\* establishAuth_ with both consumers told.
EstablishedTo(v, t, p) ==
  /\ DOMAIN t = UFields
  /\ SameU(v, t, {"session", "window", "auth", "file", "pending", "token"})
  /\ t.session = [v.session EXCEPT ![p] = NewSession(v, p)]
  /\ t.window = {w \in v.window : w.port # p}
  /\ t.token = v.token + 1
  /\ t.auth = [v.auth EXCEPT ![p] = NewAuth(v, p)]
  /\ t.pending = [v.pending EXCEPT ![p] = 0]
  /\ t.file \in FileStates /\ t.file[p].auth = TRUE
  /\ t.file[p].allowed = v.file[p].allowed /\ t.file[p].drop = v.file[p].drop
  /\ \A q \in Ports \ {p} : t.file[q] = v.file[q]

\* What establishing an authorisation changes.
LEMMA EstablishFields ==
  ASSUME NEW v, NEW p \in Ports, Uplink(v)
  PROVE  EstablishedTo(v, EstablishAuth(v, p), p)
<1> DEFINE new == NewSession(v, p)
           grant == NewAuth(v, p)
           shut == CloseSession(v, p)
           left == ResetSource(shut.window, p, v.role[p])
           open == OpenSession(v, p, v.pending[p])
           file == FileGranted(open, p)
           t == EstablishAuth(v, p)
<1>1. /\ DOMAIN shut = UFields /\ SameU(v, shut, {"session", "window"})
      /\ shut.session = [v.session EXCEPT ![p] = NoSession]
      /\ shut.window = {w \in v.window : w.port # p}
  BY CloseFields DEF Uplink, Authorised
<1>2. open = [shut EXCEPT !.window = left, !.session[p] = new, !.token = shut.token + 1]
  BY Zenon DEF OpenSession, NewSession
<1>3. t = [file EXCEPT !.auth[p] = grant, !.pending[p] = 0]
  BY Zenon DEF EstablishAuth, NewAuth
<1> HIDE DEF new, grant, shut, left, open, t
<1>4. left = shut.window
  BY Zenon, <1>1 DEF left, ResetSource
<1>5. shut.token = v.token /\ shut.file = v.file /\ shut.auth = v.auth /\ shut.pending = v.pending
  BY Zenon, <1>1 DEF SameU, UFields
<1>6. /\ DOMAIN open = UFields /\ SameU(shut, open, {"session", "window", "token"})
      /\ open.session = [shut.session EXCEPT ![p] = new] /\ open.window = shut.window
      /\ open.token = v.token + 1
  BY Zenon, <1>1, <1>2, <1>4, <1>5 DEF SameU, UFields
<1>7. open.session = [v.session EXCEPT ![p] = new]
  BY Zenon, <1>1, <1>6 DEF Uplink, UplinkType
<1>8. open.file = v.file /\ open.auth = v.auth /\ open.pending = v.pending
  BY Zenon, <1>5, <1>6 DEF SameU, UFields
<1>9. /\ DOMAIN file = UFields /\ SameU(open, file, {"file"})
      /\ file.file = [v.file EXCEPT ![p].auth = TRUE]
  BY Zenon, <1>6, <1>8 DEF FileGranted, SameU, UFields
<1>10. /\ file.file \in FileStates /\ file.file[p].auth = TRUE
       /\ file.file[p].allowed = v.file[p].allowed /\ file.file[p].drop = v.file[p].drop
       /\ \A q \in Ports \ {p} : file.file[q] = v.file[q]
  <2> DEFINE state == [v.file[p] EXCEPT !.auth = TRUE]
  <2>1. v.file \in FileStates
    BY Zenon DEF Uplink, UplinkType
  <2>2. /\ state \in [auth : BOOLEAN, allowed : BOOLEAN, drop : BOOLEAN] /\ state.auth = TRUE
        /\ state.allowed = v.file[p].allowed /\ state.drop = v.file[p].drop
    BY Zenon, <2>1 DEF FileStates
  <2>3. file.file = [v.file EXCEPT ![p] = state]
    BY Zenon, <1>9
  <2> HIDE DEF state, file
  <2> QED
    BY Zenon, <2>1, <2>2, <2>3 DEF FileStates
<1> HIDE DEF file
<1>11. /\ file.auth = v.auth /\ file.pending = v.pending /\ file.session = open.session
       /\ file.window = open.window /\ file.token = open.token
  BY Zenon, <1>8, <1>9 DEF SameU, UFields
<1>12. /\ DOMAIN t = UFields /\ SameU(file, t, {"auth", "pending"})
       /\ t.auth = [v.auth EXCEPT ![p] = grant] /\ t.pending = [v.pending EXCEPT ![p] = 0]
  BY Zenon, <1>3, <1>9, <1>11 DEF SameU, UFields
<1>13. /\ t.session = open.session /\ t.window = shut.window /\ t.token = v.token + 1
       /\ t.file = file.file
  BY Zenon, <1>6, <1>11, <1>12 DEF SameU, UFields
<1>14. SameU(v, t, {"session", "window", "auth", "file", "pending", "token"})
  BY <1>1, <1>6, <1>9, <1>12 DEF SameU
<1> QED
  BY SMTT(30), <1>1, <1>7, <1>10, <1>12, <1>13, <1>14 DEF t, new, grant, EstablishedTo

\* The new session's key is fresh: nothing was accepted under it.
LEMMA EstablishUplink ==
  ASSUME NEW v, NEW p \in Ports, Uplink(v), v.pending[p] # 0
  PROVE  Uplink(EstablishAuth(v, p))
<1> DEFINE new == NewSession(v, p)
           grant == NewAuth(v, p)
           t == EstablishAuth(v, p)
<1> HIDE DEF t
<1>1. /\ DOMAIN t = UFields
      /\ SameU(v, t, {"session", "window", "auth", "file", "pending", "token"})
      /\ t.session = [v.session EXCEPT ![p] = new] /\ t.window = {w \in v.window : w.port # p}
      /\ t.token = v.token + 1 /\ t.auth = [v.auth EXCEPT ![p] = grant]
      /\ t.pending = [v.pending EXCEPT ![p] = 0]
      /\ t.file \in FileStates /\ t.file[p].auth = TRUE
      /\ \A q \in Ports \ {p} : t.file[q] = v.file[q]
  <2>1. EstablishedTo(v, t, p)
    BY Zenon, EstablishFields DEF t
  <2> QED
    BY Zenon, <2>1 DEF EstablishedTo
<1>2. UplinkType(v)
  BY Zenon DEF Uplink
<1>3. /\ new \in [open : BOOLEAN, key : Nat, role : Roles, id : Nat, last : Nat]
      /\ new.open = TRUE /\ new.key = v.pending[p] /\ new.role = v.role[p] /\ new.id = v.token
      /\ grant \in [active : BOOLEAN, key : Nat, idle : Nat]
      /\ grant.active = TRUE /\ grant.key = v.pending[p]
  BY Zenon, <1>2 DEF UplinkType, NewSession, NewAuth
<1> HIDE DEF new, grant, t
<1>4. /\ t.nonce = v.nonce /\ t.role = v.role /\ t.mux = v.mux /\ t.muxNext = v.muxNext
      /\ t.running = v.running /\ t.seen = v.seen /\ t.replayed = v.replayed
  BY Zenon, <1>1 DEF SameU, UFields
<1>5. /\ t.session \in [Ports -> [open : BOOLEAN, key : Nat, role : Roles, id : Nat, last : Nat]]
      /\ t.session[p] = new /\ \A q \in Ports \ {p} : t.session[q] = v.session[q]
  BY SMTT(30), <1>1, <1>2, <1>3 DEF UplinkType
<1>6. /\ t.auth \in [Ports -> [active : BOOLEAN, key : Nat, idle : Nat]]
      /\ t.auth[p] = grant /\ \A q \in Ports \ {p} : t.auth[q] = v.auth[q]
  BY SMTT(30), <1>1, <1>2, <1>3 DEF UplinkType
<1>7. /\ t.pending \in [Ports -> Nat] /\ t.pending[p] = 0
      /\ \A q \in Ports \ {p} : t.pending[q] = v.pending[q]
  BY SMTT(30), <1>1, <1>2 DEF UplinkType
<1>8. UplinkType(t)
  BY <1>1, <1>2, <1>4, <1>5, <1>6, <1>7 DEF UplinkType
<1>9. ASSUME NEW q \in Ports PROVE Authorised(t, q)
  <2>1. CASE q = p
    BY ZenonT(40), <1>1, <1>2, <1>3, <1>4, <1>5, <1>6, <2>1 DEF Authorised, UplinkType
  <2>2. CASE q # p
    BY SMTT(30), <1>1, <1>4, <1>5, <1>6, <2>2 DEF Authorised, Uplink
  <2> QED
    BY Zenon, <2>1, <2>2
<1>10. Windows(t)
  BY <1>1, <1>2, <1>5 DEF Windows, Uplink, UplinkType
<1>11. /\ KeyOf(t, p) = v.pending[p] /\ v.pending[p] \in Nat
       /\ \A q \in Ports \ {p} : KeyOf(t, q) = KeyOf(v, q)
  BY Zenon, <1>2, <1>3, <1>5 DEF KeyOf, UplinkType
<1>12. /\ \A q \in Ports : KeyOf(v, q) <= v.nonce /\ v.pending[q] <= v.nonce
       /\ \A x \in v.seen : x[1] # v.pending[p]
       /\ \A q \in Ports : KeyOf(v, q) # v.pending[p]
       /\ \A q \in Ports \ {p} : v.pending[q] # v.pending[p]
  BY Zenon DEF Uplink, Fresh
<1>13. Fresh(t)
  <2>1. \A q \in Ports : KeyOf(t, q) <= t.nonce /\ t.pending[q] <= t.nonce
    BY <1>2, <1>4, <1>7, <1>11, <1>12 DEF UplinkType
  <2>2. ASSUME NEW q \in Ports, t.pending[q] # 0
        PROVE  /\ \A x \in t.seen : x[1] # t.pending[q]
               /\ \A o \in Ports : KeyOf(t, o) # t.pending[q]
               /\ \A o \in Ports \ {q} : t.pending[o] # t.pending[q]
    <3>1. q # p /\ t.pending[q] = v.pending[q]
      BY Zenon, <1>7, <2>2
    <3>2. /\ \A x \in v.seen : x[1] # v.pending[q]
          /\ \A o \in Ports : KeyOf(v, o) # v.pending[q]
          /\ \A o \in Ports \ {q} : v.pending[o] # v.pending[q]
      BY Zenon, <2>2, <3>1 DEF Uplink, Fresh
    <3> QED
      BY ZenonT(40), <1>4, <1>7, <1>11, <1>12, <2>2, <3>1, <3>2
  <2>3. ASSUME NEW q \in Ports, t.session[q].open
        PROVE  /\ t.session[q].key # 0
               /\ \A o \in Ports \ {q} : KeyOf(t, o) # t.session[q].key
               /\ \A x \in t.seen : x[1] = t.session[q].key =>
                    \E w \in t.window : w.port = q /\ x[2] <= w.last
    <3>1. CASE q = p
      BY ZenonT(40), <1>3, <1>4, <1>5, <1>11, <1>12, <3>1
    <3>2. CASE q # p
      <4>1. t.session[q] = v.session[q] /\ KeyOf(v, q) = v.session[q].key
        BY Zenon, <1>5, <2>3, <3>2 DEF KeyOf
      <4>2. /\ v.session[q].key # 0
            /\ \A o \in Ports \ {q} : KeyOf(v, o) # v.session[q].key
            /\ \A x \in v.seen : x[1] = v.session[q].key =>
                 \E w \in v.window : w.port = q /\ x[2] <= w.last
        BY Zenon, <2>3, <4>1 DEF Uplink, Fresh
      <4>3. \A w \in v.window : w.port = q => w \in t.window
        BY Zenon, <1>1, <3>2
      <4> QED
        BY Zenon, <1>4, <1>11, <1>12, <3>2, <4>1, <4>2, <4>3
    <3> QED
      BY Zenon, <3>1, <3>2
  <2> QED
    BY Zenon, <1>4, <2>1, <2>2, <2>3 DEF Uplink, Fresh
<1>14. Uplink(t)
  BY Zenon, <1>4, <1>8, <1>9, <1>10, <1>13, MuxedKeeps DEF Uplink
<1> QED
  BY Zenon, <1>14 DEF t

\* evaluateAndAccept of a number the window accepts in an open session.
LEMMA AdvanceUplink ==
  ASSUME NEW v, NEW p \in Ports, Uplink(v), v.session[p].open, NEW n \in Nat, WindowAccepts(v, p, n)
  PROVE  LET t == WindowAdvance(v, p, n)
         IN  Uplink(t) /\ SameU(v, t, {"window", "seen", "replayed"})
<1> DEFINE entry == [port |-> p, role |-> v.role[p], id |-> v.session[p].id, last |-> n]
           key == v.session[p].key
           use == <<key, n>>
           left == v.window \ WindowOf(v, p)
           again == v.replayed \/ use \in v.seen
           t == WindowAdvance(v, p, n)
<1>1. UplinkType(v) /\ Windows(v) /\ Fresh(v) /\ Authorised(v, p)
  BY Zenon DEF Uplink
<1>2. /\ t = [v EXCEPT !.window = left \cup {entry}, !.replayed = again, !.seen = v.seen \cup {use}]
      /\ entry \in [port : Ports, role : Roles, id : Nat, last : Nat]
      /\ entry.port = p /\ entry.role = v.role[p] /\ entry.id = v.session[p].id /\ entry.last = n
      /\ use \in Nat \X Nat /\ use[1] = key /\ use[2] = n
  BY Zenon, <1>1 DEF WindowAdvance, UplinkType
<1> HIDE DEF entry, use, left, again, t
<1>3. /\ DOMAIN t = UFields /\ SameU(v, t, {"window", "seen", "replayed"})
      /\ t.window = left \cup {entry} /\ t.replayed = again /\ t.seen = v.seen \cup {use}
  BY Zenon, <1>1, <1>2 DEF UplinkType, SameU, UFields
<1>4. \A w \in v.window : w.port = p => w \in WindowOf(v, p)
  BY Zenon, <1>1 DEF WindowOf, Windows, Authorised
<1>5. left = {w \in v.window : w.port # p}
  BY Zenon, <1>4 DEF left, WindowOf
<1>6. \A w \in v.window : w.port = p => w.last < n
  BY Zenon, <1>1, <1>4 DEF WindowAccepts, UplinkType
<1>7. \A x \in v.seen : x[1] = key => x[2] < n
  <2> SUFFICES ASSUME NEW x \in v.seen, x[1] = key PROVE x[2] < n
    BY Zenon
  <2>1. PICK w \in v.window : w.port = p /\ x[2] <= w.last
    BY Zenon, <1>1 DEF Fresh
  <2>2. x[2] \in Nat /\ w.last \in Nat
    BY Zenon, <1>1 DEF UplinkType
  <2> QED
    BY <1>6, <2>1, <2>2
<1>8. again = FALSE
  BY <1>1, <1>2, <1>7 DEF again, Fresh
<1>9. /\ t.pending = v.pending /\ t.auth = v.auth /\ t.session = v.session /\ t.role = v.role
      /\ t.file = v.file /\ t.nonce = v.nonce /\ t.token = v.token /\ t.mux = v.mux
      /\ t.muxNext = v.muxNext /\ t.running = v.running
  BY Zenon, <1>3 DEF SameU, UFields
<1>10. UplinkType(t)
  BY Zenon, <1>1, <1>2, <1>3, <1>5, <1>9 DEF UplinkType
<1>11. Windows(t)
  BY SMTT(30), <1>1, <1>2, <1>3, <1>5, <1>9 DEF Windows, Authorised
<1>12. \A q \in Ports : Authorised(t, q)
  BY <1>9 DEF Uplink, Authorised
<1>13. \A q \in Ports : KeyOf(t, q) = KeyOf(v, q)
  BY Zenon, <1>9 DEF KeyOf
<1>14. KeyOf(v, p) = key
  BY Zenon DEF KeyOf
<1>15. Fresh(t)
  <2>1. \A x \in t.seen : x[1] <= t.nonce
    BY <1>1, <1>2, <1>3, <1>9, <1>14 DEF Fresh
  <2>2. \A q \in Ports : KeyOf(t, q) <= t.nonce /\ t.pending[q] <= t.nonce
    BY Zenon, <1>1, <1>9, <1>13 DEF Fresh
  <2>3. ASSUME NEW q \in Ports, t.pending[q] # 0
        PROVE  /\ \A x \in t.seen : x[1] # t.pending[q]
               /\ \A o \in Ports : KeyOf(t, o) # t.pending[q]
               /\ \A o \in Ports \ {q} : t.pending[o] # t.pending[q]
    BY SMTT(30), <1>1, <1>2, <1>3, <1>9, <1>13, <1>14, <2>3 DEF Fresh
  <2>4. ASSUME NEW q \in Ports, t.session[q].open
        PROVE  /\ t.session[q].key # 0
               /\ \A o \in Ports \ {q} : KeyOf(t, o) # t.session[q].key
               /\ \A x \in t.seen : x[1] = t.session[q].key =>
                    \E w \in t.window : w.port = q /\ x[2] <= w.last
    <3>1. /\ v.session[q].key # 0
          /\ \A o \in Ports \ {q} : KeyOf(v, o) # v.session[q].key
          /\ \A x \in v.seen : x[1] = v.session[q].key =>
               \E w \in v.window : w.port = q /\ x[2] <= w.last
      BY Zenon, <1>1, <1>9, <2>4 DEF Fresh
    <3>2. CASE q = p
      <4>1. entry \in t.window
        BY Zenon, <1>3
      <4>2. \A x \in t.seen : x[1] = key => x[2] <= n
        BY <1>1, <1>2, <1>3, <1>7 DEF UplinkType
      <4> QED
        BY SMTT(30), <1>2, <1>9, <1>13, <3>1, <3>2, <4>1, <4>2
    <3>3. CASE q # p
      <4>1. \A w \in v.window : w.port = q => w \in t.window
        BY Zenon, <1>3, <1>5, <3>3
      <4>2. use[1] # v.session[q].key
        BY Zenon, <1>2, <1>14, <3>1, <3>3
      <4> QED
        BY Zenon, <1>3, <1>9, <1>13, <3>1, <4>1, <4>2
    <3> QED
      BY Zenon, <3>2, <3>3
  <2> QED
    BY Zenon, <1>3, <1>8, <2>1, <2>2, <2>3, <2>4 DEF Fresh
<1>16. Uplink(t) /\ SameU(v, t, {"window", "seen", "replayed"})
  BY Zenon, <1>3, <1>9, <1>10, <1>11, <1>12, <1>15, MuxedKeeps DEF Uplink
<1> QED
  BY Zenon, <1>16 DEF t

\* authActivityIn.
LEMMA ActivityUplink ==
  ASSUME NEW v, NEW p \in Ports, Uplink(v)
  PROVE  LET t == Activity(v, p) IN Uplink(t) /\ SameU(v, t, {"auth"})
<1> DEFINE t == Activity(v, p)
<1>1. CASE ~v.auth[p].active
  BY Zenon, <1>1 DEF Activity, SameU
<1>2. CASE v.auth[p].active
  <2> DEFINE new == [v.auth[p] EXCEPT !.idle = 0]
  <2>1. UplinkType(v)
    BY Zenon DEF Uplink
  <2>2. /\ new \in [active : BOOLEAN, key : Nat, idle : Nat]
        /\ new.active = v.auth[p].active /\ new.key = v.auth[p].key
    BY ZenonT(40), <2>1 DEF UplinkType
  <2>3. /\ DOMAIN t = UFields /\ SameU(v, t, {"auth"}) /\ t.auth = [v.auth EXCEPT ![p] = new]
    BY Zenon, <1>2, <2>1 DEF Activity, UplinkType, SameU, UFields
  <2> HIDE DEF new, t
  <2>4. /\ t.auth \in [Ports -> [active : BOOLEAN, key : Nat, idle : Nat]]
        /\ \A q \in Ports : t.auth[q].active = v.auth[q].active /\ t.auth[q].key = v.auth[q].key
    BY <2>1, <2>2, <2>3 DEF UplinkType
  <2>5. t.file = v.file /\ SameU(v, t, {"auth", "file"})
    BY Zenon, <2>3 DEF SameU, UFields
  <2>6. Uplink(t)
    BY Zenon, <2>1, <2>3, <2>4, <2>5, AuthKept DEF UplinkType
  <2> QED
    BY Zenon, <2>3, <2>6 DEF t
<1> QED
  BY Zenon, <1>1, <1>2

\* updateAcceptedSessionSequence in an open session.
LEMMA SequenceUplink ==
  ASSUME NEW v, NEW p \in Ports, Uplink(v), v.session[p].open, NEW n \in Nat
  PROVE  LET t == SequenceAccepted(v, p, n)
         IN  /\ Uplink(t) /\ SameU(v, t, {"session", "auth"})
             /\ \A q \in Ports : /\ t.session[q].open = v.session[q].open
                                 /\ t.session[q].id = v.session[q].id
<1> DEFINE new == [v.session[p] EXCEPT !.last = n]
           one == [v EXCEPT !.session[p].last = n]
           t == SequenceAccepted(v, p, n)
<1>1. UplinkType(v)
  BY Zenon DEF Uplink
<1>2. /\ new \in [open : BOOLEAN, key : Nat, role : Roles, id : Nat, last : Nat]
      /\ new.open = v.session[p].open /\ new.key = v.session[p].key
      /\ new.role = v.session[p].role /\ new.id = v.session[p].id
  BY Zenon, <1>1 DEF UplinkType
<1>3. DOMAIN one = UFields /\ SameU(v, one, {"session"}) /\ one.session = [v.session EXCEPT ![p] = new]
  BY Zenon, <1>1 DEF UplinkType, SameU, UFields
<1> HIDE DEF new, one
<1>4. /\ one.session \in [Ports -> [open : BOOLEAN, key : Nat, role : Roles, id : Nat, last : Nat]]
      /\ \A q \in Ports : /\ one.session[q].open = v.session[q].open
                          /\ one.session[q].key = v.session[q].key
                          /\ one.session[q].role = v.session[q].role
                          /\ one.session[q].id = v.session[q].id
      /\ \A q \in Ports : ~v.session[q].open => one.session[q] = v.session[q]
  <2>1. one.session \in [Ports -> [open : BOOLEAN, key : Nat, role : Roles, id : Nat, last : Nat]]
    BY <1>1, <1>2, <1>3 DEF UplinkType
  <2>2. one.session[p] = new /\ \A q \in Ports \ {p} : one.session[q] = v.session[q]
    BY Zenon, <1>1, <1>3 DEF UplinkType
  <2> QED
    BY Zenon, <1>2, <2>1, <2>2
<1>5. /\ one.pending = v.pending /\ one.auth = v.auth /\ one.window = v.window /\ one.role = v.role
      /\ one.file = v.file /\ one.nonce = v.nonce /\ one.token = v.token /\ one.mux = v.mux
      /\ one.muxNext = v.muxNext /\ one.running = v.running /\ one.seen = v.seen
      /\ one.replayed = v.replayed
  BY Zenon, <1>3 DEF SameU, UFields
<1>6. UplinkType(one)
  BY ZenonT(40), <1>1, <1>3, <1>4, <1>5 DEF UplinkType
<1>7. Windows(one)
  BY SMTT(30), <1>1, <1>4, <1>5 DEF Windows, Uplink, UplinkType
<1>8. \A q \in Ports : Authorised(one, q)
  BY <1>4, <1>5 DEF Authorised, Uplink
<1>9. \A q \in Ports : KeyOf(one, q) = KeyOf(v, q)
  BY Zenon, <1>4 DEF KeyOf
<1>10. Fresh(one)
  BY <1>4, <1>5, <1>9 DEF Fresh, Uplink
<1>11. Uplink(one)
  BY Zenon, <1>5, <1>6, <1>7, <1>8, <1>10, MuxedKeeps DEF Uplink
<1>12. Uplink(t) /\ SameU(one, t, {"auth"})
  BY Zenon, <1>11, ActivityUplink DEF SequenceAccepted, one
<1> HIDE DEF t
<1>13. t.session = one.session /\ SameU(v, t, {"session", "auth"})
  BY Zenon, <1>3, <1>12 DEF SameU, UFields
<1> QED
  BY <1>4, <1>12, <1>13 DEF t

\* CommandIngressMux: a dispatch takes a context of its own, a status gives it back.
LEMMA DispatchUplink ==
  ASSUME NEW v, NEW p \in Ports, Uplink(v)
  PROVE  LET t == MuxDispatch(v, p) IN Uplink(t) /\ SameU(v, t, {"mux", "muxNext", "running"})
<1> DEFINE t == MuxDispatch(v, p)
           entry == [ctx |-> v.muxNext, port |-> p]
           run == [ctx |-> v.muxNext, from |-> p]
<1>1. CASE Cardinality(v.mux) >= MuxSlots
  BY Zenon, <1>1 DEF MuxDispatch, SameU
<1>2. CASE ~(Cardinality(v.mux) >= MuxSlots)
  <2>1. UplinkType(v) /\ Muxed(v)
    BY Zenon DEF Uplink
  <2>2. t = [v EXCEPT !.mux = v.mux \cup {entry}, !.muxNext = v.muxNext + 1,
                      !.running = v.running \cup {run}]
    BY Zenon, <1>2 DEF MuxDispatch
  <2>3. /\ entry \in [ctx : Nat, port : Ports] /\ entry.ctx = v.muxNext
        /\ run \in [ctx : Nat, from : Ports] /\ [ctx |-> run.ctx, port |-> run.from] = entry
    BY Zenon, <2>1 DEF Muxed
  <2> HIDE DEF entry, run, t
  <2>4. /\ DOMAIN t = UFields /\ SameU(v, t, {"mux", "muxNext", "running"})
        /\ t.mux = v.mux \cup {entry} /\ t.muxNext = v.muxNext + 1
        /\ t.running = v.running \cup {run}
    BY Zenon, <2>1, <2>2 DEF UplinkType, SameU, UFields
  <2>5. /\ t.pending = v.pending /\ t.auth = v.auth /\ t.session = v.session /\ t.window = v.window
        /\ t.role = v.role /\ t.file = v.file /\ t.nonce = v.nonce /\ t.token = v.token
        /\ t.seen = v.seen /\ t.replayed = v.replayed
    BY ZenonT(40), <2>4 DEF SameU, UFields
  <2>6. UplinkType(t) /\ Windows(t) /\ Fresh(t) /\ \A q \in Ports : Authorised(t, q)
    BY SMTT(30), <2>1, <2>4, <2>5 DEF Uplink, UplinkType, Windows, Fresh, KeyOf, Authorised
  <2>7. Muxed(t)
    BY <2>1, <2>3, <2>4 DEF Muxed
  <2> QED
    BY Zenon, <2>4, <2>6, <2>7 DEF Uplink, t
<1> QED
  BY Zenon, <1>1, <1>2

\* A command's status removes its own entry of the mux table only.
LEMMA StatusUplink ==
  ASSUME NEW v, Uplink(v), NEW r \in v.running
  PROVE  LET t == MuxStatus(v, r) IN Uplink(t) /\ SameU(v, t, {"mux", "running"})
<1> DEFINE t == MuxStatus(v, r)
           left == {e \in v.mux : e.ctx # r.ctx}
<1>1. UplinkType(v) /\ Muxed(v)
  BY Zenon DEF Uplink
<1>2. t = [v EXCEPT !.mux = left, !.running = v.running \ {r}]
  BY Zenon DEF MuxStatus
<1> HIDE DEF left, t
<1>3. /\ DOMAIN t = UFields /\ SameU(v, t, {"mux", "running"})
      /\ t.mux = left /\ t.running = v.running \ {r}
  BY Zenon, <1>1, <1>2 DEF UplinkType, SameU, UFields
<1>4. /\ t.pending = v.pending /\ t.auth = v.auth /\ t.session = v.session /\ t.window = v.window
      /\ t.role = v.role /\ t.file = v.file /\ t.nonce = v.nonce /\ t.token = v.token
      /\ t.seen = v.seen /\ t.replayed = v.replayed /\ t.muxNext = v.muxNext
  BY ZenonT(40), <1>3 DEF SameU, UFields
<1>5. UplinkType(t) /\ Windows(t) /\ Fresh(t) /\ \A q \in Ports : Authorised(t, q)
  BY SMTT(30), <1>1, <1>3, <1>4 DEF Uplink, UplinkType, Windows, Fresh, KeyOf, Authorised
<1>6. \A o \in t.running : o.ctx # r.ctx
  <2> SUFFICES ASSUME NEW o \in t.running, o.ctx = r.ctx PROVE FALSE
    BY Zenon
  <2> DEFINE d == [ctx |-> o.ctx, port |-> o.from]
             e == [ctx |-> r.ctx, port |-> r.from]
  <2>1. o \in v.running /\ o # r
    BY Zenon, <1>3
  <2>2. d \in v.mux /\ e \in v.mux
    BY Zenon, <1>1, <2>1 DEF Muxed
  <2>3. d.ctx = e.ctx
    BY Zenon
  <2>4. d = e
    BY Zenon, <1>1, <2>2, <2>3 DEF Muxed
  <2>5. d.port = o.from /\ e.port = r.from
    BY Zenon
  <2>6. o \in [ctx : Nat, from : Ports] /\ r \in [ctx : Nat, from : Ports]
    BY Zenon, <1>1, <2>1 DEF Muxed
  <2> QED
    BY <2>1, <2>4, <2>5, <2>6
<1>7. Muxed(t)
  <2>1. ASSUME NEW o \in t.running PROVE [ctx |-> o.ctx, port |-> o.from] \in t.mux
    <3> DEFINE e == [ctx |-> o.ctx, port |-> o.from]
    <3>1. e \in v.mux /\ e.ctx = o.ctx
      BY Zenon, <1>1, <1>3 DEF Muxed
    <3> QED
      BY Zenon, <1>3, <1>6, <3>1 DEF left
  <2> QED
    BY Zenon, <1>1, <1>3, <1>4, <2>1 DEF Muxed, left
<1> QED
  BY Zenon, <1>3, <1>5, <1>7 DEF Uplink, t
-----------------------------------------------------------------------------
(* The sessions and the links of the whole system. *)

\* A step of the uplink that opens and closes no session and moves no link.
LEMMA UplinkStepGood ==
  ASSUME NEW s, NEW t, Good(s), Shape(t), t.c = s.c, t.ext = s.ext, t.egress = s.egress,
         Uplink(t.u), Links(t),
         \A q \in Ports : /\ t.u.session[q].open = s.u.session[q].open
                          /\ t.u.session[q].id = s.u.session[q].id
  PROVE  Good(t)
<1>1. Down(t) /\ Probes(t) /\ Synced(t)
  BY Zenon, DownKeeps, ProbesKeep, SyncedKeeps DEF Good, Core
<1>2. Sessions(t)
  BY Zenon DEF Good, Core, Sessions, Ports
<1> QED
  BY Zenon, <1>1, <1>2 DEF Good, Core, Fdir

\* The controller's side of the end of a session, and its uplink.
RevokedFrom(s, t, p) ==
  /\ Shape(t) /\ t.ext = s.ext /\ SameC(s, t, {"live", "suppress", "stuck"})
  /\ t.c.stuck = FALSE /\ RevokedTo(s.u, t.u, p)
  /\ t.c.live = IF p = 0 THEN Quiet ELSE s.c.live
  /\ IF p = 1 THEN DOMAIN t.c.suppress = {"active", "id", "ticks"} /\ t.c.suppress.active = FALSE
              ELSE t.c.suppress = s.c.suppress

\* The controller's reaction to a revocation keeps all but the policies of
\* the revoked port.
LEMMA RevokedCore ==
  ASSUME NEW s, NEW t, NEW p \in Ports, Core(s), RevokedFrom(s, t, p)
  PROVE  /\ Core(t) /\ t.c.primary = s.c.primary
         /\ \A q \in Ports \ {p} : Linked(s, q) => Linked(t, q)
<1>1. Uplink(t.u)
  BY Zenon, RevokedUplink DEF Core, RevokedFrom
<1>2. /\ t.c.sched = s.c.sched /\ t.c.rt = s.c.rt /\ t.c.deferred = s.c.deferred
      /\ t.c.primary = s.c.primary /\ t.c.probe = s.c.probe /\ t.c.fault = s.c.fault
  BY Zenon DEF RevokedFrom, SameC, CFields
<1>3. Down(t) /\ Probes(t) /\ Fdir(t)
  BY ZenonT(40), <1>2, DownKeeps, ProbesKeep DEF Core, RevokedFrom, Fdir
<1>4. ~t.u.session[p].open /\ \A q \in Ports \ {p} : t.u.session[q] = s.u.session[q]
  BY DEF RevokedFrom, RevokedTo, NoSession, Core, Uplink, UplinkType
<1>5. Sessions(t)
  <2>1. CASE p = 0
    BY Zenon, <1>4, <2>1 DEF Sessions, RevokedFrom, Core, Ports
  <2>2. CASE p = 1
    BY Zenon, <1>4, <2>2 DEF Sessions, RevokedFrom, Core, Ports
  <2> QED
    BY Zenon, <2>1, <2>2 DEF Ports
<1>6. \A q \in Ports \ {p} : t.u.role[q] = s.u.role[q] /\ t.u.file[q] = s.u.file[q]
  BY Zenon DEF RevokedFrom, RevokedTo
<1>7. \A q \in Ports \ {p} : Linked(s, q) => Linked(t, q)
  BY Zenon, <1>2, <1>6 DEF Linked
<1> QED
  BY Zenon, <1>1, <1>2, <1>3, <1>5, <1>7 DEF Core, RevokedFrom

\* onCommandSessionOpenedForRuntime after the authorisation.
LEMMA OpenedGood ==
  ASSUME NEW s, NEW p \in Ports, Good(s), s.u.pending[p] # 0
  PROVE  Good(SessionOpened([s EXCEPT !.u = EstablishAuth(s.u, p)], p))
<1> DEFINE v == EstablishAuth(s.u, p)
           one == [s EXCEPT !.u = v]
           id == v.session[p].id
           two == IF p = 0 THEN [one EXCEPT !.c.live = [active |-> TRUE, id |-> id]]
                  ELSE [one EXCEPT !.c.suppress = [active |-> TRUE, id |-> id, ticks |-> SuppressTicks]]
<1>1. EstablishedTo(s.u, v, p) /\ Uplink(v)
  BY ZenonT(40), EstablishFields, EstablishUplink DEF Good, Core
<1> HIDE DEF v
<1>2. /\ v.session[p].open = TRUE /\ id = s.u.token /\ id # 0
      /\ \A q \in Ports \ {p} : v.session[q] = s.u.session[q]
  BY <1>1 DEF EstablishedTo, NewSession, Good, Core, Uplink, UplinkType
<1>3. v.role = s.u.role /\ \A q \in Ports : /\ v.file[q].allowed = s.u.file[q].allowed
                                            /\ v.file[q].drop = s.u.file[q].drop
  BY Zenon, <1>1 DEF EstablishedTo, SameU, UFields
<1>4. /\ Shape(one) /\ one.c = s.c /\ one.u = v /\ one.ext = s.ext
  BY Zenon DEF Good, Core, Shape
<1> HIDE DEF one
<1>5. /\ Shape(two) /\ two.u = v /\ two.ext = s.ext /\ SameC(s, two, {"live", "suppress"})
      /\ p = 0 => two.c.live = [active |-> TRUE, id |-> id] /\ two.c.suppress = s.c.suppress
      /\ p = 1 => /\ two.c.live = s.c.live
                  /\ two.c.suppress = [active |-> TRUE, id |-> id, ticks |-> SuppressTicks]
  BY <1>4 DEF Shape, SameC, CFields
<1>6. SessionOpened(one, p) = Sync(two) \/ SessionOpened(one, p) = Sync(Sync(two))
  <2>1. CASE p = 0
    BY <1>4, <2>1 DEF SessionOpened, Suppress
  <2>2. CASE p = 1
    <3>1. two = [one EXCEPT !.c.suppress = [active |-> TRUE, id |-> id, ticks |-> SuppressTicks]]
      BY <2>2
    <3>2. Suppress(one, p, id) = Sync(two)
      BY Zenon, <1>2, <2>2, <3>1 DEF Suppress
    <3>3. SessionOpened(one, p) = Sync(Suppress(one, p, id))
      BY <1>4, <2>2 DEF SessionOpened
    <3> QED
      BY Zenon, <3>2, <3>3
  <2> QED
    BY Zenon, <2>1, <2>2 DEF Ports
<1> HIDE DEF two
<1>7. /\ two.c.sched = s.c.sched /\ two.c.rt = s.c.rt /\ two.c.deferred = s.c.deferred
      /\ two.c.primary = s.c.primary /\ two.c.probe = s.c.probe /\ two.c.fault = s.c.fault
      /\ two.c.stuck = s.c.stuck
  BY Zenon, <1>5 DEF SameC, CFields
<1>8. Down(two) /\ Probes(two) /\ Fdir(two)
  BY Zenon, <1>5, <1>7, DownKeeps, ProbesKeep DEF Good, Core, Fdir
<1>9. Sessions(two)
  <2>1. CASE p = 0
    <3>1. two.u.session[0].open /\ two.u.session[0].id = id /\ two.u.session[1] = s.u.session[1]
      BY <1>2, <1>5, <2>1 DEF Ports
    <3>2. two.c.live = [active |-> TRUE, id |-> id] /\ two.c.suppress = s.c.suppress
      BY Zenon, <1>5, <2>1
    <3> HIDE DEF id
    <3> QED
      BY ZenonT(40), <3>1, <3>2 DEF Sessions, Good, Core
  <2>2. CASE p = 1
    <3>1. LET n == [active |-> TRUE, id |-> id, ticks |-> SuppressTicks]
          IN  DOMAIN n = {"active", "id", "ticks"} /\ n.active = TRUE /\ n.id = id
      BY Zenon
    <3> QED
      BY ZenonT(40), <1>2, <1>5, <2>2, <3>1 DEF Sessions, Good, Core, Ports
  <2> QED
    BY Zenon, <2>1, <2>2 DEF Ports
<1>10. Core(two) /\ Links(two)
  BY ZenonT(40), <1>1, <1>3, <1>5, <1>7, <1>8, <1>9 DEF Good, Core, Links, Linked
<1>11. Good(Sync(two)) /\ Good(Sync(Sync(two)))
  <2>1. Good(Sync(two))
    BY Zenon, <1>10, SyncCore
  <2> QED
    BY Zenon, <2>1, SyncCore DEF Good
<1> QED
  BY Zenon, <1>6, <1>11 DEF one, v

\* onCommandSessionActivityForRuntime.
LEMMA ActivityGood ==
  ASSUME NEW s, NEW p \in Ports, Good(s)
  PROVE  Good(SessionActivity(s, p))
<1> DEFINE id == s.u.session[p].id
           n == [active |-> TRUE, id |-> id, ticks |-> SuppressTicks]
           t == [s EXCEPT !.c.suppress = n]
<1>1. CASE ~OwnsSuppress(s, p, id)
  BY Zenon, <1>1 DEF SessionActivity
<1>2. CASE OwnsSuppress(s, p, id)
  <2>1. p = 1 /\ s.c.suppress.active /\ s.c.suppress.id = id
    BY Zenon, <1>2 DEF OwnsSuppress
  <2>2. /\ Shape(t) /\ t.u = s.u /\ t.ext = s.ext /\ t.egress = s.egress
        /\ SameC(s, t, {"suppress"}) /\ t.c.suppress = n
    BY Zenon DEF Good, Core, Shape, SameC, CFields
  <2>3. DOMAIN n = {"active", "id", "ticks"} /\ n.active = TRUE /\ n.id = id
    BY Zenon
  <2>4. SessionActivity(s, p) = s \/ SessionActivity(s, p) = Sync(t)
    BY Zenon, <1>2 DEF SessionActivity, Suppress
  <2> HIDE DEF n, t
  <2>5. /\ t.c.sched = s.c.sched /\ t.c.rt = s.c.rt /\ t.c.deferred = s.c.deferred
        /\ t.c.primary = s.c.primary /\ t.c.probe = s.c.probe /\ t.c.fault = s.c.fault
        /\ t.c.stuck = s.c.stuck /\ t.c.live = s.c.live
    BY Zenon, <2>2 DEF SameC, CFields
  <2>6. Down(t) /\ Probes(t) /\ Fdir(t) /\ Links(t)
    BY Zenon, <2>2, <2>5, DownKeeps, ProbesKeep, LinksKeep DEF Good, Core, Fdir
  <2>7. Sessions(t)
    BY Zenon, <2>1, <2>2, <2>3, <2>5 DEF Sessions, Good, Core
  <2>8. Core(t)
    BY Zenon, <2>2, <2>5, <2>6, <2>7 DEF Good, Core
  <2> QED
    BY Zenon, <2>4, <2>6, <2>8, SyncCore
<1> QED
  BY Zenon, <1>1, <1>2

\* revokeActiveAuth_ of an authorisation that timed out, and
\* onCommandSessionRevokedForRuntime.
LEMMA TimedOutGood ==
  ASSUME NEW s, NEW p \in Ports, Good(s), s.u.auth[p].active
  PROVE  LET t == TimedOut(s, p) IN Good(t) /\ t.u = RevokeAuth(s.u, p)
<1> DEFINE v == RevokeAuth(s.u, p)
           id == s.u.session[p].id
           live == IF p = 0 /\ s.c.live.active /\ s.c.live.id = id THEN Quiet ELSE s.c.live
           suppress == IF OwnsSuppress(s, p, id) THEN NoSuppress ELSE s.c.suppress
           one == [s EXCEPT !.c.live = live, !.c.suppress = suppress]
           two == Sync(one)
           t == [two EXCEPT !.u = v]
<1>1. /\ RevokedTo(s.u, v, p) /\ v.role = s.u.role /\ v.file[p].allowed = s.u.file[p].allowed
      /\ s.u.file[p].drop => v.file[p].drop
  BY Zenon, RevokeAuthRevokes DEF Good, Core
<1>2. SessionRevoked(s, p, id) = two
  BY Zenon DEF SessionRevoked
<1>3. s.u.session[p].open
  BY ZenonT(40) DEF Good, Core, Uplink, Authorised
<1>4. live = IF p = 0 THEN Quiet ELSE s.c.live
  BY <1>3 DEF Good, Core, Sessions
<1>5. IF p = 1 THEN DOMAIN suppress = {"active", "id", "ticks"} /\ suppress.active = FALSE
               ELSE suppress = s.c.suppress
  BY Zenon DEF OwnsSuppress, NoSuppress, Good, Core, Sessions
<1> HIDE DEF v, live, suppress
<1>6. /\ Shape(one) /\ one.u = s.u /\ one.ext = s.ext /\ SameC(s, one, {"live", "suppress"})
      /\ one.c.live = live /\ one.c.suppress = suppress
  BY Zenon DEF Good, Core, Shape, SameC, CFields
<1> HIDE DEF one
<1>7. Shape(two) /\ two.c = one.c /\ two.u = s.u /\ two.ext = s.ext /\ Synced(two)
  BY Zenon, <1>6, SyncFields
<1> HIDE DEF two
<1>8. Shape(t) /\ t.c = one.c /\ t.u = v /\ t.ext = s.ext /\ t.egress = two.egress
  BY Zenon, <1>7 DEF Shape
<1> HIDE DEF t
<1>9. RevokedFrom(s, t, p)
  <2>1. t.c.stuck = FALSE /\ SameC(s, t, {"live", "suppress", "stuck"})
    BY Zenon, <1>6, <1>8 DEF SameC, CFields, Good, Core
  <2> QED
    BY Zenon, <1>1, <1>4, <1>5, <1>6, <1>8, <2>1 DEF RevokedFrom
<1>10. /\ Core(t) /\ t.c.primary = s.c.primary
       /\ \A q \in Ports \ {p} : Linked(s, q) => Linked(t, q)
  BY Zenon, <1>9, RevokedCore DEF Good
<1>11. Linked(t, p)
  BY Zenon, <1>1, <1>8, <1>10 DEF Linked, Good, Links
<1>12. Links(t)
  BY Zenon, <1>10, <1>11 DEF Good, Links
<1>13. Synced(t)
  BY Zenon, <1>7, <1>8, SyncedKeeps
<1>14. Good(t) /\ t.u = v
  BY Zenon, <1>8, <1>10, <1>12, <1>13 DEF Good
<1> QED
  BY Zenon, <1>2, <1>14 DEF TimedOut, t, v

\* filePolicyIn of FileIngressAuthority.
LEMMA FilePolicyFields ==
  ASSUME NEW v, NEW p \in Ports, DOMAIN v = UFields, v.file \in FileStates, NEW a \in BOOLEAN
  PROVE  LET t == FilePolicy(v, p, a)
         IN  /\ DOMAIN t = UFields /\ SameU(v, t, {"file"}) /\ t.file \in FileStates
             /\ t.file[p].auth = v.file[p].auth /\ t.file[p].allowed = a
             /\ ~a => t.file[p].drop
             /\ \A q \in Ports \ {p} : t.file[q] = v.file[q]
<1> DEFINE new == [v.file[p] EXCEPT !.allowed = a]
           d == new.drop \/ ~a
           last == [new EXCEPT !.drop = d]
           one == [v EXCEPT !.file[p].allowed = a]
           t == [one EXCEPT !.file[p].drop = d]
<1>1. v.file[p] \in [auth : BOOLEAN, allowed : BOOLEAN, drop : BOOLEAN]
  BY Zenon DEF FileStates
<1>2. DOMAIN one = UFields /\ SameU(v, one, {"file"}) /\ one.file = [v.file EXCEPT ![p] = new]
  BY Zenon DEF UFields, SameU
<1>3. /\ new \in [auth : BOOLEAN, allowed : BOOLEAN, drop : BOOLEAN]
      /\ new.auth = v.file[p].auth /\ new.allowed = a
  BY Zenon, <1>1
<1> HIDE DEF new
<1>4. /\ one.file \in FileStates /\ one.file[p] = new
      /\ \A q \in Ports \ {p} : one.file[q] = v.file[q]
  BY <1>2, <1>3 DEF FileStates
<1>5. t = FilePolicy(v, p, a)
  BY ZenonT(40), <1>4 DEF FilePolicy
<1>6. d \in BOOLEAN /\ (~a => d)
  BY Zenon, <1>3
<1> HIDE DEF one, d
<1>7. DOMAIN t = UFields /\ SameU(one, t, {"file"}) /\ t.file = [one.file EXCEPT ![p] = last]
  BY Zenon, <1>2, <1>4 DEF UFields, SameU
<1>8. /\ last \in [auth : BOOLEAN, allowed : BOOLEAN, drop : BOOLEAN]
      /\ last.auth = v.file[p].auth /\ last.allowed = a /\ last.drop = d
  BY Zenon, <1>3, <1>6
<1> HIDE DEF last, t
<1>9. /\ t.file \in FileStates /\ t.file[p] = last
      /\ \A q \in Ports \ {p} : t.file[q] = one.file[q]
  BY ZenonT(40), <1>4, <1>7, <1>8 DEF FileStates
<1>10. SameU(v, t, {"file"})
  BY Zenon, <1>2, <1>7 DEF SameU
<1> QED
  BY Zenon, <1>4, <1>5, <1>6, <1>7, <1>8, <1>9, <1>10

\* The invalidation of a port whose session is closed retakes no lock.
LEMMA InvalidateLockedFields ==
  ASSUME NEW s, Shape(s), NEW p, ~s.u.session[p].open, s.c.stuck = FALSE
  PROVE  LET t == InvalidateLocked(s, p)
         IN  /\ Shape(t) /\ t.ext = s.ext /\ t.egress = s.egress /\ SameC(s, t, {"stuck"})
             /\ t.c.stuck = FALSE /\ t.u = Invalidate(s.u, p)
<1> DEFINE held == s.c.stuck \/ (s.u.auth[p].active /\ s.u.session[p].open)
           t == [s EXCEPT !.u = Invalidate(s.u, p), !.c.stuck = held]
<1>1. t = InvalidateLocked(s, p)
  BY Zenon DEF InvalidateLocked
<1>2. held = FALSE
  BY Zenon
<1> HIDE DEF held
<1>3. /\ Shape(t) /\ t.ext = s.ext /\ t.egress = s.egress /\ SameC(s, t, {"stuck"})
      /\ t.c.stuck = FALSE /\ t.u = Invalidate(s.u, p)
  BY Zenon, <1>2 DEF Shape, SameC, CFields
<1> QED
  BY Zenon, <1>1, <1>3

\* reconfigureIngressProfile_ gives a port its role, whatever the other one has.
LEMMA ReconfigureCore ==
  ASSUME NEW s, NEW p \in Ports, Core(s), NEW role \in Roles, role = RoleOf(p, s.c.primary)
  PROVE  LET t == ReconfigureIngress(s, p, role)
         IN  /\ Core(t) /\ t.c.primary = s.c.primary /\ t.ext = s.ext /\ Linked(t, p)
             /\ \A q \in Ports \ {p} : Linked(s, q) => Linked(t, q)
<1> DEFINE cleared == IF p = 1 THEN [s EXCEPT !.c.suppress = NoSuppress] ELSE s
           shut == CloseSession(s.u, p)
           revoked == [cleared EXCEPT !.u = shut]
           invalid == InvalidateLocked(revoked, p)
           moved == [invalid EXCEPT !.u.role[p] = role]
           quiet == IF p = 0 THEN [moved EXCEPT !.c.live = Quiet] ELSE moved
           a == FileAllowed(p, role)
           file == FilePolicy(moved.u, p, a)
           t == [quiet EXCEPT !.u = file]
           v == Invalidate(shut, p)
<1>1. t = ReconfigureIngress(s, p, role)
  BY Zenon DEF ReconfigureIngress
<1>2. Shape(s) /\ Uplink(s.u) /\ Sessions(s) /\ s.c.stuck = FALSE
  BY Zenon DEF Core
<1>3. /\ Shape(cleared) /\ cleared.ext = s.ext /\ SameC(s, cleared, {"suppress"})
      /\ cleared.c.suppress = IF p = 1 THEN NoSuppress ELSE s.c.suppress
  BY Zenon, <1>2 DEF Shape, SameC, CFields
<1> HIDE DEF cleared
<1>4. RevokedTo(s.u, v, p) /\ v.role = s.u.role /\ ~shut.session[p].open
  BY Zenon, <1>2, InvalidatedRevokes
<1> HIDE DEF shut
<1>5. Shape(revoked) /\ revoked.ext = s.ext /\ revoked.c = cleared.c /\ revoked.u = shut
  BY Zenon, <1>3 DEF Shape
<1> HIDE DEF revoked
<1>6. revoked.c.stuck = FALSE
  BY Zenon, <1>2, <1>3, <1>5 DEF SameC, CFields
<1>7. /\ Shape(invalid) /\ invalid.ext = s.ext /\ SameC(revoked, invalid, {"stuck"})
      /\ invalid.c.stuck = FALSE /\ invalid.u = v
  BY Zenon, <1>4, <1>5, <1>6, InvalidateLockedFields
<1> HIDE DEF invalid, v
<1>8. DOMAIN v = UFields /\ v.role \in [Ports -> Roles] /\ v.file \in FileStates
  BY Zenon, <1>4 DEF RevokedTo
<1>9. /\ Shape(moved) /\ moved.ext = s.ext /\ moved.c = invalid.c /\ DOMAIN moved.u = UFields
      /\ SameU(v, moved.u, {"role"}) /\ moved.u.role = [v.role EXCEPT ![p] = role]
  BY Zenon, <1>7, <1>8 DEF Shape, SameU, UFields
<1> HIDE DEF moved
<1>10. moved.u.file = v.file
  BY Zenon, <1>9 DEF SameU, UFields
<1>11. a \in BOOLEAN
  BY Zenon DEF FileAllowed
<1>12. /\ DOMAIN file = UFields /\ SameU(moved.u, file, {"file"}) /\ file.file \in FileStates
       /\ file.file[p].auth = v.file[p].auth /\ file.file[p].allowed = a
       /\ ~a => file.file[p].drop
       /\ \A q \in Ports \ {p} : file.file[q] = v.file[q]
  <2> HIDE DEF a
  <2>1. DOMAIN moved.u = UFields /\ moved.u.file \in FileStates /\ a \in BOOLEAN
    BY ZenonT(40), <1>8, <1>9, <1>10, <1>11
  <2>2. /\ DOMAIN file = UFields /\ SameU(moved.u, file, {"file"}) /\ file.file \in FileStates
        /\ file.file[p].auth = moved.u.file[p].auth /\ file.file[p].allowed = a
        /\ ~a => file.file[p].drop
        /\ \A q \in Ports \ {p} : file.file[q] = moved.u.file[q]
    BY SMTT(30), <2>1, FilePolicyFields
  <2> QED
    BY Zenon, <1>10, <2>2
<1> HIDE DEF file
<1>13. /\ Shape(quiet) /\ quiet.ext = s.ext /\ SameC(moved, quiet, {"live"})
       /\ quiet.c.live = IF p = 0 THEN Quiet ELSE moved.c.live
  BY Zenon, <1>9 DEF Shape, SameC, CFields
<1> HIDE DEF quiet
<1>14. Shape(t) /\ t.ext = s.ext /\ t.c = quiet.c /\ t.u = file
  BY ZenonT(40), <1>13 DEF Shape
<1> HIDE DEF t
<1>15. RevokedTo(s.u, file, p)
  <2>1. /\ file.session = v.session /\ file.window = v.window /\ file.auth = v.auth
        /\ file.pending = v.pending /\ file.role = moved.u.role
    BY ZenonT(40), <1>9, <1>12 DEF SameU, UFields
  <2>2. /\ moved.u.role \in [Ports -> Roles]
        /\ \A q \in Ports \ {p} : moved.u.role[q] = v.role[q]
    BY Zenon, <1>8, <1>9
  <2>3. SameU(s.u, file, {"session", "window", "auth", "file", "pending", "role"})
    BY <1>4, <1>9, <1>12 DEF SameU, RevokedTo
  <2> QED
    BY SMTT(30), <1>4, <1>12, <2>1, <2>2, <2>3 DEF RevokedTo
<1>16. RevokedFrom(s, t, p)
  <2>1. SameC(s, t, {"live", "suppress", "stuck"})
    BY SMTT(30), <1>3, <1>5, <1>7, <1>9, <1>13, <1>14 DEF SameC
  <2>2. t.c.stuck = FALSE
    BY Zenon, <1>7, <1>9, <1>13, <1>14 DEF SameC, CFields
  <2>3. t.c.live = IF p = 0 THEN Quiet ELSE s.c.live
    BY SMTT(30), <1>3, <1>5, <1>7, <1>9, <1>13, <1>14 DEF SameC, CFields
  <2>4. t.c.suppress = IF p = 1 THEN NoSuppress ELSE s.c.suppress
    BY SMTT(30), <1>3, <1>5, <1>7, <1>9, <1>13, <1>14 DEF SameC, CFields
  <2>5. DOMAIN NoSuppress = {"active", "id", "ticks"} /\ NoSuppress.active = FALSE
    BY Zenon DEF NoSuppress
  <2> QED
    BY ZenonT(40), <1>14, <1>15, <2>1, <2>2, <2>3, <2>4, <2>5 DEF RevokedFrom
<1>17. /\ Core(t) /\ t.c.primary = s.c.primary
       /\ \A q \in Ports \ {p} : Linked(s, q) => Linked(t, q)
  BY Zenon, <1>16, RevokedCore
<1>18. t.u.role[p] = role
  BY <1>8, <1>9, <1>12, <1>14 DEF SameU, UFields
<1>19. Linked(t, p)
  BY Zenon, <1>12, <1>14, <1>17, <1>18 DEF Linked
<1> QED
  BY Zenon, <1>1, <1>14, <1>17, <1>19

\* Every port has a role under every primary band.
LEMMA RoleIsRole ==
  ASSUME NEW p, NEW b
  PROVE  RoleOf(p, b) \in Roles
BY Zenon DEF RoleOf, Roles

\* applyAuthorityProfiles_ links both ports to the primary band.
LEMMA ApplyProfilesCore ==
  ASSUME NEW s, Core(s)
  PROVE  LET t == ApplyProfiles(s) IN Core(t) /\ Links(t) /\ t.ext = s.ext
<1> DEFINE one == ReconfigureIngress(s, 0, RoleOf(0, s.c.primary))
           two == ReconfigureIngress(one, 1, RoleOf(1, s.c.primary))
<1>1. Core(one) /\ one.c.primary = s.c.primary /\ one.ext = s.ext /\ Linked(one, 0)
  BY Zenon, RoleIsRole, ReconfigureCore DEF Ports
<1> HIDE DEF one
<1>2. Core(two) /\ two.ext = s.ext /\ Linked(two, 1) /\ Linked(two, 0)
  BY Zenon, <1>1, RoleIsRole, ReconfigureCore DEF Ports
<1> HIDE DEF two
<1>3. Core(two) /\ Links(two) /\ two.ext = s.ext
  BY Zenon, <1>2 DEF Links, Ports
<1> QED
  BY Zenon, <1>3 DEF ApplyProfiles, one, two

\* setPrimaryLinks_.
LEMMA SetPrimaryGood ==
  ASSUME NEW s, Good(s), NEW band \in Bands, NEW reason
  PROVE  LET t == SetPrimary(s, band, reason)
         IN  Good(t) /\ t.ext = (IF s.c.primary # band THEN DropActive(s) ELSE s).ext
<1> DEFINE dropped == IF s.c.primary # band THEN DropActive(s) ELSE s
           t == [dropped EXCEPT !.c.primary = band, !.c.reason = reason]
<1>1. Good(dropped)
  BY Zenon, DropActiveGood
<1> HIDE DEF dropped
<1>2. /\ Shape(t) /\ t.u = dropped.u /\ t.ext = dropped.ext
      /\ SameC(dropped, t, {"primary", "reason"})
  BY Zenon, <1>1 DEF Good, Core, Shape, SameC, CFields
<1> HIDE DEF t
<1>3. /\ t.c.sched = dropped.c.sched /\ t.c.rt = dropped.c.rt /\ t.c.deferred = dropped.c.deferred
      /\ t.c.probe = dropped.c.probe /\ t.c.fault = dropped.c.fault /\ t.c.live = dropped.c.live
      /\ t.c.suppress = dropped.c.suppress /\ t.c.stuck = dropped.c.stuck
  BY Zenon, <1>2 DEF SameC, CFields
<1>4. Down(t) /\ Probes(t) /\ Sessions(t) /\ Fdir(t)
  BY Zenon, <1>1, <1>2, <1>3, DownKeeps, ProbesKeep, SessionsKeep DEF Good, Core, Fdir
<1>5. Core(t)
  BY Zenon, <1>1, <1>2, <1>3, <1>4 DEF Good, Core
<1> DEFINE moved == ApplyProfiles(t)
<1>6. Core(moved) /\ Links(moved) /\ moved.ext = dropped.ext
  BY Zenon, <1>2, <1>5, ApplyProfilesCore
<1> HIDE DEF moved
<1>7. Good(Sync(moved)) /\ Sync(moved).ext = dropped.ext
  BY Zenon, <1>6, SyncCore, SyncFields DEF Core
<1> QED
  BY Zenon, <1>7 DEF SetPrimary, moved, t, dropped
-----------------------------------------------------------------------------
(* The handlers. *)

\* The parts of the system record are the variables.
LEMMA SystemFields ==
  /\ System.c = c /\ System.u = u /\ System.egress = egress /\ System.ext = ext
  /\ DOMAIN System = {"c", "u", "egress", "ext"}
BY Zenon DEF System

\* A system in which two parts were given by name is as good as another with
\* the same parts.
LEMMA SameGood ==
  ASSUME NEW s, NEW t, Good(s), t.c = s.c, t.u = s.u, t.egress = s.egress, t.ext = s.ext,
         DOMAIN t = {"c", "u", "egress", "ext"}
  PROVE  Good(t)
<1>1. Down(t) /\ Probes(t) /\ Sessions(t) /\ Links(t) /\ Synced(t)
  BY Zenon, DownKeeps, ProbesKeep, SessionsKeep, LinksKeep, SyncedKeeps DEF Good, Core
<1> QED
  BY Zenon, <1>1 DEF Good, Core, Shape, Fdir

\* A handler that ends in a good system keeps the invariant.
LEMMA FinishGood ==
  ASSUME NEW s, Good(s), c' = s.c, u' = s.u, egress' = s.egress, ext' = s.ext
  PROVE  IInv'
<1> DEFINE t == [c |-> c', u |-> u', egress |-> egress', ext |-> ext']
<1>1. /\ t.c = s.c /\ t.u = s.u /\ t.egress = s.egress /\ t.ext = s.ext
      /\ DOMAIN t = {"c", "u", "egress", "ext"}
  BY Zenon
<1> HIDE DEF t
<1>2. Good(t)
  BY Zenon, <1>1, SameGood
<1> QED
  BY Zenon, <1>2 DEF IInv, System, t

\* The controller starts with no session, request or probe.
LEMMA InitGood == Init => IInv
<1> SUFFICES ASSUME Init PROVE Good(System)
  BY Zenon DEF IInv
<1> DEFINE role == [p \in Ports |-> RoleOf(p, "SBAND")]
           v == IngressInit(role)
           yes == TRUE
           no == FALSE
           one == FilePolicy(v, 0, yes)
           two == FilePolicy(one, 1, no)
<1>1. /\ DOMAIN v = UFields /\ v.file \in FileStates /\ \A p \in Ports : v.file[p].auth = FALSE
      /\ v.pending = [p \in Ports |-> 0] /\ v.auth = [p \in Ports |-> NoAuth]
      /\ v.session = [p \in Ports |-> NoSession] /\ v.window = {} /\ v.role = role
      /\ v.nonce = 0 /\ v.token = 1 /\ v.mux = {} /\ v.muxNext = 1 /\ v.running = {}
      /\ v.seen = {} /\ v.replayed = FALSE
  BY Zenon DEF IngressInit, UFields, FileStates
<1>a. yes \in BOOLEAN /\ no \in BOOLEAN
  BY Zenon
<1>b. yes = TRUE /\ no = FALSE
  BY Zenon
<1> HIDE DEF v, yes, no
<1>2. /\ DOMAIN one = UFields /\ SameU(v, one, {"file"}) /\ one.file \in FileStates
      /\ one.file[0].auth = v.file[0].auth /\ one.file[0].allowed = yes
      /\ ~yes => one.file[0].drop
      /\ \A q \in Ports \ {0} : one.file[q] = v.file[q]
  <2>1. 0 \in Ports /\ DOMAIN v = UFields /\ v.file \in FileStates
    BY Zenon, <1>1 DEF Ports
  <2> QED
    BY <1>a, <2>1, FilePolicyFields
<1> HIDE DEF one
<1>3. /\ DOMAIN two = UFields /\ SameU(one, two, {"file"}) /\ two.file \in FileStates
      /\ two.file[1].auth = one.file[1].auth /\ two.file[1].allowed = no
      /\ ~no => two.file[1].drop
      /\ \A q \in Ports \ {1} : two.file[q] = one.file[q]
  <2>1. 1 \in Ports
    BY Zenon DEF Ports
  <2> QED
    BY <1>a, <1>2, <2>1, FilePolicyFields
<1> HIDE DEF two
<1>4. u = two
  BY Zenon DEF Init, two, one, v, yes, no
<1>5. /\ u.pending = v.pending /\ u.auth = v.auth /\ u.session = v.session /\ u.window = v.window
      /\ u.role = v.role /\ u.nonce = v.nonce /\ u.token = v.token /\ u.mux = v.mux
      /\ u.muxNext = v.muxNext /\ u.running = v.running /\ u.seen = v.seen
      /\ u.replayed = v.replayed
  BY ZenonT(40), <1>2, <1>3, <1>4 DEF SameU, UFields
<1>6. /\ NoSession \in [open : BOOLEAN, key : Nat, role : Roles, id : Nat, last : Nat]
      /\ NoSession.open = FALSE /\ NoAuth \in [active : BOOLEAN, key : Nat, idle : Nat]
      /\ NoAuth.active = FALSE
  BY Zenon DEF NoSession, NoAuth, Roles
<1>7. role \in [Ports -> Roles]
  BY Zenon, RoleIsRole
<1>8. UplinkType(u)
  BY <1>1, <1>3, <1>4, <1>5, <1>6, <1>7 DEF UplinkType
<1>9. \A p \in Ports : u.file[p].auth = FALSE
  <2>1. one.file[0].auth = FALSE /\ one.file[1].auth = FALSE
    BY <1>1, <1>2 DEF Ports
  <2>2. two.file[0].auth = FALSE /\ two.file[1].auth = FALSE
    BY Zenon, <1>3, <2>1 DEF Ports
  <2> QED
    BY Zenon, <1>4, <2>2 DEF Ports
<1>10. ASSUME NEW p \in Ports PROVE Authorised(u, p)
  <2>1. u.session[p] = NoSession /\ u.auth[p] = NoAuth /\ u.file[p].auth = FALSE
    BY <1>1, <1>5, <1>9
  <2> QED
    BY Zenon, <1>6, <2>1 DEF Authorised
<1>11. Windows(u) /\ Muxed(u)
  BY <1>1, <1>5 DEF Windows, Muxed
<1>12. Fresh(u)
  BY <1>1, <1>5, <1>6 DEF Fresh, KeyOf
<1>13. Uplink(u)
  BY Zenon, <1>8, <1>10, <1>11, <1>12 DEF Uplink
<1>14. /\ DOMAIN c = CFields /\ DOMAIN ext = XFields /\ c.primary = "SBAND" /\ c.fault = "NONE"
       /\ c.probe = [b \in Bands |-> NoProbe] /\ c.sched = SchedulerInit /\ c.rt = NoRequest
       /\ c.deferred = NoDeferred /\ c.live = Quiet /\ c.suppress = NoSuppress /\ c.stuck = FALSE
       /\ ext.ping = [b \in Bands |-> "NONE"] /\ ext.stale = [b \in Bands |-> FALSE]
       /\ ext.applied = FALSE /\ ext.fd = {} /\ ext.fdNext = 0 /\ ext.awaiting = {} /\ ext.sink = {}
  BY Zenon DEF Init, CFields, XFields
<1> DEFINE s == System
<1>15. s.c = c /\ s.u = u /\ s.egress = egress /\ s.ext = ext /\ DOMAIN s = {"c", "u", "egress", "ext"}
  BY Zenon, SystemFields
<1> HIDE DEF s
<1>16. Shape(s) /\ Fdir(s)
  BY Zenon, <1>14, <1>15 DEF Shape, Fdir, Bands
<1>17. Probes(s)
  <2>1. /\ NoProbe \in [inFlight : BOOLEAN, ready : BOOLEAN, available : BOOLEAN, discard : BOOLEAN]
        /\ DOMAIN ext.ping = Bands /\ ext.stale \in [Bands -> BOOLEAN]
        /\ \A b \in Bands : ~ext.stale[b]
    <3>1. NoProbe \in [inFlight : BOOLEAN, ready : BOOLEAN, available : BOOLEAN, discard : BOOLEAN]
      BY Zenon DEF NoProbe
    <3>2. DOMAIN ext.ping = Bands
      BY Zenon, <1>14
    <3>3. ext.stale \in [Bands -> BOOLEAN] /\ \A b \in Bands : ~ext.stale[b]
      BY Zenon, <1>14
    <3> QED
      BY Zenon, <3>1, <3>2, <3>3
  <2>2. c.probe \in [Bands -> [inFlight : BOOLEAN, ready : BOOLEAN, available : BOOLEAN,
                               discard : BOOLEAN]]
    <3> HIDE DEF NoProbe
    <3> QED
      BY <1>14, <2>1
  <2>3. ext.applied = FALSE
    BY Zenon, <1>14
  <2> QED
    BY Zenon, <1>15, <2>1, <2>2, <2>3 DEF Probes
<1>18. Down(s)
  <2>1. /\ c.sched \in [active : Nat, link : Bands, launch : Int, next : Nat \ {0}]
        /\ c.sched.active = 0 /\ c.sched.next = 1
        /\ c.deferred \in [pending : BOOLEAN, ticks : Nat, request : Nat]
        /\ c.deferred.pending = FALSE
    BY <1>14 DEF SchedulerInit, NoDeferred, NoRequest, NO_ACTIVE_CONTEXT, Bands
  <2>2. Scheduler(s)
    BY <1>14, <1>15, <2>1 DEF Scheduler, NoRequest
  <2>3. Files(s)
    BY <1>14, <1>15, <2>1 DEF Files
  <2> QED
    BY Zenon, <1>14, <1>15, <2>1, <2>2, <2>3 DEF Down, NoRequest
<1>19. Sessions(s)
  <2>1. ~u.session[0].open
    BY <1>1, <1>5, <1>6 DEF Ports
  <2>2. DOMAIN NoSuppress = {"active", "id", "ticks"} /\ NoSuppress.active = FALSE
    BY Zenon DEF NoSuppress
  <2> QED
    BY Zenon, <1>14, <1>15, <2>1, <2>2 DEF Sessions
<1>20. Links(s)
  <2>1. u.role[0] = "PRIMARY" /\ u.role[1] = "BACKUP"
    BY <1>1, <1>5 DEF Ports, RoleOf, PortOf
  <2>2. u.file[0].allowed /\ ~u.file[1].allowed /\ u.file[1].drop
    <3>1. one.file[0].allowed = yes /\ two.file[1].allowed = no /\ two.file[1].drop
      BY Zenon, <1>b, <1>2, <1>3
    <3>2. two.file[0] = one.file[0]
      BY <1>3 DEF Ports
    <3> QED
      BY Zenon, <1>b, <1>4, <3>1, <3>2
  <2>3. RoleOf(0, "SBAND") = "PRIMARY" /\ RoleOf(1, "SBAND") = "BACKUP"
    BY DEF RoleOf, PortOf
  <2>4. FileAllowed(0, "PRIMARY") = TRUE /\ FileAllowed(1, "BACKUP") = FALSE
    BY Zenon DEF FileAllowed
  <2>5. s.c.primary = "SBAND" /\ s.u = u /\ u.file \in FileStates
    BY Zenon, <1>3, <1>4, <1>14, <1>15
  <2>6. u.file[0].allowed = TRUE /\ u.file[1].allowed = FALSE
    BY Zenon, <2>2, <2>5 DEF FileStates, Ports
  <2>7. Linked(s, 0) /\ Linked(s, 1)
    BY Zenon, <2>1, <2>2, <2>3, <2>4, <2>5, <2>6 DEF Linked
  <2> QED
    BY Zenon, <2>7 DEF Links, Ports
<1>21. Synced(s)
  <2>1. c.live.active = FALSE /\ c.sched.active = NoRequest
    BY <1>14 DEF Quiet, SchedulerInit
  <2>2. egress = [primary |-> "SBAND", live |-> FALSE, hold |-> FALSE]
    BY Zenon DEF Init
  <2> QED
    BY Zenon, <1>14, <1>15, <2>1, <2>2 DEF Synced, Policy
<1> QED
  BY Zenon, <1>13, <1>14, <1>15, <1>16, <1>17, <1>18, <1>19, <1>20, <1>21 DEF Good, Core, s

\* SchedIn: probes, deferred launch, reliable transfer, fault detection.
LEMMA TickGood ==
  ASSUME IInv, NEW ok, NEW sent \in BOOLEAN, NEW launched, NEW finished,
         Tick(ok, sent, launched, finished)
  PROVE  IInv'
<1> DEFINE one == PollProbe(System, "SBAND")
           polled == PollProbe(one, "UHF")
           fresh == RefreshLinks(polled, ok, sent)
           served == PollReliable(ProcessDeferred(UpdateFdir(fresh), launched), finished)
           suppress == served.c.suppress
           left == IF suppress.ticks > 1 THEN [suppress EXCEPT !.ticks = @ - 1] ELSE NoSuppress
           pass == IF served.c.pass > 0 THEN served.c.pass - 1 ELSE 0
           passed == [served EXCEPT !.c.suppress = left, !.c.pass = pass]
           last == IF (suppress.active /\ ~left.active) \/ c.pass = 1 THEN Sync(passed) ELSE passed
<1>1. Finish(last)
  BY Zenon DEF Tick
<1>2. "SBAND" \in Bands /\ "UHF" \in Bands
  BY Zenon DEF Bands
<1>3. Good(one)
  BY Zenon, <1>2, PollProbeStep, ProbeStepGood DEF IInv, Good, Core
<1> HIDE DEF one
<1>4. Good(polled)
  BY Zenon, <1>2, <1>3, PollProbeStep, ProbeStepGood DEF Good, Core
<1> HIDE DEF polled
<1>5. Good(fresh)
  BY Zenon, <1>4, RefreshLinksStep, ProbeStepGood DEF Good, Core
<1> HIDE DEF fresh
<1>6. Good(served)
  BY Zenon, <1>5, UpdateFdirGood, ProcessDeferredGood, PollReliableGood
<1> HIDE DEF served
<1>7. /\ DOMAIN left = {"active", "id", "ticks"} /\ left.active \in BOOLEAN
      /\ left.active => suppress.active /\ left.id = suppress.id
  BY Zenon, <1>6 DEF Good, Core, Sessions, NoSuppress
<1> HIDE DEF left, pass
<1>8. /\ Shape(passed) /\ passed.u = served.u /\ passed.ext = served.ext
      /\ passed.egress = served.egress /\ SameC(served, passed, {"suppress", "pass"})
      /\ passed.c.suppress = left
  BY Zenon, <1>6 DEF Good, Core, Shape, SameC, CFields
<1> HIDE DEF passed
<1>9. /\ passed.c.sched = served.c.sched /\ passed.c.rt = served.c.rt
      /\ passed.c.deferred = served.c.deferred /\ passed.c.probe = served.c.probe
      /\ passed.c.fault = served.c.fault /\ passed.c.live = served.c.live
      /\ passed.c.stuck = served.c.stuck /\ passed.c.primary = served.c.primary
  BY Zenon, <1>8 DEF SameC, CFields
<1>10. Down(passed) /\ Probes(passed) /\ Links(passed) /\ Fdir(passed) /\ Synced(passed)
  BY Zenon, <1>6, <1>8, <1>9, DownKeeps, ProbesKeep, LinksKeep, SyncedKeeps DEF Good, Core, Fdir
<1>11. Sessions(passed)
  BY Zenon, <1>6, <1>7, <1>8, <1>9 DEF Good, Core, Sessions
<1>12. Good(passed)
  BY Zenon, <1>6, <1>8, <1>9, <1>10, <1>11 DEF Good, Core
<1>13. Good(last)
  BY Zenon, <1>12, SyncCore DEF Good
<1> HIDE DEF last
<1> QED
  BY Zenon, <1>1, <1>13, FinishGood DEF Finish

\* The two bands and their ports.
LEMMA OtherBand ==
  ASSUME NEW b \in Bands PROVE Other(b) \in Bands /\ PortOf(b) \in Ports
BY Zenon DEF Bands, Other, PortOf, Ports

\* A forced probe keeps the whole invariant.
LEMMA ForceProbeGood ==
  ASSUME NEW s, Good(s), NEW b \in Bands, NEW ok
  PROVE  Good(ForceProbe(s, b, ok))
BY Zenon, ForceProbeStep, ProbeStepGood DEF Good, Core

\* The operator's choice of the primary band.
LEMMA SetActiveGood ==
  ASSUME IInv, NEW band \in Bands, NEW ok, SetActive(band, ok)
  PROVE  IInv'
<1> DEFINE probed == ForceProbe(System, band, ok)
           last == IF probed.c.available[band] THEN SetPrimary(probed, band, "OPERATOR_SWITCH")
                   ELSE probed
<1>1. Finish(last)
  BY Zenon DEF SetActive
<1>2. Good(probed)
  BY Zenon, ForceProbeGood DEF IInv
<1> HIDE DEF probed
<1>3. Good(last)
  BY Zenon, <1>2, SetPrimaryGood
<1> HIDE DEF last
<1> QED
  BY Zenon, <1>1, <1>3, FinishGood DEF Finish

\* A pass opens or closes.
LEMMA SetPassGood ==
  ASSUME IInv, NEW duration, SetPass(duration)
  PROVE  IInv'
<1> DEFINE s == System
           t == [s EXCEPT !.c.pass = duration]
<1>1. Finish(Sync(t))
  BY Zenon DEF SetPass
<1>2. Good(s)
  BY Zenon DEF IInv
<1> HIDE DEF s
<1>3. /\ Shape(t) /\ t.u = s.u /\ t.ext = s.ext /\ t.egress = s.egress /\ SameC(s, t, {"pass"})
  BY Zenon, <1>2 DEF Good, Core, Shape, SameC, CFields
<1> HIDE DEF t
<1>4. /\ t.c.sched = s.c.sched /\ t.c.rt = s.c.rt /\ t.c.deferred = s.c.deferred
      /\ t.c.primary = s.c.primary /\ t.c.probe = s.c.probe /\ t.c.fault = s.c.fault
      /\ t.c.stuck = s.c.stuck /\ t.c.live = s.c.live /\ t.c.suppress = s.c.suppress
  BY Zenon, <1>3 DEF SameC, CFields
<1>5. Down(t) /\ Probes(t) /\ Fdir(t) /\ Links(t) /\ Sessions(t)
  BY Zenon, <1>2, <1>3, <1>4, DownKeeps, ProbesKeep, LinksKeep, SessionsKeep DEF Good, Core, Fdir
<1>6. Core(t)
  BY Zenon, <1>2, <1>3, <1>4, <1>5 DEF Good, Core
<1>7. Good(Sync(t))
  BY Zenon, <1>5, <1>6, SyncCore
<1> QED
  BY Zenon, <1>1, <1>7, FinishGood DEF Finish

\* A status query.
LEMMA GetStatusGood ==
  ASSUME IInv, GetStatus
  PROVE  IInv'
<1> DEFINE one == PollProbe(System, "SBAND")
           polled == PollProbe(one, "UHF")
           half == QueryBand(polled, "SBAND")
           asked == QueryBand(half, "UHF")
<1>1. Finish(asked)
  BY Zenon DEF GetStatus
<1>2. "SBAND" \in Bands /\ "UHF" \in Bands
  BY Zenon DEF Bands
<1>3. Good(one)
  BY Zenon, <1>2, PollProbeStep, ProbeStepGood DEF IInv, Good, Core
<1> HIDE DEF one
<1>4. Good(polled)
  BY Zenon, <1>2, <1>3, PollProbeStep, ProbeStepGood DEF Good, Core
<1> HIDE DEF polled
<1>5. Good(half)
  BY Zenon, <1>2, <1>4, QueryBandStep, ProbeStepGood DEF Good, Core
<1> HIDE DEF half
<1>6. Good(asked)
  BY Zenon, <1>2, <1>5, QueryBandStep, ProbeStepGood DEF Good, Core
<1> HIDE DEF asked
<1> QED
  BY Zenon, <1>1, <1>6, FinishGood DEF Finish

\* Both links down: the session of the primary band is revoked silently, then
\* its authorisation invalidated.
LEMMA LinkLossGood ==
  ASSUME NEW s, Good(s), NEW p \in Ports
  PROVE  LET silent == [s EXCEPT !.c.suppress = IF p = 1 THEN NoSuppress ELSE @,
                                 !.c.live = IF p = 0 THEN Quiet ELSE @,
                                 !.u = CloseSession(s.u, p)]
         IN  Good(Sync(InvalidateLocked(silent, p)))
<1> DEFINE suppress == IF p = 1 THEN NoSuppress ELSE s.c.suppress
           live == IF p = 0 THEN Quiet ELSE s.c.live
           shut == CloseSession(s.u, p)
           silent == [s EXCEPT !.c.suppress = suppress, !.c.live = live, !.u = shut]
           t == InvalidateLocked(silent, p)
           v == Invalidate(shut, p)
<1>1. /\ RevokedTo(s.u, v, p) /\ v.role = s.u.role /\ ~shut.session[p].open
      /\ v.file[p].allowed = s.u.file[p].allowed /\ (s.u.file[p].drop => v.file[p].drop)
  BY Zenon, InvalidatedRevokes DEF Good, Core
<1>2. DOMAIN NoSuppress = {"active", "id", "ticks"} /\ NoSuppress.active = FALSE
  BY Zenon DEF NoSuppress
<1> HIDE DEF suppress, live, shut
<1>3. /\ Shape(silent) /\ silent.u = shut /\ silent.ext = s.ext
      /\ SameC(s, silent, {"live", "suppress"})
      /\ silent.c.suppress = suppress /\ silent.c.live = live
  BY Zenon DEF Good, Core, Shape, SameC, CFields
<1>4. silent.c.stuck = FALSE
  BY Zenon, <1>3 DEF SameC, CFields, Good, Core
<1> HIDE DEF silent
<1>5. /\ Shape(t) /\ t.ext = s.ext /\ SameC(silent, t, {"stuck"})
      /\ t.c.stuck = FALSE /\ t.u = v
  BY ZenonT(30), <1>1, <1>3, <1>4, InvalidateLockedFields
<1> HIDE DEF t, v
<1>6. t.c.suppress = suppress /\ t.c.live = live /\ SameC(s, t, {"live", "suppress", "stuck"})
  BY Zenon, <1>3, <1>5 DEF SameC, CFields
<1>7. RevokedFrom(s, t, p)
  BY Zenon, <1>1, <1>2, <1>5, <1>6 DEF RevokedFrom, suppress, live
<1>8. /\ Core(t) /\ t.c.primary = s.c.primary
      /\ \A q \in Ports \ {p} : Linked(s, q) => Linked(t, q)
  BY Zenon, <1>7, RevokedCore DEF Good
<1>9. Linked(t, p)
  BY Zenon, <1>1, <1>5, <1>8 DEF Linked, Good, Links
<1>10. Links(t)
  BY Zenon, <1>8, <1>9 DEF Good, Links
<1>11. Good(Sync(t))
  BY Zenon, <1>8, <1>10, SyncCore
<1> QED
  BY Zenon, <1>11 DEF t, silent, shut, suppress, live

\* The recovery executor's failover, which may switch the links.
LEMMA RecoveryFailoverGood ==
  ASSUME IInv, NEW ok, NEW backupOk, RecoveryFailover(ok, backupOk)
  PROVE  IInv'
<1> DEFINE b == c.primary
           one == ForceProbe(System, b, ok)
           probed == ForceProbe(one, Other(b), backupOk)
           p == PortOf(b)
           lost == IF Drops(c.sched, b) THEN EndRequest(probed) ELSE probed
           silent == [lost EXCEPT !.c.suppress = IF p = 1 THEN NoSuppress ELSE @,
                                  !.c.live = IF p = 0 THEN Quiet ELSE @,
                                  !.u = CloseSession(lost.u, p)]
<1>1. \/ Finish(probed)
      \/ Finish(SetPrimary(probed, Other(b), "LINK_FAILOVER"))
      \/ Finish(Sync(InvalidateLocked(silent, p)))
  BY Zenon DEF RecoveryFailover
<1>2. b \in Bands
  BY Zenon, SystemFields DEF IInv, Good, Core, Shape
<1>3. Other(b) \in Bands /\ p \in Ports
  BY Zenon, <1>2, OtherBand
<1>4. Good(one)
  BY Zenon, <1>2, ForceProbeGood DEF IInv
<1> HIDE DEF one
<1>5. Good(probed)
  BY Zenon, <1>3, <1>4, ForceProbeGood
<1> HIDE DEF probed
<1>6. Good(lost)
  BY Zenon, <1>5, EndRequestGood DEF Good
<1> HIDE DEF lost
<1>7. Good(Sync(InvalidateLocked(silent, p)))
  BY Zenon, <1>3, <1>6, LinkLossGood
<1>8. Good(SetPrimary(probed, Other(b), "LINK_FAILOVER"))
  BY Zenon, <1>3, <1>5, SetPrimaryGood
<1> HIDE DEF silent, p, b
<1> QED
  BY Zenon, <1>1, <1>5, <1>7, <1>8, FinishGood DEF Finish

\* submit when nothing is active.
LEMMA SubmitFields ==
  ASSUME NEW q \in [active : Nat, link : Bands, launch : Int, next : Nat \ {0}],
         NEW b \in Bands, q.active = NoRequest
  PROVE  LET t == Submit(q, b)
         IN  /\ t.active = q.next /\ t.launch = NO_ACTIVE_CONTEXT /\ t.next = q.next + 1
             /\ t \in [active : Nat, link : Bands, launch : Int, next : Nat \ {0}]
<1> DEFINE one == [q EXCEPT !.active = q.next]
           two == [one EXCEPT !.link = b]
           three == [two EXCEPT !.launch = NO_ACTIVE_CONTEXT]
           t == [three EXCEPT !.next = three.next + 1]
<1>1. t = Submit(q, b)
  BY Zenon DEF Submit
<1>2. /\ one \in [active : Nat, link : Bands, launch : Int, next : Nat \ {0}]
      /\ one.active = q.next /\ one.next = q.next
  BY Zenon
<1> HIDE DEF one
<1>3. /\ two \in [active : Nat, link : Bands, launch : Int, next : Nat \ {0}]
      /\ two.active = q.next /\ two.next = q.next
  BY Zenon, <1>2
<1> HIDE DEF two
<1>4. /\ three \in [active : Nat, link : Bands, launch : Int, next : Nat \ {0}]
      /\ three.active = q.next /\ three.next = q.next /\ three.launch = NO_ACTIVE_CONTEXT
  BY <1>3 DEF NO_ACTIVE_CONTEXT
<1> HIDE DEF three
<1>5. /\ t \in [active : Nat, link : Bands, launch : Int, next : Nat \ {0}]
      /\ t.active = q.next /\ t.next = q.next + 1 /\ t.launch = NO_ACTIVE_CONTEXT
  BY <1>4
<1> QED
  BY Zenon, <1>1, <1>5

\* A request the busy scheduler turns down costs a number only.
LEMMA RequestFileGood ==
  ASSUME IInv, NEW launched, RequestFile(launched)
  PROVE  IInv'
<1> DEFINE s == System
           id == c.sched.next
           asked == [s EXCEPT !.c.sched = Submit(s.c.sched, c.primary)]
           taken == [asked EXCEPT !.ext.awaiting = asked.ext.awaiting \cup {id}]
           hold == [pending |-> TRUE, ticks |-> QuiesceTicks, request |-> id]
           waiting == [taken EXCEPT !.c.deferred = hold]
<1>1. \/ c.sched.active # NoRequest /\ Finish(Sync(asked))
      \/ c.sched.active = NoRequest /\ Finish(Sync(waiting))
      \/ c.sched.active = NoRequest /\ Finish(Sync(LaunchOk(taken, id)))
      \/ c.sched.active = NoRequest /\ Finish(EndRequest(LaunchFailed(asked)))
  BY Zenon DEF RequestFile
<1>2. Good(s) /\ s.c = c /\ s.ext = ext
  BY Zenon, SystemFields DEF IInv
<1> HIDE DEF s
<1>3. /\ Core(s) /\ Links(s) /\ Shape(s) /\ Scheduler(s) /\ Files(s)
      /\ s.ext.awaiting = {s.c.sched.active} \ {NoRequest}
      /\ s.c.sched.active # NoRequest => Tracked(s)
  BY Zenon, <1>2 DEF Good, Core, Down
<1>4. s.c.sched \in [active : Nat, link : Bands, launch : Int, next : Nat \ {0}]
  BY Zenon, <1>3 DEF Scheduler
<1>5. /\ Shape(asked) /\ asked.u = s.u /\ asked.ext = s.ext /\ SameC(s, asked, {"sched"})
      /\ asked.c.sched = Submit(s.c.sched, c.primary)
  BY Zenon, <1>3 DEF Shape, SameC, CFields
<1> HIDE DEF asked
<1>6. asked.c.rt = s.c.rt /\ asked.c.deferred = s.c.deferred
  BY Zenon, <1>5 DEF SameC, CFields
<1>7. DownStep(s, asked)
  BY Zenon, <1>5 DEF DownStep, SameC, SameX
<1>8. CASE c.sched.active # NoRequest /\ Finish(Sync(asked))
  <2>1. /\ asked.c.sched.active = s.c.sched.active /\ asked.c.sched.launch = s.c.sched.launch
        /\ asked.c.sched.next = s.c.sched.next + 1
        /\ asked.c.sched \in [active : Nat, link : Bands, launch : Int, next : Nat \ {0}]
    BY SMTT(30), <1>2, <1>4, <1>5, <1>8 DEF Submit
  <2>2. Scheduler(asked)
    BY SMTT(30), <1>3, <1>4, <1>5, <1>6, <2>1 DEF Scheduler
  <2>3. Files(asked)
    BY <1>3, <1>4, <1>5, <2>1 DEF Files
  <2>4. Down(asked)
    BY Zenon, <1>3, <1>5, <1>6, <2>1, <2>2, <2>3 DEF Down, Tracked
  <2>5. Good(Sync(asked))
    <3>1. /\ Shape(Sync(asked)) /\ Sync(asked).c = asked.c /\ Sync(asked).u = asked.u
          /\ Sync(asked).ext = asked.ext /\ Synced(Sync(asked))
      BY Zenon, <1>5, SyncFields
    <3>2. DownStep(s, Sync(asked))
      BY Zenon, <1>7, <3>1 DEF DownStep, SameC, SameX
    <3>3. Down(Sync(asked))
      BY Zenon, <2>4, <3>1, DownKeeps
    <3> QED
      BY Zenon, <1>3, <3>1, <3>2, <3>3, DownStepGood
  <2> QED
    BY Zenon, <1>8, <2>5, FinishGood DEF Finish
<1>9. ASSUME c.sched.active = NoRequest
      PROVE  /\ asked.c.sched.active = id /\ asked.c.sched.launch = NO_ACTIVE_CONTEXT
             /\ asked.c.sched.next = id + 1 /\ id \in Nat /\ id # NoRequest
             /\ asked.c.sched \in [active : Nat, link : Bands, launch : Int, next : Nat \ {0}]
             /\ Files(asked) /\ Scheduler(asked) /\ s.ext.fdNext < id /\ s.ext.awaiting = {}
             /\ s.c.rt = NoRequest /\ ~s.c.deferred.pending /\ Launching(asked)
  <2>1. /\ asked.c.sched.active = id /\ asked.c.sched.launch = NO_ACTIVE_CONTEXT
        /\ asked.c.sched.next = id + 1 /\ id \in Nat /\ id # NoRequest
        /\ asked.c.sched \in [active : Nat, link : Bands, launch : Int, next : Nat \ {0}]
    <3>1. c.primary \in Bands
      BY Zenon, <1>2, <1>3 DEF Shape
    <3> QED
      BY SMTT(30), <1>2, <1>4, <1>5, <1>9, <3>1, SubmitFields DEF NoRequest
  <2>2. /\ s.c.rt = NoRequest /\ ~s.c.deferred.pending /\ s.ext.awaiting = {}
    BY Zenon, <1>2, <1>3, <1>9 DEF Scheduler
  <2>3. s.ext.fdNext < id
    BY Zenon, <1>2, <1>3 DEF Files
  <2>4. Files(asked)
    <3>1. \A e \in s.ext.fd : e.request <= id /\ e.request < id + 1
      BY SMTT(30), <1>2, <1>3, <2>1 DEF Files
    <3> QED
      BY SMTT(30), <1>2, <1>3, <1>5, <2>1, <2>3, <3>1 DEF Files
  <2>5. Scheduler(asked)
    BY <1>3, <1>6, <2>1, <2>2 DEF Scheduler
  <2> QED
    BY Zenon, <1>5, <1>6, <2>1, <2>2, <2>3, <2>4, <2>5 DEF Launching
<1>10. ASSUME c.sched.active = NoRequest
       PROVE  /\ Shape(taken) /\ taken.u = s.u /\ taken.c = asked.c
              /\ SameX(s, taken, {"awaiting"}) /\ taken.ext.awaiting = {id}
              /\ taken.ext.fd = s.ext.fd /\ taken.ext.fdNext = s.ext.fdNext
              /\ DownStep(s, taken)
  <2>1. /\ Shape(taken) /\ taken.u = s.u /\ taken.c = asked.c
        /\ SameX(s, taken, {"awaiting"}) /\ taken.ext.awaiting = asked.ext.awaiting \cup {id}
    BY Zenon, <1>5 DEF Shape, SameX, XFields
  <2> HIDE DEF taken
  <2>2. taken.ext.awaiting = {id}
    BY Zenon, <1>5, <1>9, <1>10, <2>1
  <2>3. taken.ext.fd = s.ext.fd /\ taken.ext.fdNext = s.ext.fdNext
    BY Zenon, <2>1 DEF SameX, XFields
  <2>4. DownStep(s, taken)
    BY Zenon, <1>7, <2>1 DEF DownStep, SameX, SameC
  <2> QED
    BY Zenon, <2>1, <2>2, <2>3, <2>4
<1> HIDE DEF taken
<1>11. CASE c.sched.active = NoRequest /\ Finish(Sync(waiting))
  <2>1. /\ hold \in [pending : BOOLEAN, ticks : Nat, request : Nat]
        /\ hold.pending = TRUE /\ hold.request = id
    BY Zenon, <1>9, <1>11, CommAssumption
  <2> HIDE DEF hold
  <2>2. /\ Shape(waiting) /\ waiting.u = s.u /\ waiting.ext = taken.ext
        /\ SameC(taken, waiting, {"deferred"}) /\ waiting.c.deferred = hold
    BY Zenon, <1>10, <1>11 DEF Shape, SameC, CFields
  <2> HIDE DEF waiting
  <2>3. waiting.c.sched = asked.c.sched /\ waiting.c.rt = asked.c.rt
    BY Zenon, <1>10, <1>11, <2>2 DEF SameC, CFields
  <2>4. DownStep(s, waiting)
    BY Zenon, <1>10, <1>11, <2>2 DEF DownStep, SameC, SameX
  <2>5. Scheduler(waiting)
    BY ZenonT(40), <1>6, <1>9, <1>10, <1>11, <2>1, <2>2, <2>3 DEF Scheduler
  <2>6. Files(waiting)
    <3>1. waiting.ext.fd = asked.ext.fd /\ waiting.ext.fdNext = asked.ext.fdNext
      BY Zenon, <1>5, <1>10, <1>11, <2>2
    <3>2. Files(asked)
      BY Zenon, <1>9, <1>11
    <3> QED
      BY Zenon, <2>3, <3>1, <3>2 DEF Files
  <2>7. Down(waiting)
    BY SMTT(30), <1>9, <1>10, <1>11, <2>1, <2>2, <2>3, <2>5, <2>6 DEF Down, Tracked
  <2>8. Good(Sync(waiting))
    <3> DEFINE t == Sync(waiting)
    <3>1. Shape(t) /\ t.c = waiting.c /\ t.u = waiting.u /\ t.ext = waiting.ext /\ Synced(t)
      BY Zenon, <2>2, SyncFields
    <3> HIDE DEF t
    <3>2. DownStep(s, t) /\ Down(t)
      BY Zenon, <2>4, <2>7, <3>1, DownKeeps DEF DownStep, SameC, SameX
    <3>3. Good(t)
      BY Zenon, <1>3, <3>1, <3>2, DownStepGood
    <3> QED
      BY Zenon, <3>3 DEF t
  <2> QED
    BY Zenon, <1>11, <2>8, FinishGood DEF Finish
<1>12. CASE c.sched.active = NoRequest /\ Finish(Sync(LaunchOk(taken, id)))
  <2> DEFINE w == LaunchOk(taken, id)
             t == Sync(w)
  <2>1. Launching(taken) /\ taken.c.sched.active = id
    <3>1. Files(taken)
      BY ZenonT(40), <1>5, <1>9, <1>10, <1>12 DEF Files
    <3>2. Scheduler(taken)
      BY Zenon, <1>5, <1>9, <1>10, <1>12 DEF Scheduler
    <3> QED
      BY ZenonT(30), <1>6, <1>9, <1>10, <1>12, <3>1, <3>2 DEF Launching
  <2>2. DownStep(taken, w) /\ Down(w)
    BY Zenon, <1>10, <1>12, <2>1, LaunchOkDown
  <2> HIDE DEF w
  <2>3. Shape(t) /\ t.c = w.c /\ t.u = w.u /\ t.ext = w.ext /\ Synced(t)
    BY Zenon, <2>2, SyncFields DEF DownStep
  <2> HIDE DEF t
  <2>4. DownStep(s, t) /\ Down(t)
    BY Zenon, <1>10, <1>12, <2>2, <2>3, DownKeeps DEF DownStep, SameC, SameX
  <2>5. Good(t)
    BY Zenon, <1>3, <2>3, <2>4, DownStepGood
  <2> QED
    BY Zenon, <1>12, <2>5, FinishGood DEF Finish, t, w
<1>13. CASE c.sched.active = NoRequest /\ Finish(EndRequest(LaunchFailed(asked)))
  <2> DEFINE w == LaunchFailed(asked)
             t == EndRequest(w)
  <2>1. asked.ext.awaiting \subseteq {asked.c.sched.active}
    BY Zenon, <1>5, <1>9, <1>13
  <2>2. DownStep(asked, w) /\ Ending(w)
    BY Zenon, <1>5, <1>9, <1>13, <2>1, LaunchFailedEnds
  <2> HIDE DEF w
  <2>3. DownStep(w, t) /\ Down(t) /\ Synced(t)
    BY Zenon, <2>2, EndRequestDown DEF DownStep
  <2> HIDE DEF t
  <2>4. DownStep(s, t)
    BY Zenon, <1>7, <2>2, <2>3 DEF DownStep, SameC, SameX
  <2>5. Good(t)
    BY Zenon, <1>3, <2>3, <2>4, DownStepGood
  <2> QED
    BY Zenon, <1>13, <2>5, FinishGood DEF Finish, t, w
<1> QED
  BY Zenon, <1>1, <1>8, <1>11, <1>12, <1>13

\* A file that is not the active one's leaves the active request tracked.
LEMMA FileCompleteGood ==
  ASSUME IInv, NEW e, FileComplete(e)
  PROVE  IInv'
<1> DEFINE s == System
           gone == [s EXCEPT !.ext.fd = s.ext.fd \ {e}]
           last == IF Completes(c.sched, e.context) THEN EndRequest(gone) ELSE Sync(gone)
<1>1. e \in ext.fd /\ Finish(last)
  BY Zenon DEF FileComplete
<1>2. Good(s) /\ s.c = c /\ s.ext = ext
  BY Zenon, SystemFields DEF IInv
<1> HIDE DEF s
<1>3. Core(s) /\ Links(s) /\ Shape(s) /\ Down(s)
  BY Zenon, <1>2 DEF Good, Core
<1>4. /\ Shape(gone) /\ gone.u = s.u /\ gone.c = s.c /\ SameX(s, gone, {"fd"})
      /\ gone.ext.fd = s.ext.fd \ {e}
  BY Zenon, <1>3 DEF Shape, SameX, XFields
<1> HIDE DEF gone
<1>5. gone.ext.fdNext = s.ext.fdNext /\ gone.ext.awaiting = s.ext.awaiting
  BY Zenon, <1>4 DEF SameX, XFields
<1>6. Files(gone) /\ Scheduler(gone)
  BY Zenon, <1>3, <1>4, <1>5 DEF Down, Files, Scheduler
<1>7. DownStep(s, gone)
  BY Zenon, <1>4 DEF DownStep, SameC, SameX
<1>8. CASE Completes(c.sched, e.context)
  <2> DEFINE t == EndRequest(gone)
  <2>1. Ending(gone)
    BY Zenon, <1>3, <1>4, <1>5, <1>6 DEF Ending, Down, Scheduler
  <2>2. DownStep(gone, t) /\ Down(t) /\ Synced(t)
    BY Zenon, <1>4, <2>1, EndRequestDown
  <2> HIDE DEF t
  <2>3. DownStep(s, t)
    BY Zenon, <1>7, <2>2 DEF DownStep, SameC, SameX
  <2>4. Good(t)
    BY Zenon, <1>3, <2>2, <2>3, DownStepGood
  <2> QED
    BY Zenon, <1>1, <1>8, <2>4, FinishGood DEF Finish, t
<1>9. CASE ~Completes(c.sched, e.context)
  <2> DEFINE t == Sync(gone)
             own == [context |-> s.c.sched.launch, request |-> s.c.sched.active]
  <2>1. ASSUME s.c.sched.active # NoRequest, own \in s.ext.fd
        PROVE  own \in gone.ext.fd
    <3>1. own.context = s.c.sched.launch
      BY Zenon
    <3> HIDE DEF own
    <3>2. own.context \in Nat
      BY Zenon, <1>3, <2>1 DEF Down, Files
    <3>3. own # e
      BY SMTT(30), <1>2, <1>9, <2>1, <3>1, <3>2 DEF Completes, NO_ACTIVE_CONTEXT
    <3> QED
      BY Zenon, <1>4, <2>1, <3>3
  <2>2. Down(gone)
    BY Zenon, <1>3, <1>4, <1>5, <1>6, <2>1 DEF Down, Tracked
  <2>3. Shape(t) /\ t.c = gone.c /\ t.u = gone.u /\ t.ext = gone.ext /\ Synced(t)
    BY Zenon, <1>4, SyncFields
  <2> HIDE DEF t
  <2>4. DownStep(s, t) /\ Down(t)
    BY Zenon, <1>7, <2>2, <2>3, DownKeeps DEF DownStep, SameC, SameX
  <2>5. Good(t)
    BY Zenon, <1>3, <2>3, <2>4, DownStepGood
  <2> QED
    BY Zenon, <1>1, <1>9, <2>5, FinishGood DEF Finish, t
<1> QED
  BY Zenon, <1>8, <1>9

\* A new state of the uplink with the sessions, roles and file policies of the old.
LEMMA NewUplink ==
  ASSUME NEW s, Good(s), NEW v, Uplink(v), v.role = s.u.role,
         \A q \in Ports : /\ v.session[q].open = s.u.session[q].open
                          /\ v.session[q].id = s.u.session[q].id
                          /\ v.file[q].allowed = s.u.file[q].allowed
                          /\ ~v.file[q].allowed => v.file[q].drop
  PROVE  Good([s EXCEPT !.u = v])
<1> DEFINE t == [s EXCEPT !.u = v]
<1>1. Shape(t) /\ t.c = s.c /\ t.ext = s.ext /\ t.egress = s.egress /\ t.u = v
  BY Zenon DEF Good, Core, Shape
<1> HIDE DEF t
<1>2. Links(t)
  BY ZenonT(40), <1>1 DEF Good, Links, Linked
<1>3. Good(t)
  BY Zenon, <1>1, <1>2, UplinkStepGood
<1> QED
  BY Zenon, <1>3 DEF t

\* A handler that changes the uplink only.
LEMMA UplinkFinish ==
  ASSUME IInv, UNCHANGED <<c, egress, ext>>, Good([System EXCEPT !.u = u'])
  PROVE  IInv'
<1> DEFINE t == [System EXCEPT !.u = u']
<1>1. t.c = c' /\ t.u = u' /\ t.egress = egress' /\ t.ext = ext'
  BY Zenon, SystemFields
<1> HIDE DEF t
<1> QED
  BY Zenon, <1>1, FinishGood DEF t

\* What IInv says of the uplink on its own.
LEMMA UplinkNow ==
  ASSUME IInv
  PROVE  /\ Good(System) /\ System.u = u /\ Uplink(u)
         /\ \A q \in Ports : ~u.file[q].allowed => u.file[q].drop
BY Zenon, SystemFields DEF IInv, Good, Core, Links, Linked

\* A request for a challenge.
LEMMA RequestAuthGood ==
  ASSUME IInv, NEW p \in Ports, RequestAuth(p)
  PROVE  IInv'
<1> DEFINE v == IssueChallenge(u, p)
<1>1. u' = v /\ UNCHANGED <<c, egress, ext>>
  BY Zenon DEF RequestAuth
<1>2. Uplink(v)
  BY Zenon, UplinkNow, ChallengeUplink
<1>3. v.role = u.role /\ v.session = u.session /\ v.file = u.file
  BY Zenon, UplinkNow DEF IssueChallenge, Uplink, UplinkType, UFields
<1> HIDE DEF v
<1>4. Good([System EXCEPT !.u = v])
  BY Zenon, <1>2, <1>3, UplinkNow, NewUplink
<1> QED
  BY Zenon, <1>1, <1>4, UplinkFinish

\* The answer to a challenge, which may open a session.
LEMMA AuthResponseGood ==
  ASSUME IInv, NEW p \in Ports, NEW key, AuthResponse(p, key)
  PROVE  IInv'
<1> DEFINE t == SessionOpened([System EXCEPT !.u = EstablishAuth(System.u, p)], p)
<1>1. System.u = u /\ Good(System)
  BY Zenon, UplinkNow
<1>2. u.pending[p] # 0 /\ Finish(t)
  BY Zenon, <1>1 DEF AuthResponse, ResponseValid
<1>3. Good(t)
  BY Zenon, <1>1, <1>2, OpenedGood
<1> HIDE DEF t
<1> QED
  BY Zenon, <1>2, <1>3, FinishGood DEF Finish

\* The time-out of authorisations.
LEMMA AuthTickGood ==
  ASSUME IInv, NEW back \in BOOLEAN, AuthTick(back)
  PROVE  IInv'
<1> DEFINE due == {p \in Ports : u.auth[p].active /\ ~back /\ u.auth[p].idle + 1 >= AuthTimeout}
           auth == [p \in Ports |-> Aged(u.auth[p], back)]
           v == [u EXCEPT !.auth = auth]
           aged == [System EXCEPT !.u = v]
           one == IF 0 \in due THEN TimedOut(aged, 0) ELSE aged
           two == IF 1 \in due THEN TimedOut(one, 1) ELSE one
<1>1. System.u = u /\ Good(System) /\ Uplink(u)
      /\ \A q \in Ports : ~u.file[q].allowed => u.file[q].drop
  BY Zenon, UplinkNow
<1>2. Finish(two)
  BY Zenon DEF AuthTick
<1>3. \A p \in due : p \in Ports /\ u.auth[p].active
  BY Zenon
<1> HIDE DEF due
<1>4. /\ auth \in [Ports -> [active : BOOLEAN, key : Nat, idle : Nat]]
      /\ \A p \in Ports : auth[p].active = u.auth[p].active /\ auth[p].key = u.auth[p].key
  <2>1. ASSUME NEW q \in [active : BOOLEAN, key : Nat, idle : Nat]
        PROVE  LET n == Aged(q, back)
               IN  /\ n \in [active : BOOLEAN, key : Nat, idle : Nat]
                   /\ n.active = q.active /\ n.key = q.key
    BY DEF Aged
  <2> QED
    BY Zenon, <1>1, <2>1 DEF Uplink, UplinkType
<1> HIDE DEF auth
<1>5. DOMAIN v = UFields /\ SameU(u, v, {"auth"}) /\ v.auth = auth
  BY Zenon, <1>1 DEF Uplink, UplinkType, UFields, SameU
<1> HIDE DEF v
<1>6. v.role = u.role /\ v.session = u.session /\ v.file = u.file /\ SameU(u, v, {"auth", "file"})
  BY Zenon, <1>5 DEF SameU, UFields
<1>7. Uplink(v)
  <2>1. v.file \in FileStates
    BY Zenon, <1>1, <1>6 DEF Uplink, UplinkType
  <2> QED
    BY Zenon, <1>1, <1>4, <1>5, <1>6, <2>1, AuthKept DEF FileStates
<1>8. Good(aged) /\ aged.u = v
  <2>1. Good(aged)
    BY Zenon, <1>1, <1>6, <1>7, NewUplink
  <2> QED
    BY Zenon, <2>1, SystemFields
<1> HIDE DEF aged
<1>9. Good(one) /\ (1 \in due => one.u.auth[1].active)
  <2>1. \A p \in due : p \in Ports /\ aged.u.auth[p].active
    BY Zenon, <1>3, <1>4, <1>5, <1>8
  <2>2. CASE 0 \notin due
    BY Zenon, <1>8, <2>1, <2>2
  <2>3. CASE 0 \in due
    <3>1. one = TimedOut(aged, 0)
      BY Zenon, <2>3
    <3> HIDE DEF one
    <3>2. Good(one) /\ one.u = RevokeAuth(aged.u, 0)
      BY Zenon, <1>8, <2>1, <2>3, <3>1, TimedOutGood
    <3>3. RevokedTo(aged.u, one.u, 0)
      BY ZenonT(40), <1>8, <2>1, <2>3, <3>2, RevokeAuthRevokes DEF Good, Core
    <3>4. one.u.auth[1] = aged.u.auth[1]
      BY <3>3 DEF RevokedTo, Ports
    <3> QED
      BY Zenon, <2>1, <3>2, <3>4
  <2> QED
    BY Zenon, <2>2, <2>3
<1> HIDE DEF one
<1>10. Good(two)
  BY Zenon, <1>9, TimedOutGood DEF Ports
<1> HIDE DEF two
<1> QED
  BY Zenon, <1>2, <1>10, FinishGood DEF Finish

\* An uplinked command: accepted, with or without effect, or refused.
LEMMA CommandGood ==
  ASSUME IInv, NEW p \in Ports, NEW cmd, cmd.seq \in Nat, NEW admitted, Command(p, cmd, admitted)
  PROVE  IInv'
<1> DEFINE n == cmd.seq
           entered == WindowAdvance(u, p, n)
           accepted == SequenceAccepted(entered, p, n)
           sent == MuxDispatch(accepted, p)
<1>1. \/ Finish(SessionActivity([System EXCEPT !.u = accepted], p))
      \/ Finish([System EXCEPT !.u = entered])
      \/ Finish(SessionActivity([System EXCEPT !.u = sent], p))
  BY Zenon DEF Command
<1>2. u.session[p].open /\ WindowAccepts(u, p, n)
  <2>1. IngressReject(u, p, cmd) = "NONE"
    BY Zenon DEF Command
  <2>2. SecureReject(u, p, cmd) = "NONE"
    BY Zenon, <2>1 DEF IngressReject
  <2> QED
    BY Zenon, <2>2 DEF SecureReject
<1>3. System.u = u /\ Good(System) /\ Uplink(u)
      /\ \A q \in Ports : ~u.file[q].allowed => u.file[q].drop
  BY Zenon, UplinkNow
<1>4. Uplink(entered) /\ SameU(u, entered, {"window", "seen", "replayed"})
  BY Zenon, <1>2, <1>3, AdvanceUplink
<1> HIDE DEF entered
<1>5. entered.role = u.role /\ entered.session = u.session /\ entered.file = u.file
  BY Zenon, <1>4 DEF SameU, UFields
<1>6. Good([System EXCEPT !.u = entered])
  BY Zenon, <1>3, <1>4, <1>5, NewUplink
<1>7. /\ Uplink(accepted) /\ SameU(entered, accepted, {"session", "auth"})
      /\ \A q \in Ports : /\ accepted.session[q].open = u.session[q].open
                          /\ accepted.session[q].id = u.session[q].id
  BY SMTT(30), <1>2, <1>4, <1>5, SequenceUplink
<1> HIDE DEF accepted
<1>8. accepted.role = u.role /\ accepted.file = u.file
  BY Zenon, <1>5, <1>7 DEF SameU, UFields
<1>9. Good([System EXCEPT !.u = accepted])
  BY Zenon, <1>3, <1>7, <1>8, NewUplink
<1>10. Uplink(sent) /\ SameU(accepted, sent, {"mux", "muxNext", "running"})
  BY Zenon, <1>7, DispatchUplink
<1> HIDE DEF sent
<1>11. sent.role = u.role /\ sent.file = u.file /\ sent.session = accepted.session
  BY Zenon, <1>8, <1>10 DEF SameU, UFields
<1>12. Good([System EXCEPT !.u = sent])
  BY ZenonT(40), <1>3, <1>7, <1>10, <1>11, NewUplink
<1>13. /\ Good(SessionActivity([System EXCEPT !.u = accepted], p))
       /\ Good(SessionActivity([System EXCEPT !.u = sent], p))
  BY Zenon, <1>9, <1>12, ActivityGood
<1> QED
  BY Zenon, <1>1, <1>6, <1>13, FinishGood DEF Finish

\* The status of a running command.
LEMMA CommandStatusGood ==
  ASSUME IInv, NEW r, CommandStatus(r)
  PROVE  IInv'
<1> DEFINE v == MuxStatus(u, r)
<1>1. r \in u.running /\ u' = v /\ UNCHANGED <<c, egress, ext>>
  BY Zenon DEF CommandStatus
<1>2. Uplink(v) /\ SameU(u, v, {"mux", "running"})
  BY Zenon, <1>1, UplinkNow, StatusUplink
<1> HIDE DEF v
<1>3. v.role = u.role /\ v.session = u.session /\ v.file = u.file
  BY Zenon, <1>2 DEF SameU, UFields
<1>4. Good([System EXCEPT !.u = v])
  BY Zenon, <1>2, <1>3, UplinkNow, NewUplink
<1> QED
  BY Zenon, <1>1, <1>4, UplinkFinish

\* The drop flag of a port changes.
LEMMA DropSet ==
  ASSUME NEW v, NEW p \in Ports, Uplink(v), NEW d \in BOOLEAN
  PROVE  LET t == [v EXCEPT !.file[p].drop = d]
         IN  /\ Uplink(t) /\ SameU(v, t, {"file"}) /\ t.file[p].drop = d
             /\ t.file[p].allowed = v.file[p].allowed
             /\ \A q \in Ports \ {p} : t.file[q] = v.file[q]
<1> DEFINE new == [v.file[p] EXCEPT !.drop = d]
           t == [v EXCEPT !.file[p].drop = d]
<1>1. UplinkType(v) /\ v.file[p] \in [auth : BOOLEAN, allowed : BOOLEAN, drop : BOOLEAN]
  BY Zenon DEF Uplink, UplinkType, FileStates
<1>2. /\ new \in [auth : BOOLEAN, allowed : BOOLEAN, drop : BOOLEAN]
      /\ new.drop = d /\ new.allowed = v.file[p].allowed /\ new.auth = v.file[p].auth
  BY Zenon, <1>1
<1>3. DOMAIN t = UFields /\ SameU(v, t, {"file"}) /\ t.file = [v.file EXCEPT ![p] = new]
  BY Zenon, <1>1 DEF UplinkType, SameU, UFields
<1> HIDE DEF new, t
<1>4. /\ t.file \in FileStates /\ t.file[p] = new
      /\ \A q \in Ports \ {p} : t.file[q] = v.file[q]
  BY <1>1, <1>2, <1>3 DEF UplinkType, FileStates
<1>5. t.auth = v.auth /\ SameU(v, t, {"auth", "file"})
  BY Zenon, <1>3 DEF SameU, UFields
<1>6. Uplink(t)
  <2>1. \A q \in Ports : t.file[q].auth = v.file[q].auth
    BY Zenon, <1>2, <1>4
  <2> QED
    BY Zenon, <1>1, <1>3, <1>4, <1>5, <2>1, AuthKept DEF UplinkType, FileStates
<1> QED
  BY Zenon, <1>2, <1>3, <1>4, <1>6 DEF t

\* The transfer on a port is dropped, or goes on where files are allowed.
LEMMA TransferGood ==
  ASSUME IInv, NEW p \in Ports, NEW d \in BOOLEAN, ~d => u.file[p].allowed
  PROVE  LET t == [u EXCEPT !.file[p].drop = d]
         IN  Good([System EXCEPT !.u = t]) /\ Good([System EXCEPT !.u = Activity(t, p)])
<1> DEFINE t == [u EXCEPT !.file[p].drop = d]
           v == Activity(t, p)
<1>1. System.u = u /\ Good(System) /\ Uplink(u)
      /\ \A q \in Ports : ~u.file[q].allowed => u.file[q].drop
  BY Zenon, UplinkNow
<1>2. /\ Uplink(t) /\ SameU(u, t, {"file"}) /\ t.file[p].drop = d
      /\ t.file[p].allowed = u.file[p].allowed
      /\ \A q \in Ports \ {p} : t.file[q] = u.file[q]
  BY <1>1, DropSet
<1> HIDE DEF t
<1>3. t.role = u.role /\ t.session = u.session
  BY Zenon, <1>2 DEF SameU, UFields
<1>4. \A q \in Ports : t.file[q].allowed = u.file[q].allowed /\ (~t.file[q].allowed => t.file[q].drop)
  BY Zenon, <1>1, <1>2
<1>5. Good([System EXCEPT !.u = t])
  BY Zenon, <1>1, <1>2, <1>3, <1>4, NewUplink
<1>6. Uplink(v) /\ SameU(t, v, {"auth"})
  BY Zenon, <1>2, ActivityUplink
<1> HIDE DEF v
<1>7. v.role = u.role /\ v.session = u.session /\ v.file = t.file
  BY Zenon, <1>3, <1>6 DEF SameU, UFields
<1>8. Good([System EXCEPT !.u = v])
  BY Zenon, <1>1, <1>4, <1>6, <1>7, NewUplink
<1> QED
  BY Zenon, <1>5, <1>8 DEF v, t

\* The first packet of an uplinked file.
LEMMA FileStartGood ==
  ASSUME IInv, NEW p \in Ports, NEW path, FileStart(p, path)
  PROVE  IInv'
<1> DEFINE yes == TRUE
           no == FALSE
           dropped == [u EXCEPT !.file[p].drop = yes]
           started == Activity([u EXCEPT !.file[p].drop = no], p)
<1>1. /\ UNCHANGED <<c, egress, ext>>
      /\ \/ StartReject(u, p, path) = "NONE" /\ u' = started
         \/ u' = dropped
  BY Zenon DEF FileStart
<1>2. yes \in BOOLEAN /\ no \in BOOLEAN
  BY Zenon
<1>3. yes = TRUE
  BY Zenon
<1> HIDE DEF yes, no
<1>4. CASE u' = dropped
  <2>1. Good([System EXCEPT !.u = dropped])
    BY Zenon, <1>2, <1>3, TransferGood
  <2> QED
    BY Zenon, <1>1, <1>4, <2>1, UplinkFinish
<1>5. CASE StartReject(u, p, path) = "NONE" /\ u' = started
  <2>1. u.file[p].allowed
    BY Zenon, <1>5 DEF StartReject, PathRejects
  <2>2. Good([System EXCEPT !.u = started])
    BY Zenon, <1>2, <2>1, TransferGood
  <2> QED
    BY Zenon, <1>1, <1>5, <2>2, UplinkFinish
<1> QED
  BY Zenon, <1>1, <1>4, <1>5

\* Any further packet of it.
LEMMA FileDataGood ==
  ASSUME IInv, NEW p \in Ports, FileData(p)
  PROVE  IInv'
<1> DEFINE yes == TRUE
           dropped == [u EXCEPT !.file[p].drop = yes]
           v == Activity(u, p)
<1>1. UNCHANGED <<c, egress, ext>> /\ (u' = v \/ u' = dropped)
  BY Zenon DEF FileData
<1>2. System.u = u /\ Good(System) /\ Uplink(u)
      /\ \A q \in Ports : ~u.file[q].allowed => u.file[q].drop
  BY Zenon, UplinkNow
<1>3. yes \in BOOLEAN
  BY Zenon
<1>4. yes = TRUE
  BY Zenon
<1> HIDE DEF yes
<1>5. Good([System EXCEPT !.u = dropped])
  BY Zenon, <1>3, <1>4, TransferGood
<1>6. Uplink(v) /\ SameU(u, v, {"auth"})
  BY Zenon, <1>2, ActivityUplink
<1> HIDE DEF v
<1>7. v.role = u.role /\ v.session = u.session /\ v.file = u.file
  BY Zenon, <1>6 DEF SameU, UFields
<1>8. Good([System EXCEPT !.u = v])
  BY Zenon, <1>2, <1>6, <1>7, NewUplink
<1> QED
  BY Zenon, <1>1, <1>5, <1>8, UplinkFinish

\* The background ping is answered.
LEMMA PingAnsweredGood ==
  ASSUME IInv, NEW b \in Bands, NEW result, PingAnswered(b, result)
  PROVE  IInv'
<1> DEFINE s == System
           t == [s EXCEPT !.ext.ping[b] = result]
<1>1. ext' = [ext EXCEPT !.ping[b] = result] /\ UNCHANGED <<c, u, egress>>
  BY Zenon DEF PingAnswered
<1>2. Good(s) /\ s.c = c /\ s.u = u /\ s.egress = egress /\ s.ext = ext
  BY Zenon, SystemFields DEF IInv
<1> HIDE DEF s
<1>3. Shape(s) /\ Probes(s)
  BY Zenon, <1>2 DEF Good, Core
<1>4. /\ Shape(t) /\ t.c = s.c /\ t.u = s.u /\ t.egress = s.egress /\ SameX(s, t, {"ping"})
      /\ t.ext = ext' /\ DOMAIN t.ext.ping = Bands
  BY Zenon, <1>1, <1>2, <1>3 DEF Shape, SameX, XFields, Probes
<1> HIDE DEF t
<1>5. t.ext.stale = s.ext.stale /\ t.ext.applied = s.ext.applied
  BY Zenon, <1>4 DEF SameX, XFields
<1>6. Probes(t)
  BY Zenon, <1>3, <1>4, <1>5 DEF Probes
<1>7. ProbeStep(s, t)
  BY Zenon, <1>4, <1>6 DEF ProbeStep, SameC, SameX
<1>8. Good(t)
  BY Zenon, <1>2, <1>7, ProbeStepGood
<1> QED
  BY Zenon, <1>1, <1>2, <1>4, <1>8, FinishGood

\* A step that touches health views only.
LEMMA StutterGood ==
  ASSUME IInv, UNCHANGED <<c, u, egress, ext>>
  PROVE  IInv'
BY Zenon, SystemFields, FinishGood DEF IInv
-----------------------------------------------------------------------------
\* Every handler keeps the invariant.
LEMMA NextGood == IInv /\ [Next]_vars => IInv'
<1> SUFFICES ASSUME IInv, [Next]_vars PROVE IInv'
  BY Zenon
<1>1. CASE Scheduled
  <2>1. ASSUME NEW ok \in BOOLEAN, NEW sent \in When(Async), NEW launched \in When(c.deferred.pending),
               NEW finished \in When(ReliableDir), Tick(ok, sent, launched, finished)
        PROVE  IInv'
    <3>1. sent \in BOOLEAN
      BY Zenon, <2>1 DEF When
    <3> QED
      BY Zenon, <2>1, <3>1, TickGood
  <2> QED
    BY Zenon, <1>1, <2>1, AuthTickGood DEF Scheduled
<1>2. CASE Operator
  BY Zenon, <1>2, SetActiveGood, SetPassGood, GetStatusGood DEF Operator
<1>3. CASE Ground
  <2>1. ASSUME NEW p \in Ports, NEW key \in 1 .. MaxKeys, NEW m \in Uplinked, NEW admitted \in BOOLEAN,
               Command(p, [form |-> m.form, key |-> key, seq |-> m.seq, opcode |-> m.opcode], admitted)
        PROVE  IInv'
    <3> DEFINE cmd == [form |-> m.form, key |-> key, seq |-> m.seq, opcode |-> m.opcode]
    <3>1. cmd.seq \in Nat
      BY Zenon, CommAssumption
    <3> HIDE DEF cmd
    <3>2. Command(p, cmd, admitted)
      BY Zenon, <2>1 DEF cmd
    <3> QED
      BY Zenon, <3>1, <3>2, CommandGood
  <2> QED
    BY Zenon, <1>3, <2>1, RequestAuthGood, FileDataGood, AuthResponseGood, FileStartGood DEF Ground
<1>4. CASE Downlink
  BY Zenon, <1>4, RequestFileGood, FileCompleteGood DEF Downlink
<1>5. ASSUME NEW ok \in BOOLEAN, NEW backupOk \in BOOLEAN, RecoveryFailover(ok, backupOk)
      PROVE  IInv'
  BY Zenon, <1>5, RecoveryFailoverGood
<1>6. ASSUME NEW r \in u.running, CommandStatus(r) PROVE IInv'
  BY Zenon, <1>6, CommandStatusGood
<1>7. ASSUME NEW b \in Bands, NEW available \in BOOLEAN, NEW growth \in BOOLEAN,
             HealthTick(b, available, growth)
      PROVE  IInv'
  BY Zenon, <1>7, StutterGood DEF HealthTick
<1>8. ASSUME NEW b \in Bands, NEW result \in {"OK", "FAILED"}, PingAnswered(b, result)
      PROVE  IInv'
  BY Zenon, <1>8, PingAnsweredGood
<1>9. CASE UNCHANGED vars
  BY Zenon, <1>9, StutterGood DEF vars
<1> QED
  BY ZenonT(40), <1>1, <1>2, <1>3, <1>4, <1>5, <1>6, <1>7, <1>8, <1>9 DEF Next

\* The invariant holds after every handler of every behaviour.
LEMMA Invariance == Spec => []IInv
<1>1. Init => IInv
  BY Zenon, InitGood
<1>2. IInv /\ [Next]_vars => IInv'
  BY Zenon, NextGood
<1> QED
  BY <1>1, <1>2, PTL DEF Spec
-----------------------------------------------------------------------------
(* The properties. *)

\* What the invariant says of the variables.
LEMMA IInvNow ==
  ASSUME IInv
  PROVE  LET s == System
         IN  /\ s.c = c /\ s.u = u /\ s.egress = egress /\ s.ext = ext
             /\ Shape(s) /\ Probes(s) /\ Fdir(s) /\ Down(s) /\ Uplink(u) /\ Sessions(s)
             /\ Links(s) /\ Synced(s) /\ c.stuck = FALSE
BY Zenon, SystemFields DEF IInv, Good, Core

\* Sessions, authorisations, file ingress, the live flag, the beacon suppression
\* and the sequence window agree after every handler of the uplink and of the
\* controller, for any number of challenges and any timeout.
THEOREM SessionsAgree == Spec => []SessionMatchesAuth
<1>1. IInv => SessionMatchesAuth
  <2> SUFFICES ASSUME IInv PROVE SessionMatchesAuth
    BY Zenon
  <2>1. Uplink(u) /\ Sessions(System) /\ System.c = c /\ System.u = u
    BY Zenon, IInvNow
  <2>2. \A p \in Ports :
          /\ u.session[p].open = u.auth[p].active /\ u.file[p].auth = u.auth[p].active
          /\ u.session[p].open => u.session[p].key = u.auth[p].key /\ u.session[p].role = u.role[p]
    BY Zenon, <2>1 DEF Uplink, Authorised
  <2>3. \A w \in u.window : u.session[w.port].open /\ u.session[w.port].id = w.id
    BY Zenon, <2>1 DEF Uplink, Windows
  <2>4. /\ c.live = IF u.session[0].open THEN [active |-> TRUE, id |-> u.session[0].id] ELSE Quiet
        /\ c.suppress.active => u.session[1].open /\ c.suppress.id = u.session[1].id
    BY Zenon, <2>1 DEF Sessions
  <2> QED
    BY Zenon, <2>2, <2>3, <2>4 DEF SessionMatchesAuth
<1> QED
  BY <1>1, Invariance, PTL

\* No sequence number is accepted twice under one session key: the window only
\* moves up while its session is open, and a key is used for one session only.
THEOREM CommandsNotReplayed == Spec => []NoReplay
<1>1. IInv => NoReplay
  BY Zenon, IInvNow DEF Uplink, Fresh, NoReplay
<1> QED
  BY <1>1, Invariance, PTL

\* The status of a running command returns to the port it came from, for any
\* number of slots of the ingress mux.
THEOREM StatusesReturn == Spec => []StatusReturnsToSender
<1>1. IInv => StatusReturnsToSender
  <2> SUFFICES ASSUME IInv, NEW r \in u.running PROVE StatusPort(u, r.ctx) = r.from
    BY Zenon DEF StatusReturnsToSender
  <2> DEFINE own == [ctx |-> r.ctx, port |-> r.from]
             e == CHOOSE d \in u.mux : d.ctx = r.ctx
  <2>1. Muxed(u)
    BY Zenon, IInvNow DEF Uplink
  <2>2. own \in u.mux /\ own.ctx = r.ctx /\ own.port = r.from
    BY Zenon, <2>1 DEF Muxed
  <2> HIDE DEF own
  <2>3. e \in u.mux /\ e.ctx = r.ctx
    BY Zenon, <2>2
  <2>4. StatusPort(u, r.ctx) = e.port
    BY Zenon, <2>2 DEF StatusPort
  <2> HIDE DEF e
  <2>5. e = own
    BY Zenon, <2>1, <2>2, <2>3 DEF Muxed
  <2> QED
    BY Zenon, <2>2, <2>4, <2>5
<1> QED
  BY <1>1, Invariance, PTL

\* No handler that holds the controller's lock is called back for it: wherever
\* an authorisation is invalidated under the lock, its session is closed.
THEOREM LockHeldOnce == Spec => []LockNotRetaken
<1>1. IInv => LockNotRetaken
  BY Zenon, IInvNow DEF LockNotRetaken
<1> QED
  BY <1>1, Invariance, PTL

\* Roles, file policies and the egress mux follow the primary band through every
\* switch and failover, with files under way and sessions coming and going.
THEOREM LinksAgree == Spec => []LinksFollowPrimary
<1>1. IInv => LinksFollowPrimary
  <2> SUFFICES ASSUME IInv PROVE LinksFollowPrimary
    BY Zenon
  <2> DEFINE s == System
  <2>1. /\ s.c = c /\ s.u = u /\ s.egress = egress /\ s.ext = ext
        /\ Shape(s) /\ Uplink(u) /\ Sessions(s) /\ Links(s) /\ Synced(s)
    BY Zenon, IInvNow
  <2> HIDE DEF s
  <2>2. \A p \in Ports : /\ u.role[p] = RoleOf(p, c.primary)
                         /\ u.file[p].allowed = FileAllowed(p, u.role[p])
                         /\ ~u.file[p].allowed => u.file[p].drop
    BY Zenon, <2>1 DEF Links, Linked
  <2>3. egress = Policy(s)
    BY Zenon, <2>1 DEF Synced
  <2>4. /\ egress.primary = c.primary
        /\ egress.live <=> (c.primary = "SBAND" /\ c.live.active /\ c.live.id # 0)
        /\ egress.hold <=> (c.primary = "UHF" /\ c.sched.active # NoRequest)
    <3> DEFINE live == c.primary = "SBAND" /\ c.live.active /\ c.live.id # 0
               hold == c.primary = "UHF" /\ c.sched.active # NoRequest
    <3>1. egress = [primary |-> c.primary, live |-> live, hold |-> hold]
      BY Zenon, <2>1, <2>3 DEF Policy
    <3> HIDE DEF live, hold
    <3>2. egress.primary = c.primary /\ egress.live = live /\ egress.hold = hold
      BY Zenon, <3>1
    <3> QED
      BY Zenon, <3>2 DEF live, hold
  <2>5. u.session[0].open <=> (c.live.active /\ c.live.id # 0)
    <3>1. u.session[0].open => u.session[0].id # 0
      BY Zenon, <2>1 DEF Uplink, Authorised, Ports
    <3>2. CASE u.session[0].open
      <4>1. c.live = [active |-> TRUE, id |-> u.session[0].id]
        BY Zenon, <2>1, <3>2 DEF Sessions
      <4> QED
        BY <3>1, <3>2, <4>1
    <3>3. CASE ~u.session[0].open
      BY <2>1, <3>3 DEF Sessions, Quiet
    <3> QED
      BY Zenon, <3>2, <3>3
  <2>6. c.primary \in {"SBAND", "UHF"}
    BY Zenon, <2>1 DEF Shape, Bands
  <2>7. PacketLink(egress) =
          IF IF c.primary = "SBAND" THEN u.session[0].open ELSE c.sched.active = NoRequest
            THEN c.primary ELSE "NONE"
    BY Zenon, <2>4, <2>5, <2>6 DEF PacketLink
  <2> QED
    BY Zenon, <2>2, <2>3, <2>7 DEF LinksFollowPrimary, s
<1> QED
  BY <1>1, Invariance, PTL

\* The request the scheduler holds is the one DpCatalog waits for, and somebody
\* is working on it, for any number of requests and any quiesce time.
THEOREM RequestsTracked == Spec => []AcceptedIsTracked
<1>1. IInv => AcceptedIsTracked
  BY Zenon, IInvNow DEF Down, Scheduler, Tracked, AcceptedIsTracked
<1> QED
  BY <1>1, Invariance, PTL

\* The answer of a ping sent before a forced probe is discarded.
THEOREM StaleProbesDiscarded == Spec => []StaleProbeIsDiscarded
<1>1. IInv => StaleProbeIsDiscarded
  BY Zenon, IInvNow DEF Probes, StaleProbeIsDiscarded
<1> QED
  BY <1>1, Invariance, PTL

\* The recovery sink holds the incident of the latched fault and no other.
THEOREM IncidentsMatch == Spec => []IncidentMatchesFault
<1>1. IInv => IncidentMatchesFault
  BY Zenon, IInvNow DEF Fdir, IncidentMatchesFault
<1> QED
  BY <1>1, Invariance, PTL
-----------------------------------------------------------------------------
(* The completion of a file. *)

\* The context of a file that completes the active request is that of its own
\* launch: the context of a reliable transfer is the number of the request, which
\* is above the context of every file, and a deferred request has none.
LEMMA CompletedIsOwn ==
  ASSUME NEW s, Down(s), NEW e \in s.ext.fd, Completes(s.c.sched, e.context)
  PROVE  e.request = s.c.sched.active
<1> DEFINE own == [context |-> s.c.sched.launch, request |-> s.c.sched.active]
<1>1. s.c.sched.active # NoRequest /\ s.c.sched.launch = e.context /\ s.c.sched.active \in Nat
  BY Zenon DEF Completes, Down, Scheduler
<1>2. e.context \in Nat /\ e.request \in Nat /\ e.context < e.request /\ e.request <= s.c.sched.active
  BY Zenon, <1>1 DEF Down, Files
<1>3. ~s.c.deferred.pending
  BY <1>1, <1>2 DEF Down, Scheduler, NO_ACTIVE_CONTEXT
<1>4. ~(s.c.rt = s.c.sched.active /\ s.c.sched.launch = s.c.rt)
  BY <1>1, <1>2
<1>5. own \in s.ext.fd /\ own.context = e.context /\ own.request = s.c.sched.active
  BY Zenon, <1>1, <1>3, <1>4 DEF Down, Tracked
<1> HIDE DEF own
<1>6. own = e
  BY Zenon, <1>5 DEF Down, Files
<1> QED
  BY Zenon, <1>5, <1>6

\* FileDownlink keeps its files.
Kept(s, t) == s.ext.fd \subseteq t.ext.fd

\* No probe touches FileDownlink's files.
LEMMA KeptByProbe ==
  ASSUME NEW s, NEW t, ProbeStep(s, t) PROVE Kept(s, t)
BY Zenon DEF ProbeStep, SameX, XFields, Kept

\* The end of a request does not touch them either.
LEMMA KeptByEnd ==
  ASSUME NEW s, Shape(s)
  PROVE  LET t == EndRequest(s) IN t.ext.fd = s.ext.fd /\ Shape(t)
<1> DEFINE one == [s EXCEPT !.c.rt = NoRequest, !.c.deferred = NoDeferred,
                            !.c.sched = ClearActive(s.c.sched),
                            !.ext.awaiting = s.ext.awaiting \ {s.c.sched.active}]
<1>1. EndRequest(s) = Sync(one)
  BY Zenon DEF EndRequest, Shape
<1>2. Shape(one) /\ one.ext.fd = s.ext.fd
  BY Zenon DEF Shape, CFields, XFields
<1> HIDE DEF one
<1> QED
  BY Zenon, <1>1, <1>2, SyncFields

\* Nor does its drop.
LEMMA KeptByDrop ==
  ASSUME NEW s, Shape(s)
  PROVE  DropActive(s).ext.fd = s.ext.fd
BY Zenon, KeptByEnd DEF DropActive

\* Nor does fault detection.
LEMMA KeptByFdir ==
  ASSUME NEW s, Shape(s)
  PROVE  Kept(s, UpdateFdir(s))
<1> DEFINE b == s.c.primary
           available == s.c.available[b]
           growth == b \notin Probed /\ health[b].growth
           Count(n) == IF n < FaultThreshold THEN n + 1 ELSE n
           cu == IF available THEN 0 ELSE Count(s.c.cu)
           ct == IF available /\ growth THEN Count(s.c.ct) ELSE 0
           fault == IF FaultThreshold = 0 THEN "NONE"
                    ELSE EvaluateFdir(s.c.fault, available, growth, cu, ct)
           sink == IF fault = s.c.fault THEN s.ext.sink
                   ELSE IF fault = "NONE" THEN s.ext.sink \ {s.c.fault} ELSE s.ext.sink \cup {fault}
           t == [s EXCEPT !.c.cu = cu, !.c.ct = ct, !.c.fault = fault, !.ext.sink = sink]
<1>1. UpdateFdir(s) = t
  BY Zenon DEF UpdateFdir
<1> HIDE DEF cu, ct, fault, sink
<1>2. t.ext.fd = s.ext.fd
  BY Zenon DEF Shape, XFields
<1> QED
  BY Zenon, <1>1, <1>2 DEF Kept

\* A launch adds a file and a failed one none.
LEMMA KeptByLaunch ==
  ASSUME NEW s, Shape(s), NEW request
  PROVE  /\ Kept(s, LaunchOk(s, request)) /\ Shape(LaunchOk(s, request))
         /\ Kept(s, LaunchFailed(s)) /\ Shape(LaunchFailed(s))
<1>1. Kept(s, LaunchOk(s, request)) /\ Shape(LaunchOk(s, request))
  BY Zenon DEF LaunchOk, Shape, CFields, XFields, Kept
<1>2. Kept(s, LaunchFailed(s)) /\ Shape(LaunchFailed(s))
  BY Zenon DEF LaunchFailed, Shape, XFields, Kept
<1> QED
  BY Zenon, <1>1, <1>2

\* A deferred launch takes no file away.
LEMMA KeptByDeferred ==
  ASSUME NEW s, Shape(s), NEW ok
  PROVE  Kept(s, ProcessDeferred(s, ok))
<1> DEFINE one == [s EXCEPT !.c.deferred.ticks = s.c.deferred.ticks - 1]
           launched == [s EXCEPT !.c.deferred = NoDeferred]
           sent == LaunchOk(launched, s.c.deferred.request)
           failed == LaunchFailed(launched)
           t == ProcessDeferred(s, ok)
<1>1. t = s \/ t = one \/ t = Sync(sent) \/ t = DropActive(failed)
  BY Zenon DEF ProcessDeferred
<1>2. one.ext = s.ext /\ launched.ext = s.ext /\ Shape(launched)
  BY Zenon DEF Shape, CFields
<1> HIDE DEF one, launched, t
<1>3. Kept(s, sent) /\ Shape(sent) /\ Kept(s, failed) /\ Shape(failed)
  BY Zenon, <1>2, KeptByLaunch DEF Kept
<1> HIDE DEF sent, failed
<1>4. Sync(sent).ext = sent.ext /\ DropActive(failed).ext.fd = failed.ext.fd
  BY Zenon, <1>3, SyncFields, KeptByDrop
<1>5. Kept(s, t)
  BY Zenon, <1>1, <1>2, <1>3, <1>4 DEF Kept
<1> QED
  BY Zenon, <1>5 DEF t

\* Nor does the reliable transfer.
LEMMA KeptByReliable ==
  ASSUME NEW s, Shape(s), NEW finished
  PROVE  Kept(s, PollReliable(s, finished))
<1> DEFINE done == [s EXCEPT !.c.rt = NoRequest]
           t == PollReliable(s, finished)
<1>1. t = s \/ t = EndRequest(done) \/ t = Sync(done)
  BY Zenon DEF PollReliable
<1>2. done.ext = s.ext /\ Shape(done)
  BY Zenon DEF Shape, CFields
<1> HIDE DEF done, t
<1>3. Sync(done).ext = s.ext /\ EndRequest(done).ext.fd = s.ext.fd
  BY Zenon, <1>2, SyncFields, KeptByEnd
<1>4. Kept(s, t)
  BY Zenon, <1>1, <1>3 DEF Kept
<1> QED
  BY Zenon, <1>4 DEF t

\* Nor does a switch of the links.
LEMMA KeptBySwitch ==
  ASSUME NEW s, Good(s), NEW band \in Bands, NEW reason
  PROVE  Kept(s, SetPrimary(s, band, reason))
<1> DEFINE t == SetPrimary(s, band, reason)
<1>1. t.ext = (IF s.c.primary # band THEN DropActive(s) ELSE s).ext
  BY ZenonT(30), SetPrimaryGood
<1>2. DropActive(s).ext.fd = s.ext.fd
  BY Zenon, KeptByDrop DEF Good, Core
<1> HIDE DEF t
<1>3. t.ext.fd = s.ext.fd
  BY Zenon, <1>1, <1>2
<1> QED
  BY Zenon, <1>3 DEF Kept, t

\* The sessions do not touch the files.
LEMMA KeptBySessions ==
  ASSUME NEW s, Shape(s), NEW p
  PROVE  /\ SessionOpened(s, p).ext = s.ext
         /\ SessionActivity(s, p).ext = s.ext
         /\ TimedOut(s, p).ext = s.ext /\ Shape(TimedOut(s, p))
<1>1. ASSUME NEW t, DOMAIN t = DOMAIN s, t.ext = s.ext
      PROVE  DOMAIN Sync(t) = DOMAIN s /\ Sync(t).ext = s.ext
  BY Zenon, <1>1 DEF Sync, Shape
<1>2. ASSUME NEW t, DOMAIN t = DOMAIN s, t.ext = s.ext, NEW id
      PROVE  DOMAIN Suppress(t, p, id) = DOMAIN s /\ Suppress(t, p, id).ext = s.ext
  <2> DEFINE n == [t EXCEPT !.c.suppress = [active |-> TRUE, id |-> id, ticks |-> SuppressTicks]]
  <2>1. DOMAIN n = DOMAIN s /\ n.ext = s.ext
    BY Zenon, <1>2 DEF Shape
  <2>2. Suppress(t, p, id) = t \/ Suppress(t, p, id) = Sync(n)
    BY Zenon DEF Suppress
  <2> HIDE DEF n
  <2> QED
    BY Zenon, <1>1, <1>2, <2>1, <2>2
<1>3. SessionOpened(s, p).ext = s.ext
  <2> DEFINE n == [s EXCEPT !.c.live = [active |-> TRUE, id |-> s.u.session[p].id]]
             id == s.u.session[p].id
             a == Suppress(s, p, id)
             b == Suppress(n, p, id)
  <2>1. DOMAIN n = DOMAIN s /\ n.ext = s.ext
    BY Zenon DEF Shape
  <2>2. SessionOpened(s, p) = Sync(a) \/ SessionOpened(s, p) = Sync(b)
    BY Zenon DEF SessionOpened
  <2> HIDE DEF n, id
  <2>3. /\ DOMAIN a = DOMAIN s /\ a.ext = s.ext
        /\ DOMAIN b = DOMAIN s /\ b.ext = s.ext
    BY Zenon, <1>2, <2>1
  <2> HIDE DEF a, b
  <2> QED
    BY Zenon, <1>1, <2>2, <2>3
<1>4. SessionActivity(s, p).ext = s.ext
  BY Zenon, <1>2 DEF SessionActivity
<1>5. TimedOut(s, p).ext = s.ext /\ Shape(TimedOut(s, p))
  <2> DEFINE id == s.u.session[p].id
             live == IF p = 0 /\ s.c.live.active /\ s.c.live.id = id THEN Quiet ELSE s.c.live
             suppress == IF OwnsSuppress(s, p, id) THEN NoSuppress ELSE s.c.suppress
             one == [s EXCEPT !.c.live = live, !.c.suppress = suppress]
             two == Sync(one)
             v == RevokeAuth(s.u, p)
             t == [two EXCEPT !.u = v]
  <2>1. TimedOut(s, p) = t
    BY Zenon DEF TimedOut, SessionRevoked
  <2> HIDE DEF live, suppress, v
  <2>2. Shape(one) /\ one.ext = s.ext
    BY Zenon DEF Shape, CFields
  <2> HIDE DEF one
  <2>3. Shape(two) /\ two.ext = s.ext
    BY Zenon, <2>2, SyncFields
  <2> HIDE DEF two
  <2>4. Shape(t) /\ t.ext = s.ext
    BY Zenon, <2>3 DEF Shape
  <2> QED
    BY Zenon, <2>1, <2>4
<1> QED
  BY Zenon, <1>3, <1>4, <1>5

\* So a handler that ends in such a system takes none away.
LEMMA KeptByFinish ==
  ASSUME NEW t, Kept(System, t), Finish(t) PROVE ext.fd \subseteq ext'.fd
BY Zenon, SystemFields DEF Kept, Finish

\* FileDownlink keeps its files in schedIn.
LEMMA TickKeeps ==
  ASSUME IInv, NEW ok, NEW sent \in BOOLEAN, NEW launched, NEW finished,
         Tick(ok, sent, launched, finished)
  PROVE  ext.fd \subseteq ext'.fd
<1> DEFINE s == System
           one == PollProbe(s, "SBAND")
           polled == PollProbe(one, "UHF")
           fresh == RefreshLinks(polled, ok, sent)
           judged == UpdateFdir(fresh)
           begun == ProcessDeferred(judged, launched)
           served == PollReliable(begun, finished)
           suppress == served.c.suppress
           left == IF suppress.ticks > 1 THEN [suppress EXCEPT !.ticks = @ - 1] ELSE NoSuppress
           pass == IF served.c.pass > 0 THEN served.c.pass - 1 ELSE 0
           passed == [served EXCEPT !.c.suppress = left, !.c.pass = pass]
           last == IF (suppress.active /\ ~left.active) \/ c.pass = 1 THEN Sync(passed) ELSE passed
<1>1. Finish(last)
  BY Zenon DEF Tick
<1>2. "SBAND" \in Bands /\ "UHF" \in Bands
  BY Zenon DEF Bands
<1>3. Good(s)
  BY Zenon DEF IInv
<1> HIDE DEF s
<1>4. Good(one) /\ Kept(s, one)
  BY ZenonT(40), <1>2, <1>3, PollProbeStep, ProbeStepGood, KeptByProbe DEF Good, Core
<1> HIDE DEF one
<1>5. Good(polled) /\ Kept(one, polled)
  BY ZenonT(40), <1>2, <1>4, PollProbeStep, ProbeStepGood, KeptByProbe DEF Good, Core
<1> HIDE DEF polled
<1>6. Good(fresh) /\ Kept(polled, fresh)
  BY Zenon, <1>5, RefreshLinksStep, ProbeStepGood, KeptByProbe DEF Good, Core
<1> HIDE DEF fresh
<1>7. Good(judged) /\ Kept(fresh, judged)
  BY Zenon, <1>6, UpdateFdirGood, KeptByFdir DEF Good, Core
<1> HIDE DEF judged
<1>8. Good(begun) /\ Kept(judged, begun)
  BY Zenon, <1>7, ProcessDeferredGood, KeptByDeferred DEF Good, Core
<1> HIDE DEF begun
<1>9. Good(served) /\ Kept(begun, served)
  BY ZenonT(30), <1>8, PollReliableGood, KeptByReliable DEF Good, Core
<1> HIDE DEF served, left, pass
<1>10. Shape(passed) /\ passed.ext = served.ext
  BY Zenon, <1>9 DEF Good, Core, Shape, CFields
<1> HIDE DEF passed
<1>11. last.ext = served.ext
  BY Zenon, <1>10, SyncFields
<1> HIDE DEF last
<1>12. Kept(s, last)
  BY ZenonT(40), <1>4, <1>5, <1>6, <1>7, <1>8, <1>9, <1>11 DEF Kept
<1> QED
  BY Zenon, <1>1, <1>12, KeptByFinish DEF s

\* FileDownlink keeps its files in the operator's choice.
LEMMA SetActiveKeeps ==
  ASSUME IInv, NEW band \in Bands, NEW ok, SetActive(band, ok)
  PROVE  ext.fd \subseteq ext'.fd
<1> DEFINE s == System
           probed == ForceProbe(s, band, ok)
           switched == SetPrimary(probed, band, "OPERATOR_SWITCH")
<1>1. Finish(probed) \/ Finish(switched)
  BY Zenon DEF SetActive
<1>2. Good(s)
  BY Zenon DEF IInv
<1> HIDE DEF s
<1>3. Good(probed) /\ Kept(s, probed)
  BY Zenon, <1>2, ForceProbeStep, ForceProbeGood, KeptByProbe DEF Good, Core
<1> HIDE DEF probed
<1>4. Kept(probed, switched)
  BY Zenon, <1>3, KeptBySwitch
<1> HIDE DEF switched
<1>5. Kept(s, switched)
  BY Zenon, <1>3, <1>4 DEF Kept
<1> QED
  BY Zenon, <1>1, <1>3, <1>5, KeptByFinish DEF s

\* FileDownlink keeps its files in a pass.
LEMMA SetPassKeeps ==
  ASSUME IInv, NEW duration, SetPass(duration)
  PROVE  ext.fd \subseteq ext'.fd
<1> DEFINE s == System
           t == [s EXCEPT !.c.pass = duration]
<1>1. Finish(Sync(t))
  BY Zenon DEF SetPass
<1>2. Shape(s)
  BY Zenon DEF IInv, Good, Core
<1> HIDE DEF s
<1>3. Shape(t) /\ t.ext = s.ext
  BY Zenon, <1>2 DEF Shape, CFields
<1> HIDE DEF t
<1>4. Kept(s, Sync(t))
  BY Zenon, <1>3, SyncFields DEF Kept
<1> QED
  BY Zenon, <1>1, <1>4, KeptByFinish DEF s

\* FileDownlink keeps its files in a status query.
LEMMA GetStatusKeeps ==
  ASSUME IInv, GetStatus
  PROVE  ext.fd \subseteq ext'.fd
<1> DEFINE s == System
           one == PollProbe(s, "SBAND")
           polled == PollProbe(one, "UHF")
           half == QueryBand(polled, "SBAND")
           asked == QueryBand(half, "UHF")
<1>1. Finish(asked)
  BY Zenon DEF GetStatus
<1>2. "SBAND" \in Bands /\ "UHF" \in Bands
  BY Zenon DEF Bands
<1>3. Good(s)
  BY Zenon DEF IInv
<1> HIDE DEF s
<1>4. Good(one) /\ Kept(s, one)
  BY Zenon, <1>2, <1>3, PollProbeStep, ProbeStepGood, KeptByProbe DEF Good, Core
<1> HIDE DEF one
<1>5. Good(polled) /\ Kept(one, polled)
  BY ZenonT(30), <1>2, <1>4, PollProbeStep, ProbeStepGood, KeptByProbe DEF Good, Core
<1> HIDE DEF polled
<1>6. Good(half) /\ Kept(polled, half)
  BY ZenonT(40), <1>2, <1>5, QueryBandStep, ProbeStepGood, KeptByProbe DEF Good, Core
<1> HIDE DEF half
<1>7. Kept(half, asked)
  BY Zenon, <1>2, <1>6, QueryBandStep, KeptByProbe DEF Good, Core
<1> HIDE DEF asked
<1>8. Kept(s, asked)
  BY Zenon, <1>4, <1>5, <1>6, <1>7 DEF Kept
<1> QED
  BY Zenon, <1>1, <1>8, KeptByFinish DEF s

\* FileDownlink keeps its files in a recovery failover.
LEMMA RecoveryFailoverKeeps ==
  ASSUME IInv, NEW ok, NEW backupOk, RecoveryFailover(ok, backupOk)
  PROVE  ext.fd \subseteq ext'.fd
<1> DEFINE s == System
           b == c.primary
           one == ForceProbe(s, b, ok)
           probed == ForceProbe(one, Other(b), backupOk)
           p == PortOf(b)
           switched == SetPrimary(probed, Other(b), "LINK_FAILOVER")
           lost == IF Drops(c.sched, b) THEN EndRequest(probed) ELSE probed
           suppress == IF p = 1 THEN NoSuppress ELSE lost.c.suppress
           live == IF p = 0 THEN Quiet ELSE lost.c.live
           silent == [lost EXCEPT !.c.suppress = suppress, !.c.live = live,
                                  !.u = CloseSession(lost.u, p)]
           last == Sync(InvalidateLocked(silent, p))
<1>1. Finish(probed) \/ Finish(switched) \/ Finish(last)
  BY Zenon DEF RecoveryFailover
<1>2. Good(s) /\ b \in Bands
  BY Zenon, SystemFields DEF IInv, Good, Core, Shape
<1>3. Other(b) \in Bands
  BY Zenon, <1>2, OtherBand
<1> HIDE DEF s, b, p
<1>4. Good(one) /\ Kept(s, one)
  BY Zenon, <1>2, ForceProbeStep, ForceProbeGood, KeptByProbe DEF Good, Core
<1> HIDE DEF one
<1>5. Good(probed) /\ Kept(one, probed)
  BY Zenon, <1>3, <1>4, ForceProbeStep, ForceProbeGood, KeptByProbe DEF Good, Core
<1> HIDE DEF probed
<1>6. Kept(probed, switched)
  BY Zenon, <1>3, <1>5, KeptBySwitch
<1> HIDE DEF switched
<1>7. Shape(lost) /\ lost.ext.fd = probed.ext.fd
  BY Zenon, <1>5, KeptByEnd DEF Good, Core
<1> HIDE DEF lost, suppress, live
<1>8. Shape(silent) /\ silent.ext = lost.ext
  BY Zenon, <1>7 DEF Shape, CFields
<1> HIDE DEF silent
<1>9. Shape(InvalidateLocked(silent, p)) /\ InvalidateLocked(silent, p).ext = lost.ext
  BY Zenon, <1>8 DEF InvalidateLocked, Shape, CFields
<1>10. last.ext = lost.ext
  BY Zenon, <1>9, SyncFields
<1> HIDE DEF last
<1>11. Kept(s, probed) /\ Kept(s, switched) /\ Kept(s, last)
  BY Zenon, <1>4, <1>5, <1>6, <1>7, <1>10 DEF Kept
<1> QED
  BY Zenon, <1>1, <1>11, KeptByFinish DEF s

\* FileDownlink keeps its files in a file request.
LEMMA RequestFileKeeps ==
  ASSUME IInv, NEW launched, RequestFile(launched)
  PROVE  ext.fd \subseteq ext'.fd
<1> DEFINE s == System
           id == c.sched.next
           asked == [s EXCEPT !.c.sched = Submit(s.c.sched, c.primary)]
           taken == [asked EXCEPT !.ext.awaiting = asked.ext.awaiting \cup {id}]
           waiting == [taken EXCEPT
                         !.c.deferred = [pending |-> TRUE, ticks |-> QuiesceTicks, request |-> id]]
           sent == LaunchOk(taken, id)
           failed == LaunchFailed(asked)
<1>1. \/ Finish(Sync(asked)) \/ Finish(Sync(waiting))
      \/ Finish(Sync(sent)) \/ Finish(EndRequest(failed))
  BY Zenon DEF RequestFile
<1>2. Shape(s)
  BY Zenon DEF IInv, Good, Core
<1> HIDE DEF s
<1>3. Shape(asked) /\ asked.ext = s.ext
  BY Zenon, <1>2 DEF Shape, CFields
<1> HIDE DEF asked
<1>4. Shape(taken) /\ taken.ext.fd = s.ext.fd
  BY Zenon, <1>3 DEF Shape, XFields
<1> HIDE DEF taken
<1>5. Shape(waiting) /\ waiting.ext = taken.ext
  BY Zenon, <1>4 DEF Shape, CFields
<1> HIDE DEF waiting
<1>6. /\ Kept(taken, sent) /\ Shape(sent)
      /\ Kept(asked, failed) /\ Shape(failed)
  BY Zenon, <1>3, <1>4, KeptByLaunch
<1> HIDE DEF sent, failed
<1>7. /\ Sync(asked).ext = asked.ext /\ Sync(waiting).ext = waiting.ext
      /\ Sync(sent).ext = sent.ext /\ EndRequest(failed).ext.fd = failed.ext.fd
  BY Zenon, <1>3, <1>5, <1>6, SyncFields, KeptByEnd
<1>8. /\ Kept(s, Sync(asked)) /\ Kept(s, Sync(waiting))
      /\ Kept(s, Sync(sent)) /\ Kept(s, EndRequest(failed))
  BY Zenon, <1>3, <1>4, <1>5, <1>6, <1>7 DEF Kept
<1> QED
  BY Zenon, <1>1, <1>8, KeptByFinish DEF s

\* FileDownlink keeps its files in an opened session.
LEMMA AuthResponseKeeps ==
  ASSUME IInv, NEW p, NEW key, AuthResponse(p, key)
  PROVE  ext.fd \subseteq ext'.fd
<1> DEFINE s == System
           one == [s EXCEPT !.u = EstablishAuth(u, p)]
           t == SessionOpened(one, p)
<1>1. Finish(t)
  BY Zenon DEF AuthResponse
<1>2. Shape(s)
  BY Zenon DEF IInv, Good, Core
<1> HIDE DEF s
<1>3. Shape(one) /\ one.ext = s.ext
  BY Zenon, <1>2 DEF Shape
<1> HIDE DEF one
<1>4. Kept(s, t)
  BY Zenon, <1>3, KeptBySessions DEF Kept
<1> HIDE DEF t
<1> QED
  BY Zenon, <1>1, <1>4, KeptByFinish DEF s

\* FileDownlink keeps its files in a time-out.
LEMMA AuthTickKeeps ==
  ASSUME IInv, NEW back, AuthTick(back)
  PROVE  ext.fd \subseteq ext'.fd
<1> DEFINE s == System
           due == {p \in Ports : u.auth[p].active /\ ~back /\ u.auth[p].idle + 1 >= AuthTimeout}
           v == [u EXCEPT !.auth = [p \in Ports |-> Aged(u.auth[p], back)]]
           aged == [s EXCEPT !.u = v]
           one == IF 0 \in due THEN TimedOut(aged, 0) ELSE aged
           two == IF 1 \in due THEN TimedOut(one, 1) ELSE one
<1>1. Finish(two)
  BY Zenon DEF AuthTick
<1>2. Shape(s)
  BY Zenon DEF IInv, Good, Core
<1> HIDE DEF s, due, v
<1>3. Shape(aged) /\ aged.ext = s.ext
  BY Zenon, <1>2 DEF Shape
<1> HIDE DEF aged
<1>4. Shape(one) /\ one.ext = s.ext
  BY Zenon, <1>3, KeptBySessions
<1> HIDE DEF one
<1>5. Kept(s, two)
  BY Zenon, <1>4, KeptBySessions DEF Kept
<1> HIDE DEF two
<1> QED
  BY Zenon, <1>1, <1>5, KeptByFinish DEF s

\* FileDownlink keeps its files in a command.
LEMMA CommandKeeps ==
  ASSUME IInv, NEW p, NEW cmd, NEW admitted, Command(p, cmd, admitted)
  PROVE  ext.fd \subseteq ext'.fd
<1> DEFINE s == System
           entered == WindowAdvance(u, p, cmd.seq)
           accepted == SequenceAccepted(entered, p, cmd.seq)
           passed == MuxDispatch(accepted, p)
           a == [s EXCEPT !.u = accepted]
           b == [s EXCEPT !.u = entered]
           d == [s EXCEPT !.u = passed]
<1>1. Finish(SessionActivity(a, p)) \/ Finish(b) \/ Finish(SessionActivity(d, p))
  BY Zenon DEF Command
<1>2. Shape(s)
  BY Zenon DEF IInv, Good, Core
<1> HIDE DEF s, entered, accepted, passed
<1>3. /\ Shape(a) /\ a.ext = s.ext /\ b.ext = s.ext
      /\ Shape(d) /\ d.ext = s.ext
  BY Zenon, <1>2 DEF Shape
<1> HIDE DEF a, b, d
<1>4. Kept(s, SessionActivity(a, p)) /\ Kept(s, b) /\ Kept(s, SessionActivity(d, p))
  BY Zenon, <1>3, KeptBySessions DEF Kept
<1> QED
  BY Zenon, <1>1, <1>4, KeptByFinish DEF s

\* FileDownlink keeps its files in an answered ping.
LEMMA PingAnsweredKeeps ==
  ASSUME IInv, NEW b \in Bands, NEW result, PingAnswered(b, result)
  PROVE  ext.fd \subseteq ext'.fd
<1>1. DOMAIN ext = XFields
  BY Zenon, SystemFields DEF IInv, Good, Core, Shape
<1> QED
  BY Zenon, <1>1 DEF PingAnswered, XFields
-----------------------------------------------------------------------------
\* Only a completion takes a file from FileDownlink, and only its own.
LEMMA FileCompleteEnds ==
  ASSUME IInv, NEW f \in ext.fd, FileComplete(f), NEW e \in ext.fd \ ext'.fd,
         c'.sched.active # c.sched.active
  PROVE  e.request = c.sched.active
<1> DEFINE s == System
           gone == [s EXCEPT !.ext.fd = s.ext.fd \ {f}]
<1>1. Finish(IF Completes(c.sched, f.context) THEN EndRequest(gone) ELSE Sync(gone))
  BY Zenon DEF FileComplete
<1>2. Shape(s) /\ Down(s) /\ s.c = c /\ s.ext = ext
  BY Zenon, IInvNow
<1> HIDE DEF s
<1>3. Shape(gone) /\ gone.c = s.c /\ gone.ext.fd = ext.fd \ {f}
  BY Zenon, <1>2 DEF Shape, XFields
<1> HIDE DEF gone
<1>4. Completes(c.sched, f.context) /\ Finish(EndRequest(gone))
  <2>1. Sync(gone).c = c
    BY Zenon, <1>2, <1>3, SyncFields
  <2> QED
    BY Zenon, <1>1, <2>1 DEF Finish
<1>5. e = f
  BY Zenon, <1>3, <1>4, KeptByEnd DEF Finish
<1> QED
  BY Zenon, <1>2, <1>4, <1>5, CompletedIsOwn

\* A completion of FileDownlink ends the request it was launched for and no other,
\* however late it comes, for any number of requests and switches of the links.
THEOREM CompletionsAreOwn == Spec => CompletionEndsItsOwn
<1> DEFINE Own == \A e \in ext.fd \ ext'.fd :
                    c'.sched.active # c.sched.active => e.request = c.sched.active
<1>1. IInv /\ [Next]_vars => [Own]_vars
  <2> SUFFICES ASSUME IInv, Next PROVE Own
    BY Zenon
  <2>1. ASSUME ext.fd \subseteq ext'.fd PROVE Own
    BY Zenon, <2>1
  <2>2. ASSUME NEW e \in ext.fd, FileComplete(e) PROVE Own
    BY Zenon, <2>2, FileCompleteEnds
  <2> HIDE DEF Own
  <2>3. CASE Scheduled
    <3>1. ASSUME NEW ok \in BOOLEAN, NEW sent \in When(Async),
                 NEW launched \in When(c.deferred.pending), NEW finished \in When(ReliableDir),
                 Tick(ok, sent, launched, finished)
          PROVE  Own
      <4>1. sent \in BOOLEAN
        BY Zenon, <3>1 DEF When
      <4> QED
        BY Zenon, <2>1, <3>1, <4>1, TickKeeps
    <3> QED
      BY Zenon, <2>1, <2>3, <3>1, AuthTickKeeps DEF Scheduled
  <2>4. CASE Operator
    BY Zenon, <2>1, <2>4, SetActiveKeeps, SetPassKeeps, GetStatusKeeps DEF Operator
  <2>5. CASE Ground
    <3>1. ASSUME NEW p \in Ports, NEW key \in 1 .. MaxKeys, NEW m \in Uplinked, NEW admitted \in BOOLEAN,
                 Command(p, [form |-> m.form, key |-> key, seq |-> m.seq, opcode |-> m.opcode], admitted)
          PROVE  Own
      BY Zenon, <2>1, <3>1, CommandKeeps
    <3>2. ASSUME NEW p \in Ports, RequestAuth(p) \/ FileData(p) PROVE Own
      BY Zenon, <2>1, <3>2 DEF RequestAuth, FileData
    <3>3. ASSUME NEW p \in Ports, NEW path \in StartPaths, FileStart(p, path) PROVE Own
      BY Zenon, <2>1, <3>3 DEF FileStart
    <3> QED
      BY ZenonT(40), <2>1, <2>5, <3>1, <3>2, <3>3, AuthResponseKeeps DEF Ground
  <2>6. CASE Downlink
    BY Zenon, <2>1, <2>2, <2>6, RequestFileKeeps DEF Downlink
  <2>7. ASSUME NEW ok \in BOOLEAN, NEW backupOk \in BOOLEAN, RecoveryFailover(ok, backupOk)
        PROVE  Own
    BY Zenon, <2>1, <2>7, RecoveryFailoverKeeps
  <2>8. ASSUME NEW r \in u.running, CommandStatus(r) PROVE Own
    BY Zenon, <2>1, <2>8 DEF CommandStatus
  <2>9. ASSUME NEW b \in Bands, NEW available \in BOOLEAN, NEW growth \in BOOLEAN,
               HealthTick(b, available, growth)
        PROVE  Own
    BY Zenon, <2>1, <2>9 DEF HealthTick
  <2>10. ASSUME NEW b \in Bands, NEW result \in {"OK", "FAILED"}, PingAnswered(b, result)
         PROVE  Own
    BY Zenon, <2>1, <2>10, PingAnsweredKeeps
  <2> QED
    BY ZenonT(40), <2>3, <2>4, <2>5, <2>6, <2>7, <2>8, <2>9, <2>10 DEF Next
<1> QED
  BY <1>1, Invariance, PTL DEF Spec, CompletionEndsItsOwn
=============================================================================
