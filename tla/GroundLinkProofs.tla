-------------------------- MODULE GroundLinkProofs --------------------------
(***************************************************************************)
(* The two links to the ground, for every message, window, limit and       *)
(* workload.  The first part proves three invariants of GroundLink: what   *)
(* the ground sees of each stream (GroundSeesPrefixes), that nothing is    *)
(* lost without being counted (NothingLostSilently), and that the uplink   *)
(* chunks are accounted for (UplinkAccounted).  The second part proves that*)
(* ReliableTransfer, with its own constants and variables, implements      *)
(* FileDelivery.                                                           *)
(*                                                                         *)
(* None of the three invariants of GroundLink is inductive.  LinkInv adds  *)
(* what the backend, the packets on their way and the node know of each    *)
(* other:                                                                  *)
(*   - a request somebody waits for is the last packet of the wire, and an *)
(*     answer finds the wire empty (WireOK);                               *)
(*   - whatever opens a stream is newer than all that was committed or     *)
(*     written, and than all that precedes it on the wire (StreamsInOrder),*)
(*     so a packet the backend has given up does no harm when it is served;*)
(*   - an OK is backed by what the node has done (PhaseOK);                *)
(*   - the frame the drain worker has peeked is the front of the queue, or *)
(*     the queue was cleared meanwhile and begins with a newer stream      *)
(*     (DrainOK);                                                          *)
(*   - the abandoned polls on the wire are paid for in advance: each may   *)
(*     take one chunk out of the node that nobody receives (UpBalanced).   *)
(* Each group of actions keeps LinkInv in one lemma, whose named steps are *)
(* the facts only that group needs.                                        *)
(***************************************************************************)
EXTENDS GroundLink, TLAPS

\* The fields of the records of the model.
PacketFields == {"op", "stream", "acked", "live"}

BackFields == {"phase", "call", "sends", "policy", "v3", "v2", "probes", "acked", "next", "window",
               "active", "overdue", "result"}

NodeFields == {"staging", "cached", "queue", "accepted", "flushed", "dropped"}

UpFields == {"chunks", "read", "queue", "step", "chunk", "rxErrors", "dropped", "delivered"}

\* What is written to the line.
Sent == [stream : Nat, index : Nat]

\* The elements of a sequence are of no type of their own: what a V3 reply says
\* of its frames is carried along and never looked at.
IsSeq(q) == \E T : q \in Seq(T)

InSeq(t, q) == \E i \in 1 .. Len(q) : q[i] = t

\* Requests whose effect outlives them, and those that open a stream.
Effective == {"WRITE", "STAGE", "COMMIT"}

Starts(p) == p.op \in {"BEGIN", "STAGE"} \/ (p.op = "WRITE" /\ p.acked = 0)

\* Stream t is newer than all that was committed or written to the line.
Fresh(t, g, c) == (\A i \in 1 .. Len(c) : c[i] < t) /\ (\A i \in 1 .. Len(g) : g[i].stream < t)

\* The last frame written is frame k of stream t.
EndsWith(g, t, k) == g # <<>> /\ g[Len(g)] = [stream |-> t, index |-> k]

\* Frame f comes right after frame e: the next of its stream, or the first of a
\* newer one.
Newer(e, f) == e.stream < f.stream /\ f.index = 0

Follows(e, f) == (e.stream = f.stream /\ f.index = e.index + 1) \/ Newer(e, f)

Chained(q) == \A i \in 2 .. Len(q) : Follows(q[i - 1], q[i])

MayFollow(g, f) == IF g = <<>> THEN f.index = 0 ELSE Follows(g[Len(g)], f)

\* The protocol in use: V2 by policy, V1 until the probe is answered, then V3.
InV1(x) == x.policy = "V3" /\ ~x.v3

EraPhases(x) ==
  IF x.policy = "V2_ONLY" THEN {"IDLE", "PROBE_V2", "STAGE", "ABORT"}
  ELSE IF x.v3 THEN {"IDLE", "BEGIN", "SEND", "ACK", "COMMIT", "ABORT"}
  ELSE {"IDLE", "PROBE", "V1"}

EraOps(x) ==
  IF x.policy = "V2_ONLY" THEN {"STATUS_V2", "STAGE", "ABORT_V2", "UPLINK_POLL"}
  ELSE IF x.v3 THEN {"BEGIN", "DATA", "ACK_POLL", "COMMIT", "ABORT", "UPLINK_POLL"}
  ELSE {"STATUS", "WRITE", "UPLINK_POLL"}

\* The request the backend waits for in each phase.
Asked(phase, op) ==
  \/ phase = "PROBE" /\ op = "STATUS"
  \/ phase = "PROBE_V2" /\ op = "STATUS_V2"
  \/ phase = "STAGE" /\ op = "STAGE"
  \/ phase = "V1" /\ op = "WRITE"
  \/ phase = "BEGIN" /\ op = "BEGIN"
  \/ phase = "ACK" /\ op = "ACK_POLL"
  \/ phase = "COMMIT" /\ op = "COMMIT"
  \/ phase = "ABORT" /\ op \in {"ABORT", "ABORT_V2"}

\* The backend x: idle, or in a phase of its protocol; OK means committed.
BackOK(x, c) ==
  /\ DOMAIN x = BackFields
  /\ x.call \in Nat /\ x.sends \in 0 .. Len(FramesOf) /\ x.call <= x.sends
  /\ x.policy \in {"V3", "V2_ONLY"} /\ x.v3 \in BOOLEAN
  /\ x.phase \in EraPhases(x)
  /\ x.phase # "IDLE" => x.call # 0 /\ x.result # "OK"
  /\ x.phase = "IDLE" /\ x.result = "OK" /\ ~InV1(x) => InSeq(x.call, c)
  /\ InV1(x) => c = <<>>

\* A packet of the protocol in use, of this send or an earlier one.
PacketOK(x, p) ==
  /\ DOMAIN p = PacketFields /\ p.op \in EraOps(x) /\ p.live \in BOOLEAN
  /\ p.stream \in 0 .. x.call /\ (p.op # "UPLINK_POLL" => p.stream # 0)
  /\ p.op \in {"STAGE", "WRITE"} => p.acked \in Nat

\* A request that is waited for is the last one on the wire.
LiveFits(x, u, p) ==
  \/ u.step = "POLL" /\ p.op = "UPLINK_POLL"
  \/ Asked(x.phase, p.op) /\ p.stream = x.call /\ (p.op \in {"STAGE", "WRITE"} => p.acked = x.acked)

\* The wire w and the answer a: one request at a time is waited for, the driver's
\* poll included.
WireOK(x, u, w, a) ==
  /\ IsSeq(w)
  /\ \A i \in 1 .. Len(w) : PacketOK(x, w[i])
  /\ \A i \in 1 .. Len(w) : w[i].live => i = Len(w) /\ a = NoAnswer /\ LiveFits(x, u, w[i])
  /\ a # NoAnswer => w = <<>>
  /\ x.phase = "SEND" => a = NoAnswer
  /\ u.step = "POLL" => x.phase = "IDLE"

\* Whatever opens a stream is newer than all before it, done or on its way.
StreamsInOrder(w, g, c) ==
  /\ \A j \in 1 .. Len(w) : Starts(w[j]) => Fresh(w[j].stream, g, c)
  /\ \A i, j \in 1 .. Len(w) : i < j /\ w[i].op \in Effective /\ Starts(w[j]) =>
       w[i].stream < w[j].stream
  /\ \A j \in 1 .. Len(w) : w[j].op = "WRITE" /\ w[j].acked # 0 =>
       j = 1 /\ EndsWith(g, w[j].stream, w[j].acked - 1)

\* What each phase of the backend may rely on.
PhaseOK(x, w, a, g, c) ==
  /\ x.phase \in {"PROBE", "PROBE_V2", "BEGIN"} =>
       Fresh(x.call, g, c) /\ \A i \in 1 .. Len(w) : w[i].op \in Effective => w[i].stream < x.call
  /\ x.phase \in {"STAGE", "V1"} =>
       /\ x.acked \in Nat
       /\ \A i \in 1 .. Len(w) : ~w[i].live /\ w[i].op \in Effective => w[i].stream < x.call
  /\ x.phase \in {"PROBE", "PROBE_V2"} => x.acked = 0
  /\ x.phase = "STAGE" =>
       \/ Fresh(x.call, g, c)
       \/ a.result = "OK" /\ IsLast(x.call, x.acked) /\ InSeq(x.call, c)
  /\ x.phase = "STAGE" /\ a.result = "OK" /\ IsLast(x.call, x.acked) => InSeq(x.call, c)
  /\ x.phase = "V1" /\ a.result = "OK" => EndsWith(g, x.call, x.acked)
  /\ x.phase = "COMMIT" /\ a.result = "OK" => InSeq(x.call, c)

\* The frames written form a chain, and the streams are committed in order.
HistoryOK(x, g, c) ==
  /\ g \in Seq(Sent) /\ c \in Seq(Nat)
  /\ Chained(g) /\ (g # <<>> => g[1].index = 0)
  /\ \A i, j \in 1 .. Len(c) : i < j => c[i] < c[j]
  /\ \A i \in 1 .. Len(g) : g[i].stream <= x.call
  /\ \A i \in 1 .. Len(c) : c[i] <= x.call

\* The staging area holds a stream nothing of which has been committed.
StagingOK(x, t, g, c) ==
  /\ DOMAIN t = {"active", "stream", "got"} /\ t.active \in BOOLEAN
  /\ ~t.active => t.got = {}
  /\ t.active => /\ ~InV1(x) /\ t.stream \in Calls /\ Fresh(t.stream, g, c)
                 /\ x.policy = "V2_ONLY" => FramesOf[t.stream] - 1 \notin t.got

\* The node: its queue and its cache hold committed streams only, and every frame
\* accepted waits, was flushed or was counted as dropped.
NodeOK(x, y, g, c) ==
  /\ DOMAIN y = NodeFields
  /\ y.accepted \in Nat /\ y.flushed \in Nat /\ y.dropped \in Nat
  /\ y.queue \in Seq(Sent) /\ Chained(y.queue)
  /\ \A i \in 1 .. Len(y.queue) : InSeq(y.queue[i].stream, c)
  /\ \A t \in y.cached : InSeq(t, c)
  /\ StagingOK(x, y.staging, g, c)
  /\ y.accepted <= y.flushed + y.dropped + Len(y.queue)

\* The drain worker and the queue: the frame it holds is the front of the queue,
\* or the queue was cleared and now begins with a newer stream.
DrainOK(d, y, g, c) ==
  /\ DOMAIN d = {"step", "frame"}
  /\ d.step \in {"WRITE", "CONFIRM"} =>
       /\ d.frame \in Sent /\ InSeq(d.frame.stream, c)
       /\ y.queue = <<>> \/ y.queue[1] = d.frame \/ Newer(d.frame, y.queue[1])
  /\ d.step = "WRITE" => MayFollow(g, d.frame)
  /\ d.step = "CONFIRM" => g # <<>> /\ g[Len(g)] = d.frame
  /\ d.step \notin {"WRITE", "CONFIRM"} /\ y.queue # <<>> => MayFollow(g, y.queue[1])
  /\ y.flushed + (IF d.step = "CONFIRM" THEN 1 ELSE 0) <= Len(g)

Increasing(q) == \A i, j \in 1 .. Len(q) : i < j => q[i] < q[j]

\* Chunk k comes after those delivered and before those that wait at the node.
Between(k, u) ==
  /\ k \in Nat /\ k <= u.read
  /\ \A i \in 1 .. Len(u.delivered) : u.delivered[i] < k
  /\ \A i \in 1 .. Len(u.queue) : k < u.queue[i]

Holding(u, a) == IF u.step = "DELIVER" \/ "chunk" \in DOMAIN a THEN 1 ELSE 0

\* k[i] is at least the number of polls among the first i packets that nobody
\* waits for any more.
Deserted(p) == p.op = "UPLINK_POLL" /\ ~p.live

Counts(k, w) ==
  /\ k \in [0 .. Len(w) -> Nat]
  /\ \A i, j \in 0 .. Len(w) : i <= j => k[i] <= k[j]
  /\ \A i \in 1 .. Len(w) : Deserted(w[i]) => k[i - 1] < k[i]

\* The chunks delivered, then those that wait at the node, in the order read.
UpOrdered(u) ==
  /\ DOMAIN u = UpFields
  /\ u.read \in Nat /\ u.dropped \in Nat /\ u.rxErrors \in Nat
  /\ u.queue \in Seq(Nat) /\ u.delivered \in Seq(Nat)
  /\ Increasing(u.delivered) /\ Increasing(u.queue)
  /\ \A i \in 1 .. Len(u.queue) : u.queue[i] <= u.read
  /\ \A i \in 1 .. Len(u.delivered) : u.delivered[i] <= u.read
  /\ \A i \in 1 .. Len(u.delivered), j \in 1 .. Len(u.queue) : u.delivered[i] < u.queue[j]

\* The chunk on its way to the driver, or in its hands.
UpHeld(u, a) ==
  /\ "chunk" \in DOMAIN a => u.step = "POLL" /\ Between(a.chunk, u)
  /\ u.step = "POLL" /\ a # NoAnswer => (a.result # "NO_CHUNK" <=> "chunk" \in DOMAIN a)
  /\ u.step = "DELIVER" => Between(u.chunk, u)

\* Every chunk read is accounted for, those that abandoned polls will take included.
UpBalanced(u, w, a) ==
  \E k : Counts(k, w) /\ u.read + k[Len(w)] <=
    Len(u.queue) + Holding(u, a) + Len(u.delivered) + u.dropped + u.rxErrors

UplinkOK(u, w, a) == UpOrdered(u) /\ UpHeld(u, a) /\ UpBalanced(u, w, a)

\* The inductive invariant.
LinkInv ==
  /\ BackOK(b, committed) /\ WireOK(b, up, wire, answer)
  /\ StreamsInOrder(wire, ground, committed) /\ PhaseOK(b, wire, answer, ground, committed)
  /\ HistoryOK(b, ground, committed) /\ NodeOK(b, n, ground, committed)
  /\ DrainOK(worker, n, ground, committed) /\ UplinkOK(up, wire, answer)
-----------------------------------------------------------------------------
(* What the steps have in common. *)

\* q is the wire w with nobody waiting for any of its packets.
Kept(q, w) ==
  /\ IsSeq(q) /\ Len(q) = Len(w)
  /\ \A i \in 1 .. Len(w) : /\ DOMAIN q[i] = PacketFields /\ q[i].live = FALSE
                            /\ q[i].op = w[i].op /\ q[i].stream = w[i].stream /\ q[i].acked = w[i].acked

\* The backend y comes after x; a change of protocol finds the wire empty.
Later(x, y, q) ==
  /\ y.policy = x.policy /\ x.call <= y.call /\ (InV1(y) => InV1(x))
  /\ EraOps(y) = EraOps(x) \/ q = <<>>

\* Serving p makes nothing stale that is newer than p.
Grows(p, g, c, h, e) ==
  \A t : Fresh(t, g, c) /\ (p.op \in Effective => p.stream < t) => Fresh(t, h, e)

\* What the reply r to the request of the present phase must be backed by.
Backs(x, r, h, e) ==
  /\ x.phase = "STAGE" =>
       /\ Fresh(x.call, h, e) \/ (r.result = "OK" /\ IsLast(x.call, x.acked) /\ InSeq(x.call, e))
       /\ r.result = "OK" /\ IsLast(x.call, x.acked) => InSeq(x.call, e)
  /\ x.phase = "V1" /\ r.result = "OK" => EndsWith(h, x.call, x.acked)
  /\ x.phase = "COMMIT" /\ r.result = "OK" => InSeq(x.call, e)

\* The reply goes to whoever waits.
Replied(p, r, a) == IF p.live THEN r ELSE a

\* What Append does to a sequence, whatever its elements are.
LEMMA AppendSeq ==
  ASSUME NEW q, IsSeq(q), NEW p
  PROVE  /\ IsSeq(Append(q, p)) /\ Len(Append(q, p)) = Len(q) + 1 /\ Len(q) \in Nat
         /\ \A i \in 1 .. Len(q) : Append(q, p)[i] = q[i]
         /\ Append(q, p)[Len(q) + 1] = p /\ Append(q, p) # <<>>
<1>1. PICK T : q \in Seq(T)
  BY Zenon DEF IsSeq
<1>2. q \in Seq(T \cup {p}) /\ p \in T \cup {p}
  BY <1>1
<1>3. Append(q, p) \in Seq(T \cup {p})
  BY <1>2
<1>4. IsSeq(Append(q, p))
  BY <1>3, Zenon DEF IsSeq
<1>5. /\ Len(Append(q, p)) = Len(q) + 1 /\ Len(q) \in Nat
      /\ \A i \in 1 .. Len(q) : Append(q, p)[i] = q[i]
      /\ Append(q, p)[Len(q) + 1] = p
  OBVIOUS
<1>6. Append(q, p) # <<>>
  BY <1>5
<1> QED
  BY <1>4, <1>5, <1>6, Zenon

\* The same of Tail.
LEMMA TailSeq ==
  ASSUME NEW q, IsSeq(q), q # <<>>
  PROVE  /\ IsSeq(Tail(q)) /\ Len(Tail(q)) = Len(q) - 1 /\ Len(q) \in Nat \ {0}
         /\ \A i \in 1 .. Len(q) - 1 : Tail(q)[i] = q[i + 1]
         /\ Head(q) = q[1]
<1>1. PICK T : q \in Seq(T)
  BY Zenon DEF IsSeq
<1>2. Tail(q) \in Seq(T)
  BY <1>1
<1>3. IsSeq(Tail(q))
  BY <1>2, Zenon DEF IsSeq
<1>4. /\ Len(Tail(q)) = Len(q) - 1 /\ Len(q) \in Nat \ {0}
      /\ \A i \in 1 .. Len(q) - 1 : Tail(q)[i] = q[i + 1]
      /\ Head(q) = q[1]
  OBVIOUS
<1> QED
  BY <1>3, <1>4, Zenon

\* The length of a sequence.
LEMMA LenSeq ==
  ASSUME NEW q, IsSeq(q)
  PROVE  Len(q) \in Nat /\ (q = <<>> <=> Len(q) = 0)
<1> QED
  OBVIOUS

\* Giving up a request leaves such a wire.
LEMMA AbandonedKept ==
  ASSUME NEW x, NEW u, NEW w, NEW a, WireOK(x, u, w, a)
  PROVE  Kept(Abandoned(w), w)
<1> DEFINE q == Abandoned(w)
<1>2. q = [i \in 1 .. Len(w) |-> [w[i] EXCEPT !.live = FALSE]]
  BY Zenon DEF Abandoned
<1>3. IsSeq(q) /\ Len(q) = Len(w)
  <2> DEFINE T == {[w[i] EXCEPT !.live = FALSE] : i \in 1 .. Len(w)}
  <2>1. q \in [1 .. Len(w) -> T]
    BY <1>2, Zenon
  <2>2. q \in Seq(T)
    BY <2>1
  <2>3. Len(q) = Len(w)
    BY <1>2
  <2> QED
    BY <2>2, <2>3, Zenon DEF IsSeq
<1>4. ASSUME NEW i \in 1 .. Len(w)
      PROVE  /\ DOMAIN q[i] = PacketFields /\ q[i].live = FALSE
             /\ q[i].op = w[i].op /\ q[i].stream = w[i].stream /\ q[i].acked = w[i].acked
  <2>1. DOMAIN w[i] = PacketFields
    BY Zenon DEF WireOK, PacketOK
  <2>2. q[i] = [w[i] EXCEPT !.live = FALSE]
    BY <1>2, Zenon
  <2> QED
    BY <2>1, <2>2, Zenon DEF PacketFields
<1> QED
  BY <1>3, <1>4, Zenon DEF Kept

\* When there is an answer, or nothing was asked for, nobody waits.
LEMMA QuietKept ==
  ASSUME NEW x, NEW u, NEW w, NEW a, WireOK(x, u, w, a),
         a # NoAnswer \/ (x.phase \in {"IDLE", "SEND"} /\ u.step # "POLL")
  PROVE  Kept(w, w)
<1>1. ASSUME NEW i \in 1 .. Len(w) PROVE DOMAIN w[i] = PacketFields /\ w[i].live = FALSE
  <2>1. DOMAIN w[i] = PacketFields /\ w[i].live \in BOOLEAN
    BY Zenon DEF WireOK, PacketOK
  <2>2. ~w[i].live
    BY Zenon DEF WireOK, LiveFits, Asked
  <2> QED
    BY <2>1, <2>2, Zenon
<1> QED
  BY <1>1, Zenon DEF Kept, WireOK

\* An answered request leaves an empty wire.
LEMMA AnsweredEmpty ==
  ASSUME NEW x, NEW u, NEW w, NEW a, WireOK(x, u, w, a), a # NoAnswer
  PROVE  w = <<>> /\ Len(w) = 0
  BY Zenon DEF WireOK

\* A packet of w, hushed, is still a packet for a later backend.
LEMMA KeptPacket ==
  ASSUME NEW x, NEW y, NEW u, NEW w, NEW a, NEW q, WireOK(x, u, w, a), Kept(q, w), Later(x, y, q),
         x.call \in Nat, y.call \in Nat, NEW i \in 1 .. Len(q)
  PROVE  PacketOK(y, q[i]) /\ ~q[i].live
<1>1. i \in 1 .. Len(w) /\ q # <<>> /\ EraOps(y) = EraOps(x)
  BY DEF Kept, Later
<1>2. PacketOK(x, w[i])
  BY <1>1, Zenon DEF WireOK
<1>3. /\ DOMAIN q[i] = PacketFields /\ q[i].live = FALSE
      /\ q[i].op = w[i].op /\ q[i].stream = w[i].stream /\ q[i].acked = w[i].acked
  BY Zenon DEF Kept
<1>4. x.call <= y.call
  BY Zenon DEF Later
<1>5. w[i].stream \in 0 .. x.call
  BY <1>2, Zenon DEF PacketOK
<1>6. q[i].stream \in 0 .. y.call
  BY <1>3, <1>4, <1>5
<1> QED
  BY <1>1, <1>2, <1>3, <1>6, Zenon DEF PacketOK

\* A request that opens a stream comes after all the wire holds.
LEMMA AskOrder ==
  ASSUME NEW w, NEW g, NEW c, NEW q, NEW p, StreamsInOrder(w, g, c), Kept(q, w),
         Starts(p) => /\ Fresh(p.stream, g, c)
                      /\ \A i \in 1 .. Len(q) : q[i].op \in Effective => q[i].stream < p.stream,
         p.op = "WRITE" /\ p.acked # 0 => q = <<>> /\ EndsWith(g, p.stream, p.acked - 1)
  PROVE  StreamsInOrder(Append(q, p), g, c)
<1> DEFINE v == Append(q, p)
<1>1. IsSeq(q) /\ Len(q) = Len(w)
  BY Zenon DEF Kept
<1>2. /\ Len(v) = Len(q) + 1 /\ Len(q) \in Nat
      /\ \A i \in 1 .. Len(q) : v[i] = q[i]
      /\ v[Len(q) + 1] = p
  BY <1>1, AppendSeq, Zenon
<1> HIDE DEF v
<1>3. ASSUME NEW i \in 1 .. Len(q)
      PROVE  /\ v[i].op = w[i].op /\ v[i].stream = w[i].stream /\ v[i].acked = w[i].acked
             /\ Starts(v[i]) <=> Starts(w[i])
  <2>1. v[i].op = w[i].op /\ v[i].stream = w[i].stream /\ v[i].acked = w[i].acked
    BY <1>2, Zenon DEF Kept
  <2> QED
    BY <2>1, Zenon DEF Starts
<1>4. ASSUME NEW j \in 1 .. Len(v), Starts(v[j])
      PROVE  /\ Fresh(v[j].stream, g, c)
             /\ \A i \in 1 .. Len(v) : i < j /\ v[i].op \in Effective => v[i].stream < v[j].stream
  <2>1. CASE j \in 1 .. Len(q)
    <3>1. Fresh(v[j].stream, g, c)
      BY <1>1, <1>3, <1>4, <2>1, Zenon DEF StreamsInOrder
    <3>2. ASSUME NEW i \in 1 .. Len(v), i < j, v[i].op \in Effective PROVE v[i].stream < v[j].stream
      <4>1. i \in 1 .. Len(q)
        BY <1>2, <3>2
      <4> QED
        BY <1>1, <1>3, <1>4, <2>1, <3>2, <4>1, Zenon DEF StreamsInOrder
    <3> QED
      BY <3>1, <3>2, Zenon
  <2>2. CASE j = Len(q) + 1
    <3>1. v[j] = p
      BY <1>2, <2>2, Zenon
    <3>2. ASSUME NEW i \in 1 .. Len(v), i < j, v[i].op \in Effective PROVE v[i].stream < v[j].stream
      <4>1. i \in 1 .. Len(q) /\ v[i] = q[i]
        BY <1>2, <3>2
      <4> QED
        BY <1>4, <3>1, <3>2, <4>1, Zenon
    <3> QED
      BY <1>4, <3>1, <3>2, Zenon
  <2> QED
    BY <1>2, <1>4, <2>1
<1>5. ASSUME NEW j \in 1 .. Len(v), v[j].op = "WRITE", v[j].acked # 0
      PROVE  j = 1 /\ EndsWith(g, v[j].stream, v[j].acked - 1)
  <2>1. CASE j \in 1 .. Len(q)
    BY <1>1, <1>3, <1>5, <2>1, Zenon DEF StreamsInOrder
  <2>2. CASE j = Len(q) + 1
    <3>1. v[j] = p
      BY <1>2, <2>2, Zenon
    <3>2. q = <<>> /\ EndsWith(g, p.stream, p.acked - 1)
      BY <1>5, <3>1, Zenon
    <3> QED
      BY <2>2, <3>1, <3>2
  <2> QED
    BY <1>2, <1>5, <2>1
<1> QED
  BY <1>4, <1>5, Zenon DEF StreamsInOrder, v

\* The polls nobody waits for, with one more packet.
LEMMA CountsAppend ==
  ASSUME NEW q, IsSeq(q), NEW k, Counts(k, q), NEW p, ~Deserted(p)
  PROVE  \E m : Counts(m, Append(q, p)) /\ m[Len(Append(q, p))] = k[Len(q)]
<1> DEFINE v == Append(q, p)
           m == [i \in 0 .. Len(q) + 1 |-> IF i <= Len(q) THEN k[i] ELSE k[Len(q)]]
<1>1. /\ Len(v) = Len(q) + 1 /\ Len(q) \in Nat
      /\ \A i \in 1 .. Len(q) : v[i] = q[i]
      /\ v[Len(q) + 1] = p
  OBVIOUS
<1> HIDE DEF v
<1>2. k \in [0 .. Len(q) -> Nat] /\ \A i, j \in 0 .. Len(q) : i <= j => k[i] <= k[j]
  BY Zenon DEF Counts
<1>3. /\ \A i \in 0 .. Len(q) : m[i] = k[i]
      /\ m[Len(q) + 1] = k[Len(q)]
      /\ m \in [0 .. Len(v) -> Nat]
  BY <1>1, <1>2
<1> HIDE DEF m
<1>4. ASSUME NEW i \in 0 .. Len(v), NEW j \in 0 .. Len(v), i <= j PROVE m[i] <= m[j]
  BY <1>2, <1>4
<1>5. ASSUME NEW i \in 1 .. Len(v), Deserted(v[i]) PROVE m[i - 1] < m[i]
  <2>2. i \in 1 .. Len(q) /\ v[i] = q[i]
    BY <1>1, <1>5
  <2>3. k[i - 1] < k[i]
    BY <1>5, <2>2, Zenon DEF Counts
  <2> QED
    BY <1>1, <1>3, <2>3
<1>6. Counts(m, v) /\ m[Len(v)] = k[Len(q)]
  BY <1>1, <1>3, <1>4, <1>5, Zenon DEF Counts
<1> QED
  BY <1>6, Zenon DEF v

\* What all of them know at the outset.
LEMMA AtOutset ==
  ASSUME LinkInv
  PROVE  /\ BackOK(b, committed) /\ WireOK(b, up, wire, answer)
         /\ PhaseOK(b, wire, answer, ground, committed)
         /\ HistoryOK(b, ground, committed)
         /\ DOMAIN b = BackFields /\ b.call \in Nat
         /\ b.phase \in EraPhases(b)
         /\ b.phase # "IDLE" => up.step # "POLL" /\ b.result # "OK"
  BY Zenon DEF LinkInv, BackOK, WireOK

\* The wire as it is when an answer is taken, and when a request is given up.
LEMMA WireKept ==
  ASSUME LinkInv
  PROVE  /\ Kept(Abandoned(wire), wire)
         /\ answer # NoAnswer => Kept(wire, wire) /\ wire = <<>> /\ Len(wire) = 0
         /\ b.phase = "SEND" => Kept(wire, wire)
<1>1. WireOK(b, up, wire, answer) /\ (b.phase # "IDLE" => up.step # "POLL")
  BY AtOutset, Zenon
<1> QED
  BY <1>1, AbandonedKept, QuietKept, AnsweredEmpty, Zenon

\* Serving the first packet leaves a legal wire, with the reply for whoever waits.
LEMMA ServedWire ==
  ASSUME NEW x, NEW u, NEW w, NEW a, NEW r, WireOK(x, u, w, a), w # <<>>
  PROVE  WireOK(x, u, Tail(w), Replied(w[1], r, a))
<1> DEFINE v == Tail(w)
           e == Replied(w[1], r, a)
<1>1. IsSeq(w)
  BY Zenon DEF WireOK
<1>2. /\ IsSeq(v) /\ Len(v) = Len(w) - 1 /\ Len(w) \in Nat \ {0}
      /\ \A i \in 1 .. Len(w) - 1 : v[i] = w[i + 1]
  BY <1>1, TailSeq, Zenon
<1> HIDE DEF v
<1>3. a = NoAnswer /\ 1 \in 1 .. Len(w) /\ (u.step = "POLL" => x.phase = "IDLE")
  BY DEF WireOK
<1>4. w[1].live => v = <<>> /\ x.phase # "SEND"
  <2>1. ASSUME w[1].live PROVE Len(w) = 1 /\ LiveFits(x, u, w[1])
    BY <1>3, <2>1, Zenon DEF WireOK
  <2>2. ASSUME w[1].live PROVE v = <<>>
    <3>1. Len(w) = 1
      BY <2>1, <2>2, Zenon
    <3>2. Len(v) = 0
      BY <1>2, <3>1
    <3> QED
      BY <1>2, <3>2, LenSeq, Zenon
  <2> QED
    BY <1>3, <2>1, <2>2, Zenon DEF LiveFits, Asked
<1>5. e # NoAnswer => v = <<>>
  BY <1>3, <1>4, Zenon DEF Replied
<1>6. x.phase = "SEND" => e = NoAnswer
  BY <1>3, <1>4, Zenon DEF Replied
<1>7. ASSUME NEW i \in 1 .. Len(v)
      PROVE  PacketOK(x, v[i]) /\ (v[i].live => i = Len(v) /\ e = NoAnswer /\ LiveFits(x, u, v[i]))
  <2>1. v[i] = w[i + 1] /\ i + 1 \in 1 .. Len(w) /\ Len(v) # 0
    BY <1>2
  <2>2. PacketOK(x, w[i + 1]) /\ (w[i + 1].live => i + 1 = Len(w) /\ LiveFits(x, u, w[i + 1]))
    BY <2>1, Zenon DEF WireOK
  <2>3. e = NoAnswer
    BY <1>2, <1>5, <2>1, LenSeq, Zenon
  <2>4. i + 1 = Len(w) => i = Len(v)
    BY <1>2
  <2> QED
    BY <2>1, <2>2, <2>3, <2>4, Zenon
<1> HIDE DEF e
<1>8. WireOK(x, u, v, e)
  BY <1>2, <1>5, <1>6, <1>7, Zenon DEF WireOK
<1> QED
  BY <1>8, Zenon DEF v, e

\* What is left on the wire is still newer than what was committed or written.
LEMMA ServedOrder ==
  ASSUME NEW w, NEW g, NEW c, NEW h, NEW e, IsSeq(w), w # <<>>, StreamsInOrder(w, g, c), Grows(w[1], g, c, h, e)
  PROVE  StreamsInOrder(Tail(w), h, e)
<1> DEFINE v == Tail(w)
<1>1. /\ Len(v) = Len(w) - 1 /\ Len(w) \in Nat \ {0}
      /\ \A i \in 1 .. Len(w) - 1 : v[i] = w[i + 1]
  BY TailSeq, Zenon
<1> HIDE DEF v
<1>2. ASSUME NEW j \in 1 .. Len(v) PROVE v[j] = w[j + 1] /\ j + 1 \in 1 .. Len(w) /\ 1 < j + 1 /\ 1 \in 1 .. Len(w)
  BY <1>1
<1>3. ASSUME NEW j \in 1 .. Len(v), Starts(v[j]) PROVE Fresh(v[j].stream, h, e)
  <2>1. Fresh(v[j].stream, g, c) /\ (w[1].op \in Effective => w[1].stream < v[j].stream)
    BY <1>2, <1>3, Zenon DEF StreamsInOrder
  <2> QED
    BY <2>1, Zenon DEF Grows
<1>4. ASSUME NEW i \in 1 .. Len(v), NEW j \in 1 .. Len(v), i < j, v[i].op \in Effective, Starts(v[j])
      PROVE  v[i].stream < v[j].stream
  <2>1. i + 1 < j + 1
    BY <1>4
  <2> QED
    BY <1>2, <1>4, <2>1, Zenon DEF StreamsInOrder
<1>5. ASSUME NEW j \in 1 .. Len(v), v[j].op = "WRITE", v[j].acked # 0 PROVE FALSE
  <2>1. j + 1 = 1
    BY <1>2, <1>5, Zenon DEF StreamsInOrder
  <2> QED
    BY <2>1
<1> QED
  BY <1>3, <1>4, <1>5, Zenon DEF StreamsInOrder, v

\* The phase may rely on the reply, if it is backed by what the node has done.
LEMMA ServedPhase ==
  ASSUME NEW x, NEW u, NEW w, NEW a, NEW r, NEW g, NEW c, NEW h, NEW e,
         WireOK(x, u, w, a), w # <<>>, PhaseOK(x, w, a, g, c), Grows(w[1], g, c, h, e),
         w[1].live => Backs(x, r, h, e)
  PROVE  PhaseOK(x, Tail(w), Replied(w[1], r, a), h, e)
<1> DEFINE v == Tail(w)
           z == Replied(w[1], r, a)
<1>1. IsSeq(w)
  BY Zenon DEF WireOK
<1>2. /\ Len(v) = Len(w) - 1 /\ Len(w) \in Nat \ {0}
      /\ \A i \in 1 .. Len(w) - 1 : v[i] = w[i + 1]
  BY <1>1, TailSeq, Zenon
<1> HIDE DEF v
<1>3. a = NoAnswer /\ a.result = "NONE"
  BY DEF WireOK, NoAnswer
<1>4. 1 \in 1 .. Len(w) /\ \A i \in 1 .. Len(v) : v[i] = w[i + 1] /\ i + 1 \in 1 .. Len(w)
  BY <1>2
<1>5. (w[1].live => z = r) /\ (~w[1].live => z = a)
  BY Zenon DEF Replied
<1> HIDE DEF z
<1>6. x.phase \in {"PROBE", "PROBE_V2", "BEGIN"} =>
        Fresh(x.call, h, e) /\ \A i \in 1 .. Len(v) : v[i].op \in Effective => v[i].stream < x.call
  BY <1>4, Zenon DEF PhaseOK, Grows
<1>7. x.phase \in {"STAGE", "V1"} =>
        /\ x.acked \in Nat
        /\ \A i \in 1 .. Len(v) : ~v[i].live /\ v[i].op \in Effective => v[i].stream < x.call
  BY <1>4, Zenon DEF PhaseOK
<1>8. ASSUME w[1].live
      PROVE  /\ x.phase = "STAGE" =>
                  \/ Fresh(x.call, h, e)
                  \/ z.result = "OK" /\ IsLast(x.call, x.acked) /\ InSeq(x.call, e)
             /\ x.phase = "STAGE" /\ z.result = "OK" /\ IsLast(x.call, x.acked) => InSeq(x.call, e)
             /\ x.phase = "V1" /\ z.result = "OK" => EndsWith(h, x.call, x.acked)
             /\ x.phase = "COMMIT" /\ z.result = "OK" => InSeq(x.call, e)
  BY <1>5, <1>8, Zenon DEF Backs
<1>9. ASSUME ~w[1].live
      PROVE  /\ x.phase = "STAGE" => Fresh(x.call, h, e)
             /\ z.result # "OK"
  <2>1. z.result = "NONE"
    BY <1>3, <1>5, <1>9, Zenon
  <2>2. ASSUME x.phase = "STAGE" PROVE Fresh(x.call, h, e)
    <3>1. Fresh(x.call, g, c)
      BY <1>3, <2>2, Zenon DEF PhaseOK
    <3>2. w[1].op \in Effective => w[1].stream < x.call
      BY <1>4, <1>9, <2>2, Zenon DEF PhaseOK
    <3> QED
      BY <3>1, <3>2, Zenon DEF Grows
  <2> QED
    BY <2>1, <2>2, Zenon
<1>11. PhaseOK(x, v, z, h, e)
  BY <1>6, <1>7, <1>8, <1>9, Zenon DEF PhaseOK
<1> QED
  BY <1>11, Zenon DEF v, z

\* The polls nobody waits for, without the first packet.
LEMMA CountsTail ==
  ASSUME NEW w, IsSeq(w), w # <<>>, NEW k, Counts(k, w)
  PROVE  \E m : /\ Counts(m, Tail(w))
                /\ m[Len(Tail(w))] = k[Len(w)] - (IF Deserted(w[1]) THEN 1 ELSE 0)
<1> DEFINE v == Tail(w)
           d == IF Deserted(w[1]) THEN 1 ELSE 0
           m == [i \in 0 .. Len(w) - 1 |-> k[i + 1] - d]
<1>1. /\ Len(v) = Len(w) - 1 /\ Len(w) \in Nat \ {0}
      /\ \A i \in 1 .. Len(w) - 1 : v[i] = w[i + 1]
  BY TailSeq, Zenon
<1> HIDE DEF v
<1>2. k \in [0 .. Len(w) -> Nat] /\ \A i, j \in 0 .. Len(w) : i <= j => k[i] <= k[j]
  BY Zenon DEF Counts
<1>3. d \in {0, 1} /\ k[1] >= d
  <2>1. Deserted(w[1]) => k[0] < k[1]
    BY DEF Counts
  <2> QED
    BY <1>2, <2>1
<1> HIDE DEF d
<1>4. \A i \in 0 .. Len(v) : m[i] = k[i + 1] - d /\ i + 1 \in 1 .. Len(w)
  BY <1>1
<1>5. ASSUME NEW i \in 0 .. Len(v) PROVE m[i] \in Nat
  <2>1. k[1] <= k[i + 1] /\ k[1] \in Nat /\ k[i + 1] \in Nat
    BY <1>1, <1>2, <1>4
  <2> QED
    BY <1>3, <1>4, <2>1, SMTT(30)
<1>6. m \in [0 .. Len(v) -> Nat]
  BY <1>1, <1>5, Zenon
<1> HIDE DEF m
<1>7. ASSUME NEW i \in 0 .. Len(v), NEW j \in 0 .. Len(v), i <= j PROVE m[i] <= m[j]
  <2>1. k[i + 1] <= k[j + 1] /\ k[i + 1] \in Nat /\ k[j + 1] \in Nat
    BY <1>1, <1>2, <1>7
  <2> QED
    BY <1>3, <1>4, <2>1
<1>8. ASSUME NEW i \in 1 .. Len(v), Deserted(v[i]) PROVE m[i - 1] < m[i]
  <2>1. v[i] = w[i + 1] /\ i + 1 \in 1 .. Len(w) /\ i + 1 - 1 = i /\ i - 1 \in 0 .. Len(v)
    BY <1>1
  <2>2. k[i] < k[i + 1]
    BY <1>8, <2>1 DEF Counts
  <2>3. m[i - 1] = k[i] - d /\ m[i] = k[i + 1] - d /\ k[i] \in Nat /\ k[i + 1] \in Nat
    BY <1>1, <1>2, <1>4, <2>1
  <2> QED
    BY <1>3, <2>2, <2>3
<1>9. Counts(m, v) /\ m[Len(v)] = k[Len(w)] - d
  BY <1>1, <1>4, <1>6, <1>7, <1>8 DEF Counts
<1> QED
  BY <1>9, Zenon DEF v, d

\* Only the staging area changes.
LEMMA StagingKeeps ==
  ASSUME NEW x, NEW d, NEW y, NEW g, NEW c, NodeOK(x, y, g, c), DrainOK(d, y, g, c),
         NEW t, StagingOK(x, t, g, c), NEW z, z = [y EXCEPT !.staging = t]
  PROVE  NodeOK(x, z, g, c) /\ DrainOK(d, z, g, c)
<1>1. DOMAIN y = NodeFields
  BY Zenon DEF NodeOK
<1>2. /\ DOMAIN z = NodeFields /\ z.staging = t /\ z.cached = y.cached /\ z.queue = y.queue
      /\ z.accepted = y.accepted /\ z.flushed = y.flushed /\ z.dropped = y.dropped
  BY <1>1, Zenon DEF NodeFields
<1> QED
  BY <1>2, Zenon DEF NodeOK, DrainOK

\* An empty staging area is always legal, and one for a fresh stream is.
LEMMA StagingEmpty ==
  ASSUME NEW x, NEW g, NEW c
  PROVE  StagingOK(x, Staging(0), g, c)
  BY Zenon DEF StagingOK, Staging

\* A committed stream is older than a fresh one.
LEMMA CommittedOlder ==
  ASSUME NEW t, NEW s, NEW g, NEW c, Fresh(s, g, c), InSeq(t, c)
  PROVE  t < s
  BY Zenon DEF Fresh, InSeq

\* Nothing is written or committed: nothing grows stale.
LEMMA GrowsSame ==
  ASSUME NEW p, NEW g, NEW c
  PROVE  Grows(p, g, c, g, c)
  BY Zenon DEF Grows

\* One more frame on the line.
LEMMA AirHistory ==
  ASSUME NEW x, NEW g, NEW c, HistoryOK(x, g, c), NEW f \in Sent, f.stream <= x.call, MayFollow(g, f)
  PROVE  /\ HistoryOK(x, Append(g, f), c) /\ Len(Append(g, f)) = Len(g) + 1 /\ Len(g) \in Nat
         /\ Append(g, f) # <<>> /\ Append(g, f)[Len(Append(g, f))] = f
         /\ \A t : Fresh(t, g, c) /\ f.stream < t => Fresh(t, Append(g, f), c)
<1> DEFINE h == Append(g, f)
<1>1. g \in Seq(Sent)
  BY Zenon DEF HistoryOK
<1>2. /\ h \in Seq(Sent) /\ Len(h) = Len(g) + 1 /\ Len(g) \in Nat /\ h # <<>>
      /\ \A i \in 1 .. Len(g) : h[i] = g[i]
      /\ h[Len(g) + 1] = f
  BY <1>1
<1> HIDE DEF h
<1>3. ASSUME NEW i \in 1 .. Len(h) PROVE (i \in 1 .. Len(g) /\ h[i] = g[i]) \/ (i = Len(g) + 1 /\ h[i] = f)
  BY <1>2
<1>4. ASSUME NEW i \in 2 .. Len(h) PROVE Follows(h[i - 1], h[i])
  <2>1. CASE i <= Len(g)
    <3>1. i \in 2 .. Len(g) /\ h[i] = g[i] /\ h[i - 1] = g[i - 1]
      BY <1>2, <2>1
    <3> QED
      BY <3>1, Zenon DEF HistoryOK, Chained
  <2>2. CASE i = Len(g) + 1
    <3>1. h[i] = f /\ h[i - 1] = g[Len(g)] /\ g # <<>>
      BY <1>2, <2>2
    <3> QED
      BY <3>1, Zenon DEF MayFollow
  <2> QED
    BY <1>2, <2>1, <2>2
<1>5. h[1].index = 0
  <2>1. CASE g = <<>>
    BY <1>2, <2>1 DEF MayFollow
  <2>2. CASE g # <<>>
    <3>1. h[1] = g[1]
      BY <1>2, <2>2
    <3> QED
      BY <2>2, <3>1, Zenon DEF HistoryOK
  <2> QED
    BY <2>1, <2>2, Zenon
<1>6. \A i \in 1 .. Len(h) : h[i].stream <= x.call
  BY <1>3, Zenon DEF HistoryOK
<1>7. HistoryOK(x, h, c)
  BY <1>2, <1>4, <1>5, <1>6, Zenon DEF HistoryOK, Chained
<1>8. ASSUME NEW t, Fresh(t, g, c), f.stream < t PROVE Fresh(t, h, c)
  BY <1>3, <1>8, Zenon DEF Fresh
<1> QED
  BY <1>2, <1>7, <1>8, Zenon DEF h

\* What every step of the uplink may use.
LEMMA UplinkKnown ==
  ASSUME LinkInv
  PROVE  /\ WireOK(b, up, wire, answer) /\ IsSeq(wire) /\ UplinkOK(up, wire, answer)
         /\ UpOrdered(up) /\ UpHeld(up, answer)
         /\ StreamsInOrder(wire, ground, committed) /\ PhaseOK(b, wire, answer, ground, committed)
         /\ DOMAIN up = UpFields /\ up.read \in Nat /\ up.dropped \in Nat /\ up.rxErrors \in Nat
         /\ up.queue \in Seq(Nat) /\ up.delivered \in Seq(Nat)
         /\ Len(up.queue) \in Nat /\ Len(up.delivered) \in Nat
<1>1. /\ WireOK(b, up, wire, answer) /\ UplinkOK(up, wire, answer)
      /\ StreamsInOrder(wire, ground, committed) /\ PhaseOK(b, wire, answer, ground, committed)
  BY Zenon DEF LinkInv
<1>2. IsSeq(wire)
  BY <1>1, Zenon DEF WireOK
<1>3. UpOrdered(up) /\ UpHeld(up, answer)
  BY <1>1, Zenon DEF UplinkOK
<1>4. /\ DOMAIN up = UpFields /\ up.read \in Nat /\ up.dropped \in Nat /\ up.rxErrors \in Nat
      /\ up.queue \in Seq(Nat) /\ up.delivered \in Seq(Nat)
  BY <1>3, Zenon DEF UpOrdered
<1>5. Len(up.queue) \in Nat /\ Len(up.delivered) \in Nat
  OBVIOUS
<1> QED
  BY <1>1, <1>2, <1>3, <1>4, <1>5, Zenon

\* The balance, with the bound on the abandoned polls named.
LEMMA BalanceKnown ==
  ASSUME LinkInv
  PROVE  \E k : /\ Counts(k, wire) /\ k[Len(wire)] \in Nat
                /\ up.read + k[Len(wire)] <=
                     Len(up.queue) + Holding(up, answer) + Len(up.delivered) + up.dropped + up.rxErrors
<1>1. PICK k : Counts(k, wire) /\ up.read + k[Len(wire)] <=
        Len(up.queue) + Holding(up, answer) + Len(up.delivered) + up.dropped + up.rxErrors
  BY Zenon DEF LinkInv, UplinkOK, UpBalanced
<1>3. k[Len(wire)] \in Nat
  BY <1>1 DEF Counts
<1> QED
  BY <1>1, <1>3, Zenon

\* An idle backend relies on nothing.
LEMMA IdlePhase ==
  ASSUME NEW x, x.phase = "IDLE", NEW w, NEW a, NEW g, NEW c
  PROVE  PhaseOK(x, w, a, g, c)
  BY Zenon DEF PhaseOK
-----------------------------------------------------------------------------
(* The backend. *)

\* What the request of phase y.phase needs of the wire q behind which it is put.
Ready(y, q, g, c) ==
  /\ y.phase \in {"PROBE", "PROBE_V2", "BEGIN", "STAGE"} => Fresh(y.call, g, c)
  /\ y.phase \in {"PROBE", "PROBE_V2", "BEGIN", "STAGE", "V1"} =>
       \A i \in 1 .. Len(q) : q[i].op \in Effective => q[i].stream < y.call
  /\ y.phase \in {"PROBE", "PROBE_V2"} => y.acked = 0
  /\ y.phase \in {"STAGE", "V1"} => y.acked \in Nat
  /\ y.phase = "V1" => \/ y.acked = 0 /\ Fresh(y.call, g, c)
                       \/ y.acked # 0 /\ q = <<>> /\ EndsWith(g, y.call, y.acked - 1)

Packet(op, t, k, live) == [op |-> op, stream |-> t, acked |-> k, live |-> live]

Asks(q, op, k) ==
  /\ Kept(q, wire) /\ Later(b, b', q) /\ BackOK(b', committed)
  /\ wire' = Append(q, Packet(op, b'.call, k, TRUE)) /\ answer' = NoAnswer
  /\ Asked(b'.phase, op) /\ op \in EraOps(b')
  /\ op \in {"STAGE", "WRITE"} => k = b'.acked
  /\ Ready(b', q, ground, committed)

Stops(q) ==
  /\ Kept(q, wire) /\ Later(b, b', q) /\ BackOK(b', committed)
  /\ wire' = q /\ b'.phase \in {"IDLE", "SEND"}
  /\ answer' = NoAnswer \/ (answer' = answer /\ q = wire /\ b'.phase = "IDLE")

SendsData ==
  /\ b.phase = "SEND" /\ b'.phase = "SEND" /\ Later(b, b', wire) /\ BackOK(b', committed)
  /\ EraOps(b') = EraOps(b) /\ "DATA" \in EraOps(b')
  /\ \E k : wire' = Append(wire, Packet("DATA", b'.call, k, FALSE))
  /\ answer' = answer

\* y is the backend in another phase of the same send.
Turn(y, phase) ==
  /\ DOMAIN y = BackFields /\ y.phase = phase
  /\ y.call = b.call /\ y.sends = b.sends /\ y.policy = b.policy /\ y.v3 = b.v3

\* CommCspGroundLinkBackend::send: it asks for something, or it stops asking.
LEMMA SendingKeeps ==
  LinkInv /\ Sending => LinkInv'

\* A request behind the hushed wire.
<1>AskWire.
  ASSUME NEW x, NEW y, NEW u, NEW w, NEW a, NEW q, NEW p,
         WireOK(x, u, w, a), Kept(q, w), Later(x, y, q), x.call \in Nat, y.call \in Nat,
         PacketOK(y, p), p.live => LiveFits(y, u, p), u.step = "POLL" => y.phase = "IDLE"
  PROVE  WireOK(y, u, Append(q, p), NoAnswer)
  <2> USE <1>AskWire
  <2> DEFINE v == Append(q, p)
  <2>1. IsSeq(q)
    BY Zenon DEF Kept
  <2>2. /\ IsSeq(v) /\ Len(v) = Len(q) + 1 /\ Len(q) \in Nat
        /\ \A i \in 1 .. Len(q) : v[i] = q[i]
        /\ v[Len(q) + 1] = p
    BY <2>1, AppendSeq, Zenon
  <2> HIDE DEF v
  <2>3. ASSUME NEW i \in 1 .. Len(v)
        PROVE  PacketOK(y, v[i]) /\ (v[i].live => i = Len(v) /\ LiveFits(y, u, v[i]))
    <3>1. CASE i \in 1 .. Len(q)
      <4>1. PacketOK(y, q[i]) /\ ~q[i].live
        BY <3>1, KeptPacket, Zenon
      <4> QED
        BY <2>2, <3>1, <4>1, Zenon
    <3>2. CASE i = Len(q) + 1
      BY <2>2, <3>2, Zenon
    <3> QED
      BY <2>2, <3>1
  <2> QED
    BY <2>2, <2>3, Zenon DEF WireOK, v

\* With no answer yet, a phase relies on what its request needed.
<1>AskPhase.
  ASSUME NEW y, NEW g, NEW c, NEW q, NEW p, IsSeq(q), Ready(y, q, g, c), p.live = TRUE, Asked(y.phase, p.op)
  PROVE  PhaseOK(y, Append(q, p), NoAnswer, g, c)
  <2> USE <1>AskPhase
  <2> DEFINE v == Append(q, p)
  <2>1. /\ Len(v) = Len(q) + 1 /\ Len(q) \in Nat
        /\ \A i \in 1 .. Len(q) : v[i] = q[i]
        /\ v[Len(q) + 1] = p
    BY AppendSeq, Zenon
  <2> HIDE DEF v
  <2>2. NoAnswer.result = "NONE"
    BY Zenon DEF NoAnswer
  <2>3. ASSUME y.phase \in {"PROBE", "PROBE_V2", "BEGIN"}, NEW i \in 1 .. Len(v), v[i].op \in Effective
        PROVE  v[i].stream < y.call
    <3>1. p.op \notin Effective
      BY <2>3, Zenon DEF Asked, Effective
    <3>2. i \in 1 .. Len(q) /\ v[i] = q[i]
      BY <2>1, <2>3, <3>1
    <3> QED
      BY <2>3, <3>2, Zenon DEF Ready
  <2>4. ASSUME y.phase \in {"STAGE", "V1"}, NEW i \in 1 .. Len(v), ~v[i].live, v[i].op \in Effective
        PROVE  v[i].stream < y.call
    <3>2. i \in 1 .. Len(q) /\ v[i] = q[i]
      BY <2>1, <2>4
    <3> QED
      BY <2>4, <3>2, Zenon DEF Ready
  <2> QED
    BY <2>2, <2>3, <2>4, Zenon DEF PhaseOK, Ready, v

\* Hushing a wire with no poll that is waited for adds no such poll.
<1>CountsKept.
  ASSUME NEW x, NEW u, NEW w, NEW a, WireOK(x, u, w, a), u.step # "POLL", NEW q, Kept(q, w),
         NEW k, Counts(k, w)
  PROVE  Counts(k, q) /\ k[Len(q)] = k[Len(w)]
  <2> USE <1>CountsKept
  <2>1. Len(q) = Len(w)
    BY Zenon DEF Kept
  <2>2. ASSUME NEW i \in 1 .. Len(q), Deserted(q[i]) PROVE k[i - 1] < k[i]
    <3>1. q[i].op = w[i].op /\ i \in 1 .. Len(w)
      BY Zenon DEF Kept
    <3>2. w[i].op = "UPLINK_POLL" => ~w[i].live
      BY <3>1, Zenon DEF WireOK, LiveFits, Asked
    <3>3. Deserted(w[i])
      BY <2>2, <3>1, <3>2, Zenon DEF Deserted
    <3> QED
      BY <3>1, <3>3, Zenon DEF Counts
  <2> QED
    BY <2>1, <2>2, Zenon DEF Counts

\* A step of send is none of the uplink's business.
<1>SendUplink.
  ASSUME NEW x, NEW u, NEW w, NEW a, WireOK(x, u, w, a), UplinkOK(u, w, a), u.step # "POLL",
         NEW q, Kept(q, w), NEW v, NEW e, e \in {a, NoAnswer},
         v = q \/ \E p : v = Append(q, p) /\ p.op # "UPLINK_POLL"
  PROVE  UplinkOK(u, v, e)
  <2> USE <1>SendUplink
  <2>1. "chunk" \notin DOMAIN a
    BY Zenon DEF UplinkOK, UpHeld
  <2>2. "chunk" \notin DOMAIN e
    BY <2>1 DEF NoAnswer
  <2>3. Holding(u, e) = Holding(u, a)
    BY <2>1, <2>2, Zenon DEF Holding
  <2>4. PICK k : Counts(k, w) /\ u.read + k[Len(w)] <=
           Len(u.queue) + Holding(u, a) + Len(u.delivered) + u.dropped + u.rxErrors
    BY Zenon DEF UplinkOK, UpBalanced
  <2>5. Counts(k, q) /\ k[Len(q)] = k[Len(w)]
    BY <2>4, <1>CountsKept, Zenon
  <2>6. \E m : Counts(m, v) /\ m[Len(v)] = k[Len(w)]
    <3>1. CASE v = q
      BY <2>5, <3>1, Zenon
    <3>2. CASE \E p : v = Append(q, p) /\ p.op # "UPLINK_POLL"
      <4>1. PICK p : v = Append(q, p) /\ p.op # "UPLINK_POLL"
        BY <3>2, Zenon
      <4>2. IsSeq(q)
        BY Zenon DEF Kept
      <4>3. ~Deserted(p)
        BY <4>1, Zenon DEF Deserted
      <4>4. PICK m : Counts(m, Append(q, p)) /\ m[Len(Append(q, p))] = k[Len(q)]
        BY <2>5, <4>2, <4>3, CountsAppend, Zenon
      <4>5. Counts(m, v) /\ m[Len(v)] = k[Len(w)]
        BY <2>5, <4>1, <4>4, Zenon
      <4> QED
        BY <4>5, Zenon
    <3> QED
      BY <3>1, <3>2, Zenon
  <2>7. PICK m : Counts(m, v) /\ m[Len(v)] = k[Len(w)]
    BY <2>6, Zenon
  <2>8. Counts(m, v) /\ u.read + m[Len(v)] <=
           Len(u.queue) + Holding(u, e) + Len(u.delivered) + u.dropped + u.rxErrors
    BY <2>3, <2>4, <2>7, Zenon
  <2>9. "chunk" \in DOMAIN e => u.step = "POLL" /\ Between(e.chunk, u)
    BY <2>2, Zenon
  <2> QED
    BY <2>8, <2>9, Zenon DEF UplinkOK, UpHeld, UpBalanced

\* The histories and the node under a later backend.
<1>LaterKeeps.
  ASSUME NEW x, NEW y, NEW q, NEW g, NEW c, NEW m, Later(x, y, q), x.call \in Nat, y.call \in Nat,
         HistoryOK(x, g, c), NodeOK(x, m, g, c)
  PROVE  HistoryOK(y, g, c) /\ NodeOK(y, m, g, c)
  <2> USE <1>LaterKeeps
  <2>1. y.policy = x.policy /\ x.call <= y.call /\ (InV1(y) => InV1(x))
    BY Zenon DEF Later
  <2>2. NodeOK(y, m, g, c)
    BY <2>1, Zenon DEF NodeOK, StagingOK
  <2>4. ASSUME NEW i \in 1 .. Len(g) PROVE g[i].stream <= y.call
    <3>1. g[i] \in Sent /\ g[i].stream <= x.call
      BY DEF HistoryOK
    <3>2. g[i].stream \in Nat
      BY <3>1, Zenon DEF Sent
    <3> QED
      BY <2>1, <3>1, <3>2
  <2>5. ASSUME NEW i \in 1 .. Len(c) PROVE c[i] <= y.call
    BY <2>1 DEF HistoryOK
  <2> QED
    BY <2>2, <2>4, <2>5, Zenon DEF HistoryOK

\* A step of send that asks for something keeps the invariant.
<1>AsksKeep.
  ASSUME LinkInv, NodeSame, up.step # "POLL", NEW q, NEW op, NEW k, Asks(q, op, k)
  PROVE  LinkInv'
  <2> USE <1>AsksKeep
  <2> DEFINE p == Packet(op, b'.call, k, TRUE)
  <2>1. UNCHANGED <<up, n, main, worker, line, ground, committed>>
    BY Zenon DEF NodeSame
  <2>2. /\ Kept(q, wire) /\ Later(b, b', q) /\ BackOK(b', committed)
        /\ wire' = Append(q, p) /\ answer' = NoAnswer
        /\ Asked(b'.phase, op) /\ op \in EraOps(b')
        /\ op \in {"STAGE", "WRITE"} => k = b'.acked
        /\ Ready(b', q, ground, committed)
    BY Zenon DEF Asks
  <2>3. b.call \in Nat /\ b'.call \in Nat /\ b'.phase # "IDLE" /\ b'.call # 0
    <3>1. b'.phase # "IDLE"
      BY <2>2, Zenon DEF Asked
    <3> QED
      BY <2>2, <3>1, Zenon DEF LinkInv, BackOK
  <2>4. DOMAIN p = PacketFields /\ p.op = op /\ p.stream = b'.call /\ p.acked = k /\ p.live = TRUE
    BY Zenon DEF Packet, PacketFields
  <2> HIDE DEF p
  <2>5. op \in {"STAGE", "WRITE"} => k \in Nat
    <3>1. op \in {"STAGE", "WRITE"} => b'.phase \in {"STAGE", "V1"}
      BY <2>2, Zenon DEF Asked
    <3> QED
      BY <2>2, <3>1, Zenon DEF Ready
  <2>6. PacketOK(b', p)
    <3>1. b'.call \in 0 .. b'.call
      BY <2>3
    <3> QED
      BY <2>2, <2>3, <2>4, <2>5, <3>1, Zenon DEF PacketOK
  <2>7. LiveFits(b', up, p)
    BY <2>2, <2>4, Zenon DEF LiveFits
  <2>8. WireOK(b', up, Append(q, p), NoAnswer)
    BY <2>2, <2>3, <2>6, <2>7, <1>AskWire, Zenon DEF LinkInv
  <2>9. StreamsInOrder(Append(q, p), ground, committed)
    <3>1. ASSUME Starts(p)
          PROVE  /\ Fresh(p.stream, ground, committed)
                 /\ \A i \in 1 .. Len(q) : q[i].op \in Effective => q[i].stream < p.stream
      <4>1. b'.phase \in {"BEGIN", "STAGE"} \/ (b'.phase = "V1" /\ b'.acked = 0)
        BY <2>2, <2>4, <3>1, Zenon DEF Starts, Asked
      <4> QED
        BY <2>2, <2>4, <4>1, Zenon DEF Ready
    <3>2. ASSUME p.op = "WRITE", p.acked # 0 PROVE q = <<>> /\ EndsWith(ground, p.stream, p.acked - 1)
      <4>1. b'.phase = "V1" /\ b'.acked = p.acked
        BY <2>2, <2>4, <3>2, Zenon DEF Asked
      <4> QED
        BY <2>2, <2>4, <3>2, <4>1, Zenon DEF Ready
    <3>3. StreamsInOrder(wire, ground, committed)
      BY Zenon DEF LinkInv
    <3> QED
      BY <2>2, <3>1, <3>2, <3>3, AskOrder, Zenon
  <2>10. PhaseOK(b', Append(q, p), NoAnswer, ground, committed)
    <3>1. IsSeq(q)
      BY <2>2, Zenon DEF Kept
    <3> QED
      BY <2>2, <2>4, <3>1, <1>AskPhase, Zenon
  <2>11. HistoryOK(b', ground, committed) /\ NodeOK(b', n, ground, committed)
    BY <2>2, <2>3, <1>LaterKeeps, Zenon DEF LinkInv
  <2>12. UplinkOK(up, Append(q, p), NoAnswer)
    <3>1. p.op # "UPLINK_POLL"
      BY <2>2, <2>4, Zenon DEF Asked
    <3>2. WireOK(b, up, wire, answer) /\ UplinkOK(up, wire, answer)
      BY Zenon DEF LinkInv
    <3>3. \E z : Append(q, p) = Append(q, z) /\ z.op # "UPLINK_POLL"
      BY <3>1, Zenon
    <3> QED
      BY <2>2, <3>2, <3>3, <1>SendUplink, Zenon
  <2> QED
    BY <2>1, <2>2, <2>8, <2>9, <2>10, <2>11, <2>12, Zenon DEF LinkInv

\* A step of send that stops asking keeps the invariant.
<1>StopsKeep.
  ASSUME LinkInv, NodeSame, up.step # "POLL", NEW q, Stops(q)
  PROVE  LinkInv'
  <2> USE <1>StopsKeep
  <2>1. UNCHANGED <<up, n, main, worker, line, ground, committed>>
    BY Zenon DEF NodeSame
  <2>2. /\ Kept(q, wire) /\ Later(b, b', q) /\ BackOK(b', committed)
        /\ wire' = q /\ b'.phase \in {"IDLE", "SEND"}
        /\ answer' = NoAnswer \/ (answer' = answer /\ q = wire /\ b'.phase = "IDLE")
    BY Zenon DEF Stops
  <2>3. b.call \in Nat /\ b'.call \in Nat
    BY <2>2, Zenon DEF LinkInv, BackOK
  <2>4. WireOK(b', up, q, answer')
    <3>1. IsSeq(q)
      BY <2>2, Zenon DEF Kept
    <3>2. \A i \in 1 .. Len(q) : PacketOK(b', q[i]) /\ ~q[i].live
      BY <2>2, <2>3, KeptPacket, Zenon DEF LinkInv
    <3>3. answer' # NoAnswer => q = <<>>
      BY <2>2, Zenon DEF LinkInv, WireOK
    <3> QED
      BY <2>2, <3>1, <3>2, <3>3, Zenon DEF WireOK
  <2>5. StreamsInOrder(q, ground, committed)
    <3>1. Len(q) = Len(wire) /\ \A i \in 1 .. Len(wire) :
            /\ q[i].op = wire[i].op /\ q[i].stream = wire[i].stream /\ q[i].acked = wire[i].acked
            /\ Starts(q[i]) <=> Starts(wire[i])
      BY <2>2, Zenon DEF Kept, Starts
    <3>2. StreamsInOrder(wire, ground, committed)
      BY Zenon DEF LinkInv
    <3> QED
      BY <3>1, <3>2, Zenon DEF StreamsInOrder
  <2>6. PhaseOK(b', q, answer', ground, committed)
    BY <2>2, Zenon DEF PhaseOK
  <2>7. HistoryOK(b', ground, committed) /\ NodeOK(b', n, ground, committed)
    BY <2>2, <2>3, <1>LaterKeeps, Zenon DEF LinkInv
  <2>8. UplinkOK(up, q, answer')
    <3>1. WireOK(b, up, wire, answer) /\ UplinkOK(up, wire, answer)
      BY Zenon DEF LinkInv
    <3> QED
      BY <2>2, <3>1, <1>SendUplink, Zenon
  <2> QED
    BY <2>1, <2>2, <2>4, <2>5, <2>6, <2>7, <2>8, Zenon DEF LinkInv

\* So does a data frame, for which no answer is expected.
<1>DataKeeps.
  ASSUME LinkInv, NodeSame, up.step # "POLL", SendsData
  PROVE  LinkInv'
  <2> USE <1>DataKeeps
  <2>1. UNCHANGED <<up, n, main, worker, line, ground, committed>>
    BY Zenon DEF NodeSame
  <2>2. PICK k : wire' = Append(wire, Packet("DATA", b'.call, k, FALSE))
    BY Zenon DEF SendsData
  <2> DEFINE p == Packet("DATA", b'.call, k, FALSE)
  <2>3. wire' = Append(wire, p)
    BY <2>2, Zenon
  <2>4. /\ b.phase = "SEND" /\ b'.phase = "SEND" /\ Later(b, b', wire)
        /\ BackOK(b', committed) /\ "DATA" \in EraOps(b') /\ answer' = answer
    BY Zenon DEF SendsData
  <2>5. b.call \in Nat /\ b'.call \in Nat /\ b'.call # 0
    BY <2>4, Zenon DEF LinkInv, BackOK
  <2>6. DOMAIN p = PacketFields /\ p.op = "DATA" /\ p.stream = b'.call /\ p.live = FALSE
    BY Zenon DEF Packet, PacketFields
  <2> HIDE DEF p
  <2>7. WireOK(b, up, wire, answer) /\ UplinkOK(up, wire, answer) /\ StreamsInOrder(wire, ground, committed)
    BY Zenon DEF LinkInv
  <2>8. answer = NoAnswer
    BY <2>4, <2>7, Zenon DEF WireOK
  <2>9. Kept(wire, wire)
    BY <2>4, <2>7, QuietKept, Zenon
  <2>10. PacketOK(b', p)
    <3>1. b'.call \in 0 .. b'.call
      BY <2>5
    <3> QED
      BY <2>4, <2>5, <2>6, <3>1, Zenon DEF PacketOK
  <2>11. WireOK(b', up, Append(wire, p), NoAnswer)
    BY <2>4, <2>5, <2>6, <2>7, <2>9, <2>10, <1>AskWire, Zenon
  <2>12. StreamsInOrder(Append(wire, p), ground, committed)
    <3>1. ~Starts(p) /\ p.op # "WRITE"
      BY <2>6, Zenon DEF Starts
    <3> QED
      BY <2>7, <2>9, <3>1, AskOrder, Zenon
  <2>13. PhaseOK(b', Append(wire, p), answer', ground, committed)
    BY <2>4, Zenon DEF PhaseOK
  <2>14. HistoryOK(b', ground, committed) /\ NodeOK(b', n, ground, committed)
    BY <2>4, <2>5, <1>LaterKeeps, Zenon DEF LinkInv
  <2>15. UplinkOK(up, Append(wire, p), NoAnswer)
    <3>1. \E z : Append(wire, p) = Append(wire, z) /\ z.op # "UPLINK_POLL"
      BY <2>6, Zenon
    <3> QED
      BY <2>7, <2>9, <3>1, <1>SendUplink, Zenon
  <2> QED
    BY <2>1, <2>3, <2>4, <2>8, <2>11, <2>12, <2>13, <2>14, <2>15, Zenon DEF LinkInv

\* The era depends on the policy and the probe alone.
<1>EraSame.
  ASSUME NEW x, NEW y, y.policy = x.policy, y.v3 = x.v3
  PROVE  EraOps(y) = EraOps(x) /\ EraPhases(y) = EraPhases(x) /\ (InV1(y) <=> InV1(x))
    BY <1>EraSame, Zenon DEF EraOps, EraPhases, InV1

\* Such a step is one of a legal backend.
<1>TurnOK.
  ASSUME LinkInv, b.phase # "IDLE", NEW phase, Turn(b', phase), phase \in EraPhases(b),
         phase # "IDLE" => b'.result # "OK",
         phase = "IDLE" /\ b'.result = "OK" /\ ~InV1(b) => InSeq(b.call, committed)
  PROVE  /\ BackOK(b', committed) /\ EraOps(b') = EraOps(b)
         /\ \A q : Later(b, b', q)
         /\ b'.phase = phase /\ b'.call = b.call
  <2> USE <1>TurnOK
  <2>1. EraOps(b') = EraOps(b) /\ EraPhases(b') = EraPhases(b) /\ (InV1(b') <=> InV1(b))
    BY <1>EraSame, Zenon DEF Turn
  <2>2. BackOK(b', committed)
    BY <2>1, Zenon DEF LinkInv, BackOK, Turn
  <2>3. b.call <= b'.call
    BY DEF Turn, LinkInv, BackOK
  <2> QED
    BY <2>1, <2>2, <2>3, Zenon DEF Later, Turn

\* The phases that need nothing of the wire.
<1>ReadyAnyway.
  ASSUME NEW y, y.phase \in {"ACK", "COMMIT", "ABORT"}, NEW q, NEW g, NEW c
  PROVE  Ready(y, q, g, c)
    BY <1>ReadyAnyway, Zenon DEF Ready

\* The wire of an abandoned request carries the same effects.
<1>KeptEffective.
  ASSUME NEW q, NEW w, Kept(q, w), NEW t,
         \A i \in 1 .. Len(w) : w[i].op \in Effective => w[i].stream < t
  PROVE  \A i \in 1 .. Len(q) : q[i].op \in Effective => q[i].stream < t
    BY <1>KeptEffective, Zenon DEF Kept

\* The next send is newer than everything.
<1>NextIsFresh.
  ASSUME LinkInv
  PROVE  /\ Fresh(b.call + 1, ground, committed)
         /\ \A i \in 1 .. Len(wire) : wire[i].op \in Effective => wire[i].stream < b.call + 1
  <2> USE <1>NextIsFresh
  <2>1. ground \in Seq(Sent) /\ committed \in Seq(Nat) /\ b.call \in Nat
    BY Zenon DEF LinkInv, HistoryOK, BackOK
  <2>2. \A i \in 1 .. Len(ground) : ground[i].stream \in Nat /\ ground[i].stream <= b.call
    <3>1. \A i \in 1 .. Len(ground) : ground[i] \in Sent /\ ground[i].stream <= b.call
      BY <2>1 DEF LinkInv, HistoryOK
    <3> QED
      BY <3>1, Zenon DEF Sent
  <2>3. \A i \in 1 .. Len(committed) : committed[i] \in Nat /\ committed[i] <= b.call
    BY DEF LinkInv, HistoryOK
  <2>4. \A i \in 1 .. Len(wire) : wire[i].stream \in 0 .. b.call
    BY Zenon DEF LinkInv, WireOK, PacketOK
  <2> QED
    BY <2>1, <2>2, <2>3, <2>4 DEF Fresh

\* What a new send sets.
<1>StartEffect.
  ASSUME LinkInv, NEW phase, NEW y, y = Start(phase)
  PROVE  /\ DOMAIN y = BackFields /\ y.phase = phase /\ y.call = b.call + 1 /\ y.acked = 0
         /\ y.result = "NONE" /\ y.sends = b.sends /\ y.policy = b.policy /\ y.v3 = b.v3
  <2> USE <1>StartEffect
  <2>1. DOMAIN b = BackFields
    BY AtOutset, Zenon
  <2> QED
    BY <2>1, Zenon DEF Start, BackFields

\* A new send is one of a legal backend.
<1>StartOK.
  ASSUME LinkInv, b.call < b.sends, NEW phase, phase \in EraPhases(b),
         DOMAIN b' = BackFields, b'.phase = phase, b'.call = b.call + 1,
         b'.result # "OK", b'.sends = b.sends, b'.policy = b.policy, b'.v3 = b.v3
  PROVE  /\ BackOK(b', committed) /\ EraOps(b') = EraOps(b)
         /\ \A q : Later(b, b', q)
  <2> USE <1>StartOK
  <2>1. EraOps(b') = EraOps(b) /\ EraPhases(b') = EraPhases(b) /\ (InV1(b') <=> InV1(b))
    BY <1>EraSame, Zenon
  <2>2. /\ b.call \in Nat /\ b.sends \in 0 .. Len(FramesOf)
        /\ b.policy \in {"V3", "V2_ONLY"} /\ b.v3 \in BOOLEAN /\ (InV1(b) => committed = <<>>)
    BY Zenon DEF LinkInv, BackOK
  <2>3. b'.call \in Nat /\ b'.call <= b'.sends /\ b'.call # 0 /\ b.call <= b'.call
    BY <2>2
  <2>4. BackOK(b', committed)
    BY <2>1, <2>2, <2>3, Zenon DEF BackOK
  <2> QED
    BY <2>1, <2>3, <2>4, Zenon DEF Later

\* StartWith is a request.
<1>StartAsks.
  ASSUME LinkInv, NodeSame, b.phase = "IDLE", up.step # "POLL", b.call < b.sends,
         NEW phase \in {"PROBE", "PROBE_V2", "BEGIN", "STAGE"}, NEW op, StartWith(phase, op),
         phase \in EraPhases(b), Asked(phase, op), op \in EraOps(b)
  PROVE  LinkInv'
  <2> USE <1>StartAsks
  <2>1. /\ b' = Start(phase) /\ answer' = NoAnswer
        /\ wire' = Append(wire, Packet(op, b.call + 1, 0, TRUE))
    BY Zenon DEF StartWith, Packet
  <2>2. /\ DOMAIN b' = BackFields /\ b'.phase = phase /\ b'.call = b.call + 1 /\ b'.acked = 0
        /\ b'.result = "NONE" /\ b'.sends = b.sends /\ b'.policy = b.policy /\ b'.v3 = b.v3
    BY <2>1, <1>StartEffect, Zenon
  <2>3. /\ BackOK(b', committed) /\ EraOps(b') = EraOps(b)
        /\ \A q : Later(b, b', q)
    BY <2>2, <1>StartOK, Zenon
  <2>4. Kept(wire, wire)
    BY AtOutset, QuietKept, Zenon
  <2>5. Ready(b', wire, ground, committed)
    BY <2>2, <1>NextIsFresh DEF Ready
  <2>6. Asks(wire, op, 0)
    BY <2>1, <2>2, <2>3, <2>4, <2>5, Zenon DEF Asks
  <2> QED
    BY <2>6, <1>AsksKeep, Zenon

\* StartFails stops at once.
<1>StartStops.
  ASSUME LinkInv, NodeSame, b.phase = "IDLE", up.step # "POLL", b.call < b.sends,
         NEW result, result # "OK", StartFails(result)
  PROVE  LinkInv'
  <2> USE <1>StartStops
  <2> DEFINE y == Start("IDLE")
  <2>1. b' = [y EXCEPT !.result = result] /\ wire' = wire /\ answer' = answer
    BY Zenon DEF StartFails
  <2>2. /\ DOMAIN y = BackFields /\ y.phase = "IDLE" /\ y.call = b.call + 1 /\ y.acked = 0
        /\ y.result = "NONE" /\ y.sends = b.sends /\ y.policy = b.policy /\ y.v3 = b.v3
    BY <1>StartEffect, Zenon
  <2> HIDE DEF y
  <2>3. /\ DOMAIN b' = BackFields /\ b'.phase = "IDLE" /\ b'.call = b.call + 1
        /\ b'.result = result /\ b'.sends = b.sends /\ b'.policy = b.policy /\ b'.v3 = b.v3
    BY <2>1, <2>2, Zenon DEF BackFields
  <2>4. "IDLE" \in EraPhases(b)
    BY Zenon DEF EraPhases
  <2>5. BackOK(b', committed) /\ \A q : Later(b, b', q)
    BY <2>3, <2>4, <1>StartOK, Zenon
  <2>6. Kept(wire, wire)
    BY AtOutset, QuietKept, Zenon
  <2>7. Stops(wire)
    BY <2>1, <2>3, <2>5, <2>6, Zenon DEF Stops
  <2> QED
    BY <2>7, <1>StopsKeep, Zenon

<1>StartSendKeeps.
  ASSUME LinkInv, StartSend
  PROVE  LinkInv'
  <2> USE <1>StartSendKeeps
  <2>1. /\ b.phase = "IDLE" /\ b.policy = "V3" /\ b.call < b.sends /\ up.step # "POLL"
        /\ NodeSame
    BY Zenon DEF StartSend
  <2>2. CASE b.v3 /\ StartFails("ERROR")
    BY <2>1, <2>2, <1>StartStops, Zenon
  <2>3. CASE b.v3 /\ StartWith("BEGIN", "BEGIN")
    <3>1. "BEGIN" \in EraPhases(b) /\ "BEGIN" \in EraOps(b) /\ Asked("BEGIN", "BEGIN")
      BY <2>1, <2>3, Zenon DEF EraPhases, EraOps, Asked
    <3> QED
      BY <2>1, <2>3, <3>1, <1>StartAsks, Zenon
  <2>4. CASE ~b.v3 /\ StartWith("PROBE", "STATUS")
    <3>1. "PROBE" \in EraPhases(b) /\ "STATUS" \in EraOps(b) /\ Asked("PROBE", "STATUS")
      BY <2>1, <2>4, Zenon DEF EraPhases, EraOps, Asked
    <3> QED
      BY <2>1, <2>4, <3>1, <1>StartAsks, Zenon
  <2> QED
    BY <2>2, <2>3, <2>4, Zenon DEF StartSend

<1>StartSendV2Keeps.
  ASSUME LinkInv, StartSendV2
  PROVE  LinkInv'
  <2> USE <1>StartSendV2Keeps
  <2>1. /\ b.phase = "IDLE" /\ b.policy = "V2_ONLY" /\ b.call < b.sends /\ up.step # "POLL"
        /\ NodeSame
    BY Zenon DEF StartSendV2
  <2>2. CASE StartFails("RETRY")
    BY <2>1, <2>2, <1>StartStops, Zenon
  <2>3. CASE StartWith("STAGE", "STAGE")
    <3>1. "STAGE" \in EraPhases(b) /\ "STAGE" \in EraOps(b) /\ Asked("STAGE", "STAGE")
      BY <2>1, Zenon DEF EraPhases, EraOps, Asked
    <3> QED
      BY <2>1, <2>3, <3>1, <1>StartAsks, Zenon
  <2>4. CASE StartWith("PROBE_V2", "STATUS_V2")
    <3>1. "PROBE_V2" \in EraPhases(b) /\ "STATUS_V2" \in EraOps(b) /\ Asked("PROBE_V2", "STATUS_V2")
      BY <2>1, Zenon DEF EraPhases, EraOps, Asked
    <3> QED
      BY <2>1, <2>4, <3>1, <1>StartAsks, Zenon
  <2> QED
    BY <2>2, <2>3, <2>4, Zenon DEF StartSendV2

\* A request in another phase of the send.
<1>TurnAsks.
  ASSUME LinkInv, NodeSame, b.phase # "IDLE", NEW phase, Turn(b', phase),
         phase \in EraPhases(b), b'.result # "OK", NEW q, Kept(q, wire), NEW op, NEW k,
         wire' = Append(q, Packet(op, b.call, k, TRUE)), answer' = NoAnswer,
         Asked(phase, op), op \in EraOps(b), op \in {"STAGE", "WRITE"} => k = b'.acked,
         Ready(b', q, ground, committed)
  PROVE  LinkInv'
  <2> USE <1>TurnAsks
  <2>2. /\ BackOK(b', committed) /\ EraOps(b') = EraOps(b)
        /\ Later(b, b', q) /\ b'.phase = phase /\ b'.call = b.call
    BY <1>TurnOK, Zenon
  <2>3. Asks(q, op, k)
    BY <2>2, Zenon DEF Asks
  <2>4. up.step # "POLL"
    BY AtOutset, Zenon
  <2> QED
    BY <2>3, <2>4, <1>AsksKeep, Zenon

\* The end of the send, or the next window of frames.
<1>TurnStops.
  ASSUME LinkInv, NodeSame, b.phase # "IDLE", NEW phase \in {"IDLE", "SEND"}, Turn(b', phase),
         phase \in EraPhases(b), phase = "SEND" => b'.result # "OK",
         phase = "IDLE" /\ b'.result = "OK" /\ ~InV1(b) => InSeq(b.call, committed),
         Kept(wire', wire), answer' = NoAnswer
  PROVE  LinkInv'
  <2> USE <1>TurnStops
  <2>1. /\ BackOK(b', committed) /\ Later(b, b', wire') /\ b'.phase = phase
    BY <1>TurnOK, Zenon
  <2>2. Stops(wire')
    BY <2>1, Zenon DEF Stops
  <2>3. up.step # "POLL"
    BY AtOutset, Zenon
  <2> QED
    BY <2>2, <2>3, <1>StopsKeep, Zenon

\* Return(result) for a result that claims nothing.
<1>ReturnStops.
  ASSUME LinkInv, NodeSame, b.phase # "IDLE", NEW result, Return(result),
         result = "OK" /\ ~InV1(b) => InSeq(b.call, committed),
         Kept(wire', wire), answer' = NoAnswer
  PROVE  LinkInv'
  <2> USE <1>ReturnStops
  <2>1. b' = [b EXCEPT !.phase = "IDLE", !.result = result]
    BY Zenon DEF Return
  <2>2. DOMAIN b = BackFields
    BY AtOutset, Zenon
  <2>3. Turn(b', "IDLE") /\ b'.result = result
    BY <2>1, <2>2, Zenon DEF Turn, BackFields
  <2>4. "IDLE" \in EraPhases(b)
    BY Zenon DEF EraPhases
  <2> QED
    BY <2>3, <2>4, <1>TurnStops, Zenon

<1>ProbedV2Keeps.
  ASSUME LinkInv, ProbedV2
  PROVE  LinkInv'
  <2> USE <1>ProbedV2Keeps
  <2>1. /\ b.phase = "PROBE_V2" /\ answer # NoAnswer /\ NodeSame
        /\ b' = [b EXCEPT !.v2 = "ENABLED", !.phase = "STAGE"]
        /\ wire' = Append(wire, Packet("STAGE", b.call, b'.acked, TRUE)) /\ answer' = NoAnswer
    BY Zenon DEF ProbedV2, Ask, Request, Packet
  <2>2. DOMAIN b = BackFields /\ b.result # "OK" /\ b.phase \in EraPhases(b)
    BY <2>1, AtOutset, Zenon
  <2>3. Turn(b', "STAGE") /\ b'.result = b.result /\ b'.acked = b.acked
    BY <2>1, <2>2, Zenon DEF Turn, BackFields
  <2>4. "STAGE" \in EraPhases(b) /\ "STAGE" \in EraOps(b) /\ Asked("STAGE", "STAGE")
    BY <2>1, <2>2, Zenon DEF EraPhases, EraOps, Asked
  <2>5. Kept(wire, wire)
    BY <2>1, WireKept, Zenon
  <2>6. PhaseOK(b, wire, answer, ground, committed)
    BY AtOutset, Zenon
  <2>7. Ready(b', wire, ground, committed)
    BY <2>1, <2>6 DEF Ready, PhaseOK
  <2> QED
    BY <2>1, <2>2, <2>3, <2>4, <2>5, <2>7, <1>TurnAsks, Zenon

<1>ProbeTimeoutV2Keeps.
  ASSUME LinkInv, ProbeTimeoutV2
  PROVE  LinkInv'
  <2> USE <1>ProbeTimeoutV2Keeps
  <2>1. /\ b.phase = "PROBE_V2" /\ answer' = NoAnswer /\ NodeSame
        /\ wire' = Abandoned(wire)
        /\ b' = [b EXCEPT !.phase = "IDLE", !.result = "RETRY", !.probes = @ + 1,
                      !.v2 = IF b.probes + 1 >= ProbeLimit THEN "REFUSED" ELSE @]
    BY Zenon DEF ProbeTimeoutV2
  <2>2. DOMAIN b = BackFields
    BY AtOutset, Zenon
  <2>3. Turn(b', "IDLE") /\ b'.result = "RETRY"
    BY <2>1, <2>2, Zenon DEF Turn, BackFields
  <2>4. "IDLE" \in EraPhases(b)
    BY Zenon DEF EraPhases
  <2> QED
    BY <2>1, <2>3, <2>4, WireKept, <1>TurnStops, Zenon

\* Giving up a V2 stream, with or without an abort.
<1>GiveUpKeeps.
  ASSUME LinkInv, NodeSame, b.phase = "STAGE", NEW act, NEW result \in {"RETRY", "ERROR"},
         NEW q, Kept(q, wire), GiveUpV2(act, result, q)
  PROVE  LinkInv'
  <2> USE <1>GiveUpKeeps
  <2>1. DOMAIN b = BackFields /\ b.phase \in EraPhases(b)
    BY AtOutset, Zenon
  <2>2. CASE /\ b' = [b EXCEPT !.phase = "ABORT", !.active = TRUE, !.result = result]
             /\ wire' = Append(q, Packet("ABORT_V2", b.call, 0, TRUE)) /\ answer' = NoAnswer
    <3>1. Turn(b', "ABORT") /\ b'.result = result
      BY <2>1, <2>2, Zenon DEF Turn, BackFields
    <3>2. "ABORT" \in EraPhases(b) /\ "ABORT_V2" \in EraOps(b) /\ Asked("ABORT", "ABORT_V2")
      BY <2>1, Zenon DEF EraPhases, EraOps, Asked
    <3>3. Ready(b', q, ground, committed)
      BY <3>1, <1>ReadyAnyway DEF Turn
    <3> QED
      BY <2>2, <3>1, <3>2, <3>3, <1>TurnAsks, Zenon
  <2>3. CASE Return(result) /\ wire' = q /\ answer' = NoAnswer
    BY <2>3, <1>ReturnStops, Zenon
  <2> QED
    BY <2>2, <2>3, Zenon DEF GiveUpV2, Packet

\* The next frame of a V2 stream, or the last one again: the stream is fresh.
<1>StageAgain.
  ASSUME LinkInv, NodeSame, b.phase = "STAGE", answer # NoAnswer,
         answer.result # "OK" \/ ~IsLast(b.call, b.acked),
         Turn(b', "STAGE"), b'.result = b.result,
         b'.acked = b.acked \/ b'.acked = b.acked + 1, Ask("STAGE")
  PROVE  LinkInv'
  <2> USE <1>StageAgain
  <2>1. wire' = Append(wire, Packet("STAGE", b.call, b'.acked, TRUE)) /\ answer' = NoAnswer
    BY Zenon DEF Ask, Request, Packet
  <2>2. b.phase \in EraPhases(b) /\ b.result # "OK" /\ PhaseOK(b, wire, answer, ground, committed)
    BY AtOutset, Zenon
  <2>3. "STAGE" \in EraPhases(b) /\ "STAGE" \in EraOps(b) /\ Asked("STAGE", "STAGE")
    BY <2>2, Zenon DEF EraPhases, EraOps, Asked
  <2>4. Kept(wire, wire) /\ Len(wire) = 0
    BY WireKept, Zenon
  <2>5. Fresh(b.call, ground, committed) /\ b.acked \in Nat
    BY <2>2, Zenon DEF PhaseOK
  <2>7. Ready(b', wire, ground, committed)
    BY <2>4, <2>5 DEF Ready, Turn
  <2> QED
    BY <2>1, <2>2, <2>3, <2>4, <2>7, <1>TurnAsks, Zenon

<1>StageAnsweredKeeps.
  ASSUME LinkInv, StageAnswered
  PROVE  LinkInv'
  <2> USE <1>StageAnsweredKeeps
  <2> DEFINE last == IsLast(b.call, b.acked)
  <2> HIDE DEF last
  <2>1. b.phase = "STAGE" /\ answer # NoAnswer /\ NodeSame
    BY Zenon DEF StageAnswered
  <2>2. DOMAIN b = BackFields /\ PhaseOK(b, wire, answer, ground, committed)
    BY AtOutset, Zenon
  <2>3. Kept(wire, wire)
    BY <2>1, WireKept, Zenon
  <2>4. CASE answer.result = "OK" /\ ~last /\ b' = [b EXCEPT !.acked = @ + 1, !.active = TRUE] /\ Ask("STAGE")
    <3>1. Turn(b', "STAGE") /\ b'.result = b.result /\ b'.acked = b.acked + 1
      BY <2>1, <2>2, <2>4, Zenon DEF Turn, BackFields
    <3> QED
      BY <2>1, <2>4, <3>1, <1>StageAgain, Zenon DEF last
  <2>5. CASE answer.result = "OK" /\ last /\ Return("OK") /\ answer' = NoAnswer /\ wire' = wire
    <3>1. InSeq(b.call, committed)
      BY <2>1, <2>2, <2>5, Zenon DEF PhaseOK, last
    <3> QED
      BY <2>1, <2>3, <2>5, <3>1, <1>ReturnStops, Zenon
  <2>6. CASE answer.result = "NO_CREDIT" /\ b' = [b EXCEPT !.active = TRUE] /\ Ask("STAGE")
    <3>1. Turn(b', "STAGE") /\ b'.result = b.result /\ b'.acked = b.acked
      BY <2>1, <2>2, <2>6, Zenon DEF Turn, BackFields
    <3> QED
      BY <2>1, <2>6, <3>1, <1>StageAgain, Zenon
  <2>7. CASE GiveUpV2(TRUE, "RETRY", wire)
    <3> DEFINE t == TRUE
    <3>1. GiveUpV2(t, "RETRY", wire)
      BY <2>7, Zenon
    <3> HIDE DEF t
    <3> QED
      BY <2>1, <2>3, <3>1, <1>GiveUpKeeps, Zenon
  <2>8. CASE GiveUpV2(b.active, IF answer.connected THEN "ERROR" ELSE "RETRY", wire)
    <3> DEFINE e == IF answer.connected THEN "ERROR" ELSE "RETRY"
    <3>1. e \in {"RETRY", "ERROR"} /\ GiveUpV2(b.active, e, wire)
      BY <2>8, Zenon
    <3> HIDE DEF e
    <3> QED
      BY <2>1, <2>3, <3>1, <1>GiveUpKeeps, Zenon
  <2> QED
    BY <2>4, <2>5, <2>6, <2>7, <2>8, Zenon DEF StageAnswered, last

<1>StageTimeoutKeeps.
  ASSUME LinkInv, StageTimeout
  PROVE  LinkInv'
  <2> USE <1>StageTimeoutKeeps
  <2> DEFINE q == Abandoned(wire)
  <2>1. Kept(q, wire)
    BY WireKept, Zenon
  <2>2. b.phase = "STAGE" /\ NodeSame /\ GiveUpV2(b.active, "RETRY", q)
    BY Zenon DEF StageTimeout
  <2> HIDE DEF q
  <2> QED
    BY <2>1, <2>2, <1>GiveUpKeeps, Zenon

\* The answered probe turns the backend to V3; nothing of V1 is left on the wire.
<1>ProbedKeeps.
  ASSUME LinkInv, Probed
  PROVE  LinkInv'
  <2> USE <1>ProbedKeeps
  <2>1. b.phase = "PROBE" /\ answer # NoAnswer /\ NodeSame
    BY Zenon DEF Probed
  <2>2. /\ DOMAIN b = BackFields /\ b.result # "OK" /\ b.phase \in EraPhases(b)
        /\ PhaseOK(b, wire, answer, ground, committed) /\ up.step # "POLL" /\ b.call \in Nat
    BY <2>1, AtOutset, Zenon
  <2>3. b.policy = "V3" /\ b.sends \in 0 .. Len(FramesOf) /\ b.call <= b.sends /\ b.call # 0
    BY <2>1, Zenon DEF LinkInv, BackOK, EraPhases
  <2>4. Kept(wire, wire) /\ wire = <<>> /\ Len(wire) = 0
    BY <2>1, WireKept, Zenon
  <2>5. ASSUME DOMAIN b' = BackFields, b'.v3 = TRUE, b'.policy = b.policy, b'.call = b.call,
               b'.sends = b.sends, b'.phase \in {"BEGIN", "IDLE"}, b'.result # "OK"
        PROVE  BackOK(b', committed) /\ Later(b, b', wire)
    <3>1. b'.phase \in EraPhases(b') /\ ~InV1(b')
      BY <2>3, <2>5, Zenon DEF EraPhases, InV1
    <3>2. BackOK(b', committed)
      BY <2>2, <2>3, <2>5, <3>1, Zenon DEF BackOK
    <3>3. b.call <= b'.call
      BY <2>2, <2>5
    <3> QED
      BY <2>4, <2>5, <3>1, <3>2, <3>3, Zenon DEF Later
  <2>6. CASE b' = [b EXCEPT !.v3 = TRUE, !.phase = "BEGIN"] /\ Ask("BEGIN")
    <3>1. /\ DOMAIN b' = BackFields /\ b'.v3 = TRUE /\ b'.policy = b.policy
          /\ b'.call = b.call /\ b'.sends = b.sends /\ b'.phase = "BEGIN"
          /\ b'.result = b.result
      BY <2>2, <2>6, Zenon DEF BackFields
    <3>2. BackOK(b', committed) /\ Later(b, b', wire)
      BY <2>2, <2>5, <3>1, Zenon
    <3>3. wire' = Append(wire, Packet("BEGIN", b'.call, b'.acked, TRUE)) /\ answer' = NoAnswer
      BY <2>6, <3>1, Zenon DEF Ask, Request, Packet
    <3>4. "BEGIN" \in EraOps(b') /\ Asked(b'.phase, "BEGIN")
      BY <2>3, <3>1, Zenon DEF EraOps, Asked
    <3>5. Ready(b', wire, ground, committed)
      BY <2>1, <2>2, <3>1, Zenon DEF Ready, PhaseOK
    <3>6. Asks(wire, "BEGIN", b'.acked)
      BY <2>4, <3>2, <3>3, <3>4, <3>5, Zenon DEF Asks
    <3> QED
      BY <2>1, <2>2, <3>6, <1>AsksKeep, Zenon
  <2>7. CASE /\ b' = [b EXCEPT !.v3 = TRUE, !.phase = "IDLE", !.result = "ERROR"]
             /\ answer' = NoAnswer /\ wire' = wire
    <3>1. /\ DOMAIN b' = BackFields /\ b'.v3 = TRUE /\ b'.policy = b.policy
          /\ b'.call = b.call /\ b'.sends = b.sends /\ b'.phase = "IDLE"
          /\ b'.result = "ERROR"
      BY <2>2, <2>7, Zenon DEF BackFields
    <3>2. BackOK(b', committed) /\ Later(b, b', wire)
      BY <2>5, <3>1, Zenon
    <3>3. Stops(wire)
      BY <2>4, <2>7, <3>1, <3>2, Zenon DEF Stops
    <3> QED
      BY <2>1, <2>2, <3>3, <1>StopsKeep, Zenon
  <2> QED
    BY <2>6, <2>7, Zenon DEF Probed

\* A request repeated after a time-out, in the same or another phase.
<1>AgainAsks.
  ASSUME LinkInv, NodeSame, b.phase # "IDLE", NEW phase, Turn(b', phase),
         phase \in EraPhases(b), b'.result # "OK", NEW op, AskAgain(op),
         Asked(phase, op), op \in EraOps(b), Ready(b', Abandoned(wire), ground, committed)
  PROVE  LinkInv'
  <2> USE <1>AgainAsks
  <2> DEFINE q == Abandoned(wire)
  <2>1. wire' = Append(q, Packet(op, b.call, b'.acked, TRUE)) /\ answer' = NoAnswer
    BY Zenon DEF AskAgain, Packet
  <2>2. Kept(q, wire)
    BY WireKept, Zenon
  <2> HIDE DEF q
  <2>3. Ready(b', q, ground, committed)
    BY Zenon DEF q
  <2> QED
    BY <2>1, <2>2, <2>3, <1>TurnAsks, Zenon

\* A request in a phase that needs nothing of the wire.
<1>AskAnyway.
  ASSUME LinkInv, NodeSame, b.phase # "IDLE", NEW phase \in {"ACK", "COMMIT", "ABORT"}, Turn(b', phase),
         phase \in EraPhases(b), b'.result # "OK", NEW op, Asked(phase, op), op \in EraOps(b),
         AskAgain(op) \/ (Ask(op) /\ Kept(wire, wire))
  PROVE  LinkInv'
  <2> USE <1>AskAnyway
  <2>1. \A q : Ready(b', q, ground, committed)
    BY <1>ReadyAnyway DEF Turn
  <2>2. CASE AskAgain(op)
    BY <2>1, <2>2, <1>AgainAsks, Zenon
  <2>3. CASE Ask(op) /\ Kept(wire, wire)
    <3>1. wire' = Append(wire, Packet(op, b.call, b'.acked, TRUE)) /\ answer' = NoAnswer
      BY <2>3, Zenon DEF Ask, Request, Packet
    <3>3. Ready(b', wire, ground, committed)
      BY <2>1, Zenon
    <3> QED
      BY <2>3, <3>1, <3>3, <1>TurnAsks, Zenon
  <2> QED
    BY <2>2, <2>3, Zenon

<1>ProbeTimeoutKeeps.
  ASSUME LinkInv, ProbeTimeout
  PROVE  LinkInv'
  <2> USE <1>ProbeTimeoutKeeps
  <2>1. b.phase = "PROBE" /\ NodeSame
    BY Zenon DEF ProbeTimeout
  <2>2. /\ DOMAIN b = BackFields /\ b.result # "OK" /\ b.phase \in EraPhases(b)
        /\ PhaseOK(b, wire, answer, ground, committed)
    BY <2>1, AtOutset, Zenon
  <2> DEFINE q == Abandoned(wire)
  <2>3. Kept(q, wire)
    BY WireKept, Zenon
  <2> HIDE DEF q
  <2>4. /\ Fresh(b.call, ground, committed) /\ b.acked = 0
        /\ \A i \in 1 .. Len(wire) : wire[i].op \in Effective => wire[i].stream < b.call
    BY <2>1, <2>2, Zenon DEF PhaseOK
  <2>5. \A i \in 1 .. Len(q) : q[i].op \in Effective => q[i].stream < b.call
    BY <2>3, <2>4, <1>KeptEffective, Zenon
  <2>6. /\ "PROBE" \in EraPhases(b) /\ "STATUS" \in EraOps(b) /\ Asked("PROBE", "STATUS")
        /\ "V1" \in EraPhases(b) /\ "WRITE" \in EraOps(b) /\ Asked("V1", "WRITE")
    BY <2>1, <2>2, Zenon DEF EraPhases, EraOps, Asked
  <2>7. CASE b' = b /\ AskAgain("STATUS")
    <3>1. Turn(b', "PROBE") /\ b'.result = b.result
      BY <2>1, <2>2, <2>7, Zenon DEF Turn
    <3>2. Ready(b', q, ground, committed)
      BY <2>1, <2>4, <2>5, <2>7, Zenon DEF Ready
    <3> QED
      BY <2>1, <2>2, <2>6, <2>7, <3>1, <3>2, <1>AgainAsks, Zenon DEF q
  <2>8. CASE b' = [b EXCEPT !.phase = "V1"] /\ AskAgain("WRITE")
    <3>1. Turn(b', "V1") /\ b'.result = b.result /\ b'.acked = b.acked
      BY <2>2, <2>8, Zenon DEF Turn, BackFields
    <3>2. Ready(b', q, ground, committed)
      BY <2>4, <2>5, <3>1 DEF Ready, Turn
    <3> QED
      BY <2>1, <2>2, <2>6, <2>8, <3>1, <3>2, <1>AgainAsks, Zenon DEF q
  <2> QED
    BY <2>7, <2>8, Zenon DEF ProbeTimeout

<1>WrittenKeeps.
  ASSUME LinkInv, Written
  PROVE  LinkInv'
  <2> USE <1>WrittenKeeps
  <2>1. b.phase = "V1" /\ answer # NoAnswer /\ NodeSame
    BY Zenon DEF Written
  <2>2. /\ DOMAIN b = BackFields /\ b.result # "OK" /\ b.phase \in EraPhases(b)
        /\ PhaseOK(b, wire, answer, ground, committed)
    BY <2>1, AtOutset, Zenon
  <2>3. Kept(wire, wire) /\ wire = <<>> /\ Len(wire) = 0
    BY <2>1, WireKept, Zenon
  <2>4. InV1(b) /\ "V1" \in EraPhases(b) /\ "WRITE" \in EraOps(b) /\ Asked("V1", "WRITE")
    <3>1. b.policy \in {"V3", "V2_ONLY"}
      BY Zenon DEF LinkInv, BackOK
    <3> QED
      BY <2>1, <2>2, <3>1, Zenon DEF EraPhases, EraOps, Asked, InV1
  <2>5. CASE answer.result = "OK" /\ b' = [b EXCEPT !.acked = @ + 1] /\ Ask("WRITE")
    <3>1. Turn(b', "V1") /\ b'.result = b.result /\ b'.acked = b.acked + 1
      BY <2>1, <2>2, <2>5, Zenon DEF Turn, BackFields
    <3>2. EndsWith(ground, b.call, b.acked) /\ b.acked \in Nat
      BY <2>1, <2>2, <2>5, Zenon DEF PhaseOK
    <3>4. Ready(b', wire, ground, committed)
      BY <2>3, <3>1, <3>2 DEF Ready, Turn
    <3>5. wire' = Append(wire, Packet("WRITE", b.call, b'.acked, TRUE)) /\ answer' = NoAnswer
      BY <2>5, Zenon DEF Ask, Request, Packet
    <3> QED
      BY <2>1, <2>2, <2>3, <2>4, <3>1, <3>4, <3>5, <1>TurnAsks, Zenon
  <2>6. CASE Return("OK") /\ answer' = NoAnswer /\ wire' = wire
    BY <2>1, <2>3, <2>4, <2>6, <1>ReturnStops, Zenon
  <2>7. CASE Return("RETRY") /\ answer' = NoAnswer /\ wire' = wire
    BY <2>1, <2>3, <2>7, <1>ReturnStops, Zenon
  <2> QED
    BY <2>5, <2>6, <2>7, Zenon DEF Written

<1>WriteTimeoutKeeps.
  ASSUME LinkInv, WriteTimeout
  PROVE  LinkInv'
  <2> USE <1>WriteTimeoutKeeps
  <2>1. /\ b.phase = "V1" /\ NodeSame /\ Return("RETRY")
        /\ wire' = Abandoned(wire) /\ answer' = NoAnswer
    BY Zenon DEF WriteTimeout
  <2> QED
    BY <2>1, WireKept, <1>ReturnStops, Zenon

<1>BegunKeeps.
  ASSUME LinkInv, Begun
  PROVE  LinkInv'
  <2> USE <1>BegunKeeps
  <2>1. /\ b.phase = "BEGIN" /\ answer # NoAnswer /\ NodeSame
        /\ answer' = NoAnswer /\ wire' = wire
    BY Zenon DEF Begun
  <2>2. DOMAIN b = BackFields /\ b.result # "OK" /\ b.phase \in EraPhases(b)
    BY <2>1, AtOutset, Zenon
  <2>3. Kept(wire', wire)
    BY <2>1, WireKept, Zenon
  <2>4. CASE b' = [b EXCEPT !.phase = "SEND"]
    <3>1. Turn(b', "SEND") /\ b'.result = b.result
      BY <2>2, <2>4, Zenon DEF Turn, BackFields
    <3>2. "SEND" \in EraPhases(b)
      BY <2>1, <2>2, Zenon DEF EraPhases
    <3> QED
      BY <2>1, <2>2, <2>3, <3>1, <3>2, <1>TurnStops, Zenon
  <2>5. CASE Return("RETRY")
    BY <2>1, <2>3, <2>5, <1>ReturnStops, Zenon
  <2> QED
    BY <2>4, <2>5, Zenon DEF Begun

<1>BeginTimeoutKeeps.
  ASSUME LinkInv, BeginTimeout
  PROVE  LinkInv'
  <2> USE <1>BeginTimeoutKeeps
  <2>1. b.phase = "BEGIN" /\ answer = NoAnswer /\ NodeSame
    BY Zenon DEF BeginTimeout
  <2>2. /\ DOMAIN b = BackFields /\ b.result # "OK" /\ b.phase \in EraPhases(b)
        /\ PhaseOK(b, wire, answer, ground, committed)
    BY <2>1, AtOutset, Zenon
  <2>3. CASE b' = b /\ AskAgain("BEGIN")
    <3> DEFINE q == Abandoned(wire)
    <3>1. Kept(q, wire)
      BY WireKept, Zenon
    <3> HIDE DEF q
    <3>2. /\ Fresh(b.call, ground, committed)
          /\ \A i \in 1 .. Len(wire) : wire[i].op \in Effective => wire[i].stream < b.call
      BY <2>1, <2>2, Zenon DEF PhaseOK
    <3>3. \A i \in 1 .. Len(q) : q[i].op \in Effective => q[i].stream < b.call
      BY <3>1, <3>2, <1>KeptEffective, Zenon
    <3>4. Ready(b', q, ground, committed)
      BY <2>1, <2>3, <3>2, <3>3, Zenon DEF Ready
    <3>5. "BEGIN" \in EraPhases(b) /\ "BEGIN" \in EraOps(b) /\ Asked("BEGIN", "BEGIN")
      BY <2>1, <2>2, Zenon DEF EraPhases, EraOps, Asked
    <3>6. Turn(b', "BEGIN") /\ b'.result = b.result
      BY <2>1, <2>2, <2>3, Zenon DEF Turn
    <3> QED
      BY <2>1, <2>2, <2>3, <3>4, <3>5, <3>6, <1>AgainAsks, Zenon DEF q
  <2>4. CASE Return("RETRY") /\ wire' = Abandoned(wire) /\ answer' = answer
    BY <2>1, <2>4, WireKept, <1>ReturnStops, Zenon
  <2> QED
    BY <2>3, <2>4, Zenon DEF BeginTimeout

<1>SendFrameKeeps.
  ASSUME LinkInv, SendFrame
  PROVE  LinkInv'
  <2> USE <1>SendFrameKeeps
  <2>1. /\ b.phase = "SEND" /\ answer' = answer /\ NodeSame
        /\ b' = [b EXCEPT !.next = @ + 1]
        /\ wire' = Append(wire, Packet("DATA", b.call, b.next, FALSE))
    BY Zenon DEF SendFrame, Packet
  <2>2. DOMAIN b = BackFields /\ b.result # "OK" /\ b.phase \in EraPhases(b) /\ up.step # "POLL"
    BY <2>1, AtOutset, Zenon
  <2>3. Turn(b', "SEND") /\ b'.result = b.result
    BY <2>1, <2>2, Zenon DEF Turn, BackFields
  <2>4. "DATA" \in EraOps(b)
    BY <2>1, <2>2, Zenon DEF EraPhases, EraOps
  <2>5. /\ BackOK(b', committed) /\ EraOps(b') = EraOps(b)
        /\ \A q : Later(b, b', q)
        /\ b'.phase = "SEND" /\ b'.call = b.call
    BY <2>1, <2>2, <2>3, <1>TurnOK, Zenon
  <2>6. SendsData
    BY <2>1, <2>4, <2>5, Zenon DEF SendsData
  <2> QED
    BY <2>1, <2>2, <2>6, <1>DataKeeps, Zenon

<1>PollAckKeeps.
  ASSUME LinkInv, PollAck
  PROVE  LinkInv'
  <2> USE <1>PollAckKeeps
  <2>1. b.phase = "SEND" /\ NodeSame /\ b' = [b EXCEPT !.phase = "ACK"] /\ Ask("ACK_POLL")
    BY Zenon DEF PollAck
  <2>2. DOMAIN b = BackFields /\ b.result # "OK" /\ b.phase \in EraPhases(b)
    BY <2>1, AtOutset, Zenon
  <2>3. Turn(b', "ACK") /\ b'.result = b.result
    BY <2>1, <2>2, Zenon DEF Turn, BackFields
  <2>4. "ACK" \in EraPhases(b) /\ "ACK_POLL" \in EraOps(b) /\ Asked("ACK", "ACK_POLL")
    BY <2>1, <2>2, Zenon DEF EraPhases, EraOps, Asked
  <2> QED
    BY <2>1, <2>2, <2>3, <2>4, WireKept, <1>AskAnyway, Zenon

\* The three phases of a V3 stream from which it is aborted.
<1>AbortAsks.
  ASSUME LinkInv, NodeSame, b.phase \in {"SEND", "ACK", "COMMIT"},
         Turn(b', "ABORT"), b'.result = b.result,
         AskAgain("ABORT") \/ (Ask("ABORT") /\ Kept(wire, wire))
  PROVE  LinkInv'
  <2> USE <1>AbortAsks
  <2>1. b.result # "OK" /\ b.phase \in EraPhases(b)
    BY AtOutset, Zenon
  <2>2. "ABORT" \in EraPhases(b) /\ "ABORT" \in EraOps(b) /\ Asked("ABORT", "ABORT")
    BY <2>1, Zenon DEF EraPhases, EraOps, Asked
  <2> QED
    BY <2>1, <2>2, <1>AskAnyway, Zenon

<1>SendFrameFailsKeeps.
  ASSUME LinkInv, SendFrameFails
  PROVE  LinkInv'
  <2> USE <1>SendFrameFailsKeeps
  <2>1. b.phase = "SEND" /\ NodeSame /\ b' = [b EXCEPT !.phase = "ABORT"] /\ Ask("ABORT")
    BY Zenon DEF SendFrameFails
  <2>2. DOMAIN b = BackFields
    BY AtOutset, Zenon
  <2>3. Turn(b', "ABORT") /\ b'.result = b.result
    BY <2>1, <2>2, Zenon DEF Turn, BackFields
  <2> QED
    BY <2>1, <2>3, WireKept, <1>AbortAsks, Zenon

\* Whatever the node acknowledges, the send goes on, commits or aborts.
<1>AckedKeeps.
  ASSUME LinkInv, Acked
  PROVE  LinkInv'
  <2> USE <1>AckedKeeps
  <2> DEFINE k == Max2(b.acked, answer.acked)
             credit == IF answer.credit > 0 THEN Min2(answer.credit, WindowCap) ELSE b.window
             now == [b EXCEPT !.acked = k, !.window = credit]
             stuck == k = b.acked \/ answer.result = "NO_PROGRESS"
  <2>1. b.phase = "ACK" /\ answer # NoAnswer /\ NodeSame
    BY Zenon DEF Acked
  <2>2. DOMAIN b = BackFields /\ b.result # "OK" /\ b.phase \in EraPhases(b)
    BY <2>1, AtOutset, Zenon
  <2>3. Kept(wire, wire)
    BY <2>1, WireKept, Zenon
  <2>4. \/ b' = [now EXCEPT !.phase = "COMMIT"] /\ Ask("COMMIT")
        \/ b' = [now EXCEPT !.phase = "ABORT"] /\ Ask("ABORT")
        \/ /\ b' = [now EXCEPT !.phase = "SEND", !.next = IF stuck THEN k ELSE @]
           /\ answer' = NoAnswer /\ wire' = wire
    BY Zenon DEF Acked
  <2> HIDE DEF k, credit, stuck
  <2>5. CASE b' = [now EXCEPT !.phase = "COMMIT"] /\ Ask("COMMIT")
    <3>1. Turn(b', "COMMIT") /\ b'.result = b.result
      BY <2>2, <2>5, Zenon DEF Turn, BackFields
    <3>2. "COMMIT" \in EraPhases(b) /\ "COMMIT" \in EraOps(b) /\ Asked("COMMIT", "COMMIT")
      BY <2>1, <2>2, Zenon DEF EraPhases, EraOps, Asked
    <3> QED
      BY <2>1, <2>2, <2>3, <2>5, <3>1, <3>2, <1>AskAnyway, Zenon
  <2>6. CASE b' = [now EXCEPT !.phase = "ABORT"] /\ Ask("ABORT")
    <3>1. Turn(b', "ABORT") /\ b'.result = b.result
      BY <2>2, <2>6, Zenon DEF Turn, BackFields
    <3> QED
      BY <2>1, <2>3, <2>6, <3>1, <1>AbortAsks, Zenon
  <2>7. CASE /\ b' = [now EXCEPT !.phase = "SEND", !.next = IF stuck THEN k ELSE @]
             /\ answer' = NoAnswer /\ wire' = wire
    <3>1. Turn(b', "SEND") /\ b'.result = b.result
      BY <2>2, <2>7, Zenon DEF Turn, BackFields
    <3>2. "SEND" \in EraPhases(b)
      BY <2>1, <2>2, Zenon DEF EraPhases
    <3> QED
      BY <2>1, <2>2, <2>3, <2>7, <3>1, <3>2, <1>TurnStops, Zenon
  <2> QED
    BY <2>4, <2>5, <2>6, <2>7, Zenon

<1>AckTimeoutKeeps.
  ASSUME LinkInv, AckTimeout
  PROVE  LinkInv'
  <2> USE <1>AckTimeoutKeeps
  <2>1. b.phase = "ACK" /\ answer = NoAnswer /\ NodeSame
    BY Zenon DEF AckTimeout
  <2>2. DOMAIN b = BackFields /\ b.result # "OK" /\ b.phase \in EraPhases(b)
    BY <2>1, AtOutset, Zenon
  <2>3. CASE b' = [b EXCEPT !.phase = "ABORT"] /\ AskAgain("ABORT")
    <3>1. Turn(b', "ABORT") /\ b'.result = b.result
      BY <2>2, <2>3, Zenon DEF Turn, BackFields
    <3> QED
      BY <2>1, <2>3, <3>1, <1>AbortAsks, Zenon
  <2>4. CASE /\ b' = [b EXCEPT !.phase = "SEND", !.next = b.acked]
             /\ wire' = Abandoned(wire) /\ answer' = answer
    <3>1. Turn(b', "SEND") /\ b'.result = b.result
      BY <2>2, <2>4, Zenon DEF Turn, BackFields
    <3>2. "SEND" \in EraPhases(b)
      BY <2>1, <2>2, Zenon DEF EraPhases
    <3> QED
      BY <2>1, <2>2, <2>4, <3>1, <3>2, WireKept, <1>TurnStops, Zenon
  <2> QED
    BY <2>3, <2>4, Zenon DEF AckTimeout

\* COMMIT is repeated, or it ends the send: with OK only for a committed stream.
<1>CommitAgain.
  ASSUME LinkInv, NodeSame, b.phase = "COMMIT", b' = b,
         AskAgain("COMMIT") \/ (Ask("COMMIT") /\ Kept(wire, wire))
  PROVE  LinkInv'
  <2> USE <1>CommitAgain
  <2>1. DOMAIN b = BackFields /\ b.result # "OK" /\ b.phase \in EraPhases(b)
    BY AtOutset, Zenon
  <2>2. Turn(b', "COMMIT")
    BY <2>1, Zenon DEF Turn
  <2>3. "COMMIT" \in EraPhases(b) /\ "COMMIT" \in EraOps(b) /\ Asked("COMMIT", "COMMIT")
    BY <2>1, Zenon DEF EraPhases, EraOps, Asked
  <2> QED
    BY <2>1, <2>2, <2>3, <1>AskAnyway, Zenon

<1>CommittedKeeps.
  ASSUME LinkInv, Committed
  PROVE  LinkInv'
  <2> USE <1>CommittedKeeps
  <2>1. b.phase = "COMMIT" /\ answer # NoAnswer /\ NodeSame
    BY Zenon DEF Committed
  <2>2. DOMAIN b = BackFields /\ PhaseOK(b, wire, answer, ground, committed)
    BY AtOutset, Zenon
  <2>3. Kept(wire, wire)
    BY <2>1, WireKept, Zenon
  <2>4. CASE answer.result = "OK" /\ Return("OK") /\ answer' = NoAnswer /\ wire' = wire
    <3>1. InSeq(b.call, committed)
      BY <2>1, <2>2, <2>4, Zenon DEF PhaseOK
    <3> QED
      BY <2>1, <2>3, <2>4, <3>1, <1>ReturnStops, Zenon
  <2>5. CASE b' = b /\ Ask("COMMIT")
    BY <2>1, <2>3, <2>5, <1>CommitAgain, Zenon
  <2>6. CASE b' = [b EXCEPT !.phase = "ABORT"] /\ Ask("ABORT")
    <3>1. Turn(b', "ABORT") /\ b'.result = b.result
      BY <2>2, <2>6, Zenon DEF Turn, BackFields
    <3> QED
      BY <2>1, <2>3, <2>6, <3>1, <1>AbortAsks, Zenon
  <2> QED
    BY <2>4, <2>5, <2>6, Zenon DEF Committed

<1>CommitTimeoutKeeps.
  ASSUME LinkInv, CommitTimeout
  PROVE  LinkInv'
  <2> USE <1>CommitTimeoutKeeps
  <2>1. b.phase = "COMMIT" /\ NodeSame
    BY Zenon DEF CommitTimeout
  <2>2. DOMAIN b = BackFields
    BY AtOutset, Zenon
  <2>3. CASE b' = b /\ AskAgain("COMMIT")
    BY <2>1, <2>3, <1>CommitAgain, Zenon
  <2>4. CASE b' = [b EXCEPT !.phase = "ABORT"] /\ AskAgain("ABORT")
    <3>1. Turn(b', "ABORT") /\ b'.result = b.result
      BY <2>2, <2>4, Zenon DEF Turn, BackFields
    <3> QED
      BY <2>1, <2>4, <3>1, <1>AbortAsks, Zenon
  <2> QED
    BY <2>3, <2>4, Zenon DEF CommitTimeout

<1>AbortedKeeps.
  ASSUME LinkInv, Aborted
  PROVE  LinkInv'
  <2> USE <1>AbortedKeeps
  <2> DEFINE result == IF b.result = "NONE" THEN "RETRY" ELSE b.result
  <2>1. /\ b.phase = "ABORT" /\ NodeSame /\ Return(result)
        /\ wire' = Abandoned(wire) /\ answer' = NoAnswer
    BY Zenon DEF Aborted
  <2>2. result # "OK"
    BY <2>1, AtOutset, Zenon
  <2> HIDE DEF result
  <2> QED
    BY <2>1, <2>2, WireKept, <1>ReturnStops, Zenon

\* The deadline is looked at, never relied on.
<1>DeadlineKeeps.
  ASSUME LinkInv, DeadlinePasses
  PROVE  LinkInv'
  <2> USE <1>DeadlineKeeps
  <2>1. /\ b' = [b EXCEPT !.overdue = TRUE]
        /\ UNCHANGED <<wire, answer, up, n, main, worker, line, ground, committed>>
    BY Zenon DEF DeadlinePasses, NodeSame
  <2>2. DOMAIN b = BackFields
    BY AtOutset, Zenon
  <2>3. /\ DOMAIN b' = BackFields /\ b'.phase = b.phase /\ b'.call = b.call
        /\ b'.sends = b.sends /\ b'.policy = b.policy /\ b'.v3 = b.v3
        /\ b'.acked = b.acked /\ b'.result = b.result
    BY <2>1, <2>2, Zenon DEF BackFields
  <2>4. EraOps(b') = EraOps(b) /\ EraPhases(b') = EraPhases(b) /\ (InV1(b') <=> InV1(b))
    BY <2>3, <1>EraSame, Zenon
  <2>5. BackOK(b', committed)
    BY <2>3, <2>4, Zenon DEF LinkInv, BackOK
  <2>6. WireOK(b', up, wire, answer)
    BY <2>3, <2>4, Zenon DEF LinkInv, WireOK, PacketOK, LiveFits
  <2>7. PhaseOK(b', wire, answer, ground, committed)
    BY <2>3, Zenon DEF LinkInv, PhaseOK
  <2>8. HistoryOK(b', ground, committed) /\ NodeOK(b', n, ground, committed)
    BY <2>3, <2>4, Zenon DEF LinkInv, HistoryOK, NodeOK, StagingOK
  <2> QED
    BY <2>1, <2>5, <2>6, <2>7, <2>8, Zenon DEF LinkInv
<1> QED
  BY <1>StartSendKeeps, <1>ProbedKeeps, <1>ProbeTimeoutKeeps, <1>WrittenKeeps, <1>WriteTimeoutKeeps,
     <1>BegunKeeps, <1>BeginTimeoutKeeps, <1>SendFrameKeeps, <1>PollAckKeeps, <1>SendFrameFailsKeeps,
     <1>AckedKeeps, <1>AckTimeoutKeeps, <1>CommittedKeeps, <1>CommitTimeoutKeeps, <1>AbortedKeeps,
     <1>DeadlineKeeps, <1>StartSendV2Keeps, <1>ProbedV2Keeps, <1>ProbeTimeoutV2Keeps, <1>StageAnsweredKeeps,
     <1>StageTimeoutKeeps, Zenon DEF Sending
-----------------------------------------------------------------------------
(* The node serves a request. *)

\* What the reply r to packet p must be backed by.
Honest(p, r, h, e) ==
  /\ p.op = "STAGE" =>
       /\ \/ Fresh(p.stream, h, e)
          \/ r.result = "OK" /\ IsLast(p.stream, p.acked) /\ InSeq(p.stream, e)
       /\ r.result = "OK" /\ IsLast(p.stream, p.acked) => InSeq(p.stream, e)
  /\ p.op = "WRITE" /\ r.result = "OK" => EndsWith(h, p.stream, p.acked)
  /\ p.op = "COMMIT" /\ r.result = "OK" => InSeq(p.stream, e)

\* What the node does with the packet at the head of the wire.
Serves(r) ==
  /\ wire # <<>> /\ wire' = Tail(wire) /\ answer' = Replied(wire[1], r, answer)
  /\ UNCHANGED <<b, up>>
  /\ Grows(wire[1], ground, committed, ground', committed')
  /\ wire[1].live => Honest(wire[1], r, ground', committed')
  /\ wire[1].live => r = answer \/ (wire[1].op # "UPLINK_POLL" /\ "chunk" \notin DOMAIN r)
  /\ \A t : InSeq(t, committed) => InSeq(t, committed')
  /\ InV1(b) => committed' = committed

\* The frames of a stream, and a queue with them at its end.
FramesIn(s) == [k \in 1 .. FramesOf[s] |-> [stream |-> s, index |-> k - 1]]

Joined(v, q, f) ==
  /\ Len(v) = Len(q) + Len(f) /\ Len(q) \in Nat
  /\ \A i \in 1 .. Len(q) : v[i] = q[i]
  /\ \A i \in 1 .. Len(f) : v[Len(q) + i] = f[i]

\* v is the queue q with stream s behind it.
Grown(v, q, s) ==
  /\ Chained(v) /\ v # <<>>
  /\ \A i \in 1 .. Len(v) : (v[i] = q[i] /\ i \in 1 .. Len(q)) \/ v[i].stream = s
  /\ q # <<>> => v[1] = q[1]
  /\ q = <<>> => v[1] = [stream |-> s, index |-> 0]

\* The requests of the downlink, served by the node or lost on the bus.
LEMMA RequestKeeps ==
  LinkInv /\ (ServeV3 \/ ServeV2 \/ Lose \/ \E opens, written \in BOOLEAN : ServeWrite(opens, written))
    => LinkInv'

\* A packet that is no answered poll leaves the uplink as it was.
<1>ServedUplink.
  ASSUME NEW u, NEW w, NEW a, UplinkOK(u, w, a), IsSeq(w), w # <<>>, a = NoAnswer,
         NEW e, "chunk" \notin DOMAIN e, u.step = "POLL" => e = NoAnswer
  PROVE  UplinkOK(u, Tail(w), e)
  <2> USE <1>ServedUplink
  <2> DEFINE total == Len(u.queue) + Holding(u, a) + Len(u.delivered) + u.dropped + u.rxErrors
  <2>1. Holding(u, e) = Holding(u, a) /\ Holding(u, a) \in Nat
    BY Zenon DEF Holding, NoAnswer
  <2>2. /\ u.read \in Nat /\ u.dropped \in Nat /\ u.rxErrors \in Nat
        /\ Len(u.queue) \in Nat /\ Len(u.delivered) \in Nat
    BY DEF UplinkOK, UpOrdered
  <2>3. PICK k : Counts(k, w) /\ u.read + k[Len(w)] <= total
    BY Zenon DEF UplinkOK, UpBalanced
  <2>4. total \in Nat
    <3>1. \A i, j, l, m, len \in Nat : i + j + l + m + len \in Nat
      OBVIOUS
    <3> QED
      BY <2>1, <2>2, <3>1, Zenon
  <2> HIDE DEF total
  <2>6. k[Len(w)] \in Nat
    BY <2>3 DEF Counts
  <2>7. PICK m : Counts(m, Tail(w)) /\ m[Len(Tail(w))] = k[Len(w)] - (IF Deserted(w[1]) THEN 1 ELSE 0)
    BY <2>3, CountsTail, Zenon
  <2>8. u.read + m[Len(Tail(w))] <= total
    BY <2>2, <2>3, <2>4, <2>6, <2>7
  <2>9. Counts(m, Tail(w)) /\ u.read + m[Len(Tail(w))] <=
          Len(u.queue) + Holding(u, e) + Len(u.delivered) + u.dropped + u.rxErrors
    BY <2>1, <2>7, <2>8, Zenon DEF total
  <2> QED
    BY <2>9, Zenon DEF UplinkOK, UpHeld, UpBalanced

\* Such a reply is what the phase that waits for it relies on.
<1>HonestBacks.
  ASSUME NEW x, NEW u, NEW w, NEW a, WireOK(x, u, w, a), w # <<>>, w[1].live,
         NEW r, NEW h, NEW e, Honest(w[1], r, h, e)
  PROVE  Backs(x, r, h, e)
  <2> USE <1>HonestBacks
  <2>1. 1 \in 1 .. Len(w)
    OBVIOUS
  <2>2. LiveFits(x, u, w[1]) /\ (u.step = "POLL" => x.phase = "IDLE")
    BY <2>1, Zenon DEF WireOK
  <2>3. CASE x.phase \notin {"STAGE", "V1", "COMMIT"}
    BY <2>3, Zenon DEF Backs
  <2>4. CASE x.phase \in {"STAGE", "V1", "COMMIT"}
    <3>1. /\ x.phase = "STAGE" => w[1].op = "STAGE" /\ w[1].acked = x.acked
          /\ x.phase = "V1" => w[1].op = "WRITE" /\ w[1].acked = x.acked
          /\ x.phase = "COMMIT" => w[1].op = "COMMIT"
          /\ w[1].stream = x.call
      BY <2>2, <2>4, Zenon DEF LiveFits, Asked
    <3> QED
      BY <3>1, Zenon DEF Honest, Backs
  <2> QED
    BY <2>3, <2>4, Zenon

\* The backend does not lose what was committed, and V1 commits nothing.
<1>BackCommits.
  ASSUME NEW x, NEW c, BackOK(x, c), NEW e, \A t : InSeq(t, c) => InSeq(t, e), InV1(x) => e = c
  PROVE  BackOK(x, e)
    BY <1>BackCommits, Zenon DEF BackOK

\* Serving a packet keeps the invariant if it keeps the node's part of it.
<1>ServesKeep.
  ASSUME LinkInv, NEW r, Serves(r), HistoryOK(b, ground', committed'),
         NodeOK(b, n', ground', committed'), DrainOK(worker', n', ground', committed')
  PROVE  LinkInv'
  <2> USE <1>ServesKeep
  <2>1. /\ wire # <<>> /\ wire' = Tail(wire) /\ answer' = Replied(wire[1], r, answer)
        /\ b' = b /\ up' = up
        /\ Grows(wire[1], ground, committed, ground', committed')
        /\ wire[1].live => Honest(wire[1], r, ground', committed')
        /\ wire[1].live => r = answer \/ (wire[1].op # "UPLINK_POLL" /\ "chunk" \notin DOMAIN r)
        /\ \A t : InSeq(t, committed) => InSeq(t, committed')
        /\ InV1(b) => committed' = committed
    BY Zenon DEF Serves
  <2>2. /\ BackOK(b, committed) /\ WireOK(b, up, wire, answer) /\ StreamsInOrder(wire, ground, committed)
        /\ PhaseOK(b, wire, answer, ground, committed) /\ UplinkOK(up, wire, answer)
    BY Zenon DEF LinkInv
  <2>3. IsSeq(wire) /\ answer = NoAnswer
    BY <2>1, <2>2, Zenon DEF WireOK
  <2>4. BackOK(b, committed')
    BY <2>1, <2>2, <1>BackCommits, Zenon
  <2>5. WireOK(b, up, wire', answer')
    BY <2>1, <2>2, ServedWire, Zenon
  <2>6. StreamsInOrder(wire', ground', committed')
    BY <2>1, <2>2, <2>3, ServedOrder, Zenon
  <2>7. wire[1].live => Backs(b, r, ground', committed')
    BY <2>1, <2>2, <1>HonestBacks, Zenon
  <2>8. PhaseOK(b, wire', answer', ground', committed')
    BY <2>1, <2>2, <2>7, ServedPhase, Zenon
  <2>9. "chunk" \notin DOMAIN answer' /\ (up.step = "POLL" => answer' = NoAnswer)
    <3>1. "chunk" \notin DOMAIN answer
      BY <2>3, Zenon DEF NoAnswer
    <3>2. "chunk" \notin DOMAIN answer'
      BY <2>1, <3>1, Zenon DEF Replied
    <3>3. ASSUME up.step = "POLL", wire[1].live PROVE wire[1].op = "UPLINK_POLL"
      <4>1. 1 \in 1 .. Len(wire)
        BY <2>1
      <4>2. LiveFits(b, up, wire[1]) /\ b.phase = "IDLE"
        BY <2>2, <3>3, <4>1, Zenon DEF WireOK
      <4> QED
        BY <4>2, Zenon DEF LiveFits, Asked
    <3> QED
      BY <2>1, <2>3, <3>2, <3>3, Zenon DEF Replied
  <2>10. UplinkOK(up, wire', answer')
    BY <2>1, <2>2, <2>3, <2>9, <1>ServedUplink, Zenon
  <2> QED
    BY <2>1, <2>4, <2>5, <2>6, <2>8, <2>10, Zenon DEF LinkInv

<1>StagingFresh.
  ASSUME NEW x, NEW g, NEW c, NEW t \in Calls, Fresh(t, g, c), ~InV1(x)
  PROVE  StagingOK(x, Staging(t), g, c)
  <2> USE <1>StagingFresh
  <2>1. t \in Nat \ {0}
    BY DEF Calls
  <2>2. /\ DOMAIN Staging(t) = {"active", "stream", "got"} /\ Staging(t).active = TRUE
        /\ Staging(t).stream = t /\ Staging(t).got = {}
    BY <2>1, Zenon DEF Staging
  <2> QED
    BY <2>2, Zenon DEF StagingOK

<1>FramesKnown.
  ASSUME NEW s \in Calls
  PROVE  /\ FramesOf[s] \in Nat \ {0} /\ s \in Nat
         /\ FramesIn(s) \in Seq(Sent) /\ Len(FramesIn(s)) = FramesOf[s]
         /\ \A k \in 1 .. FramesOf[s] : FramesIn(s)[k] = [stream |-> s, index |-> k - 1]
  <2> USE <1>FramesKnown
  <2>1. FramesOf[s] \in Nat \ {0} /\ s \in Nat
    BY LinkAssumption DEF Calls
  <2>2. \A k \in 1 .. FramesOf[s] : FramesIn(s)[k] = [stream |-> s, index |-> k - 1]
    BY Zenon DEF FramesIn
  <2>3. FramesIn(s) \in [1 .. FramesOf[s] -> Sent]
    BY <2>1 DEF FramesIn, Sent
  <2>4. FramesIn(s) \in Seq(Sent) /\ Len(FramesIn(s)) = FramesOf[s]
    BY <2>1, <2>3
  <2> QED
    BY <2>1, <2>2, <2>4, Zenon

<1>ConcatSeq.
  ASSUME NEW q \in Seq(Sent), NEW f \in Seq(Sent)
  PROVE  q \o f \in Seq(Sent) /\ Joined(q \o f, q, f)
    BY DEF Joined

\* The frames of stream s behind the queue q are one chain.
<1>ChainGrows.
  ASSUME NEW q \in Seq(Sent), Chained(q), NEW s \in Nat, \A i \in 1 .. Len(q) : q[i].stream < s,
         NEW len \in Nat \ {0}, NEW v \in Seq(Sent), Len(v) = Len(q) + len,
         \A i \in 1 .. Len(q) : v[i] = q[i],
         \A k \in 1 .. len : v[Len(q) + k] = [stream |-> s, index |-> k - 1]
  PROVE  Grown(v, q, s)
  <2> USE <1>ChainGrows
  <2> DEFINE m == Len(q)
  <2>1. m \in Nat /\ (q = <<>> <=> m = 0)
    OBVIOUS
  <2> HIDE DEF m
  <2>2. ASSUME NEW i \in 1 .. Len(v), i > m PROVE v[i] = [stream |-> s, index |-> i - m - 1]
    <3>1. i - m \in 1 .. len /\ m + (i - m) = i
      BY <2>2 DEF m
    <3>2. v[m + (i - m)] = [stream |-> s, index |-> (i - m) - 1]
      BY <3>1, Zenon DEF m
    <3> QED
      BY <3>1, <3>2, Zenon
  <2>3. ASSUME NEW i \in 2 .. Len(v) PROVE Follows(v[i - 1], v[i])
    <3>1. CASE i <= m
      <4>1. i \in 2 .. Len(q) /\ v[i] = q[i] /\ v[i - 1] = q[i - 1]
        BY <3>1 DEF m
      <4> QED
        BY <4>1, Zenon DEF Chained
    <3>2. CASE i = m + 1
      <4>1. m \in 1 .. Len(q) /\ i - 1 = m /\ i > m /\ i - m - 1 = 0 /\ i \in 1 .. Len(v)
        BY <3>2 DEF m
      <4>2. v[i - 1] = q[m] /\ v[i] = [stream |-> s, index |-> 0] /\ q[m].stream < s
        BY <2>2, <4>1, Zenon
      <4>3. v[i - 1].stream < v[i].stream /\ v[i].index = 0
        BY <4>2
      <4> QED
        BY <4>3, Zenon DEF Follows, Newer
    <3>3. CASE i > m + 1
      <4>1. i \in 1 .. Len(v) /\ i - 1 \in 1 .. Len(v) /\ i > m /\ i - 1 > m
        BY <2>1, <3>3
      <4>2. /\ v[i] = [stream |-> s, index |-> i - m - 1]
            /\ v[i - 1] = [stream |-> s, index |-> (i - 1) - m - 1]
        BY <2>2, <4>1, Zenon
      <4>3. i - m - 1 = ((i - 1) - m - 1) + 1
        BY <2>1
      <4>4. v[i - 1].stream = v[i].stream /\ v[i].index = v[i - 1].index + 1
        BY <4>2, <4>3
      <4> QED
        BY <4>4, Zenon DEF Follows
    <3> QED
      BY <2>1, <3>1, <3>2, <3>3
  <2>4. ASSUME NEW i \in 1 .. Len(v) PROVE (v[i] = q[i] /\ i \in 1 .. Len(q)) \/ v[i].stream = s
    <3>1. CASE i <= m
      BY <3>1 DEF m
    <3>2. CASE i > m
      BY <2>2, <3>2
    <3> QED
      BY <2>1, <3>1, <3>2
  <2>5. 1 \in 1 .. Len(v)
    OBVIOUS
  <2>6. q # <<>> => v[1] = q[1]
    OBVIOUS
  <2>7. q = <<>> => v[1] = [stream |-> s, index |-> 0]
    <3>1. ASSUME m = 0 PROVE 1 > m /\ 1 - m - 1 = 0
      BY <3>1
    <3> QED
      BY <2>1, <2>2, <2>5, <3>1, Zenon
  <2>8. v # <<>>
    OBVIOUS
  <2> QED
    BY <2>3, <2>4, <2>6, <2>7, <2>8, Zenon DEF Chained, Grown

<1>QueueGrows.
  ASSUME NEW q \in Seq(Sent), Chained(q), NEW s \in Calls,
         \A i \in 1 .. Len(q) : q[i].stream < s, NEW v, v = q \o FramesIn(s)
  PROVE  v \in Seq(Sent) /\ Len(v) = Len(q) + FramesOf[s] /\ Len(q) \in Nat /\ Grown(v, q, s)
  <2> USE <1>QueueGrows
  <2> DEFINE f == FramesIn(s)
             len == FramesOf[s]
  <2>1. /\ len \in Nat \ {0} /\ s \in Nat /\ f \in Seq(Sent) /\ Len(f) = len
        /\ \A k \in 1 .. len : f[k] = [stream |-> s, index |-> k - 1]
    BY <1>FramesKnown, Zenon
  <2>2. v = q \o f
    BY Zenon
  <2> HIDE DEF f, len
  <2>3. /\ v \in Seq(Sent) /\ Len(v) = Len(q) + len /\ Len(q) \in Nat
        /\ \A i \in 1 .. Len(q) : v[i] = q[i]
        /\ \A i \in 1 .. len : v[Len(q) + i] = f[i]
    <3>1. v \in Seq(Sent) /\ Joined(v, q, f)
      BY <2>1, <2>2, <1>ConcatSeq, Zenon
    <3> QED
      BY <2>1, <3>1, Zenon DEF Joined
  <2>4. \A k \in 1 .. len : v[Len(q) + k] = [stream |-> s, index |-> k - 1]
    BY <2>1, <2>3, Zenon
  <2>5. Grown(v, q, s)
    BY <2>1, <2>3, <2>4, <1>ChainGrows, Zenon
  <2> QED
    BY <2>3, <2>5, Zenon DEF len

\* One more stream committed.
<1>CommitHistory.
  ASSUME NEW x, NEW g, NEW c, HistoryOK(x, g, c), NEW s \in Nat, s <= x.call, Fresh(s, g, c)
  PROVE  /\ HistoryOK(x, g, Append(c, s))
         /\ InSeq(s, Append(c, s)) /\ (\A t : InSeq(t, c) => InSeq(t, Append(c, s)))
         /\ \A t : Fresh(t, g, c) /\ s < t => Fresh(t, g, Append(c, s))
  <2> USE <1>CommitHistory
  <2> DEFINE e == Append(c, s)
  <2>1. c \in Seq(Nat)
    BY Zenon DEF HistoryOK
  <2>2. /\ e \in Seq(Nat) /\ Len(e) = Len(c) + 1 /\ Len(c) \in Nat
        /\ \A i \in 1 .. Len(c) : e[i] = c[i]
        /\ e[Len(c) + 1] = s
    BY <2>1
  <2> HIDE DEF e
  <2>3. ASSUME NEW i \in 1 .. Len(e) PROVE (i \in 1 .. Len(c) /\ e[i] = c[i]) \/ (i = Len(c) + 1 /\ e[i] = s)
    BY <2>2
  <2>4. ASSUME NEW i \in 1 .. Len(e), NEW j \in 1 .. Len(e), i < j PROVE e[i] < e[j]
    <3>1. i \in 1 .. Len(c) /\ e[i] = c[i]
      BY <2>2, <2>4
    <3>2. CASE j \in 1 .. Len(c) /\ e[j] = c[j]
      BY <2>4, <3>1, <3>2, Zenon DEF HistoryOK
    <3>3. CASE e[j] = s
      BY <3>1, <3>3, Zenon DEF Fresh
    <3> QED
      BY <2>3, <3>2, <3>3, Zenon
  <2>5. ASSUME NEW i \in 1 .. Len(e) PROVE e[i] <= x.call
    BY <2>3, Zenon DEF HistoryOK
  <2>6. HistoryOK(x, g, e)
    BY <2>2, <2>4, <2>5, Zenon DEF HistoryOK
  <2>7. Len(c) + 1 \in 1 .. Len(e)
    BY <2>2
  <2>8. InSeq(s, e)
    BY <2>2, <2>7, Zenon DEF InSeq
  <2>9. ASSUME NEW t, InSeq(t, c) PROVE InSeq(t, e)
    <3>1. PICK i \in 1 .. Len(c) : c[i] = t
      BY <2>9, Zenon DEF InSeq
    <3>2. i \in 1 .. Len(e) /\ e[i] = t
      BY <2>2, <3>1
    <3> QED
      BY <3>2, Zenon DEF InSeq
  <2>10. ASSUME NEW t, Fresh(t, g, c), s < t PROVE Fresh(t, g, e)
    BY <2>3, <2>10, Zenon DEF Fresh
  <2> QED
    BY <2>6, <2>8, <2>9, <2>10, Zenon DEF e

\* The stream moves to the drain queue.
<1>EnqueueKeeps.
  ASSUME NEW x, NEW d, NEW g, NEW c, HistoryOK(x, g, c), NodeOK(x, n, g, c),
         DrainOK(d, n, g, c), NEW s \in Calls, s <= x.call, Fresh(s, g, c), NEW cached,
         cached \subseteq n.cached \cup {s}, NEW z, z = Enqueued(s, cached)
  PROVE  /\ HistoryOK(x, g, Append(c, s)) /\ NodeOK(x, z, g, Append(c, s)) /\ DrainOK(d, z, g, Append(c, s))
  <2> USE <1>EnqueueKeeps
  <2> DEFINE e == Append(c, s)
             v == n.queue \o FramesIn(s)
  <2>1. s \in Nat /\ FramesOf[s] \in Nat
    BY LinkAssumption DEF Calls
  <2>2. /\ HistoryOK(x, g, e) /\ InSeq(s, e) /\ (\A t : InSeq(t, c) => InSeq(t, e))
    BY <2>1, <1>CommitHistory, Zenon
  <2> HIDE DEF e
  <2>3. /\ DOMAIN n = NodeFields /\ n.queue \in Seq(Sent) /\ Chained(n.queue)
        /\ n.accepted \in Nat /\ n.flushed \in Nat /\ n.dropped \in Nat
        /\ n.accepted <= n.flushed + n.dropped + Len(n.queue)
        /\ \A i \in 1 .. Len(n.queue) : InSeq(n.queue[i].stream, c)
        /\ \A t \in n.cached : InSeq(t, c)
    BY Zenon DEF NodeOK
  <2>4. /\ DOMAIN z = NodeFields /\ z.staging = Staging(0) /\ z.cached = cached
        /\ z.accepted = n.accepted + FramesOf[s] /\ z.queue = v
        /\ z.flushed = n.flushed /\ z.dropped = n.dropped
    BY <2>3, Zenon DEF Enqueued, FramesIn, NodeFields
  <2>5. \A i \in 1 .. Len(n.queue) : n.queue[i].stream < s
    BY <2>3, CommittedOlder, Zenon
  <2>6. /\ v \in Seq(Sent) /\ Len(v) = Len(n.queue) + FramesOf[s] /\ Len(n.queue) \in Nat
        /\ Chained(v) /\ v # <<>>
        /\ \A i \in 1 .. Len(v) : (v[i] = n.queue[i] /\ i \in 1 .. Len(n.queue)) \/ v[i].stream = s
        /\ n.queue # <<>> => v[1] = n.queue[1]
        /\ n.queue = <<>> => v[1] = [stream |-> s, index |-> 0]
    <3>1. /\ v \in Seq(Sent) /\ Len(v) = Len(n.queue) + FramesOf[s] /\ Len(n.queue) \in Nat
          /\ Grown(v, n.queue, s)
      BY <2>3, <2>5, <1>QueueGrows, Zenon
    <3> QED
      BY <3>1, Zenon DEF Grown
  <2> HIDE DEF v
  <2>7. NodeOK(x, z, g, e)
    <3>1. z.accepted \in Nat /\ z.accepted <= z.flushed + z.dropped + Len(z.queue)
      <4>1. \A a, f, l, m, k \in Nat : a <= f + l + m => a + k \in Nat /\ a + k <= f + l + (m + k)
        OBVIOUS
      <4>2. /\ n.accepted + FramesOf[s] \in Nat
            /\ n.accepted + FramesOf[s] <= n.flushed + n.dropped + (Len(n.queue) + FramesOf[s])
        BY <2>1, <2>3, <2>6, <4>1, Zenon
      <4> QED
        BY <2>4, <2>6, <4>2, Zenon
    <3>2. \A i \in 1 .. Len(v) : InSeq(v[i].stream, e)
      BY <2>2, <2>3, <2>6, Zenon
    <3>3. \A t \in cached : InSeq(t, e)
      <4> QED
        BY <2>2, <2>3, Zenon
    <3>4. StagingOK(x, Staging(0), g, e)
      BY StagingEmpty, Zenon
    <3> QED
      BY <2>4, <2>6, <3>1, <3>2, <3>3, <3>4, Zenon DEF NodeOK
  <2>8. DrainOK(d, z, g, e)
    <3>1. ASSUME d.step \in {"WRITE", "CONFIRM"}
          PROVE  /\ d.frame \in Sent /\ InSeq(d.frame.stream, e)
                 /\ v[1] = d.frame \/ Newer(d.frame, v[1])
      <4>1. /\ d.frame \in Sent /\ InSeq(d.frame.stream, c)
            /\ n.queue = <<>> \/ n.queue[1] = d.frame \/ Newer(d.frame, n.queue[1])
        BY <3>1, Zenon DEF DrainOK
      <4>2. d.frame.stream < s
        BY <4>1, CommittedOlder, Zenon
      <4>3. CASE n.queue = <<>>
        <5>1. v[1].stream = s /\ v[1].index = 0
          BY <2>6, <4>3
        <5>2. Newer(d.frame, v[1])
          BY <4>2, <5>1, Zenon DEF Newer
        <5> QED
          BY <2>2, <4>1, <5>2, Zenon
      <4>4. CASE n.queue # <<>>
        BY <2>2, <2>6, <4>1, <4>4, Zenon
      <4> QED
        BY <4>3, <4>4, Zenon
    <3>2. ASSUME d.step \notin {"WRITE", "CONFIRM"} PROVE MayFollow(g, v[1])
      <4>1. CASE n.queue = <<>>
        <5>1. v[1].stream = s /\ v[1].index = 0
          BY <2>6, <4>1
        <5>2. ASSUME g # <<>> PROVE g[Len(g)].stream < s
          <6>1. Len(g) \in 1 .. Len(g)
            BY <5>2
          <6> QED
            BY <6>1, Zenon DEF Fresh
        <5> QED
          BY <5>1, <5>2, Zenon DEF MayFollow, Follows, Newer
      <4>2. CASE n.queue # <<>>
        BY <2>6, <3>2, <4>2, Zenon DEF DrainOK
      <4> QED
        BY <4>1, <4>2, Zenon
    <3> QED
      BY <2>4, <3>1, <3>2, Zenon DEF DrainOK
  <2> QED
    BY <2>2, <2>7, <2>8, Zenon DEF e

\* The packet at the head of the wire and its stream.
<1>HeadKnown.
  ASSUME LinkInv, wire # <<>>
  PROVE  /\ Head(wire) = wire[1] /\ PacketOK(b, wire[1]) /\ wire[1].op \in EraOps(b)
         /\ answer = NoAnswer
         /\ wire[1].op # "UPLINK_POLL" =>
              wire[1].stream \in Calls /\ wire[1].stream <= b.call
         /\ Starts(wire[1]) => Fresh(wire[1].stream, ground, committed)
         /\ wire[1].live => LiveFits(b, up, wire[1])
  <2> USE <1>HeadKnown
  <2>1. IsSeq(wire) /\ answer = NoAnswer
    BY Zenon DEF LinkInv, WireOK
  <2>2. 1 \in 1 .. Len(wire) /\ Head(wire) = wire[1]
    OBVIOUS
  <2>3. PacketOK(b, wire[1]) /\ (wire[1].live => LiveFits(b, up, wire[1]))
    BY <2>2, Zenon DEF LinkInv, WireOK
  <2>4. b.call \in Nat /\ b.sends \in 0 .. Len(FramesOf) /\ b.call <= b.sends
    BY Zenon DEF LinkInv, BackOK
  <2>6. wire[1].op # "UPLINK_POLL" => wire[1].stream \in 1 .. Len(FramesOf) /\ wire[1].stream <= b.call
    <3>1. wire[1].stream \in 0 .. b.call /\ (wire[1].op # "UPLINK_POLL" => wire[1].stream # 0)
      BY <2>3, Zenon DEF PacketOK
    <3>2. wire[1].stream # 0 => wire[1].stream \in 1 .. Len(FramesOf) /\ wire[1].stream <= b.call
      BY <2>4, <3>1
    <3> QED
      BY <3>1, <3>2, Zenon
  <2>7. Starts(wire[1]) => Fresh(wire[1].stream, ground, committed)
    BY <2>2, Zenon DEF LinkInv, StreamsInOrder
  <2> QED
    BY <2>1, <2>2, <2>3, <2>6, <2>7, Zenon DEF PacketOK, Calls

\* What COMMIT is answered, and when it commits.
<1>CommitReply.
  ASSUME NEW s, NEW k, ControlResult("COMMIT", s, k) = "OK"
  PROVE  /\ Cached(s) \/ (n.staging.active /\ n.staging.stream = s)
         /\ Cached(s) \/ Commits("COMMIT", s)
  <2> USE <1>CommitReply
  <2>1. \A j : ControlResult("COMMIT", s, j) =
          IF Cached(s) THEN "OK"
          ELSE IF ~(n.staging.active /\ n.staging.stream = s) THEN "INVALID"
          ELSE IF Contiguous # FramesOf[s] THEN "NO_PROGRESS"
          ELSE IF CommitFits(FramesOf[s]) THEN "OK" ELSE "NO_CREDIT"
    BY Zenon DEF ControlResult
  <2>2. Cached(s) \/ (n.staging.active /\ n.staging.stream = s)
    BY <2>1, Zenon
  <2>3. ControlResult("COMMIT", s, 0) = "OK"
    BY <2>1, Zenon
  <2> QED
    BY <2>2, <2>3, Zenon DEF Commits

\* The state a control request leaves.
<1>ControlledCases.
  ASSUME NEW op, NEW s
  PROVE  \/ op = "BEGIN" /\ Controlled(op, s) = [n EXCEPT !.staging = Staging(s)]
         \/ Controlled(op, s) = [n EXCEPT !.staging = Staging(0)]
         \/ Controlled(op, s) = n
         \/ Commits(op, s) /\ Controlled(op, s) = Enqueued(s, {s})
    BY DEF Controlled

<1>ControlledCommits.
  ASSUME NEW s, Commits("COMMIT", s)
  PROVE  Controlled("COMMIT", s) = Enqueued(s, {s})
    BY <1>ControlledCommits, Zenon DEF Controlled

\* A V3 request that commits nothing changes at most the staging area.
<1>ControlKeeps.
  ASSUME LinkInv, wire # <<>>, wire[1].op \in V3Ops,
         ~Commits(wire[1].op, wire[1].stream),
         NEW z, z = IF wire[1].op = "DATA" THEN Staged([stream |-> wire[1].stream, index |-> wire[1].acked])
                    ELSE Controlled(wire[1].op, wire[1].stream)
  PROVE  NodeOK(b, z, ground, committed) /\ DrainOK(worker, z, ground, committed)
  <2> USE <1>ControlKeeps
  <2> DEFINE s == wire[1].stream
             op == wire[1].op
  <2>1. /\ op \in EraOps(b) /\ op # "UPLINK_POLL" /\ s \in Calls
        /\ op = "BEGIN" => Fresh(s, ground, committed)
    BY <1>HeadKnown, Zenon DEF Starts, V3Ops
  <2>2. /\ NodeOK(b, n, ground, committed) /\ DrainOK(worker, n, ground, committed)
        /\ StagingOK(b, n.staging, ground, committed) /\ DOMAIN n = NodeFields
    BY Zenon DEF LinkInv, NodeOK
  <2>3. ASSUME NEW t, StagingOK(b, t, ground, committed), z = [n EXCEPT !.staging = t]
        PROVE  NodeOK(b, z, ground, committed) /\ DrainOK(worker, z, ground, committed)
    BY <2>2, <2>3, StagingKeeps, Zenon
  <2>4. CASE op = "DATA"
    <3>1. b.policy # "V2_ONLY"
      BY <2>1, <2>4, Zenon DEF EraOps
    <3>2. z = Staged([stream |-> s, index |-> wire[1].acked])
      BY <2>4, Zenon
    <3>3. CASE z = n
      BY <2>2, <3>3, Zenon
    <3>4. CASE z = [n EXCEPT !.staging.got = @ \cup {wire[1].acked}] /\ n.staging.active
      <4> DEFINE t == [n.staging EXCEPT !.got = @ \cup {wire[1].acked}]
      <4>1. z = [n EXCEPT !.staging = t]
        BY <3>4, Zenon
      <4>3. StagingOK(b, t, ground, committed)
        BY <2>2, <3>1, <3>4, Zenon DEF StagingOK
      <4> QED
        BY <2>3, <4>1, <4>3, Zenon
    <3> QED
      BY <3>2, <3>3, <3>4, Zenon DEF Staged
  <2>5. CASE op # "DATA"
    <3>1. z = Controlled(op, s)
      BY <2>5, Zenon
    <3>2. CASE op = "BEGIN" /\ z = [n EXCEPT !.staging = Staging(s)]
      <4>1. ~InV1(b)
        BY <2>1, <3>2, Zenon DEF EraOps, InV1
      <4> QED
        BY <2>1, <2>3, <3>2, <4>1, <1>StagingFresh, Zenon
    <3>3. CASE z = [n EXCEPT !.staging = Staging(0)]
      BY <2>3, <3>3, StagingEmpty, Zenon
    <3>4. CASE z = n
      BY <2>2, <3>4, Zenon
    <3> QED
      BY <3>1, <3>2, <3>3, <3>4, <1>ControlledCases, Zenon
  <2> QED
    BY <2>4, <2>5, Zenon

\* handleDownlinkControlV3_ and handleDownlinkDataV3_.
<1>ServeV3Keeps.
  ASSUME LinkInv, ServeV3
  PROVE  LinkInv'
  <2> USE <1>ServeV3Keeps
  <2> DEFINE p == wire[1]
             s == wire[1].stream
             commits == Commits(p.op, s)
             said == [result |-> ControlResult(p.op, s, p.acked), acked |-> Contiguous,
                      credit |-> Credit]
             r == IF p.op = "DATA" THEN answer ELSE said
  <2>1. wire # <<>> /\ Head(wire) = p
    BY <1>HeadKnown, Zenon DEF ServeV3
  <2>2. /\ p.op \in V3Ops /\ wire' = Tail(wire) /\ UNCHANGED <<b, up, main, worker, line, ground>>
        /\ n' = IF p.op = "DATA" THEN Staged([stream |-> s, index |-> p.acked])
                   ELSE Controlled(p.op, s)
        /\ p.op = "DATA" => answer' = answer
        /\ p.op # "DATA" => Reply(p, ControlResult(p.op, s, p.acked))
        /\ committed' = IF commits THEN Append(committed, s) ELSE committed
    BY <2>1, Zenon DEF ServeV3
  <2>3. /\ p.op \in EraOps(b) /\ s \in Calls /\ s <= b.call /\ p.op # "UPLINK_POLL"
        /\ p.live => LiveFits(b, up, p)
    BY <2>1, <2>2, <1>HeadKnown, Zenon DEF V3Ops
  <2>4. answer' = Replied(p, r, answer)
    BY <2>2, Zenon DEF Reply, Replied
  <2>5. p.live => r = answer \/ (p.op # "UPLINK_POLL" /\ "chunk" \notin DOMAIN r)
    <3> QED
      BY <2>3, Zenon
  <2>6. /\ HistoryOK(b, ground, committed) /\ NodeOK(b, n, ground, committed)
        /\ DrainOK(worker, n, ground, committed) /\ StagingOK(b, n.staging, ground, committed)
        /\ \A t \in n.cached : InSeq(t, committed)
    BY Zenon DEF LinkInv, NodeOK
  <2>7. p.op = "COMMIT" /\ r.result = "OK" => commits \/ InSeq(s, committed)
    <3>1. ASSUME p.op = "COMMIT", r.result = "OK" PROVE commits \/ InSeq(s, committed)
      <4>1. ControlResult("COMMIT", s, p.acked) = "OK"
        BY <3>1, Zenon
      <4>2. Cached(s) \/ Commits("COMMIT", s)
        BY <4>1, <1>CommitReply, Zenon
      <4> QED
        BY <2>6, <3>1, <4>2, Zenon DEF Cached
    <3> QED
      BY <3>1, Zenon
  <2> HIDE DEF r
  <2>8. CASE ~commits
    <3>1. committed' = committed /\ ground' = ground /\ worker' = worker
      BY <2>2, <2>8, Zenon
    <3>2. NodeOK(b, n', ground, committed) /\ DrainOK(worker, n', ground, committed)
      BY <2>1, <2>2, <2>8, <1>ControlKeeps, Zenon
    <3>3. Honest(p, r, ground, committed)
      BY <2>2, <2>7, <2>8, Zenon DEF Honest, V3Ops
    <3>4. Grows(p, ground, committed, ground, committed)
      BY GrowsSame, Zenon
    <3>5. Serves(r)
      BY <2>1, <2>2, <2>4, <2>5, <3>1, <3>3, <3>4, Zenon DEF Serves
    <3> QED
      BY <2>6, <3>1, <3>2, <3>5, <1>ServesKeep, Zenon
  <2>9. CASE commits
    <3>1. p.op = "COMMIT" /\ committed' = Append(committed, s) /\ ground' = ground /\ worker' = worker
      BY <2>2, <2>9, Zenon DEF Commits
    <3>2. n' = Enqueued(s, {s})
      BY <2>2, <2>9, <3>1, <1>ControlledCommits, Zenon
    <3>3. n.staging.active /\ n.staging.stream = s
      BY <2>9, <1>CommitReply, Zenon DEF Commits
    <3>4. Fresh(s, ground, committed) /\ ~InV1(b) /\ s \in Nat
      BY <2>6, <3>3 DEF StagingOK, Calls
    <3>5. /\ HistoryOK(b, ground, committed') /\ NodeOK(b, n', ground, committed')
          /\ DrainOK(worker, n', ground, committed')
      BY <2>3, <2>6, <3>1, <3>2, <3>4, <1>EnqueueKeeps, Zenon
    <3>6. /\ InSeq(s, committed') /\ (\A t : InSeq(t, committed) => InSeq(t, committed'))
          /\ \A t : Fresh(t, ground, committed) /\ s < t => Fresh(t, ground, committed')
      BY <2>3, <2>6, <3>1, <3>4, <1>CommitHistory, Zenon
    <3>7. Grows(p, ground, committed, ground, committed')
      BY <3>1, <3>6, Zenon DEF Grows, Effective
    <3>8. Honest(p, r, ground, committed')
      BY <3>1, <3>6, Zenon DEF Honest
    <3>9. Serves(r)
      BY <2>1, <2>2, <2>4, <2>5, <3>4, <3>6, <3>7, <3>8, Zenon DEF Serves
    <3> QED
      BY <3>1, <3>5, <3>9, <1>ServesKeep, Zenon
  <2> QED
    BY <2>8, <2>9, Zenon

\* What a STAGE request does when it does not commit.
<1>StageCases.
  ASSUME NEW s, NEW i, ~StageCommits(s, i)
  PROVE  \/ StagedV2(s, i) = [n EXCEPT !.staging = Staging(s)]
         \/ /\ StagedV2(s, i) =
                 [n EXCEPT !.staging = [Staging(s) EXCEPT !.got = n.staging.got \cup {i}]]
            /\ StageResult(s, i) = "OK" /\ ~Repeated(s, i) /\ ~IsLast(s, i)
         \/ StagedV2(s, i) = n
    BY <1>StageCases, Zenon DEF StagedV2

\* A frame taken for the first time is the next one of its stream.
<1>TakenInOrder.
  ASSUME NEW s, NEW i, StageResult(s, i) = "OK", ~Repeated(s, i)
  PROVE  n.staging.active => n.staging.stream = s
  <2> USE <1>TakenInOrder
  <2>1. InOrder(s, i)
    BY Zenon DEF StageResult
  <2> QED
    BY <2>1, Zenon DEF InOrder, MineV2

\* A STAGE request that does not commit changes at most the staging area, and
\* answers OK for a last frame only if the stream was committed before.
<1>StageKeeps.
  ASSUME LinkInv, wire # <<>>, wire[1].op = "STAGE",
         ~StageCommits(wire[1].stream, wire[1].acked),
         NEW z, z = StagedV2(wire[1].stream, wire[1].acked)
  PROVE  /\ NodeOK(b, z, ground, committed) /\ DrainOK(worker, z, ground, committed)
         /\ StageResult(wire[1].stream, wire[1].acked) = "OK" /\ IsLast(wire[1].stream, wire[1].acked)
              => InSeq(wire[1].stream, committed)
  <2> USE <1>StageKeeps
  <2> DEFINE s == wire[1].stream
             i == wire[1].acked
  <2>1. /\ wire[1].op \in EraOps(b) /\ s \in Calls /\ i \in Nat /\ Fresh(s, ground, committed)
    BY <1>HeadKnown, Zenon DEF Starts, PacketOK
  <2>2. b.policy = "V2_ONLY" /\ ~InV1(b)
    BY <2>1, Zenon DEF EraOps, InV1
  <2>3. /\ NodeOK(b, n, ground, committed) /\ DrainOK(worker, n, ground, committed)
        /\ StagingOK(b, n.staging, ground, committed) /\ \A t \in n.cached : InSeq(t, committed)
    BY Zenon DEF LinkInv, NodeOK
  <2>4. FramesOf[s] \in Nat /\ s \in Nat \ {0}
    BY <2>1, LinkAssumption, SMTT(30) DEF Calls
  <2>5. NodeOK(b, z, ground, committed) /\ DrainOK(worker, z, ground, committed)
    <3>1. ASSUME NEW t, StagingOK(b, t, ground, committed), z = [n EXCEPT !.staging = t]
          PROVE  NodeOK(b, z, ground, committed) /\ DrainOK(worker, z, ground, committed)
      BY <2>3, <3>1, StagingKeeps, Zenon
    <3>2. CASE z = [n EXCEPT !.staging = Staging(s)]
      BY <2>1, <2>2, <3>1, <3>2, <1>StagingFresh, Zenon
    <3>3. CASE /\ z = [n EXCEPT !.staging = [Staging(s) EXCEPT !.got = n.staging.got \cup {i}]]
               /\ StageResult(s, i) = "OK" /\ ~Repeated(s, i) /\ ~IsLast(s, i)
      <4> DEFINE t == [Staging(s) EXCEPT !.got = n.staging.got \cup {i}]
      <4>1. /\ DOMAIN t = {"active", "stream", "got"} /\ t.active = TRUE /\ t.stream = s
            /\ t.got = n.staging.got \cup {i}
        BY <2>4, Zenon DEF Staging
      <4>2. FramesOf[s] - 1 # i
        <5>1. i + 1 # FramesOf[s]
          BY <3>3, Zenon DEF IsLast
        <5> QED
          BY <2>4, <5>1
      <4>3. n.staging.active => n.staging.stream = s
        BY <3>3, <1>TakenInOrder, Zenon
      <4>4. FramesOf[s] - 1 \notin n.staging.got
        BY <2>2, <2>3, <4>3, Zenon DEF StagingOK
      <4> HIDE DEF t
      <4>5. FramesOf[s] - 1 \notin t.got
        BY <4>1, <4>2, <4>4, Zenon
      <4>6. StagingOK(b, t, ground, committed)
        BY <2>1, <2>2, <4>1, <4>5, Zenon DEF StagingOK
      <4> QED
        BY <3>1, <3>3, <4>6, Zenon DEF t
    <3>4. CASE z = n
      BY <2>3, <3>4, Zenon
    <3> QED
      BY <3>2, <3>3, <3>4, <1>StageCases, Zenon
  <2>6. ASSUME StageResult(s, i) = "OK", IsLast(s, i) PROVE InSeq(s, committed)
    <3>1. Repeated(s, i)
      BY <2>6, Zenon DEF StageCommits
    <3>2. FramesOf[s] - 1 = i
      <4>1. i + 1 = FramesOf[s]
        BY <2>6, Zenon DEF IsLast
      <4>2. \A a, m \in Nat : a + 1 = m => m - 1 = a
        OBVIOUS
      <4> QED
        BY <2>1, <2>4, <4>1, <4>2, Zenon
    <3>3. ~(MineV2(s) /\ i \in n.staging.got)
      BY <2>2, <2>3, <3>2, Zenon DEF MineV2, StagingOK
    <3> QED
      BY <2>3, <3>1, <3>3, Zenon DEF Repeated, Cached
  <2> QED
    BY <2>5, <2>6, Zenon

\* handleDownlinkStageV2_, handleDownlinkStatusV2_ and handleDownlinkAbortV2_.
<1>ServeV2Keeps.
  ASSUME LinkInv, ServeV2
  PROVE  LinkInv'
  <2> USE <1>ServeV2Keeps
  <2> DEFINE p == wire[1]
             s == wire[1].stream
             i == wire[1].acked
             commits == StageCommits(s, i)
  <2>1. wire # <<>> /\ Head(wire) = p
    BY <1>HeadKnown, Zenon DEF ServeV2
  <2>2. wire' = Tail(wire) /\ UNCHANGED <<b, up, main, worker, line, ground>>
    BY Zenon DEF ServeV2
  <2>3. \/ /\ p.op = "STAGE" /\ n' = StagedV2(s, i) /\ ReplyV2(p, StageResult(s, i))
           /\ committed' = IF commits THEN Append(committed, s) ELSE committed
        \/ p.op = "STATUS_V2" /\ ReplyV2(p, "OK") /\ UNCHANGED <<n, committed>>
        \/ p.op = "ABORT_V2" /\ n' = AbortedV2(s) /\ ReplyV2(p, "OK") /\ UNCHANGED committed
    BY <2>1, Zenon DEF ServeV2
  <2>4. /\ HistoryOK(b, ground, committed) /\ NodeOK(b, n, ground, committed)
        /\ DrainOK(worker, n, ground, committed)
    BY Zenon DEF LinkInv
  <2>5. ASSUME NEW result, ReplyV2(p, result), p.op # "UPLINK_POLL",
               HistoryOK(b, ground, committed'), NodeOK(b, n', ground, committed'),
               DrainOK(worker, n', ground, committed'), Grows(p, ground, committed, ground, committed'),
               \A r : r.result = result => Honest(p, r, ground, committed'),
               \A t : InSeq(t, committed) => InSeq(t, committed'), InV1(b) => committed' = committed
        PROVE  LinkInv'
    <3> DEFINE r == [result |-> result, connected |-> line.open]
    <3>1. answer' = Replied(p, r, answer)
      BY <2>5, Zenon DEF ReplyV2, Replied
    <3>2. r.result = result /\ "chunk" \notin DOMAIN r
      BY Zenon
    <3> HIDE DEF r
    <3>3. Serves(r)
      BY <2>1, <2>2, <2>5, <3>1, <3>2, Zenon DEF Serves
    <3> QED
      BY <2>2, <2>5, <3>3, <1>ServesKeep, Zenon
  <2>6. Grows(p, ground, committed, ground, committed)
    BY GrowsSame, Zenon
  <2>7. CASE p.op = "STATUS_V2" /\ ReplyV2(p, "OK") /\ UNCHANGED <<n, committed>>
    <3>1. \A r : Honest(p, r, ground, committed)
      BY <2>7, Zenon DEF Honest
    <3> QED
      BY <2>4, <2>5, <2>6, <2>7, <3>1, Zenon
  <2>8. CASE p.op = "ABORT_V2" /\ n' = AbortedV2(s) /\ ReplyV2(p, "OK") /\ UNCHANGED committed
    <3>1. \A r : Honest(p, r, ground, committed)
      BY <2>8, Zenon DEF Honest
    <3>2. n' = n \/ n' = [n EXCEPT !.staging = Staging(0)]
      BY <2>8, Zenon DEF AbortedV2
    <3>3. NodeOK(b, n', ground, committed) /\ DrainOK(worker, n', ground, committed)
      BY <2>4, <3>2, StagingEmpty, StagingKeeps, Zenon
    <3> QED
      BY <2>4, <2>5, <2>6, <2>8, <3>1, <3>3, Zenon
  <2>9. CASE /\ p.op = "STAGE" /\ n' = StagedV2(s, i) /\ ReplyV2(p, StageResult(s, i))
             /\ committed' = IF commits THEN Append(committed, s) ELSE committed
    <3>1. /\ p.op \in EraOps(b) /\ s \in Calls /\ s <= b.call /\ Fresh(s, ground, committed)
      BY <2>1, <2>9, <1>HeadKnown, Zenon DEF Starts
    <3>2. ~InV1(b) /\ s \in Nat
      BY <2>9, <3>1 DEF EraOps, InV1, Calls
    <3>3. CASE ~commits
      <4>1. committed' = committed
        BY <2>9, <3>3, Zenon
      <4>2. /\ NodeOK(b, n', ground, committed) /\ DrainOK(worker, n', ground, committed)
            /\ StageResult(s, i) = "OK" /\ IsLast(s, i) => InSeq(s, committed)
        BY <2>1, <2>9, <3>3, <1>StageKeeps, Zenon
      <4>3. \A r : r.result = StageResult(s, i) => Honest(p, r, ground, committed)
        BY <2>9, <3>1, <4>2, Zenon DEF Honest
      <4> QED
        BY <2>4, <2>5, <2>6, <2>9, <4>1, <4>2, <4>3, Zenon
    <3>4. CASE commits
      <4>1. committed' = Append(committed, s) /\ IsLast(s, i) /\ StageResult(s, i) = "OK"
        BY <2>9, <3>4, Zenon DEF StageCommits
      <4>2. n' = Enqueued(s, n.cached \cup {s})
        BY <2>9, <3>4, <4>1, Zenon DEF StagedV2
      <4>3. /\ HistoryOK(b, ground, committed') /\ NodeOK(b, n', ground, committed')
            /\ DrainOK(worker, n', ground, committed')
        BY <2>4, <3>1, <4>1, <4>2, <1>EnqueueKeeps, Zenon
      <4>4. /\ InSeq(s, committed') /\ (\A t : InSeq(t, committed) => InSeq(t, committed'))
            /\ \A t : Fresh(t, ground, committed) /\ s < t => Fresh(t, ground, committed')
        BY <2>4, <3>1, <3>2, <4>1, <1>CommitHistory, Zenon
      <4>5. Grows(p, ground, committed, ground, committed')
        BY <2>9, <4>4, Zenon DEF Grows, Effective
      <4>6. \A r : r.result = StageResult(s, i) => Honest(p, r, ground, committed')
        BY <2>9, <4>1, <4>4, Zenon DEF Honest
      <4> QED
        BY <2>5, <2>9, <3>2, <4>3, <4>4, <4>5, <4>6, Zenon
    <3> QED
      BY <3>3, <3>4, Zenon
  <2> QED
    BY <2>3, <2>7, <2>8, <2>9, Zenon

\* While the backend is in V1 the node's queue is empty and its worker idle.
<1>QuietInV1.
  ASSUME LinkInv, InV1(b)
  PROVE  committed = <<>> /\ n.queue = <<>> /\ worker.step \notin {"WRITE", "CONFIRM"} /\ ~n.staging.active
  <2> USE <1>QuietInV1
  <2>1. committed = <<>>
    BY Zenon DEF LinkInv, BackOK
  <2>2. \A t : ~InSeq(t, committed)
    BY <2>1 DEF InSeq
  <2>3. n.queue \in Seq(Sent) /\ \A i \in 1 .. Len(n.queue) : InSeq(n.queue[i].stream, committed)
    BY Zenon DEF LinkInv, NodeOK
  <2>4. n.queue = <<>>
    <3>1. \A i \in 1 .. Len(n.queue) : FALSE
      BY <2>2, <2>3, Zenon
    <3> QED
      BY <3>1
  <2>5. worker.step \notin {"WRITE", "CONFIRM"}
    BY <2>2, Zenon DEF LinkInv, DrainOK
  <2>6. ~n.staging.active
    BY Zenon DEF LinkInv, NodeOK, StagingOK
  <2> QED
    BY <2>1, <2>4, <2>5, <2>6, Zenon

\* The frame of a WRITE is the next one of the stream on the line, or the first.
<1>WriteFollows.
  ASSUME LinkInv, wire # <<>>, wire[1].op = "WRITE",
         NEW f, f = [stream |-> wire[1].stream, index |-> wire[1].acked]
  PROVE  f \in Sent /\ f.stream = wire[1].stream /\ f.stream <= b.call /\ MayFollow(ground, f)
  <2> USE <1>WriteFollows
  <2>1. /\ wire[1].stream \in Calls /\ wire[1].stream <= b.call /\ wire[1].acked \in Nat
        /\ Starts(wire[1]) => Fresh(wire[1].stream, ground, committed)
    BY <1>HeadKnown, Zenon DEF PacketOK
  <2>2. f \in Sent /\ f.stream = wire[1].stream /\ f.index = wire[1].acked
    BY <2>1 DEF Sent, Calls
  <2>3. 1 \in 1 .. Len(wire) /\ ground \in Seq(Sent)
    BY DEF LinkInv, HistoryOK
  <2>4. CASE wire[1].acked = 0
    <3>1. Fresh(f.stream, ground, committed)
      BY <2>1, <2>4, Zenon DEF Starts
    <3>2. ASSUME ground # <<>> PROVE ground[Len(ground)].stream < f.stream
      <4>1. Len(ground) \in 1 .. Len(ground)
        BY <3>2
      <4> QED
        BY <3>1, <4>1, Zenon DEF Fresh
    <3> QED
      BY <2>1, <2>2, <2>4, <3>2, Zenon DEF MayFollow, Follows, Newer
  <2>5. CASE wire[1].acked # 0
    <3>1. EndsWith(ground, wire[1].stream, wire[1].acked - 1)
      BY <2>3, <2>5, Zenon DEF LinkInv, StreamsInOrder
    <3>2. /\ ground # <<>> /\ ground[Len(ground)].stream = f.stream /\ ground[Len(ground)].index = wire[1].acked - 1
      BY <3>1 DEF EndsWith
    <3>3. f.index = ground[Len(ground)].index + 1
      BY <2>1, <3>2
    <3> QED
      BY <2>1, <2>2, <3>2, <3>3, Zenon DEF MayFollow, Follows
  <2> QED
    BY <2>4, <2>5, Zenon

\* handleDownlinkWrite_.
<1>ServeWriteKeeps.
  ASSUME LinkInv, NEW opens, NEW written \in BOOLEAN, ServeWrite(opens, written)
  PROVE  LinkInv'
  <2> USE <1>ServeWriteKeeps
  <2> DEFINE p == wire[1]
             f == [stream |-> p.stream, index |-> p.acked]
             said == IF written THEN "OK" ELSE "IO_ERROR"
             r == [result |-> said, acked |-> Contiguous, credit |-> Credit]
  <2>1. wire # <<>> /\ Head(wire) = p
    BY <1>HeadKnown, Zenon DEF ServeWrite
  <2>2. /\ p.op = "WRITE" /\ wire' = Tail(wire) /\ UNCHANGED <<b, up, n, worker, committed>>
        /\ Reply(p, said)
        /\ ground' = IF written THEN Append(ground, f) ELSE ground
    BY <2>1, Zenon DEF ServeWrite
  <2>3. answer' = Replied(p, r, answer)
    BY <2>2, Zenon DEF Reply, Replied
  <2>4. r.result = said /\ "chunk" \notin DOMAIN r
    BY Zenon
  <2> HIDE DEF r
  <2>5. /\ HistoryOK(b, ground, committed) /\ NodeOK(b, n, ground, committed)
        /\ DrainOK(worker, n, ground, committed) /\ StagingOK(b, n.staging, ground, committed)
    BY Zenon DEF LinkInv, NodeOK
  <2>6. CASE ~written
    <3>1. ground' = ground /\ r.result # "OK"
      BY <2>2, <2>4, <2>6, Zenon
    <3>2. Honest(p, r, ground, committed)
      BY <2>2, <3>1, Zenon DEF Honest
    <3>3. Grows(p, ground, committed, ground, committed)
      BY GrowsSame, Zenon
    <3>4. Serves(r)
      BY <2>1, <2>2, <2>3, <2>4, <3>1, <3>2, <3>3, Zenon DEF Serves
    <3> QED
      BY <2>2, <2>5, <3>1, <3>4, <1>ServesKeep, Zenon
  <2>7. CASE written
    <3>1. ground' = Append(ground, f)
      BY <2>2, <2>7, Zenon
    <3>2. f \in Sent /\ f.stream = p.stream /\ f.stream <= b.call /\ MayFollow(ground, f)
      BY <2>1, <2>2, <1>WriteFollows, Zenon
    <3>3. /\ HistoryOK(b, ground', committed) /\ Len(ground') = Len(ground) + 1 /\ Len(ground) \in Nat
          /\ ground' # <<>> /\ ground'[Len(ground')] = f
          /\ \A t : Fresh(t, ground, committed) /\ f.stream < t => Fresh(t, ground', committed)
      BY <2>5, <3>1, <3>2, AirHistory
    <3>4. InV1(b)
      <4>1. "WRITE" \in EraOps(b) /\ b.policy \in {"V3", "V2_ONLY"}
        BY <2>1, <2>2, <1>HeadKnown, Zenon DEF LinkInv, BackOK
      <4> QED
        BY <4>1, Zenon DEF EraOps, InV1
    <3>5. n.queue = <<>> /\ worker.step \notin {"WRITE", "CONFIRM"} /\ ~n.staging.active
      BY <3>4, <1>QuietInV1, Zenon
    <3>6. NodeOK(b, n, ground', committed)
      <4>1. StagingOK(b, n.staging, ground', committed)
        BY <2>5, <3>5, Zenon DEF StagingOK
      <4> QED
        BY <2>5, <4>1, Zenon DEF NodeOK
    <3>7. DrainOK(worker, n, ground', committed)
      <4>1. n.flushed \in Nat
        BY <2>5, Zenon DEF NodeOK
      <4>3. n.flushed <= Len(ground')
        BY <2>5, <3>3, <4>1 DEF DrainOK
      <4>4. n.flushed + 0 = n.flushed
        BY <4>1
      <4> QED
        BY <2>5, <3>5, <4>3, <4>4, Zenon DEF DrainOK
    <3>8. Honest(p, r, ground', committed)
      <4>1. EndsWith(ground', p.stream, p.acked)
        BY <3>3, Zenon DEF EndsWith
      <4> QED
        BY <2>2, <4>1, Zenon DEF Honest
    <3>9. Grows(p, ground, committed, ground', committed)
      BY <2>2, <3>3, Zenon DEF Grows, Effective
    <3>10. Serves(r)
      BY <2>1, <2>2, <2>3, <2>4, <3>8, <3>9, Zenon DEF Serves
    <3> QED
      BY <2>2, <3>3, <3>6, <3>7, <3>10, <1>ServesKeep, Zenon
  <2> QED
    BY <2>6, <2>7, Zenon

\* A lost packet is answered by nobody.
<1>LoseKeeps.
  ASSUME LinkInv, Lose
  PROVE  LinkInv'
  <2> USE <1>LoseKeeps
  <2>1. wire # <<>> /\ wire' = Tail(wire) /\ UNCHANGED <<b, answer, up, n, worker, ground, committed>>
    BY Zenon DEF Lose, NodeSame
  <2>2. /\ HistoryOK(b, ground, committed) /\ NodeOK(b, n, ground, committed)
        /\ DrainOK(worker, n, ground, committed) /\ WireOK(b, up, wire, answer)
        /\ StreamsInOrder(wire, ground, committed)
    BY Zenon DEF LinkInv
  <2>3. answer' = Replied(wire[1], answer, answer)
    BY <2>1, Zenon DEF Replied
  <2>4. Grows(wire[1], ground, committed, ground, committed)
    BY GrowsSame, Zenon
  <2>5. answer = NoAnswer /\ answer.result = "NONE" /\ 1 \in 1 .. Len(wire)
    BY <2>1, <2>2 DEF WireOK, NoAnswer
  <2>6. Honest(wire[1], answer, ground, committed)
    <3>1. wire[1].op = "STAGE" => Fresh(wire[1].stream, ground, committed)
      BY <2>2, <2>5, Zenon DEF StreamsInOrder, Starts
    <3> QED
      BY <2>5, <3>1, Zenon DEF Honest
  <2>7. Serves(answer)
    BY <2>1, <2>3, <2>4, <2>6, Zenon DEF Serves
  <2> QED
    BY <2>1, <2>2, <2>7, <1>ServesKeep, Zenon
<1> QED
  BY <1>ServeV3Keeps, <1>ServeV2Keeps, <1>ServeWriteKeeps, <1>LoseKeeps, Zenon
-----------------------------------------------------------------------------
(* The uplink. *)

\* v is u in another step, with the same chunks.
SameChunks(u, v) ==
  /\ DOMAIN v = UpFields /\ v.read = u.read /\ v.dropped = u.dropped
  /\ v.queue = u.queue /\ v.delivered = u.delivered

\* Every element of v is one of q.
Within(v, q) == \A i \in 1 .. Len(v) : \E j \in 1 .. Len(q) : v[i] = q[j]

\* v is u with its queue cut.
Popped(u, v) ==
  /\ DOMAIN v = UpFields /\ v.read = u.read /\ v.dropped = u.dropped /\ v.delivered = u.delivered
  /\ v.rxErrors = u.rxErrors /\ v.step = u.step /\ v.chunk = u.chunk
  /\ v.queue \in Seq(Nat) /\ Increasing(v.queue) /\ Within(v.queue, u.queue)

\* The uplink: GroundLinkDriver::runReceiveOnce_, the chunks the node reads and the polls it serves.
LEMMA UplinkKeeps ==
  LinkInv /\ (Receiving \/ Ingest \/ ServePoll) => LinkInv'

\* A step of the uplink's driver leaves the rest of the system alone.
<1>UplinkStepKeeps.
  ASSUME LinkInv, UNCHANGED <<b, n, worker, ground, committed>>,
         WireOK(b, up', wire', answer'), StreamsInOrder(wire', ground, committed),
         PhaseOK(b, wire', answer', ground, committed), UplinkOK(up', wire', answer')
  PROVE  LinkInv'
    BY <1>UplinkStepKeeps, Zenon DEF LinkInv

\* The wire knows of the uplink only whether it waits for a poll.
<1>WireStep.
  ASSUME NEW x, NEW u, NEW w, NEW a, WireOK(x, u, w, a), NEW v,
         v.step = u.step \/ (u.step # "POLL" /\ v.step # "POLL")
  PROVE  WireOK(x, v, w, a)
    BY <1>WireStep, Zenon DEF WireOK, LiveFits

<1>SameOrdered.
  ASSUME NEW u, NEW v, UpOrdered(u), SameChunks(u, v), v.rxErrors \in Nat
  PROVE  UpOrdered(v) /\ \A k : Between(k, u) => Between(k, v)
    BY <1>SameOrdered, Zenon DEF UpOrdered, SameChunks, Between

\* receive asks for a chunk.
<1>PollKeeps.
  ASSUME LinkInv, Poll
  PROVE  LinkInv'
  <2> USE <1>PollKeeps
  <2> DEFINE p == Packet("UPLINK_POLL", 0, 0, TRUE)
             q == Append(wire, p)
  <2>1. /\ up.step = "CALL" /\ b.phase = "IDLE" /\ up' = [up EXCEPT !.step = "POLL"]
        /\ wire' = q /\ answer' = NoAnswer
        /\ UNCHANGED <<b, n, worker, ground, committed>>
    BY Zenon DEF Poll, Packet
  <2>2. SameChunks(up, up') /\ up'.step = "POLL" /\ up'.rxErrors = up.rxErrors
    BY <2>1, UplinkKnown, Zenon DEF SameChunks, UpFields
  <2>3. DOMAIN p = PacketFields /\ p.op = "UPLINK_POLL" /\ p.stream = 0 /\ p.live = TRUE
    BY Zenon DEF Packet, PacketFields
  <2> HIDE DEF p
  <2>4. Kept(wire, wire)
    BY <2>1, UplinkKnown, QuietKept, Zenon
  <2>5. /\ IsSeq(q) /\ Len(q) = Len(wire) + 1 /\ Len(wire) \in Nat
        /\ \A i \in 1 .. Len(wire) : q[i] = wire[i]
        /\ q[Len(wire) + 1] = p
    BY UplinkKnown, AppendSeq
  <2>6. StreamsInOrder(q, ground, committed)
    <3>1. ~Starts(p) /\ p.op # "WRITE"
      BY <2>3, Zenon DEF Starts
    <3> QED
      BY <2>4, <3>1, UplinkKnown, AskOrder, Zenon
  <2>7. WireOK(b, up', q, NoAnswer)
    <3>1. PacketOK(b, p)
      <4>1. 0 \in 0 .. b.call
        BY AtOutset
      <4>2. "UPLINK_POLL" \in EraOps(b) /\ "UPLINK_POLL" \notin {"STAGE", "WRITE"}
        BY Zenon DEF EraOps
      <4> QED
        BY <2>3, <4>1, <4>2, Zenon DEF PacketOK
    <3>2. LiveFits(b, up', p)
      BY <2>2, <2>3, Zenon DEF LiveFits
    <3>3. \A i \in 1 .. Len(wire) : PacketOK(b, wire[i]) /\ ~wire[i].live
      BY <2>4, UplinkKnown, Zenon DEF WireOK, Kept
    <3>4. ASSUME NEW i \in 1 .. Len(q)
          PROVE  PacketOK(b, q[i]) /\ (q[i].live => i = Len(q) /\ LiveFits(b, up', q[i]))
      <4>1. CASE i \in 1 .. Len(wire)
        BY <2>5, <3>3, <4>1, Zenon
      <4>2. CASE i = Len(wire) + 1
        BY <2>5, <3>1, <3>2, <4>2, Zenon
      <4> QED
        BY <4>1, <4>2
    <3> HIDE DEF q
    <3> QED
      BY <2>1, <2>5, <3>4, Zenon DEF WireOK
  <2>8. UplinkOK(up', q, NoAnswer)
    <3>1. UpOrdered(up')
      BY <2>2, UplinkKnown, <1>SameOrdered, Zenon
    <3>2. "chunk" \notin DOMAIN NoAnswer /\ "chunk" \notin DOMAIN answer
      BY <2>1, UplinkKnown, Zenon DEF UpHeld, NoAnswer
    <3>3. UpHeld(up', NoAnswer)
      BY <2>2, <3>2, Zenon DEF UpHeld
    <3>4. Holding(up', NoAnswer) = Holding(up, answer)
      BY <2>1, <2>2, <3>2, Zenon DEF Holding
    <3>5. PICK k : Counts(k, wire) /\ up.read + k[Len(wire)] <=
            Len(up.queue) + Holding(up, answer) + Len(up.delivered) + up.dropped + up.rxErrors
      BY BalanceKnown, Zenon
    <3>6. ~Deserted(p)
      BY <2>3, Zenon DEF Deserted
    <3>7. PICK m : Counts(m, Append(wire, p)) /\ m[Len(Append(wire, p))] = k[Len(wire)]
      BY <3>5, <3>6, UplinkKnown, CountsAppend, Zenon
    <3>8. Counts(m, q) /\ up'.read + m[Len(q)] <=
            Len(up'.queue) + Holding(up', NoAnswer) + Len(up'.delivered) + up'.dropped + up'.rxErrors
      BY <2>2, <3>4, <3>5, <3>7, Zenon DEF SameChunks
    <3>9. UpBalanced(up', q, NoAnswer)
      BY <3>8, Zenon DEF UpBalanced
    <3> QED
      BY <3>1, <3>3, <3>9, Zenon DEF UplinkOK
  <2>9. PhaseOK(b, q, NoAnswer, ground, committed)
    BY <2>1, IdlePhase, Zenon
  <2> QED
    BY <2>1, <2>6, <2>7, <2>8, <2>9, <1>UplinkStepKeeps, Zenon

\* The answer is taken: no chunk, or one to deliver.
<1>PolledKeeps.
  ASSUME LinkInv, Polled
  PROVE  LinkInv'
  <2> USE <1>PolledKeeps
  <2>1. /\ up.step = "POLL" /\ answer # NoAnswer /\ answer' = NoAnswer
        /\ UNCHANGED <<b, wire, n, worker, ground, committed>>
        /\ up' = IF answer.result = "NO_CHUNK" THEN [up EXCEPT !.step = "CALL"]
                 ELSE [up EXCEPT !.step = "DELIVER", !.chunk = answer.chunk]
    BY Zenon DEF Polled
  <2>2. wire = <<>> /\ b.phase = "IDLE" /\ Len(wire) = 0
    BY <2>1, UplinkKnown, Zenon DEF WireOK
  <2>3. /\ SameChunks(up, up') /\ up'.step # "POLL" /\ up'.rxErrors = up.rxErrors
        /\ answer.result = "NO_CHUNK" => up'.step = "CALL"
        /\ answer.result # "NO_CHUNK" => up'.step = "DELIVER" /\ up'.chunk = answer.chunk
    BY <2>1, UplinkKnown, Zenon DEF SameChunks, UpFields
  <2>4. WireOK(b, up', wire, NoAnswer)
    BY <2>2, UplinkKnown DEF WireOK
  <2>5. /\ answer.result # "NO_CHUNK" => "chunk" \in DOMAIN answer /\ Between(answer.chunk, up)
        /\ answer.result = "NO_CHUNK" => "chunk" \notin DOMAIN answer
    BY <2>1, UplinkKnown, Zenon DEF UpHeld
  <2>6. UpOrdered(up') /\ \A k : Between(k, up) => Between(k, up')
    BY <2>3, UplinkKnown, <1>SameOrdered, Zenon
  <2>7. "chunk" \notin DOMAIN NoAnswer
    BY Zenon DEF NoAnswer
  <2>8. UpHeld(up', NoAnswer)
    BY <2>3, <2>5, <2>6, <2>7, Zenon DEF UpHeld
  <2>9. Holding(up', NoAnswer) = Holding(up, answer)
    <3>1. CASE answer.result = "NO_CHUNK"
      <4>1. up'.step # "DELIVER" /\ up.step # "DELIVER"
        BY <2>1, <2>3, <3>1, Zenon
      <4> QED
        BY <2>5, <2>7, <3>1, <4>1, Zenon DEF Holding
    <3>2. CASE answer.result # "NO_CHUNK"
      BY <2>3, <2>5, <3>2, Zenon DEF Holding
    <3> QED
      BY <3>1, <3>2, Zenon
  <2>10. UpBalanced(up', wire, NoAnswer)
    <3>1. PICK k : Counts(k, wire) /\ up.read + k[Len(wire)] <=
            Len(up.queue) + Holding(up, answer) + Len(up.delivered) + up.dropped + up.rxErrors
      BY BalanceKnown, Zenon
    <3>2. up'.read + k[Len(wire)] <=
            Len(up'.queue) + Holding(up', NoAnswer) + Len(up'.delivered) + up'.dropped + up'.rxErrors
      BY <2>3, <2>9, <3>1, Zenon DEF SameChunks
    <3> QED
      BY <3>1, <3>2, Zenon DEF UpBalanced
  <2>11. PhaseOK(b, wire, NoAnswer, ground, committed)
    BY <2>2, IdlePhase, Zenon
  <2>12. UplinkOK(up', wire, NoAnswer)
    BY <2>6, <2>8, <2>10, Zenon DEF UplinkOK
  <2> QED
    BY <2>1, <2>4, <2>11, <2>12, UplinkKnown, <1>UplinkStepKeeps, Zenon

\* A poll is given up: its packet may still be served.
<1>CountsAbandoned.
  ASSUME NEW x, NEW u, NEW w, NEW a, WireOK(x, u, w, a), NEW q, Kept(q, w), NEW k, Counts(k, w)
  PROVE  \E m : Counts(m, q) /\ m[Len(q)] = k[Len(w)] + 1
  <2> USE <1>CountsAbandoned
  <2> DEFINE len == Len(w)
             m == [i \in 0 .. len |-> IF i = len THEN k[len] + 1 ELSE k[i]]
  <2>1. Len(q) = len /\ len \in Nat
    BY LenSeq, Zenon DEF Kept
  <2> HIDE DEF len
  <2>2. k \in [0 .. len -> Nat] /\ \A i, j \in 0 .. len : i <= j => k[i] <= k[j]
    BY Zenon DEF Counts, len
  <2>3. /\ m \in [0 .. len -> Nat] /\ m[len] = k[len] + 1
        /\ \A i \in 0 .. len : i # len => m[i] = k[i]
    BY <2>1, <2>2
  <2> HIDE DEF m
  <2>4. ASSUME NEW i \in 0 .. len, NEW j \in 0 .. len, i <= j PROVE m[i] <= m[j]
    <3>1. k[i] <= k[j] /\ k[i] \in Nat /\ k[j] \in Nat /\ k[len] \in Nat /\ k[i] <= k[len]
      BY <2>1, <2>2, <2>4
    <3>2. CASE j = len
      <4>1. m[j] = k[len] + 1 /\ (m[i] = k[i] \/ m[i] = k[len] + 1)
        BY <2>3, <3>2, Zenon
      <4> QED
        BY <3>1, <4>1
    <3>3. CASE j # len
      <4>1. i # len
        BY <2>4, <3>3
      <4> QED
        BY <2>3, <3>1, <3>3, <4>1, Zenon
    <3> QED
      BY <3>2, <3>3, Zenon
  <2>5. ASSUME NEW i \in 1 .. len, Deserted(q[i]) PROVE m[i - 1] < m[i]
    <3>1. i - 1 \in 0 .. len /\ i \in 0 .. len /\ i - 1 # len /\ i - 1 <= i
      BY <2>1
    <3>2. m[i - 1] = k[i - 1] /\ k[i - 1] <= k[i] /\ k[i - 1] \in Nat /\ k[i] \in Nat
      BY <2>2, <2>3, <3>1, Zenon
    <3>3. CASE i = len
      BY <2>3, <3>2, <3>3
    <3>4. CASE i # len
      <4>1. ~w[i].live /\ q[i].op = w[i].op
        BY <3>4, Zenon DEF WireOK, Kept, len
      <4>2. Deserted(w[i])
        BY <2>5, <4>1, Zenon DEF Deserted
      <4>3. k[i - 1] < k[i]
        BY <4>2, Zenon DEF Counts, len
      <4> QED
        BY <2>3, <3>1, <3>4, <4>3, Zenon
    <3> QED
      BY <3>3, <3>4, Zenon
  <2>6. Counts(m, q) /\ m[Len(q)] = k[len] + 1
    BY <2>1, <2>3, <2>4, <2>5, Zenon DEF Counts
  <2> QED
    BY <2>6, Zenon DEF len

<1>PollTimeoutKeeps.
  ASSUME LinkInv, PollTimeout
  PROVE  LinkInv'
  <2> USE <1>PollTimeoutKeeps
  <2> DEFINE q == Abandoned(wire)
  <2>1. /\ up.step = "POLL" /\ answer = NoAnswer /\ answer' = answer /\ wire' = q
        /\ UNCHANGED <<b, n, worker, ground, committed>>
        /\ up' = [up EXCEPT !.step = "CALL", !.rxErrors = @ + 1]
    BY Zenon DEF PollTimeout
  <2>2. b.phase = "IDLE" /\ b.call \in Nat
    BY <2>1, AtOutset, Zenon
  <2>3. SameChunks(up, up') /\ up'.step = "CALL" /\ up'.rxErrors = up.rxErrors + 1 /\ up'.rxErrors \in Nat
    BY <2>1, UplinkKnown DEF SameChunks
  <2>4. Kept(q, wire)
    BY WireKept, Zenon
  <2> HIDE DEF q
  <2>5. WireOK(b, up', q, answer)
    <3>1. IsSeq(q)
      BY <2>4, Zenon DEF Kept
    <3>2. \A s : Later(b, b, s)
      <4>1. b.call <= b.call
        BY <2>2
      <4> QED
        BY <4>1, Zenon DEF Later
    <3>3. \A i \in 1 .. Len(q) : PacketOK(b, q[i]) /\ ~q[i].live
      BY <2>2, <2>4, <3>2, UplinkKnown, KeptPacket, Zenon
    <3>4. b.phase # "SEND" /\ up'.step # "POLL"
      BY <2>2, <2>3, Zenon
    <3> QED
      BY <2>1, <3>1, <3>3, <3>4, Zenon DEF WireOK
  <2>6. StreamsInOrder(q, ground, committed)
    <3>1. Len(q) = Len(wire) /\ \A i \in 1 .. Len(wire) :
            /\ q[i].op = wire[i].op /\ q[i].stream = wire[i].stream /\ q[i].acked = wire[i].acked
            /\ Starts(q[i]) <=> Starts(wire[i])
      BY <2>4, Zenon DEF Kept, Starts
    <3> QED
      BY <3>1, UplinkKnown, Zenon DEF StreamsInOrder
  <2>7. UplinkOK(up', q, answer)
    <3>1. UpOrdered(up')
      BY <2>3, UplinkKnown, <1>SameOrdered, Zenon
    <3>2. "chunk" \notin DOMAIN answer
      BY <2>1, Zenon DEF NoAnswer
    <3>3. UpHeld(up', answer)
      BY <2>3, <3>2, Zenon DEF UpHeld
    <3>4. Holding(up', answer) = 0 /\ Holding(up, answer) = 0
      BY <2>1, <2>3, <3>2, Zenon DEF Holding
    <3>5. PICK k : Counts(k, wire) /\ k[Len(wire)] \in Nat /\ up.read + k[Len(wire)] <=
            Len(up.queue) + Holding(up, answer) + Len(up.delivered) + up.dropped + up.rxErrors
      BY BalanceKnown, Zenon
    <3>6. PICK m : Counts(m, q) /\ m[Len(q)] = k[Len(wire)] + 1
      BY <2>4, <3>5, UplinkKnown, <1>CountsAbandoned, Zenon
    <3>7. up.read + (k[Len(wire)] + 1) <=
            Len(up.queue) + 0 + Len(up.delivered) + up.dropped + (up.rxErrors + 1)
      <4>1. \A r, e, l, v, d, x \in Nat : r + e <= l + 0 + v + d + x => r + (e + 1) <= l + 0 + v + d + (x + 1)
        OBVIOUS
      <4>2. up.read + k[Len(wire)] <= Len(up.queue) + 0 + Len(up.delivered) + up.dropped + up.rxErrors
        BY <3>4, <3>5, Zenon
      <4> QED
        BY <3>5, <4>1, <4>2, UplinkKnown, Zenon
    <3>8. up'.read + m[Len(q)] <=
            Len(up'.queue) + Holding(up', answer) + Len(up'.delivered) + up'.dropped + up'.rxErrors
      BY <2>3, <3>4, <3>6, <3>7, Zenon DEF SameChunks
    <3>9. UpBalanced(up', q, answer)
      BY <3>6, <3>8, Zenon DEF UpBalanced
    <3> QED
      BY <3>1, <3>3, <3>9, Zenon DEF UplinkOK
  <2>8. PhaseOK(b, q, answer, ground, committed)
    BY <2>2, IdlePhase, Zenon
  <2> QED
    BY <2>1, <2>5, <2>6, <2>7, <2>8, <1>UplinkStepKeeps, Zenon

\* A larger chunk at the end, or the first one taken, keeps the order.
<1>AppendIncreasing.
  ASSUME NEW q \in Seq(Nat), Increasing(q), NEW k \in Nat, \A i \in 1 .. Len(q) : q[i] < k
  PROVE  /\ Append(q, k) \in Seq(Nat) /\ Increasing(Append(q, k)) /\ Len(Append(q, k)) = Len(q) + 1
         /\ \A i \in 1 .. Len(Append(q, k)) : Append(q, k)[i] = k \/ \E j \in 1 .. Len(q) : Append(q, k)[i] = q[j]
  <2> USE <1>AppendIncreasing
  <2> DEFINE v == Append(q, k)
  <2>1. /\ v \in Seq(Nat) /\ Len(v) = Len(q) + 1 /\ Len(q) \in Nat /\ v[Len(q) + 1] = k
        /\ \A i \in 1 .. Len(q) : v[i] = q[i]
    OBVIOUS
  <2> HIDE DEF v
  <2>2. ASSUME NEW i \in 1 .. Len(v), NEW j \in 1 .. Len(v), i < j PROVE v[i] < v[j]
    <3>1. i \in 1 .. Len(q) /\ (j \in 1 .. Len(q) \/ j = Len(q) + 1)
      <4>1. \A len \in Nat : \A i1, i2 \in 1 .. len + 1 : i1 < i2 => i1 \in 1 .. len /\ (i2 \in 1 .. len \/ i2 = len + 1)
        OBVIOUS
      <4>2. i \in 1 .. Len(q) + 1 /\ j \in 1 .. Len(q) + 1
        BY <2>1, Zenon
      <4> QED
        BY <2>1, <2>2, <4>1, <4>2, Zenon
    <3> QED
      BY <2>1, <2>2, <3>1, Zenon DEF Increasing
  <2>3. ASSUME NEW i \in 1 .. Len(v) PROVE v[i] = k \/ \E j \in 1 .. Len(q) : v[i] = q[j]
    <3>1. i \in 1 .. Len(q) \/ i = Len(q) + 1
      BY <2>1
    <3> QED
      BY <2>1, <3>1, Zenon
  <2>4. v \in Seq(Nat) /\ Increasing(v) /\ Len(v) = Len(q) + 1
    BY <2>1, <2>2, Zenon DEF Increasing
  <2> QED
    BY <2>3, <2>4, Zenon DEF v

<1>TailIncreasing.
  ASSUME NEW q \in Seq(Nat), Increasing(q), q # <<>>
  PROVE  /\ Tail(q) \in Seq(Nat) /\ Increasing(Tail(q)) /\ Len(Tail(q)) = Len(q) - 1 /\ Len(q) \in Nat \ {0}
         /\ Within(Tail(q), q) /\ \A i \in 1 .. Len(Tail(q)) : q[1] < Tail(q)[i]
  <2> USE <1>TailIncreasing
  <2> DEFINE v == Tail(q)
  <2>1. /\ v \in Seq(Nat) /\ Len(v) = Len(q) - 1 /\ Len(q) \in Nat \ {0}
        /\ \A i \in 1 .. Len(q) - 1 : v[i] = q[i + 1]
    OBVIOUS
  <2> HIDE DEF v
  <2>2. ASSUME NEW i \in 1 .. Len(v) PROVE v[i] = q[i + 1] /\ i + 1 \in 1 .. Len(q) /\ 1 \in 1 .. Len(q) /\ 1 < i + 1
    BY <2>1
  <2>3. ASSUME NEW i \in 1 .. Len(v), NEW j \in 1 .. Len(v), i < j PROVE v[i] < v[j]
    <3>1. i + 1 < j + 1
      BY <2>3
    <3> QED
      BY <2>2, <3>1, Zenon DEF Increasing
  <2>4. Increasing(v) /\ Within(v, q) /\ \A i \in 1 .. Len(v) : q[1] < v[i]
    BY <2>2, <2>3, Zenon DEF Increasing, Within
  <2> QED
    BY <2>1, <2>4, Zenon DEF v

\* The chunk goes to the deframer, or is lost and counted.
<1>DeliverKeeps.
  ASSUME LinkInv, NEW allocated \in BOOLEAN, Deliver(allocated)
  PROVE  LinkInv'
  <2> USE <1>DeliverKeeps
  <2> DEFINE k == up.chunk
  <2>1. /\ up.step = "DELIVER" /\ UNCHANGED <<b, wire, answer, n, worker, ground, committed>>
        /\ up' = IF allocated
                 THEN [up EXCEPT !.step = "CALL", !.chunk = 0, !.delivered = Append(@, up.chunk)]
                 ELSE [up EXCEPT !.step = "CALL", !.chunk = 0, !.rxErrors = @ + 1]
    BY Zenon DEF Deliver
  <2>2. Between(k, up) /\ "chunk" \notin DOMAIN answer /\ k \in Nat
    <3> QED
      BY <2>1, UplinkKnown, Zenon DEF UpHeld, Between
  <2>3. /\ DOMAIN up' = UpFields /\ up'.read = up.read /\ up'.dropped = up.dropped
        /\ up'.queue = up.queue /\ up'.step = "CALL"
        /\ \/ allocated /\ up'.delivered = Append(up.delivered, k) /\ up'.rxErrors = up.rxErrors
           \/ ~allocated /\ up'.delivered = up.delivered /\ up'.rxErrors = up.rxErrors + 1
    BY <2>1, UplinkKnown, Zenon DEF UpFields
  <2>4. WireOK(b, up', wire, answer)
    <3>1. up.step # "POLL" /\ up'.step # "POLL"
      BY <2>1, <2>3, Zenon
    <3> QED
      BY <3>1, UplinkKnown, <1>WireStep, Zenon
  <2>5. UpHeld(up', answer)
    BY <2>2, <2>3, Zenon DEF UpHeld
  <2>6. Holding(up, answer) = 1 /\ Holding(up', answer) = 0
    BY <2>1, <2>2, <2>3, Zenon DEF Holding
  <2>7. PICK c : Counts(c, wire) /\ c[Len(wire)] \in Nat /\ up.read + c[Len(wire)] <=
          Len(up.queue) + Holding(up, answer) + Len(up.delivered) + up.dropped + up.rxErrors
    BY BalanceKnown, Zenon
  <2>8. up.read + c[Len(wire)] <= Len(up.queue) + 1 + Len(up.delivered) + up.dropped + up.rxErrors
    BY <2>6, <2>7, Zenon
  <2> HIDE DEF k
  <2>9. CASE allocated
    <3>1. /\ Append(up.delivered, k) \in Seq(Nat) /\ Increasing(Append(up.delivered, k))
          /\ Len(Append(up.delivered, k)) = Len(up.delivered) + 1
          /\ \A i \in 1 .. Len(Append(up.delivered, k)) :
               Append(up.delivered, k)[i] = k \/ \E j \in 1 .. Len(up.delivered) : Append(up.delivered, k)[i] = up.delivered[j]
      <4>1. Increasing(up.delivered) /\ \A i \in 1 .. Len(up.delivered) : up.delivered[i] < k
        BY <2>2, UplinkKnown, Zenon DEF UpOrdered, Between
      <4> QED
        BY <2>2, <4>1, UplinkKnown, <1>AppendIncreasing, Zenon
    <3>2. /\ up'.delivered \in Seq(Nat) /\ Increasing(up'.delivered) /\ up'.rxErrors = up.rxErrors
          /\ Len(up'.delivered) = Len(up.delivered) + 1
          /\ \A i \in 1 .. Len(up'.delivered) :
               up'.delivered[i] = k \/ \E j \in 1 .. Len(up.delivered) : up'.delivered[i] = up.delivered[j]
      BY <2>3, <2>9, <3>1, Zenon
    <3>3. UpOrdered(up')
      BY <2>2, <2>3, <3>2, UplinkKnown, Zenon DEF UpOrdered, Between
    <3>4. up.read + c[Len(wire)] <= Len(up.queue) + 0 + (Len(up.delivered) + 1) + up.dropped + up.rxErrors
      <4>1. \A r, e, l, v, d, x \in Nat : r + e <= l + 1 + v + d + x => r + e <= l + 0 + (v + 1) + d + x
        OBVIOUS
      <4> QED
        BY <2>7, <2>8, <4>1, UplinkKnown, Zenon
    <3>5. up'.read + c[Len(wire)] <=
            Len(up'.queue) + Holding(up', answer) + Len(up'.delivered) + up'.dropped + up'.rxErrors
      BY <2>3, <2>6, <3>2, <3>4, Zenon
    <3> QED
      BY <2>5, <2>7, <3>3, <3>5, <2>1, <2>4, UplinkKnown, <1>UplinkStepKeeps, Zenon DEF UplinkOK, UpBalanced
  <2>10. CASE ~allocated
    <3>1. SameChunks(up, up') /\ up'.rxErrors = up.rxErrors + 1 /\ up'.rxErrors \in Nat
      BY <2>3, <2>10, UplinkKnown DEF SameChunks
    <3>2. UpOrdered(up')
      BY <3>1, UplinkKnown, <1>SameOrdered, Zenon
    <3>3. up.read + c[Len(wire)] <= Len(up.queue) + 0 + Len(up.delivered) + up.dropped + (up.rxErrors + 1)
      <4>1. \A r, e, l, v, d, x \in Nat : r + e <= l + 1 + v + d + x => r + e <= l + 0 + v + d + (x + 1)
        OBVIOUS
      <4> QED
        BY <2>7, <2>8, <4>1, UplinkKnown, Zenon
    <3>4. up'.read + c[Len(wire)] <=
            Len(up'.queue) + Holding(up', answer) + Len(up'.delivered) + up'.dropped + up'.rxErrors
      BY <2>6, <3>1, <3>3, Zenon DEF SameChunks
    <3> QED
      BY <2>5, <2>7, <3>2, <3>4, <2>1, <2>4, UplinkKnown, <1>UplinkStepKeeps, Zenon DEF UplinkOK, UpBalanced
  <2> QED
    BY <2>9, <2>10, Zenon

\* A chunk is read from the line: it is queued, or dropped and counted.
<1>IngestKeeps.
  ASSUME LinkInv, Ingest
  PROVE  LinkInv'
  <2> USE <1>IngestKeeps
  <2> DEFINE k == up.read + 1
             taken == line.open /\ Len(up.queue) < UplinkLimit
  <2>1. /\ UNCHANGED <<b, wire, answer, n, worker, ground, committed>>
        /\ up' = IF taken THEN [up EXCEPT !.read = @ + 1, !.queue = Append(@, up.read + 1)]
                 ELSE [up EXCEPT !.read = @ + 1, !.dropped = @ + 1]
    BY Zenon DEF Ingest
  <2> HIDE DEF taken
  <2>2. /\ DOMAIN up' = UpFields /\ up'.read = k /\ up'.delivered = up.delivered
        /\ up'.rxErrors = up.rxErrors /\ up'.step = up.step /\ up'.chunk = up.chunk
        /\ \/ taken /\ up'.queue = Append(up.queue, k) /\ up'.dropped = up.dropped
           \/ ~taken /\ up'.queue = up.queue /\ up'.dropped = up.dropped + 1
    BY <2>1, UplinkKnown, Zenon DEF UpFields
  <2>3. k \in Nat /\ k <= k /\ \A j \in Nat : j <= up.read => j <= k /\ j < k
    BY UplinkKnown
  <2>4. /\ Increasing(up.queue) /\ Increasing(up.delivered)
        /\ \A i \in 1 .. Len(up.queue) : up.queue[i] \in Nat /\ up.queue[i] <= up.read
        /\ \A i \in 1 .. Len(up.delivered) : up.delivered[i] \in Nat /\ up.delivered[i] <= up.read
        /\ \A i \in 1 .. Len(up.delivered), j \in 1 .. Len(up.queue) : up.delivered[i] < up.queue[j]
    BY UplinkKnown DEF UpOrdered
  <2>5. PICK c : Counts(c, wire) /\ c[Len(wire)] \in Nat /\ up.read + c[Len(wire)] <=
          Len(up.queue) + Holding(up, answer) + Len(up.delivered) + up.dropped + up.rxErrors
    BY BalanceKnown, Zenon
  <2>6. Holding(up', answer) = Holding(up, answer) /\ Holding(up, answer) \in Nat
    BY <2>2, Zenon DEF Holding
  <2>7. WireOK(b, up', wire, answer)
    BY <2>2, UplinkKnown, <1>WireStep, Zenon
  <2>8. ASSUME \A i \in 1 .. Len(up'.queue) :
                 up'.queue[i] = k \/ \E j \in 1 .. Len(up.queue) : up'.queue[i] = up.queue[j],
               up'.queue \in Seq(Nat), Increasing(up'.queue), up'.dropped \in Nat,
               k + c[Len(wire)] <=
                 Len(up'.queue) + Holding(up, answer) + Len(up.delivered) + up'.dropped + up.rxErrors
        PROVE  LinkInv'
    <3> HIDE DEF k
    <3>1. UpOrdered(up')
      BY <2>2, <2>3, <2>4, <2>8, UplinkKnown, Zenon DEF UpOrdered
    <3>2. ASSUME NEW j, Between(j, up) PROVE Between(j, up')
      BY <2>2, <2>3, <2>8, <3>2, Zenon DEF Between
    <3>3. UpHeld(up', answer)
      BY <2>2, <3>2, UplinkKnown, Zenon DEF UpHeld
    <3>4. up'.read + c[Len(wire)] <=
            Len(up'.queue) + Holding(up', answer) + Len(up'.delivered) + up'.dropped + up'.rxErrors
      BY <2>2, <2>6, <2>8, Zenon
    <3>5. UplinkOK(up', wire, answer)
      BY <2>5, <3>1, <3>3, <3>4, Zenon DEF UplinkOK, UpBalanced
    <3> QED
      BY <2>1, <2>7, <3>5, UplinkKnown, <1>UplinkStepKeeps, Zenon
  <2>9. CASE taken
    <3>1. up'.queue = Append(up.queue, k) /\ up'.dropped = up.dropped
      BY <2>2, <2>9, Zenon
    <3> HIDE DEF k
    <3>3. /\ up'.queue \in Seq(Nat) /\ Increasing(up'.queue) /\ Len(up'.queue) = Len(up.queue) + 1
          /\ \A i \in 1 .. Len(up'.queue) :
               up'.queue[i] = k \/ \E j \in 1 .. Len(up.queue) : up'.queue[i] = up.queue[j]
      <4>1. /\ Append(up.queue, k) \in Seq(Nat) /\ Increasing(Append(up.queue, k))
            /\ Len(Append(up.queue, k)) = Len(up.queue) + 1
            /\ \A i \in 1 .. Len(Append(up.queue, k)) :
                 Append(up.queue, k)[i] = k \/ \E j \in 1 .. Len(up.queue) : Append(up.queue, k)[i] = up.queue[j]
        BY <2>3, <2>4, UplinkKnown, <1>AppendIncreasing, Zenon
      <4> QED
        BY <3>1, <4>1, Zenon
    <3>4. k + c[Len(wire)] <=
            (Len(up.queue) + 1) + Holding(up, answer) + Len(up.delivered) + up.dropped + up.rxErrors
      <4>1. \A r, e, l, h, v, d, x \in Nat : r + e <= l + h + v + d + x => (r + 1) + e <= (l + 1) + h + v + d + x
        OBVIOUS
      <4> QED
        BY <2>5, <2>6, <4>1, UplinkKnown, Zenon DEF k
    <3> QED
      BY <2>8, <3>1, <3>3, <3>4, UplinkKnown, Zenon
  <2>10. CASE ~taken
    <3>1. up'.queue = up.queue /\ up'.dropped = up.dropped + 1 /\ up'.dropped \in Nat
      BY <2>2, <2>10, UplinkKnown
    <3>2. k + c[Len(wire)] <=
            Len(up.queue) + Holding(up, answer) + Len(up.delivered) + (up.dropped + 1) + up.rxErrors
      <4>1. \A r, e, l, h, v, d, x \in Nat : r + e <= l + h + v + d + x => (r + 1) + e <= l + h + v + (d + 1) + x
        OBVIOUS
      <4> QED
        BY <2>5, <2>6, <4>1, UplinkKnown, Zenon
    <3> HIDE DEF k
    <3> QED
      BY <2>4, <2>8, <3>1, <3>2, UplinkKnown, Zenon
  <2> QED
    BY <2>9, <2>10, Zenon

<1>PoppedOrdered.
  ASSUME NEW u, NEW v, UpOrdered(u), Popped(u, v)
  PROVE  UpOrdered(v) /\ \A k : Between(k, u) => Between(k, v)
    BY <1>PoppedOrdered, Zenon DEF UpOrdered, Popped, Within, Between

\* The oldest chunk is taken from the queue: for the driver that waits, or for
\* a poll it has given up and counted.
<1>PopKnown.
  ASSUME LinkInv, ServePoll
  PROVE  /\ wire # <<>> /\ wire[1].op = "UPLINK_POLL" /\ answer = NoAnswer
         /\ wire' = Tail(wire) /\ UNCHANGED <<b, n, worker, ground, committed>>
         /\ Popped(up, up') /\ (wire[1].live => up.step = "POLL" /\ b.phase = "IDLE")
         /\ up.queue = <<>> => up'.queue = up.queue
         /\ up.queue # <<>> => /\ up.queue[1] \in Nat /\ Between(up.queue[1], up')
                               /\ Len(up.queue) = Len(up'.queue) + 1 /\ Len(up'.queue) \in Nat
         /\ answer' = Replied(wire[1], IF up.queue = <<>> THEN [result |-> "NO_CHUNK"]
                                       ELSE [result |-> "OK", chunk |-> up.queue[1]], answer)
  <2> USE <1>PopKnown
  <2>1. /\ wire # <<>> /\ Head(wire).op = "UPLINK_POLL" /\ wire' = Tail(wire)
        /\ UNCHANGED <<b, n, worker, ground, committed>>
        /\ up' = [up EXCEPT !.queue = IF @ = <<>> THEN @ ELSE Tail(@)]
        /\ answer' = IF Head(wire).live THEN IF up.queue = <<>> THEN [result |-> "NO_CHUNK"]
                                             ELSE [result |-> "OK", chunk |-> Head(up.queue)]
                     ELSE answer
    BY Zenon DEF ServePoll
  <2>2. Head(wire) = wire[1] /\ 1 \in 1 .. Len(wire)
    BY <2>1
  <2>3. answer = NoAnswer
    BY <2>1, UplinkKnown, Zenon DEF WireOK
  <2>4. ASSUME wire[1].live PROVE up.step = "POLL" /\ b.phase = "IDLE"
    <3>1. LiveFits(b, up, wire[1])
      BY <2>2, <2>4, UplinkKnown, Zenon DEF WireOK
    <3>2. ~Asked(b.phase, wire[1].op)
      BY <2>1, <2>2, Zenon DEF Asked
    <3> QED
      BY <3>1, <3>2, UplinkKnown, Zenon DEF LiveFits, WireOK
  <2>5. /\ DOMAIN up' = UpFields /\ up'.read = up.read /\ up'.dropped = up.dropped
        /\ up'.delivered = up.delivered /\ up'.rxErrors = up.rxErrors /\ up'.step = up.step /\ up'.chunk = up.chunk
        /\ up.queue = <<>> => up'.queue = up.queue
        /\ up.queue # <<>> => up'.queue = Tail(up.queue)
    BY <2>1, UplinkKnown, Zenon DEF UpFields
  <2>6. /\ Increasing(up.queue)
        /\ \A i \in 1 .. Len(up.queue) : up.queue[i] <= up.read
        /\ \A i \in 1 .. Len(up.delivered), j \in 1 .. Len(up.queue) : up.delivered[i] < up.queue[j]
    BY UplinkKnown, Zenon DEF UpOrdered
  <2>7. CASE up.queue = <<>>
    <3>1. Within(up.queue, up.queue)
      BY Zenon DEF Within
    <3>2. Popped(up, up')
      BY <2>5, <2>6, <2>7, <3>1, UplinkKnown, Zenon DEF Popped
    <3> QED
      BY <2>1, <2>2, <2>3, <2>4, <2>5, <2>7, <3>2, Zenon DEF Replied
  <2>8. CASE up.queue # <<>>
    <3>1. /\ Tail(up.queue) \in Seq(Nat) /\ Increasing(Tail(up.queue))
          /\ Len(Tail(up.queue)) = Len(up.queue) - 1 /\ Len(up.queue) \in Nat \ {0}
          /\ Within(Tail(up.queue), up.queue) /\ \A i \in 1 .. Len(Tail(up.queue)) : up.queue[1] < Tail(up.queue)[i]
      BY <2>6, <2>8, UplinkKnown, <1>TailIncreasing, Zenon
    <3>2. Popped(up, up') /\ \A i \in 1 .. Len(up'.queue) : up.queue[1] < up'.queue[i]
      BY <2>5, <2>8, <3>1, Zenon DEF Popped
    <3>3. Head(up.queue) = up.queue[1] /\ 1 \in 1 .. Len(up.queue) /\ up.queue[1] \in Nat
      BY <3>1
    <3>4. Between(up.queue[1], up')
      BY <2>5, <2>6, <3>2, <3>3, Zenon DEF Between
    <3>5. Len(up.queue) = Len(Tail(up.queue)) + 1 /\ Len(Tail(up.queue)) \in Nat
      BY <3>1
    <3>6. Len(up.queue) = Len(up'.queue) + 1 /\ Len(up'.queue) \in Nat
      BY <2>5, <2>8, <3>5, Zenon
    <3> QED
      BY <2>1, <2>2, <2>3, <2>4, <2>8, <3>2, <3>3, <3>4, <3>6, Zenon DEF Replied
  <2> QED
    BY <2>7, <2>8, Zenon

\* The chunk a poll takes goes to the driver, or against the poll's own count.
<1>PopBalance.
  ASSUME LinkInv, ServePoll
  PROVE  UpHeld(up', answer') /\ UpBalanced(up', Tail(wire), answer')
  <2> USE <1>PopBalance
  <2> DEFINE d == IF Deserted(wire[1]) THEN 1 ELSE 0
  <2>1. PICK k : Counts(k, wire) /\ k[Len(wire)] \in Nat /\ up.read + k[Len(wire)] <=
          Len(up.queue) + Holding(up, answer) + Len(up.delivered) + up.dropped + up.rxErrors
    BY BalanceKnown, Zenon
  <2>2. PICK m : Counts(m, Tail(wire)) /\ m[Len(Tail(wire))] = k[Len(wire)] - d
    BY <2>1, <1>PopKnown, UplinkKnown, CountsTail, Zenon
  <2>3. (wire[1].live => d = 0) /\ (~wire[1].live => d = 1)
    BY <1>PopKnown, Zenon DEF Deserted
  <2> HIDE DEF d
  <2>4. "chunk" \notin DOMAIN answer
    BY <1>PopKnown DEF NoAnswer
  <2>5. UpOrdered(up') /\ \A j : Between(j, up) => Between(j, up')
    BY <1>PopKnown, UplinkKnown, <1>PoppedOrdered, Zenon
  <2>6. ASSUME up.read + m[Len(Tail(wire))] <=
                 Len(up'.queue) + Holding(up', answer') + Len(up.delivered) + up.dropped + up.rxErrors
        PROVE  UpBalanced(up', Tail(wire), answer')
    <3>1. up'.read + m[Len(Tail(wire))] <=
            Len(up'.queue) + Holding(up', answer') + Len(up'.delivered) + up'.dropped + up'.rxErrors
      BY <2>6, <1>PopKnown, Zenon DEF Popped
    <3> QED
      BY <2>2, <3>1, Zenon DEF UpBalanced
  <2>7. CASE ~wire[1].live
    <3>1. answer' = answer /\ up'.step = up.step /\ up'.chunk = up.chunk
      BY <2>7, <1>PopKnown, Zenon DEF Replied, Popped
    <3>2. UpHeld(up', answer')
      BY <2>5, <3>1, UplinkKnown, Zenon DEF UpHeld
    <3>3. Holding(up', answer') = Holding(up, answer) /\ Holding(up, answer) \in Nat
      BY <3>1, Zenon DEF Holding
    <3>4. Len(up.queue) <= Len(up'.queue) + 1 /\ Len(up'.queue) \in Nat
      <4>2. up.queue # <<>> => Len(up.queue) = Len(up'.queue) + 1 /\ Len(up'.queue) \in Nat
        BY <1>PopKnown, Zenon
      <4> QED
        BY <4>2
    <3>5. up.read + (k[Len(wire)] - 1) <=
            Len(up'.queue) + Holding(up, answer) + Len(up.delivered) + up.dropped + up.rxErrors
      <4>1. \A r, e, l, h, v, x, y, q \in Nat :
              r + e <= l + h + v + x + y /\ l <= q + 1 => r + (e - 1) <= q + h + v + x + y
        OBVIOUS
      <4> QED
        BY <2>1, <3>3, <3>4, <4>1, UplinkKnown, Zenon
    <3> QED
      BY <2>2, <2>3, <2>6, <2>7, <3>2, <3>3, <3>5, Zenon
  <2>8. CASE wire[1].live /\ up.queue = <<>>
    <3>1. answer' = [result |-> "NO_CHUNK"] /\ up'.step = up.step /\ up'.chunk = up.chunk
      BY <2>8, <1>PopKnown, Zenon DEF Replied, Popped
    <3>3. UpHeld(up', answer')
      BY <2>5, <3>1, UplinkKnown, Zenon DEF UpHeld
    <3>4. Holding(up', answer') = Holding(up, answer)
      BY <2>4, <3>1, Zenon DEF Holding
    <3>5. m[Len(Tail(wire))] = k[Len(wire)]
      BY <2>1, <2>2, <2>3, <2>8
    <3>6. up'.queue = up.queue
      BY <2>8, <1>PopKnown, Zenon
    <3> QED
      BY <2>1, <2>6, <3>3, <3>4, <3>5, <3>6, Zenon
  <2>9. CASE wire[1].live /\ up.queue # <<>>
    <3>1. answer' = [result |-> "OK", chunk |-> up.queue[1]] /\ up'.step = "POLL" /\ up.step = "POLL"
      BY <2>9, <1>PopKnown, Zenon DEF Replied, Popped
    <3>4. UpHeld(up', answer')
      BY <2>9, <3>1, <1>PopKnown, Zenon DEF UpHeld
    <3>5. Holding(up', answer') = 1 /\ Holding(up, answer) = 0
      BY <2>4, <3>1, Zenon DEF Holding
    <3>6. m[Len(Tail(wire))] = k[Len(wire)]
      BY <2>1, <2>2, <2>3, <2>9
    <3>7. Len(up.queue) = Len(up'.queue) + 1 /\ Len(up'.queue) \in Nat
      BY <2>9, <1>PopKnown, Zenon
    <3>8. up.read + k[Len(wire)] <=
            Len(up'.queue) + 1 + Len(up.delivered) + up.dropped + up.rxErrors
      <4>1. \A r, e, l, v, x, y, q \in Nat :
              r + e <= l + 0 + v + x + y /\ l = q + 1 => r + e <= q + 1 + v + x + y
        OBVIOUS
      <4>2. up.read + k[Len(wire)] <= Len(up.queue) + 0 + Len(up.delivered) + up.dropped + up.rxErrors
        BY <2>1, <3>5, Zenon
      <4> QED
        BY <2>1, <3>7, <4>1, <4>2, UplinkKnown, Zenon
    <3> QED
      BY <2>6, <3>4, <3>5, <3>6, <3>8, Zenon
  <2> QED
    BY <2>7, <2>8, <2>9, Zenon

<1>ServePollKeeps.
  ASSUME LinkInv, ServePoll
  PROVE  LinkInv'
  <2> USE <1>ServePollKeeps
  <2>1. PICK r : answer' = Replied(wire[1], r, answer)
    BY <1>PopKnown, Zenon
  <2>2. WireOK(b, up, Tail(wire), answer')
    BY <1>PopKnown, UplinkKnown, ServedWire, Zenon
  <2>3. WireOK(b, up', Tail(wire), answer')
    <3>1. up'.step = up.step
      BY <1>PopKnown, Zenon DEF Popped
    <3> QED
      BY <2>2, <3>1, <1>WireStep, Zenon
  <2>4. Grows(wire[1], ground, committed, ground, committed)
    BY GrowsSame, Zenon
  <2>5. StreamsInOrder(Tail(wire), ground, committed)
    BY <2>4, <1>PopKnown, UplinkKnown, ServedOrder, Zenon
  <2>6. PhaseOK(b, Tail(wire), answer', ground, committed)
    <3>1. wire[1].live => Backs(b, r, ground, committed)
      <4>1. b.phase = "IDLE" => Backs(b, r, ground, committed)
        BY Zenon DEF Backs
      <4> QED
        BY <4>1, <1>PopKnown, Zenon
    <3>2. PhaseOK(b, Tail(wire), Replied(wire[1], r, answer), ground, committed)
      BY <2>4, <3>1, <1>PopKnown, UplinkKnown, ServedPhase, Zenon
    <3> QED
      BY <2>1, <3>2, Zenon
  <2>7. UplinkOK(up', Tail(wire), answer')
    <3>1. UpOrdered(up')
      BY <1>PopKnown, UplinkKnown, <1>PoppedOrdered, Zenon
    <3> QED
      BY <3>1, <1>PopBalance, Zenon DEF UplinkOK
  <2>8. wire' = Tail(wire) /\ UNCHANGED <<b, n, worker, ground, committed>>
    BY <1>PopKnown, Zenon
  <2> QED
    BY <2>3, <2>5, <2>6, <2>7, <2>8, <1>UplinkStepKeeps, Zenon
<1> QED
  BY <1>PollKeeps, <1>PolledKeeps, <1>PollTimeoutKeeps, <1>DeliverKeeps, <1>IngestKeeps, <1>ServePollKeeps,
     Zenon DEF Receiving
-----------------------------------------------------------------------------
(* The serial line and the drain worker. *)

\* The line and the drain worker.
LEMMA DrainKeeps ==
  LinkInv /\ (Reap \/ OpenLine \/ ReadClosed \/ CloseLine \/ Disconnect \/ Draining) => LinkInv'

\* A step that leaves the OBC, the bus and the histories alone.
<1>NodeStepKeeps.
  ASSUME LinkInv, UNCHANGED <<b, up, wire, answer, ground, committed>>,
         NodeOK(b, n', ground, committed), DrainOK(worker', n', ground, committed)
  PROVE  LinkInv'
    BY <1>NodeStepKeeps, Zenon DEF LinkInv

\* OpenLine and ReadClosed touch nothing the invariant speaks of.
<1>LineKeeps.
  ASSUME LinkInv, OpenLine \/ ReadClosed
  PROVE  LinkInv'
  <2> USE <1>LineKeeps
  <2>1. UNCHANGED <<b, up, wire, answer, n, worker, ground, committed>>
    BY Zenon DEF OpenLine, ReadClosed
  <2> QED
    BY <2>1, Zenon DEF LinkInv

\* reapTimedOut.
<1>ReapKeeps.
  ASSUME LinkInv, Reap
  PROVE  LinkInv'
  <2> USE <1>ReapKeeps
  <2>1. /\ n' = [n EXCEPT !.staging = Staging(0)]
        /\ UNCHANGED <<b, up, wire, answer, worker, ground, committed>>
    BY Zenon DEF Reap
  <2>2. NodeOK(b, n', ground, committed) /\ DrainOK(worker, n', ground, committed)
    BY <2>1, StagingEmpty, StagingKeeps, Zenon DEF LinkInv
  <2> QED
    BY <2>1, <2>2, <1>NodeStepKeeps, Zenon

\* The drain worker in a step in which it holds no frame.
<1>IdleWorker.
  ASSUME NEW d, NEW y, NEW g, NEW c, DrainOK(d, y, g, c), y.flushed \in Nat, Len(g) \in Nat, NEW z,
         z.flushed = y.flushed, NEW f, DOMAIN f = {"step", "frame"}, f.step \notin {"WRITE", "CONFIRM"},
         z.queue # <<>> => MayFollow(g, z.queue[1])
  PROVE  DrainOK(f, z, g, c)
  <2> USE <1>IdleWorker
  <2>2. y.flushed + 0 <= Len(g)
    BY DEF DrainOK
  <2> QED
    BY <2>2, Zenon DEF DrainOK

\* handleDrainWriteFailure: what was waiting is counted as dropped.
<1>DroppedKeeps.
  ASSUME NEW x, NEW d, NEW g, NEW c, NodeOK(x, n, g, c), DrainOK(d, n, g, c), Len(g) \in Nat,
         NEW k \in {0, 1}, NEW z, z = Dropped(k),
         NEW f, f = d \/ (DOMAIN f = {"step", "frame"} /\ f.step \notin {"WRITE", "CONFIRM"})
  PROVE  NodeOK(x, z, g, c) /\ DrainOK(f, z, g, c)
  <2> USE <1>DroppedKeeps
  <2> DEFINE m == Max2(k, Len(n.queue))
  <2>1. /\ DOMAIN n = NodeFields /\ Len(n.queue) \in Nat
        /\ n.accepted \in Nat /\ n.flushed \in Nat /\ n.dropped \in Nat
        /\ n.accepted <= n.flushed + n.dropped + Len(n.queue)
    BY DEF NodeOK
  <2>2. m \in Nat /\ Len(n.queue) <= m
    BY DEF Max2
  <2> HIDE DEF m
  <2>3. /\ DOMAIN z = NodeFields /\ z.staging = Staging(0) /\ z.cached = {} /\ z.queue = <<>>
        /\ z.accepted = n.accepted /\ z.flushed = n.flushed /\ z.dropped = n.dropped + m
    BY <2>1, Zenon DEF Dropped, NodeFields, m
  <2>4. NodeOK(x, z, g, c)
    <3>1. z.dropped \in Nat /\ z.accepted <= z.flushed + z.dropped + Len(z.queue)
      BY <2>1, <2>2, <2>3, SMTT(30)
    <3>2. z.queue \in Seq(Sent) /\ Chained(z.queue) /\ \A i \in 1 .. Len(z.queue) : InSeq(z.queue[i].stream, c)
      BY <2>3 DEF Chained
    <3>4. StagingOK(x, z.staging, g, c)
      BY <2>3, StagingEmpty
    <3> QED
      BY <2>3, <3>1, <3>2, <3>4, Zenon DEF NodeOK
  <2>5. ASSUME f = d PROVE DrainOK(f, z, g, c)
    BY <2>3, <2>5, Zenon DEF DrainOK
  <2>6. ASSUME DOMAIN f = {"step", "frame"} /\ f.step \notin {"WRITE", "CONFIRM"} PROVE DrainOK(f, z, g, c)
    BY <2>1, <2>3, <2>6, <1>IdleWorker, Zenon
  <2> QED
    BY <2>4, <2>5, <2>6, Zenon

\* What every step of the node may use.
<1>NodeKnown.
  ASSUME LinkInv
  PROVE  /\ NodeOK(b, n, ground, committed) /\ DrainOK(worker, n, ground, committed)
         /\ HistoryOK(b, ground, committed) /\ ground \in Seq(Sent) /\ Len(ground) \in Nat
         /\ n.flushed \in Nat /\ n.queue \in Seq(Sent) /\ DOMAIN worker = {"step", "frame"}
         /\ DOMAIN n = NodeFields
  <2> USE <1>NodeKnown
  <2>1. /\ NodeOK(b, n, ground, committed) /\ DrainOK(worker, n, ground, committed)
        /\ HistoryOK(b, ground, committed)
    BY Zenon DEF LinkInv
  <2>2. ground \in Seq(Sent)
    BY <2>1, Zenon DEF HistoryOK
  <2>3. DOMAIN worker = {"step", "frame"}
    BY <2>1, Zenon DEF DrainOK
  <2>4. n.flushed \in Nat /\ n.queue \in Seq(Sent) /\ DOMAIN n = NodeFields
    BY <2>1, Zenon DEF NodeOK
  <2>5. Len(ground) \in Nat
    OBVIOUS
  <2> QED
    BY <2>1, <2>2, <2>3, <2>4, <2>5, Zenon

\* closeExternalLink_: first the descriptor, ...
<1>CloseLineKeeps.
  ASSUME LinkInv, CloseLine
  PROVE  LinkInv'
  <2> USE <1>CloseLineKeeps
  <2>1. /\ UNCHANGED <<b, up, wire, answer, n, ground, committed>>
        /\ worker' = worker \/ (worker.step = "CLOSE" /\ worker' = [worker EXCEPT !.step = "DISCONNECT"])
    BY Zenon DEF CloseLine
  <2>2. DrainOK(worker', n, ground, committed)
    <3>1. CASE worker' = worker
      BY <3>1, <1>NodeKnown, Zenon
    <3>2. CASE worker.step = "CLOSE" /\ worker' = [worker EXCEPT !.step = "DISCONNECT"]
      <4>1. DOMAIN worker' = {"step", "frame"} /\ worker'.step = "DISCONNECT"
        BY <3>2, <1>NodeKnown, Zenon
      <4>2. n.queue # <<>> => MayFollow(ground, n.queue[1])
        BY <3>2, <1>NodeKnown, Zenon DEF DrainOK
      <4> QED
        BY <4>1, <4>2, <1>NodeKnown, <1>IdleWorker, Zenon
    <3> QED
      BY <2>1, <3>1, <3>2, Zenon
  <2> QED
    BY <2>1, <2>2, <1>NodeKnown, <1>NodeStepKeeps, Zenon

\* ... then the queue.
<1>DisconnectKeeps.
  ASSUME LinkInv, Disconnect
  PROVE  LinkInv'
  <2> USE <1>DisconnectKeeps
  <2>1. /\ UNCHANGED <<b, up, wire, answer, ground, committed>> /\ n' = Dropped(0)
        /\ worker' = worker \/ worker' = [step |-> "PEEK", frame |-> NoFrame]
    BY Zenon DEF Disconnect
  <2>3. NodeOK(b, n', ground, committed) /\ DrainOK(worker', n', ground, committed)
    BY <2>1, <1>NodeKnown, <1>DroppedKeeps, Zenon
  <2> QED
    BY <2>1, <2>3, <1>NodeStepKeeps, Zenon

\* The write of a frame fails: the queue is dropped before the line is closed.
<1>WriteFailsKeeps.
  ASSUME LinkInv, WriteFails
  PROVE  LinkInv'
  <2> USE <1>WriteFailsKeeps
  <2>1. /\ UNCHANGED <<b, up, wire, answer, ground, committed>> /\ n' = Dropped(1)
        /\ worker' = [worker EXCEPT !.step = "CLOSE"]
    BY Zenon DEF WriteFails
  <2>3. NodeOK(b, n', ground, committed) /\ DrainOK(worker', n', ground, committed)
    BY <2>1, <1>NodeKnown, <1>DroppedKeeps, Zenon
  <2> QED
    BY <2>1, <2>3, <1>NodeStepKeeps, Zenon

\* The worker peeks at the front of the queue.
<1>PeekKeeps.
  ASSUME LinkInv, Peek
  PROVE  LinkInv'
  <2> USE <1>PeekKeeps
  <2>1. /\ UNCHANGED <<b, up, wire, answer, n, ground, committed>> /\ n.queue # <<>>
        /\ worker.step = "PEEK" /\ worker' = [step |-> "WRITE", frame |-> Head(n.queue)]
    BY Zenon DEF Peek
  <2>2. Head(n.queue) = n.queue[1] /\ 1 \in 1 .. Len(n.queue) /\ n.queue[1] \in Sent
    BY <2>1, <1>NodeKnown
  <2>3. DOMAIN worker' = {"step", "frame"} /\ worker'.step = "WRITE" /\ worker'.frame = n.queue[1]
    BY <2>1, <2>2, Zenon
  <2>4. InSeq(n.queue[1].stream, committed)
    BY <2>2, <1>NodeKnown, Zenon DEF NodeOK
  <2>5. MayFollow(ground, n.queue[1]) /\ n.flushed + 0 <= Len(ground)
    BY <2>1, <1>NodeKnown, Zenon DEF DrainOK
  <2>6. DrainOK(worker', n, ground, committed)
    BY <2>2, <2>3, <2>4, <2>5, Zenon DEF DrainOK
  <2> QED
    BY <2>1, <2>6, <1>NodeKnown, <1>NodeStepKeeps, Zenon

\* The line was closed in between: the frame is peeked again.
<1>LineStaysClosedKeeps.
  ASSUME LinkInv, LineStaysClosed
  PROVE  LinkInv'
  <2> USE <1>LineStaysClosedKeeps
  <2>1. /\ UNCHANGED <<b, up, wire, answer, n, ground, committed>>
        /\ worker.step = "WRITE" /\ worker' = [step |-> "PEEK", frame |-> NoFrame]
    BY Zenon DEF LineStaysClosed
  <2>2. DOMAIN worker' = {"step", "frame"} /\ worker'.step = "PEEK"
    BY <2>1, Zenon
  <2>3. /\ MayFollow(ground, worker.frame)
        /\ n.queue = <<>> \/ n.queue[1] = worker.frame \/ Newer(worker.frame, n.queue[1])
        /\ InSeq(worker.frame.stream, committed)
    BY <2>1, <1>NodeKnown, Zenon DEF DrainOK
  <2>4. n.queue # <<>> => MayFollow(ground, n.queue[1])
    <3>1. ASSUME n.queue # <<>>, Newer(worker.frame, n.queue[1]) PROVE MayFollow(ground, n.queue[1])
      <4>1. worker.frame.stream < n.queue[1].stream /\ n.queue[1].index = 0
        BY <3>1, Zenon DEF Newer
      <4>2. ASSUME ground # <<>> PROVE ground[Len(ground)].stream < n.queue[1].stream
        <5>1. ground[Len(ground)].stream <= worker.frame.stream
          <6>1. Follows(ground[Len(ground)], worker.frame)
            BY <2>3, <4>2, Zenon DEF MayFollow
          <6>2. ground[Len(ground)] \in Sent /\ worker.frame \in Sent
            BY <2>1, <4>2, <1>NodeKnown DEF DrainOK
          <6>3. ground[Len(ground)].stream \in Nat /\ worker.frame.stream \in Nat
            BY <6>2, Zenon DEF Sent
          <6> QED
            BY <6>1, <6>3 DEF Follows, Newer
        <5>2. ground[Len(ground)].stream \in Nat /\ worker.frame.stream \in Nat /\ n.queue[1].stream \in Nat
          <6>1. ground[Len(ground)] \in Sent /\ worker.frame \in Sent /\ n.queue[1] \in Sent
            BY <2>1, <3>1, <4>2, <1>NodeKnown DEF DrainOK
          <6> QED
            BY <6>1, Zenon DEF Sent
        <5> QED
          BY <4>1, <5>1, <5>2
      <4> QED
        BY <4>1, <4>2, Zenon DEF MayFollow, Follows, Newer
    <3> QED
      BY <2>3, <3>1, Zenon
  <2>5. DrainOK(worker', n, ground, committed)
    BY <2>2, <2>4, <1>NodeKnown, <1>IdleWorker, Zenon
  <2> QED
    BY <2>1, <2>5, <1>NodeKnown, <1>NodeStepKeeps, Zenon

\* The front of the queue after a frame has left it.
<1>TailChained.
  ASSUME NEW q \in Seq(Sent), Chained(q), q # <<>>
  PROVE  /\ Tail(q) \in Seq(Sent) /\ Chained(Tail(q)) /\ Len(q) = Len(Tail(q)) + 1 /\ Len(Tail(q)) \in Nat
         /\ \A i \in 1 .. Len(Tail(q)) : i + 1 \in 1 .. Len(q) /\ Tail(q)[i] = q[i + 1]
         /\ Tail(q) # <<>> => Follows(q[1], Tail(q)[1])
         /\ Head(q) = q[1]
  <2> USE <1>TailChained
  <2> DEFINE v == Tail(q)
  <2>1. /\ v \in Seq(Sent) /\ Len(q) = Len(v) + 1 /\ Len(v) \in Nat /\ Head(q) = q[1]
        /\ \A i \in 1 .. Len(v) : v[i] = q[i + 1]
    OBVIOUS
  <2> HIDE DEF v
  <2>2. \A i \in 1 .. Len(v) : i + 1 \in 1 .. Len(q)
    BY <2>1
  <2>3. ASSUME NEW i \in 2 .. Len(v) PROVE Follows(v[i - 1], v[i])
    <3>1. i + 1 \in 2 .. Len(q) /\ (i + 1) - 1 = i /\ v[i] = q[i + 1] /\ v[i - 1] = q[i]
      BY <2>1, <2>3, SMTT(30)
    <3>2. Follows(q[(i + 1) - 1], q[i + 1])
      BY <3>1, Zenon DEF Chained
    <3> QED
      BY <3>1, <3>2, Zenon
  <2>4. ASSUME v # <<>> PROVE Follows(q[1], v[1])
    <3>1. 2 \in 2 .. Len(q) /\ 2 - 1 = 1 /\ v[1] = q[2]
      BY <2>1, <2>4
    <3>2. Follows(q[2 - 1], q[2])
      BY <3>1, Zenon DEF Chained
    <3> QED
      BY <3>1, <3>2, Zenon
  <2> QED
    BY <2>1, <2>2, <2>3, <2>4, Zenon DEF Chained, v

\* What confirmDrainFrameFlushed leaves, V3 or V2.
<1>FlushedCases.
  ASSUME DOMAIN n = NodeFields, NEW z, z = Flushed(worker.frame) \/ z = FlushedV2(worker.frame)
  PROVE  /\ DOMAIN z = NodeFields /\ z.staging = n.staging /\ z.cached \in {n.cached, {}}
         /\ z.accepted = n.accepted /\ z.dropped = n.dropped
         /\ \/ n.queue # <<>> /\ Head(n.queue) = worker.frame /\ z.queue = Tail(n.queue)
               /\ z.flushed = n.flushed + 1
            \/ (n.queue = <<>> \/ Head(n.queue) # worker.frame) /\ z.queue = n.queue
               /\ z.flushed = n.flushed
  <2> USE <1>FlushedCases
  <2> DEFINE y == Flushed(worker.frame)
  <2>1. /\ DOMAIN y = NodeFields /\ y.staging = n.staging /\ y.cached = n.cached
        /\ y.accepted = n.accepted /\ y.dropped = n.dropped
        /\ \/ n.queue # <<>> /\ Head(n.queue) = worker.frame /\ y.queue = Tail(n.queue)
              /\ y.flushed = n.flushed + 1
           \/ (n.queue = <<>> \/ Head(n.queue) # worker.frame) /\ y.queue = n.queue
              /\ y.flushed = n.flushed
    BY Zenon DEF Flushed, NodeFields
  <2>2. z = y \/ z = [y EXCEPT !.cached = {}]
    BY Zenon DEF FlushedV2
  <2> HIDE DEF y
  <2>3. /\ DOMAIN z = NodeFields /\ z.staging = y.staging /\ z.cached \in {y.cached, {}}
        /\ z.accepted = y.accepted /\ z.dropped = y.dropped /\ z.queue = y.queue /\ z.flushed = y.flushed
    BY <2>1, <2>2, Zenon DEF NodeFields
  <2> QED
    BY <2>1, <2>3, Zenon

\* The frame written leaves the queue, unless the queue was cleared meanwhile.
<1>ConfirmKeeps.
  ASSUME LinkInv, Confirm
  PROVE  LinkInv'
  <2> USE <1>ConfirmKeeps
  <2>1. /\ UNCHANGED <<b, up, wire, answer, ground, committed>>
        /\ worker.step = "CONFIRM" /\ worker' = [step |-> "PEEK", frame |-> NoFrame]
        /\ n' = Flushed(worker.frame) \/ n' = FlushedV2(worker.frame)
    BY Zenon DEF Confirm
  <2>2. DOMAIN worker' = {"step", "frame"} /\ worker'.step # "WRITE" /\ worker'.step # "CONFIRM"
    BY <2>1, Zenon
  <2>3. /\ DOMAIN n' = NodeFields /\ n'.staging = n.staging /\ n'.cached \in {n.cached, {}}
        /\ n'.accepted = n.accepted /\ n'.dropped = n.dropped
        /\ \/ n.queue # <<>> /\ Head(n.queue) = worker.frame /\ n'.queue = Tail(n.queue)
              /\ n'.flushed = n.flushed + 1
           \/ (n.queue = <<>> \/ Head(n.queue) # worker.frame) /\ n'.queue = n.queue
              /\ n'.flushed = n.flushed
    BY <2>1, <1>NodeKnown, <1>FlushedCases, Zenon
  <2>4. /\ n.accepted \in Nat /\ n.flushed \in Nat /\ n.dropped \in Nat
        /\ n.accepted <= n.flushed + n.dropped + Len(n.queue)
        /\ n.queue \in Seq(Sent) /\ Chained(n.queue) /\ Len(n.queue) \in Nat
        /\ \A i \in 1 .. Len(n.queue) : InSeq(n.queue[i].stream, committed)
        /\ StagingOK(b, n.staging, ground, committed)
    BY <1>NodeKnown DEF NodeOK
  <2>5. \A t \in n'.cached : InSeq(t, committed)
    <3>1. \A t \in n.cached : InSeq(t, committed)
      BY <1>NodeKnown, Zenon DEF NodeOK
    <3> QED
      BY <2>3, <3>1, Zenon
  <2>6. /\ n.queue = <<>> \/ n.queue[1] = worker.frame \/ Newer(worker.frame, n.queue[1])
        /\ ground # <<>> /\ ground[Len(ground)] = worker.frame /\ n.flushed + 1 <= Len(ground)
    <3>1. worker.step \in {"WRITE", "CONFIRM"} /\ DrainOK(worker, n, ground, committed)
      BY <2>1, <1>NodeKnown, Zenon
    <3> QED
      BY <2>1, <3>1, Zenon DEF DrainOK
  <2>8. ASSUME n.queue # <<>>, Head(n.queue) = worker.frame, n'.queue = Tail(n.queue),
               n'.flushed = n.flushed + 1
        PROVE  NodeOK(b, n', ground, committed) /\ DrainOK(worker', n', ground, committed)
    <3>1. /\ n'.queue \in Seq(Sent) /\ Chained(n'.queue) /\ Len(n.queue) = Len(n'.queue) + 1
          /\ Len(n'.queue) \in Nat
          /\ \A i \in 1 .. Len(n'.queue) : i + 1 \in 1 .. Len(n.queue) /\ n'.queue[i] = n.queue[i + 1]
          /\ n'.queue # <<>> => Follows(n.queue[1], n'.queue[1])
          /\ Head(n.queue) = n.queue[1]
      BY <2>4, <2>8, <1>TailChained, Zenon
    <3>2. \A i \in 1 .. Len(n'.queue) : InSeq(n'.queue[i].stream, committed)
      BY <2>4, <3>1, Zenon
    <3>3. n'.flushed \in Nat /\ n'.accepted <= n'.flushed + n'.dropped + Len(n'.queue)
      <4>1. \A a, f, d, l \in Nat : a <= f + d + (l + 1) => f + 1 \in Nat /\ a <= (f + 1) + d + l
        OBVIOUS
      <4>3. /\ n.flushed + 1 \in Nat
            /\ n.accepted <= (n.flushed + 1) + n.dropped + Len(n'.queue)
        BY <2>4, <3>1, <4>1, Zenon
      <4> QED
        BY <2>3, <2>8, <4>3, Zenon
    <3>4. NodeOK(b, n', ground, committed)
      BY <2>3, <2>4, <2>5, <3>1, <3>3, Zenon DEF NodeOK
    <3>5. n'.queue # <<>> => MayFollow(ground, n'.queue[1])
      BY <2>6, <2>8, <3>1, Zenon DEF MayFollow
    <3>6. n'.flushed + 0 <= Len(ground)
      BY <2>4, <2>6, <2>8
    <3>7. DrainOK(worker', n', ground, committed)
      BY <2>2, <3>5, <3>6, Zenon DEF DrainOK
    <3> QED
      BY <3>4, <3>7, Zenon
  <2>9. ASSUME n.queue = <<>> \/ Head(n.queue) # worker.frame, n'.queue = n.queue,
               n'.flushed = n.flushed
        PROVE  NodeOK(b, n', ground, committed) /\ DrainOK(worker', n', ground, committed)
    <3>1. NodeOK(b, n', ground, committed)
      BY <2>3, <2>4, <2>5, <2>9, Zenon DEF NodeOK
    <3>2. n.queue # <<>> => Newer(worker.frame, n.queue[1])
      <4>1. n.queue # <<>> => Head(n.queue) = n.queue[1]
        OBVIOUS
      <4> QED
        BY <2>6, <2>9, <4>1, Zenon
    <3>3. n'.queue # <<>> => MayFollow(ground, n'.queue[1])
      BY <2>6, <2>9, <3>2, Zenon DEF MayFollow, Follows
    <3>4. n'.flushed + 0 <= Len(ground)
      BY <2>4, <2>6, <2>9
    <3>5. DrainOK(worker', n', ground, committed)
      BY <2>2, <3>3, <3>4, Zenon DEF DrainOK
    <3> QED
      BY <3>1, <3>5, Zenon
  <2>10. NodeOK(b, n', ground, committed) /\ DrainOK(worker', n', ground, committed)
    BY <2>3, <2>8, <2>9, Zenon
  <2> QED
    BY <2>1, <2>10, <1>NodeStepKeeps, Zenon

\* A frame is written: it was committed, so nothing newer grows stale.
<1>WriteFrameKeeps.
  ASSUME LinkInv, WriteFrame
  PROVE  LinkInv'
  <2> USE <1>WriteFrameKeeps
  <2> DEFINE f == worker.frame
  <2>1. /\ UNCHANGED <<b, up, wire, answer, n, committed>> /\ worker.step = "WRITE"
        /\ ground' = Append(ground, f) /\ worker' = [worker EXCEPT !.step = "CONFIRM"]
    BY Zenon DEF WriteFrame
  <2>2. /\ f \in Sent /\ InSeq(f.stream, committed) /\ MayFollow(ground, f)
        /\ n.queue = <<>> \/ n.queue[1] = f \/ Newer(f, n.queue[1])
        /\ n.flushed + 0 <= Len(ground)
    BY <2>1, <1>NodeKnown, Zenon DEF DrainOK
  <2>3. f.stream <= b.call
    BY <2>2, <1>NodeKnown, Zenon DEF InSeq, HistoryOK
  <2>4. /\ HistoryOK(b, ground', committed) /\ Len(ground') = Len(ground) + 1 /\ Len(ground) \in Nat
        /\ ground' # <<>> /\ ground'[Len(ground')] = f
        /\ \A t : Fresh(t, ground, committed) /\ f.stream < t => Fresh(t, ground', committed)
    BY <2>1, <2>2, <2>3, <1>NodeKnown, AirHistory
  <2>5. ASSUME NEW t, Fresh(t, ground, committed) PROVE Fresh(t, ground', committed)
    <3>1. f.stream < t
      BY <2>2, <2>5, CommittedOlder, Zenon
    <3> QED
      BY <2>4, <2>5, <3>1, Zenon
  <2>6. ~InV1(b) /\ b.policy \in {"V3", "V2_ONLY"} /\ b.phase \in EraPhases(b)
    <3>1. committed # <<>>
      BY <2>2 DEF InSeq
    <3> QED
      BY <3>1, Zenon DEF LinkInv, BackOK
  <2>7. b.phase # "V1" /\ "WRITE" \notin EraOps(b)
    BY <2>6, Zenon DEF EraPhases, EraOps, InV1
  <2>8. StreamsInOrder(wire, ground', committed)
    <3>1. \A j \in 1 .. Len(wire) : wire[j].op \in EraOps(b)
      BY Zenon DEF LinkInv, WireOK, PacketOK
    <3>2. \A j \in 1 .. Len(wire) : wire[j].op # "WRITE"
      BY <2>7, <3>1, Zenon
    <3> QED
      BY <2>5, <3>2, Zenon DEF LinkInv, StreamsInOrder
  <2>9. PhaseOK(b, wire, answer, ground', committed)
    BY <2>5, <2>7, Zenon DEF LinkInv, PhaseOK
  <2>10. NodeOK(b, n, ground', committed)
    <3>1. StagingOK(b, n.staging, ground', committed)
      BY <2>5, Zenon DEF LinkInv, NodeOK, StagingOK
    <3> QED
      BY <3>1, <1>NodeKnown, Zenon DEF NodeOK
  <2>11. DrainOK(worker', n, ground', committed)
    <3>1. DOMAIN worker' = {"step", "frame"} /\ worker'.step = "CONFIRM" /\ worker'.frame = f
      BY <2>1, <1>NodeKnown, Zenon
    <3>2. n.flushed + 1 <= Len(ground')
      BY <2>2, <2>4, <1>NodeKnown
    <3> HIDE DEF f
    <3> QED
      BY <2>2, <2>4, <3>1, <3>2, Zenon DEF DrainOK
  <2> QED
    BY <2>1, <2>4, <2>8, <2>9, <2>10, <2>11, Zenon DEF LinkInv
<1> QED
  BY <1>ReapKeeps, <1>LineKeeps, <1>CloseLineKeeps, <1>DisconnectKeeps, <1>PeekKeeps, <1>WriteFrameKeeps,
     <1>LineStaysClosedKeeps, <1>WriteFailsKeeps, <1>ConfirmKeeps, Zenon DEF Draining
-----------------------------------------------------------------------------
(* The invariant holds, and with it the three properties. *)

\* At the outset nothing has been asked, written or read.
LEMMA LinkInit ==
  ASSUME Init
  PROVE  LinkInv
<1>1. PICK w \in Workloads :
        /\ b = [phase |-> "IDLE", call |-> 0, sends |-> w.sends, policy |-> w.policy, v3 |-> FALSE,
                   v2 |-> "UNKNOWN", probes |-> 0, acked |-> 0, next |-> 0, window |-> 0,
                   active |-> FALSE, overdue |-> FALSE, result |-> "NONE"]
        /\ up = [chunks |-> w.chunks, read |-> 0, queue |-> <<>>, step |-> "CALL", chunk |-> 0,
                 rxErrors |-> 0, dropped |-> 0, delivered |-> <<>>]
  BY Zenon DEF Init
<1>2. /\ wire = <<>> /\ answer = NoAnswer /\ ground = <<>> /\ committed = <<>>
      /\ n = [staging |-> Staging(0), cached |-> {}, queue |-> <<>>,
                 accepted |-> 0, flushed |-> 0, dropped |-> 0]
      /\ worker = [step |-> "PEEK", frame |-> NoFrame]
  BY Zenon DEF Init
<1>3. w.policy \in {"V3", "V2_ONLY"} /\ w.sends \in 0 .. Len(FramesOf)
  BY LinkAssumption, Zenon
<1>4. BackOK(b, committed)
  <2>1. /\ DOMAIN b = BackFields /\ b.call = 0 /\ b.sends = w.sends /\ b.policy = w.policy
        /\ b.v3 = FALSE /\ b.phase = "IDLE" /\ b.result = "NONE"
    BY <1>1, Zenon DEF BackFields
  <2>2. 0 <= w.sends
    BY <1>3
  <2>3. b.phase \in EraPhases(b)
    BY <2>1, Zenon DEF EraPhases
  <2>4. b.call \in Nat /\ b.call <= b.sends
    BY <2>1, <2>2
  <2> QED
    BY <1>2, <1>3, <2>1, <2>3, <2>4, Zenon DEF BackOK
<1>5. Len(wire) = 0 /\ IsSeq(wire) /\ wire = <<>>
  <2>1. <<>> \in Seq(Nat) /\ Len(<<>>) = 0
    OBVIOUS
  <2> QED
    BY <1>2, <2>1, Zenon DEF IsSeq
<1>6. WireOK(b, up, wire, answer)
  BY <1>1, <1>5 DEF WireOK
<1>7. StreamsInOrder(wire, ground, committed)
  BY <1>5 DEF StreamsInOrder
<1>8. PhaseOK(b, wire, answer, ground, committed)
  BY <1>1, IdlePhase, Zenon
<1>9. HistoryOK(b, ground, committed)
  BY <1>2 DEF HistoryOK, Chained
<1>10. NodeOK(b, n, ground, committed)
  <2>1. /\ n.staging = Staging(0) /\ DOMAIN n = NodeFields
        /\ n.cached = {} /\ n.queue = <<>> /\ n.accepted = 0 /\ n.flushed = 0 /\ n.dropped = 0
    BY <1>2, Zenon DEF NodeFields
  <2>2. StagingOK(b, n.staging, ground, committed)
    <3>1. StagingOK(b, Staging(0), ground, committed) /\ n.staging = Staging(0)
      BY <2>1, StagingEmpty, Zenon
    <3> QED
      BY <3>1, Zenon
  <2> QED
    BY <2>1, <2>2 DEF NodeOK, Chained
<1>11. DrainOK(worker, n, ground, committed)
  BY <1>2 DEF DrainOK
<1>12. UplinkOK(up, wire, answer)
  <2>1. /\ DOMAIN up = UpFields /\ up.read = 0 /\ up.queue = <<>> /\ up.step = "CALL"
        /\ up.rxErrors = 0 /\ up.dropped = 0 /\ up.delivered = <<>>
    BY <1>1, Zenon DEF UpFields
  <2>2. UpOrdered(up)
    BY <2>1 DEF UpOrdered, Increasing
  <2>3. "chunk" \notin DOMAIN answer
    BY <1>2, Zenon DEF NoAnswer
  <2>4. UpHeld(up, answer)
    BY <2>1, <2>3, Zenon DEF UpHeld
  <2> DEFINE k == [i \in 0 .. 0 |-> 0]
  <2>5. Counts(k, wire) /\ k[Len(wire)] = 0
    BY <1>5
  <2>6. Holding(up, answer) = 0
    BY <2>1, <2>3, Zenon DEF Holding
  <2> HIDE DEF k
  <2>7. up.read + k[Len(wire)] <=
          Len(up.queue) + Holding(up, answer) + Len(up.delivered) + up.dropped + up.rxErrors
    BY <2>1, <2>5, <2>6
  <2> QED
    BY <2>2, <2>4, <2>5, <2>7, Zenon DEF UplinkOK, UpBalanced
<1> QED
  BY <1>4, <1>6, <1>7, <1>8, <1>9, <1>10, <1>11, <1>12, Zenon DEF LinkInv

\* Every step of the link keeps its invariant.
LEMMA LinkNext == LinkInv /\ [Next]_vars => LinkInv'
<1>1. ASSUME LinkInv, Next PROVE LinkInv'
  BY <1>1, SendingKeeps, UplinkKeeps, RequestKeeps, DrainKeeps, Zenon DEF Next, Serving
<1>2. ASSUME LinkInv, UNCHANGED vars PROVE LinkInv'
  <2>1. UNCHANGED <<b, up, wire, answer, n, worker, ground, committed>>
    BY <1>2 DEF vars
  <2> QED
    BY <1>2, <2>1, Zenon DEF LinkInv
<1> QED
  BY <1>1, <1>2, Zenon

\* The frames written form a chain, each the next of its stream or the first of
\* a newer one: that is what the ground sees.
LEMMA LinkSeesPrefixes ==
  ASSUME LinkInv
  PROVE  GroundSeesPrefixes
<1>1. ground \in Seq(Sent) /\ Chained(ground) /\ (ground # <<>> => ground[1].index = 0)
  BY Zenon DEF LinkInv, HistoryOK
<1>3. ASSUME NEW i \in DOMAIN ground
      PROVE  IF i > 1 /\ ground[i - 1].stream = ground[i].stream
               THEN ground[i].index = ground[i - 1].index + 1
               ELSE ground[i].index = 0 /\ (i > 1 => ground[i - 1].stream < ground[i].stream)
  <2>2. CASE i = 1
    <3>1. ground # <<>> /\ ~(i > 1)
      BY <2>2
    <3> QED
      BY <1>1, <2>2, <3>1, Zenon
  <2>3. CASE i # 1
    <3>1. i \in 2 .. Len(ground) /\ i > 1 /\ i - 1 \in 1 .. Len(ground)
      BY <2>3
    <3>2. ground[i] \in Sent /\ ground[i - 1] \in Sent
      BY <1>1, <3>1
    <3>3. ground[i].stream \in Nat /\ ground[i - 1].stream \in Nat
      BY <3>2, Zenon DEF Sent
    <3>4. Follows(ground[i - 1], ground[i])
      BY <1>1, <3>1, Zenon DEF Chained
    <3>5. \A x, y \in Nat : x < y => x # y
      OBVIOUS
    <3>6. ground[i - 1].stream < ground[i].stream => ground[i - 1].stream # ground[i].stream
      BY <3>3, <3>5, Zenon
    <3> QED
      BY <3>1, <3>4, <3>6, Zenon DEF Follows, Newer
  <2> QED
    BY <2>2, <2>3, Zenon
<1> QED
  BY <1>3, Zenon DEF GroundSeesPrefixes

\* The counters of the drain queue cover what was accepted, and an OK is of a
\* committed stream.
LEMMA LinkLosesNothing ==
  ASSUME LinkInv
  PROVE  NothingLostSilently
<1>1. /\ n.accepted <= n.flushed + n.dropped + Len(n.queue) /\ n.flushed \in Nat
      /\ ground \in Seq(Sent) /\ committed \in Seq(Nat)
  BY Zenon DEF LinkInv, NodeOK, HistoryOK
<1>2. n.flushed <= Len(ground)
  <2>1. n.flushed + (IF worker.step = "CONFIRM" THEN 1 ELSE 0) <= Len(ground)
    BY Zenon DEF LinkInv, DrainOK
  <2> QED
    BY <1>1, <2>1
<1>3. DOMAIN committed = 1 .. Len(committed)
  OBVIOUS
<1>4. \A i, j \in DOMAIN committed : i < j => committed[i] < committed[j]
  BY <1>3, Zenon DEF LinkInv, HistoryOK
<1>5. ASSUME b.result = "OK", b.phase = "IDLE", b.v3 \/ b.policy = "V2_ONLY"
      PROVE  b.call \in {committed[i] : i \in DOMAIN committed}
  <2>1. ~InV1(b)
    BY <1>5, Zenon DEF InV1
  <2>2. InSeq(b.call, committed)
    BY <1>5, <2>1, Zenon DEF LinkInv, BackOK
  <2> QED
    BY <1>3, <2>2, Zenon DEF InSeq
<1> QED
  BY <1>1, <1>2, <1>4, <1>5, Zenon DEF NothingLostSilently

\* The balance of the uplink without the polls still on the wire.
LEMMA LinkAccounts ==
  ASSUME LinkInv
  PROVE  UplinkAccounted
<1> DEFINE h == IF up.step = "DELIVER" \/ "chunk" \in DOMAIN answer THEN 1 ELSE 0
<1>1. h \in Nat /\ Holding(up, answer) = h
  BY Zenon DEF Holding
<1> HIDE DEF h
<1>2. PICK k : Counts(k, wire) /\ k[Len(wire)] \in Nat /\ up.read + k[Len(wire)] <=
        Len(up.queue) + Holding(up, answer) + Len(up.delivered) + up.dropped + up.rxErrors
  BY BalanceKnown, Zenon
<1>4. up.read <= Len(up.queue) + h + Len(up.delivered) + up.dropped + up.rxErrors
  <2>1. \A r, e, l, c, v, d, x \in Nat : r + e <= l + c + v + d + x => r <= l + c + v + d + x
    OBVIOUS
  <2> QED
    BY <1>1, <1>2, <2>1, UplinkKnown, Zenon
<1>5. \A i, j \in DOMAIN up.delivered : i < j => up.delivered[i] < up.delivered[j]
  <2>1. DOMAIN up.delivered = 1 .. Len(up.delivered)
    OBVIOUS
  <2> QED
    BY <2>1, UplinkKnown, Zenon DEF UpOrdered, Increasing
<1> QED
  BY <1>4, <1>5, Zenon DEF UplinkAccounted, h

\* The invariant of the link holds throughout.
THEOREM LinkInvariant ==
  Spec => []LinkInv
<1>1. Init => LinkInv
  BY LinkInit, Zenon
<1>2. LinkInv /\ [Next]_(vars) => LinkInv'
  BY LinkNext, Zenon
<1> QED
  BY <1>1, <1>2, PTL DEF Spec

\* Whatever the workload, the limits and the losses on the bus, the ground sees
\* of every stream a prefix of its frames, in order and none twice, and the
\* streams in the order they were sent (CommNodeServer's drain worker, which
\* writes a frame without the queue's lock).
THEOREM LinkPrefixes ==
  Spec => []GroundSeesPrefixes
<1>1. LinkInv => GroundSeesPrefixes
  BY LinkSeesPrefixes, Zenon
<1> QED
  BY <1>1, LinkInvariant, PTL

\* Every frame the node has accepted is waiting, flushed or counted as dropped,
\* what is counted as flushed was written, no stream is committed twice, and
\* send reports OK for a V3 or V2 stream only after the node has committed it
\* (CommNodeDownlinkV3State, CommNodeDownlinkV2State and the backend's send).
THEOREM LinkNothingLost ==
  Spec => []NothingLostSilently
<1>1. LinkInv => NothingLostSilently
  BY LinkLosesNothing, Zenon
<1> QED
  BY <1>1, LinkInvariant, PTL

\* The deframer sees the uplink chunks in order and none twice, and every chunk
\* the node has read waits, is delivered, or was lost to a failure that was
\* counted (handleUplinkPoll_ and GroundLinkDriver::runReceiveOnce_).
THEOREM LinkUplink ==
  Spec => []UplinkAccounted
<1>1. LinkInv => UplinkAccounted
  BY LinkAccounts, Zenon
<1> QED
  BY <1>1, LinkInvariant, PTL
-----------------------------------------------------------------------------
(* The reliable transfer implements FileDelivery.  The inductive invariant    *)
(* says which request the sender waits for in each phase, that whoever the    *)
(* node hears of has been begun on board, and that what the node has put into *)
(* place, or has answered OK for, is whole.                                   *)

CONSTANTS Files, SegmentsOf, WindowSize, TransferTimeout, ResendBudget, MaxTransfers, MaxRestarts

\* placed is its variable ground, TransferTimeout its constant AckTimeout.
VARIABLES s, call, late, frames, r, placed, stored, report, restarts

Transfer == INSTANCE ReliableTransfer WITH AckTimeout <- TransferTimeout, ground <- placed

Phases == {"IDLE", "BEGIN", "SEND", "POLL", "COMPLETE", "ABORT"}

Reports == {"NONE", "ACTIVE", "SUCCESS", "FAILED"}

\* A file some transfer on board has been started for.
Announced(f) == f \in Files /\ report[f] # "NONE"

\* The same after the step.
StillAnnounced(f) == f \in Files /\ report'[f] # "NONE"

\* s is a sender record.  What its counters hold does not matter to delivery.
SenderShape ==
  /\ s = [phase |-> s.phase, id |-> s.id, file |-> s.file, next |-> s.next, acked |-> s.acked,
          ticks |-> s.ticks, retries |-> s.retries, nextId |-> s.nextId]
  /\ s.phase \in Phases

\* The transfer under way is the one the last report of its file is about.
SenderInv ==
  /\ SenderShape
  /\ report \in [Files -> Reports]
  /\ s.phase = "IDLE" => s.file = Transfer!NoFile
  /\ s.phase # "IDLE" => s.file \in Files /\ report[s.file] = "ACTIVE"

\* The request the sender waits for is about its transfer; COMPLETE is answered
\* OK only for a file that was put into place.
CallInv ==
  /\ s.phase \in {"IDLE", "SEND"} => call = Transfer!NoCall
  /\ s.phase \in {"BEGIN", "COMPLETE", "ABORT"} => call.op = s.phase
  /\ s.phase = "POLL" => call.op = "ACK_POLL"
  /\ call # Transfer!NoCall => call.file = s.file
  /\ call.op = "COMPLETE" /\ call.state = "ANSWERED" /\ call.result = "OK" => call.file \in stored

\* The node only ever hears of files whose transfer was begun on board.
NodeInv ==
  /\ r = [active |-> r.active, id |-> r.id, file |-> r.file, got |-> r.got]
  /\ r.active => Announced(r.file)
  /\ \A req \in late : Announced(req.file)

\* What lies on the ground is whole and was counted.
GroundInv ==
  \A g \in placed : g.file \in Files /\ g.got = Transfer!Whole(g.file) /\ g.file \in stored

IInv == SenderInv /\ CallInv /\ NodeInv /\ GroundInv
-----------------------------------------------------------------------------
\* The initial state: nothing announced, nothing on the ground.
LEMMA InitInv ==
  ASSUME Transfer!TransferAssumption
  PROVE  Transfer!Init => IInv
  BY DEF Transfer!TransferAssumption, Transfer!Init, IInv, SenderInv, SenderShape, CallInv, NodeInv,
     GroundInv, Transfer!IdleSender,
     Transfer!Inactive, Transfer!NoCall, Transfer!NoFile, Phases, Reports, Announced

\* A control request about an announced file, handled in time or late: the node
\* keeps to announced files, at most its own whole file is put into place, and
\* COMPLETE is answered OK only when it was.
LEMMA RequestHandled ==
  ASSUME NodeInv, GroundInv, NEW req, Announced(req.file), NEW w,
         r' = Transfer!Handled(r, req, w), placed' = Transfer!Stored(r, req, w), UNCHANGED report,
         stored' = stored \cup {Transfer!PutInPlace(g) : g \in placed' \ placed}
  PROVE  /\ r' = [active |-> r'.active, id |-> r'.id, file |-> r'.file, got |-> r'.got]
         /\ r'.active => Announced(r'.file)
         /\ GroundInv'
         /\ stored' = stored \/ (Announced(r.file) /\ stored' = stored \cup {r.file})
         /\ req.op = "COMPLETE" /\ Transfer!Reply(r, req, w) = "OK" => req.file \in stored'
<1> DEFINE places == req.op = "COMPLETE" /\ Transfer!Known(r, req) /\ Transfer!HashOk(r, req)
           new == [file |-> r.file, got |-> r.got]
<1>1. r' = [active |-> r'.active, id |-> r'.id, file |-> r'.file, got |-> r'.got]
  BY DEF NodeInv, Transfer!Handled, Transfer!BeginNode, Transfer!Inactive
<1>2. r'.active => Announced(r'.file)
  BY DEF NodeInv, Transfer!Handled, Transfer!BeginNode, Transfer!Inactive
<1>3. CASE ~(places /\ w.renames)
  <2>1. placed' \subseteq placed
    BY <1>3 DEF Transfer!Stored
  <2>2. stored' = stored
    BY <2>1
  <2>3. GroundInv'
    BY <2>1, <2>2 DEF GroundInv, Transfer!Whole
  <2>4. ~(req.op = "COMPLETE" /\ Transfer!Reply(r, req, w) = "OK")
    BY <1>3 DEF Transfer!Reply
  <2> QED
    BY <1>1, <1>2, <2>2, <2>3, <2>4
<1>4. CASE places /\ w.renames
  <2>1. placed' = {g \in placed : g.file # r.file} \cup {new}
    BY <1>4 DEF Transfer!Stored
  <2>2. Announced(r.file) /\ r.got = Transfer!Whole(r.file) /\ req.file = r.file
    BY <1>4 DEF Transfer!Known, Transfer!HashOk, NodeInv
  <2>3. new.file = r.file /\ new.got = r.got /\ Transfer!PutInPlace(new) = r.file
    BY <2>2 DEF Transfer!PutInPlace
  <2>4. new \in placed => r.file \in stored
    BY <2>3 DEF GroundInv
  <2> HIDE DEF new
  <2>5. stored' = stored \cup {r.file}
    <3>1. CASE new \in placed
      BY <2>1, <2>4, <3>1
    <3>2. CASE new \notin placed
      BY <2>1, <2>3, <3>2
    <3> QED
      BY <3>1, <3>2
  <2>6. GroundInv'
    BY <2>1, <2>2, <2>3, <2>5 DEF GroundInv, Transfer!Whole, Announced
  <2> QED
    BY <1>1, <1>2, <2>2, <2>5, <2>6
<1> QED
  BY <1>3, <1>4

\* The steps on board.  Files stay announced, and only a request that is given
\* up is added to the ones the node may still handle.
LEMMA BoardStep ==
  ASSUME NodeInv, GroundInv, UNCHANGED <<r, placed, stored>>,
         \A g : Announced(g) => StillAnnounced(g),
         late' \subseteq late \cup {call}, call \in late' => StillAnnounced(call.file)
  PROVE  NodeInv' /\ GroundInv'
<1>1. GroundInv'
  BY DEF GroundInv, Transfer!Whole
<1>2. ASSUME NEW req \in late' PROVE StillAnnounced(req.file)
  <2>1. CASE req = call
    BY <2>1
  <2>2. CASE req \in late
    BY <2>2 DEF NodeInv
  <2> QED
    BY <2>1, <2>2
<1>3. r.active => StillAnnounced(r.file)
  BY DEF NodeInv
<1> QED
  BY <1>1, <1>2, <1>3 DEF NodeInv, Announced, StillAnnounced

\* The transfer under way goes to another phase, with the request of that phase.
Moves(ph) ==
  /\ s.phase # "IDLE"
  /\ s' = [phase |-> ph, id |-> s'.id, file |-> s.file, next |-> s'.next, acked |-> s'.acked,
           ticks |-> s'.ticks, retries |-> s'.retries, nextId |-> s'.nextId]
  /\ \/ ph = "SEND" /\ call' = Transfer!NoCall
     \/ ph \in {"POLL", "COMPLETE", "ABORT"} /\ Transfer!Send(IF ph = "POLL" THEN "ACK_POLL" ELSE ph)
  /\ UNCHANGED <<late, r, placed, stored, report>>

\* What a step does to FileDelivery.
Delivers == [Transfer!FD!Next]_(Transfer!FD!vars)

\* Going on with the transfer keeps the invariant, and nothing moves on the ground.
LEMMA MovesKeep ==
  ASSUME IInv, NEW ph, Moves(ph)
  PROVE  IInv' /\ Delivers
<1>1. ph \in {"SEND", "POLL", "COMPLETE", "ABORT"} /\ s'.phase = ph /\ s'.file = s.file
  BY DEF Moves
<1>2. SenderInv'
  BY <1>1 DEF Moves, IInv, SenderInv, SenderShape, Phases
<1>3. CallInv'
  BY <1>1 DEF Moves, Transfer!Send, CallInv, Transfer!NoCall
<1>4. NodeInv' /\ GroundInv'
  <2>1. \A g : Announced(g) => StillAnnounced(g)
    BY DEF Moves, Announced, StillAnnounced
  <2>2. call \in late' => StillAnnounced(call.file)
    BY <2>1 DEF Moves, IInv, NodeInv
  <2> QED
    BY <2>1, <2>2, BoardStep DEF Moves, IInv
<1>5. Delivers
  BY DEF Delivers, Moves, Transfer!FD!vars
<1> QED
  BY <1>2, <1>3, <1>4, <1>5 DEF IInv

\* The transfer under way ends: with a success only if its file is in place.
LEMMA FinishKeeps ==
  ASSUME IInv, s.phase # "IDLE", NEW result \in {"SUCCESS", "FAILED"}, Transfer!Finish(result),
         result = "SUCCESS" => s.file \in stored,
         UNCHANGED <<r, placed, stored>>, UNCHANGED late \/ Transfer!GiveUp
  PROVE  IInv' /\ Delivers
<1>1. s.file \in Files /\ report[s.file] = "ACTIVE" /\ report \in [Files -> Reports]
  BY DEF IInv, SenderInv
<1>2. report' = [report EXCEPT ![s.file] = result] /\ report' \in [Files -> Reports]
  BY <1>1 DEF Transfer!Finish, Reports
<1>3. SenderInv'
  BY <1>2 DEF Transfer!Finish, SenderInv, SenderShape, Transfer!IdleSender, Phases
<1>4. CallInv'
  BY DEF Transfer!Finish, CallInv, Transfer!IdleSender, Transfer!NoCall
<1>5. NodeInv' /\ GroundInv'
  <2>1. \A g : Announced(g) => StillAnnounced(g)
    BY <1>1, <1>2 DEF Announced, StillAnnounced
  <2>2. late' \subseteq late \cup {call}
    BY DEF Transfer!GiveUp
  <2>3. call \in late' => StillAnnounced(call.file)
    <3>1. CASE call \in late
      BY <3>1, <2>1 DEF IInv, NodeInv
    <3>2. CASE call \notin late /\ call \in late'
      <4>1. call # Transfer!NoCall
        BY <3>2 DEF Transfer!GiveUp
      <4>2. call.file = s.file
        BY <4>1 DEF IInv, CallInv
      <4> QED
        BY <4>2, <1>1, <1>2 DEF Announced, StillAnnounced
    <3> QED
      BY <3>1, <3>2
  <2> QED
    BY <2>1, <2>2, <2>3, BoardStep DEF IInv
<1>6. Delivers
  <2>1. Transfer!FD!Succeed(s.file) \/ Transfer!FD!Fail(s.file)
    BY <1>1, <1>2 DEF Transfer!FD!Succeed, Transfer!FD!Fail
  <2> QED
    BY <2>1, <1>1 DEF Delivers, Transfer!FD!Next
<1> QED
  BY <1>3, <1>4, <1>5, <1>6 DEF IInv

\* A transfer begins.
LEMMA StartKeeps ==
  ASSUME IInv, NEW f \in Files, Transfer!Start(f)
  PROVE  IInv' /\ Delivers
<1>1. /\ s'.phase = "BEGIN" /\ s'.file = f
      /\ s' = [phase |-> s'.phase, id |-> s'.id, file |-> s'.file, next |-> s'.next,
               acked |-> s'.acked, ticks |-> s'.ticks, retries |-> s'.retries,
               nextId |-> s'.nextId]
  BY DEF Transfer!Start, Transfer!IdleSender
<1>2. report' = [report EXCEPT ![f] = "ACTIVE"] /\ report \in [Files -> Reports]
  BY DEF Transfer!Start, IInv, SenderInv
<1>3. report' \in [Files -> Reports] /\ report'[f] = "ACTIVE"
  BY <1>2 DEF Reports
<1>4. SenderInv'
  BY <1>1, <1>3 DEF SenderInv, SenderShape, Phases
<1>5. CallInv'
  BY <1>1 DEF Transfer!Start, Transfer!Send, CallInv, Transfer!NoCall
<1>6. NodeInv' /\ GroundInv'
  <2>1. \A g : Announced(g) => StillAnnounced(g)
    BY <1>2 DEF Announced, StillAnnounced
  <2>2. late' = late /\ UNCHANGED <<r, placed, stored>>
    BY DEF Transfer!Start
  <2>3. call \in late' => StillAnnounced(call.file)
    BY <2>1, <2>2 DEF IInv, NodeInv
  <2> QED
    BY <2>1, <2>2, <2>3, BoardStep DEF IInv
<1>7. Delivers
  BY DEF Transfer!Start, Delivers, Transfer!FD!Next, Transfer!FD!Begin
<1> QED
  BY <1>4, <1>5, <1>6, <1>7 DEF IInv

\* The process restarts: a transfer under way has failed, an idle sender leaves
\* every report as it is.
LEMMA RestartKeeps ==
  ASSUME Transfer!TransferAssumption, IInv, Transfer!Restart
  PROVE  IInv' /\ Delivers
<1>1. report \in [Files -> Reports] /\ UNCHANGED <<r, placed, stored>>
  BY DEF IInv, SenderInv, Transfer!Restart
<1>2. CASE s.phase = "IDLE"
  <2>1. s.file = Transfer!NoFile /\ Transfer!NoFile \notin Files /\ call = Transfer!NoCall
    BY <1>2 DEF Transfer!TransferAssumption, IInv, SenderInv, CallInv, Transfer!NoFile
  <2>2. UNCHANGED <<report, late>>
    BY <1>1, <2>1 DEF Transfer!Restart, Transfer!GiveUp
  <2>3. SenderInv' /\ CallInv'
    BY <1>1, <2>2 DEF Transfer!Restart, SenderInv, SenderShape, CallInv, Transfer!IdleSender,
       Phases, Transfer!NoCall
  <2>4. \A g : Announced(g) => StillAnnounced(g)
    BY <2>2 DEF Announced, StillAnnounced
  <2>5. call \in late' => StillAnnounced(call.file)
    BY <2>2, <2>4 DEF IInv, NodeInv
  <2>6. NodeInv' /\ GroundInv'
    BY <1>1, <2>2, <2>4, <2>5, BoardStep DEF IInv
  <2>7. Delivers
    BY <1>1, <2>2 DEF Delivers, Transfer!FD!vars
  <2> QED
    BY <2>3, <2>6, <2>7 DEF IInv
<1>3. CASE s.phase # "IDLE"
  <2>1. s.file \in Files /\ report[s.file] = "ACTIVE"
    BY <1>3 DEF IInv, SenderInv
  <2>2. report' = [report EXCEPT ![s.file] = "FAILED"] /\ report' \in [Files -> Reports]
    BY <1>1, <2>1 DEF Transfer!Restart, Reports
  <2>3. SenderInv' /\ CallInv'
    BY <2>2 DEF Transfer!Restart, SenderInv, SenderShape, CallInv, Transfer!IdleSender, Phases,
       Transfer!NoCall
  <2>4. \A g : Announced(g) => StillAnnounced(g)
    BY <1>1, <2>1, <2>2 DEF Announced, StillAnnounced
  <2>5. late' \subseteq late \cup {call}
    BY DEF Transfer!Restart, Transfer!GiveUp
  <2>6. call \in late' => StillAnnounced(call.file)
    <3>1. CASE call \in late
      BY <3>1, <2>4 DEF IInv, NodeInv
    <3>2. CASE call \notin late /\ call \in late'
      <4>1. call # Transfer!NoCall
        BY <3>2 DEF Transfer!Restart, Transfer!GiveUp
      <4>2. call.file = s.file
        BY <4>1 DEF IInv, CallInv
      <4> QED
        BY <1>1, <2>1, <2>2, <4>2 DEF Announced, StillAnnounced
    <3> QED
      BY <3>1, <3>2
  <2>7. NodeInv' /\ GroundInv'
    BY <1>1, <2>4, <2>5, <2>6, BoardStep DEF IInv
  <2>8. Delivers
    BY <1>1, <2>1, <2>2 DEF Delivers, Transfer!FD!Next, Transfer!FD!Fail
  <2> QED
    BY <2>3, <2>7, <2>8 DEF IInv
<1> QED
  BY <1>2, <1>3

\* The node's answer to the poll, or its time-out, moves the transfer on.
LEMMA AcknowledgedMoves ==
  ASSUME IInv, s.phase = "POLL", NEW acked, NEW ok, Transfer!Acknowledged(acked, ok),
         UNCHANGED <<late, r, placed, stored, report>>
  PROVE  \E ph : Moves(ph)
<1>1. s = [phase |-> s.phase, id |-> s.id, file |-> s.file, next |-> s.next, acked |-> s.acked,
           ticks |-> s.ticks, retries |-> s.retries, nextId |-> s.nextId]
  BY DEF IInv, SenderInv, SenderShape
<1> DEFINE ack   == Transfer!Max2(s.acked, Transfer!Min2(acked, Transfer!Total))
           moved == ok /\ ack > s.acked
           ticks == IF moved THEN 0 ELSE s.ticks + 1
           tries == IF moved THEN 0 ELSE s.retries
           now   == [s EXCEPT !.acked = ack, !.ticks = ticks, !.retries = tries]
<1> HIDE DEF ack, ticks, tries
<1>2. now = [phase |-> s.phase, id |-> s.id, file |-> s.file, next |-> s.next, acked |-> ack,
             ticks |-> ticks, retries |-> tries, nextId |-> s.nextId]
  <2> DEFINE one == [s EXCEPT !.acked = ack]
             two == [one EXCEPT !.ticks = ticks]
  <2>1. one = [phase |-> s.phase, id |-> s.id, file |-> s.file, next |-> s.next, acked |-> ack,
               ticks |-> s.ticks, retries |-> s.retries, nextId |-> s.nextId]
    BY <1>1
  <2> HIDE DEF one
  <2>2. two = [phase |-> s.phase, id |-> s.id, file |-> s.file, next |-> s.next, acked |-> ack,
               ticks |-> ticks, retries |-> s.retries, nextId |-> s.nextId]
    BY <2>1
  <2> HIDE DEF two
  <2>3. [two EXCEPT !.retries = tries]
          = [phase |-> s.phase, id |-> s.id, file |-> s.file, next |-> s.next, acked |-> ack,
             ticks |-> ticks, retries |-> tries, nextId |-> s.nextId]
    BY <2>2
  <2> QED
    BY <2>3 DEF one, two
<1> USE DEF ack, ticks, tries
<1>3. \/ s' = [now EXCEPT !.phase = "ABORT"] /\ Transfer!Send("ABORT")
      \/ s' = Transfer!Resent(now) /\ call' = Transfer!NoCall
      \/ s' = [now EXCEPT !.phase = "COMPLETE"] /\ Transfer!Send("COMPLETE")
      \/ s' = [now EXCEPT !.phase = "SEND"] /\ call' = Transfer!NoCall
  BY DEF Transfer!Acknowledged
<1> HIDE DEF now, ack, ticks, tries
<1>4. CASE s' = [now EXCEPT !.phase = "ABORT"] /\ Transfer!Send("ABORT")
  BY <1>2, <1>4 DEF Moves
<1>5. CASE s' = Transfer!Resent(now) /\ call' = Transfer!NoCall
  BY <1>2, <1>5 DEF Moves, Transfer!Resent
<1>6. CASE s' = [now EXCEPT !.phase = "COMPLETE"] /\ Transfer!Send("COMPLETE")
  BY <1>2, <1>6 DEF Moves
<1>7. CASE s' = [now EXCEPT !.phase = "SEND"] /\ call' = Transfer!NoCall
  BY <1>2, <1>7 DEF Moves
<1> QED
  BY <1>3, <1>4, <1>5, <1>6, <1>7

\* Every step of the sender keeps the invariant and is a step of FileDelivery.
LEMMA SenderKeeps ==
  ASSUME Transfer!TransferAssumption, IInv, Transfer!Sender
  PROVE  IInv' /\ Delivers
<1>0. s = [phase |-> s.phase, id |-> s.id, file |-> s.file, next |-> s.next, acked |-> s.acked,
           ticks |-> s.ticks, retries |-> s.retries, nextId |-> s.nextId]
  BY DEF IInv, SenderInv, SenderShape
<1>1. ASSUME NEW f \in Files, Transfer!Start(f) PROVE IInv' /\ Delivers
  BY <1>1, StartKeeps
<1>2. CASE Transfer!Begun
  <2>1. CASE /\ call.result = "OK"
             /\ s' = [s EXCEPT !.phase = "SEND"] /\ call' = Transfer!NoCall /\ UNCHANGED report
    <3>1. Moves("SEND")
      BY <1>0, <1>2, <2>1 DEF Transfer!Begun, Moves
    <3> QED
      BY <3>1, MovesKeep
  <2>2. CASE call.result # "OK" /\ Transfer!Finish(Transfer!ReportOf(call.result))
    BY <1>2, <2>2, FinishKeeps DEF Transfer!Begun, Transfer!ReportOf
  <2> QED
    BY <1>2, <2>1, <2>2 DEF Transfer!Begun
<1>3. CASE Transfer!SendWindow
  <2>1. \E ph : Moves(ph)
    <3>1. CASE s.acked < Transfer!Total
      <4>1. Moves("POLL")
        BY <1>0, <1>3, <3>1 DEF Transfer!SendWindow, Moves
      <4> QED
        BY <4>1
    <3>2. CASE ~(s.acked < Transfer!Total)
      <4>1. Moves("COMPLETE")
        BY <1>0, <1>3, <3>2 DEF Transfer!SendWindow, Moves
      <4> QED
        BY <4>1
    <3> QED
      BY <3>1, <3>2
  <2> QED
    BY <2>1, MovesKeep
<1>4. CASE Transfer!Polled
  <2>1. \E ph : Moves(ph)
    BY <1>4, AcknowledgedMoves DEF Transfer!Polled
  <2> QED
    BY <2>1, MovesKeep
<1>5. CASE Transfer!PollTimeout
  <2>1. \E ph : Moves(ph)
    BY <1>5, AcknowledgedMoves DEF Transfer!PollTimeout
  <2> QED
    BY <2>1, MovesKeep
<1>6. CASE Transfer!Completed
  <2>1. call.op = "COMPLETE" /\ call # Transfer!NoCall /\ call.file = s.file
    BY <1>6 DEF Transfer!Completed, IInv, CallInv, Transfer!NoCall
  <2>2. call.result = "OK" => s.file \in stored
    BY <1>6, <2>1 DEF Transfer!Completed, IInv, CallInv
  <2> QED
    BY <1>6, <2>2, FinishKeeps DEF Transfer!Completed, Transfer!ReportOf
<1>7. CASE Transfer!Aborted
  BY <1>7, FinishKeeps DEF Transfer!Aborted
<1>8. CASE Transfer!RequestFails
  BY <1>8, FinishKeeps DEF Transfer!RequestFails
<1>9. CASE Transfer!SendFails
  BY <1>9, FinishKeeps DEF Transfer!SendFails
<1>10. CASE Transfer!Cancel
  <2>1. Moves("ABORT")
    BY <1>0, <1>10 DEF Transfer!Cancel, Moves
  <2> QED
    BY <2>1, MovesKeep
<1>11. CASE Transfer!Restart
  BY <1>11, RestartKeeps
<1> QED
  BY <1>1, <1>2, <1>3, <1>4, <1>5, <1>6, <1>7, <1>8, <1>9, <1>10, <1>11 DEF Transfer!Sender

\* Every step of the node keeps the invariant and is a step of FileDelivery.
LEMMA NodeKeeps ==
  ASSUME IInv, Transfer!Node
  PROVE  IInv' /\ Delivers
<1>1. ASSUME NEW frame \in frames, Transfer!HandleData(frame) PROVE IInv' /\ Delivers
  <2>1. r' = [active |-> r.active, id |-> r.id, file |-> r.file, got |-> r'.got]
    BY <1>1 DEF Transfer!HandleData, Transfer!Store, IInv, NodeInv
  <2>2. UNCHANGED <<s, call, late, placed, stored, report>>
    BY <1>1 DEF Transfer!HandleData
  <2>3. SenderInv' /\ CallInv' /\ GroundInv'
    BY <2>2 DEF IInv, SenderInv, SenderShape, CallInv, GroundInv, Transfer!Whole
  <2>4. NodeInv'
    BY <2>1, <2>2 DEF IInv, NodeInv, Announced
  <2> QED
    BY <2>2, <2>3, <2>4 DEF IInv, Delivers, Transfer!FD!vars
<1>2. ASSUME NEW req, Announced(req.file), NEW w,
             r' = Transfer!Handled(r, req, w), placed' = Transfer!Stored(r, req, w),
             stored' = stored \cup {Transfer!PutInPlace(g) : g \in placed' \ placed},
             UNCHANGED <<s, report>>, late' \subseteq late
      PROVE  SenderInv' /\ NodeInv' /\ GroundInv' /\ Delivers /\ stored \subseteq stored'
             /\ (req.op = "COMPLETE" /\ Transfer!Reply(r, req, w) = "OK" => req.file \in stored')
  <2>1. /\ r' = [active |-> r'.active, id |-> r'.id, file |-> r'.file, got |-> r'.got]
        /\ r'.active => Announced(r'.file)
        /\ GroundInv'
        /\ stored' = stored \/ (Announced(r.file) /\ stored' = stored \cup {r.file})
        /\ req.op = "COMPLETE" /\ Transfer!Reply(r, req, w) = "OK" => req.file \in stored'
    BY <1>2, RequestHandled DEF IInv
  <2>2. SenderInv'
    BY <1>2 DEF IInv, SenderInv, SenderShape
  <2>3. NodeInv'
    BY <1>2, <2>1 DEF IInv, NodeInv, Announced
  <2>4. Delivers
    <3>1. CASE stored' = stored
      BY <1>2, <3>1 DEF Delivers, Transfer!FD!vars
    <3>2. CASE Announced(r.file) /\ stored' = stored \cup {r.file}
      BY <1>2, <3>2 DEF Delivers, Transfer!FD!Next, Transfer!FD!Arrive, Announced
    <3> QED
      BY <2>1, <3>1, <3>2
  <2> QED
    BY <1>2, <2>1, <2>2, <2>3, <2>4
<1>3. ASSUME call # Transfer!NoCall, NEW w, Transfer!HandleCall(w) PROVE IInv' /\ Delivers
  <2>1. call.file = s.file
    BY <1>3 DEF IInv, CallInv
  <2>2. s.phase # "IDLE" /\ Announced(call.file)
    BY <1>3, <2>1 DEF IInv, CallInv, SenderInv, Announced
  <2>3. /\ SenderInv' /\ NodeInv' /\ GroundInv' /\ Delivers
        /\ call.op = "COMPLETE" /\ Transfer!Reply(r, call, w) = "OK" => call.file \in stored'
    BY <1>2, <1>3, <2>2 DEF Transfer!HandleCall
  <2>4. /\ call'.op = call.op /\ call'.file = call.file /\ call'.result = Transfer!Reply(r, call, w)
        /\ UNCHANGED s
    BY <1>3 DEF Transfer!HandleCall
  <2>5. CallInv'
    BY <1>3, <2>1, <2>3, <2>4 DEF IInv, CallInv
  <2> QED
    BY <2>3, <2>5 DEF IInv
<1>4. ASSUME NEW req \in late, NEW w, Transfer!HandleLate(req, w) PROVE IInv' /\ Delivers
  <2>1. Announced(req.file)
    BY <1>4 DEF IInv, NodeInv
  <2>2. SenderInv' /\ NodeInv' /\ GroundInv' /\ Delivers /\ stored \subseteq stored'
    BY <1>2, <1>4, <2>1 DEF Transfer!HandleLate
  <2>3. CallInv'
    BY <1>4, <2>2 DEF Transfer!HandleLate, IInv, CallInv
  <2> QED
    BY <2>2, <2>3 DEF IInv
<1> QED
  BY <1>1, <1>3, <1>4 DEF Transfer!Node

\* The reliable transfer keeps the promise of FileDelivery for all files, window
\* sizes, time-outs and budgets: CommReliableTransfer reports success only for a
\* file CommNodeServer has put into place, and no file put there is anything but
\* whole, whatever is lost, late, reordered or repeated under a reused id.
THEOREM Delivery ==
  ASSUME Transfer!TransferAssumption
  PROVE  Transfer!Spec => Transfer!DeliversFiles
<1>1. Transfer!Init => IInv /\ Transfer!FD!Init
  BY InitInv DEF Transfer!Init, Transfer!FD!Init
<1>2. IInv /\ [Transfer!Next]_(Transfer!vars) => IInv' /\ Delivers
  <2> SUFFICES ASSUME IInv, [Transfer!Next]_(Transfer!vars) PROVE IInv' /\ Delivers
    OBVIOUS
  <2>1. CASE Transfer!Sender
    BY <2>1, SenderKeeps
  <2>2. CASE Transfer!Node
    BY <2>2, NodeKeeps
  <2>3. CASE UNCHANGED Transfer!vars
    <3>1. UNCHANGED <<s, call, late, r, placed, stored, report>>
      BY <2>3 DEF Transfer!vars
    <3> QED
      BY <3>1 DEF IInv, SenderInv, SenderShape, CallInv, NodeInv, GroundInv, Announced, Transfer!Whole,
         Delivers, Transfer!FD!vars
  <2> QED
    BY <2>1, <2>2, <2>3 DEF Transfer!Next
<1> QED
  BY <1>1, <1>2, PTL DEF Transfer!Spec, Transfer!DeliversFiles, Transfer!FD!Spec, Delivers
=============================================================================
