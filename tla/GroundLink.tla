----------------------------- MODULE GroundLink -----------------------------
(***************************************************************************)
(* The byte path of the S-band link: GroundLinkDriver and its               *)
(* CommCspGroundLinkBackend on the OBC, CommNodeServer with its staging area and drain queue on the     *)
(* node, and the serial line to the ground.  A send is staged frame by      *)
(* frame, acknowledged, committed to the drain queue as a whole, and        *)
(* drained by a worker thread that writes a frame without holding the       *)
(* queue's lock.  Until the node has answered the V3 probe, messages go the *)
(* V1 way, one write at a time; under the V2_ONLY policy each frame is a    *)
(* request of its own and the last one commits.  The node keeps one staging *)
(* area and queue per protocol; the backend has one policy, so n stands for *)
(* the one it uses.  The bus is a queue that may lose packets; the sender   *)
(* may time out while its request still waits in it.  In the other          *)
(* direction the driver's worker thread polls the node for the chunks it    *)
(* has read from the line; a poll and a send exclude each other by the      *)
(* backend's mutex.                                                         *)
(***************************************************************************)
EXTENDS Integers, FiniteSets, Sequences

CONSTANTS FramesOf,      \* the frames of the k-th message sent
          WindowCap,     \* maxDownlinkV3WindowFramesForTransport
          StagingLimit,  \* DOWNLINK_V3_STAGING_FRAME_LIMIT, DOWNLINK_STAGE_V2_STAGING_SLOTS
          DrainLimit,    \* DOWNLINK_V3_DRAIN_FRAME_LIMIT, DOWNLINK_STAGE_V2_DRAIN_SLOTS
          ProbeLimit,    \* kDownlinkV2ProbeMaxTransientAttempts
          UplinkLimit,   \* uplinkQueueCapacity, in chunks
          Workloads,     \* bound: policy, number of sends and of uplink chunks of a behaviour
          MaxRxErrors,   \* bound: failed polls
          WireLimit,     \* bound: packets on the bus at a time
          MaxCloses      \* bound: times the serial line is closed

ASSUME LinkAssumption ==
  /\ FramesOf \in Seq(Nat \ {0}) /\ {WindowCap, StagingLimit, DrainLimit, ProbeLimit} \subseteq Nat \ {0}
  /\ {WireLimit, MaxCloses, MaxRxErrors} \subseteq Nat /\ UplinkLimit \in Nat \ {0}
  /\ Workloads \subseteq [policy : {"V3", "V2_ONLY"}, sends : 0 .. Len(FramesOf), chunks : Nat]

VARIABLES b,         \* the backend: the send in progress and the result of the last one
          wire,      \* packets on their way to the node, oldest first
          answer,    \* the reply to the request the backend waits for
          n,         \* CommNodeDownlinkV3State or CommNodeDownlinkV2State
          main,      \* the node's main thread: serving, or in closeExternalLink_
          worker,    \* the drain worker: its step and the frame it has peeked
          up,        \* the uplink: the node's queue and the driver's worker thread
          line,      \* the serial line: open or not, and how often it was closed
          ground,    \* history: the frames written to the line
          committed  \* history: the streams committed to the drain queue

vars == <<b, up, wire, answer, n, main, worker, line, ground, committed>>

Calls == 1 .. Len(FramesOf)
NoAnswer == [result |-> "NONE"]
NoFrame == [stream |-> 0, index |-> 0]
Min2(x, y) == IF x < y THEN x ELSE y
Max2(x, y) == IF x > y THEN x ELSE y

Staging(stream) == [active |-> stream # 0, stream |-> stream, got |-> {}]
-----------------------------------------------------------------------------
(* CommNodeDownlinkV3State. *)

Contiguous ==
  IF ~n.staging.active THEN 0
  ELSE CHOOSE k \in 0 .. FramesOf[n.staging.stream] :
         0 .. k - 1 \subseteq n.staging.got /\ k \notin n.staging.got

Credit == IF ~n.staging.active THEN StagingLimit
          ELSE Min2(StagingLimit, FramesOf[n.staging.stream]) - Cardinality(n.staging.got)

CommitFits(total) == total <= DrainLimit - Len(n.queue)

\* matchesCommittedCommit_ (V3: the last stream committed), findCommittedReply_
\* (V2: the streams committed since the drain queue was last empty).
Cached(s) == s \in n.cached

\* The result of a control request of op for stream s.
ControlResult(op, s, acked) ==
  LET mine == n.staging.active /\ n.staging.stream = s
  IN  CASE op = "BEGIN" -> IF mine \/ ~n.staging.active THEN "OK" ELSE "BUSY"
        [] op = "ABORT" -> IF mine \/ Cached(s) THEN "OK" ELSE "INVALID"
        [] op = "STATUS" -> "OK"
        [] op = "ACK_POLL" -> IF ~mine THEN "INVALID"
                              ELSE IF Contiguous = acked THEN "NO_PROGRESS" ELSE "OK"
        [] op = "COMMIT" -> IF Cached(s) THEN "OK"
                            ELSE IF ~mine THEN "INVALID"
                            ELSE IF Contiguous # FramesOf[s] THEN "NO_PROGRESS"
                            ELSE IF CommitFits(FramesOf[s]) THEN "OK" ELSE "NO_CREDIT"

\* tryCommitActive_ is reached: the stream leaves the staging area.
Commits(op, s) == op = "COMMIT" /\ ~Cached(s) /\ ControlResult(op, s, 0) = "OK"

\* The stream moves to the drain queue as a whole; its replies are kept.
Enqueued(s, cached) ==
  [n EXCEPT !.staging = Staging(0), !.cached = cached, !.accepted = @ + FramesOf[s],
            !.queue = @ \o [k \in 1 .. FramesOf[s] |-> [stream |-> s, index |-> k - 1]]]

\* What handleControl leaves behind.
Controlled(op, s) ==
  CASE op = "BEGIN" /\ ~n.staging.active -> [n EXCEPT !.staging = Staging(s)]
    [] op = "ABORT" /\ n.staging.active /\ n.staging.stream = s -> [n EXCEPT !.staging = Staging(0)]
    [] Commits(op, s) -> Enqueued(s, {s})
    [] OTHER -> n

\* handleData.
Staged(frame) ==
  IF n.staging.active /\ frame.stream = n.staging.stream
    THEN [n EXCEPT !.staging.got = @ \cup {frame.index}] ELSE n

\* Mutant of Dropped: the frames that are thrown away are not counted.
DroppedUncounted(inFlight) ==
  [n EXCEPT !.queue = <<>>, !.staging = Staging(0), !.cached = {}]

\* handleDrainWriteFailure(inFlight).
Dropped(inFlight) ==
  [n EXCEPT !.dropped = @ + Max2(inFlight, Len(n.queue)),
            !.queue = <<>>, !.staging = Staging(0), !.cached = {}]

\* Mutant of Flushed: the front is popped without being compared.
FlushedAnyFront(frame) ==
  IF n.queue # <<>> THEN [n EXCEPT !.queue = Tail(@), !.flushed = @ + 1] ELSE n

\* confirmDrainFrameFlushed.
Flushed(frame) ==
  IF n.queue # <<>> /\ Head(n.queue) = frame
    THEN [n EXCEPT !.queue = Tail(@), !.flushed = @ + 1] ELSE n
-----------------------------------------------------------------------------
(* CommNodeDownlinkV2State.  The frames arrive in order, so the staging area *)
(* holds 0 .. k - 1; the last frame waits in pendingFinal until it fits.      *)

MineV2(s) == n.staging.active /\ n.staging.stream = s

\* findActiveReply_, findCommittedReply_: the request has been answered before.
Repeated(s, i) == (MineV2(s) /\ i \in n.staging.got) \/ Cached(s)

\* The frame is the next one of a stream the node can take.
InOrder(s, i) ==
  IF n.staging.active THEN MineV2(s) /\ i = Cardinality(n.staging.got) ELSE i = 0

IsLast(s, i) == i + 1 = FramesOf[s]

\* handleStage.
StageResult(s, i) ==
  CASE Repeated(s, i) -> "OK"
    [] ~Repeated(s, i) /\ ~InOrder(s, i) -> "INVALID"
    [] ~Repeated(s, i) /\ InOrder(s, i) /\ IsLast(s, i) -> IF CommitFits(i + 1) THEN "OK" ELSE "NO_CREDIT"
    [] OTHER -> IF i < StagingLimit THEN "OK" ELSE "INVALID"

\* tryCommitPendingFinal_ succeeds.
StageCommits(s, i) == IsLast(s, i) /\ ~Repeated(s, i) /\ StageResult(s, i) = "OK"

StagedV2(s, i) ==
  CASE StageCommits(s, i) -> Enqueued(s, n.cached \cup {s})
    [] StageResult(s, i) = "NO_CREDIT" /\ ~n.staging.active -> [n EXCEPT !.staging = Staging(s)]
    [] StageResult(s, i) = "OK" /\ ~Repeated(s, i) /\ ~IsLast(s, i) ->
         [n EXCEPT !.staging = [Staging(s) EXCEPT !.got = n.staging.got \cup {i}]]
    [] OTHER -> n

\* handleAbort: always answered OK.
AbortedV2(s) == IF MineV2(s) THEN [n EXCEPT !.staging = Staging(0)] ELSE n

\* confirmDrainChunkFlushed: the replies are forgotten with the last chunk.
FlushedV2(frame) ==
  IF Flushed(frame).queue = <<>> /\ n.queue # <<>> THEN [Flushed(frame) EXCEPT !.cached = {}]
  ELSE Flushed(frame)
-----------------------------------------------------------------------------
(* CommCspGroundLinkBackend::send, one action per request, reply or timeout. *)

Total == FramesOf[b.call]

Request(op) == Append(wire, [op |-> op, stream |-> b.call, acked |-> b'.acked, live |-> TRUE])

Ask(op) == wire' = Request(op) /\ answer' = NoAnswer

\* requestReply has given up: a reply that comes later is not taken.
Abandoned(q) == [i \in 1 .. Len(q) |-> [q[i] EXCEPT !.live = FALSE]]

AskAgain(op) ==
  wire' = Append(Abandoned(wire), [op |-> op, stream |-> b.call, acked |-> b'.acked, live |-> TRUE])
  /\ answer' = NoAnswer

Return(result) == b' = [b EXCEPT !.phase = "IDLE", !.result = result]

Init ==
  /\ \E w \in Workloads :
       /\ b = [phase |-> "IDLE", call |-> 0, sends |-> w.sends, policy |-> w.policy, v3 |-> FALSE,
               v2 |-> "UNKNOWN", probes |-> 0, acked |-> 0, next |-> 0, window |-> 0,
               active |-> FALSE, overdue |-> FALSE, result |-> "NONE"]
       /\ up = [chunks |-> w.chunks, read |-> 0, queue |-> <<>>, step |-> "CALL", chunk |-> 0,
                rxErrors |-> 0, dropped |-> 0, delivered |-> <<>>]
  /\ wire = <<>> /\ answer = NoAnswer
  /\ n = [staging |-> Staging(0), cached |-> {}, queue |-> <<>>,
          accepted |-> 0, flushed |-> 0, dropped |-> 0]
  /\ main = "SERVING" /\ worker = [step |-> "PEEK", frame |-> NoFrame]
  /\ line = [open |-> FALSE, closes |-> 0]
  /\ ground = <<>> /\ committed = <<>>

NodeSame == UNCHANGED <<up, n, main, worker, line, ground, committed>>
Room == Len(wire) < WireLimit

Start(phase) == [b EXCEPT !.phase = phase, !.call = @ + 1, !.acked = 0, !.next = 0, !.active = FALSE,
                          !.window = Min2(FramesOf[b.call + 1], WindowCap), !.overdue = FALSE,
                          !.result = "NONE"]

StartWith(phase, op) ==
  /\ b' = Start(phase) /\ answer' = NoAnswer
  /\ wire' = Append(wire, [op |-> op, stream |-> b.call + 1, acked |-> 0, live |-> TRUE])

StartFails(result) == b' = [Start("IDLE") EXCEPT !.result = result] /\ UNCHANGED <<wire, answer>>

\* send: with V3 enabled BEGIN is asked for, otherwise the node is probed.
\* A message of more frames than the staging area holds is an error.
StartSend ==
  /\ b.phase = "IDLE" /\ b.policy = "V3" /\ b.call < b.sends /\ up.step # "POLL" /\ Room
  /\ \/ b.v3 /\ FramesOf[b.call + 1] > StagingLimit /\ StartFails("ERROR")
     \/ b.v3 /\ FramesOf[b.call + 1] <= StagingLimit /\ StartWith("BEGIN", "BEGIN")
     \/ ~b.v3 /\ StartWith("PROBE", "STATUS")
  /\ NodeSame

\* send under V2_ONLY: probed once per send until the probe is completed; a
\* probe given up leaves every later send to RETRY.
StartSendV2 ==
  /\ b.phase = "IDLE" /\ b.policy = "V2_ONLY" /\ b.call < b.sends /\ up.step # "POLL" /\ Room
  /\ \/ b.v2 = "UNKNOWN" /\ StartWith("PROBE_V2", "STATUS_V2")
     \/ b.v2 = "ENABLED" /\ StartWith("STAGE", "STAGE")
     \/ b.v2 = "REFUSED" /\ StartFails("RETRY")
  /\ NodeSame

\* probeDownlinkV2Locked_.
ProbedV2 ==
  /\ b.phase = "PROBE_V2" /\ answer # NoAnswer /\ Room
  /\ b' = [b EXCEPT !.v2 = "ENABLED", !.phase = "STAGE"] /\ Ask("STAGE")
  /\ NodeSame

ProbeTimeoutV2 ==
  /\ b.phase = "PROBE_V2" /\ answer = NoAnswer
  /\ b' = [b EXCEPT !.phase = "IDLE", !.result = "RETRY", !.probes = @ + 1,
                    !.v2 = IF b.probes + 1 >= ProbeLimit THEN "REFUSED" ELSE @]
  /\ wire' = Abandoned(wire) /\ UNCHANGED answer
  /\ NodeSame

\* The stream is given up; it is aborted only if the node is known to hold it.
GiveUpV2(active, result, pending) ==
  \/ /\ active /\ b' = [b EXCEPT !.phase = "ABORT", !.active = TRUE, !.result = result]
     /\ wire' = Append(pending, [op |-> "ABORT_V2", stream |-> b.call, acked |-> 0, live |-> TRUE])
     /\ answer' = NoAnswer
  \/ ~active /\ Return(result) /\ wire' = pending /\ answer' = NoAnswer

\* sendV2Locked_: one request per frame, the last one repeated while the node
\* has no credit for it.
StageAnswered ==
  /\ b.phase = "STAGE" /\ answer # NoAnswer /\ Room
  /\ LET last == IsLast(b.call, b.acked) IN
     \/ /\ answer.result = "OK" /\ ~last
        /\ b' = [b EXCEPT !.acked = @ + 1, !.active = TRUE] /\ Ask("STAGE")
     \/ answer.result = "OK" /\ last /\ Return("OK") /\ answer' = NoAnswer /\ UNCHANGED wire
     \/ /\ answer.result = "NO_CREDIT" /\ last /\ ~b.overdue
        /\ b' = [b EXCEPT !.active = TRUE] /\ Ask("STAGE")
     \/ answer.result = "NO_CREDIT" /\ last /\ b.overdue /\ GiveUpV2(TRUE, "RETRY", wire)
     \/ /\ answer.result = "INVALID"
        /\ GiveUpV2(b.active, IF answer.connected THEN "ERROR" ELSE "RETRY", wire)
  /\ NodeSame

\* A request that is not answered is not repeated.
StageTimeout ==
  /\ b.phase = "STAGE" /\ answer = NoAnswer /\ Room
  /\ GiveUpV2(b.active, "RETRY", Abandoned(wire))
  /\ NodeSame

\* ensureDownlinkV3ReadyForSendLocked_: answered, asked again, or not in time.
Probed ==
  /\ b.phase = "PROBE" /\ answer # NoAnswer /\ Room
  /\ \/ /\ Total <= StagingLimit
        /\ b' = [b EXCEPT !.v3 = TRUE, !.phase = "BEGIN"] /\ Ask("BEGIN")
     \/ /\ Total > StagingLimit
        /\ b' = [b EXCEPT !.v3 = TRUE, !.phase = "IDLE", !.result = "ERROR"]
        /\ answer' = NoAnswer /\ UNCHANGED wire
  /\ NodeSame

\* Mutant of ProbeTimeout: the deadline is not looked at.
ProbeTimeoutForever ==
  /\ b.phase = "PROBE" /\ answer = NoAnswer /\ Room
  /\ UNCHANGED b /\ AskAgain("STATUS")
  /\ NodeSame

ProbeTimeout ==
  /\ b.phase = "PROBE" /\ answer = NoAnswer /\ Room
  /\ \/ ~b.overdue /\ UNCHANGED b /\ AskAgain("STATUS")
     \/ b.overdue /\ b' = [b EXCEPT !.phase = "V1"] /\ AskAgain("WRITE")
  /\ NodeSame

\* sendV1Locked_: the answer to DOWNLINK_WRITE, and its timeout.
Written ==
  /\ b.phase = "V1" /\ answer # NoAnswer /\ Room
  /\ \/ /\ answer.result = "OK" /\ b.acked + 1 < Total
        /\ b' = [b EXCEPT !.acked = @ + 1] /\ Ask("WRITE")
     \/ /\ answer.result = "OK" /\ b.acked + 1 = Total
        /\ Return("OK") /\ answer' = NoAnswer /\ UNCHANGED wire
     \/ /\ answer.result # "OK"
        /\ Return("RETRY") /\ answer' = NoAnswer /\ UNCHANGED wire
  /\ NodeSame

WriteTimeout ==
  /\ b.phase = "V1" /\ answer = NoAnswer
  /\ Return("RETRY") /\ wire' = Abandoned(wire) /\ UNCHANGED answer
  /\ NodeSame

\* sendV3Locked_: BEGIN is repeated on a timeout until the deadline.
Begun ==
  /\ b.phase = "BEGIN" /\ answer # NoAnswer
  /\ IF answer.result = "OK" THEN b' = [b EXCEPT !.phase = "SEND"] ELSE Return("RETRY")
  /\ answer' = NoAnswer /\ UNCHANGED wire
  /\ NodeSame

BeginTimeout ==
  /\ b.phase = "BEGIN" /\ answer = NoAnswer /\ Room
  /\ \/ ~b.overdue /\ UNCHANGED b /\ AskAgain("BEGIN")
     \/ b.overdue /\ Return("RETRY") /\ wire' = Abandoned(wire) /\ UNCHANGED answer
  /\ NodeSame

\* One frame of the window, or the poll once the window is out.
SendFrame ==
  /\ b.phase = "SEND" /\ b.next < Min2(Total, b.acked + b.window) /\ Room
  /\ b' = [b EXCEPT !.next = @ + 1]
  /\ wire' = Append(wire, [op |-> "DATA", stream |-> b.call, acked |-> b.next, live |-> FALSE])
  /\ UNCHANGED answer /\ NodeSame

PollAck ==
  /\ b.phase = "SEND" /\ b.next >= Min2(Total, b.acked + b.window) /\ Room
  /\ b' = [b EXCEPT !.phase = "ACK"] /\ Ask("ACK_POLL")
  /\ NodeSame

\* sendRaw fails: the stream is aborted.
SendFrameFails ==
  /\ b.phase = "SEND" /\ b.next < Min2(Total, b.acked + b.window) /\ Room
  /\ b' = [b EXCEPT !.phase = "ABORT"] /\ Ask("ABORT")
  /\ NodeSame

Acked ==
  /\ b.phase = "ACK" /\ answer # NoAnswer /\ Room
  /\ LET acked  == Max2(b.acked, answer.acked)
         window == IF answer.credit > 0 THEN Min2(answer.credit, WindowCap) ELSE b.window
         now    == [b EXCEPT !.acked = acked, !.window = window]
         stuck  == acked = b.acked \/ answer.result = "NO_PROGRESS"
     IN  \/ /\ acked = Total
            /\ b' = [now EXCEPT !.phase = "COMMIT"] /\ Ask("COMMIT")
         \/ /\ acked # Total /\ stuck /\ b.overdue
            /\ b' = [now EXCEPT !.phase = "ABORT"] /\ Ask("ABORT")
         \/ /\ acked # Total /\ ~(stuck /\ b.overdue)
            /\ b' = [now EXCEPT !.phase = "SEND", !.next = IF stuck THEN acked ELSE @]
            /\ answer' = NoAnswer /\ UNCHANGED wire
  /\ NodeSame

AckTimeout ==
  /\ b.phase = "ACK" /\ answer = NoAnswer /\ Room
  /\ \/ b.overdue /\ b' = [b EXCEPT !.phase = "ABORT"] /\ AskAgain("ABORT")
     \/ ~b.overdue /\ b' = [b EXCEPT !.phase = "SEND", !.next = b.acked]
        /\ wire' = Abandoned(wire) /\ UNCHANGED answer
  /\ NodeSame

Committed ==
  /\ b.phase = "COMMIT" /\ answer # NoAnswer /\ Room
  /\ \/ answer.result = "OK" /\ Return("OK") /\ answer' = NoAnswer /\ UNCHANGED wire
     \/ answer.result = "NO_CREDIT" /\ ~b.overdue /\ UNCHANGED b /\ Ask("COMMIT")
     \/ /\ answer.result # "OK" /\ (answer.result = "NO_CREDIT" => b.overdue)
        /\ b' = [b EXCEPT !.phase = "ABORT"] /\ Ask("ABORT")
  /\ NodeSame

CommitTimeout ==
  /\ b.phase = "COMMIT" /\ answer = NoAnswer /\ Room
  /\ \/ ~b.overdue /\ UNCHANGED b /\ AskAgain("COMMIT")
     \/ b.overdue /\ b' = [b EXCEPT !.phase = "ABORT"] /\ AskAgain("ABORT")
  /\ NodeSame

\* The answer to ABORT is not looked at.
Aborted ==
  /\ b.phase = "ABORT"
  /\ Return(IF b.result = "NONE" THEN "RETRY" ELSE b.result) /\ wire' = Abandoned(wire) /\ answer' = NoAnswer
  /\ NodeSame

DeadlinePasses ==
  /\ b.phase \notin {"IDLE", "V1", "PROBE_V2"} /\ ~b.overdue
  /\ b' = [b EXCEPT !.overdue = TRUE]
  /\ UNCHANGED <<wire, answer>> /\ NodeSame
-----------------------------------------------------------------------------
(* GroundLinkDriver::workerLoop_: runReceiveOnce_ again and again. *)

\* CommCspGroundLinkBackend::receive, under the backend's mutex.
Poll ==
  /\ up.step = "CALL" /\ up.chunks > 0 /\ up.rxErrors < MaxRxErrors /\ b.phase = "IDLE" /\ Room
  /\ up' = [up EXCEPT !.step = "POLL"]
  /\ wire' = Append(wire, [op |-> "UPLINK_POLL", stream |-> 0, acked |-> 0, live |-> TRUE])
  /\ answer' = NoAnswer
  /\ UNCHANGED <<b, n, main, worker, line, ground, committed>>

\* IDLE or DATA.
Polled ==
  /\ up.step = "POLL" /\ answer # NoAnswer
  /\ up' = IF answer.result = "NO_CHUNK" THEN [up EXCEPT !.step = "CALL"]
           ELSE [up EXCEPT !.step = "DELIVER", !.chunk = answer.chunk]
  /\ answer' = NoAnswer
  /\ UNCHANGED <<b, wire, n, main, worker, line, ground, committed>>

\* Mutant of PollTimeout: the failed poll leaves no trace.
PollTimeoutUncounted ==
  /\ up.step = "POLL" /\ answer = NoAnswer
  /\ up' = [up EXCEPT !.step = "CALL"]
  /\ wire' = Abandoned(wire)
  /\ UNCHANGED <<b, answer, n, main, worker, line, ground, committed>>

\* DISCONNECTED: the request may still be served, its chunk is then lost.
PollTimeout ==
  /\ up.step = "POLL" /\ answer = NoAnswer
  /\ up' = [up EXCEPT !.step = "CALL", !.rxErrors = @ + 1]
  /\ wire' = Abandoned(wire)
  /\ UNCHANGED <<b, answer, n, main, worker, line, ground, committed>>

\* The chunk goes to the deframer unless no buffer is to be had.
Deliver(allocated) ==
  /\ up.step = "DELIVER"
  /\ up' = IF allocated
           THEN [up EXCEPT !.step = "CALL", !.chunk = 0, !.delivered = Append(@, up.chunk)]
           ELSE [up EXCEPT !.step = "CALL", !.chunk = 0, !.rxErrors = @ + 1]
  /\ UNCHANGED <<b, wire, answer, n, main, worker, line, ground, committed>>
-----------------------------------------------------------------------------
(* The node. *)

Reply(packet, result) ==
  answer' = IF packet.live THEN [result |-> result, acked |-> Contiguous, credit |-> Credit]
            ELSE answer

V3Ops == {"STATUS", "BEGIN", "DATA", "ACK_POLL", "COMMIT", "ABORT"}

\* handleDownlinkControlV3_ and handleDownlinkDataV3_.
ServeV3 ==
  /\ main = "SERVING" /\ wire # <<>> /\ Head(wire).op \in V3Ops
  /\ LET p == Head(wire) IN
       /\ n' = IF p.op = "DATA" THEN Staged([stream |-> p.stream, index |-> p.acked])
               ELSE Controlled(p.op, p.stream)
       /\ IF p.op = "DATA" THEN UNCHANGED answer ELSE Reply(p, ControlResult(p.op, p.stream, p.acked))
       /\ committed' = IF Commits(p.op, p.stream) THEN Append(committed, p.stream) ELSE committed
  /\ wire' = Tail(wire)
  /\ UNCHANGED <<b, up, main, worker, line, ground>>

ReplyV2(packet, result) ==
  answer' = IF packet.live THEN [result |-> result, connected |-> line.open] ELSE answer

\* handleDownlinkStageV2_, handleDownlinkStatusV2_ and handleDownlinkAbortV2_.
ServeV2 ==
  /\ main = "SERVING" /\ wire # <<>>
  /\ LET p == Head(wire) IN
       \/ /\ p.op = "STAGE" /\ n' = StagedV2(p.stream, p.acked)
          /\ ReplyV2(p, StageResult(p.stream, p.acked))
          /\ committed' = IF StageCommits(p.stream, p.acked) THEN Append(committed, p.stream) ELSE committed
       \/ p.op = "STATUS_V2" /\ ReplyV2(p, "OK") /\ UNCHANGED <<n, committed>>
       \/ p.op = "ABORT_V2" /\ n' = AbortedV2(p.stream) /\ ReplyV2(p, "OK") /\ UNCHANGED committed
  /\ wire' = Tail(wire)
  /\ UNCHANGED <<b, up, main, worker, line, ground>>

\* handleDownlinkWrite_: the line is opened if it can be, the chunk is written;
\* a failing write closes the line.
ServeWrite(opens, written) ==
  /\ main = "SERVING" /\ wire # <<>> /\ Head(wire).op = "WRITE"
  /\ LET p == Head(wire)
         open == line.open \/ opens
     IN  /\ written => open
         /\ Reply(p, IF written THEN "OK" ELSE "IO_ERROR")
         /\ ground' = IF written THEN Append(ground, [stream |-> p.stream, index |-> p.acked]) ELSE ground
         /\ line' = [line EXCEPT !.open = open]
         /\ main' = IF open /\ ~written THEN "CLOSING" ELSE main
         /\ open /\ ~written => line.closes < MaxCloses
  /\ wire' = Tail(wire)
  /\ UNCHANGED <<b, up, n, worker, committed>>

Lose == wire # <<>> /\ wire' = Tail(wire) /\ UNCHANGED <<b, answer>> /\ NodeSame

\* reapTimedOut, called from every loop of the node.
Reap ==
  /\ n.staging.active
  /\ n' = [n EXCEPT !.staging = Staging(0)]
  /\ UNCHANGED <<b, up, wire, answer, main, worker, line, ground, committed>>

\* ensureExternalLinkOpen_ succeeds.
OpenLine ==
  /\ ~line.open /\ main = "SERVING"
  /\ line' = [line EXCEPT !.open = TRUE]
  /\ UNCHANGED <<b, up, wire, answer, n, main, worker, ground, committed>>

\* pollExternalIngress_ reads a chunk.  ingestUplinkBytes takes it whole or
\* drops and counts it: the queue is full, or the drain worker has closed the
\* line since.
Ingest ==
  /\ main = "SERVING" /\ up.read < up.chunks /\ (line.open \/ worker.step = "DISCONNECT")
  /\ up' = IF line.open /\ Len(up.queue) < UplinkLimit
           THEN [up EXCEPT !.read = @ + 1, !.queue = Append(@, up.read + 1)]
           ELSE [up EXCEPT !.read = @ + 1, !.dropped = @ + 1]
  /\ UNCHANGED <<b, wire, answer, n, main, worker, line, ground, committed>>

\* handleUplinkPoll_: the oldest chunk leaves the queue, asked for or not.
ServePoll ==
  /\ main = "SERVING" /\ wire # <<>> /\ Head(wire).op = "UPLINK_POLL"
  /\ LET reply == IF up.queue = <<>> THEN [result |-> "NO_CHUNK"]
                  ELSE [result |-> "OK", chunk |-> Head(up.queue)]
     IN  answer' = IF Head(wire).live THEN reply ELSE answer
  /\ up' = [up EXCEPT !.queue = IF @ = <<>> THEN @ ELSE Tail(@)]
  /\ wire' = Tail(wire)
  /\ UNCHANGED <<b, n, main, worker, line, ground, committed>>

\* pollExternalIngress_ reads a closed line.
ReadClosed ==
  /\ main = "SERVING" /\ line.open /\ line.closes < MaxCloses
  /\ main' = "CLOSING"
  /\ UNCHANGED <<b, up, wire, answer, n, worker, line, ground, committed>>

\* closeExternalLink_: the descriptor under the link's lock, then the queue
\* under the queue's lock (handleDownlinkV3Disconnect_).
CloseLine ==
  /\ \/ main = "CLOSING" /\ main' = "DROPPING" /\ UNCHANGED worker
     \/ worker.step = "CLOSE" /\ worker' = [worker EXCEPT !.step = "DISCONNECT"] /\ UNCHANGED main
  /\ line' = [open |-> FALSE, closes |-> IF line.open THEN line.closes + 1 ELSE line.closes]
  /\ UNCHANGED <<b, up, wire, answer, n, ground, committed>>

Disconnect ==
  /\ \/ main = "DROPPING" /\ main' = "SERVING" /\ UNCHANGED worker
     \/ worker.step = "DISCONNECT" /\ worker' = [step |-> "PEEK", frame |-> NoFrame] /\ UNCHANGED main
  /\ n' = Dropped(0)
  /\ UNCHANGED <<b, up, wire, answer, line, ground, committed>>

\* The drain worker: peek under the lock, write without it, confirm under it.
Peek ==
  /\ worker.step = "PEEK" /\ n.queue # <<>>
  /\ worker' = [step |-> "WRITE", frame |-> Head(n.queue)]
  /\ UNCHANGED <<b, up, wire, answer, n, main, line, ground, committed>>

WriteFrame ==
  /\ worker.step = "WRITE" /\ line.open
  /\ ground' = Append(ground, worker.frame)
  /\ worker' = [worker EXCEPT !.step = "CONFIRM"]
  /\ UNCHANGED <<b, up, wire, answer, n, main, line, committed>>

\* The line could not be opened in time: the frame is peeked again.
LineStaysClosed ==
  /\ worker.step = "WRITE" /\ ~line.open
  /\ worker' = [step |-> "PEEK", frame |-> NoFrame]
  /\ UNCHANGED <<b, up, wire, answer, n, main, line, ground, committed>>

WriteFails ==
  /\ worker.step = "WRITE" /\ (line.open => line.closes < MaxCloses)
  /\ n' = Dropped(1)
  /\ worker' = [worker EXCEPT !.step = "CLOSE"]
  /\ UNCHANGED <<b, up, wire, answer, main, line, ground, committed>>

Confirm ==
  /\ worker.step = "CONFIRM"
  /\ n' = IF b.policy = "V3" THEN Flushed(worker.frame) ELSE FlushedV2(worker.frame)
  /\ worker' = [step |-> "PEEK", frame |-> NoFrame]
  /\ UNCHANGED <<b, up, wire, answer, main, line, ground, committed>>
-----------------------------------------------------------------------------
Sending == StartSend \/ Probed \/ ProbeTimeout \/ Written \/ WriteTimeout \/ Begun \/ BeginTimeout
           \/ SendFrame \/ PollAck \/ SendFrameFails \/ Acked \/ AckTimeout \/ Committed
           \/ CommitTimeout \/ Aborted \/ DeadlinePasses
           \/ StartSendV2 \/ ProbedV2 \/ ProbeTimeoutV2 \/ StageAnswered \/ StageTimeout

Receiving == Poll \/ Polled \/ PollTimeout \/ (\E allocated \in BOOLEAN : Deliver(allocated))

Serving == Ingest \/ ServePoll \/ ServeV3 \/ ServeV2 \/ (\E opens, written \in BOOLEAN : ServeWrite(opens, written))
           \/ Lose \/ Reap \/ OpenLine \/ ReadClosed \/ CloseLine \/ Disconnect

Draining == Peek \/ WriteFrame \/ LineStaysClosed \/ WriteFails \/ Confirm

Next == Sending \/ Receiving \/ Serving \/ Draining

Spec == Init /\ [][Next]_vars

\* The sender's thread runs and its timers expire; the node reads its queue.
FairSpec ==
  /\ Spec
  /\ WF_vars(Sending) /\ WF_vars(Receiving) /\ WF_vars(DeadlinePasses)
  /\ WF_vars(ServePoll \/ ServeV3 \/ ServeV2 \/ ServeWrite(FALSE, FALSE) \/ Lose) /\ WF_vars(CloseLine \/ Disconnect)
-----------------------------------------------------------------------------
(* Properties. *)

\* The ground receives the streams in the order they were sent, and of each a
\* prefix of its frames, in order, none twice: also when the line is closed
\* between the write of a frame and its confirmation.
GroundSeesPrefixes ==
  \A i \in DOMAIN ground :
    IF i > 1 /\ ground[i - 1].stream = ground[i].stream
      THEN ground[i].index = ground[i - 1].index + 1
      ELSE ground[i].index = 0 /\ (i > 1 => ground[i - 1].stream < ground[i].stream)

\* Every frame the node has accepted is waiting, flushed or counted as dropped,
\* whichever thread closes the line and however often the queue is cleared, and
\* what is counted as flushed was written to the line.  send reports OK for a V3
\* or V2 stream only if the node has committed that stream, and no stream is
\* committed twice however often COMMIT or the last frame is repeated.
NothingLostSilently ==
  /\ n.accepted <= n.flushed + n.dropped + Len(n.queue)
  /\ n.flushed <= Len(ground)
  /\ \A i, j \in DOMAIN committed : i < j => committed[i] < committed[j]
  /\ b.result = "OK" /\ b.phase = "IDLE" /\ (b.v3 \/ b.policy = "V2_ONLY") => b.call \in {committed[i] : i \in DOMAIN committed}

\* The deframer sees the uplink chunks in order and none twice, and a chunk the
\* node has read is waiting, delivered, or lost to a failure that was counted:
\* also when the node serves a poll whose caller has timed out.
UplinkAccounted ==
  LET waiting == Len(up.queue) + (IF up.step = "DELIVER" \/ "chunk" \in DOMAIN answer THEN 1 ELSE 0)
  IN  /\ \A i, j \in DOMAIN up.delivered : i < j => up.delivered[i] < up.delivered[j]
      /\ up.read <= waiting + Len(up.delivered) + up.dropped + up.rxErrors

\* Every send returns: the deadline bounds the retries.
SendReturns == b.phase # "IDLE" ~> b.phase = "IDLE"
=============================================================================
