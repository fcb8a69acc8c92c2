-------------------------- MODULE ReliableTransfer --------------------------
(***************************************************************************)
(* The reliable file transfer between the OBC (CommReliableTransfer) and a  *)
(* communication node (CommNodeServer).  Data frames are datagrams that may *)
(* be lost, delayed or reordered.  A control request is answered on its own *)
(* connection; the sender may time out while the request is still on its    *)
(* way, and the node then handles it later.  The OBC may restart, which     *)
(* starts the transfer ids at 1 again.                                      *)
(***************************************************************************)
EXTENDS Integers

CONSTANTS Files,          \* files that are transferred
          SegmentsOf,     \* the number of segments of each of them
          WindowSize,     \* windowSize
          AckTimeout,     \* ackTimeoutTicks
          ResendBudget,   \* resendBudget
          MaxTransfers,   \* bound: transfers, the ones cut by a restart counted twice
          MaxRestarts     \* bound: restarts of the OBC

ASSUME TransferAssumption ==
  /\ SegmentsOf \in [Files -> Nat] /\ WindowSize \in Nat \ {0} /\ AckTimeout \in Nat \ {0}
  /\ "none" \notin Files
  /\ ResendBudget \in Nat /\ MaxTransfers \in Nat /\ MaxRestarts \in Nat

VARIABLES s,          \* CommReliableTransfer: phase, transfer and counters
          call,       \* its control request: sent or answered
          late,       \* requests the sender no longer waits for
          frames,     \* data frames on their way
          r,          \* the receiver's m_reliableTransfer
          ground,     \* the final files: [file, got], the segments each consists of
          stored,     \* history: what was renamed into place
          report,     \* how the last transfer of each file ended
          restarts

vars == <<s, call, late, frames, r, ground, stored, report, restarts>>

NoFile == "none"
NoCall == [op |-> "NONE"]
Inactive == [active |-> FALSE, id |-> 0, file |-> NoFile, got |-> <<>>]
IdleSender(nextId) == [phase |-> "IDLE", id |-> 0, file |-> NoFile, next |-> 0, acked |-> 0,
                       ticks |-> 0, retries |-> 0, nextId |-> nextId]
Whole(f) == [k \in 0 .. SegmentsOf[f] - 1 |-> f]
Min2(a, b) == IF a < b THEN a ELSE b
Max2(a, b) == IF a > b THEN a ELSE b

Total == SegmentsOf[s.file]
-----------------------------------------------------------------------------
(* The receiver, as functions of its state n. *)

\* contiguousSegments of the receiver.
Contiguous(n) ==
  IF ~n.active THEN 0
  ELSE CHOOSE k \in 0 .. SegmentsOf[n.file] :
         (\A i \in 0 .. k - 1 : n.got[i] # NoFile) /\ (k < SegmentsOf[n.file] => n.got[k] = NoFile)

\* handleReliableTransferData_: the first copy of a segment is written.
Store(n, frame) ==
  IF /\ n.active /\ frame.id = n.id
     /\ frame.segment < SegmentsOf[n.file] /\ n.got[frame.segment] = NoFile
    THEN [n EXCEPT !.got[frame.segment] = frame.file]
    ELSE n

\* BEGIN: an active transfer is replaced only when it is stale.
BeginResult(n, stale) == IF n.active /\ ~stale THEN "BUSY" ELSE "OK"

BeginNode(n, req, stale) ==
  IF BeginResult(n, stale) = "BUSY" THEN n
  ELSE [active |-> TRUE, id |-> req.id, file |-> req.file,
        got |-> [k \in 0 .. SegmentsOf[req.file] - 1 |-> NoFile]]

Known(n, req) == n.active /\ req.id = n.id

\* Mutant of HashOk: only the number of segments is compared.
HashUnchecked(n, req) == Contiguous(n) = SegmentsOf[n.file]

\* COMPLETE compares the number of segments, the SHA-256 that came with BEGIN
\* and the checksum that comes with COMPLETE.
HashOk(n, req) ==
  Contiguous(n) = SegmentsOf[n.file] /\ n.got = Whole(n.file) /\ req.file = n.file

\* The answer to a control request; w is the weather the node meets: whether
\* its transfer is stale, and whether it can rename the temporary file.
Reply(n, req, w) ==
  CASE req.op = "BEGIN" -> BeginResult(n, w.stale)
    [] req.op # "BEGIN" /\ ~Known(n, req) -> "INVALID"
    [] req.op = "ACK_POLL" /\ Known(n, req) -> "OK"
    [] req.op = "COMPLETE" /\ Known(n, req) ->
         IF ~HashOk(n, req) THEN "MISMATCH" ELSE IF w.renames THEN "OK" ELSE "IO_ERROR"
    [] req.op = "ABORT" /\ Known(n, req) -> "ABORTED"

\* handleReliableTransferControl_: what it does to the receiver.
Handled(n, req, w) ==
  IF req.op = "BEGIN" THEN BeginNode(n, req, w.stale)
  ELSE IF req.op \in {"COMPLETE", "ABORT"} /\ Known(n, req) THEN Inactive
  ELSE n

\* COMPLETE removes the final file and renames the temporary one to it.
Stored(n, req, w) ==
  IF req.op = "COMPLETE" /\ Known(n, req) /\ HashOk(n, req)
    THEN {g \in ground : g.file # n.file}
         \cup (IF w.renames THEN {[file |-> n.file, got |-> n.got]} ELSE {})
    ELSE ground

\* The weather that makes a difference to the request.
Weather(n, req) ==
  {w \in [stale : BOOLEAN, renames : BOOLEAN] :
     /\ w.stale => req.op = "BEGIN" /\ n.active
     /\ ~w.renames => req.op = "COMPLETE" /\ Known(n, req) /\ HashOk(n, req)}
-----------------------------------------------------------------------------
(* The sender. *)

Send(op) == call' = [op |-> op, id |-> s'.id, file |-> s'.file, state |-> "SENT"]

\* reset_ after the result was reported.
Finish(result) ==
  /\ s' = IdleSender(s.nextId)
  /\ report' = [report EXCEPT ![s.file] = result]
  /\ call' = NoCall

\* mapReplyToSendFileStatus_ and mapReplyToTransferResult_: every refusal is a
\* failed transfer.
ReportOf(result) == IF result = "OK" THEN "SUCCESS" ELSE "FAILED"

\* A request the sender stops waiting for is handled later, or never (a late
\* ACK_POLL has no effect).
GiveUp == late' = IF call # NoCall /\ call.state = "SENT" /\ call.op # "ACK_POLL"
                    THEN late \cup {call} ELSE late

Init ==
  /\ s = IdleSender(1) /\ call = NoCall /\ late = {} /\ frames = {} /\ r = Inactive
  /\ ground = {} /\ stored = {}
  /\ report = [f \in Files |-> "NONE"] /\ restarts = 0

\* start up to the BEGIN request.
Start(f) ==
  /\ s.phase = "IDLE" /\ s.nextId + restarts <= MaxTransfers
  /\ s' = [IdleSender(s.nextId + 1) EXCEPT !.phase = "BEGIN", !.id = s.nextId, !.file = f]
  /\ Send("BEGIN")
  /\ report' = [report EXCEPT ![f] = "ACTIVE"]
  /\ UNCHANGED <<late, frames, r, ground, stored, restarts>>

\* The reply to BEGIN.
Begun ==
  /\ s.phase = "BEGIN" /\ call.state = "ANSWERED"
  /\ \/ call.result = "OK" /\ s' = [s EXCEPT !.phase = "SEND"] /\ call' = NoCall /\ UNCHANGED report
     \/ call.result # "OK" /\ Finish(ReportOf(call.result))
  /\ UNCHANGED <<late, frames, r, ground, stored, restarts>>

Segments(from, to) == {[id |-> s.id, file |-> s.file, segment |-> k] : k \in from .. to - 1}

\* step: the window, then the acknowledgement poll, or COMPLETE when every
\* segment is acknowledged (a file without segments).
SendWindow ==
  /\ s.phase = "SEND"
  /\ LET limit == Max2(s.next, Min2(Total, s.acked + WindowSize))
     IN  /\ frames' = frames \cup Segments(s.next, limit)
         /\ s' = [s EXCEPT !.next = limit, !.phase = IF s.acked < Total THEN "POLL" ELSE "COMPLETE"]
  /\ Send(IF s.acked < Total THEN "ACK_POLL" ELSE "COMPLETE")
  /\ UNCHANGED <<late, r, ground, stored, report, restarts>>

\* Mutant of Resent: the retry is not counted.
ResentUncounted(now) == [now EXCEPT !.ticks = 0, !.phase = "SEND"]

\* A resend is charged to the budget.
Resent(now) == [now EXCEPT !.ticks = 0, !.retries = now.retries + 1, !.phase = "SEND"]

\* The rest of step once the poll is answered with acked segments, or has timed
\* out (NO_PROGRESS): resend, give up, complete or wait for the next tick.
Acknowledged(acked, ok) ==
  LET ack   == Max2(s.acked, Min2(acked, Total))
      moved == ok /\ ack > s.acked
      ticks == IF moved THEN 0 ELSE s.ticks + 1
      tries == IF moved THEN 0 ELSE s.retries
      due   == s.next > ack /\ ticks >= AckTimeout
      now   == [s EXCEPT !.acked = ack, !.ticks = ticks, !.retries = tries]
  IN  \/ /\ due /\ tries >= ResendBudget
         /\ s' = [now EXCEPT !.phase = "ABORT"] /\ Send("ABORT")
         /\ UNCHANGED frames
      \/ /\ due /\ tries < ResendBudget
         /\ frames' = frames \cup Segments(ack, Min2(ack + WindowSize, Total))
         /\ s' = Resent(now)
         /\ call' = NoCall
      \/ /\ ~due /\ ack = Total
         /\ s' = [now EXCEPT !.phase = "COMPLETE"] /\ Send("COMPLETE")
         /\ UNCHANGED frames
      \/ /\ ~due /\ ack < Total
         /\ s' = [now EXCEPT !.phase = "SEND"] /\ call' = NoCall
         /\ UNCHANGED frames

Polled ==
  /\ s.phase = "POLL" /\ call.state = "ANSWERED"
  /\ Acknowledged(call.acked, call.result = "OK")
  /\ UNCHANGED <<late, r, ground, stored, report, restarts>>

PollTimeout ==
  /\ s.phase = "POLL"
  /\ Acknowledged(s.acked, FALSE)
  /\ UNCHANGED <<late, r, ground, stored, report, restarts>>

\* The reply to COMPLETE, and to the ABORT of a transfer that is given up.
Completed ==
  /\ s.phase = "COMPLETE" /\ call.state = "ANSWERED"
  /\ Finish(ReportOf(call.result))
  /\ UNCHANGED <<late, frames, r, ground, stored, restarts>>

Aborted ==
  /\ s.phase = "ABORT" /\ call.state = "ANSWERED"
  /\ Finish("FAILED")
  /\ UNCHANGED <<late, frames, r, ground, stored, restarts>>

\* A request times out, or the bus fails: the transfer is over on board.
RequestFails ==
  /\ s.phase \in {"BEGIN", "POLL", "COMPLETE", "ABORT"}
  /\ Finish("FAILED") /\ GiveUp
  /\ UNCHANGED <<frames, r, ground, stored, restarts>>

\* sendRaw fails in the middle of a window.
SendFails ==
  /\ s.phase = "SEND"
  /\ \E k \in s.next .. Min2(Total, s.acked + WindowSize) - 1 :
       frames' = frames \cup Segments(s.next, k)
  /\ Finish("FAILED")
  /\ UNCHANGED <<late, r, ground, stored, restarts>>

\* cancel(true), as CommController calls it between two steps.
Cancel ==
  /\ s.phase = "SEND"
  /\ s' = [s EXCEPT !.phase = "ABORT"] /\ Send("ABORT")
  /\ UNCHANGED <<late, frames, r, ground, stored, report, restarts>>

\* The OBC restarts; no record of the transfer survives.
Restart ==
  /\ restarts < MaxRestarts
  /\ restarts' = restarts + 1
  /\ s' = IdleSender(1) /\ call' = NoCall
  /\ GiveUp
  /\ report' = [f \in Files |-> IF f = s.file THEN "FAILED" ELSE report[f]]
  /\ UNCHANGED <<frames, r, ground, stored>>
-----------------------------------------------------------------------------
(* The node. *)

\* A frame arrives; a frame for which this never happens is lost.
HandleData(frame) ==
  /\ frame \in frames
  /\ r' = Store(r, frame)
  /\ frames' = frames \ {frame}
  /\ UNCHANGED <<s, call, late, ground, stored, report, restarts>>

\* How a file put into place counts: as itself only if it is whole.
PutInPlace(g) == IF g.got = Whole(g.file) THEN g.file ELSE NoFile

HandleCall(w) ==
  /\ call.state = "SENT"
  /\ call' = [op |-> call.op, id |-> call.id, file |-> call.file, state |-> "ANSWERED",
              result |-> Reply(r, call, w), acked |-> Contiguous(r)]
  /\ r' = Handled(r, call, w) /\ ground' = Stored(r, call, w)
  /\ stored' = stored \cup {PutInPlace(g) : g \in ground' \ ground}
  /\ UNCHANGED <<s, late, frames, report, restarts>>

HandleLate(req, w) ==
  /\ req \in late
  /\ late' = late \ {req}
  /\ r' = Handled(r, req, w) /\ ground' = Stored(r, req, w)
  /\ stored' = stored \cup {PutInPlace(g) : g \in ground' \ ground}
  /\ UNCHANGED <<s, call, frames, report, restarts>>

Sender == \/ \E f \in Files : Start(f)
          \/ Begun \/ SendWindow \/ Polled \/ PollTimeout \/ Completed \/ Aborted
          \/ RequestFails \/ SendFails \/ Cancel \/ Restart

Node == \/ \E frame \in frames : HandleData(frame)
        \/ call # NoCall /\ \E w \in Weather(r, call) : HandleCall(w)
        \/ \E req \in late : \E w \in Weather(r, req) : HandleLate(req, w)

Next == Sender \/ Node

Spec == Init /\ [][Next]_vars

\* CommController ticks for ever, and a request is answered or times out.
FairSpec ==
  /\ Spec
  /\ WF_vars(Begun \/ SendWindow \/ Polled \/ Completed \/ Aborted)
  /\ WF_vars(RequestFails \/ PollTimeout)
-----------------------------------------------------------------------------
(* Properties. *)

FD == INSTANCE FileDelivery WITH arrived <- stored

\* The transfer keeps the promise of FileDelivery: success is reported only for
\* a file that was put into place on the ground, through lost and late frames and
\* requests, and no file is put there that mixes in segments of another one, sent
\* under the same transfer id before a restart.
DeliversFiles == FD!Spec

\* Every transfer ends: the resend budget bounds it whatever the node answers.
TransferEnds == s.phase # "IDLE" ~> s.phase = "IDLE"
=============================================================================
