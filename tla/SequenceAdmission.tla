-------------------------- MODULE SequenceAdmission --------------------------
(***************************************************************************)
(* SequenceAdmissionController (OBC/Components/SequenceAdmissionController) *)
(* with the two F Prime sequencers and the command dispatcher it drives.    *)
(* controlIn is a sync port: it runs in the thread of the ground link that  *)
(* received the request.  Statuses, starts and completions reach async      *)
(* ports and are handled by the component's own thread, in queue order.     *)
(* A request that admits a file inspects the staged copy, copies it and     *)
(* inspects the copy; the file uplink may replace the staged file meanwhile.*)
(*                                                                          *)
(* Overlap says whether the component's thread may run between the busy     *)
(* check of a request and its admission, as nothing in the code prevents.   *)
(***************************************************************************)
EXTENDS Integers, Sequences, FiniteSetsExt, CommandAuthority

CONSTANTS MaxContexts,     \* MAX_CONTEXTS
          Owners,          \* ingress ports with the configuration of their link
          Files,           \* contents a staged file may have
          RequestIds,      \* originalCmdSeq of the requests
          MaxContextId,    \* bound: admissions in one behaviour
          Overlap          \* TRUE: own thread may run inside a request

\* A file as SequenceFileInspector sees it: header, CRC and the records' opcodes.
ASSUME SequenceAssumption ==
  /\ MaxContexts \in Nat \ {0} /\ MaxContextId \in Nat /\ Overlap \in BOOLEAN
  /\ \A f \in Files : /\ f.header \in BOOLEAN /\ f.crc \in BOOLEAN
                      /\ f.records \in Seq(DOMAIN Catalog \cup {"GHOST", "END", "BAD"})

VARIABLES ctl,       \* the component's fields, its queue of commands sent, its debts
          caller,    \* the request between inspection and admission, if any
          staged,    \* the staged file the requests name
          seqr,      \* the two CmdSequencers
          waits,     \* sequencers whose completion answers a blocking RUN
          replies,   \* statuses on their way through the dispatcher
          inbox      \* the component's message queue

vars == <<ctl, caller, staged, seqr, waits, replies, inbox>>

Slots == 0 .. MaxContexts - 1
Sequencers == {0, 1}
NO_SEQUENCER == 255
Terminal == {"SUCCEEDED", "FAILED", "CANCELED"}
Occupying == {"ADMITTED", "AUTO_DISPATCHED", "MANUAL_PREPARED", "RUNNING"}
NoFile == [header |-> FALSE, crc |-> FALSE, records |-> <<>>]
NoOwner == [port |-> 0, config |-> NoConfig]
NoRequest == "none"

ContextEntry == [used |-> FALSE, id |-> 0, state |-> "UNUSED", owner |-> NoOwner,
                 sequencer |-> NO_SEQUENCER, block |-> FALSE, file |-> NoFile, manual |-> FALSE]

InternalOp == [active |-> FALSE, kind |-> "NONE", publish |-> TRUE, slot |-> 0,
               request |-> NoRequest, target |-> NO_SEQUENCER]

Idle == [op |-> "IDLE"]
-----------------------------------------------------------------------------
(* Inspection and authority. *)

\* SequenceFileInspector::inspect: header and size, then the CRC, then the
\* records; END_OF_SEQUENCE records carry no command.
Inspect(f) == f.header /\ f.records # <<>> /\ f.crc /\ "BAD" \notin Range(f.records)

\* The opcode loop of inspectAndAdmit.
Authorised(owner, f) ==
  \A o \in Range(f.records) \ {"END"} :
    o \notin NestedSequencing /\ o \in DOMAIN Catalog /\ AuthorityReject(owner.config, o) = "NONE"

\* Mutant of SameCopy: the copy is only required to be a valid file.
SameCopyAnyCrc(inspected, copy) == Inspect(copy)

\* The copy must pass inspection and carry the CRC of the inspected file.
SameCopy(inspected, copy) == Inspect(copy) /\ copy = inspected
-----------------------------------------------------------------------------
(* The component's helpers, as functions of its fields c. *)

Update(c, i, state, sequencer) ==
  [c EXCEPT !.contexts[i].state = state,
            !.contexts[i].sequencer = IF sequencer = NO_SEQUENCER THEN @ ELSE sequencer]

\* Mutant of Send: the load that follows SET_MANUAL is not sent.
SendNoLoad(c, kind, i, sequencer) ==
  IF kind = "LOAD_MANUAL" THEN c
  ELSE [c EXCEPT !.cmds = Append(@, [kind |-> kind, sequencer |-> sequencer,
                                     id |-> IF kind = "SET_AUTO" THEN 0 ELSE c.contexts[i].id,
                                     block |-> kind = "DISPATCH_RUN" /\ c.contexts[i].block])]

\* buildAndSendInternalCommand.
Send(c, kind, i, sequencer) ==
  [c EXCEPT !.cmds = Append(@, [kind |-> kind, sequencer |-> sequencer,
                                id |-> IF kind = "SET_AUTO" THEN 0 ELSE c.contexts[i].id,
                                block |-> kind = "DISPATCH_RUN" /\ c.contexts[i].block])]

\* requestSequencerAutoRestore.
RequestRestore(c, q) ==
  IF q \notin Sequencers \/ ~c.manualMode[q] THEN c
  ELSE IF c.op.active THEN [c EXCEPT !.restore[q] = TRUE]
  ELSE Send([c EXCEPT !.restore[q] = FALSE,
                      !.op = [InternalOp EXCEPT !.active = TRUE, !.kind = "SET_AUTO",
                                                !.publish = FALSE, !.target = q]],
            "SET_AUTO", 0, q)

\* processPendingAutoRestore: the first sequencer that waits for it.
ProcessRestore(c) ==
  LET due == {q \in Sequencers : c.restore[q] /\ c.manualMode[q]}
  IN  IF c.op.active \/ due = {} THEN c ELSE RequestRestore(c, Min(due))

\* publishControlStatus.
Publish(c, op) == IF op.publish THEN [c EXCEPT !.owed = @ \ {op.request}] ELSE c

\* The operation is over: answer it, clear it, start a restore that waited.
CloseOp(c, op) == ProcessRestore([Publish(c, op) EXCEPT !.op = InternalOp])

\* Mutant of FailedOp: a failed START or STEP leaves the sequencer manual.
FailedOpKeepsManual(c) ==
  LET op     == c.op
      known  == op.publish /\ c.contexts[op.slot].used
      failed == IF known THEN Update(c, op.slot, "FAILED", op.target) ELSE c
      drops  == op.target \in Sequencers /\ c.manualMode[op.target]
                  /\ op.kind \in {"LOAD_MANUAL", "CANCEL", "SET_AUTO"}
      freed  == IF drops /\ op.kind # "SET_AUTO" /\ c.contexts[op.slot].used
                  THEN [failed EXCEPT !.contexts[op.slot].manual = FALSE] ELSE failed
  IN  CloseOp(IF drops THEN RequestRestore(freed, op.target) ELSE freed, op)

\* finalizeInternalOperation, response not OK.
FailedOp(c) ==
  LET op     == c.op
      known  == op.publish /\ c.contexts[op.slot].used
      failed == IF known THEN Update(c, op.slot, "FAILED", op.target) ELSE c
      drops  == /\ op.target \in Sequencers /\ c.manualMode[op.target]
                /\ \/ op.kind \in {"LOAD_MANUAL", "CANCEL", "SET_AUTO"}
                   \/ /\ op.kind \in {"START", "STEP"}
                      /\ c.contexts[op.slot].used /\ c.contexts[op.slot].manual
      freed  == IF drops /\ op.kind # "SET_AUTO" /\ c.contexts[op.slot].used
                  THEN [failed EXCEPT !.contexts[op.slot].manual = FALSE] ELSE failed
  IN  CloseOp(IF drops THEN RequestRestore(freed, op.target) ELSE freed, op)

\* finalizeInternalOperation, response OK.
SucceededOp(c) ==
  LET op == c.op
  IN  CASE op.kind = "SET_MANUAL" ->
             Send([c EXCEPT !.manualMode[op.target] = TRUE, !.op.kind = "LOAD_MANUAL"],
                  "LOAD_MANUAL", op.slot, op.target)
        [] op.kind = "LOAD_MANUAL" -> CloseOp(Update(c, op.slot, "MANUAL_PREPARED", op.target), op)
        [] op.kind = "SET_AUTO"    -> CloseOp([c EXCEPT !.manualMode[op.target] = FALSE], op)
        [] op.kind = "START"       -> CloseOp(Update(c, op.slot, "RUNNING", op.target), op)
        [] op.kind = "CANCEL"      ->
             LET canceled == Update(c, op.slot, "CANCELED", op.target)
             IN  CloseOp(IF c.contexts[op.slot].manual
                           THEN RequestRestore([canceled EXCEPT !.contexts[op.slot].manual = FALSE],
                                               op.target)
                           ELSE canceled, op)
        [] OTHER                   -> CloseOp(c, op)       \* STEP, DISPATCH_RUN

\* allocateContextSlot: an unused slot, else the first terminal one.
FreeSlots(c) ==
  LET unused == {i \in Slots : ~c.contexts[i].used}
  IN  IF unused # {} THEN unused ELSE {i \in Slots : c.contexts[i].state \in Terminal}

\* chooseAvailableSequencer.
ChooseSequencer(c) ==
  LET free == {q \in Sequencers :
                 /\ ~c.manualMode[q] /\ ~c.restore[q]
                 /\ \A i \in Slots : ~(/\ c.contexts[i].used
                                       /\ c.contexts[i].sequencer = q
                                       /\ c.contexts[i].state \in Occupying)}
  IN  IF free = {} THEN NO_SEQUENCER ELSE Min(free)

\* m_internalOp for a request, then buildAndSendInternalCommand.
StartOp(c, kind, i, id, target) ==
  Send([c EXCEPT !.op = [InternalOp EXCEPT !.active = TRUE, !.kind = kind, !.slot = i,
                                           !.request = id, !.target = target],
                 !.owed = @ \cup {id}],
       kind, i, target)
-----------------------------------------------------------------------------
Init ==
  /\ ctl = [contexts   |-> [i \in Slots |-> ContextEntry],
            op         |-> InternalOp,
            manualMode |-> [q \in Sequencers |-> FALSE],
            restore    |-> [q \in Sequencers |-> FALSE],
            nextId     |-> 1, cmds |-> <<>>, owed |-> {}]
  /\ caller = Idle
  /\ staged \in Files
  /\ seqr = [q \in Sequencers |-> [mode |-> "AUTO", file |-> 0, running |-> FALSE]]
  /\ waits = {} /\ replies = <<>> /\ inbox = <<>>

\* The file uplink replaces the staged file.
Stage(f) == f # staged /\ staged' = f /\ UNCHANGED <<ctl, caller, seqr, waits, replies, inbox>>

\* SEQ_RUN and SEQ_PREPARE_MANUAL up to the end of the opcode loop.  A request
\* rejected here, like SEQ_VALIDATE and SEQ_LOG_STATUS, changes no state.
InspectRequest(op, owner, id, block) ==
  /\ caller = Idle /\ ~ctl.op.active
  /\ id \notin ctl.owed
  /\ ctl.nextId <= MaxContextId
  /\ op = "PREPARE_MANUAL" => ChooseSequencer(ctl) # NO_SEQUENCER /\ ~block
  /\ Inspect(staged) /\ Authorised(owner, staged)
  /\ caller' = [op |-> op, owner |-> owner, id |-> id, block |-> block,
                file |-> staged, sequencer |-> ChooseSequencer(ctl)]
  /\ UNCHANGED <<ctl, staged, seqr, waits, replies, inbox>>

\* The rest of inspectAndAdmit and of handleRun / handlePrepareManual: the slot,
\* the copy of the file as it is staged now, and the internal command.  A copy
\* that fails or differs releases the slot again.
AdmitRequest ==
  /\ caller # Idle
  /\ caller' = Idle
  /\ UNCHANGED <<staged, seqr, waits, replies, inbox>>
  /\ \/ FreeSlots(ctl) = {} /\ UNCHANGED ctl
     \/ /\ FreeSlots(ctl) # {}
        /\ LET i     == Min(FreeSlots(ctl))
               fresh == [ContextEntry EXCEPT !.used = TRUE, !.id = ctl.nextId, !.state = "ADMITTED",
                           !.owner = caller.owner, !.block = caller.block, !.file = staged,
                           !.manual = caller.op = "PREPARE_MANUAL"]
               taken == [ctl EXCEPT !.nextId = @ + 1, !.contexts[i] = fresh]
           IN  \/ /\ SameCopy(caller.file, staged)
                  /\ \/ /\ caller.op = "RUN"
                        /\ LET q == ChooseSequencer(taken)
                           IN  ctl' = StartOp(Update(taken, i, "AUTO_DISPATCHED", q),
                                              "DISPATCH_RUN", i, caller.id, q)
                     \/ /\ caller.op = "PREPARE_MANUAL"
                        /\ ctl' = StartOp(Update(taken, i, "ADMITTED", caller.sequencer),
                                          "SET_MANUAL", i, caller.id, caller.sequencer)
               \/ ctl' = [taken EXCEPT !.contexts[i] = ContextEntry]

\* handleStartLike: SEQ_START, SEQ_STEP and SEQ_CANCEL of a context by its owner.
ControlContext(kind, owner, id, i) ==
  /\ caller = Idle /\ ~ctl.op.active
  /\ id \notin ctl.owed
  /\ LET context == ctl.contexts[i]
     IN  /\ context.used /\ context.owner = owner
         /\ context.state \notin Terminal
         /\ kind \in {"START", "STEP"} => context.manual
         /\ context.sequencer # NO_SEQUENCER
         /\ ctl' = StartOp(ctl, kind, i, id, context.sequencer)
  /\ UNCHANGED <<caller, staged, seqr, waits, replies, inbox>>
-----------------------------------------------------------------------------
(* The component's thread. *)

OwnThreadMayRun == inbox # <<>> /\ (Overlap \/ caller = Idle)

HandleStatus ==
  /\ OwnThreadMayRun /\ Head(inbox).type = "STATUS"
  /\ ctl' = IF ~ctl.op.active THEN ctl
            ELSE IF Head(inbox).ok THEN SucceededOp(ctl) ELSE FailedOp(ctl)
  /\ inbox' = Tail(inbox)
  /\ UNCHANGED <<caller, staged, seqr, waits, replies>>

\* seqStartIn: the context is found by its admitted path, which holds its id.
HandleStart ==
  /\ OwnThreadMayRun /\ Head(inbox).type = "START"
  /\ LET found == {i \in Slots : ctl.contexts[i].used /\ ctl.contexts[i].id = Head(inbox).id}
     IN  ctl' = IF found = {} THEN ctl ELSE Update(ctl, Min(found), "RUNNING", Head(inbox).sequencer)
  /\ inbox' = Tail(inbox)
  /\ UNCHANGED <<caller, staged, seqr, waits, replies>>

\* seqDoneIn: the first context of that sequencer which may be executing.
HandleDone ==
  /\ OwnThreadMayRun /\ Head(inbox).type = "DONE"
  /\ LET q     == Head(inbox).sequencer
         found == {i \in Slots : /\ ctl.contexts[i].used /\ ctl.contexts[i].sequencer = q
                                 /\ ctl.contexts[i].state \in Occupying \ {"ADMITTED"}}
         i     == Min(found)
         ended == Update(ctl, i, IF Head(inbox).ok THEN "SUCCEEDED" ELSE "FAILED", q)
     IN  ctl' = IF found = {} THEN ctl
                ELSE IF ctl.contexts[i].manual
                       THEN RequestRestore([ended EXCEPT !.contexts[i].manual = FALSE], q)
                       ELSE ended
  /\ inbox' = Tail(inbox)
  /\ UNCHANGED <<caller, staged, seqr, waits, replies>>
-----------------------------------------------------------------------------
(* External: the command dispatcher, SeqDispatcher and the CmdSequencers. *)

Status(ok) == Append(replies, ok)
Started(q, id) == [type |-> "START", sequencer |-> q, id |-> id, ok |-> TRUE]
Done(q, ok) == [type |-> "DONE", sequencer |-> q, id |-> 0, ok |-> ok]

\* Any command may be refused without an effect.
RefuseCommand ==
  /\ ctl.cmds # <<>>
  /\ ctl' = [ctl EXCEPT !.cmds = Tail(@)]
  /\ replies' = Status(FALSE)
  /\ UNCHANGED <<caller, staged, seqr, waits, inbox>>

\* SeqDispatcher.RUN starts the file on an idle sequencer in AUTO mode.
ExecuteRun(q) ==
  /\ ctl.cmds # <<>> /\ Head(ctl.cmds).kind = "DISPATCH_RUN"
  /\ ~seqr[q].running /\ seqr[q].mode = "AUTO"
  /\ ctl' = [ctl EXCEPT !.cmds = Tail(@)]
  /\ seqr' = [seqr EXCEPT ![q].running = TRUE, ![q].file = Head(ctl.cmds).id]
  /\ inbox' = Append(inbox, Started(q, Head(ctl.cmds).id))
  /\ waits' = IF Head(ctl.cmds).block THEN waits \cup {q} ELSE waits
  /\ replies' = IF Head(ctl.cmds).block THEN replies ELSE Status(TRUE)
  /\ UNCHANGED <<caller, staged>>

\* CS_MANUAL, CS_RUN in manual mode, CS_AUTO, CS_START, CS_STEP and CS_CANCEL.
ExecuteControl ==
  /\ ctl.cmds # <<>> /\ Head(ctl.cmds).kind # "DISPATCH_RUN"
  /\ LET cmd  == Head(ctl.cmds)
         q    == cmd.sequencer
         busy == seqr[q].running
     IN  /\ cmd.kind = "STEP" => busy
         /\ cmd.kind \in {"SET_MANUAL", "LOAD_MANUAL", "SET_AUTO", "START"} => ~busy
         /\ cmd.kind = "START" => seqr[q].file # 0
         /\ seqr' = [seqr EXCEPT ![q] =
              CASE cmd.kind = "SET_MANUAL"  -> [@ EXCEPT !.mode = "MANUAL"]
                [] cmd.kind = "SET_AUTO"    -> [@ EXCEPT !.mode = "AUTO"]
                [] cmd.kind = "LOAD_MANUAL" -> [@ EXCEPT !.file = cmd.id]
                [] cmd.kind = "START"       -> [@ EXCEPT !.running = TRUE]
                [] cmd.kind = "CANCEL"      -> [@ EXCEPT !.running = FALSE, !.file = 0]
                [] OTHER                    -> @]
         /\ inbox' = IF cmd.kind = "START" THEN Append(inbox, Started(q, seqr[q].file))
                     ELSE IF cmd.kind = "CANCEL" /\ busy THEN Append(inbox, Done(q, FALSE))
                     ELSE inbox
         /\ replies' = (IF cmd.kind = "CANCEL" /\ q \in waits THEN <<FALSE>> ELSE <<>>)
                         \o Status(TRUE)
         /\ waits' = IF cmd.kind = "CANCEL" THEN waits \ {q} ELSE waits
  /\ ctl' = [ctl EXCEPT !.cmds = Tail(@)]
  /\ UNCHANGED <<caller, staged>>

\* A running sequence ends; a blocking RUN is answered by it.
FinishSequence(q, ok) ==
  /\ seqr[q].running
  /\ seqr' = [seqr EXCEPT ![q].running = FALSE, ![q].file = 0]
  /\ inbox' = Append(inbox, Done(q, ok))
  /\ waits' = waits \ {q}
  /\ replies' = IF q \in waits THEN Status(ok) ELSE replies
  /\ UNCHANGED <<ctl, caller, staged>>

\* The dispatcher's thread passes a status on to internalCmdStatusIn.
DeliverStatus ==
  /\ replies # <<>>
  /\ inbox' = Append(inbox, [type |-> "STATUS", sequencer |-> NO_SEQUENCER, id |-> 0,
                             ok |-> Head(replies)])
  /\ replies' = Tail(replies)
  /\ UNCHANGED <<ctl, caller, staged, seqr, waits>>
-----------------------------------------------------------------------------
Request ==
  \/ \E owner \in Owners, id \in RequestIds, block \in BOOLEAN,
        op \in {"RUN", "PREPARE_MANUAL"} : InspectRequest(op, owner, id, block)
  \/ \E kind \in {"START", "STEP", "CANCEL"}, owner \in Owners, id \in RequestIds, i \in Slots :
        ControlContext(kind, owner, id, i)

Execute == RefuseCommand \/ ExecuteControl \/ \E q \in Sequencers : ExecuteRun(q)

Finish == \E q \in Sequencers, ok \in BOOLEAN : FinishSequence(q, ok)

OwnThread == HandleStatus \/ HandleStart \/ HandleDone

Next ==
  \/ Request \/ AdmitRequest \/ OwnThread
  \/ Execute \/ Finish \/ DeliverStatus
  \/ \E f \in Files : Stage(f)

Spec == Init /\ [][Next]_vars

\* Every thread keeps running, and every sequence ends.
Fairness ==
  /\ WF_vars(AdmitRequest) /\ WF_vars(OwnThread)
  /\ WF_vars(Execute) /\ WF_vars(Finish) /\ WF_vars(DeliverStatus)

FairSpec == Spec /\ Fairness
-----------------------------------------------------------------------------
(* Properties. *)

\* The file a context executes passed inspection and holds only commands its
\* owner may issue, although the staged file is replaced at any moment between
\* the inspection, the copy and the second inspection (inspectAndAdmit).
AdmittedIsAuthorised ==
  \A i \in Slots : ctl.contexts[i].used =>
    Inspect(ctl.contexts[i].file) /\ Authorised(ctl.contexts[i].owner, ctl.contexts[i].file)

\* A sequencer that was put in manual mode has a manual context that may still
\* be started or cancelled, or its return to AUTO is pending or under way: no
\* order of failures, completions and cancels leaves it manual for good.
ManualModeIsOwned ==
  \A q \in Sequencers : ctl.manualMode[q] =>
    \/ ctl.restore[q]
    \/ ctl.op.active /\ ctl.op.kind = "SET_AUTO" /\ ctl.op.target = q
    \/ \E i \in Slots : LET context == ctl.contexts[i] IN
         context.used /\ context.manual /\ context.sequencer = q /\ context.state \notin Terminal

\* Every deferred request is answered, a blocking SEQ_RUN when its sequence ends.
DeferredIsAnswered == \A id \in RequestIds : id \in ctl.owed ~> id \notin ctl.owed

\* A context that has ended is not reported as executing again; its slot can
\* only be reused.
EndedStaysEnded ==
  [][\A i \in Slots : ctl.contexts[i].state \in Terminal =>
        ctl'.contexts[i].id # ctl.contexts[i].id \/ ctl'.contexts[i].state \in Terminal]_vars
=============================================================================
