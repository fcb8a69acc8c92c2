---------------------- MODULE SequenceAdmissionProofs ----------------------
(***************************************************************************)
(* The safety properties of SequenceAdmission for every number of contexts, *)
(* owners, files and requests: AdmittedIsAuthorised whatever the threads    *)
(* interleave, ManualModeIsOwned when a request is not overlapped by the    *)
(* component's own thread.                                                  *)
(***************************************************************************)
EXTENDS SequenceAdmission, WellFoundedInduction, TLAPS

Kinds == {"DISPATCH_RUN", "SET_MANUAL", "LOAD_MANUAL", "SET_AUTO", "START", "STEP", "CANCEL"}
Targets == Sequencers \cup {NO_SEQUENCER}

Fields == {"contexts", "op", "manualMode", "restore", "nextId", "cmds", "owed"}
ContextFields == {"used", "id", "state", "owner", "sequencer", "block", "file", "manual"}
Command == [kind : Kinds, sequencer : Targets, id : Nat, block : BOOLEAN]
Message == [type : {"STATUS", "START", "DONE"}, sequencer : Targets, id : Nat, ok : BOOLEAN]

IsContext(x) == DOMAIN x = ContextFields /\ x.id \in Nat /\ x.sequencer \in Targets

IsOp(o) ==
  /\ DOMAIN o = {"active", "kind", "publish", "slot", "request", "target"}
  /\ o.slot \in Slots /\ o.target \in Targets
  /\ o.kind \in {"SET_MANUAL", "LOAD_MANUAL"} => o.target \in Sequencers

\* A command to a sequencer names one; only DISPATCH_RUN leaves the choice open.
Addressed(m) == m.kind # "DISPATCH_RUN" => m.sequencer \in Sequencers

\* c has the fields of the component.
Shape(c) ==
  /\ DOMAIN c = Fields /\ DOMAIN c.contexts = Slots
  /\ DOMAIN c.manualMode = Sequencers /\ DOMAIN c.restore = Sequencers
  /\ \A i \in Slots : IsContext(c.contexts[i])
  /\ IsOp(c.op)
  /\ c.nextId \in Nat \ {0}
  /\ c.cmds \in Seq(Command) /\ \A m \in Range(c.cmds) : Addressed(m)

\* The types the proofs need.
Typed ==
  /\ Shape(ctl)
  /\ caller # Idle => /\ caller.sequencer \in Targets
                      /\ caller.op = "PREPARE_MANUAL" => caller.sequencer \in Sequencers
  /\ seqr \in [Sequencers -> [mode : {"AUTO", "MANUAL"}, file : Nat, running : BOOLEAN]]
  /\ replies \in Seq(BOOLEAN)
  /\ inbox \in Seq(Message)

\* The request between inspection and admission was inspected and authorised.
CallerChecked == caller # Idle => Inspect(caller.file) /\ Authorised(caller.owner, caller.file)

-----------------------------------------------------------------------------
(* The invariant behind ManualModeIsOwned. *)

\* The return of sequencer q to AUTO is due or under way.
Returning(c, q) ==
  c.restore[q] \/ (c.op.active /\ c.op.kind = "SET_AUTO" /\ c.op.target = q)

\* Context i owns the manual mode of q.
OwnsManual(x, q) == x.used /\ x.manual /\ x.sequencer = q /\ x.state \notin Terminal

Owned(c) == \A q \in Sequencers : c.manualMode[q] =>
              Returning(c, q) \/ \E i \in Slots : OwnsManual(c.contexts[i], q)

\* Context ids are given once.
IdsUnique(c) ==
  /\ \A i \in Slots : c.contexts[i].used => c.contexts[i].id \in 1 .. c.nextId - 1
  /\ \A i, j \in Slots : c.contexts[i].used /\ c.contexts[j].used
                          /\ c.contexts[i].id = c.contexts[j].id => i = j

\* What the operation under way may rely on.
OpFits(c) ==
  c.op.active =>
    LET x == c.contexts[c.op.slot]
    IN  /\ c.op.kind \in Kinds
        /\ c.op.publish <=> c.op.kind # "SET_AUTO"
        /\ c.op.kind # "SET_AUTO" => x.used /\ (x.manual => x.sequencer = c.op.target)
        /\ c.op.kind = "SET_MANUAL" => x.manual /\ x.state = "ADMITTED" /\ ~c.manualMode[c.op.target]
        /\ c.op.kind = "DISPATCH_RUN" => ~x.manual

\* Whatever carries the id of a manual context names the sequencer of that context.
CommandFits(c, m) ==
  /\ m.id < c.nextId
  /\ \A i \in Slots : c.contexts[i].used /\ c.contexts[i].manual /\ m.id = c.contexts[i].id =>
       m.kind # "DISPATCH_RUN" /\ m.sequencer = c.contexts[i].sequencer
LoadFits(c, q, id) ==
  /\ id < c.nextId
  /\ \A i \in Slots : c.contexts[i].used /\ c.contexts[i].manual /\ id = c.contexts[i].id =>
       q = c.contexts[i].sequencer

Linked(c, sq, box) ==
  /\ \A m \in Range(c.cmds) : CommandFits(c, m)
  /\ \A q \in Sequencers : LoadFits(c, q, sq[q].file)
  /\ \A m \in Range(box) : m.type = "START" => LoadFits(c, m.sequencer, m.id)

\* Until SET_MANUAL has succeeded its context is loaded nowhere.
NotLoaded(c, sq, box) ==
  c.op.active /\ c.op.kind = "SET_MANUAL" =>
    LET id == c.contexts[c.op.slot].id
    IN  /\ \A m \in Range(c.cmds) : m.id = id => m.kind = "SET_MANUAL"
        /\ \A q \in Sequencers : sq[q].file # id
        /\ \A m \in Range(box) : m.type = "START" => m.id # id

\* A request between inspection and admission has the component to itself.
Undisturbed ==
  caller # Idle => /\ ~ctl.op.active
                   /\ caller.op = "PREPARE_MANUAL" => ~ctl.manualMode[caller.sequencer]

ManualInv ==
  /\ Owned(ctl) /\ IdsUnique(ctl) /\ OpFits(ctl)
  /\ Linked(ctl, seqr, inbox) /\ NotLoaded(ctl, seqr, inbox)
  /\ Undisturbed

\* d has the fields of c but for some, and the same of a context.
SameBut(c, d, but) == \A f \in Fields \ but : d[f] = c[f]
SameContext(x, y, but) == \A f \in ContextFields \ but : y[f] = x[f]

-----------------------------------------------------------------------------
(* Sequences, minima and the helpers of the component. *)

\* Min of a set of naturals is its least element.
LEMMA MinIsMember ==
  ASSUME NEW S, S \subseteq Nat, S # {}
  PROVE  Min(S) \in S /\ \A y \in S : Min(S) <= y
<1> DEFINE less == {ss \in Nat \X Nat : ss[1] < ss[2]}
<1>1. IsWellFoundedOn(less, Nat)
  BY NatLessThanWellFounded, Zenon DEF OpToRel
<1>2. PICK x \in S : \A y \in S : ~(<<y, x>> \in less)
  <2> HIDE DEF less
  <2> QED BY <1>1, WFMin, Zenon
<1>3. \A y \in S : x <= y
  <2> SUFFICES ASSUME NEW y \in S PROVE x <= y
    OBVIOUS
  <2>1. x \in Nat /\ y \in Nat
    OBVIOUS
  <2>2. ~(y < x)
    <3>1. <<y, x>> \in Nat \X Nat /\ (<<y, x>>[1] < <<y, x>>[2] <=> y < x)
      BY <2>1, SMT
    <3> QED
      BY <1>2, <3>1, Zenon
  <2> QED
    BY <2>1, <2>2, SMT
<1> QED
  BY <1>3, Zenon DEF Min

\* What a queue holds after an append.
LEMMA QueueElements ==
  ASSUME NEW T, NEW s \in Seq(T), NEW e \in T
  PROVE  Append(s, e) \in Seq(T) /\ Range(Append(s, e)) = Range(s) \cup {e}
<1>1. Range(Append(s, e)) = Range(s) \cup {e}
  <2>1. ASSUME NEW x \in Range(Append(s, e)) PROVE x \in Range(s) \cup {e}
    BY <2>1, SMT DEF Range
  <2>2. ASSUME NEW x \in Range(s) PROVE x \in Range(Append(s, e))
    <3>1. PICK k \in DOMAIN s : x = s[k]
      BY <2>2, SMT DEF Range
    <3>2. k \in DOMAIN Append(s, e) /\ Append(s, e)[k] = s[k]
      BY SMT
    <3> QED
      BY <3>1, <3>2, SMT DEF Range
  <2>3. e \in Range(Append(s, e))
    <3>1. Len(s) + 1 \in DOMAIN Append(s, e) /\ Append(s, e)[Len(s) + 1] = e
      BY SMT
    <3> QED
      BY <3>1, SMT DEF Range
  <2> QED
    BY <2>1, <2>2, <2>3, SMT
<1> QED
  BY <1>1, SMT

\* The head of a queue is one of its elements, and taking it adds none.
LEMMA QueueTail ==
  ASSUME NEW T, NEW s \in Seq(T), s # <<>>
  PROVE  /\ Head(s) \in Range(s) /\ Head(s) \in T
         /\ Tail(s) \in Seq(T) /\ Range(Tail(s)) \subseteq Range(s)
<1>1. 1 \in DOMAIN s /\ Head(s) = s[1]
  BY SMT
<1>2. ASSUME NEW x \in Range(Tail(s)) PROVE x \in Range(s)
  <2>1. PICK k \in DOMAIN Tail(s) : x = Tail(s)[k]
    BY <1>2, SMT DEF Range
  <2>2. k + 1 \in DOMAIN s /\ Tail(s)[k] = s[k + 1]
    BY SMT
  <2> QED
    BY <2>1, <2>2, SMT DEF Range
<1> QED
  BY <1>1, <1>2, SMT DEF Range

\* The first slot of a set of slots is one of them.
LEMMA MinSlot ==
  ASSUME NEW S, S \subseteq Slots, S # {}
  PROVE  Min(S) \in S
<1>1. Slots \subseteq Nat
  BY SequenceAssumption, SMT DEF Slots
<1> QED
  BY <1>1, MinIsMember, Zenon

\* Update changes the state of one context, and its sequencer if one is given.
UpdateStep(c, d, i, st, q) ==
  /\ Shape(d) /\ SameBut(c, d, {"contexts"})
  /\ \A j \in Slots : j # i => d.contexts[j] = c.contexts[j]
  /\ SameContext(c.contexts[i], d.contexts[i], {"state", "sequencer"})
  /\ d.contexts[i].state = st
  /\ d.contexts[i].sequencer = IF q = NO_SEQUENCER THEN c.contexts[i].sequencer ELSE q

\* Update is such a step.
LEMMA UpdateEffect ==
  ASSUME NEW c, Shape(c), NEW i \in Slots, NEW st, NEW q \in Targets
  PROVE  UpdateStep(c, Update(c, i, st, q), i, st, q)
<1> DEFINE d == Update(c, i, st, q)
           x == d.contexts[i]
           y == c.contexts[i]
<1>1. /\ DOMAIN d = Fields /\ DOMAIN d.contexts = Slots /\ SameBut(c, d, {"contexts"})
      /\ \A j \in Slots : j # i => d.contexts[j] = c.contexts[j]
      /\ x = [y EXCEPT !.state = st, !.sequencer = IF q = NO_SEQUENCER THEN @ ELSE q]
  BY Zenon DEF Update, Shape, SameBut, Fields, IsContext, ContextFields
<1> HIDE DEF d
<1>2. /\ SameContext(y, x, {"state", "sequencer"}) /\ DOMAIN x = ContextFields
      /\ x.state = st /\ x.sequencer = IF q = NO_SEQUENCER THEN y.sequencer ELSE q
  BY <1>1, Zenon DEF Shape, SameContext, IsContext, ContextFields
<1>3. IsContext(x)
  BY <1>2, Zenon DEF Shape, SameContext, IsContext, ContextFields
<1>4. Shape(d)
  BY <1>1, <1>3, Zenon DEF Shape, SameBut, Fields
<1> QED
  BY <1>1, <1>2, <1>4, Zenon DEF d, UpdateStep

\* Send appends one command to the queue of the dispatcher.
SendStep(c, d, kind, i, q) ==
  /\ Shape(d) /\ SameBut(c, d, {"cmds"})
  /\ \E m \in Command : /\ Range(d.cmds) = Range(c.cmds) \cup {m}
                        /\ m.kind = kind /\ m.sequencer = q
                        /\ m.id = IF kind = "SET_AUTO" THEN 0 ELSE c.contexts[i].id

\* A command is appended and nothing else changes.
LEMMA SendEffect ==
  ASSUME NEW c, Shape(c), NEW i \in Slots, NEW kind \in Kinds, NEW q \in Targets,
         kind # "DISPATCH_RUN" => q \in Sequencers
  PROVE  SendStep(c, Send(c, kind, i, q), kind, i, q)
<1> DEFINE m == [kind |-> kind, sequencer |-> q,
                 id |-> IF kind = "SET_AUTO" THEN 0 ELSE c.contexts[i].id,
                 block |-> kind = "DISPATCH_RUN" /\ c.contexts[i].block]
           d == Send(c, kind, i, q)
<1>1. IsContext(c.contexts[i]) /\ c.cmds \in Seq(Command) /\ DOMAIN c = Fields
  BY Zenon DEF Shape
<1>2. m \in Command
  <2>1. (IF kind = "SET_AUTO" THEN 0 ELSE c.contexts[i].id) \in Nat
    BY <1>1, SMT DEF IsContext
  <2>2. (kind = "DISPATCH_RUN" /\ c.contexts[i].block) \in BOOLEAN
    BY Zenon
  <2> QED
    BY <2>1, <2>2, Zenon DEF Command
<1>3. m.kind = kind /\ m.sequencer = q /\ m.id = IF kind = "SET_AUTO" THEN 0 ELSE c.contexts[i].id
  BY Zenon
<1>4. DOMAIN d = Fields /\ SameBut(c, d, {"cmds"}) /\ d.cmds = Append(c.cmds, m)
  BY <1>1, Zenon DEF Send, SameBut, Fields
<1> HIDE DEF m, d
<1>5. /\ Append(c.cmds, m) \in Seq(Command)
      /\ Range(Append(c.cmds, m)) = Range(c.cmds) \cup {m}
  BY <1>1, <1>2, QueueElements
<1>6. Shape(d)
  BY <1>3, <1>4, <1>5, Zenon DEF Shape, SameBut, Fields, Addressed
<1> QED
  BY <1>2, <1>3, <1>4, <1>5, <1>6, Zenon DEF d, SendStep

\* The operation that returns a sequencer to AUTO.
ReturnOp(o) == o.active /\ o.kind = "SET_AUTO" /\ ~o.publish

\* What asking for returns to AUTO does: it may start one if no operation is under
\* way, and forgets none that is due.
RestoreStep(c, d) ==
  /\ Shape(d) /\ SameBut(c, d, {"restore", "op", "cmds"})
  /\ d.op = c.op \/ (~c.op.active /\ ReturnOp(d.op))
  /\ \A m \in Range(d.cmds) : m \in Range(c.cmds) \/ (m.kind = "SET_AUTO" /\ m.id = 0)
  /\ \A p \in Sequencers : Returning(c, p) => Returning(d, p)
  /\ c.op.active => \A p \in Sequencers : c.restore[p] => d.restore[p]

\* requestSequencerAutoRestore leaves the return of a manual sequencer due or under way.
LEMMA RequestRestoreStep ==
  ASSUME NEW c, Shape(c), NEW q
  PROVE  LET d == RequestRestore(c, q)
         IN  /\ RestoreStep(c, d)
             /\ q \in Sequencers /\ c.manualMode[q] =>
                  Returning(d, q) /\ (c.op.active => d.restore[q])
<1> DEFINE d == RequestRestore(c, q)
<1>1. CASE q \notin Sequencers \/ ~c.manualMode[q]
  BY <1>1, Zenon DEF RequestRestore, RestoreStep, SameBut
<1>2. CASE q \in Sequencers /\ c.manualMode[q] /\ c.op.active
  <2>1. d = [c EXCEPT !.restore[q] = TRUE]
    BY <1>2, Zenon DEF RequestRestore
  <2>2. /\ DOMAIN d = Fields /\ SameBut(c, d, {"restore"}) /\ DOMAIN d.restore = Sequencers
        /\ d.restore[q] = TRUE /\ \A p \in Sequencers : p # q => d.restore[p] = c.restore[p]
    BY <1>2, <2>1, Zenon DEF Shape, SameBut, Fields
  <2> HIDE DEF d
  <2>3. Shape(d) /\ SameBut(c, d, {"restore", "op", "cmds"}) /\ d.op = c.op /\ d.cmds = c.cmds
    BY <2>2, Zenon DEF Shape, SameBut, Fields
  <2>4. RestoreStep(c, d) /\ Returning(d, q)
    BY <2>2, <2>3, Zenon DEF RestoreStep, Returning
  <2> QED
    BY <2>2, <2>4, Zenon DEF d
<1>3. CASE q \in Sequencers /\ c.manualMode[q] /\ ~c.op.active
  <2> DEFINE o == [InternalOp EXCEPT !.active = TRUE, !.kind = "SET_AUTO",
                                     !.publish = FALSE, !.target = q]
             b == [c EXCEPT !.restore[q] = FALSE, !.op = o]
  <2>1. d = Send(b, "SET_AUTO", 0, q)
    BY <1>3, Zenon DEF RequestRestore
  <2>2. 0 \in Slots
    BY SequenceAssumption, SMT DEF Slots
  <2>3. IsOp(o) /\ ReturnOp(o) /\ o.target = q
    BY <1>3, <2>2, Zenon DEF InternalOp, IsOp, ReturnOp, Targets
  <2> HIDE DEF o
  <2>4. /\ DOMAIN b = Fields /\ SameBut(c, b, {"restore", "op"}) /\ DOMAIN b.restore = Sequencers
        /\ b.op = o /\ \A p \in Sequencers : p # q => b.restore[p] = c.restore[p]
    BY <1>3, Zenon DEF Shape, SameBut, Fields
  <2> HIDE DEF b, d
  <2>5. Shape(b)
    BY <2>3, <2>4, Zenon DEF Shape, SameBut, Fields
  <2>6. /\ Shape(d) /\ SameBut(b, d, {"cmds"})
        /\ \E m \in Command : /\ Range(d.cmds) = Range(b.cmds) \cup {m}
                              /\ m.kind = "SET_AUTO" /\ m.id = 0
    <3>1. "SET_AUTO" \in Kinds /\ q \in Targets
      BY <1>3, Zenon DEF Kinds, Targets
    <3>2. SendStep(b, d, "SET_AUTO", 0, q)
      BY <1>3, <2>1, <2>2, <2>5, <3>1, SendEffect, Zenon
    <3> QED
      BY <3>2, Zenon DEF SendStep
  <2>7. /\ SameBut(c, d, {"restore", "op", "cmds"}) /\ d.op = o /\ d.restore = b.restore
        /\ b.cmds = c.cmds
    BY <2>4, <2>6, Zenon DEF SameBut, Fields
  <2>8. \A p \in Sequencers : Returning(c, p) \/ p = q => Returning(d, p)
    BY <1>3, <2>3, <2>4, <2>7, Zenon DEF Returning, ReturnOp
  <2>9. RestoreStep(c, d)
    BY <1>3, <2>3, <2>6, <2>7, <2>8, Zenon DEF RestoreStep
  <2> QED
    BY <1>3, <2>8, <2>9, Zenon DEF d
<1> QED
  BY <1>1, <1>2, <1>3, Zenon

\* processPendingAutoRestore asks for at most one return.
LEMMA ProcessRestoreStep ==
  ASSUME NEW c, Shape(c)
  PROVE  RestoreStep(c, ProcessRestore(c))
<1>1. RestoreStep(c, c)
  BY Zenon DEF RestoreStep, SameBut
<1> QED
  BY <1>1, RequestRestoreStep, Zenon DEF ProcessRestore

\* The end of an operation: what is left is free or returns a sequencer to AUTO,
\* and no return that is due is forgotten.
CloseStep(c, d) ==
  /\ Shape(d) /\ SameBut(c, d, {"restore", "op", "cmds", "owed"})
  /\ ~d.op.active \/ ReturnOp(d.op)
  /\ \A m \in Range(d.cmds) : m \in Range(c.cmds) \/ (m.kind = "SET_AUTO" /\ m.id = 0)
  /\ \A p \in Sequencers : c.restore[p] => Returning(d, p)

\* The end of an operation publishes its result, then looks for an owed return to AUTO.
LEMMA CloseOpStep ==
  ASSUME NEW c, Shape(c), NEW op
  PROVE  CloseStep(c, CloseOp(c, op))
<1> DEFINE b == [Publish(c, op) EXCEPT !.op = InternalOp]
           d == ProcessRestore(b)
<1>1. 0 \in Slots
  BY SequenceAssumption, SMT DEF Slots
<1>2. IsOp(InternalOp) /\ ~InternalOp.active
  BY <1>1, Zenon DEF InternalOp, IsOp, Targets
<1>3. DOMAIN b = Fields /\ SameBut(c, b, {"op", "owed"}) /\ b.op = InternalOp
  BY Zenon DEF Publish, Shape, SameBut, Fields
<1> HIDE DEF b
<1>4. Shape(b)
  BY <1>2, <1>3, Zenon DEF Shape, SameBut, Fields
<1>5. RestoreStep(b, d)
  BY <1>4, ProcessRestoreStep, Zenon
<1> HIDE DEF d
<1>6. SameBut(c, d, {"restore", "op", "cmds", "owed"}) /\ b.cmds = c.cmds /\ b.restore = c.restore
  BY <1>3, <1>5, Zenon DEF RestoreStep, SameBut, Fields
<1>7. \A p \in Sequencers : c.restore[p] => Returning(d, p)
  <2>1. \A p \in Sequencers : Returning(b, p) => Returning(d, p)
    BY <1>5, Zenon DEF RestoreStep
  <2>2. \A p \in Sequencers : c.restore[p] => Returning(b, p)
    BY <1>6, Zenon DEF Returning
  <2> QED
    BY <2>1, <2>2, Zenon
<1>8. ~d.op.active \/ ReturnOp(d.op)
  BY <1>2, <1>3, <1>5, Zenon DEF RestoreStep
<1>9. CloseStep(c, d)
  BY <1>5, <1>6, <1>7, <1>8, Zenon DEF CloseStep, RestoreStep
<1> QED
  BY <1>9, Zenon DEF CloseOp, d, b

-----------------------------------------------------------------------------
(* The operation under way and its end. *)

\* d is c with another state, sequencer and manual flag of context i.
Touch(c, d, i) ==
  /\ Shape(d) /\ SameBut(c, d, {"contexts"})
  /\ \A j \in Slots : j # i => d.contexts[j] = c.contexts[j]
  /\ SameContext(c.contexts[i], d.contexts[i], {"state", "sequencer", "manual"})

\* Contexts stay who they are.
Later(c, d) ==
  /\ d.nextId = c.nextId
  /\ \A i \in Slots : SameContext(c.contexts[i], d.contexts[i], {"state", "sequencer", "manual"})

\* A manual context keeps its sequencer.
Loyal(c, d) ==
  \A i \in Slots : d.contexts[i].manual =>
    c.contexts[i].manual /\ d.contexts[i].sequencer = c.contexts[i].sequencer

\* Commands sent at the end of an operation.
Sent(c, d) ==
  \A m \in Range(d.cmds) :
    \/ m \in Range(c.cmds)
    \/ m.kind = "SET_AUTO" /\ m.id = 0
    \/ /\ c.op.kind = "SET_MANUAL" /\ m.kind = "LOAD_MANUAL"
       /\ m.id = c.contexts[c.op.slot].id /\ m.sequencer = c.op.target

\* Owned without the help of the operation under way.
OwnedAlone(c) == \A q \in Sequencers : c.manualMode[q] =>
                   c.restore[q] \/ \E i \in Slots : OwnsManual(c.contexts[i], q)

\* The operation is not a SET_MANUAL.
Settled(c) == c.op.active => c.op.kind # "SET_MANUAL"

\* Clearing the manual flag of a context.
LEMMA ClearManual ==
  ASSUME NEW c, Shape(c), NEW i \in Slots
  PROVE  LET d == [c EXCEPT !.contexts[i].manual = FALSE]
         IN  Touch(c, d, i) /\ SameContext(c.contexts[i], d.contexts[i], {"manual"})
              /\ d.contexts[i].manual = FALSE
<1> DEFINE d == [c EXCEPT !.contexts[i].manual = FALSE]
<1>1. /\ DOMAIN d = Fields /\ DOMAIN d.contexts = Slots /\ SameBut(c, d, {"contexts"})
      /\ \A j \in Slots : j # i => d.contexts[j] = c.contexts[j]
      /\ d.contexts[i] = [c.contexts[i] EXCEPT !.manual = FALSE]
  BY Zenon DEF Shape, SameBut, Fields
<1> HIDE DEF d
<1>2. /\ SameContext(c.contexts[i], d.contexts[i], {"manual"}) /\ DOMAIN d.contexts[i] = ContextFields
      /\ d.contexts[i].manual = FALSE
  BY <1>1, Zenon DEF Shape, SameContext, IsContext, ContextFields
<1>3. IsContext(d.contexts[i])
  BY <1>2, Zenon DEF Shape, SameContext, IsContext, ContextFields
<1>4. Shape(d)
  BY <1>1, <1>3, Zenon DEF Shape, SameBut, Fields
<1>5. SameContext(c.contexts[i], d.contexts[i], {"state", "sequencer", "manual"})
  BY <1>2, Zenon DEF SameContext
<1> QED
  BY <1>1, <1>2, <1>4, <1>5, Zenon DEF d, Touch

\* Update and the clearing of the flag compose.
LEMMA TouchUpdate ==
  ASSUME NEW c, Shape(c), NEW i \in Slots, NEW st, NEW q \in Targets
  PROVE  Touch(c, c, i) /\ Touch(c, Update(c, i, st, q), i)
<1>1. Touch(c, c, i)
  BY Zenon DEF Touch, SameBut, SameContext
<1> DEFINE d == Update(c, i, st, q)
<1>2. UpdateStep(c, d, i, st, q)
  BY UpdateEffect, Zenon
<1> HIDE DEF d
<1>3. Touch(c, d, i)
  BY <1>2, Zenon DEF Touch, SameContext, UpdateStep
<1> QED
  BY <1>1, <1>3, Zenon DEF d

\* Two touches of one context are one.
LEMMA TouchTwice ==
  ASSUME NEW c, NEW d, NEW e, NEW i \in Slots, Touch(c, d, i), Touch(d, e, i)
  PROVE  Touch(c, e, i)
BY Zenon DEF Touch, SameBut, SameContext

\* What the end of an operation leaves behind.
LEMMA CloseKeeps ==
  ASSUME NEW c, NEW d, Shape(c), CloseStep(c, d)
  PROVE  /\ OpFits(d) /\ Settled(d) /\ d.contexts = c.contexts /\ d.nextId = c.nextId
         /\ OwnedAlone(c) => Owned(d)
<1>1. d.contexts = c.contexts /\ d.nextId = c.nextId /\ d.manualMode = c.manualMode
  BY Zenon DEF CloseStep, SameBut, Fields
<1>2. OpFits(d) /\ Settled(d)
  BY Zenon DEF CloseStep, OpFits, Settled, ReturnOp, Kinds
<1>3. OwnedAlone(c) => Owned(d)
  BY <1>1, Zenon DEF OwnedAlone, Owned, CloseStep
<1> QED
  BY <1>1, <1>2, <1>3, Zenon

\* The end of an operation, as the component's thread handles it.
OpStep(c, d) ==
  /\ Shape(d) /\ Later(c, d)
  /\ OpFits(c) /\ Owned(c) =>
       Loyal(c, d) /\ Owned(d) /\ OpFits(d) /\ Sent(c, d) /\ Settled(d)

\* A state e that differs from c in the context of the operation, closed.
LEMMA Closing ==
  ASSUME NEW c, NEW e, NEW d, NEW i \in Slots, Shape(e), CloseStep(e, d),
         \A j \in Slots : j # i => e.contexts[j] = c.contexts[j],
         SameContext(c.contexts[i], e.contexts[i], {"state", "sequencer", "manual"}),
         e.nextId = c.nextId,
         \A m \in Range(e.cmds) : m \in Range(c.cmds) \/ (m.kind = "SET_AUTO" /\ m.id = 0),
         OpFits(c) /\ Owned(c) =>
           OwnedAlone(e) /\ (e.contexts[i].manual => /\ c.contexts[i].manual
                                                     /\ e.contexts[i].sequencer = c.contexts[i].sequencer)
  PROVE  OpStep(c, d)
<1>1. /\ OpFits(d) /\ Settled(d) /\ d.contexts = e.contexts /\ d.nextId = e.nextId
      /\ OwnedAlone(e) => Owned(d)
  BY CloseKeeps, Zenon
<1>2. Shape(d) /\ Sent(c, d)
  BY Zenon DEF CloseStep, Sent
<1>3. Later(c, d)
  <2>1. \A j \in Slots : SameContext(c.contexts[j], c.contexts[j], {"state", "sequencer", "manual"})
    BY Zenon DEF SameContext
  <2> QED
    BY <1>1, <2>1, Zenon DEF Later
<1>4. OpFits(c) /\ Owned(c) => Loyal(c, d)
  BY <1>1, Zenon DEF Loyal
<1> QED
  BY <1>1, <1>2, <1>3, <1>4, Zenon DEF OpStep

\* While an operation is under way, what is owned without its help.
LEMMA OwnedOf ==
  ASSUME NEW c, Owned(c), c.op.kind # "SET_AUTO"
  PROVE  OwnedAlone(c)
BY Zenon DEF Owned, OwnedAlone, Returning

\* A refused operation: the context has failed, and a sequencer it held in manual
\* mode is due to return.
LEMMA FailedOpStep ==
  ASSUME NEW c, Shape(c), c.op.active
  PROVE  OpStep(c, FailedOp(c))
<1> DEFINE op     == c.op
           i      == c.op.slot
           known  == op.publish /\ c.contexts[i].used
           failed == IF known THEN Update(c, i, "FAILED", op.target) ELSE c
           drops  == /\ op.target \in Sequencers /\ c.manualMode[op.target]
                     /\ \/ op.kind \in {"LOAD_MANUAL", "CANCEL", "SET_AUTO"}
                        \/ /\ op.kind \in {"START", "STEP"}
                           /\ c.contexts[i].used /\ c.contexts[i].manual
           freed  == IF drops /\ op.kind # "SET_AUTO" /\ c.contexts[i].used
                       THEN [failed EXCEPT !.contexts[i].manual = FALSE] ELSE failed
           e      == IF drops THEN RequestRestore(freed, op.target) ELSE freed
           d      == CloseOp(e, op)
<1>1. FailedOp(c) = d
  BY Zenon DEF FailedOp
<1>2. i \in Slots /\ op.target \in Targets
  BY Zenon DEF Shape, IsOp
<1>3. /\ Touch(c, failed, i)
      /\ failed = c \/ UpdateStep(c, failed, i, "FAILED", op.target)
      /\ known \/ failed = c
  BY <1>2, TouchUpdate, UpdateEffect, Zenon
<1> HIDE DEF failed
<1>4. /\ Touch(failed, freed, i)
      /\ SameContext(failed.contexts[i], freed.contexts[i], {"manual"})
      /\ freed = failed \/ freed.contexts[i].manual = FALSE
  <2>1. Shape(failed)
    BY <1>3, Zenon DEF Touch
  <2>2. Touch(failed, failed, i)
    BY <2>1, Zenon DEF Touch, SameBut, SameContext
  <2>3. SameContext(failed.contexts[i], failed.contexts[i], {"manual"})
    BY Zenon DEF SameContext
  <2> QED
    BY <1>2, <2>1, <2>2, <2>3, ClearManual, Zenon
<1>5. Touch(c, freed, i)
  BY <1>2, <1>3, <1>4, TouchTwice, Zenon
<1>6. freed.manualMode = c.manualMode /\ freed.op = c.op /\ freed.restore = c.restore
  BY <1>5, Zenon DEF Touch, SameBut, Fields
<1>7. ASSUME OpFits(c)
      PROVE  freed.contexts[i].manual =>
               c.contexts[i].manual /\ freed.contexts[i].sequencer = c.contexts[i].sequencer
  <2>1. freed.contexts[i].manual => freed = failed
    BY <1>4, Zenon
  <2>2. failed.contexts[i].manual = c.contexts[i].manual
    BY <1>3, Zenon DEF UpdateStep, SameContext, ContextFields
  <2>3. c.contexts[i].manual /\ op.publish => c.contexts[i].sequencer = op.target
    BY <1>7, Zenon DEF OpFits
  <2>4. c.contexts[i].manual => failed.contexts[i].sequencer = c.contexts[i].sequencer
    BY <1>3, <2>3, Zenon DEF UpdateStep
  <2> QED
    BY <2>1, <2>2, <2>4, Zenon
<1> HIDE DEF freed
<1>8. /\ Shape(e) /\ e.contexts = freed.contexts /\ e.manualMode = c.manualMode
      /\ e.nextId = c.nextId
      /\ \A p \in Sequencers : c.restore[p] => e.restore[p]
      /\ drops => e.restore[op.target]
      /\ \A m \in Range(e.cmds) : m \in Range(c.cmds) \/ (m.kind = "SET_AUTO" /\ m.id = 0)
  <2>1. Shape(freed) /\ freed.nextId = c.nextId /\ freed.cmds = c.cmds
    BY <1>5, Zenon DEF Touch, SameBut, Fields
  <2>2. CASE drops
    <3>1. /\ RestoreStep(freed, e)
          /\ Returning(e, op.target) /\ (freed.op.active => e.restore[op.target])
      BY <1>6, <2>1, <2>2, RequestRestoreStep, Zenon
    <3> HIDE DEF e
    <3>2. e.contexts = freed.contexts /\ e.manualMode = freed.manualMode /\ e.nextId = freed.nextId
      BY <3>1, Zenon DEF RestoreStep, SameBut, Fields
    <3>3. Shape(e) /\ \A p \in Sequencers : c.restore[p] => e.restore[p]
      BY <1>6, <3>1, Zenon DEF RestoreStep
    <3>4. \A m \in Range(e.cmds) : m \in Range(c.cmds) \/ (m.kind = "SET_AUTO" /\ m.id = 0)
      BY <2>1, <3>1, Zenon DEF RestoreStep
    <3> QED
      BY <1>6, <2>1, <3>1, <3>2, <3>3, <3>4, Zenon
  <2>3. CASE ~drops
    BY <1>6, <2>1, <2>3, Zenon
  <2> QED
    BY <2>2, <2>3, Zenon
<1> HIDE DEF e
<1>9. ASSUME OpFits(c), Owned(c) PROVE OwnedAlone(e)
  <2> SUFFICES ASSUME NEW q \in Sequencers, c.manualMode[q]
               PROVE  e.restore[q] \/ \E j \in Slots : OwnsManual(e.contexts[j], q)
    BY <1>8, Zenon DEF OwnedAlone
  <2>1. CASE c.restore[q]
    BY <1>8, <2>1, Zenon
  <2>2. CASE op.kind = "SET_AUTO" /\ op.target = q
    BY <1>8, <2>2, Zenon
  <2>3. ASSUME NEW j \in Slots, j # i, OwnsManual(c.contexts[j], q)
        PROVE  OwnsManual(e.contexts[j], q)
    BY <1>5, <1>8, <2>3, Zenon DEF Touch
  <2>4. CASE OwnsManual(c.contexts[i], q) /\ op.kind # "SET_AUTO"
    <3>1. op.kind \in Kinds /\ op.target = q /\ op.kind # "SET_MANUAL" /\ op.kind # "DISPATCH_RUN"
      BY <1>9, <2>4, Zenon DEF OpFits, OwnsManual
    <3>2. drops
      BY <2>4, <3>1, Zenon DEF Kinds, OwnsManual
    <3> QED
      BY <1>8, <3>1, <3>2, Zenon
  <2>5. CASE OwnsManual(c.contexts[i], q) /\ op.kind = "SET_AUTO"
    <3>1. ~known
      BY <1>9, <2>5, Zenon DEF OpFits
    <3>2. freed = failed /\ failed = c
      BY <1>3, <2>5, <3>1, Zenon DEF freed
    <3> QED
      BY <1>2, <1>8, <2>5, <3>2, Zenon
  <2> QED
    BY <1>9, <2>1, <2>2, <2>3, <2>4, <2>5, Zenon DEF Owned, Returning
<1>10. CloseStep(e, d)
  BY <1>8, CloseOpStep, Zenon
<1> HIDE DEF d
<1>11. OpStep(c, d)
  <2>1. /\ \A j \in Slots : j # i => e.contexts[j] = c.contexts[j]
        /\ SameContext(c.contexts[i], e.contexts[i], {"state", "sequencer", "manual"})
    BY <1>5, <1>8, Zenon DEF Touch
  <2>2. OpFits(c) => (e.contexts[i].manual => /\ c.contexts[i].manual
                                              /\ e.contexts[i].sequencer = c.contexts[i].sequencer)
    BY <1>7, <1>8, Zenon
  <2> QED
    BY <1>2, <1>8, <1>9, <1>10, <2>1, <2>2, Closing, Zenon
<1> QED
  BY <1>1, <1>11, Zenon

\* An accepted operation.
LEMMA SucceededOpStep ==
  ASSUME NEW c, Shape(c), c.op.active
  PROVE  OpStep(c, SucceededOp(c))
<1> DEFINE op == c.op
           i  == c.op.slot
           S  == SucceededOp(c)
<1> SUFFICES OpStep(c, S)
  OBVIOUS
<1>1. i \in Slots /\ op.target \in Targets
  BY Zenon DEF Shape, IsOp
<1>2. ASSUME NEW e, Touch(c, e, i), S = CloseOp(e, op), op.kind # "SET_AUTO",
             OpFits(c) /\ Owned(c) =>
               OwnedAlone(e) /\ (e.contexts[i].manual => /\ c.contexts[i].manual
                                                         /\ e.contexts[i].sequencer = c.contexts[i].sequencer)
      PROVE  OpStep(c, S)
  <2>1. CloseStep(e, S)
    BY <1>2, CloseOpStep, Zenon DEF Touch
  <2> HIDE DEF S
  <2>2. e.nextId = c.nextId /\ e.cmds = c.cmds
    BY <1>2, Zenon DEF Touch, SameBut, Fields
  <2> QED
    BY <1>1, <1>2, <2>1, <2>2, Closing, Zenon DEF Touch
<1>3. ASSUME NEW e, Touch(c, e, i), op.kind # "SET_AUTO", OpFits(c), Owned(c),
             \A q \in Sequencers : OwnsManual(c.contexts[i], q) => OwnsManual(e.contexts[i], q)
      PROVE  OwnedAlone(e)
  <2>1. e.manualMode = c.manualMode /\ e.restore = c.restore
    BY <1>3, Zenon DEF Touch, SameBut, Fields
  <2>2. \A q \in Sequencers, j \in Slots : OwnsManual(c.contexts[j], q) => OwnsManual(e.contexts[j], q)
    BY <1>1, <1>3, Zenon DEF Touch
  <2>3. OwnedAlone(c)
    BY <1>3, OwnedOf, Zenon
  <2> QED
    BY <2>1, <2>2, <2>3, Zenon DEF OwnedAlone
<1>4. ASSUME NEW st, st \notin Terminal, op.kind # "SET_AUTO", S = CloseOp(Update(c, i, st, op.target), op)
      PROVE  OpStep(c, S)
  <2> DEFINE e == Update(c, i, st, op.target)
  <2>1. Touch(c, e, i) /\ UpdateStep(c, e, i, st, op.target)
    BY <1>1, TouchUpdate, UpdateEffect, Zenon
  <2>2. S = CloseOp(e, op)
    BY <1>4, Zenon
  <2> HIDE DEF e, S
  <2>3. /\ e.contexts[i].manual = c.contexts[i].manual /\ e.contexts[i].used = c.contexts[i].used
        /\ e.contexts[i].state = st
    BY <2>1, Zenon DEF UpdateStep, SameContext, ContextFields
  <2>4. ASSUME OpFits(c), c.contexts[i].manual
        PROVE  e.contexts[i].sequencer = c.contexts[i].sequencer
    BY <1>4, <2>1, <2>4, Zenon DEF OpFits, UpdateStep
  <2>5. ASSUME OpFits(c), Owned(c) PROVE OwnedAlone(e)
    <3>1. \A q \in Sequencers : OwnsManual(c.contexts[i], q) => OwnsManual(e.contexts[i], q)
      BY <1>4, <2>3, <2>4, <2>5, Zenon DEF OwnsManual
    <3> QED
      BY <1>3, <1>4, <2>1, <2>5, <3>1, Zenon
  <2> QED
    BY <1>2, <1>4, <2>1, <2>2, <2>3, <2>4, <2>5, Zenon
<1>5. CASE op.kind = "SET_MANUAL"
  <2> DEFINE b == [c EXCEPT !.manualMode[op.target] = TRUE, !.op.kind = "LOAD_MANUAL"]
  <2>1. S = Send(b, "LOAD_MANUAL", i, op.target)
    BY <1>5, Zenon DEF SucceededOp
  <2>2. op.target \in Sequencers /\ "LOAD_MANUAL" \in Kinds
    BY <1>5, Zenon DEF Shape, IsOp, Kinds
  <2>3. /\ DOMAIN b = Fields /\ SameBut(c, b, {"manualMode", "op"}) /\ DOMAIN b.manualMode = Sequencers
        /\ b.op = [op EXCEPT !.kind = "LOAD_MANUAL"]
        /\ \A q \in Sequencers : q # op.target => b.manualMode[q] = c.manualMode[q]
    BY <2>2, Zenon DEF Shape, SameBut, Fields
  <2> HIDE DEF b, S
  <2>4. /\ DOMAIN b.op = {"active", "kind", "publish", "slot", "request", "target"}
        /\ b.op.active /\ b.op.kind = "LOAD_MANUAL" /\ b.op.slot = i /\ b.op.target = op.target
        /\ b.op.publish = op.publish
    BY <2>3, Zenon DEF Shape, IsOp
  <2>5. Shape(b)
    <3>1. IsOp(b.op)
      BY <1>1, <2>2, <2>4, Zenon DEF IsOp
    <3> QED
      BY <2>3, <3>1, Zenon DEF Shape, SameBut, Fields
  <2>6. SendStep(b, S, "LOAD_MANUAL", i, op.target)
    BY <1>1, <2>1, <2>2, <2>5, SendEffect, Zenon
  <2>7. /\ S.contexts = c.contexts /\ S.nextId = c.nextId /\ b.cmds = c.cmds /\ S.op = b.op
        /\ S.restore = c.restore /\ S.manualMode = b.manualMode /\ b.contexts = c.contexts
    BY <2>3, <2>6, Zenon DEF SendStep, SameBut, Fields
  <2>8. Shape(S) /\ Later(c, S) /\ Loyal(c, S) /\ Settled(S)
    BY <2>4, <2>6, <2>7, Zenon DEF SendStep, Later, Loyal, Settled, SameContext
  <2>9. Sent(c, S)
    <3>1. PICK m \in Command : /\ Range(S.cmds) = Range(c.cmds) \cup {m}
                               /\ m.kind = "LOAD_MANUAL" /\ m.sequencer = op.target
                               /\ m.id = IF "LOAD_MANUAL" = "SET_AUTO" THEN 0 ELSE c.contexts[i].id
      BY <2>6, <2>7, Zenon DEF SendStep
    <3>2. m.id = c.contexts[i].id
      BY <3>1, SMT
    <3> QED
      BY <1>5, <3>1, <3>2, Zenon DEF Sent
  <2>10. ASSUME OpFits(c), Owned(c) PROVE Owned(S) /\ OpFits(S)
    <3>1. /\ op.publish <=> op.kind # "SET_AUTO"
          /\ c.contexts[i].used /\ c.contexts[i].manual /\ c.contexts[i].sequencer = op.target
          /\ c.contexts[i].state = "ADMITTED"
      BY <1>5, <2>10, Zenon DEF OpFits
    <3>2. OpFits(S)
      BY <1>5, <2>2, <2>4, <2>7, <3>1, Zenon DEF OpFits
    <3>3. OwnsManual(S.contexts[i], op.target)
      BY <2>7, <3>1, Zenon DEF OwnsManual, Terminal
    <3>4. OwnedAlone(c)
      BY <1>5, <2>10, OwnedOf, Zenon
    <3>5. Owned(S)
      BY <1>1, <2>3, <2>7, <3>3, <3>4, Zenon DEF Owned, OwnedAlone, Returning
    <3> QED
      BY <3>2, <3>5, Zenon
  <2> QED
    BY <2>8, <2>9, <2>10, Zenon DEF OpStep
<1>6. CASE op.kind = "LOAD_MANUAL"
  <2>1. S = CloseOp(Update(c, i, "MANUAL_PREPARED", op.target), op)
    BY <1>6, Zenon DEF SucceededOp
  <2>2. "MANUAL_PREPARED" \notin Terminal /\ op.kind # "SET_AUTO"
    BY <1>6, Zenon DEF Terminal
  <2> HIDE DEF S
  <2> QED
    BY <1>4, <2>1, <2>2, Zenon
<1>7. CASE op.kind = "START"
  <2>1. S = CloseOp(Update(c, i, "RUNNING", op.target), op)
    BY <1>7, Zenon DEF SucceededOp
  <2>2. "RUNNING" \notin Terminal /\ op.kind # "SET_AUTO"
    BY <1>7, Zenon DEF Terminal
  <2> HIDE DEF S
  <2> QED
    BY <1>4, <2>1, <2>2, Zenon
<1>8. CASE op.kind = "SET_AUTO"
  <2> DEFINE e == [c EXCEPT !.manualMode[op.target] = FALSE]
  <2>1. S = CloseOp(e, op)
    BY <1>8, Zenon DEF SucceededOp
  <2>2. /\ DOMAIN e = Fields /\ SameBut(c, e, {"manualMode"}) /\ DOMAIN e.manualMode = Sequencers
        /\ \A q \in Sequencers : e.manualMode[q] => q # op.target /\ c.manualMode[q]
    BY Zenon DEF Shape, SameBut, Fields
  <2> HIDE DEF e, S
  <2>3. /\ Shape(e) /\ e.contexts = c.contexts /\ e.nextId = c.nextId /\ e.cmds = c.cmds
        /\ e.restore = c.restore
    BY <2>2, Zenon DEF Shape, SameBut, Fields
  <2>4. CloseStep(e, S)
    BY <2>1, <2>3, CloseOpStep, Zenon
  <2>5. OpFits(c) /\ Owned(c) => OwnedAlone(e)
    BY <2>2, <2>3, Zenon DEF Owned, OwnedAlone, Returning
  <2>6. SameContext(c.contexts[i], c.contexts[i], {"state", "sequencer", "manual"})
    BY Zenon DEF SameContext
  <2> QED
    BY <1>1, <2>3, <2>4, <2>5, <2>6, Closing, Zenon
<1>9. CASE op.kind = "CANCEL"
  <2> DEFINE u == Update(c, i, "CANCELED", op.target)
             f == [u EXCEPT !.contexts[i].manual = FALSE]
             r == RequestRestore(f, op.target)
  <2>1. S = CloseOp(IF c.contexts[i].manual THEN r ELSE u, op)
    BY <1>9, Zenon DEF SucceededOp
  <2>2. Touch(c, u, i) /\ UpdateStep(c, u, i, "CANCELED", op.target)
    BY <1>1, TouchUpdate, UpdateEffect, Zenon
  <2> HIDE DEF u, S
  <2>3. CASE ~c.contexts[i].manual
    <3>1. u.contexts[i].manual = c.contexts[i].manual
      BY <2>2, Zenon DEF UpdateStep, SameContext, ContextFields
    <3>2. \A q \in Sequencers : OwnsManual(c.contexts[i], q) => OwnsManual(u.contexts[i], q)
      BY <2>3, Zenon DEF OwnsManual
    <3> QED
      BY <1>2, <1>3, <1>9, <2>1, <2>2, <2>3, <3>1, <3>2, Zenon
  <2>4. CASE c.contexts[i].manual
    <3>1. Touch(u, f, i) /\ f.contexts[i].manual = FALSE
      <4>1. Shape(u)
        BY <2>2, Zenon DEF Touch
      <4> QED
        BY <1>1, <4>1, ClearManual, Zenon
    <3> HIDE DEF f
    <3>2. Touch(c, f, i)
      BY <1>1, <2>2, <3>1, TouchTwice, Zenon
    <3>3. /\ f.manualMode = c.manualMode /\ f.op = c.op /\ f.restore = c.restore /\ Shape(f)
          /\ f.nextId = c.nextId /\ f.cmds = c.cmds
      BY <3>2, Zenon DEF Touch, SameBut, Fields
    <3>4. /\ RestoreStep(f, r)
          /\ op.target \in Sequencers /\ f.manualMode[op.target] =>
               Returning(r, op.target) /\ (f.op.active => r.restore[op.target])
      BY <3>3, RequestRestoreStep, Zenon
    <3> HIDE DEF r
    <3>5. r.contexts = f.contexts /\ r.manualMode = f.manualMode /\ r.nextId = f.nextId
      BY <3>4, Zenon DEF RestoreStep, SameBut, Fields
    <3>6. /\ Shape(r) /\ \A p \in Sequencers : c.restore[p] => r.restore[p]
          /\ \A m \in Range(r.cmds) : m \in Range(c.cmds) \/ (m.kind = "SET_AUTO" /\ m.id = 0)
      BY <3>3, <3>4, Zenon DEF RestoreStep
    <3>7. CloseStep(r, S)
      BY <2>1, <2>4, <3>6, CloseOpStep, Zenon
    <3>8. ASSUME OpFits(c), Owned(c) PROVE OwnedAlone(r)
      <4>1. c.contexts[i].sequencer = op.target
        BY <1>9, <2>4, <3>8, Zenon DEF OpFits
      <4>2. OwnedAlone(c)
        BY <1>9, <3>8, OwnedOf, Zenon
      <4> SUFFICES ASSUME NEW q \in Sequencers, c.manualMode[q]
                   PROVE  r.restore[q] \/ \E j \in Slots : OwnsManual(r.contexts[j], q)
        BY <3>3, <3>5, Zenon DEF OwnedAlone
      <4>3. CASE c.restore[q]
        BY <3>6, <4>3, Zenon
      <4>4. CASE q = op.target
        BY <3>3, <3>4, <4>4, Zenon
      <4>5. ASSUME NEW j \in Slots, OwnsManual(c.contexts[j], q), q # op.target
            PROVE  OwnsManual(r.contexts[j], q)
        <5>1. j # i
          BY <4>1, <4>5, Zenon DEF OwnsManual
        <5> QED
          BY <3>2, <3>5, <4>5, <5>1, Zenon DEF Touch
      <4> QED
        BY <4>2, <4>3, <4>4, <4>5, Zenon DEF OwnedAlone
    <3>9. ~r.contexts[i].manual
      BY <3>1, <3>5, Zenon
    <3>10. /\ \A j \in Slots : j # i => r.contexts[j] = c.contexts[j]
           /\ SameContext(c.contexts[i], r.contexts[i], {"state", "sequencer", "manual"})
           /\ r.nextId = c.nextId
      BY <3>2, <3>3, <3>5, Zenon DEF Touch
    <3> QED
      BY <1>1, <3>6, <3>7, <3>8, <3>9, <3>10, Closing, Zenon
  <2> QED
    BY <2>3, <2>4, Zenon
<1>10. CASE op.kind \notin {"SET_MANUAL", "LOAD_MANUAL", "SET_AUTO", "START", "CANCEL"}
  <2>1. S = CloseOp(c, op)
    BY <1>10, Zenon DEF SucceededOp
  <2>2. Touch(c, c, i)
    BY <1>1, Zenon DEF Touch, SameBut, SameContext
  <2> HIDE DEF S
  <2> QED
    BY <1>2, <1>3, <1>10, <2>1, <2>2, Zenon
<1> QED
  BY <1>5, <1>6, <1>7, <1>8, <1>9, <1>10, Zenon

-----------------------------------------------------------------------------
(* The component's own thread. *)

\* A SET_MANUAL under way goes on undisturbed.
Steady(c, d) ==
  d.op.active /\ d.op.kind = "SET_MANUAL" =>
    d.op = c.op /\ \A m \in Range(d.cmds) : m \in Range(c.cmds) \/ m.id = 0

\* The invariant as one of the fields c, the sequencers and the queue.
Manual(c, sq, box) ==
  Owned(c) /\ IdsUnique(c) /\ OpFits(c) /\ Linked(c, sq, box) /\ NotLoaded(c, sq, box)

\* What a handler of the own thread does to the fields.
Handled(c, d) ==
  Loyal(c, d) /\ Owned(d) /\ OpFits(d) /\ Sent(c, d) /\ Steady(c, d)

\* A command that fitted still fits, and so does what a sequencer has loaded.
LEMMA FitsLater ==
  ASSUME NEW c, NEW d, Later(c, d), Loyal(c, d)
  PROVE  /\ \A m : CommandFits(c, m) => CommandFits(d, m)
         /\ \A q, id : LoadFits(c, q, id) => LoadFits(d, q, id)
<1>1. \A i \in Slots : d.contexts[i].used = c.contexts[i].used /\ d.contexts[i].id = c.contexts[i].id
  BY Zenon DEF Later, SameContext, ContextFields
<1>2. d.nextId = c.nextId
  BY Zenon DEF Later
<1>3. \A i \in Slots : d.contexts[i].manual =>
        c.contexts[i].manual /\ d.contexts[i].sequencer = c.contexts[i].sequencer
  BY Zenon DEF Loyal
<1>4. \A m : CommandFits(c, m) => CommandFits(d, m)
  BY <1>1, <1>2, <1>3, Zenon DEF CommandFits
<1>5. \A q, id : LoadFits(c, q, id) => LoadFits(d, q, id)
  BY <1>1, <1>2, <1>3, Zenon DEF LoadFits
<1> QED
  BY <1>4, <1>5, Zenon

\* Ids stay unique.
LEMMA UniqueLater ==
  ASSUME NEW c, NEW d, Later(c, d), IdsUnique(c)
  PROVE  IdsUnique(d)
<1>1. \A i \in Slots : d.contexts[i].used = c.contexts[i].used /\ d.contexts[i].id = c.contexts[i].id
  BY Zenon DEF Later, SameContext, ContextFields
<1>2. d.nextId = c.nextId
  BY Zenon DEF Later
<1> QED
  BY <1>1, <1>2, Zenon DEF IdsUnique

\* The id of a context in use is not 0, which SET_AUTO carries.
LEMMA ZeroFits ==
  ASSUME NEW c, Shape(c), IdsUnique(c)
  PROVE  /\ \A m : m.id = 0 => CommandFits(c, m)
         /\ \A q : LoadFits(c, q, 0)
         /\ \A i \in Slots : c.contexts[i].used => c.contexts[i].id # 0 /\ c.contexts[i].id < c.nextId
<1>1. 0 < c.nextId
  BY SMT DEF Shape
<1>2. \A i \in Slots : c.contexts[i].used => c.contexts[i].id # 0 /\ c.contexts[i].id < c.nextId
  <2>1. c.nextId \in Nat
    BY SMT DEF Shape
  <2>2. \A n \in 1 .. c.nextId - 1 : n # 0 /\ n < c.nextId
    BY <2>1, SMT
  <2> QED
    BY <2>2, Zenon DEF IdsUnique
<1> QED
  BY <1>1, <1>2, Zenon DEF CommandFits, LoadFits

\* What a handler sends fits.
LEMMA SentFits ==
  ASSUME NEW c, NEW d, Shape(c), Shape(d), Later(c, d), Loyal(c, d), IdsUnique(c), Sent(c, d),
         c.op.active, OpFits(c), NEW m \in Range(d.cmds)
  PROVE  m \in Range(c.cmds) \/ CommandFits(c, m)
<1>1. CASE m.kind = "SET_AUTO" /\ m.id = 0
  BY <1>1, ZeroFits, Zenon
<1>2. CASE /\ c.op.kind = "SET_MANUAL" /\ m.kind = "LOAD_MANUAL"
           /\ m.id = c.contexts[c.op.slot].id /\ m.sequencer = c.op.target
  <2> DEFINE i == c.op.slot
  <2>1. i \in Slots
    BY Zenon DEF Shape, IsOp
  <2>2. c.contexts[i].used /\ c.contexts[i].manual /\ c.contexts[i].sequencer = c.op.target
    BY <1>2, Zenon DEF OpFits
  <2>3. m.id < c.nextId
    BY <1>2, <2>1, <2>2, ZeroFits, Zenon
  <2>4. ASSUME NEW j \in Slots, c.contexts[j].used, m.id = c.contexts[j].id
        PROVE  j = i
    BY <1>2, <2>1, <2>2, <2>4, Zenon DEF IdsUnique
  <2> HIDE DEF i
  <2>5. m.kind # "DISPATCH_RUN"
    BY <1>2, Zenon
  <2> QED
    BY <1>2, <2>2, <2>3, <2>4, <2>5, Zenon DEF CommandFits
<1> QED
  BY <1>1, <1>2, Zenon DEF Sent

\* A handler of the own thread keeps the invariant.
LEMMA HandledKeeps ==
  ASSUME NEW c, NEW d, NEW sq, NEW box, NEW rest, Shape(c), Shape(d), Later(c, d),
         Manual(c, sq, box), Range(rest) \subseteq Range(box),
         Handled(c, d), c.op.active \/ \A m \in Range(d.cmds) : m \in Range(c.cmds) \/ m.id = 0
  PROVE  Manual(d, sq, rest)
<1>1. /\ Loyal(c, d) /\ Owned(d) /\ OpFits(d) /\ Sent(c, d) /\ Steady(c, d)
      /\ IdsUnique(c) /\ OpFits(c) /\ Linked(c, sq, box) /\ NotLoaded(c, sq, box)
  BY Zenon DEF Handled, Manual
<1>2. IdsUnique(d)
  BY <1>1, UniqueLater, Zenon
<1>3. /\ \A m : CommandFits(c, m) => CommandFits(d, m)
      /\ \A q, id : LoadFits(c, q, id) => LoadFits(d, q, id)
  BY <1>1, FitsLater, Zenon
<1>4. \A m \in Range(d.cmds) : m \in Range(c.cmds) \/ CommandFits(c, m)
  BY <1>1, SentFits, ZeroFits, Zenon
<1>5. Linked(d, sq, rest)
  BY <1>1, <1>3, <1>4, Zenon DEF Linked
<1>6. NotLoaded(d, sq, rest)
  <2> SUFFICES ASSUME d.op.active, d.op.kind = "SET_MANUAL"
               PROVE  LET id == d.contexts[d.op.slot].id
                      IN  /\ \A m \in Range(d.cmds) : m.id = id => m.kind = "SET_MANUAL"
                          /\ \A q \in Sequencers : sq[q].file # id
                          /\ \A m \in Range(rest) : m.type = "START" => m.id # id
    BY Zenon DEF NotLoaded
  <2> DEFINE i == c.op.slot
  <2>1. d.op = c.op /\ \A m \in Range(d.cmds) : m \in Range(c.cmds) \/ m.id = 0
    BY <1>1, Zenon DEF Steady
  <2>2. i \in Slots
    BY Zenon DEF Shape, IsOp
  <2>3. c.contexts[i].used /\ d.contexts[i].id = c.contexts[i].id
    <3>1. c.contexts[i].used
      BY <1>1, <2>1, Zenon DEF OpFits
    <3> QED
      BY <2>2, <3>1, Zenon DEF Later, SameContext, ContextFields
  <2>4. c.contexts[i].id # 0
    BY <1>1, <2>2, <2>3, ZeroFits, Zenon
  <2>5. /\ \A m \in Range(c.cmds) : m.id = c.contexts[i].id => m.kind = "SET_MANUAL"
        /\ \A q \in Sequencers : sq[q].file # c.contexts[i].id
        /\ \A m \in Range(box) : m.type = "START" => m.id # c.contexts[i].id
    BY <1>1, <2>1, Zenon DEF NotLoaded
  <2> QED
    BY <2>1, <2>3, <2>4, <2>5, Zenon
<1> QED
  BY <1>1, <1>2, <1>5, <1>6, Zenon DEF Manual

\* seqStartIn and seqDoneIn touch one context i.
LEMMA TouchLater ==
  ASSUME NEW c, NEW d, NEW i \in Slots, Touch(c, d, i)
  PROVE  Later(c, d)
<1>1. d.nextId = c.nextId
  BY Zenon DEF Touch, SameBut, Fields
<1>2. \A j \in Slots : SameContext(c.contexts[j], c.contexts[j], {"state", "sequencer", "manual"})
  BY Zenon DEF SameContext
<1> QED
  BY <1>1, <1>2, Zenon DEF Touch, Later

\* A context that is not in SET_MANUAL may lose its state: the operation under way
\* still fits.
LEMMA TouchFits ==
  ASSUME NEW c, NEW d, NEW i \in Slots, Touch(c, d, i), OpFits(c), Loyal(c, d),
         c.op.active /\ c.op.kind = "SET_MANUAL" => c.op.slot # i
  PROVE  OpFits(d) /\ Sent(c, d) /\ Steady(c, d)
<1>1. d.op = c.op /\ d.cmds = c.cmds /\ d.manualMode = c.manualMode
  BY Zenon DEF Touch, SameBut, Fields
<1>2. Sent(c, d) /\ Steady(c, d)
  BY <1>1, Zenon DEF Sent, Steady
<1>3. ASSUME c.op.active PROVE OpFits(d)
  <2> DEFINE s == c.op.slot
  <2>1. s \in Slots
    BY <1>1, Zenon DEF Touch, Shape, IsOp
  <2>2. d.contexts[s].used = c.contexts[s].used
    BY <2>1, Zenon DEF Touch, SameContext, ContextFields
  <2>3. d.contexts[s].manual => c.contexts[s].manual /\ d.contexts[s].sequencer = c.contexts[s].sequencer
    BY <2>1, Zenon DEF Loyal
  <2>4. c.op.kind = "SET_MANUAL" => d.contexts[s] = c.contexts[s]
    BY <1>3, <2>1, Zenon DEF Touch
  <2> QED
    BY <1>1, <1>3, <2>2, <2>3, <2>4, Zenon DEF OpFits
<1>4. ~c.op.active => OpFits(d)
  BY <1>1, Zenon DEF OpFits
<1> QED
  BY <1>2, <1>3, <1>4, Zenon

\* internalCmdStatusIn.
LEMMA StatusKeeps ==
  ASSUME Typed, HandleStatus
  PROVE  /\ Shape(ctl') /\ Later(ctl, ctl')
         /\ Manual(ctl, seqr, inbox) => Manual(ctl', seqr, inbox')
<1>1. Shape(ctl) /\ inbox \in Seq(Message) /\ inbox # <<>> /\ inbox' = Tail(inbox)
  BY Zenon DEF Typed, HandleStatus, OwnThreadMayRun
<1>2. Range(inbox') \subseteq Range(inbox)
  BY <1>1, QueueTail, Zenon
<1>3. CASE ~ctl.op.active
  <2>1. ctl' = ctl
    BY <1>3, Zenon DEF HandleStatus
  <2>2. Later(ctl, ctl)
    BY Zenon DEF Later, SameContext
  <2>3. Manual(ctl, seqr, inbox) => Manual(ctl, seqr, inbox')
    BY <1>2, Zenon DEF Manual, Linked, NotLoaded
  <2> QED
    BY <1>1, <2>1, <2>2, <2>3, Zenon
<1>4. CASE ctl.op.active
  <2>1. OpStep(ctl, ctl')
    BY <1>1, <1>4, FailedOpStep, SucceededOpStep, Zenon DEF HandleStatus
  <2>2. Shape(ctl') /\ Later(ctl, ctl')
    BY <2>1, Zenon DEF OpStep
  <2>3. ASSUME Manual(ctl, seqr, inbox) PROVE Manual(ctl', seqr, inbox')
    <3>1. Handled(ctl, ctl')
      BY <2>1, <2>3, Zenon DEF OpStep, Manual, Handled, Settled, Steady
    <3> QED
      BY <1>1, <1>2, <1>4, <2>2, <2>3, <3>1, HandledKeeps, Zenon
  <2> QED
    BY <2>2, <2>3, Zenon
<1> QED
  BY <1>3, <1>4, Zenon

\* seqStartIn: a START names the sequencer of the manual context it belongs to.
LEMMA StartKeeps ==
  ASSUME Typed, HandleStart
  PROVE  /\ Shape(ctl') /\ Later(ctl, ctl')
         /\ Manual(ctl, seqr, inbox) => Manual(ctl', seqr, inbox')
<1> DEFINE m == Head(inbox)
           found == {i \in Slots : ctl.contexts[i].used /\ ctl.contexts[i].id = m.id}
           i == Min(found)
<1>1. Shape(ctl) /\ inbox \in Seq(Message) /\ inbox # <<>> /\ inbox' = Tail(inbox) /\ m.type = "START"
  BY Zenon DEF Typed, HandleStart, OwnThreadMayRun
<1>2. Range(inbox') \subseteq Range(inbox) /\ m \in Range(inbox) /\ m \in Message
  BY <1>1, QueueTail, Zenon
<1>3. CASE found = {}
  <2>1. ctl' = ctl
    BY <1>3, Zenon DEF HandleStart
  <2>2. Later(ctl, ctl)
    BY Zenon DEF Later, SameContext
  <2>3. Manual(ctl, seqr, inbox) => Manual(ctl, seqr, inbox')
    BY <1>2, Zenon DEF Manual, Linked, NotLoaded
  <2> QED
    BY <1>1, <2>1, <2>2, <2>3, Zenon
<1>4. CASE found # {}
  <2>1. i \in found
    BY <1>4, MinSlot, Zenon
  <2>2. i \in Slots /\ ctl.contexts[i].used /\ ctl.contexts[i].id = m.id
    BY <2>1, Zenon
  <2>3. ctl' = Update(ctl, i, "RUNNING", m.sequencer)
    BY <1>4, Zenon DEF HandleStart
  <2> HIDE DEF found, i
  <2>4. m.sequencer \in Targets
    BY <1>2, Zenon DEF Message
  <2>5. Touch(ctl, ctl', i) /\ UpdateStep(ctl, ctl', i, "RUNNING", m.sequencer)
    BY <1>1, <2>2, <2>3, <2>4, TouchUpdate, UpdateEffect, Zenon
  <2>6. Shape(ctl') /\ Later(ctl, ctl')
    BY <2>2, <2>5, TouchLater, Zenon DEF Touch
  <2>7. ASSUME Manual(ctl, seqr, inbox) PROVE Manual(ctl', seqr, inbox')
    <3>1. ctl.contexts[i].manual => m.sequencer = ctl.contexts[i].sequencer
      BY <1>1, <1>2, <2>2, <2>7, Zenon DEF Manual, Linked, LoadFits
    <3>2. /\ ctl'.contexts[i].manual = ctl.contexts[i].manual
          /\ ctl'.contexts[i].used = ctl.contexts[i].used /\ ctl'.contexts[i].state = "RUNNING"
      BY <2>5, Zenon DEF UpdateStep, SameContext, ContextFields
    <3>3. ctl.contexts[i].manual => ctl'.contexts[i].sequencer = ctl.contexts[i].sequencer
      BY <2>5, <3>1, Zenon DEF UpdateStep
    <3>4. Loyal(ctl, ctl')
      BY <2>5, <3>2, <3>3, Zenon DEF Loyal, Touch
    <3>5. ctl.op.active /\ ctl.op.kind = "SET_MANUAL" => ctl.op.slot # i
      BY <1>1, <1>2, <2>2, <2>7, Zenon DEF Manual, NotLoaded
    <3>6. OpFits(ctl') /\ Sent(ctl, ctl') /\ Steady(ctl, ctl')
      BY <2>2, <2>5, <2>7, <3>4, <3>5, TouchFits, Zenon DEF Manual
    <3>7. Owned(ctl')
      <4>1. /\ ctl'.manualMode = ctl.manualMode /\ ctl'.restore = ctl.restore /\ ctl'.op = ctl.op
        BY <2>5, Zenon DEF Touch, SameBut, Fields
      <4>2. \A q \in Sequencers, j \in Slots :
              OwnsManual(ctl.contexts[j], q) => OwnsManual(ctl'.contexts[j], q)
        BY <2>5, <3>2, <3>3, Zenon DEF OwnsManual, Touch, Terminal
      <4> QED
        BY <2>7, <4>1, <4>2, Zenon DEF Manual, Owned, Returning
    <3>8. ctl'.cmds = ctl.cmds
      BY <2>5, Zenon DEF Touch, SameBut, Fields
    <3>9. Handled(ctl, ctl')
      BY <3>4, <3>6, <3>7, Zenon DEF Handled
    <3> QED
      BY <1>1, <1>2, <2>6, <2>7, <3>8, <3>9, HandledKeeps, Zenon
  <2> QED
    BY <2>6, <2>7, Zenon
<1> QED
  BY <1>3, <1>4, Zenon

\* seqDoneIn: a manual context that ends asks for the return of its sequencer.
LEMMA DoneKeeps ==
  ASSUME Typed, HandleDone
  PROVE  /\ Shape(ctl') /\ Later(ctl, ctl')
         /\ Manual(ctl, seqr, inbox) => Manual(ctl', seqr, inbox')
<1> DEFINE m == Head(inbox)
           q == Head(inbox).sequencer
           found == {i \in Slots : /\ ctl.contexts[i].used /\ ctl.contexts[i].sequencer = q
                                   /\ ctl.contexts[i].state \in Occupying \ {"ADMITTED"}}
           i == Min(found)
           st == IF m.ok THEN "SUCCEEDED" ELSE "FAILED"
           ended == Update(ctl, i, st, q)
           freed == [ended EXCEPT !.contexts[i].manual = FALSE]
<1>1. Shape(ctl) /\ inbox \in Seq(Message) /\ inbox # <<>> /\ inbox' = Tail(inbox)
  BY Zenon DEF Typed, HandleDone, OwnThreadMayRun
<1>2. Range(inbox') \subseteq Range(inbox) /\ m \in Message
  BY <1>1, QueueTail, Zenon
<1>3. CASE found = {}
  <2>1. ctl' = ctl
    BY <1>3, Zenon DEF HandleDone
  <2>2. Later(ctl, ctl)
    BY Zenon DEF Later, SameContext
  <2>3. Manual(ctl, seqr, inbox) => Manual(ctl, seqr, inbox')
    BY <1>2, Zenon DEF Manual, Linked, NotLoaded
  <2> QED
    BY <1>1, <2>1, <2>2, <2>3, Zenon
<1>4. CASE found # {}
  <2>1. i \in found
    BY <1>4, MinSlot, Zenon
  <2>2. /\ i \in Slots /\ ctl.contexts[i].used /\ ctl.contexts[i].sequencer = q
        /\ ctl.contexts[i].state # "ADMITTED"
    BY <2>1, Zenon
  <2>3. ctl' = IF ctl.contexts[i].manual THEN RequestRestore(freed, q) ELSE ended
    BY <1>4, Zenon DEF HandleDone
  <2>4. q \in Targets
    BY <1>2, Zenon DEF Message
  <2> HIDE DEF found, i, q, st
  <2>5. Touch(ctl, ended, i) /\ UpdateStep(ctl, ended, i, st, q)
    BY <1>1, <2>2, <2>4, TouchUpdate, UpdateEffect, Zenon
  <2> HIDE DEF ended
  <2>6. /\ ended.contexts[i].manual = ctl.contexts[i].manual
        /\ ended.contexts[i].sequencer = ctl.contexts[i].sequencer
    BY <2>2, <2>5, Zenon DEF UpdateStep, SameContext, ContextFields
  <2>7. CASE ~ctl.contexts[i].manual
    <3>1. ctl' = ended
      BY <2>3, <2>7, Zenon
    <3>2. Shape(ctl') /\ Later(ctl, ctl')
      BY <2>2, <2>5, <3>1, TouchLater, Zenon DEF Touch
    <3>3. ASSUME Manual(ctl, seqr, inbox) PROVE Manual(ctl', seqr, inbox')
      <4>1. Loyal(ctl, ctl')
        BY <2>5, <2>6, <3>1, Zenon DEF Loyal, Touch
      <4>2. ctl.op.active /\ ctl.op.kind = "SET_MANUAL" => ctl.op.slot # i
        BY <2>2, <3>3, Zenon DEF Manual, OpFits
      <4>3. OpFits(ctl') /\ Sent(ctl, ctl') /\ Steady(ctl, ctl')
        BY <2>2, <2>5, <3>1, <3>3, <4>1, <4>2, TouchFits, Zenon DEF Manual
      <4>4. /\ ctl'.manualMode = ctl.manualMode /\ ctl'.restore = ctl.restore /\ ctl'.op = ctl.op
            /\ ctl'.cmds = ctl.cmds
        BY <2>5, <3>1, Zenon DEF Touch, SameBut, Fields
      <4>5. \A p \in Sequencers, j \in Slots :
              OwnsManual(ctl.contexts[j], p) => OwnsManual(ctl'.contexts[j], p)
        BY <2>5, <2>7, <3>1, Zenon DEF OwnsManual, Touch
      <4>6. Owned(ctl')
        BY <3>3, <4>4, <4>5, Zenon DEF Manual, Owned, Returning
      <4>7. Handled(ctl, ctl')
        BY <4>1, <4>3, <4>6, Zenon DEF Handled
      <4> QED
        BY <1>1, <1>2, <3>2, <3>3, <4>4, <4>7, HandledKeeps, Zenon
    <3> QED
      BY <3>2, <3>3, Zenon
  <2>8. CASE ctl.contexts[i].manual
    <3>1. ctl' = RequestRestore(freed, q)
      BY <2>3, <2>8, Zenon
    <3>2. Touch(ended, freed, i) /\ freed.contexts[i].manual = FALSE
      <4>1. Shape(ended)
        BY <2>5, Zenon DEF Touch
      <4> QED
        BY <2>2, <4>1, ClearManual, Zenon
    <3> HIDE DEF freed
    <3>3. Touch(ctl, freed, i)
      BY <2>2, <2>5, <3>2, TouchTwice, Zenon
    <3>4. /\ freed.manualMode = ctl.manualMode /\ freed.restore = ctl.restore /\ freed.op = ctl.op
          /\ freed.cmds = ctl.cmds /\ freed.nextId = ctl.nextId /\ Shape(freed)
      BY <3>3, Zenon DEF Touch, SameBut, Fields
    <3>5. /\ RestoreStep(freed, ctl')
          /\ q \in Sequencers /\ freed.manualMode[q] => Returning(ctl', q)
      BY <3>1, <3>4, RequestRestoreStep, Zenon
    <3>6. /\ ctl'.contexts = freed.contexts /\ ctl'.manualMode = ctl.manualMode
          /\ ctl'.nextId = ctl.nextId
      BY <3>4, <3>5, Zenon DEF RestoreStep, SameBut, Fields
    <3>7. /\ Shape(ctl') /\ (ctl'.op = ctl.op \/ (~ctl.op.active /\ ReturnOp(ctl'.op)))
          /\ \A x \in Range(ctl'.cmds) : x \in Range(ctl.cmds) \/ (x.kind = "SET_AUTO" /\ x.id = 0)
      BY <3>4, <3>5, Zenon DEF RestoreStep
    <3>8. Later(ctl, ctl')
      <4>1. Later(ctl, freed)
        BY <2>2, <3>3, TouchLater, Zenon
      <4> QED
        BY <3>6, <4>1, Zenon DEF Later
    <3>9. ASSUME Manual(ctl, seqr, inbox) PROVE Manual(ctl', seqr, inbox')
      <4>1. Loyal(ctl, freed)
        BY <3>2, <3>3, Zenon DEF Loyal, Touch
      <4>2. ctl.op.active /\ ctl.op.kind = "SET_MANUAL" => ctl.op.slot # i
        BY <2>2, <3>9, Zenon DEF Manual, OpFits
      <4>3. OpFits(freed)
        BY <2>2, <3>3, <3>9, <4>1, <4>2, TouchFits, Zenon DEF Manual
      <4>4. OpFits(ctl')
        <5>1. CASE ctl'.op = ctl.op
          BY <3>4, <3>6, <4>3, <5>1, Zenon DEF OpFits
        <5>2. CASE ReturnOp(ctl'.op)
          BY <5>2, Zenon DEF OpFits, ReturnOp, Kinds
        <5> QED
          BY <3>7, <5>1, <5>2, Zenon
      <4>5. Loyal(ctl, ctl') /\ Sent(ctl, ctl')
        BY <3>6, <3>7, <4>1, Zenon DEF Loyal, Sent
      <4>6. Steady(ctl, ctl')
        BY <3>7, Zenon DEF Steady, ReturnOp
      <4>7. Owned(ctl')
        <5> SUFFICES ASSUME NEW p \in Sequencers, ctl.manualMode[p]
                     PROVE  Returning(ctl', p) \/ \E j \in Slots : OwnsManual(ctl'.contexts[j], p)
          BY <3>6, Zenon DEF Owned
        <5>1. CASE Returning(ctl, p)
          <6>1. Returning(freed, p)
            BY <3>4, <5>1, Zenon DEF Returning
          <6> QED
            BY <3>5, <6>1, Zenon DEF RestoreStep
        <5>2. CASE p = q
          BY <3>4, <3>5, <5>2, Zenon
        <5>3. ASSUME NEW j \in Slots, OwnsManual(ctl.contexts[j], p), p # q
              PROVE  OwnsManual(ctl'.contexts[j], p)
          <6>1. j # i
            BY <2>2, <5>3, Zenon DEF OwnsManual
          <6> QED
            BY <3>3, <3>6, <5>3, <6>1, Zenon DEF Touch
        <5> QED
          BY <3>9, <5>1, <5>2, <5>3, Zenon DEF Manual, Owned
      <4>8. Handled(ctl, ctl')
        BY <4>4, <4>5, <4>6, <4>7, Zenon DEF Handled
      <4> QED
        BY <1>1, <1>2, <3>7, <3>8, <3>9, <4>8, HandledKeeps, Zenon
    <3> QED
      BY <3>7, <3>8, <3>9, Zenon
  <2> QED
    BY <2>7, <2>8, Zenon
<1> QED
  BY <1>3, <1>4, Zenon

-----------------------------------------------------------------------------
(* Requests. *)

\* A request makes its operation the one under way and sends its command.
StartStep(c, d, kind, i, q) ==
  /\ Shape(d) /\ SameBut(c, d, {"op", "cmds", "owed"})
  /\ d.op.active /\ d.op.publish = TRUE /\ d.op.kind = kind /\ d.op.slot = i /\ d.op.target = q
  /\ \E m \in Command : /\ Range(d.cmds) = Range(c.cmds) \cup {m}
                        /\ m.kind = kind /\ m.sequencer = q /\ m.id = c.contexts[i].id

\* Starting an operation sends one command to the sequencer it is about.
LEMMA StartOpEffect ==
  ASSUME NEW c, Shape(c), NEW i \in Slots, NEW kind \in Kinds \ {"SET_AUTO"}, NEW q \in Targets, NEW id,
         kind # "DISPATCH_RUN" => q \in Sequencers
  PROVE  StartStep(c, StartOp(c, kind, i, id, q), kind, i, q)
<1> DEFINE o == [InternalOp EXCEPT !.active = TRUE, !.kind = kind, !.slot = i,
                                   !.request = id, !.target = q]
           b == [c EXCEPT !.op = o, !.owed = @ \cup {id}]
           d == StartOp(c, kind, i, id, q)
<1>1. d = Send(b, kind, i, q)
  BY Zenon DEF StartOp
<1>2. /\ IsOp(o) /\ o.active /\ o.publish = TRUE /\ o.kind = kind /\ o.slot = i /\ o.target = q
  <2>1. /\ DOMAIN o = {"active", "kind", "publish", "slot", "request", "target"}
        /\ o.active /\ o.publish = TRUE /\ o.kind = kind /\ o.slot = i /\ o.target = q
    BY Zenon DEF InternalOp
  <2> HIDE DEF o
  <2> QED
    BY <2>1, Zenon DEF IsOp
<1> HIDE DEF o
<1>3. DOMAIN b = Fields /\ SameBut(c, b, {"op", "owed"}) /\ b.op = o
  BY Zenon DEF Shape, SameBut, Fields
<1> HIDE DEF b, d
<1>4. Shape(b)
  BY <1>2, <1>3, Zenon DEF Shape, SameBut, Fields
<1>5. SendStep(b, d, kind, i, q)
  BY <1>1, <1>4, SendEffect, Zenon
<1>6. /\ Shape(d) /\ SameBut(c, d, {"op", "cmds", "owed"}) /\ d.op = o
      /\ b.cmds = c.cmds /\ b.contexts = c.contexts
  BY <1>3, <1>5, Zenon DEF SendStep, SameBut, Fields
<1>7. \E m \in Command : /\ Range(d.cmds) = Range(c.cmds) \cup {m}
                         /\ m.kind = kind /\ m.sequencer = q /\ m.id = c.contexts[i].id
  <2>1. PICK m \in Command : /\ Range(d.cmds) = Range(c.cmds) \cup {m}
                             /\ m.kind = kind /\ m.sequencer = q
                             /\ m.id = IF kind = "SET_AUTO" THEN 0 ELSE c.contexts[i].id
    BY <1>5, <1>6, Zenon DEF SendStep
  <2>2. m.id = c.contexts[i].id
    BY <2>1, Zenon
  <2> QED
    BY <2>1, <2>2, Zenon
<1>8. StartStep(c, d, kind, i, q)
  BY <1>2, <1>6, <1>7, Zenon DEF StartStep
<1> QED
  BY <1>8, Zenon DEF d

\* Nothing carries the id of context i yet.
Fresh(c, sq, box, i) ==
  /\ \A m \in Range(c.cmds) : m.id # c.contexts[i].id
  /\ \A q \in Sequencers : sq[q].file # c.contexts[i].id
  /\ \A m \in Range(box) : m.type = "START" => m.id # c.contexts[i].id

\* Starting an operation on a context keeps the invariant.
LEMMA StartOpKeeps ==
  ASSUME NEW c, NEW d, NEW sq, NEW box, NEW kind \in Kinds \ {"SET_AUTO"}, NEW i \in Slots, NEW q,
         Shape(c), StartStep(c, d, kind, i, q), ~c.op.active,
         Owned(c), IdsUnique(c), Linked(c, sq, box),
         c.contexts[i].used, c.contexts[i].manual => c.contexts[i].sequencer = q,
         kind = "DISPATCH_RUN" => ~c.contexts[i].manual,
         kind = "SET_MANUAL" => /\ c.contexts[i].manual /\ c.contexts[i].state = "ADMITTED"
                                /\ ~c.manualMode[q] /\ Fresh(c, sq, box, i)
  PROVE  Manual(d, sq, box)
<1>1. /\ d.contexts = c.contexts /\ d.manualMode = c.manualMode /\ d.restore = c.restore
      /\ d.nextId = c.nextId
  BY Zenon DEF StartStep, SameBut, Fields
<1>2. Owned(d)
  BY <1>1, Zenon DEF Owned, Returning
<1>3. IdsUnique(d)
  BY <1>1, Zenon DEF IdsUnique
<1>4. /\ d.op.active /\ d.op.publish = TRUE /\ d.op.kind = kind /\ d.op.slot = i /\ d.op.target = q
  BY Zenon DEF StartStep
<1>5. OpFits(d)
  BY <1>1, <1>4, Zenon DEF OpFits
<1>6. PICK m \in Command : /\ Range(d.cmds) = Range(c.cmds) \cup {m}
                           /\ m.kind = kind /\ m.sequencer = q /\ m.id = c.contexts[i].id
  BY Zenon DEF StartStep
<1>7. CommandFits(c, m)
  <2>1. m.id < c.nextId
    BY <1>6, ZeroFits, Zenon
  <2>2. ASSUME NEW j \in Slots, c.contexts[j].used, m.id = c.contexts[j].id
        PROVE  j = i
    BY <1>6, <2>2, Zenon DEF IdsUnique
  <2> QED
    BY <1>6, <2>1, <2>2, Zenon DEF CommandFits
<1>8. Linked(d, sq, box)
  <2>1. \A x : CommandFits(c, x) => CommandFits(d, x)
    BY <1>1, Zenon DEF CommandFits
  <2>2. \A p, id : LoadFits(c, p, id) => LoadFits(d, p, id)
    BY <1>1, Zenon DEF LoadFits
  <2> QED
    BY <1>6, <1>7, <2>1, <2>2, Zenon DEF Linked
<1>9. NotLoaded(d, sq, box)
  BY <1>1, <1>4, <1>6, Zenon DEF NotLoaded, Fresh
<1> QED
  BY <1>2, <1>3, <1>5, <1>8, <1>9, Zenon DEF Manual

\* SEQ_START, SEQ_STEP and SEQ_CANCEL.
LEMMA ControlKeeps ==
  ASSUME Typed, NEW kind \in {"START", "STEP", "CANCEL"}, NEW owner, NEW id, NEW i \in Slots,
         ControlContext(kind, owner, id, i)
  PROVE  /\ Shape(ctl') /\ Later(ctl, ctl')
         /\ Manual(ctl, seqr, inbox) => Manual(ctl', seqr, inbox)
<1> DEFINE q == ctl.contexts[i].sequencer
<1>1. /\ Shape(ctl) /\ ~ctl.op.active /\ ctl.contexts[i].used
      /\ q # NO_SEQUENCER /\ ctl' = StartOp(ctl, kind, i, id, q)
  BY Zenon DEF Typed, ControlContext
<1>2. q \in Targets /\ q \in Sequencers
  BY <1>1, Zenon DEF Shape, IsContext, Targets
<1>3. /\ kind \in Kinds \ {"SET_AUTO"} /\ kind # "DISPATCH_RUN" /\ kind # "SET_MANUAL"
  BY Zenon DEF Kinds
<1>4. StartStep(ctl, ctl', kind, i, q)
  BY <1>1, <1>2, <1>3, StartOpEffect, Zenon
<1>5. Shape(ctl') /\ ctl'.contexts = ctl.contexts /\ ctl'.nextId = ctl.nextId
  BY <1>4, Zenon DEF StartStep, SameBut, Fields
<1>6. Later(ctl, ctl')
  BY <1>5, Zenon DEF Later, SameContext
<1>7. ASSUME Manual(ctl, seqr, inbox) PROVE Manual(ctl', seqr, inbox)
  <2>1. Owned(ctl) /\ IdsUnique(ctl) /\ Linked(ctl, seqr, inbox)
    BY <1>7, Zenon DEF Manual
  <2>2. ctl.contexts[i].manual => ctl.contexts[i].sequencer = q
    BY Zenon
  <2> HIDE DEF q
  <2> QED
    BY <1>1, <1>3, <1>4, <2>1, <2>2, StartOpKeeps, Zenon
<1> QED
  BY <1>5, <1>6, <1>7, Zenon

\* chooseAvailableSequencer chooses one that is not in manual mode.
LEMMA ChosenIsFree ==
  ASSUME NEW c
  PROVE  LET q == ChooseSequencer(c)
         IN  q \in Targets /\ (q # NO_SEQUENCER => q \in Sequencers /\ ~c.manualMode[q])
<1> DEFINE free == {q \in Sequencers :
                      /\ ~c.manualMode[q] /\ ~c.restore[q]
                      /\ \A i \in Slots : ~(/\ c.contexts[i].used
                                            /\ c.contexts[i].sequencer = q
                                            /\ c.contexts[i].state \in Occupying)}
<1>1. ChooseSequencer(c) = IF free = {} THEN NO_SEQUENCER ELSE Min(free)
  BY Zenon DEF ChooseSequencer
<1>2. free # {} => Min(free) \in free
  <2>1. free \subseteq Nat
    BY SMT DEF Sequencers
  <2> HIDE DEF free
  <2> QED
    BY <2>1, MinIsMember, Zenon
<1> QED
  BY <1>1, <1>2, Zenon DEF Targets

\* The slot of a new context is not that of one that owns a manual sequencer.
LEMMA SlotIsFree ==
  ASSUME NEW c, FreeSlots(c) # {}
  PROVE  LET i == Min(FreeSlots(c))
         IN  i \in Slots /\ \A q : ~OwnsManual(c.contexts[i], q)
<1>1. FreeSlots(c) \subseteq Slots
  BY Zenon DEF FreeSlots
<1>2. Min(FreeSlots(c)) \in FreeSlots(c)
  BY <1>1, MinSlot, Zenon
<1>3. \A i \in FreeSlots(c) : ~c.contexts[i].used \/ c.contexts[i].state \in Terminal
  BY Zenon DEF FreeSlots
<1> QED
  BY <1>1, <1>2, <1>3, Zenon DEF OwnsManual

\* u is c with another context in slot i, which has the next id if it is used.
Replaced(c, u, i) ==
  /\ Shape(u) /\ SameBut(c, u, {"contexts", "nextId"})
  /\ u.nextId = c.nextId + 1
  /\ \A j \in Slots : j # i => u.contexts[j] = c.contexts[j]
  /\ u.contexts[i].used => u.contexts[i].id = c.nextId

\* Replacing a context that owns nothing keeps the invariant.
LEMMA ReplacedKeeps ==
  ASSUME NEW c, NEW u, NEW sq, NEW box, NEW i \in Slots, Shape(c), Replaced(c, u, i),
         Manual(c, sq, box), ~c.op.active, \A q : ~OwnsManual(c.contexts[i], q),
         sq \in [Sequencers -> [mode : {"AUTO", "MANUAL"}, file : Nat, running : BOOLEAN]],
         Range(box) \subseteq Message
  PROVE  /\ ~u.op.active /\ Owned(u) /\ IdsUnique(u) /\ Linked(u, sq, box) /\ Manual(u, sq, box)
         /\ u.contexts[i].used => Fresh(u, sq, box, i)
<1>1. u.op = c.op /\ u.manualMode = c.manualMode /\ u.restore = c.restore /\ u.cmds = c.cmds
  BY Zenon DEF Replaced, SameBut, Fields
<1>2. Owned(c) /\ IdsUnique(c) /\ Linked(c, sq, box)
  BY Zenon DEF Manual
<1>3. Owned(u)
  <2>1. \A j \in Slots, q \in Sequencers : OwnsManual(c.contexts[j], q) => OwnsManual(u.contexts[j], q)
    BY Zenon DEF Replaced
  <2> QED
    BY <1>1, <1>2, <2>1, Zenon DEF Owned, Returning
<1>4. c.nextId \in Nat /\ c.nextId # 0 /\ u.nextId = c.nextId + 1
  BY Zenon DEF Shape, Replaced
<1>5. \A j \in Slots : c.contexts[j].used => c.contexts[j].id \in 1 .. c.nextId - 1
  BY <1>2, Zenon DEF IdsUnique
<1>6. IdsUnique(u)
  <2>1. \A n \in 1 .. c.nextId - 1 : n \in 1 .. u.nextId - 1 /\ n # c.nextId
    BY <1>4, SMT
  <2>2. c.nextId \in 1 .. u.nextId - 1
    BY <1>4, SMT
  <2>3. \A j \in Slots : u.contexts[j].used => u.contexts[j].id \in 1 .. u.nextId - 1
    BY <1>5, <2>1, <2>2, Zenon DEF Replaced
  <2>4. ASSUME NEW j \in Slots, NEW k \in Slots, u.contexts[j].used, u.contexts[k].used,
               u.contexts[j].id = u.contexts[k].id
        PROVE  j = k
    <3>1. CASE j # i /\ k # i
      BY <1>2, <2>4, <3>1, Zenon DEF Replaced, IdsUnique
    <3>2. CASE j = i /\ k # i
      BY <1>5, <2>1, <2>4, <3>2, Zenon DEF Replaced
    <3>3. CASE j # i /\ k = i
      BY <1>5, <2>1, <2>4, <3>3, Zenon DEF Replaced
    <3> QED
      BY <3>1, <3>2, <3>3, Zenon
  <2> QED
    BY <2>3, <2>4, Zenon DEF IdsUnique
<1>7. \A n \in Nat : n < c.nextId => n < u.nextId /\ n # c.nextId
  BY <1>4, SMT
<1>8. \A m \in Range(c.cmds) : m.id \in Nat
  <2>1. Range(c.cmds) \subseteq Command
    BY SMT DEF Range, Shape
  <2> QED
    BY <2>1, Zenon DEF Command
<1>9. \A m \in Range(box) : m.id \in Nat
  BY Zenon DEF Message
<1>10. \A q \in Sequencers : sq[q].file \in Nat
  BY Zenon
<1>11. \A m \in Range(c.cmds) : CommandFits(u, m) /\ m.id # c.nextId
  <2> SUFFICES ASSUME NEW m \in Range(c.cmds) PROVE CommandFits(u, m) /\ m.id # c.nextId
    BY Zenon
  <2>1. CommandFits(c, m)
    BY <1>2, Zenon DEF Linked
  <2>2. m.id < u.nextId /\ m.id # c.nextId
    BY <1>7, <1>8, <2>1, Zenon DEF CommandFits
  <2> QED
    BY <2>1, <2>2, Zenon DEF CommandFits, Replaced
<1>12. ASSUME NEW q, NEW id \in Nat, LoadFits(c, q, id)
       PROVE  LoadFits(u, q, id) /\ id # c.nextId
  <2>1. id < u.nextId /\ id # c.nextId
    BY <1>7, <1>12, Zenon DEF LoadFits
  <2> QED
    BY <1>12, <2>1, Zenon DEF LoadFits, Replaced
<1>13. \A q \in Sequencers : LoadFits(u, q, sq[q].file) /\ sq[q].file # c.nextId
  BY <1>2, <1>10, <1>12, Zenon DEF Linked
<1>14. \A m \in Range(box) : m.type = "START" => LoadFits(u, m.sequencer, m.id) /\ m.id # c.nextId
  BY <1>2, <1>9, <1>12, Zenon DEF Linked
<1>15. Linked(u, sq, box)
  BY <1>1, <1>11, <1>13, <1>14, Zenon DEF Linked
<1>16. u.contexts[i].used => Fresh(u, sq, box, i)
  BY <1>1, <1>11, <1>13, <1>14, Zenon DEF Fresh, Replaced
<1>17. OpFits(u) /\ NotLoaded(u, sq, box) /\ ~u.op.active
  BY <1>1, Zenon DEF OpFits, NotLoaded
<1> QED
  BY <1>3, <1>6, <1>15, <1>16, <1>17, Zenon DEF Manual

\* u is the component after the request took slot i for sequencer q in state st.
Admitted(u, i, st, q) ==
  /\ Replaced(ctl, u, i) /\ u.contexts[i].used /\ u.contexts[i].owner = caller.owner
  /\ u.contexts[i].file = staged
  /\ u.contexts[i].manual <=> caller.op = "PREPARE_MANUAL"
  /\ u.contexts[i].state = st /\ u.contexts[i].sequencer = q
  /\ u.manualMode = ctl.manualMode

\* The rest of inspectAndAdmit, handleRun and handlePrepareManual.
LEMMA AdmitKeeps ==
  ASSUME Typed, AdmitRequest
  PROVE  /\ Shape(ctl')
         /\ AdmittedIsAuthorised /\ CallerChecked => AdmittedIsAuthorised'
         /\ Manual(ctl, seqr, inbox) /\ Undisturbed => Manual(ctl', seqr, inbox)
<1> DEFINE i == Min(FreeSlots(ctl))
           fresh == [ContextEntry EXCEPT !.used = TRUE, !.id = ctl.nextId, !.state = "ADMITTED",
                       !.owner = caller.owner, !.block = caller.block, !.file = staged,
                       !.manual = caller.op = "PREPARE_MANUAL"]
           taken == [ctl EXCEPT !.nextId = @ + 1, !.contexts[i] = fresh]
<1>1. Shape(ctl) /\ caller # Idle
  BY Zenon DEF Typed, AdmitRequest
<1>2. CASE UNCHANGED ctl
  BY <1>1, <1>2, Zenon DEF AdmittedIsAuthorised
<1>3. CASE FreeSlots(ctl) # {} /\ ctl' # ctl
  <2>1. i \in Slots /\ \A q : ~OwnsManual(ctl.contexts[i], q)
    BY <1>3, SlotIsFree, Zenon
  <2>2. \/ /\ SameCopy(caller.file, staged)
           /\ \/ /\ caller.op = "RUN"
                 /\ ctl' = StartOp(Update(taken, i, "AUTO_DISPATCHED", ChooseSequencer(taken)),
                                   "DISPATCH_RUN", i, caller.id, ChooseSequencer(taken))
              \/ /\ caller.op = "PREPARE_MANUAL"
                 /\ ctl' = StartOp(Update(taken, i, "ADMITTED", caller.sequencer),
                                   "SET_MANUAL", i, caller.id, caller.sequencer)
        \/ ctl' = [taken EXCEPT !.contexts[i] = ContextEntry]
    BY <1>3, Zenon DEF AdmitRequest
  <2>3. /\ fresh.used = TRUE /\ fresh.id = ctl.nextId /\ fresh.owner = caller.owner
        /\ fresh.file = staged /\ fresh.manual = (caller.op = "PREPARE_MANUAL")
        /\ DOMAIN fresh = ContextFields /\ fresh.sequencer = NO_SEQUENCER
    BY Zenon DEF ContextEntry, ContextFields
  <2> HIDE DEF i, fresh
  <2>4. IsContext(fresh)
    BY <1>1, <2>3, Zenon DEF IsContext, Targets, Shape
  <2>5. /\ DOMAIN taken = Fields /\ DOMAIN taken.contexts = Slots /\ taken.nextId = ctl.nextId + 1
        /\ SameBut(ctl, taken, {"contexts", "nextId"}) /\ taken.contexts[i] = fresh
        /\ \A j \in Slots : j # i => taken.contexts[j] = ctl.contexts[j]
    BY <1>1, <2>1, Zenon DEF Shape, SameBut, Fields
  <2>6. /\ [taken EXCEPT !.contexts[i] = ContextEntry].contexts[i] = ContextEntry
        /\ DOMAIN [taken EXCEPT !.contexts[i] = ContextEntry] = Fields
        /\ DOMAIN [taken EXCEPT !.contexts[i] = ContextEntry].contexts = Slots
        /\ SameBut(taken, [taken EXCEPT !.contexts[i] = ContextEntry], {"contexts"})
        /\ \A j \in Slots : j # i =>
             [taken EXCEPT !.contexts[i] = ContextEntry].contexts[j] = taken.contexts[j]
    <3> HIDE DEF taken
    <3> QED
      BY <2>1, <2>5, Zenon DEF SameBut, Fields
  <2> HIDE DEF taken
  <2>7. ctl.nextId \in Nat \ {0} /\ ctl.nextId + 1 \in Nat \ {0}
    <3>1. ctl.nextId \in Nat \ {0}
      BY <1>1, Zenon DEF Shape
    <3> QED
      BY <3>1, SMT
  <2>8. Shape(taken)
    BY <1>1, <2>4, <2>5, <2>7, Zenon DEF Shape, SameBut, Fields
  <2>9. Replaced(ctl, taken, i)
    BY <2>3, <2>5, <2>8, Zenon DEF Replaced
  <2>10. ASSUME NEW st, NEW q \in Targets, NEW u, u = Update(taken, i, st, q)
         PROVE  Admitted(u, i, st, q)
    <3>1. UpdateStep(taken, u, i, st, q)
      BY <2>1, <2>8, <2>10, UpdateEffect, Zenon
    <3>2. /\ u.contexts[i].used = TRUE /\ u.contexts[i].owner = caller.owner
          /\ u.contexts[i].file = staged /\ u.contexts[i].id = ctl.nextId
          /\ u.contexts[i].manual = (caller.op = "PREPARE_MANUAL")
      BY <2>3, <2>5, <3>1, Zenon DEF UpdateStep, SameContext, ContextFields
    <3>3. u.contexts[i].state = st /\ u.contexts[i].sequencer = q
      BY <2>3, <2>5, <3>1, Zenon DEF UpdateStep
    <3>4. /\ SameBut(ctl, u, {"contexts", "nextId"}) /\ u.nextId = ctl.nextId + 1
          /\ u.manualMode = ctl.manualMode
      BY <2>5, <3>1, Zenon DEF UpdateStep, SameBut, Fields
    <3>5. Shape(u) /\ \A j \in Slots : j # i => u.contexts[j] = ctl.contexts[j]
      BY <2>5, <3>1, Zenon DEF UpdateStep
    <3>6. Replaced(ctl, u, i)
      BY <3>2, <3>4, <3>5, Zenon DEF Replaced
    <3> QED
      BY <3>2, <3>3, <3>4, <3>6, Zenon DEF Admitted
  <2>11. ASSUME NEW u, Replaced(ctl, u, i), Manual(ctl, seqr, inbox), Undisturbed
         PROVE  /\ ~u.op.active /\ Owned(u) /\ IdsUnique(u) /\ Linked(u, seqr, inbox)
                /\ Manual(u, seqr, inbox)
                /\ u.contexts[i].used => Fresh(u, seqr, inbox, i)
    <3>1. ~ctl.op.active
      BY <1>1, <2>11, Zenon DEF Undisturbed
    <3>2. /\ seqr \in [Sequencers -> [mode : {"AUTO", "MANUAL"}, file : Nat, running : BOOLEAN]]
          /\ Range(inbox) \subseteq Message
      BY SMT DEF Typed, Range
    <3> QED
      BY <1>1, <2>1, <2>11, <3>1, <3>2, ReplacedKeeps, Zenon
  <2>12. ASSUME NEW u, NEW d, NEW kind, NEW q, Replaced(ctl, u, i), StartStep(u, d, kind, i, q),
                u.contexts[i].owner = caller.owner, u.contexts[i].file = staged,
                SameCopy(caller.file, staged), AdmittedIsAuthorised, CallerChecked
         PROVE  \A j \in Slots : d.contexts[j].used =>
                  Inspect(d.contexts[j].file) /\ Authorised(d.contexts[j].owner, d.contexts[j].file)
    <3>1. d.contexts = u.contexts
      BY <2>12, Zenon DEF StartStep, SameBut, Fields
    <3>2. Inspect(staged) /\ Authorised(caller.owner, staged)
      BY <1>1, <2>12, Zenon DEF CallerChecked, SameCopy
    <3>3. \A j \in Slots : j # i => u.contexts[j] = ctl.contexts[j]
      BY <2>12, Zenon DEF Replaced
    <3> QED
      BY <2>12, <3>1, <3>2, <3>3, Zenon DEF AdmittedIsAuthorised
  <2>13. CASE /\ SameCopy(caller.file, staged) /\ caller.op = "RUN"
              /\ ctl' = StartOp(Update(taken, i, "AUTO_DISPATCHED", ChooseSequencer(taken)),
                                "DISPATCH_RUN", i, caller.id, ChooseSequencer(taken))
    <3> DEFINE q == ChooseSequencer(taken)
               u == Update(taken, i, "AUTO_DISPATCHED", q)
    <3>1. q \in Targets
      BY ChosenIsFree, Zenon
    <3>2. ctl' = StartOp(u, "DISPATCH_RUN", i, caller.id, q)
      BY <2>13, Zenon
    <3> HIDE DEF q
    <3>a. u = Update(taken, i, "AUTO_DISPATCHED", q)
      OBVIOUS
    <3> HIDE DEF u
    <3>3. /\ Replaced(ctl, u, i) /\ u.contexts[i].used /\ u.contexts[i].owner = caller.owner
          /\ u.contexts[i].file = staged /\ ~u.contexts[i].manual
      <4>1. caller.op # "PREPARE_MANUAL"
        BY <2>13, Zenon
      <4>2. Admitted(u, i, "AUTO_DISPATCHED", q)
        BY <2>10, <3>1, <3>a, Zenon
      <4> QED
        BY <4>1, <4>2, Zenon DEF Admitted
    <3>4. "DISPATCH_RUN" \in Kinds \ {"SET_AUTO"} /\ Shape(u)
      BY <3>3, Zenon DEF Kinds, Replaced
    <3>5. StartStep(u, ctl', "DISPATCH_RUN", i, q)
      BY <2>1, <3>1, <3>2, <3>4, StartOpEffect, Zenon
    <3>6. Shape(ctl') /\ (AdmittedIsAuthorised /\ CallerChecked => AdmittedIsAuthorised')
      BY <2>12, <2>13, <3>3, <3>5, Zenon DEF StartStep, AdmittedIsAuthorised
    <3>7. ASSUME Manual(ctl, seqr, inbox), Undisturbed PROVE Manual(ctl', seqr, inbox)
      <4>1. ~u.op.active /\ Owned(u) /\ IdsUnique(u) /\ Linked(u, seqr, inbox)
        BY <2>11, <3>3, <3>7, Zenon
      <4> QED
        BY <2>1, <3>3, <3>4, <3>5, <4>1, StartOpKeeps, Zenon
    <3> QED
      BY <3>6, <3>7, Zenon
  <2>14. CASE /\ SameCopy(caller.file, staged) /\ caller.op = "PREPARE_MANUAL"
              /\ ctl' = StartOp(Update(taken, i, "ADMITTED", caller.sequencer),
                                "SET_MANUAL", i, caller.id, caller.sequencer)
    <3> DEFINE q == caller.sequencer
               u == Update(taken, i, "ADMITTED", q)
    <3>1. q \in Targets /\ q \in Sequencers
      BY <1>1, <2>14, Zenon DEF Typed
    <3>2. ctl' = StartOp(u, "SET_MANUAL", i, caller.id, q)
      BY <2>14, Zenon
    <3>a. u = Update(taken, i, "ADMITTED", q) /\ q = caller.sequencer
      OBVIOUS
    <3> HIDE DEF u, q
    <3>3. /\ Replaced(ctl, u, i) /\ u.contexts[i].used /\ u.contexts[i].owner = caller.owner
          /\ u.contexts[i].file = staged /\ u.contexts[i].manual /\ u.contexts[i].sequencer = q
          /\ u.contexts[i].state = "ADMITTED" /\ u.manualMode = ctl.manualMode
      <4>1. Admitted(u, i, "ADMITTED", q)
        BY <2>10, <3>1, <3>a, Zenon
      <4> QED
        BY <2>14, <4>1, Zenon DEF Admitted
    <3>4. "SET_MANUAL" \in Kinds \ {"SET_AUTO"} /\ Shape(u)
      BY <3>3, Zenon DEF Kinds, Replaced
    <3>5. StartStep(u, ctl', "SET_MANUAL", i, q)
      BY <2>1, <3>1, <3>2, <3>4, StartOpEffect, Zenon
    <3>6. Shape(ctl') /\ (AdmittedIsAuthorised /\ CallerChecked => AdmittedIsAuthorised')
      BY <2>12, <2>14, <3>3, <3>5, Zenon DEF StartStep, AdmittedIsAuthorised
    <3>7. ASSUME Manual(ctl, seqr, inbox), Undisturbed PROVE Manual(ctl', seqr, inbox)
      <4>1. /\ ~u.op.active /\ Owned(u) /\ IdsUnique(u) /\ Linked(u, seqr, inbox)
            /\ Fresh(u, seqr, inbox, i)
        BY <2>11, <3>3, <3>7, Zenon
      <4>2. ~u.manualMode[q]
        BY <1>1, <2>14, <3>3, <3>7, <3>a, Zenon DEF Undisturbed
      <4> QED
        BY <2>1, <3>3, <3>4, <3>5, <4>1, <4>2, StartOpKeeps, Zenon
    <3> QED
      BY <3>6, <3>7, Zenon
  <2>15. CASE ctl' = [taken EXCEPT !.contexts[i] = ContextEntry]
    <3>1. /\ ctl'.contexts[i] = ContextEntry /\ DOMAIN ctl' = Fields /\ DOMAIN ctl'.contexts = Slots
          /\ SameBut(taken, ctl', {"contexts"})
          /\ \A j \in Slots : j # i => ctl'.contexts[j] = taken.contexts[j]
      BY <2>6, <2>15, Zenon
    <3>2. IsContext(ContextEntry) /\ ~ContextEntry.used
      BY SMT DEF IsContext, ContextEntry, ContextFields, Targets
    <3>3. Shape(ctl')
      BY <2>8, <3>1, <3>2, Zenon DEF Shape, SameBut, Fields
    <3>4. \A j \in Slots : j # i => ctl'.contexts[j] = ctl.contexts[j]
      BY <2>5, <3>1, Zenon
    <3>5. SameBut(ctl, ctl', {"contexts", "nextId"}) /\ ctl'.nextId = ctl.nextId + 1
      BY <2>5, <3>1, Zenon DEF SameBut, Fields
    <3>6. Replaced(ctl, ctl', i)
      BY <3>1, <3>2, <3>3, <3>4, <3>5, Zenon DEF Replaced
    <3>7. AdmittedIsAuthorised => AdmittedIsAuthorised'
      BY <3>1, <3>2, <3>4, Zenon DEF AdmittedIsAuthorised
    <3> QED
      BY <2>11, <3>3, <3>6, <3>7, Zenon
  <2> QED
    BY <2>2, <2>13, <2>14, <2>15, Zenon
<1> QED
  BY <1>1, <1>2, <1>3, Zenon DEF AdmitRequest

-----------------------------------------------------------------------------
(* The dispatcher and the sequencers. *)

Sequencer == [mode : {"AUTO", "MANUAL"}, file : Nat, running : BOOLEAN]

\* Sequencer q may have file id: none, the one it has, or one of a command.
Carried(q, id) ==
  \/ id = 0 \/ id = seqr[q].file
  \/ \E m \in Range(ctl.cmds) :
       m.id = id /\ (m.kind = "DISPATCH_RUN" \/ (m.kind = "LOAD_MANUAL" /\ m.sequencer = q))

\* A step outside the component: it may take a command, load a file and report.
EnvStep ==
  /\ Shape(ctl') /\ SameBut(ctl, ctl', {"cmds"}) /\ Range(ctl'.cmds) \subseteq Range(ctl.cmds)
  /\ caller' = caller
  /\ seqr' \in [Sequencers -> Sequencer] /\ inbox' \in Seq(Message) /\ replies' \in Seq(BOOLEAN)
  /\ \A q \in Sequencers : Carried(q, seqr'[q].file)
  /\ \A m \in Range(inbox') : m.type = "START" =>
       m \in Range(inbox) \/ (m.sequencer \in Sequencers /\ Carried(m.sequencer, m.id))

\* A file that may be loaded belongs to no other sequencer's manual context, nor
\* to one whose sequencer is still to become manual.
Loadable(c, q, id) ==
  /\ LoadFits(c, q, id)
  /\ c.op.active /\ c.op.kind = "SET_MANUAL" => id # c.contexts[c.op.slot].id

\* What is carried is loadable.
LEMMA CarriedLoadable ==
  ASSUME Shape(ctl), Manual(ctl, seqr, inbox), NEW q \in Sequencers, NEW id, Carried(q, id)
  PROVE  Loadable(ctl, q, id)
<1>1. /\ IdsUnique(ctl) /\ OpFits(ctl) /\ Linked(ctl, seqr, inbox) /\ NotLoaded(ctl, seqr, inbox)
  BY Zenon DEF Manual
<1>2. ctl.op.slot \in Slots
  BY Zenon DEF Shape, IsOp
<1>3. ctl.op.active /\ ctl.op.kind = "SET_MANUAL" => ctl.contexts[ctl.op.slot].id # 0
  <2>1. ctl.op.active /\ ctl.op.kind = "SET_MANUAL" => ctl.contexts[ctl.op.slot].used
    BY <1>1, Zenon DEF OpFits
  <2> QED
    BY <1>1, <1>2, <2>1, ZeroFits, Zenon
<1>4. CASE id = 0
  BY <1>1, <1>3, <1>4, ZeroFits, Zenon DEF Loadable
<1>5. CASE id = seqr[q].file
  BY <1>1, <1>5, Zenon DEF Loadable, Linked, NotLoaded
<1>6. ASSUME NEW m \in Range(ctl.cmds), m.id = id,
             m.kind = "DISPATCH_RUN" \/ (m.kind = "LOAD_MANUAL" /\ m.sequencer = q)
      PROVE  Loadable(ctl, q, id)
  <2>1. CommandFits(ctl, m)
    BY <1>1, <1>6, Zenon DEF Linked
  <2>2. LoadFits(ctl, q, id)
    BY <1>6, <2>1, Zenon DEF CommandFits, LoadFits
  <2>3. m.kind # "SET_MANUAL"
    BY <1>6, Zenon
  <2> QED
    BY <1>1, <1>6, <2>2, <2>3, Zenon DEF Loadable, NotLoaded
<1> QED
  BY <1>4, <1>5, <1>6, Zenon DEF Carried

\* A step outside the component keeps the invariant.
LEMMA EnvKeeps ==
  ASSUME Shape(ctl), Manual(ctl, seqr, inbox), EnvStep
  PROVE  Manual(ctl', seqr', inbox')
<1>1. /\ Owned(ctl) /\ IdsUnique(ctl) /\ OpFits(ctl)
      /\ Linked(ctl, seqr, inbox) /\ NotLoaded(ctl, seqr, inbox)
  BY Zenon DEF Manual
<1>2. /\ ctl'.contexts = ctl.contexts /\ ctl'.op = ctl.op /\ ctl'.nextId = ctl.nextId
      /\ ctl'.manualMode = ctl.manualMode /\ ctl'.restore = ctl.restore
      /\ Range(ctl'.cmds) \subseteq Range(ctl.cmds)
  BY Zenon DEF EnvStep, SameBut, Fields
<1>3. \A q \in Sequencers : Loadable(ctl, q, seqr'[q].file)
  BY CarriedLoadable, Zenon DEF EnvStep
<1>4. ASSUME NEW m \in Range(inbox'), m.type = "START"
      PROVE  Loadable(ctl, m.sequencer, m.id)
  <2>1. CASE m \in Range(inbox)
    BY <1>1, <1>4, <2>1, Zenon DEF Loadable, Linked, NotLoaded
  <2>2. CASE m.sequencer \in Sequencers /\ Carried(m.sequencer, m.id)
    BY <2>2, CarriedLoadable, Zenon
  <2> QED
    BY <1>4, <2>1, <2>2, Zenon DEF EnvStep
<1>5. Owned(ctl') /\ IdsUnique(ctl') /\ OpFits(ctl')
  BY <1>1, <1>2, Zenon DEF Owned, Returning, IdsUnique, OpFits
<1>6. \A m : CommandFits(ctl, m) => CommandFits(ctl', m)
  BY <1>2, Zenon DEF CommandFits
<1>7. \A q, id : LoadFits(ctl, q, id) => LoadFits(ctl', q, id)
  BY <1>2, Zenon DEF LoadFits
<1>8. Linked(ctl', seqr', inbox')
  BY <1>1, <1>2, <1>3, <1>4, <1>6, <1>7, Zenon DEF Linked, Loadable
<1>9. NotLoaded(ctl', seqr', inbox')
  BY <1>1, <1>2, <1>3, <1>4, Zenon DEF NotLoaded, Loadable
<1> QED
  BY <1>5, <1>8, <1>9, Zenon DEF Manual

\* The dispatcher takes the first command.
LEMMA TakeCommand ==
  ASSUME Shape(ctl), ctl.cmds # <<>>, ctl' = [ctl EXCEPT !.cmds = Tail(@)]
  PROVE  /\ Shape(ctl') /\ SameBut(ctl, ctl', {"cmds"}) /\ Range(ctl'.cmds) \subseteq Range(ctl.cmds)
         /\ Head(ctl.cmds) \in Range(ctl.cmds) /\ Head(ctl.cmds) \in Command /\ Addressed(Head(ctl.cmds))
<1>1. /\ DOMAIN ctl' = Fields /\ SameBut(ctl, ctl', {"cmds"}) /\ ctl'.cmds = Tail(ctl.cmds)
  BY Zenon DEF Shape, SameBut, Fields
<1>2. ctl.cmds \in Seq(Command)
  BY Zenon DEF Shape
<1>3. /\ Head(ctl.cmds) \in Range(ctl.cmds) /\ Head(ctl.cmds) \in Command
      /\ Tail(ctl.cmds) \in Seq(Command) /\ Range(Tail(ctl.cmds)) \subseteq Range(ctl.cmds)
  BY <1>2, QueueTail, Zenon
<1>4. Shape(ctl') /\ Addressed(Head(ctl.cmds))
  BY <1>1, <1>3, Zenon DEF Shape, SameBut, Fields
<1> QED
  BY <1>1, <1>3, <1>4, Zenon

\* One more message in the queue of the component.
LEMMA Reported ==
  ASSUME inbox \in Seq(Message), NEW m \in Message, inbox' = Append(inbox, m),
         m.type = "START" => m.sequencer \in Sequencers /\ Carried(m.sequencer, m.id)
  PROVE  /\ inbox' \in Seq(Message)
         /\ \A n \in Range(inbox') : n.type = "START" =>
              n \in Range(inbox) \/ (n.sequencer \in Sequencers /\ Carried(n.sequencer, n.id))
<1>1. inbox' \in Seq(Message) /\ Range(inbox') = Range(inbox) \cup {m}
  BY QueueElements, Zenon
<1> QED
  BY <1>1, Zenon

\* A sequencer's mode, file or running flag changes.
LEMMA SequencerStep ==
  ASSUME seqr \in [Sequencers -> Sequencer], NEW q \in Sequencers, NEW r \in Sequencer,
         seqr' = [seqr EXCEPT ![q] = r], Carried(q, r.file)
  PROVE  /\ seqr' \in [Sequencers -> Sequencer]
         /\ \A p \in Sequencers : Carried(p, seqr'[p].file)
<1>1. /\ seqr' \in [Sequencers -> Sequencer] /\ seqr'[q] = r
      /\ \A p \in Sequencers : p # q => seqr'[p] = seqr[p]
  BY Zenon
<1> QED
  BY <1>1, Zenon DEF Carried

\* A sequencer with one field changed is one.
LEMMA SequencerFields ==
  ASSUME NEW r \in Sequencer
  PROVE  /\ [r EXCEPT !.mode = "MANUAL"] \in Sequencer /\ [r EXCEPT !.mode = "MANUAL"].file = r.file
         /\ [r EXCEPT !.mode = "AUTO"] \in Sequencer /\ [r EXCEPT !.mode = "AUTO"].file = r.file
         /\ [r EXCEPT !.running = TRUE] \in Sequencer /\ [r EXCEPT !.running = TRUE].file = r.file
         /\ [r EXCEPT !.running = FALSE, !.file = 0] \in Sequencer
         /\ [r EXCEPT !.running = FALSE, !.file = 0].file = 0
         /\ \A n \in Nat : /\ [r EXCEPT !.file = n] \in Sequencer /\ [r EXCEPT !.file = n].file = n
                           /\ [r EXCEPT !.running = TRUE, !.file = n] \in Sequencer
                           /\ [r EXCEPT !.running = TRUE, !.file = n].file = n
<1>1. /\ [r EXCEPT !.mode = "MANUAL"] \in Sequencer /\ [r EXCEPT !.mode = "MANUAL"].file = r.file
      /\ [r EXCEPT !.mode = "AUTO"] \in Sequencer /\ [r EXCEPT !.mode = "AUTO"].file = r.file
  BY SMT DEF Sequencer
<1>2. [r EXCEPT !.running = TRUE] \in Sequencer /\ [r EXCEPT !.running = TRUE].file = r.file
  <2>1. [r EXCEPT !.running = TRUE] \in Sequencer
    BY Zenon DEF Sequencer
  <2>2. [r EXCEPT !.running = TRUE].file = r.file
    BY SMT DEF Sequencer
  <2> QED
    BY <2>1, <2>2, Zenon
<1>3. ASSUME NEW on \in BOOLEAN, NEW n \in Nat
      PROVE  /\ [r EXCEPT !.running = on, !.file = n] \in Sequencer
             /\ [r EXCEPT !.running = on, !.file = n].file = n
             /\ [r EXCEPT !.file = n] \in Sequencer /\ [r EXCEPT !.file = n].file = n
  <2>1. [r EXCEPT !.running = on, !.file = n] \in Sequencer
    BY Zenon DEF Sequencer
  <2>2. [r EXCEPT !.running = on, !.file = n].file = n
    BY SMT DEF Sequencer
  <2>3. [r EXCEPT !.file = n] \in Sequencer /\ [r EXCEPT !.file = n].file = n
    BY SMT DEF Sequencer
  <2> QED
    BY <2>1, <2>2, <2>3, Zenon
<1>4. 0 \in Nat
  BY SMT
<1> QED
  BY <1>1, <1>2, <1>3, <1>4, Zenon

\* What the sequencers report.
LEMMA Reports ==
  ASSUME NEW q \in Sequencers, NEW id \in Nat, NEW ok \in BOOLEAN
  PROVE  /\ Started(q, id) \in Message /\ Started(q, id).sequencer = q /\ Started(q, id).id = id
         /\ Done(q, ok) \in Message /\ Done(q, ok).type # "START"
         /\ [type |-> "STATUS", sequencer |-> NO_SEQUENCER, id |-> 0, ok |-> ok] \in Message
BY SMT DEF Started, Done, Message, Targets

\* Files in the sequencers are where they were, and so are the messages.
LEMMA EnvSame ==
  /\ seqr \in [Sequencers -> Sequencer] /\ seqr' = seqr =>
       seqr' \in [Sequencers -> Sequencer] /\ \A q \in Sequencers : Carried(q, seqr'[q].file)
  /\ inbox \in Seq(Message) /\ inbox' = inbox =>
       /\ inbox' \in Seq(Message)
       /\ \A m \in Range(inbox') : m.type = "START" =>
            m \in Range(inbox) \/ (m.sequencer \in Sequencers /\ Carried(m.sequencer, m.id))
  /\ Shape(ctl) /\ ctl' = ctl =>
       Shape(ctl') /\ SameBut(ctl, ctl', {"cmds"}) /\ Range(ctl'.cmds) \subseteq Range(ctl.cmds)
BY Zenon DEF Carried, SameBut

\* Statuses on their way.
LEMMA StatusTyped ==
  ASSUME replies \in Seq(BOOLEAN), NEW ok \in BOOLEAN
  PROVE  Status(ok) \in Seq(BOOLEAN) /\ <<FALSE>> \o Status(ok) \in Seq(BOOLEAN)
         /\ <<>> \o Status(ok) \in Seq(BOOLEAN)
BY SMT DEF Status

\* RefuseCommand.
LEMMA RefuseIsEnv == ASSUME Typed, RefuseCommand PROVE EnvStep
<1>1. /\ Shape(ctl) /\ seqr \in [Sequencers -> Sequencer] /\ replies \in Seq(BOOLEAN)
      /\ inbox \in Seq(Message)
  BY Zenon DEF Typed, Sequencer
<1>2. /\ Shape(ctl') /\ SameBut(ctl, ctl', {"cmds"}) /\ Range(ctl'.cmds) \subseteq Range(ctl.cmds)
  BY <1>1, TakeCommand, Zenon DEF RefuseCommand
<1>3. replies' \in Seq(BOOLEAN) /\ caller' = caller /\ seqr' = seqr /\ inbox' = inbox
  BY <1>1, StatusTyped, Zenon DEF RefuseCommand
<1> QED
  BY <1>1, <1>2, <1>3, EnvSame, Zenon DEF EnvStep

\* SeqDispatcher.RUN.
LEMMA RunIsEnv == ASSUME Typed, NEW q \in Sequencers, ExecuteRun(q) PROVE EnvStep
<1> DEFINE m == Head(ctl.cmds)
           r == [seqr[q] EXCEPT !.running = TRUE, !.file = m.id]
<1>1. /\ Shape(ctl) /\ seqr \in [Sequencers -> Sequencer] /\ replies \in Seq(BOOLEAN)
      /\ inbox \in Seq(Message)
  BY Zenon DEF Typed, Sequencer
<1>2. /\ Shape(ctl') /\ SameBut(ctl, ctl', {"cmds"}) /\ Range(ctl'.cmds) \subseteq Range(ctl.cmds)
      /\ m \in Range(ctl.cmds) /\ m \in Command
  BY <1>1, TakeCommand, Zenon DEF ExecuteRun
<1>3. m.id \in Nat
  BY <1>2, SMT DEF Command
<1>4. m.kind = "DISPATCH_RUN" /\ inbox' = Append(inbox, Started(q, m.id)) /\ caller' = caller
  BY Zenon DEF ExecuteRun
<1>5. seqr' = [seqr EXCEPT ![q] = r]
  BY <1>1, Zenon DEF ExecuteRun
<1>6. replies' \in Seq(BOOLEAN)
  BY <1>1, StatusTyped, Zenon DEF ExecuteRun
<1> HIDE DEF m
<1>7. r \in Sequencer /\ r.file = m.id
  <2>1. seqr[q] \in Sequencer
    BY <1>1, Zenon
  <2> QED
    BY <1>3, <2>1, SequencerFields, Zenon
<1> HIDE DEF r
<1>8. Carried(q, m.id)
  BY <1>2, <1>4, Zenon DEF Carried
<1>9. seqr' \in [Sequencers -> Sequencer] /\ \A p \in Sequencers : Carried(p, seqr'[p].file)
  BY <1>1, <1>5, <1>7, <1>8, SequencerStep, Zenon
<1>10. /\ inbox' \in Seq(Message)
       /\ \A n \in Range(inbox') : n.type = "START" =>
            n \in Range(inbox) \/ (n.sequencer \in Sequencers /\ Carried(n.sequencer, n.id))
  <2> DEFINE s == Started(q, m.id)
  <2>1. s \in Message /\ s.sequencer = q /\ s.id = m.id
    BY <1>3, Reports, Zenon
  <2>2. inbox' = Append(inbox, s)
    BY <1>4, Zenon
  <2> HIDE DEF s
  <2> QED
    BY <1>1, <1>8, <2>1, <2>2, Reported, Zenon
<1> QED
  BY <1>2, <1>4, <1>6, <1>9, <1>10, Zenon DEF EnvStep

\* A sequence ends.
LEMMA FinishIsEnv ==
  ASSUME Typed, NEW q \in Sequencers, NEW ok \in BOOLEAN, FinishSequence(q, ok)
  PROVE  EnvStep
<1> DEFINE r == [seqr[q] EXCEPT !.running = FALSE, !.file = 0]
<1>1. /\ Shape(ctl) /\ seqr \in [Sequencers -> Sequencer] /\ replies \in Seq(BOOLEAN)
      /\ inbox \in Seq(Message)
  BY Zenon DEF Typed, Sequencer
<1>2. inbox' = Append(inbox, Done(q, ok)) /\ caller' = caller /\ ctl' = ctl
  BY Zenon DEF FinishSequence
<1>3. seqr' = [seqr EXCEPT ![q] = r]
  BY <1>1, Zenon DEF FinishSequence
<1>4. replies' \in Seq(BOOLEAN)
  BY <1>1, StatusTyped, Zenon DEF FinishSequence
<1>5. r \in Sequencer /\ Carried(q, r.file)
  <2>1. seqr[q] \in Sequencer
    BY <1>1, Zenon
  <2> QED
    BY <2>1, SequencerFields, Zenon DEF Carried
<1> HIDE DEF r
<1>6. seqr' \in [Sequencers -> Sequencer] /\ \A p \in Sequencers : Carried(p, seqr'[p].file)
  BY <1>1, <1>3, <1>5, SequencerStep, Zenon
<1>7. /\ inbox' \in Seq(Message)
      /\ \A n \in Range(inbox') : n.type = "START" =>
           n \in Range(inbox) \/ (n.sequencer \in Sequencers /\ Carried(n.sequencer, n.id))
  <2>1. Done(q, ok) \in Message /\ Done(q, ok).type # "START"
    <3>1. 0 \in Nat
      BY SMT
    <3> QED
      BY <3>1, Reports, Zenon
  <2> QED
    BY <1>1, <1>2, <2>1, Reported, Zenon
<1> QED
  BY <1>1, <1>2, <1>4, <1>6, <1>7, EnvSame, Zenon DEF EnvStep

\* The dispatcher passes a status on.
LEMMA DeliverIsEnv == ASSUME Typed, DeliverStatus PROVE EnvStep
<1> DEFINE m == [type |-> "STATUS", sequencer |-> NO_SEQUENCER, id |-> 0, ok |-> Head(replies)]
<1>1. /\ Shape(ctl) /\ seqr \in [Sequencers -> Sequencer] /\ replies \in Seq(BOOLEAN)
      /\ inbox \in Seq(Message)
  BY Zenon DEF Typed, Sequencer
<1>2. /\ inbox' = Append(inbox, m) /\ replies' = Tail(replies)
      /\ caller' = caller /\ ctl' = ctl /\ seqr' = seqr /\ replies # <<>>
  BY Zenon DEF DeliverStatus
<1>3. Head(replies) \in BOOLEAN /\ replies' \in Seq(BOOLEAN)
  BY <1>1, <1>2, QueueTail, Zenon
<1>4. m \in Message /\ m.type # "START"
  BY <1>3, SMT DEF Message, Targets
<1> HIDE DEF m
<1>5. /\ inbox' \in Seq(Message)
      /\ \A n \in Range(inbox') : n.type = "START" =>
           n \in Range(inbox) \/ (n.sequencer \in Sequencers /\ Carried(n.sequencer, n.id))
  BY <1>1, <1>2, <1>4, Reported, Zenon
<1> QED
  BY <1>1, <1>2, <1>3, <1>5, EnvSame, Zenon DEF EnvStep

\* The control commands of a sequencer.
LEMMA ControlIsEnv == ASSUME Typed, ExecuteControl PROVE EnvStep
<1> DEFINE m == Head(ctl.cmds)
           q == m.sequencer
           r == CASE m.kind = "SET_MANUAL"  -> [seqr[q] EXCEPT !.mode = "MANUAL"]
                  [] m.kind = "SET_AUTO"    -> [seqr[q] EXCEPT !.mode = "AUTO"]
                  [] m.kind = "LOAD_MANUAL" -> [seqr[q] EXCEPT !.file = m.id]
                  [] m.kind = "START"       -> [seqr[q] EXCEPT !.running = TRUE]
                  [] m.kind = "CANCEL"      -> [seqr[q] EXCEPT !.running = FALSE, !.file = 0]
                  [] OTHER                  -> seqr[q]
<1>1. /\ Shape(ctl) /\ seqr \in [Sequencers -> Sequencer] /\ replies \in Seq(BOOLEAN)
      /\ inbox \in Seq(Message)
  BY Zenon DEF Typed, Sequencer
<1>2. /\ Shape(ctl') /\ SameBut(ctl, ctl', {"cmds"}) /\ Range(ctl'.cmds) \subseteq Range(ctl.cmds)
      /\ m \in Range(ctl.cmds) /\ m \in Command /\ Addressed(m)
  BY <1>1, TakeCommand, Zenon DEF ExecuteControl
<1>3. m.id \in Nat
  BY <1>2, SMT DEF Command
<1>4. q \in Sequencers
  BY <1>2, Zenon DEF ExecuteControl, Addressed
<1>5. /\ seqr' = [seqr EXCEPT ![q] = r] /\ caller' = caller
      /\ inbox' = IF m.kind = "START" THEN Append(inbox, Started(q, seqr[q].file))
                  ELSE IF m.kind = "CANCEL" /\ seqr[q].running THEN Append(inbox, Done(q, FALSE))
                  ELSE inbox
  BY Zenon DEF ExecuteControl
<1>6. replies' \in Seq(BOOLEAN)
  BY <1>1, StatusTyped, Zenon DEF ExecuteControl
<1>7. seqr[q] \in Sequencer
  BY <1>1, <1>4, Zenon
<1>8. seqr[q].file \in Nat
  BY <1>7, SMT DEF Sequencer
<1>9. r \in Sequencer /\ Carried(q, r.file)
  <2>1. CASE m.kind = "SET_MANUAL"
    BY <1>7, <2>1, SequencerFields, Zenon DEF Carried
  <2>2. CASE m.kind = "SET_AUTO"
    BY <1>7, <2>2, SequencerFields, Zenon DEF Carried
  <2>3. CASE m.kind = "LOAD_MANUAL"
    BY <1>2, <1>3, <1>7, <2>3, SequencerFields, Zenon DEF Carried
  <2>4. CASE m.kind = "START"
    BY <1>7, <2>4, SequencerFields, Zenon DEF Carried
  <2>5. CASE m.kind = "CANCEL"
    BY <1>7, <2>5, SequencerFields, Zenon DEF Carried
  <2>6. CASE m.kind \notin {"SET_MANUAL", "SET_AUTO", "LOAD_MANUAL", "START", "CANCEL"}
    BY <1>7, <2>6, Zenon DEF Carried
  <2> QED
    BY <2>1, <2>2, <2>3, <2>4, <2>5, <2>6, Zenon
<1> HIDE DEF r
<1>10. seqr' \in [Sequencers -> Sequencer] /\ \A p \in Sequencers : Carried(p, seqr'[p].file)
  BY <1>1, <1>4, <1>5, <1>9, SequencerStep, Zenon
<1>11. /\ inbox' \in Seq(Message)
       /\ \A n \in Range(inbox') : n.type = "START" =>
            n \in Range(inbox) \/ (n.sequencer \in Sequencers /\ Carried(n.sequencer, n.id))
  <2> HIDE DEF q
  <2>1. CASE inbox' = Append(inbox, Started(q, seqr[q].file))
    <3> DEFINE s == Started(q, seqr[q].file)
    <3>1. s \in Message /\ s.sequencer = q /\ s.id = seqr[q].file
      BY <1>4, <1>8, Reports, Zenon
    <3>2. Carried(s.sequencer, s.id) /\ inbox' = Append(inbox, s)
      BY <2>1, <3>1, Zenon DEF Carried
    <3> HIDE DEF s
    <3> QED
      BY <1>1, <1>4, <3>1, <3>2, Reported, Zenon
  <2>2. CASE inbox' = Append(inbox, Done(q, FALSE))
    <3>1. Done(q, FALSE) \in Message /\ Done(q, FALSE).type # "START"
      BY <1>4, <1>8, Reports, Zenon
    <3> QED
      BY <1>1, <2>2, <3>1, Reported, Zenon
  <2>3. CASE inbox' = inbox
    BY <1>1, <2>3, EnvSame, Zenon
  <2> QED
    BY <1>5, <2>1, <2>2, <2>3, Zenon
<1> QED
  BY <1>2, <1>5, <1>6, <1>10, <1>11, Zenon DEF EnvStep

\* What the file uplink stages concerns no context.
LEMMA StageIsEnv == ASSUME Typed, NEW f, Stage(f) PROVE EnvStep
<1>1. /\ Shape(ctl) /\ seqr \in [Sequencers -> Sequencer] /\ replies \in Seq(BOOLEAN)
      /\ inbox \in Seq(Message)
  BY Zenon DEF Typed, Sequencer
<1>2. ctl' = ctl /\ caller' = caller /\ seqr' = seqr /\ inbox' = inbox /\ replies' = replies
  BY Zenon DEF Stage
<1> QED
  BY <1>1, <1>2, EnvSame, Zenon DEF EnvStep
-----------------------------------------------------------------------------
(* The theorems. *)

\* SEQ_RUN and SEQ_PREPARE_MANUAL up to the end of the opcode loop.
LEMMA InspectKeeps ==
  ASSUME Typed, NEW op, NEW owner, NEW id, NEW block, InspectRequest(op, owner, id, block)
  PROVE  Typed' /\ CallerChecked' /\ Undisturbed'
<1> DEFINE q == ChooseSequencer(ctl)
<1>1. q \in Targets /\ (q # NO_SEQUENCER => q \in Sequencers /\ ~ctl.manualMode[q])
  BY ChosenIsFree, Zenon
<1>2. /\ ctl' = ctl /\ seqr' = seqr /\ inbox' = inbox /\ replies' = replies /\ ~ctl.op.active
      /\ op = "PREPARE_MANUAL" => q # NO_SEQUENCER
      /\ Inspect(staged) /\ Authorised(owner, staged)
      /\ caller' = [op |-> op, owner |-> owner, id |-> id, block |-> block,
                    file |-> staged, sequencer |-> q]
  BY Zenon DEF InspectRequest
<1> HIDE DEF q
<1>3. /\ caller'.op = op /\ caller'.owner = owner /\ caller'.file = staged /\ caller'.sequencer = q
  BY <1>2, Zenon
<1>4. Typed'
  BY <1>1, <1>2, <1>3, Zenon DEF Typed
<1>5. CallerChecked'
  BY <1>2, <1>3, Zenon DEF CallerChecked
<1>6. Undisturbed'
  BY <1>1, <1>2, <1>3, Zenon DEF Undisturbed
<1> QED
  BY <1>4, <1>5, <1>6, Zenon

\* A step of the environment leaves contexts and caller alone.
LEMMA EnvTyped ==
  ASSUME Typed, EnvStep
  PROVE  /\ Typed' /\ Later(ctl, ctl') /\ (CallerChecked => CallerChecked')
         /\ Undisturbed => Undisturbed'
<1>1. /\ ctl'.contexts = ctl.contexts /\ ctl'.nextId = ctl.nextId
      /\ ctl'.op = ctl.op /\ ctl'.manualMode = ctl.manualMode /\ caller' = caller
  BY Zenon DEF EnvStep, SameBut, Fields
<1>2. Typed'
  BY <1>1, Zenon DEF Typed, EnvStep, Sequencer
<1> QED
  BY <1>1, <1>2, Zenon DEF Later, SameContext, CallerChecked, Undisturbed

\* A context keeps owner and file, so what it may run stays authorised.
LEMMA LaterAuthorised ==
  ASSUME Later(ctl, ctl'), AdmittedIsAuthorised
  PROVE  AdmittedIsAuthorised'
<1>1. \A i \in Slots : /\ ctl'.contexts[i].used = ctl.contexts[i].used
                       /\ ctl'.contexts[i].owner = ctl.contexts[i].owner
                       /\ ctl'.contexts[i].file = ctl.contexts[i].file
  BY Zenon DEF Later, SameContext, ContextFields
<1> QED
  BY <1>1, Zenon DEF AdmittedIsAuthorised

\* A handler of the own thread, given what it does to the fields.
LEMMA OwnThreadKeeps ==
  ASSUME Typed, CallerChecked, AdmittedIsAuthorised, OwnThread
  PROVE  /\ Typed' /\ CallerChecked' /\ AdmittedIsAuthorised'
         /\ Overlap = FALSE /\ ManualInv => ManualInv'
<1>1. /\ Shape(ctl') /\ Later(ctl, ctl')
      /\ Manual(ctl, seqr, inbox) => Manual(ctl', seqr, inbox')
  BY StatusKeeps, StartKeeps, DoneKeeps, Zenon DEF OwnThread
<1>2. /\ inbox # <<>> /\ (Overlap \/ caller = Idle) /\ inbox' = Tail(inbox)
      /\ caller' = caller /\ seqr' = seqr /\ replies' = replies
  BY Zenon DEF OwnThread, HandleStatus, HandleStart, HandleDone, OwnThreadMayRun
<1>3. inbox' \in Seq(Message)
  BY <1>2, QueueTail, Zenon DEF Typed
<1>4. Typed' /\ CallerChecked'
  BY <1>1, <1>2, <1>3, Zenon DEF Typed, CallerChecked
<1>5. AdmittedIsAuthorised'
  BY <1>1, LaterAuthorised, Zenon
<1>6. ASSUME Overlap = FALSE, ManualInv PROVE ManualInv'
  <2>1. Manual(ctl', seqr', inbox')
    BY <1>1, <1>2, <1>6, Zenon DEF ManualInv, Manual
  <2>2. Undisturbed'
    BY <1>2, <1>6, Zenon DEF Undisturbed
  <2> QED
    BY <2>1, <2>2, Zenon DEF ManualInv, Manual
<1> QED
  BY <1>4, <1>5, <1>6, Zenon

\* A request that ends in one step, or the second part of one.
LEMMA RequestKeeps ==
  ASSUME Typed, CallerChecked, AdmittedIsAuthorised, Request \/ AdmitRequest
  PROVE  /\ Typed' /\ CallerChecked' /\ AdmittedIsAuthorised'
         /\ ManualInv => ManualInv'
<1>1. ASSUME NEW owner, NEW id, NEW block, NEW op, InspectRequest(op, owner, id, block)
      PROVE  /\ Typed' /\ CallerChecked' /\ AdmittedIsAuthorised' /\ (ManualInv => ManualInv')
  <2>1. Typed' /\ CallerChecked' /\ Undisturbed'
    BY <1>1, InspectKeeps, Zenon
  <2>2. ctl' = ctl /\ seqr' = seqr /\ inbox' = inbox
    BY <1>1, Zenon DEF InspectRequest
  <2>3. AdmittedIsAuthorised'
    BY <2>2, Zenon DEF AdmittedIsAuthorised
  <2>4. ManualInv => ManualInv'
    BY <2>1, <2>2, Zenon DEF ManualInv
  <2> QED
    BY <2>1, <2>3, <2>4, Zenon
<1>2. ASSUME NEW kind \in {"START", "STEP", "CANCEL"}, NEW owner, NEW id, NEW i \in Slots,
             ControlContext(kind, owner, id, i)
      PROVE  /\ Typed' /\ CallerChecked' /\ AdmittedIsAuthorised' /\ (ManualInv => ManualInv')
  <2>1. /\ Shape(ctl') /\ Later(ctl, ctl')
        /\ Manual(ctl, seqr, inbox) => Manual(ctl', seqr, inbox)
    BY <1>2, ControlKeeps, Zenon
  <2>2. /\ caller = Idle /\ caller' = caller /\ seqr' = seqr /\ inbox' = inbox /\ replies' = replies
    BY <1>2, Zenon DEF ControlContext
  <2>3. Typed' /\ CallerChecked' /\ Undisturbed'
    BY <2>1, <2>2, Zenon DEF Typed, CallerChecked, Undisturbed
  <2>4. AdmittedIsAuthorised'
    BY <2>1, LaterAuthorised, Zenon
  <2>5. ASSUME ManualInv PROVE ManualInv'
    <3>1. Manual(ctl', seqr', inbox')
      BY <2>1, <2>2, <2>5, Zenon DEF ManualInv, Manual
    <3> QED
      BY <2>3, <3>1, Zenon DEF ManualInv, Manual
  <2> QED
    BY <2>3, <2>4, <2>5, Zenon
<1>3. CASE AdmitRequest
  <2>1. /\ Shape(ctl') /\ AdmittedIsAuthorised'
        /\ Manual(ctl, seqr, inbox) /\ Undisturbed => Manual(ctl', seqr, inbox)
    BY <1>3, AdmitKeeps, Zenon
  <2>2. /\ caller' = Idle /\ seqr' = seqr /\ inbox' = inbox /\ replies' = replies
    BY <1>3, Zenon DEF AdmitRequest
  <2>3. Typed' /\ CallerChecked' /\ Undisturbed'
    BY <2>1, <2>2, Zenon DEF Typed, CallerChecked, Undisturbed
  <2>4. ASSUME ManualInv PROVE ManualInv'
    <3>1. Manual(ctl', seqr', inbox')
      BY <2>1, <2>2, <2>4, Zenon DEF ManualInv, Manual
    <3> QED
      BY <2>3, <3>1, Zenon DEF ManualInv, Manual
  <2> QED
    BY <2>1, <2>3, <2>4, Zenon
<1> QED
  BY <1>1, <1>2, <1>3, Zenon DEF Request

\* Dispatcher, sequencers and file uplink.
LEMMA OutsideKeeps ==
  ASSUME Typed, CallerChecked, AdmittedIsAuthorised,
         Execute \/ Finish \/ DeliverStatus \/ \E f \in Files : Stage(f)
  PROVE  /\ Typed' /\ CallerChecked' /\ AdmittedIsAuthorised'
         /\ ManualInv => ManualInv'
<1>1. EnvStep
  BY RefuseIsEnv, ControlIsEnv, RunIsEnv, FinishIsEnv, DeliverIsEnv, StageIsEnv, Zenon
     DEF Execute, Finish
<1>2. /\ Typed' /\ Later(ctl, ctl') /\ CallerChecked' /\ (Undisturbed => Undisturbed')
  BY <1>1, EnvTyped, Zenon
<1>3. AdmittedIsAuthorised'
  BY <1>2, LaterAuthorised, Zenon
<1>4. ASSUME ManualInv PROVE ManualInv'
  <2>1. Shape(ctl) /\ Manual(ctl, seqr, inbox) /\ Undisturbed
    BY <1>4, Zenon DEF ManualInv, Manual, Typed
  <2>2. Manual(ctl', seqr', inbox')
    BY <1>1, <2>1, EnvKeeps, Zenon
  <2> QED
    BY <1>2, <2>1, <2>2, Zenon DEF ManualInv, Manual
<1> QED
  BY <1>2, <1>3, <1>4, Zenon

\* Every step keeps the invariants.
LEMMA StepKeeps ==
  ASSUME Typed, CallerChecked, AdmittedIsAuthorised, [Next]_vars
  PROVE  /\ Typed' /\ CallerChecked' /\ AdmittedIsAuthorised'
         /\ Overlap = FALSE /\ ManualInv => ManualInv'
<1>1. CASE UNCHANGED vars
  <2>1. /\ ctl' = ctl /\ caller' = caller /\ seqr' = seqr /\ inbox' = inbox /\ replies' = replies
    BY <1>1, Zenon DEF vars
  <2> QED
    BY <2>1, Zenon DEF Typed, CallerChecked, AdmittedIsAuthorised, ManualInv, Undisturbed
<1>2. CASE Next
  BY <1>2, OwnThreadKeeps, RequestKeeps, OutsideKeeps, Zenon DEF Next
<1> QED
  BY <1>1, <1>2, Zenon

\* The initial state: nothing admitted, loaded or under way.
LEMMA InitTyped ==
  ASSUME Init
  PROVE  Typed /\ CallerChecked /\ AdmittedIsAuthorised /\ ManualInv
<1>1. /\ DOMAIN ctl = Fields /\ ctl.contexts = [i \in Slots |-> ContextEntry] /\ ctl.op = InternalOp
      /\ ctl.manualMode = [q \in Sequencers |-> FALSE] /\ ctl.restore = [q \in Sequencers |-> FALSE]
      /\ ctl.nextId = 1 /\ ctl.cmds = <<>>
  BY Zenon DEF Init, Fields
<1>2. \A i \in Slots : ctl.contexts[i] = ContextEntry
  BY <1>1, Zenon
<1>3. IsContext(ContextEntry) /\ ~ContextEntry.used
  BY SMT DEF IsContext, ContextEntry, ContextFields, Targets
<1>4. IsOp(InternalOp) /\ ~InternalOp.active
  <2>1. 0 \in Slots
    BY SequenceAssumption, SMT DEF Slots
  <2>2. /\ DOMAIN InternalOp = {"active", "kind", "publish", "slot", "request", "target"}
        /\ InternalOp.slot = 0 /\ InternalOp.target = NO_SEQUENCER /\ InternalOp.kind = "NONE"
        /\ InternalOp.active = FALSE
    BY Zenon DEF InternalOp
  <2> QED
    BY <2>1, <2>2, Zenon DEF IsOp, Targets
<1>5. /\ ctl.nextId \in Nat \ {0} /\ ctl.cmds \in Seq(Command) /\ Range(ctl.cmds) = {}
  BY <1>1, SMT DEF Range
<1>6. Shape(ctl)
  BY <1>1, <1>2, <1>3, <1>4, <1>5, Zenon DEF Shape
<1>7. /\ seqr = [q \in Sequencers |-> [mode |-> "AUTO", file |-> 0, running |-> FALSE]]
      /\ replies = <<>> /\ inbox = <<>> /\ caller = Idle
  BY Zenon DEF Init
<1>8. /\ seqr \in [Sequencers -> [mode : {"AUTO", "MANUAL"}, file : Nat, running : BOOLEAN]]
      /\ replies \in Seq(BOOLEAN) /\ inbox \in Seq(Message) /\ Range(inbox) = {}
      /\ \A q \in Sequencers : seqr[q].file = 0
  BY <1>7, SMT DEF Range
<1>9. Typed
  BY <1>6, <1>7, <1>8, Zenon DEF Typed
<1>10. CallerChecked /\ Undisturbed
  BY <1>7, Zenon DEF CallerChecked, Undisturbed
<1>11. \A i \in Slots : ~ctl.contexts[i].used
  BY <1>2, <1>3, Zenon
<1>12. AdmittedIsAuthorised /\ IdsUnique(ctl)
  BY <1>11, Zenon DEF AdmittedIsAuthorised, IdsUnique
<1>13. Owned(ctl) /\ OpFits(ctl) /\ NotLoaded(ctl, seqr, inbox)
  BY <1>1, <1>4, Zenon DEF Owned, OpFits, NotLoaded
<1>14. Linked(ctl, seqr, inbox)
  <2>1. \A q : LoadFits(ctl, q, 0)
    BY <1>6, <1>12, ZeroFits, Zenon
  <2>2. \A q \in Sequencers : LoadFits(ctl, q, seqr[q].file)
    BY <1>8, <2>1, Zenon
  <2> QED
    BY <1>5, <1>8, <2>2, Zenon DEF Linked
<1> QED
  BY <1>9, <1>10, <1>12, <1>13, <1>14, Zenon DEF ManualInv

\* Whatever the threads interleave and whenever the staged file is replaced, a
\* context only ever holds a file that passed inspection and whose commands its
\* owner may issue (inspectAndAdmit).
THEOREM OnlyAuthorisedRun == Spec => []AdmittedIsAuthorised
<1> DEFINE Inv == Typed /\ CallerChecked /\ AdmittedIsAuthorised
<1>1. Init => Inv
  BY InitTyped, Zenon
<1>2. Inv /\ [Next]_vars => Inv'
  BY StepKeeps, Zenon
<1>3. Inv => AdmittedIsAuthorised
  OBVIOUS
<1> QED
  BY <1>1, <1>2, <1>3, PTL DEF Spec

\* When the own thread does not run inside a request, no order of failures,
\* completions and cancels leaves a sequencer in manual mode without a context
\* that may still release it or a return to AUTO (finalizeInternalOperation,
\* seqDoneIn, processPendingAutoRestore).
THEOREM ManualModeOwned == ASSUME Overlap = FALSE PROVE Spec => []ManualModeIsOwned
<1> DEFINE Inv == Typed /\ CallerChecked /\ AdmittedIsAuthorised /\ ManualInv
<1>1. Init => Inv
  BY InitTyped, Zenon
<1>2. Inv /\ [Next]_vars => Inv'
  BY StepKeeps, Zenon
<1>3. Inv => ManualModeIsOwned
  BY Zenon DEF ManualInv, Owned, Returning, OwnsManual, ManualModeIsOwned
<1> QED
  BY <1>1, <1>2, <1>3, PTL DEF Spec
=============================================================================
