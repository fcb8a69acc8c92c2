----------------------------- MODULE PayloadOps -----------------------------
(***************************************************************************)
(* The camera payload: PayloadOpsController (commands and a scheduler      *)
(* tick), PiCameraManager (one worker thread per operation, polled by the  *)
(* tick), the helper-process driver behind it and the data-product writer  *)
(* that stores published captures slice by slice.                          *)
(*                                                                         *)
(* A command handler or a tick is one step; the worker takes one step per  *)
(* place where it reads m_cancelRequested or calls the driver or the EPS.  *)
(* The record u holds the controller's and the manager's members, the      *)
(* helper process of CameraHelper and the manifests on disk.               *)
(* A capture is identified by its number (bootCount and captureId in the   *)
(* code), a data product by the number of its publish (its time tag).      *)
(***************************************************************************)
EXTENDS Integers, Sequences, CameraHelper

CONSTANTS Indexes,        \* capture indexes
          Resolutions,    \* resolution presets of the camera defaults
          DefaultResolution,  \* the one configureRuntime sets
          Slices,         \* data products one artifact of each kind needs
          PublishTicks,   \* dataProductPublishTimeoutTicks
          MaxCaptures, MaxRestarts,   \* bounds of a behaviour
          MaxPublishes    \* bound: publishes and restarts together

Kinds == {"PREVIEW_JPEG", "RAW_FRAME"}
ReadyKinds == {"READY_NON_RAW", "READY_RAW_SENSOR"}

ASSUME PayloadAssumption ==
  /\ Slices \in [Kinds -> Nat \ {0}]
  /\ PublishTicks \in Nat \ {0}
  /\ DefaultResolution \in Resolutions
  /\ {MaxCaptures, MaxPublishes, MaxRestarts} \subseteq Nat

VARIABLES u,         \* the flight process
          rail,      \* EPS PDU channel 3 is on
          mode,      \* the spacecraft mode, as far as the payload asks
          stored,    \* slices the data-product writer has put on storage
          restarts

vars == <<u, rail, mode, stored, restarts>>

NoNote == [id |-> 0, slice |-> 0]
NoPublish == [active |-> FALSE]
NoEntry == [capture |-> 0]         \* no catalog entry, no manifest file
Torn == [capture |-> -1]           \* a manifest loadCaptureManifest_ cannot read
NoSettings == [kind |-> "NONE"]

\* The metadata of a new capture: neither artifact published yet.
Entry(capture) ==
  [capture |-> capture, product |-> [k \in Kinds |-> 0],
   published |-> [k \in Kinds |-> FALSE]]

\* A process that has just run configureRuntime, which asks the helper for its
\* capabilities: asked is the answer.
Configured(asked, manifest, captures, pubs) ==
  [state |-> "OFF", kind |-> "READY_NON_RAW", active |-> "NONE", abort |-> FALSE,
   forced |-> FALSE, pub |-> NoPublish, note |-> NoNote, res |-> DefaultResolution,
   catalog |-> [i \in Indexes |-> NoEntry], captures |-> captures, pubs |-> pubs,
   busy |-> FALSE, pc |-> "IDLE", op |-> "NONE", cancel |-> FALSE,
   prepared |-> FALSE, asserted |-> FALSE, settings |-> NoSettings,
   req |-> NoSettings, index |-> 0, result |-> "NONE", done |-> FALSE,
   helper |-> asked.helper, raw |-> asked.ok /\ asked.helper.backend = "stub",
   manifest |-> manifest, queue |-> <<>>]
-----------------------------------------------------------------------------
(* PiCameraManager, seen from the controller. *)

\* beginPrepare, beginCapture, beginShutdown: start the worker.
Begin(x, op, req) ==
  [x EXCEPT !.busy = TRUE, !.op = op, !.pc = IF op = "PREPARE" THEN "POWER" ELSE "DRIVE",
            !.cancel = (op = "ABORT"), !.done = FALSE, !.req = req]

\* requestAbort: raise the flag and kill the helper.
RequestAbort(x) == {[x EXCEPT !.cancel = TRUE, !.helper = k] : k \in DriverAbort(x.helper)}

WorkInProgress(x) == x.busy \/ x.active # "NONE" \/ x.abort \/ x.pub.active
-----------------------------------------------------------------------------
(* Publishing an artifact as data products. *)

\* publishNextPendingDataProductSlice_: hand the next slice to the writer.
SendSlice(x) ==
  LET k == x.pub.next + 1
  IN  [x EXCEPT !.pub.next = k, !.pub.ticks = PublishTicks,
                !.queue = Append(@, [id |-> x.pub.id, slice |-> k])]

\* finalizeDataProductPublishSuccess_ and ...Failure_.
Finalize(x, ok) ==
  LET entry == [x.pub.entry EXCEPT !.published[x.pub.kind] = ok]
  IN  [x EXCEPT !.catalog[x.pub.index] = entry, !.manifest[x.pub.index] = entry,
                !.state = x.pub.after, !.pub = NoPublish, !.note = NoNote,
                !.active = "NONE"]

\* planArtifactDataProduct_: name the product after its time tag and expect the
\* files of all its slices.
Planned(entry, kind, id) ==
  [entry    |-> [entry EXCEPT !.product[kind] = id, !.published[kind] = FALSE],
   expected |-> 1 .. Slices[kind]]

\* startArtifactPublish_ when it gets as far as opening the publish.
Opened(x, i, entry, kind, after) ==
  LET id   == x.pubs + 1
      plan == Planned(entry, kind, id)
  IN  [x EXCEPT !.pubs = id, !.catalog[i] = plan.entry, !.manifest[i] = plan.entry,
                !.state = "PUBLISHING",
                !.pub = [active |-> TRUE, id |-> id, index |-> i, kind |-> kind,
                         entry |-> plan.entry, next |-> 0, expected |-> plan.expected,
                         ticks |-> PublishTicks, after |-> after]]

\* What may stop startArtifactPublish_: the artifact cannot be read or planned,
\* the manifest cannot be written, no container for the first slice.
PublishOutcomes == {"SENT", "UNREADABLE", "MANIFEST_FAILED", "NO_BUFFER"}

StartPublish(x, i, entry, kind, after, outcome) ==
  LET y == Opened(x, i, entry, kind, after)
  IN  CASE outcome = "SENT" -> SendSlice(y)
        [] outcome = "UNREADABLE" -> x
        [] outcome = "MANIFEST_FAILED" ->
             [x EXCEPT !.pubs = y.pubs, !.catalog = y.catalog, !.manifest[i] = Torn]
        [] outcome = "NO_BUFFER" -> Finalize(y, FALSE)

\* Mutant of Confirms: the written path is not compared with the expected ones.
ConfirmsAny(pub, note) == pub.active

\* A written file counts only when its path is one this publish still expects.
Confirms(pub, note) == pub.active /\ note.id = pub.id /\ note.slice \in pub.expected

\* handlePendingDataProductWriteCompletion_.
WriteCompletion(x, sent) ==
  LET y == [x EXCEPT !.note = NoNote]
      z == [y EXCEPT !.pub.expected = @ \ {x.pub.next}, !.pub.ticks = PublishTicks]
  IN  CASE x.note = NoNote \/ ~Confirms(x.pub, x.note) -> y
        [] OTHER -> IF z.pub.next < Slices[z.pub.kind]
                      THEN IF sent THEN SendSlice(z) ELSE Finalize(z, FALSE)
                      ELSE IF z.pub.expected = {} THEN Finalize(z, TRUE) ELSE z

\* Mutant of PublishTimeout: the countdown stops at zero and nobody notices.
PublishTimeoutIgnored(x) ==
  IF x.pub.active /\ x.pub.ticks > 0 THEN [x EXCEPT !.pub.ticks = @ - 1] ELSE x

PublishTimeout(x) ==
  IF ~x.pub.active \/ x.pub.ticks = 0 THEN x
  ELSE IF x.pub.ticks = 1 THEN Finalize(x, FALSE)
       ELSE [x EXCEPT !.pub.ticks = @ - 1]
-----------------------------------------------------------------------------
(* The scheduler tick. *)

\* startForcedCleanupIfNeeded_: the mode is no longer PAYLOAD.
ForcedCleanup(x) ==
  LET y == [x EXCEPT !.forced = TRUE, !.state = "ABORTING"]
  IN  IF mode = "PAYLOAD" \/ x.forced \/ x.state \in {"OFF", "FAULT"} \/ x.pub.active
        THEN {x}
        ELSE IF x.busy THEN RequestAbort(y) ELSE {Begin(y, "ABORT", NoSettings)}

\* The state handleCompletedOperation_ chooses when no publish was started.
StateAfter(x) ==
  CASE x.result = "OK" -> IF x.op \in {"PREPARE", "CAPTURE"} THEN "READY" ELSE "OFF"
    [] x.result = "ABORTED" -> "OFF"
    [] OTHER -> IF x.op \in {"SHUTDOWN", "ABORT"} THEN "FAULT" ELSE "OFF"

\* startCapturePreviewPublish_: a capture whose publish cannot start is listed
\* as an unpublished one, in the catalog and in its manifest.
PreviewPublish(x, i, entry, outcome) ==
  LET tried == StartPublish(x, i, entry, "PREVIEW_JPEG", "READY", outcome)
  IN  IF outcome = "SENT" THEN tried
      ELSE [tried EXCEPT !.catalog[i] = entry, !.manifest[i] = entry]

\* handleCompletedOperation_ once pollCompletion has returned a result.  A
\* capture whose publish starts returns early: the pending commands and
\* m_forcedCleanupActive stay as they are.  What only the ended operation used
\* is forgotten.
Completed(x, outcome) ==
  LET fresh  == Entry(x.captures)
      polled == [x EXCEPT !.busy = FALSE, !.done = FALSE, !.op = "NONE", !.cancel = FALSE,
                   !.req = NoSettings, !.result = "NONE", !.index = 0,
                   !.kind = IF x.result = "OK" /\ x.op \in {"PREPARE", "CAPTURE"}
                              THEN x.settings.kind ELSE @,
                   !.catalog = IF x.op = "CAPTURE" THEN [@ EXCEPT ![x.index] = fresh] ELSE @]
      tried  == PreviewPublish(polled, x.index, fresh, outcome)
      ended(y) == [y EXCEPT !.state = StateAfter(x), !.active = "NONE",
                            !.abort = FALSE, !.forced = FALSE]
  IN  IF x.op = "CAPTURE" /\ x.result = "OK"
        THEN IF outcome = "SENT" THEN tried ELSE ended(tried)
        ELSE ended(polled)

Polled(x, outcome) == IF x.done THEN Completed(x, outcome) ELSE x

\* schedIn_handler.
SchedTick ==
  /\ \E cleaned \in ForcedCleanup(u), outcome \in PublishOutcomes :
       u' = PublishTimeout(WriteCompletion(Polled(cleaned, outcome), outcome # "NO_BUFFER"))
  /\ u'.pubs + restarts <= MaxPublishes
  /\ UNCHANGED <<rail, mode, stored, restarts>>
-----------------------------------------------------------------------------
(* Commands.  A rejected command changes nothing the model keeps. *)

\* The guard the three PAYLOAD_SET_*_DEFAULTS handlers share.
MaySetDefaults(x) == ~x.busy /\ x.state = "OFF"

\* PAYLOAD_SET_CAMERA_DEFAULTS; the other two change no session-level setting.
SetCameraDefaults(res) ==
  /\ MaySetDefaults(u)
  /\ u' = [u EXCEPT !.res = res]
  /\ UNCHANGED <<rail, mode, stored, restarts>>

\* prepareSettingsForReady_: both kinds of session take the camera defaults'
\* resolution, which PAYLOAD_SET_CAMERA_DEFAULTS copies to the other defaults.
PrepareSettings(x, kind) == [kind |-> kind, res |-> x.res]

\* PAYLOAD_PREPARE and PAYLOAD_PREPARE_RAW_SENSOR: beginPrepareReady_.
Prepare(kind) ==
  /\ mode = "PAYLOAD"
  /\ ~WorkInProgress(u)
  /\ u.state # "READY"
  /\ u' = [Begin(u, "PREPARE", PrepareSettings(u, kind)) EXCEPT
             !.active = "PREPARE", !.state = "PREPARING", !.kind = kind]
  /\ UNCHANGED <<rail, mode, stored, restarts>>

\* captureSessionMatchesPreparedSettings_: the session the manager holds is of
\* the requested kind and, but for a raw capture, of the requested resolution.
SessionMatches(x, kind) ==
  /\ x.settings.kind = kind
  /\ kind = "READY_NON_RAW" => x.settings.res = x.res

\* resolveCaptureSettings_, as far as the session is concerned.
Resolved(x, kind) == [kind |-> kind, res |-> x.res]

\* beginCapture_, for the session kind of the three commands below.
Capture(i, kind) ==
  /\ mode = "PAYLOAD"
  /\ ~WorkInProgress(u)
  /\ u.state = "READY"
  /\ u.kind = kind
  /\ u.prepared                                   \* getPreparedSettings
  /\ SessionMatches(u, kind)
  /\ u.captures < MaxCaptures
  /\ u' = [Begin(u, "CAPTURE", Resolved(u, kind)) EXCEPT
             !.active = "CAPTURE", !.state = "CAPTURING",
             !.captures = @ + 1, !.index = i]
  /\ UNCHANGED <<rail, mode, stored, restarts>>

\* PAYLOAD_CAPTURE_AUTO and _DETERMINISTIC, and PAYLOAD_CAPTURE_RAW.
CaptureStill(i) == Capture(i, "READY_NON_RAW")
CaptureRaw(i) == Capture(i, "READY_RAW_SENSOR")

\* PAYLOAD_ABORT.
Abort ==
  /\ ~u.abort
  /\ ~u.pub.active
  /\ u.busy \/ u.state # "OFF"
  /\ u' \in {[x EXCEPT !.abort = TRUE, !.state = "ABORTING"] :
               x \in IF u.busy THEN RequestAbort(u) ELSE {Begin(u, "ABORT", NoSettings)}}
  /\ UNCHANGED <<rail, mode, stored, restarts>>

\* PAYLOAD_SHUTDOWN.
Shutdown ==
  /\ ~WorkInProgress(u)
  /\ u.state # "OFF"
  /\ u' = [Begin(u, "SHUTDOWN", NoSettings) EXCEPT
             !.active = "SHUTDOWN", !.state = "ABORTING"]
  /\ UNCHANGED <<rail, mode, stored, restarts>>

\* loadCaptureManifest_: the cached entry, else the manifest file.
Manifest(i) == IF u.catalog[i] # NoEntry THEN u.catalog[i] ELSE u.manifest[i]

\* PAYLOAD_PUBLISH_CAPTURE.
Publish(i, kind) ==
  /\ mode = "PAYLOAD"
  /\ ~WorkInProgress(u)
  /\ Manifest(i) \notin {NoEntry, Torn}
  /\ u.pubs + restarts < MaxPublishes
  /\ \E outcome \in PublishOutcomes :
       LET tried == StartPublish(u, i, Manifest(i), kind,
                                 IF u.state = "PUBLISHING" THEN "READY" ELSE u.state, outcome)
       IN  u' = IF outcome = "SENT" THEN [tried EXCEPT !.active = "PUBLISH_CAPTURE"] ELSE tried
  /\ UNCHANGED <<rail, mode, stored, restarts>>

\* readyForRawSensorSession_.
ReadyForRegister(x) ==
  /\ ~WorkInProgress(x)
  /\ mode = "PAYLOAD"
  /\ x.state = "READY"
  /\ x.kind = "READY_RAW_SENSOR"

\* PAYLOAD_SENSOR_REG_READ and _WRITE, on the caller's thread: an exchange that
\* breaks kills the helper of the READY session.
RegisterAccess ==
  /\ ReadyForRegister(u)
  /\ u.raw                                        \* rawRegisterSupported
  /\ u' \in {[u EXCEPT !.helper = r.helper] : r \in DriverRegister(u.helper)}
  /\ UNCHANGED <<rail, mode, stored, restarts>>
-----------------------------------------------------------------------------
(* The worker thread. *)

\* finish_: overwrite the manager's view with the result and post it.
Finish(x, result, prepared) ==
  [x EXCEPT !.pc = "IDLE", !.done = TRUE, !.result = result, !.prepared = prepared,
            !.asserted = prepared, !.settings = IF prepared THEN x.req ELSE NoSettings]

\* setProxyPower_ (an EPS command over the bus): it may fail, and a command
\* that failed may still have been carried out.
ProxyPower(on, ok) == rail' \in IF ok THEN {on} ELSE {on, rail}

\* runPrepare_ up to the settle delay: the driver is missing or the EPS refuses,
\* or the rail comes on.
PowerUp ==
  /\ u.pc = "POWER"
  /\ \/ u' = Finish(u, "FAILED", FALSE) /\ ProxyPower(TRUE, FALSE)
     \/ u' = [u EXCEPT !.pc = "SETTLE", !.asserted = TRUE] /\ ProxyPower(TRUE, TRUE)
  /\ UNCHANGED <<mode, stored, restarts>>

\* settleDelay_ ends, or sees the cancel flag before one of its naps.
Settle ==
  /\ u.pc = "SETTLE"
  /\ \/ u' = [u EXCEPT !.pc = "DRIVE"]
     \/ u.cancel /\ u' = [u EXCEPT !.pc = "UNDO"]
  /\ UNCHANGED <<rail, mode, stored, restarts>>

\* driver->prepare or driver->captureStill answers.
Drive ==
  /\ u.pc = "DRIVE"
  /\ u.op \in {"PREPARE", "CAPTURE"}
  /\ \E r \in IF u.op = "PREPARE" THEN DriverPrepare(u.helper, u.cancel)
                                   ELSE DriverCapture(u.helper, u.cancel) :
       u' = [(IF r.ok THEN Finish(u, "OK", TRUE) ELSE [u EXCEPT !.pc = "UNDO"])
               EXCEPT !.helper = r.helper]
  /\ UNCHANGED <<rail, mode, stored, restarts>>

\* The clean-up of a failed or cancelled prepare or capture: shut the driver
\* down and drop the proxy power, whose failure is ignored.
Undo ==
  /\ u.pc = "UNDO"
  /\ \E down \in DriverShutdown(u.helper), off \in BOOLEAN :
       /\ u' = Finish([u EXCEPT !.helper = down.helper],
                      IF u.cancel /\ (u.op = "PREPARE" \/ down.ok) THEN "ABORTED" ELSE "FAILED",
                      FALSE)
       /\ ProxyPower(FALSE, off)
  /\ UNCHANGED <<mode, stored, restarts>>

\* runShutdown_.
PowerDown ==
  /\ u.pc = "DRIVE"
  /\ u.op \in {"SHUTDOWN", "ABORT"}
  /\ \E down \in DriverShutdown(u.helper), off \in BOOLEAN :
       /\ u' = Finish([u EXCEPT !.helper = down.helper],
                      IF down.ok /\ off THEN "OK" ELSE "FAILED", FALSE)
       /\ ProxyPower(FALSE, off)
  /\ UNCHANGED <<mode, stored, restarts>>
-----------------------------------------------------------------------------
(* The surroundings. *)

\* The data-product writer stores the slice at the head of its queue and calls
\* dpWrittenIn, which notes it only for a publish that expects it.
Written ==
  /\ u.queue # <<>>
  /\ stored' = stored \cup {Head(u.queue)}
  /\ u' = [u EXCEPT !.queue = Tail(@),
                    !.note = IF Confirms(u.pub, Head(u.queue)) THEN Head(u.queue) ELSE @]
  /\ UNCHANGED <<rail, mode, restarts>>

\* The writer cannot open or write the file: it drops the container.
WriteLost ==
  /\ u.queue # <<>>
  /\ u' = [u EXCEPT !.queue = Tail(@)]
  /\ UNCHANGED <<rail, mode, stored, restarts>>

\* ModeSafetyController changes the mode.
SetMode ==
  /\ mode' = IF mode = "PAYLOAD" THEN "IDLE" ELSE "PAYLOAD"
  /\ UNCHANGED <<u, rail, stored, restarts>>

\* The process dies and is started again: the helper goes with its pipes, the
\* rail stays as it is, and a manifest being rewritten is left torn.
Restart ==
  /\ restarts < MaxRestarts
  /\ u.pubs + restarts < MaxPublishes
  /\ restarts' = restarts + 1
  /\ u' \in {Configured(asked, f, u.captures, u.pubs) :
               asked \in DriverCapabilities(NoHelper(u.helper.backend)),
               f \in {u.manifest} \cup
                     (IF u.pub.active THEN {[u.manifest EXCEPT ![u.pub.index] = Torn]} ELSE {})}
  /\ UNCHANGED <<rail, mode, stored>>
-----------------------------------------------------------------------------
Init ==
  /\ \E backend \in Backends :
       \E asked \in DriverCapabilities(NoHelper(backend)) :
         u = Configured(asked, [i \in Indexes |-> NoEntry], 0, 0)
  /\ rail = FALSE
  /\ mode \in {"PAYLOAD", "IDLE"}
  /\ stored = {}
  /\ restarts = 0

Worker == PowerUp \/ Settle \/ Drive \/ Undo \/ PowerDown

Command ==
  \/ \E res \in Resolutions : SetCameraDefaults(res)
  \/ \E kind \in ReadyKinds : Prepare(kind)
  \/ \E i \in Indexes : CaptureStill(i) \/ CaptureRaw(i)
  \/ Abort
  \/ Shutdown
  \/ \E i \in Indexes, kind \in Kinds : Publish(i, kind)
  \/ RegisterAccess

Next == SchedTick \/ Worker \/ Command \/ Written \/ WriteLost \/ SetMode \/ Restart

\* A worker step is possible unless the thread is gone; it moves pc.
WorkerSteps == u.pc # "IDLE" /\ u'.pc # u.pc

\* A tick has something to do when a result waits to be polled or a publish is
\* counting down; it polls the one and moves the other.
TickDue == u.done \/ (u.pub.active /\ u.pub.ticks > 0)
TickSteps == (u.done /\ ~u'.done) \/ (u.pub.active /\ u'.pub # u.pub)

\* Weak fairness, with ENABLED spelled out: the rate group ticks the controller
\* and the operating system runs the worker, whose driver calls all have
\* timeouts.  Nothing makes the writer write.
Fairness ==
  /\ []<>(u.pc = "IDLE") \/ []<><<WorkerSteps>>_vars
  /\ []<>(~TickDue) \/ []<><<TickSteps>>_vars

Spec == Init /\ [][Next]_vars

FairSpec == Spec /\ Fairness
-----------------------------------------------------------------------------
(* Properties. *)

\* No operation is running or waiting to be polled and no publish is open.
Settled == ~u.busy /\ ~u.pub.active

\* When the controller says READY, the manager holds a session with the camera
\* defaults now in force, its power is reported on and the rail is on: what
\* beginCapture_ relies on is true however prepare, capture, abort, mode exits
\* and default changes were interleaved.
ReadyIsPrepared ==
  Settled /\ u.state = "READY" =>
    /\ u.prepared /\ u.asserted /\ rail
    /\ u.settings = [kind |-> u.kind, res |-> u.res]

\* When the controller says OFF, no camera session survives anywhere: not in
\* the manager, and not in a helper process that a failed or cancelled
\* operation left behind.
OffIsReleased == Settled /\ u.state = "OFF" => ~u.prepared /\ u.helper.process # "OPEN"

\* Two helpers never exist at once: while a killed one has not gone, and may
\* still hold the camera, no new one is started, however aborts, timeouts,
\* register commands and new operations follow each other.
OneHelper == u.helper.lingers => u.helper.process = "NONE"

\* What the controller says of the camera is true: ReadyIsPrepared,
\* OffIsReleased and OneHelper.
CameraFollowsState == ReadyIsPrepared /\ OffIsReleased /\ OneHelper

\* A capture listed as published, in memory or in the manifest a restart would
\* read, has every one of its slices on storage: no late, lost or foreign
\* dpWritten call completes a publish.
PublishedIsWritten ==
  \A i \in Indexes : \A entry \in {u.catalog[i], u.manifest[i]} :
    entry \notin {NoEntry, Torn} =>
      \A k \in Kinds : entry.published[k] =>
        \A n \in 1 .. Slices[k] : [id |-> entry.product[k], slice |-> n] \in stored

\* A command that was accepted is over at some point: its worker ends and is
\* polled, and a publish the writer does not confirm runs into its timeout.
CommandEnds == u.active # "NONE" ~> u.active = "NONE"

\* PAYLOAD_ABORT is restorative: the step that ends it leaves the payload OFF,
\* or in FAULT when the clean-up failed.
AbortIsRestorative == [][u.abort /\ ~u'.abort => u'.state \in {"OFF", "FAULT"}]_vars
=============================================================================
