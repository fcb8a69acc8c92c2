---------------------------- MODULE CameraHelper ----------------------------
(***************************************************************************)
(* The camera helper process and the client that owns it                   *)
(* (PayloadBackendHelperClient, PayloadCameraBackendHelperMain and the two *)
(* drivers the helper can be built with).  The camera stack runs in a      *)
(* child process, so a hung driver can be killed.  The client holds one    *)
(* transaction at a time: it makes sure a helper runs, writes a request    *)
(* and reads the reply; whatever breaks the exchange kills the helper.     *)
(*                                                                         *)
(* h.process is the helper's state: none, running, or running with an open *)
(* camera session.  h.lingers says that a killed helper had not gone when  *)
(* the client stopped waiting for it (m_reapPendingPid).                   *)
(***************************************************************************)
EXTENDS Naturals

Backends == {"stub", "libcamera"}
Processes == {"NONE", "IDLE", "OPEN"}

NoHelper(backend) == [backend |-> backend, process |-> "NONE", lingers |-> FALSE]

\* The answer of one call: the helper afterwards, and whether the call was OK.
Answer(h, ok) == [helper |-> h, ok |-> ok]

\* killHelperLocked_: signal the helper and wait 250 ms for it to go.
Killed(h) ==
  IF h.process = "NONE" THEN {h}
  ELSE {[h EXCEPT !.process = "NONE", !.lingers = l] : l \in BOOLEAN}

\* reapPendingHelperLocked_: a lingering helper has gone by now, or it has not.
Reaped(h) == {h, [h EXCEPT !.lingers = FALSE]}

\* ensureHelperLocked_: use the running helper, else start one (no executable,
\* no sockets and no fork are failures), but never while an old one lingers.
Ensured(h) ==
  UNION {CASE r.lingers -> {Answer(r, FALSE)}
           [] ~r.lingers /\ r.process # "NONE" -> {Answer(r, TRUE)}
           [] OTHER -> {Answer(r, FALSE), Answer([r EXCEPT !.process = "IDLE"], TRUE)} :
         r \in Reaped(h)}

\* releaseCamera_: give the camera back.
Released(h) == [h EXCEPT !.process = "IDLE"]

\* Go on with next where the answer was OK; a failure is the answer of the whole.
Then(answers, next(_)) == UNION {IF a.ok THEN next(a.helper) ELSE {a} : a \in answers}

\* LibcameraPiCameraDriver::prepare in three stages, each of which may fail or
\* run into the deadline: acquire the first camera, configure it for the still
\* stream, start it and let it warm up.  Only the first check leaves a session
\* that was open before.
CameraAcquired(h) ==
  {Answer(h, FALSE), Answer(Released(h), FALSE), Answer([h EXCEPT !.process = "OPEN"], TRUE)}
CameraConfigured(h) == {Answer(Released(h), FALSE), Answer(h, TRUE)}
CameraStarted(h) == {Answer(Released(h), FALSE), Answer(h, TRUE)}

CameraPrepare(h) == Then(Then(CameraAcquired(h), CameraConfigured), CameraStarted)

\* LibcameraPiCameraDriver::captureStill: take the frame with the session
\* prepare opened, then write the raw file and the preview.  A failure keeps
\* the session.
FrameTaken(h) == {Answer(h, FALSE)} \cup (IF h.process = "OPEN" THEN {Answer(h, TRUE)} ELSE {})
FilesWritten(h) == {Answer(h, ok) : ok \in BOOLEAN}

CameraCapture(h) == Then(FrameTaken(h), FilesWritten)

\* StubPiCameraDriver::prepare holds nothing; captureStill writes two files.
StubPrepare(h) == {Answer(h, TRUE)}
StubCapture(h) == {Answer(h, ok) : ok \in BOOLEAN}

\* StubPiCameraDriver's registers: a table that may not hold the address.
StubRegister(h) == {Answer(h, ok) : ok \in BOOLEAN}

\* main of the helper: serve one request with the driver it was built with.
Served(h, op) ==
  LET camera == h.backend = "libcamera"
  IN  CASE op = "GET_CAPABILITIES" -> {Answer(h, TRUE)}
        [] op = "PREPARE"  -> IF camera THEN CameraPrepare(h) ELSE StubPrepare(h)
        [] op = "CAPTURE"  -> IF camera THEN CameraCapture(h) ELSE StubCapture(h)
        [] op = "SHUTDOWN" -> {Answer(Released(h), TRUE)}
        [] op = "REGISTER" -> IF camera THEN {Answer(h, FALSE)} ELSE StubRegister(h)

\* writeAllLocked_ or readAllLocked_ fails: a timeout, a closed pipe, a damaged
\* reply, or the caller's cancel flag.
Broken(h) == {Answer(k, FALSE) : k \in Killed(h)}

\* transactLocked_: the exchange of one request; a cancelled one never succeeds.
Transact(h, op, cancelled) ==
  Then(Ensured(h), LAMBDA r : Broken(r) \cup (IF cancelled THEN {} ELSE Served(r, op)))

\* getCapabilities, prepare, captureStill and the two register calls.
DriverCapabilities(h) == Transact(h, "GET_CAPABILITIES", FALSE)
DriverPrepare(h, cancelled) == Transact(h, "PREPARE", cancelled)
DriverCapture(h, cancelled) == Transact(h, "CAPTURE", cancelled)
DriverRegister(h) == Transact(h, "REGISTER", FALSE)

\* abort, called from another thread than the transaction it interrupts.
DriverAbort(h) == Killed(h)

\* Mutant of DriverShutdown: the test for a helper to shut down is inverted.
DriverShutdownInverted(h) ==
  IF h.process # "NONE" THEN {Answer(h, TRUE)}
  ELSE UNION {{Answer(k, r.ok) : k \in Killed(r.helper)} : r \in Transact(h, "SHUTDOWN", FALSE)}

\* shutdown: nothing to do without a helper; else ask it, and kill it whatever
\* it answers.
DriverShutdown(h) ==
  IF h.process = "NONE" THEN {Answer(h, TRUE)}
  ELSE UNION {{Answer(k, r.ok) : k \in Killed(r.helper)} : r \in Transact(h, "SHUTDOWN", FALSE)}
=============================================================================
