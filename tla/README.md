# TLA+ models of the OBC flight software

This directory models the parts of the on-board computer (OBC) software that
keep state and decide: fault handling and recovery, the boot manager, the
satellite mode, the communication controller with its secure uplink and file
downlink, the sequence controller, the ground link, the camera payload and the
device bus. Each component is a TLA+ module translated from its C++ source and
checked with TLC on small instances. The safety properties also have theorems, checked by
TLAPS for every value of the constants. `PROJECT.json` lists the components, runs,
mutants, theorems, hazards and the source lines behind every definition.

## The system

The software is an F Prime deployment (`OBC/TopCcsds`). Most components are
passive: their ports run in the caller's thread. The threads that matter are

- rate group 1, 1 Hz, which calls in turn the EPS and ADCS bridges with their
  fault detection (FDIR), `modeSafetyController`, the radio and link components,
  `commController`, `ttcPassManager`, `watchdogSupervisor`, `recoveryExecutor` and
  `payloadOps`;
- rate group 2, which calls among others `bootManager` and `secureLinkAuthorizer`,
  and rate group 3 with the beacon;
- the command dispatcher, which runs the command handlers of passive components;
- the ground link threads, which deliver uplink to the ingress components;
- worker threads: the bus owner's, the camera manager's, the ground link driver's;
- the main loop (`OBC/Runtime/HostedRuntime.cpp`), which polls the recovery
  executor for an exit request and leaves with code 31 (process restart) or 32
  (reboot). The service manager starts the process again.

`RecoveryExecutor`, `WatchdogSupervisor`, `PersistentFaultManager`, `TtcPassManager`,
`BeaconPublisher` and `CommController` have a mutex of their own; that of
`CommController` is not recursive. `BootManager`, `ModeManager`,
`CommandIngressAuthority`, `SecureLinkAuthorizer`, `FileIngressAuthority` and
`SequenceAdmissionController` have none, although several threads enter them.

How the parts interact: detectors (watchdog, EPS, ADCS and COMM fault
detection) submit faults to `RecoveryExecutor`. It opens an incident and tries a
process restart, a subsystem reset or a link failover, then SAFE mode, then a
reboot. Before an exit it records the intent with `BootManager`, which counts
recovery boots and clamps a restart loop to SAFE. Every incident is written to
the persistent fault ring. `ModeManager` holds the mode that all of them read.
`CommController` chooses the primary band (S-band or UHF); sessions, command
authority, file ingress, packet egress and the beacon follow its choice, and data
product files go down through its scheduler, either through F Prime's
`FileDownlink` or in a reliable transfer to the communication node.

## Modules

| Module | Source | State |
|---|---|---|
| `FaultHistory` | abstract | the promised fault history: bounded, newest first |
| `PersistentFaultStore` | `PersistentFaultManager/` | `copies`: the two files; `inFlight`: a write under way |
| `RecoveryExecutor` | `RecoveryExecutor/` | `incidents`, exit flags, `todo`: the actions each thread still has to carry out, `boot`: what it stored with BootManager |
| `WatchdogSupervisor` | `WatchdogSupervisor/` | `sources`, `aggregate`, `strokeDue`, `open`: active incidents, `cmdCall`: a call made after the unlock |
| `HardwareWatchdog` | `LinuxWatchdogSink/`, `Main.cpp`, `HostedRuntime`, topology set-up | the supervisor in the life of the process: `process`, `device`, `launches` |
| `BootManifest`, `BootManager` | `BootManager/` | `meta` (m_metadata), `remaining`, `saving`: the save each thread is in, `file` |
| `ModeControl` | `ModeManager/`, `ModeSafetyController/`, `TtcPassManager/` | `mode`, `eps`: cached charge, `ttc`, `step`: position in the cycle, `intent` and `op`: writes decided and not yet made |
| `CommandAuthority` | `CommandAuthorityTypes`, `-Catalog` | none: which link may issue which command |
| `CommandIngress` | `SecureLinkAuthorizer/`, `CommandIngressAuthority/`, `FileIngressAuthority/`, `CommandIngressMux/` | operators on the record `u` |
| `CommDownlinkScheduler` | `CommDownlinkScheduler.cpp` | operators on the scheduler's fields |
| `CommController` | `CommController/`, `CommEgressMux/` | `c`: the controller, `u`: the uplink, `egress`, `ext`: FileDownlink, DpCatalog and the recovery sink, `health` |
| `FileDelivery` | abstract | files arrive whole or not at all; success is reported only for one that arrived |
| `ReliableTransfer` | `CommReliableTransfer.cpp`, the receiver in `CommNodeServer.cpp` | `s`: sender, `r`: receiver, `frames`, `call`, `late`: the channel |
| `SequenceAdmission` | `SequenceAdmissionController/`, `SequenceCallbackFanout/` | `ctl`: contexts and the internal operation; sequencers and their queues |
| `GroundLink` | `GroundLinkBackend.cpp`, `GroundLinkDriver/`, `CommNodeServer.cpp`, `CommSimModel.cpp` | `b`: back end, `n`: node, the bus, the line, `up`: uplink |
| `CameraHelper`, `PayloadOps` | `PayloadOpsController/` | `u`: controller, camera manager, worker, helper process, products |
| `DeviceBus` | `EpsBridge/`, `AdcsBridge/`, both FDIR controllers, `CspRuntimeOwner/`, `CspBridge/`, `BeaconPublisher/`, the simulated nodes | `owner`: queue and worker, `call`: blocked callers, bridges' caches, `fdir`, `incidents`, `node` |

`MC*.tla` instantiate a module for TLC and `*Proofs.tla` hold theorems.

**PersistentFaultStore.** `append` is `BeginAppend` (load, add, truncate the other
copy) followed by `CompleteWrite` or `AbandonWrite` (stream error or death of the
process). The manager's mutex is why only one write is in flight. CRC, magic
and version tests of `parseCopy` are abstracted to "valid or `Invalid`".

**RecoveryExecutor.** Every locked section is one action, and what a thread does
between two of them is held in `todo`. Calls into `BootManager` and
`CommController` (`Call`) may fail. The mode is an input, since it can change
between its read and its use.

**WatchdogSupervisor, HardwareWatchdog.** `SchedIn` is the handler under
`m_runtimeMutex`; its stroke of the hardware comes after the unlock. A probe command
changes the state under the lock and calls the recovery sink after it
(`CallRecovery`). The composition adds arming (before the rate groups start), exits,
crashes and relaunch. The kernel device is external: opening counts as a stroke,
and since the sink never writes the magic character a close leaves it running. A
queued cycle may come after the close and then strokes nothing. The model keeps one
timeout, also where the driver would reject the one asked for.

**BootManager.** An operation is two steps, `Begin` (change and serialise) and `End`
(the write, and the undo of the two operations that undo). A crash is `Start`,
which picks one of the files an interrupted write may leave. Digest and signature
checks are reduced to their verdict. As in the code, a manifest that fails late in
parsing leaves its version as the staged one.

**ModeControl.** Four writers share the mode. Each decides in one step and writes
in another. With `Overlap = FALSE` a command and a cycle take turns, with `TRUE`
they interleave, as the threads of the deployment can.

**CommController.** Each handler is one action, a composition of operators on the
system record `[c, u, egress, ext]`, in the order of the code's calls. The uplink
handlers run without a lock in the link threads and are taken as atomic; a race this
hides is described below. Rejected commands change nothing the model keeps. A
session key is the number of its challenge and a MAC is valid under that key only.
`stuck` records that a handler entered the lock it already held.

**ReliableTransfer.** Data frames are lost, delayed and reordered; a control request
may be served after its sender has timed out. A restart of the OBC reuses transfer
ids. Stale acknowledgements may then exceed what the sender has sent, which is
harmless. The node removes the old file before it renames the new one, so a failing
rename loses an older copy; the refinement uses the history `stored` of files put
into place.

**SequenceAdmission.** The staged file is inspected, copied and inspected again in
separate steps, and may be replaced between them. F Prime's sequencers and the
command dispatcher are external and answer in any order.

**GroundLink.** A stream is the number of its send call and bytes are abstracted to
frames. Protocols V1 to V3 share one staging area and queue of the node, as the back
end uses one policy. The node's drain worker writes without the queue's lock. Status
refreshes, cache trimming, the serial preamble filter and the beacon queue are left out.

**PayloadOps.** The worker takes one step per place where it reads
`m_cancelRequested` or calls the driver. The two builds of the helper's driver are
chosen in `Init`. The writer of data products is external: it may write late or never.

**DeviceBus.** Three threads share one worker. libcsp is external and drops late
replies. An executed command whose reply is lost answers `EXECUTION_ERROR`. The fault
detection is part of the tick of its bridge, since it follows in the same cycle.
Device status is reduced to one setting; charge and rates are in `ModeControl`.

## Runs

Every property of a run has a mutant in `PROJECT.json`, a plausible bug in one mapped
definition, for which TLC finds the property violated.

| Run | States | What it shows |
|---|---|---|
| `fault_ring` | 193 | the ring implements `FaultHistory` with torn writes |
| `recovery` | 221,215 | an exit is durable; a subsystem incident ends or escalates; a quiet boot is acknowledged although writes fail |
| `watchdog` | 164,752 | over two launches: a running process is supervised, faults and incidents agree, an unfed board is reset |
| `boot` | 172,448 | over three starts: slots agree, a restart loop is clamped, a trial ends |
| `mode_control` | 291,024 | mode and charge agree; low power and lost passes end |
| `sequences` | 295,098 | only an inspected copy runs, manual mode has an owner, deferred requests are answered |
| `comm_sessions` | 120,680 | sessions, grants, windows and routing agree after every handler; no command is accepted twice; the lock is not retaken |
| `comm_downlink` | 69,000 | requests are tracked and answered; late completions and stale probes decide nothing; incidents match the latched fault |
| `transfer` | 177,007 | the transfer implements `FileDelivery` and every transfer ends |
| `ground_link` | 478,240 | frames reach the ground in order, none is lost without a count, `send` returns |
| `payload` | 591,800 | state and camera agree, only written products are published, every command ends |
| `device_bus` | 431,392 | callers are answered, dead nodes are reported, caches and latches converge, a suppressed beacon is silent |

### Bounds

- `fault_ring`: `MaxGeneration` 7, `Capacity` 3: the ring wraps twice. `U32Modulus` exceeds
  `MaxGeneration`, so the wrap of the 32-bit generation is outside the model (2^32 appends).
- `recovery`: `MaxEpoch` 2 allows one relatch, the only distinction the code makes. `sub`
  stands for one subsystem source of any kind. `UnclearedTicks` 2 for 3, `StableAckTicks` 1 for
  5. HELL is not among the modes (see the disagreements).
- `watchdog`: `AgeMax` 3 stands for 2^32 - 1, so that saturation is reached. `CmdLag` 1: cycles
  between a command's unlock and its call. `Tunable`: the sources whose thresholds
  the operator changes. `Launches` 2; a loop of crashes that reopens the device faster
  than it expires is cut off by this bound.
- `boot`: `MaxStarts` 3, `MaxVersion` 2, `Threshold` 2 for 3, `ConfirmTimeout` 2 for 60 s,
  `CountMax` 2 for 2^32 - 1: two recovery starts reach the clamp and the saturation of the
  counter. A failed save keeps the file here; torn and cut files and overlapping threads
  are covered by the theorem `SlotsAlwaysAgree`.
- `mode_control`: `Socs` {9, 50, 60, 71} lie below every floor, on the two boundaries that
  separate `<` from `<=`, and above everything. `LossMax` 2 is one more than the timeout; it
  is no cap: the theorem `TypeCorrect` says that the timer, unbounded in the code, stays within it.
- `sequences`: two owners, two files, two context slots and ids, `Overlap = FALSE`.
- `comm_sessions`: two challenges (`MaxKeys`), so a key is followed by a second one on either
  port, four kinds of uplinked message, no file requests. `AuthTimeout`, `SuppressTicks`
  and pass durations are 1: a session outlives a tick only when the clock went back. The
  theorems cover longer ones, and file requests beside sessions, which the UHF clause of
  `LinksFollowPrimary` needs.
- `comm_downlink`: two requests, thresholds 1 and 2, no sessions. A late completion of the
  first request meets the second.
- `transfer`: two files of two and one segments, window 1, one resend, one restart.
- `ground_link`: sends of 2, 2 and 3 frames, the last above the staging limit; every limit at 1
  to 3; one close of the line.
- `payload`: one capture, two publishes of one or two slices, one restart.
- `device_bus`: one command per bridge, one beacon, one fault (a stop of the worker is one),
  queue handles 0 to 3 reused in order, so an old handle meets a new request.
- `CHECK_DEADLOCK FALSE` is set only where a bound ends the behaviour.

### Fairness

Some specifications write weak fairness with the state in which a thread has work in
place of `ENABLED`: the same condition, cheaper to check.

- RecoveryExecutor: strong fairness of `SchedIn` (the rate group reaches it every
  cycle), weak fairness of each thread's pending actions and of the main loop's poll,
  strong fairness of a successful call (storage does not fail for ever).
- HardwareWatchdog: cycle, stroke, started command and the device's clock go on.
- BootManager: strong fairness of the countdown (saves disable it for a moment), and no
  write lasts for ever.
- ModeControl: strong fairness of the cycle, because commands may keep disabling
  it for a moment, and a started command ends.
- SequenceAdmission: every thread keeps running and every sequence ends.
- CommController: `schedIn` is called for ever and a reliable transfer ends (its retries are
  bounded, `TransferEnds`); FileDownlink reports every file it took.
- ReliableTransfer: ticks go on and requests are answered or time out.
- GroundLink: sender and receiver run, deadlines pass, the node reads its queue, a close
  that has begun ends. Neither the ground nor the line owes anything.
- PayloadOps: the rate group ticks and the worker runs (its driver calls have time-outs).
  Nothing makes the product writer write.
- DeviceBus: worker, rate groups and woken callers run; commands and faults are never due.

## Proofs

The theorems hold for every value of the constants that the named `ASSUME` of the module
admits. Each safety theorem rests on an inductive invariant, one step per action; TLC checked the
invariants on the instances of the runs before they were proved. Some modules hold the
theorems of two components that share no state. The second one is then an instance
(`Bus`, `Pay`, `Transfer`) over variables declared beside it, and its theorems that need
the `ASSUME` of the instance name it.

- **StorageProofs**, the fault ring: `TypeCorrect`, `NewestSafe`, `AppendIsNewest`,
  `ReadbackIsNewest`, `Implements`. The invariant is that while a write is open its target is
  invalid, the other copy is the newest, and the snapshot in flight is that copy's with one
  record appended. A completed write is an abstract `Record` and every other step a
  stutter; the lemmas are about the ring's walk back after one append.
- **StorageProofs**, the payload: `CameraTruth` and `PublishedBacked`, for any number of captures, publishes,
  aborts and restarts. `Cam` says what may be relied on at each place of the worker: the rail
  is on from the settle delay to the driver's answer, the settings asked for are those in
  force, and a result that waits to be polled describes the session. A publish shows
  PUBLISHING, so the state to which it will return stands in for the shown one (`Phase`).
  `Products` says that slices the publish in progress no longer expects are stored, that a
  notification belongs to a publish that was opened, and that one for the publish in
  progress is not ahead of it: a late call of an earlier publish completes nothing.
- **RecoveryExecutorProofs**: `TypeCorrect`, `DurableBeforeExit`, `RebootExitIsSubsystems`.
  `ExitIsDurable` is not inductive: the exit flag is set one step after the call. The
  strengthening says that an intent answered "ok" in some thread's `todo` is on disk.
- **EquipmentProofs**, the watchdog chain: `TypeCorrect`, `AggregateTruth` and `IncidentsAgree` of the supervisor;
  `IncidentsAgreeOverRestarts` and `AlwaysSupervised` of the whole chain. The invariant
  `Agreement` adds which configurations are in force, that a state is the one its age
  gives, and what a command in flight has done to its source. It needs
  `CmdLag < DefaultConfig.safe`: with a longer delay a cleared source could latch again
  before the command's late clearing call.
- **EquipmentProofs**, the device bus: `IncidentsFollowLatches` and `SuppressedSilent`. The first needs only
  the types of the latches; the work is in the change of an open ADCS incident from one kind
  to the other. The second says in addition that a beacon on its way holds the publisher's
  mutex, which is why no command can suppress it half-way.
- **BootManagerProofs**: `TypeCorrect` and `SlotsAlwaysAgree` for all faults and overlaps;
  `FloorEnforced`, `FloorMonotone`, `IntentDurable` and `LoopClamped` under `Careful`: no overlap, and a
  failed write keeps the old file. The invariants tie memory, the save under way and the
  file together. For `LoopClamped`, every copy of the record that a start or an undo
  may go on from `Counts` the recovery restarts in a row, up to the saturation of the counter.
- **ModeControlProofs**: `TypeCorrect` always; `ModeKeepsToPower` and `OnlyOperatorLeavesSafe` for
  `Overlap = FALSE`. `TimerBound` says that the loss-of-lock timer is past every timeout only while
  the exit that resets it awaits its write. `Decided` records why each pending write was
  admitted when it was decided.
- **GroundLinkProofs**, the byte link: `LinkPrefixes`, `LinkNothingLost` and `LinkUplink`, for all messages,
  windows and limits, any number of sends and chunks, and whatever is lost or late. All three
  follow from `LinkInv`, a conjunction of what back end, wire and node know of each other.
  - A request that is waited for is the last packet on the wire; one that was given up stays
    there and is served later. It does no harm because whatever opens a stream (BEGIN, the first
    STAGE, the first WRITE) is newer than all that was committed or written and than every
    effective request ahead of it (`StreamsInOrder`). Change of protocol finds the wire empty.
  - `PhaseOK` says what backs an OK: the last STAGE or the COMMIT answered OK is of a committed
    stream, a WRITE answered OK was the last frame written.
  - The drain worker peeks, writes and confirms in three steps without the queue's lock.
    `DrainOK`: the frame it holds is the front of the queue, or the queue was cleared meanwhile
    and begins with a newer stream, so the confirmation pops nothing it did not write.
  - A poll that has timed out may still take a chunk out of the node, so the balance of
    `UplinkAccounted` is not inductive. `UpBalanced` counts the abandoned polls on the wire as
    paid for: each was charged to `rxErrors` when it was given up. The count is stated as a function
    bounded below, not as a recursive sum, because the prover has no induction.
- **GroundLinkProofs**, the reliable transfer: `Delivery`, the refinement of `FileDelivery`. The invariant says which
  request the sender waits for in each phase, that every transfer the node hears of was
  begun on board, and that what the node has put into place, or answered OK for, is
  whole. A frame of an older transfer under a reused id may fill the receiver's file; the
  digest test is what keeps it from being committed.
- **SequenceAdmissionProofs**: `OnlyAuthorisedRun` for every interleaving; its invariant adds that a request between
  inspection and admission was inspected and authorised, so the second inspection, of the
  copy, is the one that counts. `ManualModeOwned` assumes `Overlap = FALSE`, as its run does: with
  overlap the property fails (see the disagreements). Its invariant links contexts, the
  operation under way, commands in flight, loaded files and queued callbacks: ids are given
  once, whatever carries the id of a manual context names its sequencer, and until
  SET_MANUAL has succeeded its context is loaded nowhere.
- **CommControllerProofs**: all eight invariants and the action property of the two
  communication runs (`SessionsAgree`, `CommandsNotReplayed`, `StatusesReturn`, `LockHeldOnce`, `LinksAgree`,
  `RequestsTracked`, `StaleProbesDiscarded`, `IncidentsMatch`, `CompletionsAreOwn`). The
  first part states the invariant as predicates on the system record and proves what each
  operator keeps of it; the second composes them along each handler. The invariant `Good` adds
  - for `NoReplay`: a key belongs to one port, a pending challenge has not been used, and
    everything accepted under an open session's key is at most the last number of its window;
  - for `StatusReturnsToSender`: contexts in the mux table are below the next one and each running
    command has its own entry;
  - for `AcceptedIsTracked` and `CompletionEndsItsOwn`: the files FileDownlink holds have contexts below
    its next one and were launched for requests below the scheduler's next one. Every
    handler but `fileCompleteIn` leaves those files alone (the `Kept` lemmas);
  - for `LinksFollowPrimary`: the policies are those of the primary band after every complete handler.
    Inside a handler, between a change of band and the reconfiguration, only `Core`, the rest of
    the invariant, holds. That is why each operator is stated with what it needs and leaves.
  Most leaves name Zenon, because the prover slows down with every leaf it gives to SMT.

Only model-checked: every liveness property, because the prover handles neither fairness nor
`ENABLED`. Every invariant, action property and refinement a run checks is also proved, some
under the conditions named above.

## Disagreements seen, without a run of their own

Definitions in the modules state most of them; the configuration that shows each is
given. The sentences are in `openspec/specs/` unless another path is named.

- `NoRestartUnderClamp` (RecoveryExecutor.cpp:416) with HELL in `Modes`: a process restart is queued under the
  clamp. `mission-autonomy/spec.md:550`: "it SHALL NOT queue another R2 process restart before the runtime
  has been acknowledged stable".
- `AckOnlyWhenQuiet` (RecoveryExecutor.cpp:271) with a watchdog source: a command-thread suppression falls
  between the decision and the acknowledgement. `boot-update/spec.md:147`.
- RecoveryExecutor with `HardwareWatchdogMode = TRUE`: a suppression records R6 after the R2 intent and the
  process restart is consumed. `boot-update/spec.md:64`.
- Thresholds lowered below a silent source's age latch a fault that is not reported in SAFE or HELL
  (WatchdogSupervisor.cpp:108; `mission-autonomy/spec.md:304-305`), and raised thresholds make a faulty
  source healthy without closing its incident (`mission-autonomy/spec.md:343-345`).
- `IntentIsDurable` (BootManager.cpp:169) with `Overlap = TRUE`: a save serialised earlier and written later
  removes a recorded intent. `boot-update/spec.md:39-40`.
- `RollbackLeavesTrial` (BootManager.cpp:418): a second activation during a trial puts the last known good
  slot on trial. `boot-update/spec.md:27`.
- `FloorNeverFalls` (BootManager) with `"torn"` or `"cutTrust"` in `Faults`: a file that lost its
  trust fields starts again at floor 0. `boot-update/spec.md:102`.
- A restart gives the trial a full window (`boot-update/spec.md:50-54`), and a verify during the
  trial makes the pending state incoherent, so that the next start rolls back (`boot-update/spec.md:131`).
- `TtcEntersFromIdle` (TtcPassManager.cpp:230) with `Overlap = TRUE`: the pass policy overwrites an operator's SAFE.
  `core-system-contracts/spec.md:919-922`.
- `EndedStaysEnded` (SequenceAdmissionController.cpp:799): START's OK status handled after the
  done callback turns SUCCEEDED back to RUNNING. The design
  (`openspec/changes/archive/2026-05-14-official-sequencing-system-resources-v1/design.md`) wants to
  "preserve truthful ownership and completion state for manual and automatic sequence contexts". With
  `Overlap = TRUE` also `ManualModeIsOwned` fails.
- `AbortIsRestorative` (PayloadOps): an abort that meets the start of a capture's publish returns early and leaves the abort
  command active with `forcedCleanupActive` set (PayloadOpsController.cpp:1882;
  `payload-operations/spec.md:169-174`).

Behaviours the models keep and that a reader of the code may want to know of, although no
document speaks of them:

- CommController: a handshake that completes between `revokeIngressSource(false)` and
  `secureAuthInvalidateOut` would make `authRevokedIn` take the lock its own thread holds. The
  models take the uplink handlers as atomic, so `LockNotRetaken` does not cover this one order;
  it was seen by reading.
- GroundLink: a probe given up after `ProbeLimit` leaves every later send at RETRY. A time-out of
  the first chunk, without an abort, leaves the node's stream until it is reaped, so that
  the next sends are refused. `publishStats_` runs in two threads and may latch an old
  connected state (read, not modelled).
- PayloadOps: a failing power-off in the clean-up is ignored; FAULT is not retried by the forced
  clean-up; a failed capture's id is in the catalogue, so PUBLISH can publish the previous
  image under it; a failed register transaction kills the helper while the state stays
  READY; after a restart the rail is as it was and capture numbers begin at 0.
- DeviceBus: an answer to an older asynchronous poll can overwrite a newer cached status until
  the next poll.
- BootManager: a failed save at start-up is not counted in the reset loop.

The repository's docs disclaim power-loss resilience, so only process crashes and
failed writes are considered.

## Not modelled

`components` in `PROJECT.json` lists every part with the reason.

- `MissionExecutive` is not in the topology and `CommandFreshnessStore` is used by its test only.
- The envelope encoding, keys and cryptography are verdicts.
- The resource monitor of the watchdog supervisor shares its lock and no state.
- `HkTrendProductProducer`, `StorageHealthBridge`, the onboard state components and the timing probe sample
  and report.
- `GpsBridge` parses sentences; time and validity are inputs of `ModeControl`. A GGA sentence carries no
  date, so around midnight time and date of different sentences may mix.
- Radio and UART are device I/O, the payload's CSP gateway is a stateless translation.
- The dev-direct ingress is not part of the composition, `CommEgressMux`'s diagnostic quiet mode is off, and
  `CommandIngressAuthority`'s `m_pendingDispatches` is left out, since its result is ignored.
- Tools, scenario drivers and scripts.
