-------------------------- MODULE HardwareWatchdog --------------------------
(***************************************************************************)
(* WatchdogSupervisor in the life of the process: main, setupTopology,     *)
(* runHostedRuntime and teardownTopology, with LinuxWatchdogSink and the   *)
(* kernel's watchdog device it feeds.  The supervisor's thread and the     *)
(* command thread live on after the rate group timer is stopped, until     *)
(* stopTasks, which comes after the sink has closed the device: a stroke   *)
(* may find it closed.                                                     *)
(*                                                                         *)
(* The device is external: opening it starts it and counts as a stroke, a  *)
(* close without the magic character (the sink writes none) leaves it      *)
(* running, and when it expires the board resets.                          *)
(***************************************************************************)
EXTENDS WatchdogSupervisor

CONSTANTS Timeout,   \* hardwareWatchdogTimeoutSec, in cycles of the rate group
          Launches   \* bound: starts of the process in one behaviour

ASSUME HardwareAssumption == Timeout \in Nat \ {0} /\ Launches \in Nat

VARIABLES process,   \* how far main is
          enabled,   \* hardwareWatchdogMode is linux-device
          isOpen,    \* the sink holds the device open
          device,    \* the kernel's device: running, and cycles to its expiry
          cycled,    \* the rate group has run since the device's last cycle
          launches

chainVars == <<vars, process, enabled, isOpen, device, cycled, launches>>
lifeVars == <<process, enabled, launches>>

Off == [armed |-> FALSE, left |-> Timeout]
Kicked == [armed |-> TRUE, left |-> Timeout]

\* The threads that call the supervisor exist.
Alive == process \in {"RUNNING", "STOPPING", "CLOSED"}
-----------------------------------------------------------------------------
(* LinuxWatchdogSink. *)

\* keepalive: the byte reaches the driver, or the write fails.
Keepalive(d) == {[ok |-> TRUE, device |-> Kicked], [ok |-> FALSE, device |-> d]}

\* configureTimeout_: the driver takes the requested timeout or has it already,
\* or it refuses or rounds it.
ConfigureTimeout(d) == {[ok |-> accepted, device |-> d] : accepted \in BOOLEAN}

\* Mutant of OpenDevice: the result of open is not looked at.
OpenDeviceUnchecked(d) == {[ok |-> TRUE, device |-> d]} \cup Keepalive(Kicked)

\* openDevice: open, the timeout, the first keepalive; when one of the last two
\* fails the device is closed again, and runs on.
OpenDevice(d) ==
  {[ok |-> FALSE, device |-> d]}
    \cup {c \in ConfigureTimeout(Kicked) : ~c.ok} \cup Keepalive(Kicked)

\* configureLocked_.
ConfigureSink(d) == IF enabled THEN OpenDevice(d) ELSE {[ok |-> TRUE, device |-> d]}

\* watchdogFeedIn_handler.
FeedIn ==
  IF isOpen THEN \E k \in Keepalive(device) : device' = k.device ELSE UNCHANGED device
-----------------------------------------------------------------------------
(* The process. *)

ChainInit ==
  /\ Init
  /\ process = "DOWN" /\ enabled \in BOOLEAN /\ isOpen = FALSE
  /\ device = Off /\ cycled = FALSE /\ launches = 0

\* What is left of the supervisor when its process has ended.
Gone ==
  /\ sources' = [s \in Sources |->
       [config |-> DefaultConfig, state |-> StateForAge(DefaultConfig, 0), age |-> 0,
        beatPending |-> FALSE, probeSuppressed |-> FALSE]]
  /\ safeRequestIssued' = FALSE /\ aggregate' = Rollup(sources', FALSE)
  /\ strokeDue' = FALSE /\ open' = {} /\ cmdCall' = NoCall /\ lag' = 0 /\ requestable' = FALSE

\* setupTopology gives up at the first component that cannot be configured,
\* some before the sink and some after it.
SetupTopology ==
  {[ok |-> FALSE, device |-> device]}
    \cup {[ok |-> c.ok /\ rest, device |-> c.device] : c \in ConfigureSink(device), rest \in BOOLEAN}

\* main up to runHostedRuntime; when it returns early (arguments, keystore,
\* topology) the sink's destructor closes the device.
Launch ==
  /\ process = "DOWN" /\ launches < Launches
  /\ launches' = launches + 1
  /\ \E s \in SetupTopology :
       /\ process' = IF s.ok THEN "READY" ELSE "DOWN"
       /\ isOpen' = (enabled /\ s.ok)
       /\ device' = s.device
  /\ cycled' = FALSE
  /\ UNCHANGED <<vars, enabled>>

\* RuntimeSession::initialize, whose last step starts the rate groups' timer.
Initialize ==
  /\ process = "READY" /\ process' = "RUNNING"
  /\ UNCHANGED <<vars, enabled, isOpen, device, cycled, launches>>

\* runCommandLoop ends: a recovery exit request, or the console's end; then
\* RuntimeSession::cleanup, which stops the timer.
LoopEnds ==
  /\ process = "RUNNING" /\ process' = "STOPPING"
  /\ UNCHANGED <<vars, enabled, isOpen, device, cycled, launches>>

\* teardownTopology up to stopTasks: the sink's shutdownForRuntime.
CloseSink ==
  /\ process = "STOPPING" /\ process' = "CLOSED" /\ isOpen' = FALSE
  /\ UNCHANGED <<vars, enabled, device, cycled, launches>>

\* stopTasks and the end of main, or the process dies.
Ends ==
  /\ process # "DOWN" /\ process' = "DOWN" /\ isOpen' = FALSE
  /\ Gone
  /\ UNCHANGED <<enabled, device, cycled, launches>>

\* schedIn_handler up to its unlock, in a cycle of the rate group; the timer
\* has queued the one that comes after it was stopped.
Cycle ==
  /\ Alive /\ ~cycled
  /\ SchedIn /\ cycled' = TRUE
  /\ UNCHANGED <<lifeVars, isOpen, device>>

\* The stroke leaves the supervisor and arrives at the sink.
Feed == Stroke /\ FeedIn /\ UNCHANGED <<lifeVars, isOpen, cycled>>

\* Beats and commands; after the timer's stop they touch only memory that is
\* about to be freed, and are left out.
Supervise ==
  /\ process = "RUNNING"
  /\ \/ \E s \in Sources : BeatIn(s) \/ \E b \in BOOLEAN : SetProbeBeatSuppression(s, b)
     \/ \E s \in Tunable, c \in Configs : SetConfig(s, c)
     \/ ModeChange
  /\ UNCHANGED <<lifeVars, isOpen, device, cycled>>

CommandCalls == Alive /\ CallRecovery /\ UNCHANGED <<lifeVars, isOpen, device, cycled>>
-----------------------------------------------------------------------------
(* The device and the board. *)

\* One period passes; the rate group, while it runs, keeps to its period.
DeviceTick ==
  /\ ~strokeDue /\ (process = "RUNNING" => cycled)
  /\ IF device.armed THEN device.left > 0 ELSE cycled
  /\ device' = IF device.armed THEN [device EXCEPT !.left = @ - 1] ELSE device
  /\ cycled' = FALSE
  /\ UNCHANGED <<vars, lifeVars, isOpen>>

\* The device expires and the board starts afresh.
Reset ==
  /\ device.armed /\ device.left = 0
  /\ device' = Off /\ process' = "DOWN" /\ isOpen' = FALSE /\ cycled' = FALSE
  /\ Gone
  /\ UNCHANGED <<enabled, launches>>

ChainNext ==
  \/ Launch \/ Initialize \/ LoopEnds \/ CloseSink \/ Ends
  \/ Cycle \/ Feed \/ Supervise \/ CommandCalls \/ DeviceTick \/ Reset

\* Weak fairness, with ENABLED spelled out: time passes, and the rate group thread
\* and a command handler run on while there is a process.  Nothing is assumed of
\* the launches.
CycleDue == Alive /\ ~cycled /\ ~strokeDue /\ (cmdCall # NoCall => lag < CmdLag)

TickDue == /\ ~strokeDue /\ (process = "RUNNING" => cycled)
           /\ IF device.armed THEN device.left > 0 ELSE cycled

ChainSpec ==
  /\ ChainInit /\ [][ChainNext]_chainVars
  /\ []<>~CycleDue \/ []<><<~cycled /\ cycled'>>_chainVars
  /\ []<>~strokeDue \/ []<><<strokeDue /\ ~strokeDue'>>_chainVars
  /\ []<>~TickDue \/ []<><<device'.left < device.left \/ (cycled /\ ~cycled')>>_chainVars
  /\ []<>(cmdCall = NoCall) \/ []<><<cmdCall # NoCall /\ cmdCall' = NoCall>>_chainVars
  /\ []<>~(device.armed /\ device.left = 0)
       \/ []<><<device.armed /\ ~device'.armed>>_chainVars
-----------------------------------------------------------------------------
(* Properties. *)

\* A flight process that was told to use the hardware watchdog never runs
\* without it: the device is open and counting, whatever failed or was
\* restarted before.
RunningIsSupervised ==
  process \in {"READY", "RUNNING"} /\ enabled => isOpen /\ device.armed

\* The source is enabled and sends no beat, and nobody is clearing its fault.
Silent(s) == /\ sources[s].config.enabled /\ ~sources[s].beatPending
             /\ cmdCall # [op |-> "clear", source |-> s]

\* A running device does not let the board live with a source that stays
\* silent, nor without the flight process, nor with one that never gets as far
\* as its rate groups: the board is reset, or a source speaks, or the process is
\* started again.
UnfedBoardIsReset ==
  /\ \A s \in Sources : []<>~(device.armed /\ process = "RUNNING" /\ Silent(s))
  /\ []<>~(device.armed /\ process = "DOWN")
  /\ []<>~(device.armed /\ process = "READY")
=============================================================================
