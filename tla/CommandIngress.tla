--------------------------- MODULE CommandIngress ---------------------------
(***************************************************************************)
(* The secure uplink as operators on its state u: SecureLinkAuthorizer,     *)
(* CommandIngressAuthority with its sequence window, FileIngressAuthority   *)
(* and CommandIngressMux.  Port 0 is the S-band link, port 1 the UHF link.  *)
(* A session key is the number of the challenge it was derived from, and a  *)
(* MAC is valid exactly under that key.                                     *)
(***************************************************************************)
EXTENDS Integers, FiniteSets, CommandAuthority

CONSTANTS AuthTimeout,   \* SECURE_LINK_AUTH_TIMEOUT_SECONDS, in ticks
          WindowSize,    \* entries of CommandSequenceWindow
          MuxSlots       \* entries of CommandIngressMux::m_pendingDispatches

ASSUME IngressAssumption ==
  AuthTimeout \in Nat \ {0} /\ WindowSize \in Nat \ {0} /\ MuxSlots \in Nat \ {0}

Ports == {0, 1}
Identity(p) == IF p = 0 THEN "SBAND" ELSE "UHF"

NoSession == [open |-> FALSE, key |-> 0, role |-> "UNKNOWN", id |-> 0, last |-> 0]
NoAuth == [active |-> FALSE, key |-> 0, idle |-> 0]

\* clearIngressSources, configureIngressSource and the components' constructors.
IngressInit(role) ==
  [pending |-> [p \in Ports |-> 0], auth |-> [p \in Ports |-> NoAuth],
   session |-> [p \in Ports |-> NoSession], window |-> {}, role |-> role,
   file |-> [p \in Ports |-> [auth |-> FALSE, allowed |-> FALSE, drop |-> FALSE]],
   nonce |-> 0, token |-> 1, mux |-> {}, muxNext |-> 1, running |-> {}, seen |-> {}, replayed |-> FALSE]

\* CommandSequenceWindow::resetSource.
ResetSource(window, p, role) == {w \in window : ~(w.port = p /\ w.role = role)}

\* Mutant of CloseSession: the window of the session is not reset.
CloseSessionKeepsWindow(u, p) == [u EXCEPT !.session[p] = NoSession]

\* clearActiveSession after the window of the session was reset.
CloseSession(u, p) ==
  IF ~u.session[p].open THEN u
  ELSE [u EXCEPT !.window = ResetSource(@, p, u.session[p].role), !.session[p] = NoSession]

\* synthesizeSecureSessionFromAuthGrant.
OpenSession(u, p, key) ==
  [CloseSession(u, p) EXCEPT
     !.window = ResetSource(@, p, u.role[p]),
     !.session[p] = [open |-> TRUE, key |-> key, role |-> u.role[p], id |-> u.token, last |-> 0],
     !.token = @ + 1]

\* issueChallenge_: a new challenge replaces the pending one.
IssueChallenge(u, p) == [u EXCEPT !.nonce = @ + 1, !.pending[p] = u.nonce + 1]

\* establishAuth_ accepts a response computed from the pending challenge.
ResponseValid(u, p, key) == u.pending[p] # 0 /\ key = u.pending[p]

\* authGrantedIn of FileIngressAuthority.
FileGranted(u, p) == [u EXCEPT !.file[p].auth = TRUE]

\* authRevokedIn of FileIngressAuthority: the transfer under way is dropped.
FileRevoked(u, p) == [u EXCEPT !.file[p].drop = @ \/ u.file[p].auth, !.file[p].auth = FALSE]

\* establishAuth_ and the grants it sends to the two consumers.
EstablishAuth(u, p) ==
  [FileGranted(OpenSession(u, p, u.pending[p]), p) EXCEPT
     !.auth[p] = [active |-> TRUE, key |-> u.pending[p], idle |-> 0],
     !.pending[p] = 0]

\* revokeActiveAuth_ and the revocations it sends.
RevokeAuth(u, p) == [FileRevoked(CloseSession(u, p), p) EXCEPT !.auth[p] = NoAuth]

\* authInvalidateIn.
Invalidate(u, p) ==
  LET cleared == [u EXCEPT !.pending[p] = 0]
  IN  IF u.auth[p].active THEN RevokeAuth(cleared, p) ELSE cleared

\* authActivityIn.
Activity(u, p) == IF u.auth[p].active THEN [u EXCEPT !.auth[p].idle = 0] ELSE u

\* filePolicyIn of FileIngressAuthority.
FilePolicy(u, p, allowed) ==
  [u EXCEPT !.file[p].allowed = allowed, !.file[p].drop = @ \/ ~allowed]
-----------------------------------------------------------------------------
(* CommandSequenceWindow::evaluateAndAccept. *)

WindowOf(u, p) ==
  {w \in u.window : w.port = p /\ w.role = u.role[p] /\ w.id = u.session[p].id}

\* Mutant of WindowAccepts: the last number is accepted again.
WindowAcceptsEqual(u, p, n) ==
  IF WindowOf(u, p) = {} THEN Cardinality(u.window) < WindowSize
                         ELSE \A w \in WindowOf(u, p) : n >= w.last

WindowAccepts(u, p, n) ==
  IF WindowOf(u, p) = {} THEN Cardinality(u.window) < WindowSize
                         ELSE \A w \in WindowOf(u, p) : n > w.last

WindowAdvance(u, p, n) ==
  [u EXCEPT !.window = (@ \ WindowOf(u, p))
                         \cup {[port |-> p, role |-> u.role[p], id |-> u.session[p].id, last |-> n]},
            !.replayed = @ \/ <<u.session[p].key, n>> \in u.seen,
            !.seen = @ \cup {<<u.session[p].key, n>>}]

\* A packet of the command uplink has one of these forms: a secure command, one
\* whose layout parseSecureCommandV2 rejects, one whose sequence request does not
\* parse, the legacy envelope, a bare command, or no command packet at all.
Forms == {"SECURE", "DAMAGED", "BAD_REQUEST", "ENVELOPE_V1", "PLAIN", "UNPARSED"}

Layout(cmd) == cmd.form # "DAMAGED"

\* verifySecureCommandV2Auth.
MacValid(u, p, cmd) == cmd.key = u.session[p].key

\* parseSequenceControlRequest of a governed sequence command.
RequestParses(cmd) == cmd.opcode = "SEQ_CONTROL" => cmd.form # "BAD_REQUEST"

\* handleSecureCommandV2 up to the acceptance of the sequence number.
SecureReject(u, p, cmd) ==
  LET config == Config(Identity(p), u.role[p])
  IN  IF ~Layout(cmd) THEN "MALFORMED"
      ELSE IF ~u.session[p].open THEN "AUTH_REQUIRED"
      ELSE IF ~MacValid(u, p, cmd) THEN "BAD_MAC"
      ELSE IF AuthorityReject(config, cmd.opcode) # "NONE" THEN AuthorityReject(config, cmd.opcode)
      ELSE IF cmd.opcode = "SEQUENCER" THEN "POLICY_DENIED"
      ELSE IF ~RequestParses(cmd) THEN "INVALID_INNER_COMMAND"
      ELSE IF ~WindowAccepts(u, p, cmd.seq) THEN "SEQUENCE_NOT_INCREASING"
      ELSE "NONE"

\* seqCmdBuffIn on a port whose configuration is valid and managed by comm.
IngressReject(u, p, cmd) ==
  CASE cmd.form = "UNPARSED" -> "MALFORMED_RESTRICTED"
    [] cmd.form = "ENVELOPE_V1" -> "LEGACY_UNSUPPORTED"
    [] cmd.form = "PLAIN" -> "ENVELOPE_REQUIRED"
    [] OTHER -> SecureReject(u, p, cmd)

\* What validateDestinationPath may object to in the destination of a file, in
\* the order of its tests.
PathRejects == {"NOT_CONFIGURED", "EMPTY_PATH", "ABSOLUTE_PATH", "PARENT_REFERENCE",
                "PREFIX_MISMATCH", "INVALID_FILENAME", "SUBDIRECTORY_UNSUPPORTED",
                "SYMLINK_ESCAPE", "EXISTING_PATH_INVALID"}

\* The other outcomes: a good path, and a packet that cannot be rewritten for it.
StartPaths == PathRejects \cup {"NONE", "RUNTIME_REWRITE_FAILED"}

\* bufferSendIn with a START packet.
StartReject(u, p, path) ==
  CASE path \in PathRejects -> path
    [] path \notin PathRejects /\ ~u.file[p].auth -> "AUTH_REQUIRED"
    [] path \notin PathRejects /\ u.file[p].auth /\ ~u.file[p].allowed -> "ROLE_DENIED"
    [] OTHER -> path

\* updateAcceptedSessionSequence without the observer.
SequenceAccepted(u, p, n) == Activity([u EXCEPT !.session[p].last = n], p)

\* Mutant of MuxDispatch: the dispatch context is not advanced.
MuxDispatchSameContext(u, p) ==
  IF Cardinality(u.mux) >= MuxSlots THEN u
  ELSE [u EXCEPT !.mux = @ \cup {[ctx |-> u.muxNext, port |-> p]},
                 !.running = @ \cup {[ctx |-> u.muxNext, from |-> p]}]

\* CommandIngressMux::commandIn: a full table answers EXECUTION_ERROR at once.
\* running is what the command dispatcher (external) has not answered yet.
MuxDispatch(u, p) ==
  IF Cardinality(u.mux) >= MuxSlots THEN u
  ELSE [u EXCEPT !.mux = @ \cup {[ctx |-> u.muxNext, port |-> p]},
                 !.muxNext = @ + 1,
                 !.running = @ \cup {[ctx |-> u.muxNext, from |-> p]}]

\* commandStatusIn: the port the status of a dispatch context is sent to.
StatusPort(u, ctx) ==
  IF \E e \in u.mux : e.ctx = ctx THEN (CHOOSE e \in u.mux : e.ctx = ctx).port ELSE 0

MuxStatus(u, r) ==
  [u EXCEPT !.mux = {e \in @ : e.ctx # r.ctx}, !.running = @ \ {r}]
=============================================================================
