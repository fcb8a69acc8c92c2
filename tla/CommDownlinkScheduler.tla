----------------------- MODULE CommDownlinkScheduler -----------------------
(***************************************************************************)
(* CommDownlinkScheduler (OBC/Components/CommController) as operators on    *)
(* its fields s: one data product file is downlinked at a time, under a     *)
(* request context of the scheduler's own and a launch context given by     *)
(* whoever sends the file.  No code sets m_havePending, so the pending      *)
(* request is left out.                                                     *)
(***************************************************************************)
EXTENDS Integers

NO_ACTIVE_CONTEXT == -1
NoRequest == 0

SchedulerInit == [active |-> NoRequest, link |-> "SBAND", launch |-> NO_ACTIVE_CONTEXT, next |-> 1]

\* clearActive_.
ClearActive(s) == [s EXCEPT !.active = NoRequest, !.launch = NO_ACTIVE_CONTEXT]

\* submit on an available link; a context is allocated even when it is busy.
Submit(s, primary) ==
  IF s.active # NoRequest THEN [s EXCEPT !.next = @ + 1]
  ELSE [s EXCEPT !.active = s.next, !.link = primary, !.launch = NO_ACTIVE_CONTEXT, !.next = @ + 1]

\* confirmActiveLaunch.
Confirm(s, context) == IF s.active = NoRequest THEN s ELSE [s EXCEPT !.launch = context]

\* Mutant of Completes: any completion ends the active request.
CompletesAny(s, context) == s.active # NoRequest

\* The guards of complete.
Completes(s, context) ==
  s.active # NoRequest /\ s.launch # NO_ACTIVE_CONTEXT /\ context = s.launch

\* dropForLinkLoss drops the active request of that link.
Drops(s, band) == s.active # NoRequest /\ s.link = band
=============================================================================
