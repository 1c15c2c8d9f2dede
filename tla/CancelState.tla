---------------------------- MODULE CancelState ----------------------------
(***************************************************************************)
(* The status vocabulary that executor and evolution share                 *)
(* (contracts/cancel_state.py) and its rule for moving between statuses.   *)
(***************************************************************************)

\* Statuses that a late write must not turn into another terminal status.
TerminalStates ==
    {"completed", "done", "failed", "evidence_capture_failed",
     "cancelled", "cancel_timeout", "interrupted"}

\* can_transition_to: leave a terminal status only from cancel_timeout, to cancelled.
CanTransitionTo(current, target) ==
    \/ current \notin TerminalStates
    \/ current = target
    \/ current = "cancel_timeout" /\ target = "cancelled"

=============================================================================
