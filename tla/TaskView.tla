------------------------------ MODULE TaskView ------------------------------
(***************************************************************************)
(* What a client of /internal/ab relies on: the status and the trace id    *)
(* that GET /ab/status shows for one task, together with the life of the   *)
(* task's trace (TraceLife).  A task shows "done" only when its trace is    *)
(* completed and sealed, and then it shows the trace too; nothing is ever   *)
(* cancelled that nobody asked to cancel; "running" is never shown again.   *)
(* Which status follows which is NOT promised: a stop that raced the end of *)
(* the run may put "cancelling" over a terminal status.                     *)
(*                                                                         *)
(* AbTask implements this specification; ManualTest runs evolution against *)
(* it.                                                                     *)
(***************************************************************************)
EXTENDS TraceLife

VARIABLES asked,        \* a POST /ab/stop has been received
          shown,        \* status of GET /ab/status
          traced        \* TRUE iff its trace_ids holds the trace

viewVars == <<lifeVars, asked, shown, traced>>

\* Statuses that only a cancellation brings about.
CancelStatuses == {"cancelling", "cancelled", "cancel_timeout", "unknown"}
ShownStatuses == {"done", "failed", "evidence_capture_failed"} \cup CancelStatuses

ViewInit ==
    /\ LifeInit
    /\ asked = FALSE
    /\ shown = "running"
    /\ traced = FALSE

Ask ==
    /\ asked' = TRUE
    /\ UNCHANGED <<lifeVars, shown, traced>>

TraceStep ==
    /\ LifeNext
    /\ asked \/ (verdict' # "run_cancelled" /\ state' # "cancelled")
    /\ UNCHANGED <<asked, shown, traced>>

ShowTrace ==
    /\ state # "absent"
    /\ traced' = TRUE
    /\ UNCHANGED <<lifeVars, asked, shown>>

Show(s) ==
    /\ s \in CancelStatuses => asked
    /\ shown' = s
    /\ traced' \in BOOLEAN /\ (traced => traced') /\ (traced' => traced \/ state # "absent")
    /\ s = "done" => state = "completed" /\ phase = "sealed" /\ traced'
    /\ UNCHANGED <<lifeVars, asked>>

ViewNext ==
    \/ Ask \/ TraceStep \/ ShowTrace
    \/ \E s \in ShownStatuses : Show(s)

ViewSpec == ViewInit /\ [][ViewNext]_viewVars

\* The values that a trace and a task's status can have.
ViewTypeOK ==
    /\ verdict \in TerminalEvents \cup {None}
    /\ state \in Outcomes \cup {"absent", "running"}
    /\ phase \in {"none", "recording", "sealing", "sealed"}
    /\ anchor \in TerminalEvents \cup {None}
    /\ shown \in ShownStatuses \cup {"running"}
    /\ <<asked, traced>> \in BOOLEAN \X BOOLEAN

=============================================================================
