----------------------------- MODULE TraceData -----------------------------
(***************************************************************************)
(* The vocabulary of a trace: how a run can end, the terminal event that   *)
(* says so, and the index statuses that a seal from outside respects.      *)
(***************************************************************************)

\* Index statuses a run can end with.
Outcomes == {"completed", "failed", "evidence_capture_failed", "cancelled"}

\* Terminal events; run_capture_failed is a run_error with status evidence_capture_failed.
TerminalEvents == {"run_end", "run_error", "run_capture_failed", "run_cancelled"}

\* The terminal event of complete_run, fail_run, fail_evidence_capture_run, cancel_run.
EventOf(o) ==
    CASE o = "completed" -> "run_end"
      [] o = "failed" -> "run_error"
      [] o = "evidence_capture_failed" -> "run_capture_failed"
      [] o = "cancelled" -> "run_cancelled"

\* Index statuses that seal_external_cancel will not take over.
NotTakenOver == {"completed", "failed", "cancelled"}

=============================================================================
