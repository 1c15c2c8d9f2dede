------------------------------ MODULE TraceLife ------------------------------
(***************************************************************************)
(* What the rest of the system relies on about ONE trace in a workspace:   *)
(* the trace gets at most one verdict (its terminal event), its index      *)
(* entry leaves "recording" only after that, a manifest names the verdict, *)
(* and an entry that says completed, failed or cancelled keeps saying so.  *)
(* The entry's outcome is that of the verdict, or cancelled over it.       *)
(* AbTask, where a child process and a convergence thread of its parent    *)
(* both write the trace, implements this specification; and so does every  *)
(* trace of Generation, until the scanner's thread cancels one.            *)
(***************************************************************************)

EXTENDS TraceData

VARIABLES verdict,      \* the terminal event on disk
          state,        \* the status of the index entry
          phase,        \* trace_phase of the index entry
          anchor        \* the terminal event the manifest names

\* No terminal event, no manifest.
None == "none"

lifeVars == <<verdict, state, phase, anchor>>

LifeInit ==
    /\ verdict = None
    /\ state = "absent"
    /\ phase = "none"
    /\ anchor = None

Open ==
    /\ state = "absent"
    /\ state' = "running"
    /\ phase' = "recording"
    /\ UNCHANGED <<verdict, anchor>>

Judge(v) ==
    /\ state # "absent"
    /\ verdict = None
    /\ verdict' = v
    /\ UNCHANGED <<state, phase, anchor>>

Close(s) ==
    /\ verdict # None
    /\ state \notin NotTakenOver
    /\ s = "cancelled" \/ verdict = EventOf(s)
    /\ state' = s
    /\ phase' = "sealing"
    /\ UNCHANGED <<verdict, anchor>>

Seal ==
    /\ phase = "sealing"
    /\ phase' = "sealed"
    /\ anchor' = verdict
    /\ UNCHANGED <<verdict, state>>

LifeNext ==
    \/ Open
    \/ \E v \in TerminalEvents : Judge(v)
    \/ \E s \in Outcomes : Close(s)
    \/ Seal

LifeSpec == LifeInit /\ [][LifeNext]_lifeVars

=============================================================================
