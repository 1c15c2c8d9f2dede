------------------------------ MODULE EndToEnd ------------------------------
(***************************************************************************)
(* Both services at once: the threads of evolution that run one manual     *)
(* test (ManualTest) and the threads and the child of the executor that    *)
(* run its task (AbTask), instead of the abstract executor (TaskView) that *)
(* ManualTest assumes.  The two meet in the requests: POST /ab/run makes   *)
(* the task, POST /ab/stop starts a stop handler, GET /ab/status and the   *)
(* trace endpoints read the task and its trace, and the executor notifies  *)
(* evolution of a task that failed.                                        *)
(*                                                                         *)
(* A stop is delivered while evolution waits for its answer, or never.     *)
(* The executor may restart: its threads are gone then, its child is not.  *)
(***************************************************************************)
EXTENDS AbTask

CONSTANT Ingests

VARIABLES row, runs, started, lost, listed, start, poll, pollRow, seen, misses,
          request,      \* the stop requests of evolution
          stopTrace, notice, ing, fetched, scan, scanned, del

\* Five 404s in a row (_MAX_NOT_FOUND)
Test == INSTANCE ManualTest_proofs WITH
    MaxNotFound <- 5, Statuses <- View!ShownStatuses, Verdicts <- TerminalEvents,
    verdict <- IF events = <<>> THEN "none" ELSE events[Len(events)],
    state <- index.status, phase <- index.phase, anchor <- index.manifest,
    asked <- \E r \in StopReqs : stop[r] \in {"mark", "dispatch", "200"},
    shown <- status, traced <- traceIds, stop <- request

\* What only threads of evolution write
ownVars == <<row, runs, start, poll, pollRow, seen, misses, stopTrace, ing, fetched, scan,
             scanned, del>>
wholeVars == <<vars, ownVars, request, started, lost, listed, notice>>

WholeInit == Init /\ Test!Init

-----------------------------------------------------------------------------

\* The request reaches the handler, which answers at some later time; evolution does not
\* depend on the answer.
Deliver(r) ==
    /\ request[r] = "post" /\ started /\ ~lost
    /\ request' = [request EXCEPT ![r] = "mark"]
    /\ StopCheck(r)
    /\ UNCHANGED <<ownVars, started, lost, listed, notice>>

\* The network, or an executor without the task, refuses it.
Drop(r) ==
    /\ request[r] = "post"
    /\ request' = [request EXCEPT ![r] = "mark"]
    /\ UNCHANGED <<vars, ownVars, started, lost, listed, notice>>

\* The other steps of evolution, which leave the executor alone.  It looks at a notice
\* that _notify_evolution_task_failed has sent.
Evolution ==
    /\ UNCHANGED vars
    /\ \/ Test!StartNext \/ Test!PollNext \/ Test!ScanNext \/ Test!DelNext \/ Test!NoticeMark
       \/ "task_failed" \in notified /\ Test!NoticeLook
       \/ \E r \in StopReqs : Test!StopRead(r) \/ Test!StopMark(r)
       \/ \E i \in Ingests : Test!IngestFetch(i) \/ Test!IngestWrites(i)

\* register_external_run goes with the trace id that _execute_ab has waited for.
Registers == ex = "record" /\ ex' = "loop" /\ wTrace

Failures == {"failed", "evidence_capture_failed"}

\* The steps of the executor; after a restart, of its child only.  A notice is there to be
\* sent once a failure shows.
Executor ==
    /\ started
    /\ \/ ChildNext
       \/ ~lost /\ (ExNext \/ CvNext \/ \E r \in StopReqs : StopProceeds(r))
    /\ listed' = (listed \/ Registers)
    /\ notice' = IF notice = "none" /\ status' \in Failures THEN "sent" ELSE notice
    /\ UNCHANGED <<ownVars, request, started, lost>>

Restarts == UNCHANGED vars /\ Test!ExecRestarts

WholeNext ==
    \/ Evolution \/ Executor \/ Restarts
    \/ \E r \in StopReqs : Deliver(r) \/ Drop(r)

WholeSpec == WholeInit /\ [][WholeNext]_wholeVars

-----------------------------------------------------------------------------
(* Properties *)

\* The executor's threads and its child are, to evolution, the executor that ManualTest
\* assumes.
TestSeen == Test!Init /\ [][Test!TestNext]_(Test!testVars)

\* A test is done only if the child itself completed the run: no seal, stop, restart, old
\* copy or late answer on the way from the child's last line to the row makes one up.
DoneIsTheChilds ==
    row.status = "done" => outcome = "completed" /\ events = <<"run_end">> /\ row.trace

\* Whatever cancels - the child, the seal, the task's status, the trace's index, the test -
\* does so only after evolution has accepted a stop of this test.
CancelIsTheUsers ==
    \/ row.status = "cancelled" \/ outcome = "cancelled" \/ index.status = "cancelled"
    \/ events = <<"run_cancelled">> \/ cancelFlag
    \/ status \in {"cancelling", "cancelled", "cancel_timeout", "unknown"}
    => \E r \in StopReqs : request[r] \in {"post", "mark", "stopped"}

=============================================================================
