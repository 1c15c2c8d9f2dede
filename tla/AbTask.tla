------------------------------- MODULE AbTask -------------------------------
(***************************************************************************)
(* One A/B task of the executor: the entry of _ab_tasks, the background    *)
(* thread _execute_ab, the HTTP handlers of POST /ab/stop, the convergence *)
(* thread they start, the isolated child process that generates, the queue *)
(* between them, and the trace the child (and, after a kill, its parent)   *)
(* leaves in the workspace.                                                *)
(*                                                                         *)
(* Every thread has a program counter; a step is the code between two      *)
(* accesses to state that another thread or the child can see.             *)
(***************************************************************************)
EXTENDS TraceData, CancelState, Sequences, Naturals

CONSTANT StopReqs       \* the POST /ab/stop requests that may arrive

VARIABLES
    \* the entry of _ab_tasks
    status,             \* task["status"]
    traceIds,           \* TRUE iff task["trace_ids"] holds the trace
    worker,             \* TRUE iff task["worker"] is registered
    convergeStarted,    \* task["converge_started"]
    audit,              \* converge_status of task["cancel_audit"]
    \* the threads
    ex, exResult,       \* _execute_ab; the result it is about to write
    stop,                       \* pc of each stop request
    cv, cvTrace, cvResult,      \* convergence thread; its trace_id and result
    hold,               \* message taken off the queue, not applied yet
    \* the worker object
    cancelFlag,         \* worker._cancel_event
    queue,              \* worker._result_queue
    wTrace,             \* TRUE iff worker._trace_id is known
    lastResult,         \* worker._last_result
    \* the child process
    child, outcome,     \* its pc; how its run ended
    \* the workspace on disk
    events,             \* terminal events in the trace's jsonl
    index,              \* the trace's entry of index.json
    torn,               \* the jsonl ends in a line cut by a kill
    \* what evolution has been told
    notified

taskVars == <<status, traceIds, worker, convergeStarted, audit>>
exVars == <<ex, exResult>>
cvVars == <<cv, cvTrace, cvResult>>
workerVars == <<cancelFlag, queue, wTrace, lastResult>>
childVars == <<child, outcome>>
diskVars == <<events, index, torn>>
vars == <<taskVars, exVars, stop, cvVars, hold, workerVars, childVars,
          diskVars, notified>>

-----------------------------------------------------------------------------
(* Data *)

Results == {"done", "failed", "evidence_capture_failed", "cancelled"}
TaskStates == Results \cup {"running", "cancelling", "cancel_timeout", "unknown"}

\* A WorkerResult: its status, and whether it carries the trace_id.
WorkerResults == [kind : {"result"}, status : Results \cup {"unknown", "cancel_timeout"}, trace : BOOLEAN]
Result(s, t) == [kind |-> "result", status |-> s, trace |-> t]
TraceMsg == [kind |-> "trace_id", status |-> "running", trace |-> TRUE]
None == [kind |-> "none", status |-> "unknown", trace |-> FALSE]
ResultMsgs == [kind : {"result"}, status : Results, trace : BOOLEAN]
Messages == {TraceMsg} \cup ResultMsgs

\* The trace's entry of index.json; manifest is the terminal event its manifest names.
Entries == [status : Outcomes \cup {"absent", "running"},
            phase : {"none", "recording", "sealing", "sealed"},
            manifest : TerminalEvents \cup {"none"}, audit : BOOLEAN]
NoEntry == [status |-> "absent", phase |-> "none", manifest |-> "none", audit |-> FALSE]

\* The child exists as a process and still executes code of its own.
Executing == {"boot", "created", "agent", "streamed", "ended", "sealing", "sealed", "exiting"}
\* is_alive(): a process that was sent SIGKILL may linger before it is reaped.
IsAlive == child \in Executing \cup {"doomed"}

Init ==
    /\ status = "running" /\ traceIds = FALSE /\ worker = FALSE
    /\ convergeStarted = FALSE /\ audit = "none"
    /\ ex = "start" /\ exResult = None
    /\ stop = [r \in StopReqs |-> "idle"]
    /\ cv = "none" /\ cvTrace = FALSE /\ cvResult = None
    /\ hold = [t \in {"ex", "cv"} |-> None]
    /\ cancelFlag = FALSE /\ queue = <<>> /\ wTrace = FALSE /\ lastResult = None
    /\ child = "none" /\ outcome = "none"
    /\ events = <<>> /\ index = NoEntry /\ torn = FALSE
    /\ notified = {}

-----------------------------------------------------------------------------
(* The worker's queue, drained by two threads *)

\* get / get_nowait: the message is off the queue before its fields are stored.
Take(t) ==
    /\ queue # <<>> /\ hold[t] = None
    /\ hold' = [hold EXCEPT ![t] = Head(queue)]
    /\ queue' = Tail(queue)
    /\ UNCHANGED <<cancelFlag, wTrace, lastResult>>

\* Under worker._lock: store the trace id, or the result and the id it carries.
Apply(t) ==
    /\ hold[t] # None
    /\ wTrace' = (wTrace \/ hold[t].trace)
    /\ lastResult' = IF hold[t].kind = "result" THEN hold[t] ELSE lastResult
    /\ hold' = [hold EXCEPT ![t] = None]
    /\ UNCHANGED <<cancelFlag, queue>>

Drained(t) == queue = <<>> /\ hold[t] = None

-----------------------------------------------------------------------------
(* The background thread: _execute_ab *)

\* Its except clause, whatever status the task has by then.
ExFail ==
    /\ status' = "failed"
    /\ notified' = notified \cup {"task_failed"}
    /\ ex' = "returned"
    /\ UNCHANGED <<exResult, traceIds, worker, convergeStarted, audit>>

ExPrepareFails ==
    /\ ex = "start"
    /\ ExFail
    /\ UNCHANGED <<stop, cvVars, hold, workerVars, childVars, diskVars>>

ExRegisterWorker ==
    /\ ex = "start"
    /\ ex' = "registered"
    /\ worker' = TRUE
    /\ UNCHANGED <<status, traceIds, convergeStarted, audit, exResult,
                   stop, cvVars, hold, workerVars, childVars, diskVars, notified>>

\* worker.start(): self._process is assigned before the process is spawned.
ExAssignProcess ==
    /\ ex = "registered"
    /\ ex' = "starting"
    /\ child' = "unstarted"
    /\ UNCHANGED <<taskVars, exResult, stop, cvVars, hold, workerVars,
                   outcome, diskVars, notified>>

ExSpawn ==
    /\ ex = "starting"
    /\ ex' = "waiting"
    /\ child' = "boot"
    /\ UNCHANGED <<taskVars, exResult, stop, cvVars, hold, workerVars,
                   outcome, diskVars, notified>>

ExSpawnFails ==
    /\ ex = "starting"
    /\ ExFail
    /\ UNCHANGED <<stop, cvVars, hold, workerVars, childVars, diskVars>>

ExTake ==
    /\ ex \in {"waiting", "waitDrain", "drain"}
    /\ Take("ex")
    /\ UNCHANGED <<taskVars, exVars, stop, cvVars, childVars, diskVars, notified>>

\* wait_for_trace_id returns on its first message; a drain goes on.
ExApply ==
    /\ ex \in {"waiting", "waitDrain", "drain"}
    /\ Apply("ex")
    /\ ex' = IF ex = "waiting" THEN "record" ELSE ex
    /\ UNCHANGED <<taskVars, exResult, stop, cvVars, childVars, diskVars,
                   notified>>

ExWaitSeesExit ==
    /\ ex = "waiting" /\ hold["ex"] = None
    /\ ~IsAlive
    /\ ex' = "waitDrain"
    /\ UNCHANGED <<taskVars, exResult, stop, cvVars, hold, workerVars,
                   childVars, diskVars, notified>>

\* The wait ends: the child is gone and the queue empty, or 300 s have passed.
ExWaitEnds ==
    /\ \/ ex = "waitDrain" /\ Drained("ex")
       \/ ex = "waiting" /\ hold["ex"] = None
    /\ ex' = "record"
    /\ UNCHANGED <<taskVars, exResult, stop, cvVars, hold, workerVars,
                   childVars, diskVars, notified>>

ExRecordTrace ==
    /\ ex = "record"
    /\ traceIds' = (traceIds \/ wTrace)
    /\ ex' = "loop"
    /\ UNCHANGED <<status, worker, convergeStarted, audit, exResult, stop,
                   cvVars, hold, workerVars, childVars, diskVars, notified>>

ExPoll ==
    /\ ex = "loop"
    /\ ex' = IF IsAlive THEN "slept" ELSE "drain"
    /\ UNCHANGED <<taskVars, exResult, stop, cvVars, hold, workerVars,
                   childVars, diskVars, notified>>

\* After the sleep: leave the task to the convergence thread if it is cancelling.
ExYield ==
    /\ ex = "slept"
    /\ ex' = IF status = "cancelling" THEN "returned" ELSE "loop"
    /\ UNCHANGED <<taskVars, exResult, stop, cvVars, hold, workerVars,
                   childVars, diskVars, notified>>

\* Reads the result and the current status, and decides whether it may write.
ExCollect ==
    /\ ex = "drain" /\ Drained("ex")
    /\ exResult' = lastResult
    /\ ex' = IF lastResult # None /\ CanTransitionTo(status, lastResult.status)
             THEN "write" ELSE "returned"
    /\ UNCHANGED <<taskVars, stop, cvVars, hold, workerVars, childVars, diskVars,
                   notified>>

ExWrite ==
    /\ ex = "write"
    /\ status' = exResult.status
    /\ traceIds' = (traceIds \/ exResult.trace)
    /\ notified' = IF exResult.status \in {"failed", "evidence_capture_failed"}
                   THEN notified \cup {"task_failed"} ELSE notified
    /\ ex' = "returned"
    /\ UNCHANGED <<worker, convergeStarted, audit, exResult, stop, cvVars,
                   hold, workerVars, childVars, diskVars>>

ExNext ==
    \/ ExPrepareFails \/ ExRegisterWorker \/ ExAssignProcess \/ ExSpawn \/ ExSpawnFails
    \/ ExTake \/ ExApply \/ ExWaitSeesExit \/ ExWaitEnds \/ ExRecordTrace
    \/ ExPoll \/ ExYield \/ ExCollect \/ ExWrite

-----------------------------------------------------------------------------
(* The child process: _worker_main, run_ab_generation and its recorder *)

ChildCreateRun ==
    /\ child = "boot"
    /\ child' = "created"
    /\ index' = [index EXCEPT !.status = "running", !.phase = "recording"]
    /\ UNCHANGED <<taskVars, exVars, stop, cvVars, hold, workerVars, outcome,
                   events, torn, notified>>

\* An exception outside run_ab_generation's try: before the trace exists, or
\* between create_run and on_trace_created. No terminal event is written.
ChildFailsEarly ==
    /\ child \in {"boot", "created"}
    /\ child' = "exiting"
    /\ queue' = Append(queue, Result("failed", FALSE))
    /\ UNCHANGED <<taskVars, exVars, stop, cvVars, hold, cancelFlag, wTrace,
                   lastResult, outcome, diskVars, notified>>

ChildAnnounce ==
    /\ child = "created"
    /\ child' = "agent"
    /\ queue' = Append(queue, TraceMsg)
    /\ UNCHANGED <<taskVars, exVars, stop, cvVars, hold, cancelFlag, wTrace,
                   lastResult, outcome, diskVars, notified>>

\* The stream is exhausted; the flag was clear at its last super-step boundary.
ChildStreamEnds ==
    /\ child = "agent" /\ ~cancelFlag
    /\ child' = "streamed"
    /\ UNCHANGED <<taskVars, exVars, stop, cvVars, hold, workerVars, outcome,
                   diskVars, notified>>

\* complete_run, cancel_run, fail_run, fail_evidence_capture_run: the terminal event.
ChildEnds(o) ==
    /\ \/ child = "streamed" /\ o = "completed"
       \/ child = "agent" /\ o = "cancelled" /\ cancelFlag
       \/ child = "agent" /\ o \in {"failed", "evidence_capture_failed"}
    /\ outcome' = o
    /\ events' = Append(events, EventOf(o))
    /\ child' = "ended"
    /\ UNCHANGED <<taskVars, exVars, stop, cvVars, hold, workerVars, index, torn,
                   notified>>

\* _finalize_run up to its first index write ...
ChildIndexes ==
    /\ child = "ended"
    /\ child' = "sealing"
    /\ index' = [index EXCEPT !.status = outcome, !.phase = "sealing"]
    /\ UNCHANGED <<taskVars, exVars, stop, cvVars, hold, workerVars, outcome,
                   events, torn, notified>>

\* ... then the manifest, the second index write and the notification.
ChildSeals ==
    /\ child = "sealing"
    /\ child' = "sealed"
    /\ index' = [index EXCEPT !.phase = "sealed", !.manifest = events[Len(events)]]
    /\ notified' = notified \cup {outcome}
    /\ UNCHANGED <<taskVars, exVars, stop, cvVars, hold, workerVars, outcome,
                   events, torn>>

\* Mutant: the trace's vocabulary (completed) leaks into the task's (done).
ChildReportsOutcome ==
    /\ child = "sealed"
    /\ child' = "exiting"
    /\ queue' = Append(queue, Result(outcome, TRUE))
    /\ UNCHANGED <<taskVars, exVars, stop, cvVars, hold, cancelFlag, wTrace,
                   lastResult, outcome, diskVars, notified>>

\* Mutant: the cancel flag is not looked at when the run returns.
ChildReportsDone ==
    /\ child = "sealed"
    /\ child' = "exiting"
    /\ queue' = Append(queue, Result(
            IF outcome \in {"completed", "cancelled"} THEN "done" ELSE outcome, TRUE))
    /\ UNCHANGED <<taskVars, exVars, stop, cvVars, hold, cancelFlag, wTrace,
                   lastResult, outcome, diskVars, notified>>

\* _worker_main's verdict on the task: a set flag outweighs a completed run.
ChildReports ==
    /\ child = "sealed"
    /\ child' = "exiting"
    /\ queue' = Append(queue, Result(
            IF outcome \notin {"completed", "cancelled"} THEN outcome
            ELSE IF cancelFlag THEN "cancelled" ELSE "done", TRUE))
    /\ UNCHANGED <<taskVars, exVars, stop, cvVars, hold, cancelFlag, wTrace,
                   lastResult, outcome, diskVars, notified>>

ChildExits ==
    /\ child \in {"exiting", "doomed"}
    /\ child' = "gone"
    /\ UNCHANGED <<taskVars, exVars, stop, cvVars, hold, workerVars, outcome,
                   diskVars, notified>>

\* A kill between two writes of one line leaves part of it in the jsonl.
TornBy(c) == IF c \in {"created", "agent", "streamed"} THEN BOOLEAN ELSE {torn}

\* Out of memory, a crash in native code, a signal from outside.
ChildCrashes ==
    /\ child \in Executing
    /\ child' = "gone"
    /\ torn' \in TornBy(child)
    /\ UNCHANGED <<taskVars, exVars, stop, cvVars, hold, workerVars, outcome,
                   events, index, notified>>

ChildNext ==
    \/ ChildCreateRun \/ ChildFailsEarly \/ ChildAnnounce \/ ChildStreamEnds
    \/ \E o \in Outcomes : ChildEnds(o)
    \/ ChildIndexes \/ ChildSeals \/ ChildReports \/ ChildExits \/ ChildCrashes

-----------------------------------------------------------------------------
(* The stop handlers: ab_stop *)

\* Reads the status: a terminal one is answered 409, else the cancel identity is set up.
StopCheck(r) ==
    /\ stop[r] = "idle"
    /\ stop' = [stop EXCEPT ![r] = IF status \in TerminalStates THEN "409" ELSE "mark"]
    /\ audit' = IF status \in TerminalStates \/ audit # "none" THEN audit ELSE "open"
    /\ UNCHANGED <<status, traceIds, worker, convergeStarted, exVars, cvVars, hold,
                   workerVars, childVars, diskVars, notified>>

\* record_cancel_requested raises for a trace of another process (swallowed), then
\* the status is written, whatever it has become since StopCheck.
StopMark(r) ==
    /\ stop[r] = "mark"
    /\ stop' = [stop EXCEPT ![r] = "dispatch"]
    /\ status' = "cancelling"
    /\ UNCHANGED <<traceIds, worker, convergeStarted, audit, exVars, cvVars, hold,
                   workerVars, childVars, diskVars, notified>>

StopLaunches(r) ==
    /\ stop[r] = "dispatch"
    /\ worker /\ ~convergeStarted
    /\ convergeStarted' = TRUE
    /\ cv' = "begin"
    /\ stop' = [stop EXCEPT ![r] = "200"]
    /\ UNCHANGED <<status, traceIds, worker, audit, exVars, cvTrace, cvResult, hold,
                   workerVars, childVars, diskVars, notified>>

StopAlreadyConverging(r) ==
    /\ stop[r] = "dispatch"
    /\ worker /\ convergeStarted
    /\ stop' = [stop EXCEPT ![r] = "200"]
    /\ UNCHANGED <<taskVars, exVars, cvVars, hold, workerVars, childVars, diskVars,
                   notified>>

\* No worker yet: the task's own cancel_event, which nothing reads, is set, and the
\* task is declared cancelled.
StopWithoutWorker(r) ==
    /\ stop[r] = "dispatch"
    /\ ~worker
    /\ status' = "cancelled"
    /\ audit' = "cancelled"
    /\ stop' = [stop EXCEPT ![r] = "200"]
    /\ UNCHANGED <<traceIds, worker, convergeStarted, exVars, cvVars, hold,
                   workerVars, childVars, diskVars, notified>>

StopProceeds(r) ==
    \/ StopMark(r) \/ StopLaunches(r) \/ StopAlreadyConverging(r) \/ StopWithoutWorker(r)

-----------------------------------------------------------------------------
(* The convergence thread: _run_cancel_convergence, stop_and_collect and       *)
(* seal_external_cancel                                                        *)

\* stop_and_collect with no process: the last result, or "unknown".
CvNoProcess ==
    /\ cv = "begin" /\ child = "none"
    /\ cvTrace' = wTrace
    /\ cvResult' = IF lastResult # None THEN lastResult ELSE Result("unknown", FALSE)
    /\ cv' = "publish"
    /\ UNCHANGED <<taskVars, exVars, stop, hold, workerVars, childVars, diskVars,
                   notified>>

CvSetFlag ==
    /\ cv = "begin" /\ child # "none"
    /\ cvTrace' = wTrace
    /\ cancelFlag' = TRUE
    /\ cv' = "joining"
    /\ UNCHANGED <<taskVars, exVars, stop, cvResult, hold, queue, wTrace, lastResult,
                   childVars, diskVars, notified>>

\* join() asserts on a process that was not started; the outer except answers
\* cancel_timeout, and there is no trace to seal yet.
CvJoinRaises ==
    /\ cv = "joining" /\ child = "unstarted"
    /\ status' = "cancel_timeout"
    /\ audit' = "cancel_timeout"
    /\ cv' = "done"
    /\ UNCHANGED <<traceIds, worker, convergeStarted, exVars, stop, cvTrace, cvResult,
                   hold, workerVars, childVars, diskVars, notified>>

CvJoined ==
    /\ cv = "joining" /\ child = "gone"
    /\ cv' = "drain"
    /\ UNCHANGED <<taskVars, exVars, stop, cvTrace, cvResult, hold, workerVars,
                   childVars, diskVars, notified>>

\* Mutant: a SIGTERM that a child blocked in native code does not act on.
CvTerminate ==
    /\ cv = "joining" /\ child \in Executing
    /\ cv' = "killed"
    /\ UNCHANGED <<taskVars, exVars, stop, cvTrace, cvResult, hold, workerVars,
                   childVars, diskVars, notified>>

\* The deadline passes: SIGKILL. The child runs no more code from here on.
CvKill ==
    /\ cv = "joining" /\ child \in Executing
    /\ child' = "doomed"
    /\ torn' \in TornBy(child)
    /\ cv' = "killed"
    /\ UNCHANGED <<taskVars, exVars, stop, cvTrace, cvResult, hold, workerVars,
                   outcome, events, index, notified>>

\* Mutant: join() without a timeout.
CvWaitsForReaping ==
    /\ cv = "killed" /\ child = "gone"
    /\ cv' = "drain"
    /\ UNCHANGED <<taskVars, exVars, stop, cvTrace, cvResult, hold, workerVars,
                   childVars, diskVars, notified>>

\* join(2.0) returns, whether or not the process has been reaped.
CvAfterKill ==
    /\ cv = "killed"
    /\ cv' = "drain"
    /\ UNCHANGED <<taskVars, exVars, stop, cvTrace, cvResult, hold, workerVars,
                   childVars, diskVars, notified>>

CvTake ==
    /\ cv = "drain"
    /\ Take("cv")
    /\ UNCHANGED <<taskVars, exVars, stop, cvVars, childVars, diskVars, notified>>

CvApply ==
    /\ cv = "drain"
    /\ Apply("cv")
    /\ UNCHANGED <<taskVars, exVars, stop, cvVars, childVars, diskVars, notified>>

\* No result in the queue is read as: cancelled.
CvCollect ==
    /\ cv = "drain" /\ Drained("cv")
    /\ cvResult' = IF lastResult # None THEN lastResult ELSE Result("cancelled", wTrace)
    /\ cv' = "publish"
    /\ UNCHANGED <<taskVars, exVars, stop, cvTrace, hold, workerVars, childVars,
                   diskVars, notified>>

CvPublish ==
    /\ cv = "publish"
    /\ status' = cvResult.status
    /\ traceIds' = (traceIds \/ cvResult.trace)
    /\ cvTrace' = (cvTrace \/ cvResult.trace)
    /\ cv' = IF cvTrace' THEN "seal" ELSE "close"
    /\ UNCHANGED <<worker, convergeStarted, audit, exVars, stop, cvResult, hold,
                   workerVars, childVars, diskVars, notified>>

\* Mutant: a trace that has its outcome is taken over as well.
CvSealsAnything ==
    /\ cv = "seal"
    /\ cv' = "sealEvent" /\ index' = [index EXCEPT !.audit = TRUE]
    /\ UNCHANGED <<taskVars, exVars, stop, cvTrace, cvResult, hold, workerVars,
                   childVars, events, torn, notified>>

\* The monotone guard of seal_external_cancel, then the audit into the index.
CvSealGuard ==
    /\ cv = "seal"
    /\ IF index.status \in NotTakenOver
       THEN cv' = "close" /\ UNCHANGED index
       ELSE cv' = "sealEvent" /\ index' = [index EXCEPT !.audit = TRUE]
    /\ UNCHANGED <<taskVars, exVars, stop, cvTrace, cvResult, hold, workerVars,
                   childVars, events, torn, notified>>

\* Mutant: the failed seal is logged and no more.
CvSealRaisesSilently ==
    /\ cv = "sealEvent" /\ torn
    /\ cv' = "close"
    /\ UNCHANGED <<taskVars, exVars, stop, cvTrace, cvResult,
                   hold, workerVars, childVars, diskVars, notified>>

\* Reading the events fails on a torn line: the task becomes cancel_timeout.
CvSealRaises ==
    /\ cv = "sealEvent" /\ torn
    /\ status' = "cancel_timeout"
    /\ cvResult' = [cvResult EXCEPT !.status = "cancel_timeout"]
    /\ cv' = "close"
    /\ UNCHANGED <<traceIds, worker, convergeStarted, audit, exVars, stop, cvTrace,
                   hold, workerVars, childVars, diskVars, notified>>

\* Mutant: run_cancelled is appended without looking at the disk.
CvSealEventAlways ==
    /\ cv = "sealEvent" /\ ~torn
    /\ events' = Append(events, "run_cancelled")
    /\ cv' = "sealIndex"
    /\ UNCHANGED <<taskVars, exVars, stop, cvTrace, cvResult, hold, workerVars,
                   childVars, index, torn, notified>>

\* run_cancelled, unless a terminal event is on disk already.
CvSealEvent ==
    /\ cv = "sealEvent" /\ ~torn
    /\ events' = IF events = <<>> THEN Append(events, "run_cancelled") ELSE events
    /\ cv' = "sealIndex"
    /\ UNCHANGED <<taskVars, exVars, stop, cvTrace, cvResult, hold, workerVars,
                   childVars, index, torn, notified>>

\* _finalize_run again, with status cancelled in either case.
CvSealIndex ==
    /\ cv = "sealIndex"
    /\ index' = [index EXCEPT !.status = "cancelled", !.phase = "sealing"]
    /\ cv' = "sealManifest"
    /\ UNCHANGED <<taskVars, exVars, stop, cvTrace, cvResult, hold, workerVars,
                   childVars, events, torn, notified>>

CvSealManifest ==
    /\ cv = "sealManifest"
    /\ index' = [index EXCEPT !.phase = "sealed", !.manifest = events[Len(events)]]
    /\ notified' = notified \cup {"cancelled"}
    /\ cv' = "close"
    /\ UNCHANGED <<taskVars, exVars, stop, cvTrace, cvResult, hold, workerVars,
                   childVars, events, torn>>

CvClose ==
    /\ cv = "close"
    /\ audit' = IF cvResult.status = "cancelled" THEN "cancelled" ELSE "cancel_timeout"
    /\ cv' = "done"
    /\ UNCHANGED <<status, traceIds, worker, convergeStarted, exVars, stop, cvTrace,
                   cvResult, hold, workerVars, childVars, diskVars, notified>>

CvNext ==
    \/ CvNoProcess \/ CvSetFlag \/ CvJoinRaises \/ CvJoined \/ CvKill \/ CvAfterKill
    \/ CvTake \/ CvApply \/ CvCollect \/ CvPublish
    \/ CvSealGuard \/ CvSealRaises \/ CvSealEvent \/ CvSealIndex \/ CvSealManifest
    \/ CvClose

-----------------------------------------------------------------------------

Next ==
    \/ ExNext
    \/ ChildNext
    \/ CvNext
    \/ \E r \in StopReqs : StopCheck(r) \/ StopProceeds(r)

\* Threads of the executor are scheduled; a request, once admitted, is served. Nothing
\* is assumed of the child, which may hang in a model or tool call for ever.
Fairness ==
    /\ WF_vars(ExNext)
    /\ WF_vars(CvNext)
    /\ \A r \in StopReqs : WF_vars(StopProceeds(r))

Spec == Init /\ [][Next]_vars /\ Fairness

-----------------------------------------------------------------------------
(* Properties *)

TaskTypes ==
    /\ status \in TaskStates /\ traceIds \in BOOLEAN /\ worker \in BOOLEAN
    /\ convergeStarted \in BOOLEAN
    /\ audit \in {"none", "open", "cancelled", "cancel_timeout"}

ThreadTypes ==
    /\ ex \in {"start", "registered", "starting", "waiting", "waitDrain", "record",
               "loop", "slept", "drain", "write", "returned"}
    /\ exResult \in ResultMsgs \cup {None}
    /\ stop \in [StopReqs -> {"idle", "mark", "dispatch", "200", "409"}]
    /\ cv \in {"none", "begin", "joining", "killed", "drain", "publish", "seal",
               "sealEvent", "sealIndex", "sealManifest", "close", "done"}
    /\ cvTrace \in BOOLEAN /\ cvResult \in WorkerResults \cup {None}
    /\ hold \in [{"ex", "cv"} -> Messages \cup {None}]

WorkerTypes ==
    /\ cancelFlag \in BOOLEAN /\ queue \in Seq(Messages)
    /\ wTrace \in BOOLEAN /\ lastResult \in ResultMsgs \cup {None}

TraceTypes ==
    /\ child \in Executing \cup {"none", "unstarted", "doomed", "gone"}
    /\ outcome \in Outcomes \cup {"none"}
    /\ events \in Seq(TerminalEvents) /\ torn \in BOOLEAN
    /\ index \in Entries
    /\ notified \subseteq Outcomes \cup {"task_failed"}

\* The type invariant: the task entry, the threads of the executor, the worker object,
\* the child and its trace on disk hold values of their kinds only.
TypeOK == TaskTypes /\ ThreadTypes /\ WorkerTypes /\ TraceTypes

\* A trace has one terminal event, although the child and the convergence thread both
\* write one: the kill and the look at the disk order them (seal_external_cancel).
VerdictOnce == Len(events) <= 1

\* A task reported done has a trace that says completed and is sealed, whichever of
\* the two threads published the result and whatever a stop did meanwhile.
DoneMeansCompleted ==
    status = "done" => index.status = "completed" /\ index.phase = "sealed"

\* A convergence that closes its audit as cancelled has not left a trace it knew of
\* running: the trace carries a verdict, and its index entry an outcome.
ConvergedIsHonest ==
    cv = "done" /\ cvTrace /\ audit = "cancelled" =>
        events # <<>> /\ index.status \in Outcomes

\* A convergence that has got past join() has stopped the child, unless it met no process
\* (_execute_ab had not started one) and answers "unknown": whatever it publishes, seals or
\* reports, the workspace no longer changes under it (stop_and_collect).
ConvergedMeansStopped ==
    cv \notin {"none", "begin", "joining"} /\ child \in Executing => cvResult.status = "unknown"

\* What evolution was told of a run stands: the index entry goes on saying the outcome that
\* the child, or the seal, notified it of, and stays sealed. Only evidence_capture_failed may
\* be taken over as cancelled after it was told.
ToldOutcomeStands ==
    \A o \in notified \cap NotTakenOver : index.status = o /\ index.phase = "sealed"

\* The trace on disk lives as TraceLife says (mapping: its last terminal event is the
\* verdict), under every interleaving of child, kill and seal.
Life == INSTANCE TraceLife WITH
    verdict <- IF events = <<>> THEN "none" ELSE events[Len(events)],
    state <- index.status, phase <- index.phase, anchor <- index.manifest
TraceLives == Life!LifeSpec

\* What GET /ab/status shows fits the trace and the stop requests as TaskView says.
View == INSTANCE TaskView WITH
    verdict <- IF events = <<>> THEN "none" ELSE events[Len(events)],
    state <- index.status, phase <- index.phase, anchor <- index.manifest,
    asked <- \E r \in StopReqs : stop[r] \in {"mark", "dispatch", "200"},
    shown <- status, traced <- traceIds
TaskSeen == View!ViewSpec

\* Once stop_and_collect waits for a started child, the child stops executing, even one
\* that never reaches a super-step boundary (the hard stop of worker_process.py).
HardStop == cv = "joining" /\ child \in Executing ~> child \notin Executing

\* A convergence thread that was started closes its audit, even when the killed process
\* is never reaped.
ConvergenceCompletes == cv # "none" ~> cv = "done" /\ audit # "open"

\* internal.py:685 - cancelled is committed only when the local execution has exited and
\* the trace has its run_cancelled and is sealed.
CancelledMeansStopped ==
    status = "cancelled" =>
        /\ child \notin Executing
        /\ index.status = "absent" \/ index.phase = "sealed"

\* recorder.py:703 - the seal does not override a completed verdict that the child wrote
\* before the kill took effect.
VerdictKept == events = <<"run_end">> => index.status # "cancelled"

\* internal.py:590 - a stop that was answered converges to a terminal status.
StopConverges ==
    \A r \in StopReqs : stop[r] = "200" ~> status \in TerminalStates

=============================================================================
