----------------------------- MODULE ManualTest -----------------------------
(***************************************************************************)
(* One manual test of evolution: its row of manual_tests, the request that *)
(* starts it, the thread that polls the executor, the stop and delete      *)
(* handlers, the notification of a task that failed, and the ingestion of  *)
(* its trace (by notification or page refresh, and by the scan), which     *)
(* write the row and the trace's copy in runs.  The executor is TaskView,  *)
(* which AbTask implements.                                                *)
(*                                                                         *)
(* A thread keeps what it read in a variable, however old it is when it is *)
(* used: between a thread's reads, requests and writes any other may run.  *)
(***************************************************************************)
EXTENDS TaskView, CancelState, Naturals

CONSTANTS StopReqs,     \* POST /tests/{id}/stop requests
          Ingests,      \* executions of ingest_trace_now
          MaxNotFound,  \* 404s in a row that the poll thread tolerates
          Statuses,     \* statuses the task may show (all of ShownStatuses, or fewer)
          Verdicts      \* terminal events the trace may get (all, or fewer)

ASSUME MaxNotFoundAssumption == MaxNotFound \in Nat \ {0}
ASSUME StatusesAssumption == Statuses \subseteq ShownStatuses
ASSUME VerdictsAssumption == Verdicts \subseteq TerminalEvents

VARIABLES
    row,            \* the row of manual_tests
    runs,           \* the trace's row in runs, with the verdict among its events
    \* the executor's side that TaskView does not show
    started,        \* POST /ab/run has created the task
    lost,           \* the executor has restarted: its task table is empty
    listed,         \* the trace is in the executor's memory of traces, for GET /traces
    \* threads of evolution
    start,                          \* _start_test_internal
    poll, pollRow, seen, misses,    \* _poll_task_status
    stop, stopTrace,                \* stop_test, by request
    notice,                         \* the executor's "task failed" and _mark_test_failed_by_task
    ing, fetched,                   \* ingest_trace_now, by execution
    scan, scanned,                  \* _scan_once
    del                             \* delete_test

execVars == <<viewVars, started, lost, listed>>
pollVars == <<poll, pollRow, seen, misses>>
stopVars == <<stop, stopTrace>>
ingVars == <<ing, fetched>>
scanVars == <<scan, scanned>>
testVars == <<row, runs, execVars, start, pollVars, stopVars, notice, ingVars,
              scanVars, del>>

-----------------------------------------------------------------------------
(* Data *)

TestTerminal == {"done", "failed", "cancelled"}
Absent == [status |-> "absent", task |-> FALSE, trace |-> FALSE]
Rows == [status : TestTerminal \cup {"pending", "running"}, task : BOOLEAN, trace : BOOLEAN]
        \cup {Absent}
NoRun == [status |-> "absent", verdict |-> None]
Exists == row.status # "absent"

\* One UPDATE of the row by test_id, which finds no row once it is deleted.
MarkTraced(s, t) ==
    row' = IF Exists THEN [row EXCEPT !.status = s, !.trace = row.trace \/ t] ELSE row
Mark(s) == MarkTraced(s, FALSE)

\* set_trace_id: the first trace stays.
SetTrace(t) == MarkTraced(row.status, t)

\* What GET /internal/traces/{trace_id} returns: the verdict, if any, and the index status.
Copy == [verdict |-> verdict, hint |-> state]
NoCopy == [verdict |-> None, hint |-> "absent"]

\* An answer of GET /ab/status to forget, like NoCopy and Absent, once it has been used.
Nothing == [status |-> "running", trace |-> FALSE]

\* Mutant: without a terminal event the run has failed, whatever its index entry says.
StatusOfEvents(v, hint) ==
    CASE v = "run_end" -> "completed"
      [] v = "run_cancelled" -> "cancelled"
      [] v = "run_capture_failed" -> "evidence_capture_failed"
      [] OTHER -> "failed"

\* Mutant: a run whose events end without a verdict has been abandoned by its user.
StatusOfAbandoned(v, hint) ==
    IF v = None THEN "cancelled" ELSE StatusOfEvents(v, hint)

\* _derive_run_summary: the terminal event decides, unless that gives "failed".
StatusOf(v, hint) ==
    CASE v = "run_end" -> "completed"
      [] v = "run_cancelled" -> "cancelled"
      [] v = "run_capture_failed" -> "evidence_capture_failed"
      [] OTHER -> hint

\* ingest_events: fetched events join the stored ones, the status is derived from all.
Stored(c) ==
    LET v == IF runs.verdict # None THEN runs.verdict ELSE c.verdict
    IN  runs' = [status |-> StatusOf(v, c.hint), verdict |-> v]

Init ==
    /\ ViewInit
    /\ row = [status |-> "pending", task |-> FALSE, trace |-> FALSE]
    /\ runs = NoRun
    /\ started = FALSE /\ lost = FALSE /\ listed = FALSE
    /\ start = "post"
    /\ poll = "none" /\ pollRow = Absent /\ misses = 0
    /\ seen = Nothing
    /\ stop = [r \in StopReqs |-> "idle"] /\ stopTrace = [r \in StopReqs |-> FALSE]
    /\ notice = "none"
    /\ ing = [i \in Ingests |-> "idle"] /\ fetched = [i \in Ingests |-> NoCopy]
    /\ scan = "idle" /\ scanned = NoCopy
    /\ del = "idle"

-----------------------------------------------------------------------------
(* The executor: the steps of TaskView, and its restart *)

evoVars == <<start, pollVars, stopVars, notice, ingVars, scanVars, del>>

ExecTrace ==
    /\ started /\ TraceStep
    /\ verdict' \in Verdicts \cup {None}
    /\ UNCHANGED <<row, runs, started, lost, listed, evoVars>>

\* register_external_run follows at once.
ExecShowTrace ==
    /\ started /\ ~lost /\ ShowTrace
    /\ listed' = TRUE
    /\ UNCHANGED <<row, runs, started, lost, evoVars>>

ExecShow(s) ==
    /\ started /\ ~lost /\ Show(s)
    /\ notice' = IF notice = "none" /\ s \in {"failed", "evidence_capture_failed"}
                 THEN "sent" ELSE notice
    /\ UNCHANGED <<row, runs, started, lost, listed, start, pollVars, stopVars, ingVars,
                   scanVars, del>>

ExecRestarts ==
    /\ started /\ ~lost
    /\ lost' = TRUE /\ listed' = FALSE
    /\ UNCHANGED <<row, runs, viewVars, started, evoVars>>

-----------------------------------------------------------------------------
(* _start_test_internal *)

StartPost ==
    /\ start = "post"
    /\ start' = "mark" /\ started' = TRUE
    /\ UNCHANGED <<row, runs, viewVars, lost, listed, pollVars, stopVars, notice,
                   ingVars, scanVars, del>>

\* The request fails, or its answer is lost after the task was created.
StartPostFails ==
    /\ start = "post"
    /\ start' = "fail" /\ started' \in BOOLEAN
    /\ UNCHANGED <<row, runs, viewVars, lost, listed, pollVars, stopVars, notice,
                   ingVars, scanVars, del>>

StartFails ==
    /\ start = "fail"
    /\ start' = "end" /\ Mark("failed")
    /\ UNCHANGED <<runs, execVars, pollVars, stopVars, notice, ingVars, scanVars, del>>

\* mark_running, then the poll thread is started.
StartMark ==
    /\ start = "mark"
    /\ start' = "end" /\ poll' = "sleep"
    /\ row' = IF Exists THEN [row EXCEPT !.status = "running", !.task = TRUE] ELSE row
    /\ UNCHANGED <<runs, execVars, pollRow, seen, misses, stopVars, notice, ingVars,
                   scanVars, del>>

-----------------------------------------------------------------------------
(* _poll_task_status *)

pollIdle == <<runs, execVars, start, stopVars, notice, ingVars, scanVars, del>>

PolledToEnd == {"done", "failed", "evidence_capture_failed", "cancelled", "cancel_timeout"}

PollEnds == poll' = "end" /\ pollRow' = Absent /\ seen' = Nothing /\ misses' = 0
PollSleeps == poll' = "sleep" /\ pollRow' = Absent /\ seen' = Nothing

PollRead ==
    /\ poll = "sleep"
    /\ \/ row.status \in TestTerminal /\ PollEnds
       \/ /\ row.status \notin TestTerminal
          /\ poll' = "get" /\ pollRow' = row
          /\ UNCHANGED <<seen, misses>>
    /\ UNCHANGED <<row, pollIdle>>

PollGetFails ==
    /\ poll = "get"
    /\ PollSleeps
    /\ UNCHANGED <<row, misses, pollIdle>>

\* 404: leave a known trace to the ingestion, else give up after MaxNotFound of them.
PollNotFound ==
    /\ poll = "get" /\ lost
    /\ \/ pollRow.trace /\ PollEnds
       \/ /\ ~pollRow.trace /\ misses + 1 < MaxNotFound
          /\ PollSleeps /\ misses' = misses + 1
       \/ /\ ~pollRow.trace /\ misses + 1 >= MaxNotFound
          /\ poll' = "giveUp" /\ UNCHANGED <<pollRow, seen, misses>>
    /\ UNCHANGED <<row, pollIdle>>

PollGivesUp ==
    /\ poll = "giveUp"
    /\ PollEnds /\ Mark("failed")
    /\ UNCHANGED pollIdle

\* Mutant: evidence_capture_failed, which NotifyBody does not know, is not known here either.
PollSeesNoCapture ==
    /\ poll = "get" /\ ~lost
    /\ IF shown \in PolledToEnd \ {"evidence_capture_failed"}
       THEN poll' = "mark" /\ seen' = [status |-> shown, trace |-> traced] /\ UNCHANGED pollRow
       ELSE PollSleeps
    /\ misses' = 0
    /\ SetTrace(traced)
    /\ UNCHANGED pollIdle

\* 200: set_trace_id for a run in progress, a done or a cancelled one; then the marks.
PollSees ==
    /\ poll = "get" /\ ~lost
    /\ IF shown \in PolledToEnd
       THEN poll' = "mark" /\ seen' = [status |-> shown, trace |-> traced] /\ UNCHANGED pollRow
       ELSE PollSleeps
    /\ misses' = 0
    /\ SetTrace(traced /\ shown \in {"running", "done", "cancelled", "cancel_timeout"})
    /\ UNCHANGED pollIdle

\* Mutant: the executor's word is stored as it is.
PollMarkRaw ==
    /\ poll = "mark"
    /\ PollEnds /\ MarkTraced(seen.status, seen.trace)
    /\ UNCHANGED pollIdle

\* Mutant: a run whose evidence was not captured counts as done.
PollMarkLenient ==
    /\ poll = "mark"
    /\ PollEnds
    /\ MarkTraced(IF seen.status \in {"done", "evidence_capture_failed"} THEN "done"
                  ELSE IF seen.status = "cancelled" THEN "cancelled" ELSE "failed", seen.trace)
    /\ UNCHANGED pollIdle

\* mark_done and the marks of a cancellation heed the row read before the request (not
\* terminal then, but maybe absent); failed is written whatever the row says by now.
PollMark ==
    /\ poll = "mark"
    /\ PollEnds
    /\ \/ /\ seen.status \in {"failed", "evidence_capture_failed"}
          /\ MarkTraced("failed", seen.trace)
       \/ /\ seen.status \in {"done", "cancelled", "cancel_timeout"} /\ pollRow = Absent
          /\ UNCHANGED row
       \/ /\ seen.status = "done" /\ pollRow # Absent
          /\ row' = IF Exists THEN [row EXCEPT !.status = "done", !.trace = seen.trace] ELSE row
       \/ /\ seen.status = "cancelled" /\ pollRow # Absent
          /\ MarkTraced("cancelled", seen.trace)
       \/ /\ seen.status = "cancel_timeout" /\ pollRow # Absent
          /\ MarkTraced("failed", seen.trace)
    /\ UNCHANGED pollIdle

-----------------------------------------------------------------------------
(* stop_test *)

stopIdle == <<runs, started, lost, listed, start, pollVars, notice, ingVars, scanVars, del>>

StopRead(r) ==
    /\ stop[r] = "idle"
    /\ \/ /\ row.status \in {"absent", "done"}
          /\ stop' = [stop EXCEPT ![r] = "refused"]
          /\ UNCHANGED stopTrace
       \/ /\ row.status \notin {"absent", "done"}
          /\ stop' = [stop EXCEPT ![r] = IF row.task THEN "post" ELSE "mark"]
          /\ stopTrace' = [stopTrace EXCEPT ![r] = row.trace]
    /\ UNCHANGED <<row, viewVars, stopIdle>>

\* The answer (409, 404, an error) makes no difference.
StopPost(r) ==
    /\ stop[r] = "post"
    /\ stop' = [stop EXCEPT ![r] = "mark"]
    /\ (~lost /\ Ask) \/ UNCHANGED viewVars
    /\ UNCHANGED <<row, stopTrace, stopIdle>>

\* Mutant: the trace read at the beginning is written back, as mark_done does.
StopMarkOverwrites(r) ==
    /\ stop[r] = "mark"
    /\ stop' = [stop EXCEPT ![r] = "stopped"]
    /\ row' = IF Exists THEN [row EXCEPT !.status = "cancelled", !.trace = stopTrace[r]] ELSE row
    /\ stopTrace' = [stopTrace EXCEPT ![r] = FALSE]
    /\ UNCHANGED <<viewVars, stopIdle>>

StopMark(r) ==
    /\ stop[r] = "mark"
    /\ stop' = [stop EXCEPT ![r] = "stopped"]
    /\ MarkTraced("cancelled", stopTrace[r])
    /\ stopTrace' = [stopTrace EXCEPT ![r] = FALSE]
    /\ UNCHANGED <<viewVars, stopIdle>>

-----------------------------------------------------------------------------
(* _mark_test_failed_by_task *)

noticeIdle == <<runs, execVars, start, pollVars, stopVars, ingVars, scanVars, del>>

\* find_pending_by_task_id
NoticeLook ==
    /\ notice = "sent"
    /\ notice' = IF row.task /\ row.status \in {"pending", "running"} THEN "mark" ELSE "end"
    /\ UNCHANGED <<row, noticeIdle>>

NoticeMark ==
    /\ notice = "mark"
    /\ notice' = "end" /\ Mark("failed")
    /\ UNCHANGED noticeIdle

-----------------------------------------------------------------------------
(* ingest_trace_now *)

fetchIdle == <<viewVars, started, lost, start, pollVars, stopVars, notice, scanVars, del>>
ingIdle == <<fetchIdle, listed>>

IngestEnds(i) ==
    /\ ing' = [ing EXCEPT ![i] = "end"]
    /\ fetched' = [fetched EXCEPT ![i] = NoCopy]

\* The executor finds the trace on disk if need be, and then remembers it.  New events
\* are stored; without any, only the status is fetched again.  Events other than the
\* verdict may come at any time before it.
IngestFetch(i) ==
    /\ ing[i] = "idle" /\ state # "absent"
    /\ fetched' = [fetched EXCEPT ![i] = Copy]
    /\ \/ /\ runs.verdict = None
          /\ ing' = [ing EXCEPT ![i] = "store"]
       \/ /\ runs # NoRun /\ runs.verdict = verdict
          /\ ing' = [ing EXCEPT ![i] = "refetch"]
    /\ listed' = TRUE
    /\ UNCHANGED <<row, runs, fetchIdle>>

\* _sync_status_only
IngestRefetch(i) ==
    /\ ing[i] = "refetch"
    /\ fetched' = [fetched EXCEPT ![i] = Copy]
    /\ ing' = [ing EXCEPT ![i] = "overwrite"]
    /\ listed' = TRUE
    /\ UNCHANGED <<row, runs, fetchIdle>>

IngestOverwrite(i) ==
    /\ ing[i] = "overwrite"
    /\ IngestEnds(i)
    /\ runs' = IF runs = NoRun THEN runs ELSE [runs EXCEPT !.status = fetched[i].hint]
    /\ UNCHANGED <<row, ingIdle>>

IngestStore(i) ==
    /\ ing[i] = "store"
    /\ ing' = [ing EXCEPT ![i] = "look"]
    /\ Stored(fetched[i])
    /\ fetched' = [fetched EXCEPT ![i] = NoCopy]
    /\ UNCHANGED <<row, ingIdle>>

\* _sync_manual_test_status: the status of runs, then the row by its trace.
IngestLook(i) ==
    /\ ing[i] = "look"
    /\ IF row.trace /\ row.status \notin TerminalStates
          /\ runs.status \in {"completed", "failed", "cancelled"}
       THEN /\ ing' = [ing EXCEPT ![i] = "mark"]
            /\ fetched' = [fetched EXCEPT ![i].hint = runs.status]
       ELSE IngestEnds(i)
    /\ UNCHANGED <<row, runs, ingIdle>>

IngestMark(i) ==
    /\ ing[i] = "mark"
    /\ IngestEnds(i)
    /\ MarkTraced(IF fetched[i].hint = "completed" THEN "done" ELSE fetched[i].hint, TRUE)
    /\ UNCHANGED <<runs, ingIdle>>

-----------------------------------------------------------------------------
(* _scan_once: it compares the statuses of listed traces, fetches those that differ, *)
(* and stores them without telling the test                                       *)

scanIdle == <<row, execVars, start, pollVars, stopVars, notice, ingVars, del>>

\* Mutant: a trace that was ingested once is never fetched again.
ScanFetchNew ==
    /\ scan = "idle" /\ listed /\ runs = NoRun
    /\ scan' = "store" /\ scanned' = Copy
    /\ UNCHANGED <<runs, scanIdle>>

ScanFetch ==
    /\ scan = "idle" /\ listed
    /\ \/ runs.status # state
       \/ state = "running" /\ row.trace /\ row.status \in TestTerminal
    /\ scan' = "store" /\ scanned' = Copy
    /\ UNCHANGED <<runs, scanIdle>>

ScanStore ==
    /\ scan = "store"
    /\ scan' = "idle" /\ Stored(scanned)
    /\ scanned' = NoCopy
    /\ UNCHANGED scanIdle

-----------------------------------------------------------------------------
(* delete_test *)

delIdle == <<execVars, start, pollVars, stopVars, notice, ingVars, scanVars>>

DelRead ==
    /\ del = "idle" /\ row.status \in TestTerminal
    /\ del' = IF row.trace THEN "runs" ELSE "row"
    /\ UNCHANGED <<row, runs, delIdle>>

DelRuns ==
    /\ del = "runs"
    /\ del' = "row" /\ runs' = NoRun
    /\ UNCHANGED <<row, delIdle>>

DelRow ==
    /\ del = "row"
    /\ del' = "end" /\ row' = Absent
    /\ UNCHANGED <<runs, delIdle>>

-----------------------------------------------------------------------------
ExecNext == ExecTrace \/ ExecShowTrace \/ (\E s \in Statuses : ExecShow(s)) \/ ExecRestarts
StartNext == StartPost \/ StartPostFails \/ StartFails \/ StartMark
PollNext == PollRead \/ PollGetFails \/ PollNotFound \/ PollGivesUp \/ PollSees \/ PollMark
StopNext(r) == StopRead(r) \/ StopPost(r) \/ StopMark(r)
NoticeNext == NoticeLook \/ NoticeMark
IngestWrites(i) ==
    IngestRefetch(i) \/ IngestOverwrite(i) \/ IngestStore(i) \/ IngestLook(i) \/ IngestMark(i)
ScanNext == ScanFetch \/ ScanStore
DelNext == DelRead \/ DelRuns \/ DelRow

TestNext ==
    \/ ExecNext \/ StartNext \/ PollNext \/ NoticeNext \/ ScanNext \/ DelNext
    \/ \E r \in StopReqs : StopNext(r)
    \/ \E i \in Ingests : IngestFetch(i) \/ IngestWrites(i)

\* Threads run on, and an executor that is up answers a poll at last.  Requests of users,
\* notifications and the executor's progress are not promised.
Fairness ==
    /\ WF_testVars(StartNext)
    /\ WF_testVars(PollNext)
    /\ SF_testVars(PollNotFound \/ PollSees)
    /\ WF_testVars(NoticeMark)
    /\ WF_testVars(ScanNext)
    /\ WF_testVars(DelRuns \/ DelRow)
    /\ \A r \in StopReqs : WF_testVars(StopPost(r) \/ StopMark(r))
    /\ \A i \in Ingests : WF_testVars(IngestWrites(i))

TestSpec == Init /\ [][TestNext]_testVars /\ Fairness

-----------------------------------------------------------------------------
(* Properties *)

\* Every variable holds a value that the code can write there.
TypeOK ==
    /\ ViewTypeOK
    /\ row \in Rows
    /\ runs \in [status : Outcomes \cup {"absent", "running"}, verdict : TerminalEvents \cup {None}]
    /\ <<started, lost, listed>> \in BOOLEAN \X BOOLEAN \X BOOLEAN
    /\ start \in {"post", "mark", "fail", "end"}
    /\ poll \in {"none", "sleep", "get", "giveUp", "mark", "end"}
    /\ pollRow \in Rows /\ misses \in 0 .. MaxNotFound
    /\ seen \in [status : ShownStatuses \cup {"running"}, trace : BOOLEAN]
    /\ stop \in [StopReqs -> {"idle", "refused", "post", "mark", "stopped"}]
    /\ stopTrace \in [StopReqs -> BOOLEAN]
    /\ notice \in {"none", "sent", "mark", "end"}
    /\ ing \in [Ingests -> {"idle", "store", "refetch", "overwrite", "look", "mark", "end"}]
    /\ fetched \in [Ingests -> [verdict : TerminalEvents \cup {None},
                                hint : Outcomes \cup {"absent", "running"}]]
    /\ scan \in {"idle", "store"}
    /\ scanned \in [verdict : TerminalEvents \cup {None}, hint : Outcomes \cup {"absent", "running"}]
    /\ del \in {"idle", "runs", "row", "end"}

\* A test is done only if its run wrote run_end, and then it links the trace: neither the
\* poll thread, nor an ingestion with an old copy, nor a marking that overtakes another
\* makes a failed or unfinished run look like a success (mark_done, two writers).
DoneIsEarned == row.status = "done" => verdict = "run_end" /\ row.trace

\* Nobody's test is cancelled unless a stop was accepted for it, though three writers
\* (stop_test, the poll thread, the ingestion) can write cancelled (CON-003).
CancelIsWanted ==
    row.status = "cancelled" => \E r \in StopReqs : stop[r] \notin {"idle", "refused"}

\* The copy in runs never says that a run has ended before the run has: a trace fetched
\* between two of its writes is not taken for an abnormal end (_derive_run_summary).
CopyNotAhead == runs.status \in Outcomes => verdict # None

\* A test that links its trace keeps the link until it is deleted, whichever writer comes
\* last (mark_done overwrites trace_id, the other writers COALESCE it).
TraceKept == [][row.trace => row'.trace \/ ~Exists']_row

\* While the executor keeps its task, and once the task's status has settled on one the
\* poll thread acts on, a test that was started reaches a terminal status or is deleted.
PollSettles ==
    <>[](shown \in PolledToEnd /\ ~lost)
        => [](poll # "none" => <>(row.status \in TestTerminal \cup {"absent"}))

\* The scan makes up for lost notifications: the copy of a listed and sealed trace whose
\* entry agrees with its verdict gets the entry's status at last, unless the entry changes
\* or the executor restarts.
CopyCatchesUp ==
    \A o \in Outcomes :
        listed /\ phase = "sealed" /\ state = o /\ verdict = EventOf(o)
            ~> runs.status = o \/ state # o \/ ~listed

-----------------------------------------------------------------------------
(* What comments and docstrings promise and the code does not keep *)

\* "First come, first served; the later one skips, the status being terminal"
\* (_poll_task_status, of itself and of the ingestion): neither replaces a terminal status.
FirstTerminalStays ==
    [][row.status \in TestTerminal /\ ((poll # "none" /\ poll' # poll) \/ ing' # ing)
        => row'.status = row.status]_testVars

\* "The poll exits, the terminal status is driven by ingest" (_poll_task_status); "when a
\* trace has been ingested, its test is synced" (_sync_manual_test_status): an ingestion
\* that finds the trace of a running test sealed, and completes, ends the test.
LeftToIngestSettles ==
    \A i \in Ingests :
        [](phase = "sealed" /\ row.trace /\ row.status = "running" /\ ing[i] = "idle"
            => [](ing[i] = "end" => <>(row.status # "running")))

=============================================================================
