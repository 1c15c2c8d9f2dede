----------------------------- MODULE Generation -----------------------------
(***************************************************************************)
(* The generation streams of one thread of the executor: generate_stream   *)
(* with its ways to end, the human in the loop (interrupt and resume), the *)
(* stop button, the TraceRecorder behind them (its memory of active        *)
(* traces, the buffer of lines a drain thread writes, the index, the       *)
(* manifest), the scanner that cancels traces nobody resumes, the credits  *)
(* the thread holds, and the death of the process.                         *)
(*                                                                         *)
(* Streams run on one event loop: what a stream does between two awaits is *)
(* the sequence of statements in loop.todo, and no other stream runs       *)
(* meanwhile.  The scanner, the drain's writes, the admin and a crash may  *)
(* come between any two statements.                                        *)
(***************************************************************************)
EXTENDS Credits, FiniteSets, TraceData

CONSTANTS Streams,      \* POST /screenplay/generate/stream requests
          Traces,
          MaxEvents,    \* bound: agents append events while there are fewer, in all traces
          MaxCrashes,   \* bound on restarts
          Grants        \* bound: amounts an admin adds, once

ASSUME MaxEventsAssumption == MaxEvents \in Nat
ASSUME MaxCrashesAssumption == MaxCrashes \in Nat
ASSUME GrantsAssumption == Grants \subseteq Nat

VARIABLES
    pc, of, end,        \* each stream: where it is, its trace, how it ended
    killed,             \* streams whose task POST /stop has cancelled
    loop,               \* the statements the running stream has yet to execute
    \* the recorder's memory
    active,             \* traces in _sequences, _queues, _run_paths, _started_monotonic
    seq,                \* _sequences
    task,               \* _run_tasks
    stopFlag,           \* _user_stop_requested
    known,              \* _trace_workspace
    pending, batch,     \* _pending_writes; the batch in the drain's thread
    \* the workspace
    disk,               \* lines of the traces' jsonl files
    index,              \* index.json
    manifest,           \* numbers of the events a trace's manifest covers
    scan,               \* the zombie scanner
    shared,             \* history: traces two streams were attached to at once
    scanned,            \* history: the scanner has cancelled a trace
    crashes, torn       \* torn: the crash fell between two statements about credits

streamVars == <<pc, of, end, killed, shared>>
memVars == <<active, seq, task, stopFlag, known>>
bufVars == <<pending, batch>>
fileVars == <<disk, index, manifest>>
crashVars == <<scanned, crashes, torn>>
vars == <<creditVars, streamVars, loop, memVars, bufVars, fileVars, scan, crashVars>>

-----------------------------------------------------------------------------
(* Data *)

NoOne == "none"
Scanner == "scanner"
ASSUME WritersAssumption == NoOne \notin Streams \cup Traces /\ Scanner \notin Streams

Terminal == {"completed", "failed", "cancelled"}
Statuses == Terminal \cup {"running", "awaiting_input", "none"}

\* A line: the event's number, its kind (a terminal one is named for its status), its writer.
Line(t, n, k, w) == [trace |-> t, n |-> n, kind |-> k, by |-> w]
LinesOf(t, S) == {l \in S : l.trace = t}
Numbers(S) == {l.n : l \in S}
Lines == disk \cup pending \cup batch

Live(r) == pc[r] \in {"opened", "setup", "run"}
Busy == loop.by # NoOne
Idle == [by |-> NoOne, todo |-> <<>>, status |-> "none", end |-> "none", copy |-> {}]

\* index.json as a set of entries, so that a copy of it can be kept; one entry per trace.
Entry(t, s, n) == [trace |-> t, status |-> s, count |-> n]
Entries == [trace : Traces, status : Statuses, count : Nat]
StatusIn(ix, t) == IF \E e \in ix : e.trace = t
                   THEN (CHOOSE e \in ix : e.trace = t).status ELSE "absent"
Put(ix, t, s, n) == {e \in ix : e.trace # t} \cup {Entry(t, s, n)}
Status(t) == StatusIn(index, t)
Count(t) == (CHOOSE e \in index : e.trace = t).count

\* _update_index_status
Restatus(t, s) ==
    {IF e.trace = t THEN Entry(t, s, IF t \in active THEN seq[t] ELSE e.count) ELSE e : e \in index}

Init ==
    /\ CreditsInit
    /\ pc = [r \in Streams |-> "idle"]
    /\ of = [r \in Streams |-> NoOne]
    /\ end = [r \in Streams |-> "none"]
    /\ killed = {} /\ shared = {} /\ loop = Idle
    /\ active = {} /\ known = {}
    /\ seq = [t \in Traces |-> 0]
    /\ task = [t \in Traces |-> NoOne]
    /\ stopFlag = {}
    /\ pending = {} /\ batch = {} /\ disk = {} /\ index = {}
    /\ manifest = [t \in Traces |-> {}]
    /\ scan = [at |-> "idle", trace |-> NoOne, copy |-> {}]
    /\ scanned = FALSE /\ crashes = 0 /\ torn = FALSE

-----------------------------------------------------------------------------
(* TraceRecorder *)

\* append_event, for an active trace, while the drain coroutine runs.
Emit(t, k, w) ==
    /\ seq' = [seq EXCEPT ![t] = @ + 1]
    /\ pending' = pending \cup {Line(t, seq[t] + 1, k, w)}

\* Mutant: only the last event is written.
FlushLast(t, k, w) ==
    /\ seq' = [seq EXCEPT ![t] = @ + 1]
    /\ disk' = disk \cup {Line(t, seq[t] + 1, k, w)}
    /\ UNCHANGED pending

\* Mutant: nothing is flushed.
FlushNothing(t, k, w) == Emit(t, k, w) /\ UNCHANGED disk

\* append_event, then flush_sync: what the drain has taken is not there to be flushed.
AppendAndFlush(t, k, w) ==
    /\ seq' = [seq EXCEPT ![t] = @ + 1]
    /\ disk' = disk \cup LinesOf(t, pending) \cup {Line(t, seq[t] + 1, k, w)}
    /\ pending' = pending \ LinesOf(t, pending)

\* _write_manifest reads the file, and fails without a terminal event.
Covered(t) ==
    LET written == LinesOf(t, disk)
    IN  IF \E l \in written : l.kind \in Terminal THEN Numbers(written) ELSE {}

\* Mutant: the trace stays active.
ForgetTask(t) == task' = [task EXCEPT ![t] = NoOne] /\ UNCHANGED <<active, seq>>

\* _cleanup_run_state
Forget(t) ==
    /\ active' = active \ {t}
    /\ seq' = [seq EXCEPT ![t] = 0]
    /\ task' = [task EXCEPT ![t] = NoOne]

\* create_run
CreateRun(r, t) ==
    /\ Status(t) = "absent"
    /\ active' = active \cup {t} /\ known' = known \cup {t}
    /\ index' = Put(index, t, "running", 0)
    /\ Emit(t, "event", r)
    /\ of' = [of EXCEPT ![r] = t]
    /\ pc' = [pc EXCEPT ![r] = "opened"]
    /\ UNCHANGED <<end, shared, task>>

-----------------------------------------------------------------------------
(* A stream opens its trace.  It is suspended in its first yields ("opened", "setup") *)
(* before the try statement ("run").                                                *)

openIdle == <<creditVars, killed, loop, stopFlag, batch, disk, manifest, scan, crashVars>>

\* A new request, or a resume of a trace that is not resumable.
OpenNew(r) ==
    /\ pc[r] = "idle" /\ ~Busy /\ ~IsFrozen
    /\ \E t \in Traces : CreateRun(r, t)
    /\ UNCHANGED openIdle

\* resume_run continues a trace in memory, or one whose index entry it can find
\* (_rebuild_active_state); find_run_by_trace_id looks only where it knows the trace to be.
Resumable(t) == t \in active \/ (t \in known /\ Status(t) = "awaiting_input")

Attach(t) == shared' = IF \E o \in Streams : Live(o) /\ of[o] = t THEN shared \cup {t} ELSE shared

\* Mutant: a resumed stream is not registered.
ResumeUnregistered(r, t) ==
    /\ pc[r] = "idle" /\ ~Busy /\ ~IsFrozen
    /\ Resumable(t)
    /\ active' = active \cup {t}
    /\ index' = Restatus(t, "running")
    /\ seq' = [seq EXCEPT ![t] = IF t \in active THEN @ ELSE Count(t)]
    /\ of' = [of EXCEPT ![r] = t]
    /\ pc' = [pc EXCEPT ![r] = "setup"]
    /\ Attach(t)
    /\ UNCHANGED <<end, task, known, pending, openIdle>>

\* Mutant: the numbers go on from the index even when the trace is in memory.
ResumeFromIndex(r, t) ==
    /\ pc[r] = "idle" /\ ~Busy /\ ~IsFrozen
    /\ Resumable(t)
    /\ active' = active \cup {t}
    /\ index' = Restatus(t, "running")
    /\ seq' = [seq EXCEPT ![t] = Count(t)]
    /\ of' = [of EXCEPT ![r] = t]
    /\ task' = [task EXCEPT ![t] = r]
    /\ pc' = [pc EXCEPT ![r] = "setup"]
    /\ Attach(t)
    /\ UNCHANGED <<end, known, pending, openIdle>>

\* The stream registers its task over that of another stream of the trace.
Resume(r, t) ==
    /\ pc[r] = "idle" /\ ~Busy /\ ~IsFrozen
    /\ Resumable(t)
    /\ active' = active \cup {t}
    /\ index' = Restatus(t, "running")
    /\ seq' = [seq EXCEPT ![t] = IF t \in active THEN @ ELSE Count(t)]
    /\ of' = [of EXCEPT ![r] = t]
    /\ task' = [task EXCEPT ![t] = r]
    /\ pc' = [pc EXCEPT ![r] = "setup"]
    /\ Attach(t)
    /\ UNCHANGED <<end, known, pending, openIdle>>

\* get_active_queue, register_run_task.
Register(r) ==
    /\ pc[r] = "opened" /\ ~Busy /\ of[r] \in active
    /\ task' = [task EXCEPT ![of[r]] = r]
    /\ pc' = [pc EXCEPT ![r] = "setup"]
    /\ UNCHANGED <<of, end, killed, shared, creditVars, loop, active, seq, stopFlag, known,
                   bufVars, fileVars, scan, crashVars>>

\* Assembling the agent succeeds.
Assemble(r) ==
    /\ pc[r] = "setup" /\ ~Busy /\ r \notin killed
    /\ pc' = [pc EXCEPT ![r] = "run"]
    /\ UNCHANGED <<of, end, killed, shared, creditVars, loop, memVars, bufVars, fileVars, scan,
                   crashVars>>

Ended(r, how) ==
    /\ pc' = [pc EXCEPT ![r] = "ended"]
    /\ end' = [end EXCEPT ![r] = how]
    /\ killed' = killed \ {r}
    /\ UNCHANGED <<of, shared>>

\* The queue is gone, the assembly raises, or the client leaves: outside the try statement.
LeaveSetup(r) ==
    /\ pc[r] \in {"opened", "setup"} /\ ~Busy
    /\ Ended(r, "setup")
    /\ UNCHANGED <<creditVars, loop, memVars, bufVars, fileVars, scan, crashVars>>

-----------------------------------------------------------------------------
(* The agent runs *)

Running(r) == pc[r] = "run" /\ ~Busy /\ r \notin killed

\* The statements of stream r until it is suspended again; how = "none" when it goes on.
Does(r, steps, status, how) ==
    loop' = [by |-> r, todo |-> steps, status |-> status, end |-> how, copy |-> {}]

Steps == {"append", "store", "seal", "await", "settle"}

\* complete_run, fail_run and cancel_run; the settlement, when the thread has a hold.
Finalize == <<"append", "store", "seal">>
Settlement == IF hold.active THEN <<"settle">> ELSE <<>>

runIdle == <<streamVars, memVars, bufVars, fileVars, scan, crashVars>>

AgentEvent(r) ==
    /\ Running(r) /\ of[r] \in active /\ Cardinality(Lines) < MaxEvents
    /\ Emit(of[r], "event", r)
    /\ UNCHANGED <<streamVars, creditVars, loop, active, task, stopFlag, known, batch,
                   fileVars, scan, crashVars>>

\* The agent delegates to a creation subagent: _check_and_create_hold_for_tool.
Delegate(r) ==
    /\ Running(r)
    /\ CreateHold
    /\ UNCHANGED <<loop, runIdle>>

\* A model call: _process_model_response settles at the limit and raises CreditExhaustedError.
ModelCall(r) ==
    /\ Running(r)
    /\ \E c \in Costs :
        /\ Consume(c)
        /\ IF LimitReached(hold.consumed + c)
           THEN Does(r, <<"settle">> \o Finalize, "cancelled", "done")
           ELSE UNCHANGED loop
    /\ UNCHANGED runIdle

\* The agent's answer: settle, then complete_run (or fail_run, when the outline is missing).
Complete(r) ==
    /\ Running(r)
    /\ \E s \in {"completed", "failed"} : Does(r, Settlement \o Finalize, s, "done")
    /\ UNCHANGED <<creditVars, runIdle>>

\* Mutant: the thread keeps its hold while it waits.
InterruptKeepsHold(r) ==
    /\ Running(r)
    /\ Does(r, <<"await">>, "awaiting_input", "done")
    /\ UNCHANGED <<creditVars, runIdle>>

\* The agent asks the user: settle, then await_input_run.
Interrupt(r) ==
    /\ Running(r)
    /\ Does(r, Settlement \o <<"await">>, "awaiting_input", "done")
    /\ UNCHANGED <<creditVars, runIdle>>

\* Any other exception (InsufficientCreditsError is one): fail_run, no settlement.
Fail(r) ==
    /\ Running(r)
    /\ Does(r, Finalize, "failed", "raised")
    /\ UNCHANGED <<creditVars, runIdle>>

\* CancelledError (a stop, or the client is gone): cancel_run and a settlement.
Cancelled(r) ==
    /\ pc[r] = "run" /\ ~Busy
    /\ of[r] \in stopFlag \/ of[r] \notin active \/ Status(of[r]) # "awaiting_input"
    /\ Does(r, Finalize \o Settlement, "cancelled", "done")
    /\ stopFlag' = stopFlag \ {of[r]}
    /\ UNCHANGED <<creditVars, streamVars, active, seq, task, known, bufVars, fileVars,
                   scan, crashVars>>

\* The finally clause, of a stream that ends without a word about its trace.
Drops(r, how) ==
    /\ Ended(r, how)
    /\ task' = [task EXCEPT ![of[r]] = NoOne]
    /\ UNCHANGED <<creditVars, loop, active, seq, stopFlag, known, bufVars, fileVars,
                   scan, crashVars>>

\* CancelledError while the trace awaits input: it stays so.
LeaveAwaiting(r) ==
    /\ pc[r] = "run" /\ ~Busy
    /\ of[r] \notin stopFlag /\ of[r] \in active /\ Status(of[r]) = "awaiting_input"
    /\ Drops(r, "left")

\* The client leaves while a frame is being sent: the generator is closed where it yields,
\* and no except clause sees that.
Close(r) ==
    /\ pc[r] = "run" /\ ~Busy
    /\ Drops(r, "closed")

\* append_event raises for a trace that another stream, or the scanner, has finished; so
\* does fail_run.
EventRefused(r) ==
    /\ Running(r) /\ of[r] \notin active
    /\ Drops(r, "broken")

-----------------------------------------------------------------------------
(* The statements of the stream that runs *)

Doing(step) == Busy /\ Head(loop.todo) = step
me == loop.by
mine == of[loop.by]

\* On to the next statement, keeping copy; after the last one the stream goes on or ends.
Proceed(copy) ==
    IF Len(loop.todo) > 1
    THEN /\ loop' = [loop EXCEPT !.todo = Tail(@), !.copy = copy]
         /\ UNCHANGED streamVars
    ELSE /\ loop' = Idle
         /\ IF loop.end = "none" THEN UNCHANGED streamVars ELSE Ended(me, loop.end)

\* The finally clause: unregister_run_task.
Unregistered ==
    IF Len(loop.todo) = 1 /\ loop.end # "none" THEN [task EXCEPT ![mine] = NoOne] ELSE task

SettleStep ==
    /\ Doing("settle") /\ Settle
    /\ Proceed({})
    /\ task' = Unregistered
    /\ UNCHANGED <<active, seq, stopFlag, known, bufVars, fileVars, scan, crashVars>>

\* Mutant: a trace that is over takes further events.
AppendAnyway ==
    /\ Doing("append")
    /\ AppendAndFlush(mine, loop.status, me)
    /\ Proceed(Put(index, mine, loop.status, seq[mine] + 1))
    /\ UNCHANGED <<creditVars, active, task, stopFlag, known, batch, index, manifest, scan,
                   crashVars>>

\* The terminal event, flush_sync, and the index as it is then.
AppendStep ==
    /\ Doing("append") /\ mine \in active
    /\ AppendAndFlush(mine, loop.status, me)
    /\ Proceed(Put(index, mine, loop.status, seq[mine] + 1))
    /\ UNCHANGED <<creditVars, active, task, stopFlag, known, batch, index, manifest, scan,
                   crashVars>>

\* _finalize_run writes back the index it read.
StoreStep ==
    /\ Doing("store")
    /\ index' = loop.copy
    /\ Proceed(loop.copy)
    /\ UNCHANGED <<creditVars, memVars, bufVars, disk, manifest, scan, crashVars>>

\* The manifest, the index once more, _cleanup_run_state.
SealStep ==
    /\ Doing("seal") /\ mine \in active
    /\ manifest' = [manifest EXCEPT ![mine] = Covered(mine)]
    /\ index' = loop.copy
    /\ Forget(mine)
    /\ Proceed({})
    /\ UNCHANGED <<creditVars, stopFlag, known, bufVars, disk, scan, crashVars>>

\* Mutant: the index is not told.
AwaitSilently ==
    /\ Doing("await") /\ mine \in active
    /\ AppendAndFlush(mine, "awaiting", me)
    /\ Proceed({})
    /\ task' = Unregistered
    /\ UNCHANGED <<creditVars, active, stopFlag, known, batch, index, manifest, scan, crashVars>>

\* await_input_run
AwaitStep ==
    /\ Doing("await") /\ mine \in active
    /\ AppendAndFlush(mine, "awaiting", me)
    /\ index' = Put(index, mine, "awaiting_input", seq[mine] + 1)
    /\ Proceed({})
    /\ task' = Unregistered
    /\ UNCHANGED <<creditVars, active, stopFlag, known, batch, manifest, scan, crashVars>>

\* KeyError: the statements that are left are skipped.
StepRefused ==
    /\ Busy /\ Head(loop.todo) \in {"append", "seal", "await"} /\ mine \notin active
    /\ loop' = Idle
    /\ Ended(me, "broken")
    /\ task' = [task EXCEPT ![mine] = NoOne]
    /\ UNCHANGED <<creditVars, active, seq, stopFlag, known, bufVars, fileVars, scan, crashVars>>

LoopStep == SettleStep \/ AppendStep \/ StoreStep \/ SealStep \/ AwaitStep \/ StepRefused

-----------------------------------------------------------------------------
(* Threads *)

\* POST /screenplay/stop: the mark, and the cancellation of the registered task.
Stop(t) ==
    /\ Status(t) \notin {"absent"} \cup Terminal /\ t \notin stopFlag
    /\ stopFlag' = stopFlag \cup {t}
    /\ killed' = IF task[t] # NoOne /\ Live(task[t]) THEN killed \cup {task[t]} ELSE killed
    /\ UNCHANGED <<creditVars, pc, of, end, shared, loop, active, seq, task, known, bufVars,
                   fileVars, scan, crashVars>>

\* _drain_loop takes a batch on the event loop and writes it in a thread.
DrainTake ==
    /\ ~Busy /\ batch = {} /\ pending # {}
    /\ batch' = pending /\ pending' = {}
    /\ UNCHANGED <<creditVars, streamVars, loop, memVars, fileVars, scan, crashVars>>

DrainWrite ==
    /\ batch # {}
    /\ disk' = disk \cup batch /\ batch' = {}
    /\ UNCHANGED <<creditVars, streamVars, loop, memVars, pending, index, manifest, scan,
                   crashVars>>

Granted ==
    /\ IsFrozen /\ granted = 0
    /\ \E a \in Grants : AdminAdjust(a)
    /\ UNCHANGED <<streamVars, loop, memVars, bufVars, fileVars, scan, crashVars>>

(* _zombie_scan_once: a trace has awaited input for two hours. *)

ScanTo(at, t, copy) == scan' = [at |-> at, trace |-> t, copy |-> copy]
ScanEnds == ScanTo("idle", NoOne, {})
scanIdle == <<creditVars, streamVars, loop, stopFlag, known, crashes, torn>>

\* It reads the indexes of the workspaces it knows.
ScanFind(t) ==
    /\ scan.at = "idle" /\ known # {} /\ Status(t) = "awaiting_input"
    /\ ScanTo("found", t, {})
    /\ UNCHANGED <<scanIdle, scanned, active, seq, task, bufVars, fileVars>>

\* Only a trace in memory is cancelled: for another one _cancel_zombie_no_memory does not
\* find it, or _duration_ms raises.
ScanCancel ==
    /\ scan.at = "found" /\ scan.trace \in active
    /\ Emit(scan.trace, "cancelled", Scanner)
    /\ ScanTo("load", scan.trace, {})
    /\ scanned' = TRUE
    /\ UNCHANGED <<scanIdle, active, task, batch, fileVars>>

\* flush_sync, and the index as it is then.
ScanLoad ==
    /\ scan.at = "load" /\ scan.trace \in active
    /\ disk' = disk \cup LinesOf(scan.trace, pending)
    /\ pending' = pending \ LinesOf(scan.trace, pending)
    /\ ScanTo("store", scan.trace, Put(index, scan.trace, "cancelled", seq[scan.trace]))
    /\ UNCHANGED <<scanIdle, scanned, active, seq, task, batch, index, manifest>>

ScanStore ==
    /\ scan.at = "store"
    /\ index' = scan.copy
    /\ ScanTo("seal", scan.trace, scan.copy)
    /\ UNCHANGED <<scanIdle, scanned, active, seq, task, bufVars, disk, manifest>>

ScanSeal ==
    /\ scan.at = "seal" /\ scan.trace \in active
    /\ manifest' = [manifest EXCEPT ![scan.trace] = Covered(scan.trace)]
    /\ index' = scan.copy
    /\ Forget(scan.trace)
    /\ ScanEnds
    /\ UNCHANGED <<scanIdle, scanned, bufVars, disk>>

\* KeyError: the scan is given up.
ScanRefused ==
    /\ scan.at \in {"found", "load", "seal"} /\ scan.trace \notin active
    /\ ScanEnds
    /\ UNCHANGED <<scanIdle, scanned, active, seq, task, bufVars, fileVars>>

Scan ==
    \/ \E t \in Traces : ScanFind(t)
    \/ ScanCancel \/ ScanLoad \/ ScanStore \/ ScanSeal \/ ScanRefused

-----------------------------------------------------------------------------
(* The process dies and starts again: memory is lost, a batch may be partly written. *)

Crash ==
    /\ crashes < MaxCrashes
    /\ crashes' = crashes + 1
    /\ \/ UNCHANGED <<creditVars, torn>>
       \/ (\E r \in Streams : Running(r)) /\ CreateHoldDies /\ torn' = TRUE
       \/ Doing("settle") /\ SettleDies /\ torn' = TRUE
    /\ \E written \in SUBSET batch : disk' = disk \cup written
    /\ pending' = {} /\ batch' = {}
    /\ pc' = [r \in Streams |-> IF Live(r) THEN "ended" ELSE pc[r]]
    /\ end' = [r \in Streams |-> IF Live(r) THEN "crashed" ELSE end[r]]
    /\ killed' = {} /\ loop' = Idle
    /\ active' = {} /\ known' = {} /\ stopFlag' = {}
    /\ seq' = [t \in Traces |-> 0]
    /\ task' = [t \in Traces |-> NoOne]
    /\ ScanEnds
    /\ UNCHANGED <<of, shared, index, manifest, scanned>>

Stream(r) ==
    \/ OpenNew(r) \/ Register(r) \/ Assemble(r) \/ LeaveSetup(r)
    \/ \E t \in Traces : Resume(r, t)
    \/ AgentEvent(r) \/ EventRefused(r) \/ Delegate(r) \/ ModelCall(r)
    \/ Complete(r) \/ Interrupt(r) \/ Fail(r) \/ Cancelled(r) \/ LeaveAwaiting(r) \/ Close(r)

Next ==
    \/ \E r \in Streams : Stream(r)
    \/ LoopStep
    \/ \E t \in Traces : Stop(t)
    \/ DrainTake \/ DrainWrite \/ Granted \/ Scan \/ Crash

Spec == Init /\ [][Next]_vars

-----------------------------------------------------------------------------
(* Properties *)

CreditTypes ==
    /\ balance \in Int /\ spent \in Nat /\ granted \in Nat
    /\ hold \in [active : BOOLEAN, consumed : Nat]

StreamTypes ==
    /\ pc \in [Streams -> {"idle", "opened", "setup", "run", "ended"}]
    /\ of \in [Streams -> Traces \cup {NoOne}]
    /\ end \in [Streams -> {"none", "done", "raised", "closed", "left", "setup", "broken",
                           "crashed"}]
    /\ killed \subseteq Streams /\ shared \subseteq Traces

LoopTypes ==
    loop \in [by : Streams \cup {NoOne}, todo : Seq(Steps), status : Statuses,
              end : {"none", "done", "raised"}, copy : SUBSET Entries]

MemTypes ==
    /\ active \subseteq Traces /\ known \subseteq Traces /\ stopFlag \subseteq Traces
    /\ seq \in [Traces -> Nat]
    /\ task \in [Traces -> Streams \cup {NoOne}]

LineTypes == \A l \in Lines : l.trace \in Traces /\ l.n \in Nat

FileTypes == index \subseteq Entries /\ manifest \in [Traces -> SUBSET Nat]

ThreadTypes ==
    /\ scan.trace \in Traces \cup {NoOne} /\ scan.copy \subseteq Entries
    /\ crashes \in Nat /\ torn \in BOOLEAN /\ scanned \in BOOLEAN

TypeOK ==
    /\ CreditTypes /\ StreamTypes /\ LoopTypes /\ MemTypes
    /\ LineTypes /\ FileTypes /\ ThreadTypes

\* The user's credits, as if a thread's hold were settled now.
Settled == balance + (IF hold.active THEN HoldAmount - hold.consumed ELSE 0)

\* No credit is lost or made: what the user has, what is held and what he spent add up to what
\* he was given, over every hold, excess and refund (create_hold, settle_hold), unless the
\* process died between two statements of theirs.
Books ==
    ~torn => balance + (IF hold.active THEN HoldAmount ELSE 0) + spent = InitialBalance + granted

\* The streams of a thread, their holds and settlements do to the account what Ledger says:
\* only model calls and grants change its worth, a creation begins only on credit, and
\* however it is ended or refused, none of it shows in the account.
Account == INSTANCE Ledger WITH worth <- Settled, creating <- hold.active

AccountKept == Account!LedgerSpec

\* check_credit_limit takes the hold off a balance that already lacks it: a creation is stopped
\* a whole hold above the limit, but for the last model call and one more after each crash.
DebtBounded ==
    hold.active /\ ~torn => Settled >= MaxDebt + HoldAmount - (crashes + 1) * MaxCost

\* No hold outlives the streams of its thread, unless one of them ended in an exception that
\* is not a stop, was closed at a yield, found its trace gone, or was cancelled on a trace that
\* another stream, or the scanner's copy of the index, had left waiting for input.
HoldReleased ==
    hold.active => \E r \in Streams :
        \/ Live(r) \/ end[r] \in {"raised", "closed", "broken", "crashed"}
        \/ end[r] = "left" /\ (of[r] \in shared \/ scanned)

\* A trace gets one terminal event, whatever streams are attached to it and however they end:
\* _cleanup_run_state makes the next one fail. Only the scanner, in its thread, may add one.
Verdicts(t) == {l \in LinesOf(t, Lines) : l.kind \in Terminal}
OneVerdict == ~scanned => \A t \in Traces : Cardinality(Verdicts(t)) <= 1

\* Two events of a trace never share a number, across resumes and crashes.
NumbersUnique == ~scanned => \A l1, l2 \in Lines : l1.trace = l2.trace /\ l1.n = l2.n => l1 = l2

\* A trace the index calls running has a stream, or one that was lost during setup, closed at
\* a yield or killed with the process.
RunningHasOwner ==
    ~scanned => \A t \in Traces : Status(t) = "running" =>
        \E r \in Streams : of[r] = t /\ (Live(r) \/ end[r] \in {"setup", "closed", "crashed"})

\* While the process lives, a trace that waits for input is in memory, to be resumed.
AwaitingInMemory ==
    crashes = 0 /\ ~scanned => \A t \in Traces : Status(t) = "awaiting_input" => t \in active

\* The status the index gives a finished trace is one that was written to its event log before.
IndexTellsLog ==
    ~scanned => \A t \in Traces : Status(t) \in Terminal =>
        \E l \in LinesOf(t, disk) : l.kind = Status(t)

\* POST /stop reaches every stream that works, unless two were attached to one trace, or
\* the scanner has forgotten it.
Stoppable ==
    \A r \in Streams \ {loop.by} : pc[r] \in {"setup", "run"} /\ task[of[r]] # r =>
        scanned \/ of[r] \in shared

\* The index never takes back the verdict on a trace, unless the scanner's thread read or wrote
\* the file between two statements of the event loop.
VerdictKept ==
    [][\A t \in Traces : Status(t) \in Terminal /\ StatusIn(index', t) # Status(t) => scanned]_vars

\* What a reader finds in the files of a trace: its terminal event, and how far it is sealed.
WrittenEnds(t) == {l \in LinesOf(t, disk) : l.kind \in Terminal}
EventIn(ends) == IF ends = {} THEN "none" ELSE EventOf((CHOOSE l \in ends : TRUE).kind)
PhaseOf(t) ==
    IF Status(t) = "absent" THEN "none"
    ELSE IF Status(t) \notin Terminal THEN "recording"
    ELSE IF manifest[t] = {} THEN "sealing" ELSE "sealed"

\* Every trace of the workspace lives as TraceLife says, as the child's of an A/B task does, with
\* a crash between any two statements: one verdict, then the index, then a manifest that names it
\* (waiting for input is a way to run). Only the scanner in its thread may break that.
Life(t) == INSTANCE TraceLife WITH
    verdict <- EventIn(WrittenEnds(t)),
    state <- IF Status(t) \in Terminal \cup {"absent"} THEN Status(t) ELSE "running",
    phase <- PhaseOf(t),
    anchor <- EventIn({l \in WrittenEnds(t) : l.n \in manifest[t]})

TracesLive ==
    /\ \A t \in Traces : Life(t)!LifeInit
    /\ [][fileVars' # fileVars /\ ~scanned =>
            \A t \in Traces : UNCHANGED Life(t)!lifeVars \/ Life(t)!LifeNext]_vars

\* A manifest covers every event of its trace, but for those the drain has taken and not yet
\* written: flush_sync does not wait for them.
SealMisses ==
    [][\A t \in Traces : manifest'[t] # manifest[t] /\ ~scanned =>
        Numbers(LinesOf(t, Lines)) \ manifest'[t] \subseteq Numbers(LinesOf(t, batch))]_vars

\* resume_run's promise: a trace that waits for input can be resumed after a restart.
ResumableAfterRestart == \A t \in Traces : Status(t) = "awaiting_input" => Resumable(t)

=============================================================================
