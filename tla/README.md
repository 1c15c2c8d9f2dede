# Writer: a verification project for its task, trace, test, credit and release life cycles

Writer is two Python services that share contracts. The *executor* runs writing
agents and records every run as a trace on disk. *Evolution* observes the
executor: it ingests traces, runs tests of a version, judges, diagnoses and
releases. Most of either is data (prompts, rubrics, projections). What is hard
is the handful of state machines in which threads, a child process, files, two
databases and HTTP requests meet, and those are what is modelled here.

## Inventory

| Part | State | Operations | Hard behaviour | Correct when |
|---|---|---|---|---|
| A/B task (`executor/app/routers/internal.py`) | `_ab_tasks[task_id]`: status, trace_ids, worker, cancel identity, `converge_started` | `ab_run`, `_execute_ab`, `ab_stop`, `_run_cancel_convergence`, `ab_status` | three kinds of threads write one dict without a lock; statuses are read, then written | done only with a completed, sealed trace; a stop ends the child |
| Isolation worker (`platform/isolation/worker_process.py`) | process, queue, cancel flag, last result | start, wait_for_trace_id, stop_and_collect, drain, kill | a child may crash, hang or be killed at any point; two threads drain its queue | hard stop; results agree with the disk |
| Trace recorder (`platform/trace/recorder.py`) | memory of active traces, pending lines, jsonl of events, `index.json`, manifests | create_run, resume_run, append_event, complete/fail/cancel/await, `_finalize_run`, flush and drain, zombie scanner, `seal_external_cancel` | event loop, drain thread, scanner thread, child and parent all write one trace's files; writes are separate | one verdict, unique numbers, phases only forward; index, log, manifest and memory agree |
| Cancel contract (`contracts/cancel_state.py`) | none | is_terminal, can_transition_to | shared by both services | terminal statuses stay |
| Manual tests (`evolution/app/tests`) | row of `manual_tests` | start, poll, stop, delete | poll thread, handlers, notice and ingestion write one row; each UPDATE is unconditional | done is earned, cancelled is wanted, the link to the trace is kept |
| Ingestion (`evolution/app/ingestion`) | rows of `runs`, events, payloads, receipts, conflicts | notify, ingest_trace_now, scan, refresh, status-only sync, migrate_orphans | fetches are stored late and in any order; payloads and numbers may not agree with what is stored | the copy never leads, and catches up; the mark is gapless; verified means whole |
| Generation streams (`domains/writing/agent.py`, `platform/streaming`) | task, trace and phase of each stream | open, resume, interrupt, settle, complete, fail, stop, leave | a stream can end at every await, and two can be attached to one trace | every trace keeps an owner or an end, every hold is released |
| Credits (`platform/credits`) | balances, holds, transactions | create_hold, add_consumption, check_credit_limit, settle_hold, admin_adjust | three transactions per settlement; exceptions and interrupts between hold and settlement | credits are conserved, the debt is bounded |
| Versions and release (`evolution/app/versioning`, `evolve/api.py`, `executor/docker-entrypoint.sh`) | sessions' rows, `registry.json`, working and bare repository, the executor's checkout | rounds, finalize, stop, publish, rollback, discard, reload, reconcile | publish and rollback work for minutes in threads without a lock; git, HTTP and the loader fail; reloads come late | registry sound behind the probe; a release ends all or nothing; a closed session stays closed |
| Promotion (`evolution/app/promote`) | promote_tasks | create, judge, decide | judge and decision race; crash while judging | a decision stands |
| Dossier (`evolution/app/dossier`) | evidence, revisions, leases | extract, override, recover | a lease that outlives its extractor | one extraction at a time |
| Evaluation, benchmark, diagnosis, reflection, improvement, problem base, memory, front ends | rows, files, stores | mostly LLM sessions and read models | crash between steps | see PROJECT.json |

The executor and evolution interact by HTTP only: `POST /ab/run`,
`GET /ab/status`, `POST /ab/stop`, `GET /traces`, `GET /traces/{id}` one way and
`POST /ingestion/notify` the other; a release adds `POST` probe and reload calls
and the bare repository both mount. Inside the executor, the parent and the child
share a queue, an event flag and the trace's files.

`PROJECT.json` lists every part with its status, and under `hazards` the places
where the code is hard to test.

## Modules

    TraceData      vocabulary of a trace: outcomes, terminal events
      TraceLife    abstract: one trace is opened, judged once, closed, sealed
        TaskView   abstract: what GET /ab/status shows of a task, with its trace
          ManualTest   evolution's test of one task, on top of TaskView
    CancelState    contracts/cancel_state.py
      AbTask       one A/B task in the executor; implements TraceLife and TaskView
        EndToEnd     AbTask and ManualTest joined at their requests
    Ledger         abstract: what may move the worth of a user's account
    Credits        one user's credits and one thread's hold
      Generation   the streams of a thread, the recorder, the scanner, on Credits;
                   implements Ledger, and TraceLife for each trace
        MCGeneration   its symmetry for TLC
    TraceIngest    concurrent copies of one trace
    Registry       the operations on registry.json, as operators
      Release      sessions, publish, rollback, discard, reload, on Registry
        MCRelease      its symmetry for TLC

    AbTask_proofs, ManualTest_proofs, EndToEnd_proofs (on both), TraceIngest_proofs
    Generation_proofs (types, credits), Recorder_proofs (the recorder, on top of it)
    Release_proofs (types, registry, sessions), Settle_proofs (releases, on top of it)

**AbTask** is one entry of `_ab_tasks` with the threads that touch it. `ex` is
the position of `_execute_ab`, `cv` that of `_run_cancel_convergence`, `stop[r]`
that of each `ab_stop` request, `child` that of the worker process. `events` and
`index` are the trace's terminal events on disk and its entry of index.json;
`queue`, `hold`, `wTrace`, `lastResult` and `cancelFlag` are the worker object.
A step is one write that another thread or process can see: the status check and
the status write of `ab_stop` are two steps, so are `Queue.get` and the storing
of what it returned, and the terminal event, the first index write and the
manifest of `_finalize_run`. `ChildCrashes` may happen between any two steps of
the child, `CvKill` at the deadline. A timeout is a step that is enabled as soon
as the wait begins: no clock is modelled, so the results hold for every length
of a time limit.

**TaskView** and **TraceLife** say what a client may rely on. They are small on
purpose: which status follows which is not promised by the code (a late stop can
put `cancelling` over a terminal status, and `_execute_ab`'s except clause writes
`failed` over anything).

**ManualTest** composes evolution with TaskView instead of with AbTask: what is
shown about evolution holds of every executor that implements TaskView. `row` is
the row of `manual_tests`, `runs` the trace's row in `runs` together with the
verdict among its stored events. Each thread is a position and the values it has
read: `pollRow` and `seen` for `_poll_task_status`, `stopTrace` for `stop_test`,
`fetched` for `ingest_trace_now`, `scanned` for `_scan_once`. The steps of one
handler are its database statements and its requests. `lost` is an executor that
has restarted (its task table and its list of traces are gone, its files are not).

**EndToEnd** puts the two services together: ManualTest's threads, and AbTask's in
the place of the executor that ManualTest assumes (its `verdict`, `shown`, `asked`
are AbTask's `events`, `status`, `stop`). `Deliver(r)` is a stop of evolution that
reaches `ab_stop`, `Drop(r)` one that does not; `Registers` is the step of
`_execute_ab` after which the executor lists the trace; a failure that shows lets
the notice be sent, and evolution looks at it once `_notify_evolution_task_failed`
has run. A restart takes the executor's threads and leaves the child.

**Credits** is what `CreditsService` does to `users`, to the thread's active row of
`credit_holds` and to `credit_transactions`, one operator per method. A settlement
is several transactions; a crash may come between them (`torn`). **Ledger** is what the user sees of it: when all is settled, his account
falls by what was used during a creation that he had credit for and rises by what
was granted, whatever was held, charged or refunded on the way.

**Generation** composes Credits with the generation streams of one thread and the
`TraceRecorder`. Streams share an event loop: what a stream does between two
awaits is `loop.todo`, the list of statements it has yet to execute (for instance
`settle, append, store, seal` for a stream that completes), and no other stream
runs meanwhile. Threads do: the drain's writer (`DrainTake`, `DrainWrite`), the
zombie scanner (`ScanFind` to `ScanSeal`), an admin, and a crash come between any
two statements. `active` and `seq` are `_sequences`, `task` is `_run_tasks`,
`known` is `_trace_workspace`, `pending` and `batch` are the lines not yet on
`disk`; `index` is a set of entries so that a stream can hold an old copy of it in
`loop.copy`, as `_finalize_run` and the scanner do. A stream is `opened` or in
`setup` while it is suspended before its try statement, where nothing finalizes
its trace, and in `run` behind it.

**TraceIngest** is the copy of one trace at the level of events. `stage`, `log`,
`late` and `idx` are the executor's file, the lines its drain has yet to write and
its index entry; `row`, `stored`, `bodies` and `conflict` are evolution's tables;
`th[t]` is what an ingestion or the scan has fetched so far (`since` is the
high-water mark it asked from, `hint` the entry, `events` the file's lines, `got`
the payloads) until one transaction stores it. Boot runs `migrate_orphans` as two
transactions.

**Registry** and **Release**. Registry is the computation of each operation on
`registry.json` between its read and its write. Release has one position per
publish thread and for the rollback thread (`thr`), one for the discard (`disc`),
the commits with the registry each holds (`log`), the three places that name a
commit (`head`, `bare`, `checkout`) and the executor's reloads in hand (`load`).
A position is named for what has just happened ("promoted", "recall",
"activating"), so that the compensations of `publish` and `rollback` read as in
the code. `alone` remembers that a request met no other: the properties that the
code only gives then say so.

## Runs

| Run | Shows |
|---|---|
| `ab_task` | TypeOK, VerdictOnce, ConvergedIsHonest, ConvergedMeansStopped, ToldOutcomeStands; that AbTask implements TraceLife (TraceLives) and TaskView (TaskSeen); HardStop, ConvergenceCompletes under fairness |
| `manual_test` | TypeOK, DoneIsEarned, CancelIsWanted, CopyNotAhead, TraceKept |
| `manual_test_live` | PollSettles, CopyCatchesUp under fairness |
| `seal_overrides_verdict` | violation: a child killed between `run_end` and its first index write is sealed as cancelled |
| `cancelled_while_running` | violation: a stop before the worker is registered declares the task cancelled; the child then runs to its end |
| `stop_never_converges` | violation: overlapping stops, or one that meets an unstarted worker, leave `cancelling` or `unknown` for ever |
| `first_terminal_replaced` | violation: the poll thread overwrites a cancelled test with failed |
| `left_to_ingest` | violation: scan first, ingestion second, executor restarted: the test runs for ever |
| `generation` | TypeOK; the credits (Books, DebtBounded, HoldReleased; that Generation implements Ledger: AccountKept); the recorder (OneVerdict, NumbersUnique, IndexTellsLog, SealMisses; that every trace implements TraceLife until the scanner cancels one: TracesLive); streams and traces (RunningHasOwner, Stoppable) |
| `resume_after_restart` | violation: a trace that waits for input cannot be resumed after a restart, because its workspace was known only in memory |
| `trace_ingest` | TypeOK, MarkExact, VerifiedIsWhole, EndingIsProven, AcceptedStays, VerifiedStays, EndStays |
| `release` | TypeOK, RegistrySound, ServedIsGated, ReleaseSettles, ClosedStays |

EndToEnd has a configuration (`EndToEnd.cfg`: TestSeen, DoneIsTheChilds,
CancelIsTheUsers) but is not one of the runs: with one stop and no ingestion it has
3.6 million states, which TLC went through without a violation in three minutes on
four cores, as it did with an ingestion and no stop (0.6 million). Its three
properties are proved.

**Bounds.** `ab_task` has two stop requests: the interesting races need two (one
that launches the convergence, one that passed the check before it ended); a
third only repeats the second. The queue needs no bound: a child sends at most two
messages. `manual_test` has one stop request, one ingestion, two tolerated 404s
(five in the code; the branches are "one more" and "the last") and an executor
that shows only `done`, `evidence_capture_failed` or `cancelled` and judges with
`run_end` or `run_cancelled`. `failed` takes the same branches as
`evidence_capture_failed` in evolution, and `run_error` those of no verdict in
`_derive_run_summary`; leaving them out keeps the run at three million states.
`manual_test_live` leaves the ingestion out, because the two liveness properties
must hold without it, and takes the two statuses and the verdict that evolution
treats least directly. `generation` has two streams and two traces, so that two
streams can meet on one trace while another trace shares the index; agents append
while there are fewer than two events (terminal lines are not bounded by it), one
crash separates two lives of the process, and a balance of 4, a hold of 3, calls
of 2 and a debt of 3 let a call cross the limit and a hold be short. Streams and
traces are interchangeable and symmetric. `trace_ingest` has one ingestion beside
the scan, three events (a gap needs three), one reused number, a payload on the
first event, one restart of evolution and the ending `cancelled`, which stands in
the events and is also what a stopped test leaves the migration to conclude; 1.8
million states. With `failed` beside it, an ending that a copy has from the entry
alone, there are 3.8 million, too many for a run of every day; nothing was violated
when they were explored, and `EndHasProof` covers every set of endings. `release` has
one session, two publish threads and the rollback thread, three requests and one upset. An upset is a request that
starts while another is served, a restart, or a fault of git, HTTP or the loader;
a second one squares the faults and was explored once with two requests
(2.7 million states, nothing violated). The safety properties of all these runs are
proved for every value of the constants.

**Fairness.** AbTask: each executor thread is scheduled (weak fairness on
`_execute_ab`, on the convergence and on each accepted request). Nothing is
assumed of the child, which may hang in a model call, nor of the reaping of a
killed process: `stop_and_collect` waits with timeouts. ManualTest: the threads of
evolution are scheduled; requests of users, notifications and the executor's
progress are not promised. Strong fairness is used once, on the answer to a poll
(`PollNotFound \/ PollSees`): the poll thread repeats a failing request for ever,
and an executor that is up does not fail every one of them. Nothing makes the
executor restart or stay up: PollSettles is conditional on an executor that keeps
its task.

Generation, TraceIngest and Release state safety only, without fairness: symmetry
is unsound for liveness, and that a copy catches up is `CopyCatchesUp` of ManualTest.

**Deadlock.** Checked off in all runs (`CHECK_DEADLOCK FALSE`): tasks, tests,
streams and copies really end, and the requests of a release are bounded.

## Proofs

Every safety property of a passing run is proved by `tlapm` for every value of the
constants, and so are the refinements (TraceLives, TracesLive, TaskSeen, AccountKept) and the
composition of the two services (`Composition`). Three properties are proved and not
run: DoneMeansCompleted, which TaskSeen implies, VerdictKept of Generation, which
TracesLive implies, and AwaitingInMemory.

*AbTask.* None of the properties is inductive. That the seal finds at most one
verdict needs that the child has stopped writing when the convergence thread looks,
which needs where the two stand with respect to each other. `Inv` ties the child's
position to the thread that starts it (`ExInv`) and to what is on disk
(`ChildInv`), the convergence thread's position to the child's (`CvInv`), and says
that nobody holds a trace id that is not on disk (`TraceKnown`) or the word "done"
about a run that is not completed and sealed (`DoneKnown`). Each part has one
lemma, with a step per action. For TaskView, `Told` adds that nobody holds
"cancelled" before a stop request has been admitted, nor "done" without the trace.
ConvergedMeansStopped needs `Stopped`: before a child runs there is no message, so a
convergence that met no running child holds nothing but "unknown".
ToldOutcomeStands is inductive with `Inv`, because the child notifies after it has
sealed and the seal never takes over an outcome it respects.

*ManualTest.* Threads act on what they read long ago, so the invariant speaks of
all the copies: `Claim(s)` is what an index status says of the run for good (an
outcome means a verdict, completed means run_end, cancelled means asked), and
`Inv` says that every copy of the trace, in `runs` or in a thread's hands, is
`Backed` by the trace, that the status the poll thread holds is (`SeenOK`), and
that whoever asked the executor to stop was admitted (`AskOK`). Copies stay backed
because TaskView never replaces a verdict and never takes a request back
(`ViewKeeps`), and no step of evolution does anything to the executor that TaskView
does not (`ViewSteps`). The frame lemmas say which steps write which variable.

*EndToEnd.* `Composition`: every step of the two services together is a step of
ManualTest, so everything proved of ManualTest holds of the real executor.
`ExecutorSteps` reads it off `Visibility`, with two facts TaskView leaves out: a trace
that shows for the first time is the one `_execute_ab` registers, or comes with a
status (`FirstShown`), and only a request from outside asks (`OwnSteps`). The joined
invariant adds that a failure shown has had its notice (`Noticed`), that a stop
handler has its request (`Delivered`), and that every verdict is the child's or the
seal's (`Authored`). From it follow two properties that need both services: a test is
done only if its child completed the run (`ChildsDone`), and nothing cancels, in either
service, before evolution has accepted a stop (`UsersCancel`).

*Credits, in Generation.* `Books` is inductive with the types. `DebtBounded` is
not: `DebtInv` says that a hold that is active keeps the balance above the limit but
for the model call that crossed it, and that the settlement is next when it did;
each crash adds one call, because the stream that resumes may make one before it
looks. `AccountRefined` maps the balance, with what is held and not used up, to
Ledger's `worth`: `create_hold` and `settle_hold` are steps that leave it alone.

*The recorder* (`Recorder_proofs`). Until the scanner cancels a trace (`scanned`),
`index.json` is only written on the event loop, and everything is said relative to
the statements left in `loop.todo`. `Script`: they are a tail of one of
generate_stream's endings. `Log` ties lines, index, memory and the stream's copy of
the index: numbers are unique and below the counter (`Numbered`, `Unique`), a
trace has one terminal line (`OneEnd`), which an active trace has only while its
stream is between two statements of `_finalize_run` (`Ending`), where the verdict
is on disk and the copy differs from the index by that trace's entry only (`Hand`).
`Links` ties streams to traces: who runs is registered or shares its trace
(`Reached`), a running trace is owned (`Claimed`), a stream that settles last has
its verdict in the index (`Paid`). `HoldOwned` holds even when the scanner has
interfered. There is one lemma per step and part; steps with the same effect share
one (`Aside`, `Calm`, `Moves`, `Leaves`, `Says`, `Same`). `EveryTraceLives` is the
refinement of TraceLife by each trace: its verdict is the terminal line on disk, its
phase is read off index and manifest. `append`, `store` and `seal` are the steps
`Judge`, `Close` and `Seal`, and every other step shows nothing (`SameTrace`). It takes
two facts more: no terminal line is in the drain's hands (`Flushed`), so that neither
the drain nor a crash can make a verdict appear, and a trace in memory has no manifest
(`Unsealed`), so that none names a verdict early.

*TraceIngest.* `File` and `Sealing` are what the executor's writes keep of its own
file, entry and manifest. `ThreadsHonest` is what a thread's fetched copy may say of
it, however old: a manifest, once written, is the manifest; events fetched are
events of the file; what lies below the mark it asked from is stored. `Copied` is
the consequence for evolution's tables, with the mark at the end of the gapless
prefix and `Whole` for verified copies. The action properties follow from these.

*Release.* `SoundHere` says of every registry that exists anywhere (the working
tree's and the one in each commit) that it is sound: a discard or a restart may
bring any of them back. `GateServes` says of the executor's checkout that the probe accepted it, or
that it is the image's own: whoever checks out, and however late, takes the commit that
the bare repository's registry names, and that registry is sound. ClosedStays needs who may hold a session (`Owned`): a round
is over when the session is open for review, and a request that is alone finds the
session as it left it. `Settle_proofs` proves ReleaseSettles from `Followed`, which
says of a release that has met no other, position by position, what the registry,
the bare repository and the executor's checkout name, and that an answered reload
is of what production names.

The assumptions are those the modules state of their constants: the number of
tolerated 404s is positive, and Statuses and Verdicts are subsets of the executor's
words (ManualTest); amounts are natural numbers and a call costs at most MaxCost
(Credits); the names that stand for nobody are nobody's (Generation, Release); a
trace has at least two events, verdicts are the recorder's (TraceIngest). AbTask
needs none. Bounds on events, crashes, requests and upsets are arbitrary.

Only model-checked: liveness (HardStop, ConvergenceCompletes, PollSettles,
CopyCatchesUp), since TLAPS does not prove ENABLED or liveness under fairness. Every
other property of a passing run is proved. No module declares a RECURSIVE operator.
Induction over data is not needed, but for the existence of a least number
(`TraceIngest_proofs`) and a greatest version (`Release_proofs`), which follow from
the library's theorem on well-founded orders.

## Abstractions

*A/B task and tests.*
- One task, one trace, one test. Tasks are independent in the code but for the
  parent's index lookup, which is abstracted to "known or not".
- In ManualTest, events other than the verdict are not counted; the high-water mark
  appears as "new events or none". TraceIngest has them.
- In EndToEnd a stop reaches the executor while evolution waits for its answer, or
  never; one that the network delivers after evolution's time-out is left out.
- On Windows the kill is `taskkill` on a process tree; the model has one child.
- Statuses `interrupted` and `awaiting_input` do not occur for A/B tasks.
- A restart of evolution is a step of TraceIngest and Release, not of ManualTest.
- An exception in the poll loop marks the test failed; only the HTTP failures that
  the loop catches itself are steps, since nothing else in it can fail but the
  database.

*Generation.* Creating an entry of the index and marking one for await are single
steps (they do not suspend the event loop; the scanner's interleaving is modelled
at `_finalize_run` and in the scanner itself). The scanner's search and its check of
the age are one step, at any time: no clock is modelled. The phases of a stream's
end are collapsed to `end`: done, raised, closed, left, setup, broken, crashed.
Nobody stops a trace that has ended. An admin grants once, when a user's credits
are frozen. The flush of a graceful shutdown is not modelled: a crash loses what is
pending.

*TraceIngest.* `trace_phase` follows `integrity_status` in both services,
`lifecycle_revision` and the cancel audit decide nothing here; they are left out. So
are payload expiry and what is derived from events (OTLP, nodes, artifacts). An
executor that restarts and forgets the trace is a fetch that fails. The deletion of
a row is in ManualTest.

*Release.* A change of `registry.json` (read, compute, write) is one step, although
the code has no lock: the lost update that `evolve/api.py:755` is there to prevent
(for a publish and a round only) is not modelled. A git command is one step, and a git that fails before the commit
of `Freeze` has no effect. Stop's read and write are one step; Finalize moves the
session to finalizing at once; a round's answers to messages change nothing here.
The import of the package is part of the reload; the race between an import and a
checkout, a restart of the executor, and loading the package on demand are not
modelled. The seed version is number 1.

## What the code does and no document forbids

These are left as they are, in the models and in `hazards`.

- A child that dies without a result leaves its task running until it is stopped;
  one killed between index and manifest leaves its entry `sealing`; a deleted
  test's trace copy may come back; a stop that is read before the task id is
  written never reaches the executor.
- A stream that ends in an exception other than a stop, is closed at a yield, finds
  its trace gone, or is cancelled on a trace another stream left waiting keeps its
  hold (HoldReleased names these endings). A failed assembly or a client that leaves
  during setup leaves the trace running for ever (RunningHasOwner).
- The scanner's thread finalizes with an old copy of the index and may take back
  another trace's verdict, or put it back to awaiting: the properties that hold only
  `~scanned` say so.
- A manifest misses what the drain's thread has in hand (SealMisses).
- `sync_status_only` overwrites a receipt's finding; a summary fetched before the
  seal and stored after it turns a verified copy incomplete; a running trace is
  ingested as incomplete although `importer.py:132` says otherwise; `interrupted` is
  overwritten by a later ingestion although `scan.py` says it must not be;
  `migrate_orphans` marks running traces too, although the comment in evolution's
  `main.py:61` names only ownerless ones; a batch the drain writes after the seal is
  never fetched.
- `stop_session` (`evolve/api.py:534`) runs in a thread of the pool, where
  `asyncio.create_task` raises: the session stays cancelling, its round goes on, and
  another session may start beside it. Discard resets the working tree to
  production's source commit, and `registry.json` with it: the pointer and its own
  entry may be lost, version numbers are given again. After a discard, a failed probe
  and a restart, the pruning at start (`registry_repo.py:142`) binds production to
  the repository's head, which the probe has not accepted, contrary to its comment at
  line 146. A publish that meets a discard, or a second publish, overwrites a
  closed status, or marks a session published that is not served; three that overlap
  may leave production at a version that does not exist. `reconcile` compares
  commits of the checkout, not the package in memory, and a reload that comes after
  its caller has given up installs what production names then.

## Not modelled

The registry's `publish_version`, `bind_version_commit` and `update_version_meta`
(no endpoint of the modelled ones calls them); spans, payload externalization,
artifact revisions and deletion in the recorder; the agents' own work (prompts,
tools, subagents, scoring, extraction), which is data to every property here; batch
analysis, projections and views, which only read; accounts and model settings;
the sandbox; the front ends. Hazards without a property carry a note that says why.

## Plan

Done: AbTask, ManualTest and the two together (EndToEnd), Credits with Generation and
its Ledger, TraceIngest, Registry with Release, each with the proofs of its safety
properties.

1. **Promotion** (`promote/repo.py`, `judge.py`, `scheduler.py`): a decision
   submitted while the judge runs is overwritten by its result; a crash between
   mark_judging and set_judge_result leaves a row judging for ever. Properties: a
   decision stands; every pending task is judged or decided.
2. **Dossier** (`dossier/repo.py`, `recovery.py`): revisions and leases of an
   extraction; one extractor at a time, no revision lost.
3. **Increment** (`ingestion/increment.py`): `reconstruct_full_input` inverts
   `compute_increment`, as functions on short sequences.
4. Liveness of Generation (a stopped stream ends, the drain empties its buffer)
   without symmetry and with one trace.
