---------------------------- MODULE TraceIngest ----------------------------
(***************************************************************************)
(* How evolution copies one trace of the executor: ingestions on           *)
(* notification or on a user's refresh, which fetch what lies above the    *)
(* high-water mark, the periodic scan, which fetches everything when the   *)
(* statuses differ, the status-only synchronisation, and the migration of  *)
(* orphans when evolution starts.                                          *)
(*                                                                         *)
(* A fetch reads the executor's index entry first, its file afterwards and *)
(* the payloads last; it is stored later, in one transaction, so that      *)
(* fetches commit in any order.  The executor's drain writes its lines     *)
(* late, its finalization writes verdict, index and manifest one by one.   *)
(* trace_phase follows integrity_status in both services and is left out,  *)
(* and so is lifecycle_revision, which evolution only stores and displays.  *)
(* The cancel audit is evidence of the same kind as the test's status and  *)
(* is left out too.  An executor that restarts and forgets the trace is    *)
(* one that does not answer any more (FetchFails).                         *)
(***************************************************************************)
EXTENDS Integers, FiniteSets

CONSTANTS Ingestions,   \* notifications and refreshes
          MaxEvents,    \* bound: events of the trace
          MaxClashes,   \* bound: events that reuse a number
          Heavy,        \* numbers of the events that refer to a payload
          Endings,      \* verdicts the executor may reach
          TestEndings,  \* statuses the manual test may end with
          MaxRestarts   \* bound: restarts of evolution

ASSUME IngestAssumption ==
    /\ MaxEvents \in Nat /\ MaxEvents >= 2     \* a trace starts and ends
    /\ MaxClashes \in Nat /\ MaxRestarts \in Nat
    /\ Heavy \subseteq 1..MaxEvents
    /\ Endings \subseteq {"completed", "failed", "cancelled"}
    /\ TestEndings \subseteq {"done", "cancelled"}

VARIABLES
    \* the executor
    stage,      \* of the recorder: running, closing (verdict written), indexed, sealed
    top,        \* the last number given
    log,        \* events in the trace's file
    late,       \* events the drain has yet to write
    idx,        \* the entry of index.json
    \* evolution's database
    row,        \* of runs
    stored,     \* event_payloads
    bodies,     \* payload_objects: the events whose payload is stored
    conflict,   \* integrity_conflicts has a row
    migrated,   \* orphan_migrations has a row
    test,       \* the status of the manual test that owns the trace
    \* its threads
    th, boot, restarts

exVars == <<stage, top, log, late, idx>>
dbVars == <<row, stored, bodies, conflict, migrated>>
vars == <<exVars, dbVars, test, th, boot, restarts>>

Scanner == "scanner"
Threads == Ingestions \cup {Scanner}
ASSUME ThreadsAssumption == Scanner \notin Ingestions

Verdicts == {"completed", "failed", "cancelled"}
Kinds == Verdicts \cup {"event", "awaiting"}
\* copy tells two events with one number apart
Event(n, kind, copy) == [n |-> n, kind |-> kind, copy |-> copy]
Numbers(S) == {e.n : e \in S}
Has(S, kind) == \E e \in S : e.kind = kind

Absent == [status |-> "absent", seq |-> 0, integrity |-> "none",
           by |-> "nobody"]

NoThread == [at |-> "idle", since |-> 0, listed |-> "none", hint |-> {}, events |-> {}, got |-> {}]

Init ==
    /\ stage = "running" /\ top = 1
    /\ log = {} /\ late = {Event(1, "event", 1)}
    /\ idx = [status |-> "running", integrity |-> "pending",
              manifest |-> {}]
    /\ row = Absent /\ stored = {} /\ bodies = {}
    /\ conflict = FALSE /\ migrated = FALSE
    /\ test = "running"
    /\ th = [t \in Threads |-> NoThread]
    /\ boot = "up" /\ restarts = 0

-----------------------------------------------------------------------------
(* The executor *)

exIdle == <<dbVars, test, th, boot, restarts>>

\* append_event; the drain writes the line later.
ExEvent ==
    /\ stage = "running" /\ idx.status = "running" /\ top < MaxEvents - 1
    /\ top' = top + 1
    /\ late' = late \cup {Event(top + 1, "event", 1)}
    /\ UNCHANGED <<stage, log, idx, exIdle>>

\* _write_batch_sync
ExWrites ==
    /\ late # {}
    /\ log' = log \cup late /\ late' = {}
    /\ UNCHANGED <<stage, top, idx, exIdle>>

\* await_input_run and resume_run
ExAwaits ==
    /\ stage = "running" /\ idx.status = "running" /\ top < MaxEvents - 1
    /\ top' = top + 1
    /\ late' = late \cup {Event(top + 1, "awaiting", 1)}
    /\ idx' = [idx EXCEPT !.status = "awaiting_input"]
    /\ UNCHANGED <<stage, log, exIdle>>

ExResumes ==
    /\ stage = "running" /\ idx.status = "awaiting_input"
    /\ idx' = [idx EXCEPT !.status = "running"]
    /\ UNCHANGED <<stage, top, log, late, exIdle>>

\* A recorder rebuilt for a resumed trace counts from the index, which may lag behind the file.
ExReusesNumber ==
    /\ stage = "running" /\ idx.status = "running" /\ Has(log, "awaiting")
    /\ Cardinality({e \in log : e.copy = 2}) < MaxClashes
    /\ \E e \in log : log' = log \cup {Event(e.n, "event", 2)}
    /\ UNCHANGED <<stage, top, late, idx, exIdle>>

\* complete_run, fail_run, cancel_run: the terminal event.
ExJudges ==
    /\ stage = "running"
    /\ stage' = "closing" /\ top' = top + 1
    /\ \E v \in Endings : log' = log \cup {Event(top + 1, v, 1)}
    /\ UNCHANGED <<late, idx, exIdle>>

\* _finalize_run: a run_meta event may follow the verdict; then the index.
ExIndexes ==
    /\ stage = "closing"
    /\ stage' = "indexed"
    /\ \/ UNCHANGED <<top, log>>
       \/ /\ top < MaxEvents
          /\ top' = top + 1 /\ log' = log \cup {Event(top + 1, "event", 1)}
    /\ \E v \in Verdicts : Has(log, v) /\ idx' = [idx EXCEPT !.status = v]
    /\ UNCHANGED <<late, exIdle>>

\* The manifest names the events that are in the file; it may be degraded or fail.
ExSeals ==
    /\ stage = "indexed"
    /\ stage' = "sealed"
    /\ \/ idx' = [idx EXCEPT !.integrity = "verified", !.manifest = log]
       \/ idx' = [idx EXCEPT !.integrity = "incomplete"]
    /\ UNCHANGED <<top, log, late, exIdle>>

Executor ==
    \/ ExEvent \/ ExWrites \/ ExReusesNumber \/ ExAwaits \/ ExResumes
    \/ ExJudges \/ ExIndexes \/ ExSeals

\* The manual test of the trace ends, as its poll thread or a stop says.
TestEnds ==
    /\ test = "running" /\ test' \in TestEndings
    /\ UNCHANGED <<exVars, dbVars, th, boot, restarts>>

-----------------------------------------------------------------------------
(* ingest_events *)

\* Mutant: the mark is the highest number seen.
HighestSeen(S) == CHOOSE k \in 0..MaxEvents : \A j \in Numbers(S) \cup {0} : j <= k

\* The receipt's contiguous_seq.
Contiguous(S) == CHOOSE k \in 0..MaxEvents : 1..k \subseteq Numbers(S) /\ k + 1 \notin Numbers(S)

\* Mutant: the executor's status always wins.
StatusOfHint(S, hint) == hint.status

\* _derive_run_summary
StatusOf(S, hint) ==
    IF Has(S, "completed") THEN "completed"
    ELSE IF Has(S, "cancelled") THEN "cancelled"
    ELSE IF Has(S, "awaiting") /\ ~Has(S, "failed") THEN "awaiting_input"
    ELSE hint.status

\* Mutant: the last delivery wins.
AcceptedLast(events) ==
    {e \in stored : e.n \notin Numbers(events)}
        \cup {e \in events : \A f \in events : f.n = e.n => f.copy <= e.copy}

\* _write_events: the first event with a number is accepted, another is a conflict.
Accepted(events) ==
    stored \cup {e \in events : e.n \notin Numbers(stored)
                                /\ \A f \in events : f.n = e.n => e.copy <= f.copy}

Clashes(events, S) == \E e \in events : e \notin S

\* Mutant: only payloads that were fetched now count.
BodiesFetched(S, got) == Numbers(S) \cap Heavy \subseteq got

\* _store_payload_metadata: payloads fetched now or stored before.
BodiesComplete(S, got) == Numbers(S) \cap Heavy \subseteq got \cup bodies

\* _upsert_receipt: the manifest must match what is stored, without a gap.
ManifestOk(S, manifest) == manifest # {} /\ manifest = S /\ Numbers(S) = 1..Contiguous(S)

\* Mutant: payloads do not matter.
IntegrityNoBodies(S, hint, clash, complete) ==
    IF clash THEN "conflict"
    ELSE IF ManifestOk(S, hint.manifest) THEN "verified" ELSE "incomplete"

Integrity(S, hint, clash, complete) ==
    IF clash THEN "conflict"
    ELSE IF ManifestOk(S, hint.manifest) /\ complete THEN "verified" ELSE "incomplete"

\* The transaction: events, payloads, receipt and the row of runs (_write_run).
Ingest(events, hint, got) ==
    LET S == Accepted(events)
        clash == conflict \/ Clashes(events, S)
        complete == BodiesComplete(S, got)
    IN  /\ stored' = S
        /\ bodies' = bodies \cup (got \cap Numbers(S))
        /\ conflict' = clash
        /\ row' = [status |-> StatusOf(S, hint), seq |-> Contiguous(S),
                   integrity |-> Integrity(S, hint, clash, complete),
                   by |-> "receipt"]

-----------------------------------------------------------------------------
(* Threads *)

At(t, at) == boot = "up" /\ th[t].at = at
Goes(t, r) == th' = [th EXCEPT ![t] = r]
Ends(t) == Goes(t, NoThread)
thIdle == <<exVars, test, boot, restarts>>

\* ingest_trace_now: _load_prior_events reads the mark.
IngestStart(i) ==
    /\ At(i, "idle")
    /\ Goes(i, [NoThread EXCEPT !.at = "summary", !.since = row.seq])
    /\ UNCHANGED <<dbVars, thIdle>>

\* _scan_once: the executor's list ...
ScanList ==
    /\ At(Scanner, "idle")
    /\ Goes(Scanner, [NoThread EXCEPT !.at = "rows", !.listed = idx.status])
    /\ UNCHANGED <<dbVars, thIdle>>

\* _associated_business_terminal
TestOver == test # "running"

\* Whether the scan passes over a trace.
Skips(listed) ==
    \/ /\ row.status = listed
       /\ ~(row.status \in {"running", "awaiting_input", "cancelling"} /\ TestOver)
    \/ row.status = "interrupted" /\ listed = "running"

\* ... and the local rows.
ScanRows ==
    /\ At(Scanner, "rows")
    /\ IF Skips(th[Scanner].listed) THEN Ends(Scanner)
       ELSE Goes(Scanner, [NoThread EXCEPT !.at = "summary"])
    /\ UNCHANGED <<dbVars, thIdle>>

\* _fetch_trace_content: get_trace_content reads the index entry ...
FetchSummary(t) ==
    /\ At(t, "summary")
    /\ Goes(t, [th[t] EXCEPT !.at = "events", !.hint = {idx}])
    /\ UNCHANGED <<dbVars, thIdle>>

\* ... then the file; the payloads come one by one and may fail.
FetchEvents(t) ==
    /\ At(t, "events")
    /\ LET new == {e \in log : e.n > th[t].since}
       IN  IF new = {}
           THEN IF th[t].since > 0 THEN Goes(t, [NoThread EXCEPT !.at = "resummary"]) ELSE Ends(t)
           ELSE \E got \in {{}, Numbers(new) \cap Heavy} :
                    Goes(t, [th[t] EXCEPT !.at = "commit", !.since = 0, !.events = new, !.got = got])
    /\ UNCHANGED <<dbVars, thIdle>>

\* _sync_status_only fetches the entry once more ...
Resummary(t) ==
    /\ At(t, "resummary")
    /\ Goes(t, [th[t] EXCEPT !.at = "status", !.hint = {idx}])
    /\ UNCHANGED <<dbVars, thIdle>>

FetchFails(t) ==
    /\ boot = "up" /\ th[t].at \in {"summary", "events", "resummary"}
    /\ Ends(t)
    /\ UNCHANGED <<dbVars, thIdle>>

Commit(t) ==
    /\ At(t, "commit")
    /\ \E h \in th[t].hint : Ingest(th[t].events, h, th[t].got)
    /\ Ends(t)
    /\ UNCHANGED <<migrated, thIdle>>

\* ... and writes it over the row, as it is.
WriteStatus(t) ==
    /\ At(t, "status")
    /\ \E h \in th[t].hint :
        row' = [row EXCEPT !.status = h.status, !.integrity = h.integrity, !.by = "executor"]
    /\ Ends(t)
    /\ UNCHANGED <<stored, bodies, conflict, migrated, thIdle>>

Thread(t) ==
    FetchSummary(t) \/ FetchEvents(t) \/ Resummary(t) \/ FetchFails(t) \/ Commit(t) \/ WriteStatus(t)

-----------------------------------------------------------------------------
(* Evolution restarts; migrate_orphans runs before anything else *)

Restart ==
    /\ restarts < MaxRestarts
    /\ restarts' = restarts + 1
    /\ th' = [t \in Threads |-> NoThread]
    /\ boot' = "migrate"
    /\ UNCHANGED <<exVars, dbVars, test>>

\* Mutant: without evidence a trace is taken for cancelled.
OrphanIsCancelled == "cancelled"

\* Mutant: the cancellation is left in progress.
OrphanIsCancelling == IF test = "cancelled" THEN "cancelling" ELSE "interrupted"

\* _classify_orphan: was a cancellation asked for?
OrphanStatus ==
    IF test = "cancelled" \/ Has(stored, "cancelled")
    THEN "cancelled" ELSE "interrupted"

IsOrphan == row.status \in {"running", "awaiting_input", "cancelling"} /\ ~migrated

\* _apply_migration updates the row, and writes its audit afterwards.
Migrate ==
    /\ boot = "migrate"
    /\ IF IsOrphan
       THEN /\ row' = [row EXCEPT !.status = OrphanStatus, !.integrity = "incomplete",
                                  !.by = "migration"]
            /\ boot' = "audit"
       ELSE UNCHANGED row /\ boot' = "up"
    /\ UNCHANGED <<exVars, stored, bodies, conflict, migrated, test, th, restarts>>

MigrateAudit ==
    /\ boot = "audit"
    /\ migrated' = TRUE /\ boot' = "up"
    /\ UNCHANGED <<exVars, row, stored, bodies, conflict, test, th, restarts>>

Next ==
    \/ Executor \/ TestEnds
    \/ \E i \in Ingestions : IngestStart(i)
    \/ ScanList \/ ScanRows
    \/ \E t \in Threads : Thread(t)
    \/ Restart \/ Migrate \/ MigrateAudit

Spec == Init /\ [][Next]_vars

-----------------------------------------------------------------------------
(* Properties *)

Events == [n : 1..MaxEvents, kind : Kinds, copy : 1..2]
Entries == [status : {"running", "awaiting_input"} \cup Verdicts,
            integrity : {"pending", "verified", "incomplete"},
            manifest : SUBSET Events]
Rows == [status : {"absent", "running", "awaiting_input", "interrupted"} \cup Verdicts,
         seq : 0..MaxEvents, integrity : {"none", "pending", "verified", "incomplete", "conflict"},
         by : {"nobody", "receipt", "executor", "migration"}]

ThreadSet == [at : {"idle", "rows", "summary", "events", "commit", "resummary", "status"},
              since : 0..MaxEvents, listed : {"none", "running", "awaiting_input"} \cup Verdicts,
              hint : SUBSET Entries, events : SUBSET Events, got : SUBSET Heavy]

\* Every variable keeps its kind: the entry, the row, the copies and the threads.
TypeOK ==
    /\ stage \in {"running", "closing", "indexed", "sealed"} /\ top \in 1..MaxEvents
    /\ log \subseteq Events /\ late \subseteq Events /\ idx \in Entries
    /\ row \in Rows /\ stored \subseteq Events /\ bodies \subseteq Heavy
    /\ conflict \in BOOLEAN /\ migrated \in BOOLEAN
    /\ test \in {"running", "done", "cancelled"}
    /\ th \in [Threads -> ThreadSet]
    /\ boot \in {"up", "migrate", "audit"} /\ restarts \in 0..MaxRestarts

\* The high-water mark is the end of the gapless prefix: a fetch that starts there loses no event,
\* in whatever order the fetches are stored.
MarkExact ==
    row.status # "absent" =>
        /\ \A n \in 1..row.seq : n \in Numbers(stored)
        /\ row.seq + 1 \notin Numbers(stored)

\* An accepted event is never replaced, whatever later deliveries say of its number; one number
\* has one event, so that a reader is never shown two histories.
AcceptedStays ==
    [][/\ stored \subseteq stored'
       /\ \A e, f \in stored' : e.n = f.n => e = f]_vars

\* A copy that was found verified is the executor's sealed file, gapless, without conflict, with
\* its verdict and every payload.
VerifiedIsWhole ==
    row.by = "receipt" /\ row.integrity = "verified" =>
        /\ stored = idx.manifest /\ ~conflict
        /\ Numbers(stored) = 1..row.seq
        /\ \E v \in Verdicts : Has(stored, v)
        /\ Numbers(stored) \cap Heavy \subseteq bodies

\* A verified copy is doubted again only by a fetch that began before the seal, by a line that
\* reached the file after it, or by a conflict: never because a payload was not fetched again.
VerifiedStays ==
    [][row.by = "receipt" /\ row.integrity = "verified" /\ row'.integrity # "verified" =>
           \/ \E t \in Threads : \E h \in th[t].hint : h.manifest = {} /\ th'[t].at = "idle"
           \/ stored' # stored \/ conflict']_vars

\* An ended copy is reopened only by a fetch that read the executor's entry before it ended, and
\* never when the fetch is stored with a completed or cancelled event beside it.
EndStays ==
    [][row.status \in Verdicts /\ row'.status \notin Verdicts =>
           \E t \in Threads :
               /\ \E h \in th[t].hint : h.status \notin Verdicts
               /\ th'[t].at = "idle"
               /\ th[t].at = "status" \/ ~(Has(stored', "completed") \/ Has(stored', "cancelled"))]_vars

\* No ending of a copy is made up. One that a fetch stored is that of a terminal event stored
\* with it, although the status may come from an entry read before the file and events may be
\* dropped as clashes; one copied without events is in the executor's file; and one that the
\* migration of an orphan wrote is a cancellation that was asked for, or stored before.
EndingIsProven ==
    row.status \in Verdicts =>
        /\ row.by = "receipt" => Has(stored, row.status)
        /\ row.by = "executor" => Has(log, row.status)
        /\ row.by = "migration" =>
               row.status = "cancelled" /\ (test = "cancelled" \/ Has(stored, "cancelled"))

=============================================================================
