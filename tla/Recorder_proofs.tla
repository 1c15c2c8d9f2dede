-------------------------- MODULE Recorder_proofs --------------------------
(***************************************************************************)
(* Proofs about the recorder and the streams of Generation: one verdict    *)
(* per trace, numbers, index, log, memory and manifest that agree, streams *)
(* that a stop reaches, traces with an owner, and holds that are released. *)
(*                                                                         *)
(* Until the scanner cancels a trace, index.json is only written on the    *)
(* event loop: the invariant says what holds until then, statement by      *)
(* statement of the stream that runs.                                      *)
(***************************************************************************)
EXTENDS Generation_proofs, FiniteSetTheorems

-----------------------------------------------------------------------------
(* The invariant *)

Closings ==
    {<<"settle", "append", "store", "seal">>, <<"append", "store", "seal">>,
     <<"append", "store", "seal", "settle">>, <<"store", "seal">>,
     <<"store", "seal", "settle">>, <<"seal">>, <<"seal", "settle">>, <<"settle">>}

Awaitings == {<<"settle", "await">>, <<"await">>}

\* What a running stream has yet to do is the rest of one of generate_stream's endings.
Script ==
    Busy =>
        /\ me \in Streams /\ pc[me] = "run"
        /\ loop.end \in {"done", "raised"}
        /\ loop.todo \in Closings \cup Awaitings
        /\ loop.todo \in Closings => loop.status \in Terminal

\* A stream has a trace from its first step on, and an end when it has ended.
Opened ==
    \A r \in Streams :
        /\ pc[r] = "idle" => of[r] = NoOne
        /\ Live(r) => of[r] \in Traces
        /\ pc[r] # "ended" => end[r] = "none"

AtEnd == Busy /\ Head(loop.todo) \in {"store", "seal"}

\* The scanner has at most looked.
Still == scan.at \in {"idle", "found"}

Functional(ix) == \A e, f \in ix : e.trace = f.trace => e = f

\* A trace without an entry has left no mark anywhere.
Fresh ==
    \A t \in Traces : Status(t) = "absent" =>
        /\ \A l \in Lines : l.trace # t
        /\ t \notin known
        /\ \A r \in Streams : of[r] # t

\* The recorder's counter is past every line of an active trace.
Numbered == \A l \in Lines : l.trace \in active => l.n <= seq[l.trace]
Unique == \A l, m \in Lines : l.trace = m.trace /\ l.n = m.n => l = m

\* What the process has known is in its memory until its verdict is in the index.
Remembered ==
    /\ active \subseteq known
    /\ \A t \in known : t \in active \/ Status(t) \in Terminal

IsVerdict(l, t) == l.trace = t /\ l.kind \in Terminal
OneEnd == \A t \in Traces : \A l, m \in Lines : IsVerdict(l, t) /\ IsVerdict(m, t) => l = m

\* An active trace has a verdict only while its stream is between two statements of _finalize_run.
Ending ==
    \A t \in active :
        /\ \A l \in Lines : IsVerdict(l, t) => AtEnd /\ mine = t
        /\ Status(t) \in Terminal => AtEnd /\ mine = t /\ Head(loop.todo) = "seal"

\* There, the verdict is on disk, nothing of the trace is pending, and the copy is the index but
\* for the entry of the trace.
Hand ==
    AtEnd =>
        /\ mine \in active
        /\ \E l \in disk : l.trace = mine /\ l.kind = loop.status
        /\ \A l \in pending : l.trace # mine
        /\ Head(loop.todo) = "store" =>
              \E e \in loop.copy : loop.copy = Put(index, mine, loop.status, e.count)
        /\ Head(loop.todo) = "seal" => loop.copy = index /\ Status(mine) = loop.status

Told ==
    \A t \in Traces : Status(t) \in Terminal => \E l \in disk : l.trace = t /\ l.kind = Status(t)

Kept == crashes = 0 => \A t \in Traces : Status(t) # "absent" => t \in known

Log ==
    /\ Still /\ Functional(index) /\ Fresh /\ Numbered /\ Unique /\ Remembered
    /\ OneEnd /\ Ending /\ Hand /\ Told /\ Kept

\* A stream that settles after its verdict has it in the index.
Paid == Busy /\ loop.todo = <<"settle">> => Status(mine) \in Terminal

\* Streams on one trace are accounted for.
Attached ==
    /\ \A r, o \in Streams : r # o /\ Live(r) /\ Live(o) /\ of[r] = of[o] => of[r] \in shared
    /\ \A r \in Streams : Live(r) => of[r] \in known
    /\ \A r \in Streams : Live(r) /\ Status(of[r]) = "awaiting_input" => of[r] \in shared

Holder(r) ==
    \/ pc[r] = "run" \/ end[r] \in {"raised", "closed", "broken", "crashed"}
    \/ end[r] = "left" /\ (of[r] \in shared \/ scanned)

Settles(p) == \E i \in 1..Len(p) : p[i] = "settle"

\* A hold belongs to a stream that runs, or to one that left it behind; one that is about to end
\* in good order has its settlement before it.
HoldOwned ==
    /\ hold.active => \E r \in Streams : Holder(r)
    /\ Busy /\ loop.end = "done" /\ hold.active => Settles(loop.todo)

-----------------------------------------------------------------------------
(* Scripts *)

LEMMA Scripts ==
    ASSUME NEW p \in Closings \cup Awaitings
    PROVE  /\ p \in Seq(Steps) /\ Len(p) > 0
           /\ Len(p) > 1 => Tail(p) \in Closings \cup Awaitings
           /\ Len(p) > 1 /\ Tail(p) \in Closings => p \in Closings
           /\ Head(p) \in {"append", "store", "seal"} => p \in Closings
           /\ Head(p) = "append" => Len(p) > 1 /\ Head(Tail(p)) = "store"
           /\ Head(p) = "store" => Len(p) > 1 /\ Head(Tail(p)) = "seal"
           /\ Head(p) = "seal" /\ Len(p) > 1 => Tail(p) = <<"settle">>
           /\ Head(p) = "settle" /\ Len(p) > 1 => Head(Tail(p)) \in {"append", "await"}
           /\ Head(p) = "settle" /\ ~(Len(p) > 1) => p = <<"settle">>
           /\ Head(p) = "await" => ~(Len(p) > 1)
           /\ Settles(p) /\ Head(p) # "settle" => Len(p) > 1 /\ Settles(Tail(p))
<1>1. CASE p = <<"settle", "append", "store", "seal">>
  BY <1>1 DEF Closings, Awaitings, Settles, Steps
<1>2. CASE p = <<"append", "store", "seal">>
  BY <1>2 DEF Closings, Awaitings, Settles, Steps
<1>3. CASE p = <<"append", "store", "seal", "settle">>
  BY <1>3 DEF Closings, Awaitings, Settles, Steps
<1>4. CASE p = <<"store", "seal">>
  BY <1>4 DEF Closings, Awaitings, Settles, Steps
<1>5. CASE p = <<"store", "seal", "settle">>
  BY <1>5 DEF Closings, Awaitings, Settles, Steps
<1>6. CASE p = <<"seal">>
  BY <1>6 DEF Closings, Awaitings, Settles, Steps
<1>7. CASE p = <<"seal", "settle">>
  BY <1>7 DEF Closings, Awaitings, Settles, Steps
<1>8. CASE p = <<"settle">>
  BY <1>8 DEF Closings, Awaitings, Settles, Steps
<1>9. CASE p = <<"settle", "await">>
  BY <1>9 DEF Closings, Awaitings, Settles, Steps
<1>10. CASE p = <<"await">>
  BY <1>10 DEF Closings, Awaitings, Settles, Steps
<1> QED
  BY <1>1, <1>2, <1>3, <1>4, <1>5, <1>6, <1>7, <1>8, <1>9, <1>10 DEF Closings, Awaitings

-----------------------------------------------------------------------------
(* The index *)

\* The status of a trace is that of its one entry.
LEMMA EntryStatus ==
    ASSUME NEW ix, Functional(ix), NEW e \in ix
    PROVE  StatusIn(ix, e.trace) = e.status
  BY DEF Functional, StatusIn

LEMMA NoEntry ==
    ASSUME NEW ix \in SUBSET Entries, Functional(ix), NEW t, StatusIn(ix, t) = "absent"
    PROVE  \A e \in ix : e.trace # t
<1> SUFFICES ASSUME NEW e \in ix, e.trace = t PROVE FALSE
  OBVIOUS
<1> QED
  BY EntryStatus DEF Entries, Statuses, Terminal

LEMMA PutStatus ==
    ASSUME NEW ix \in SUBSET Entries, Functional(ix), NEW t \in Traces, NEW s \in Statuses,
           NEW n \in Nat
    PROVE  /\ Functional(Put(ix, t, s, n))
           /\ StatusIn(Put(ix, t, s, n), t) = s
           /\ \A u \in Traces \ {t} : StatusIn(Put(ix, t, s, n), u) = StatusIn(ix, u)
<1> DEFINE jx == Put(ix, t, s, n)
<1>1. Functional(jx)
  BY DEF Put, Functional, Entry
<1>2. Entry(t, s, n) \in jx /\ Entry(t, s, n).trace = t /\ Entry(t, s, n).status = s
  BY DEF Put, Entry
<1>3. StatusIn(jx, t) = s
  BY <1>1, <1>2, EntryStatus
<1>4. ASSUME NEW u \in Traces \ {t} PROVE StatusIn(jx, u) = StatusIn(ix, u)
  <2>1. \A e : e \in jx /\ e.trace = u <=> e \in ix /\ e.trace = u
    BY DEF Put, Entry
  <2>2. CASE \E e \in ix : e.trace = u
    <3>1. PICK e \in ix : e.trace = u
      BY <2>2
    <3> QED
      BY <3>1, <2>1, <1>1, EntryStatus
  <2>3. CASE ~\E e \in ix : e.trace = u
    BY <2>3, <2>1 DEF StatusIn
  <2> QED
    BY <2>2, <2>3
<1> QED
  BY <1>1, <1>3, <1>4

LEMMA RestatusStatus ==
    ASSUME index \in SUBSET Entries, Functional(index), NEW t \in Traces, NEW s \in Statuses,
           seq \in [Traces -> Nat], Status(t) # "absent"
    PROVE  /\ Functional(Restatus(t, s))
           /\ StatusIn(Restatus(t, s), t) = s
           /\ \A u \in Traces \ {t} : StatusIn(Restatus(t, s), u) = Status(u)
<1> DEFINE new(e) == Entry(t, s, IF t \in active THEN seq[t] ELSE e.count)
           jx == Restatus(t, s)
<1>0. /\ \A e : new(e).trace = t /\ new(e).status = s
      /\ jx = {IF e.trace = t THEN new(e) ELSE e : e \in index}
  BY DEF Entry, Restatus
<1> HIDE DEF new, jx
<1>1. Functional(jx)
  <2> SUFFICES ASSUME NEW f \in jx, NEW g \in jx, f.trace = g.trace PROVE f = g
    BY DEF Functional
  <2>1. PICK d \in index : f = IF d.trace = t THEN new(d) ELSE d
    BY <1>0
  <2>2. PICK e \in index : g = IF e.trace = t THEN new(e) ELSE e
    BY <1>0
  <2>3. d.trace = e.trace
    BY <1>0, <2>1, <2>2
  <2> QED
    BY <2>1, <2>2, <2>3 DEF Functional
<1>2. StatusIn(jx, t) = s
  <2>1. PICK e \in index : e.trace = t
    BY DEF Status, StatusIn
  <2>2. new(e) \in jx
    BY <2>1, <1>0
  <2> QED
    BY <2>2, <1>0, <1>1, EntryStatus
<1>3. ASSUME NEW u \in Traces \ {t} PROVE StatusIn(jx, u) = Status(u)
  <2>1. \A e : e \in jx /\ e.trace = u <=> e \in index /\ e.trace = u
    BY <1>0
  <2>2. CASE \E e \in index : e.trace = u
    <3>1. PICK e \in index : e.trace = u
      BY <2>2
    <3> QED
      BY <3>1, <2>1, <1>1, EntryStatus DEF Status
  <2>3. CASE ~\E e \in index : e.trace = u
    BY <2>3, <2>1 DEF StatusIn, Status
  <2> QED
    BY <2>2, <2>3
<1> QED
  BY <1>1, <1>2, <1>3 DEF jx

-----------------------------------------------------------------------------
(* Steps that leave the log alone *)

\* The recorder's memory, the index and the lines stay; lines may reach the disk, and the
\* stream that runs is not between a verdict and the end of _finalize_run.
Aside ==
    /\ UNCHANGED <<index, active, seq, known, of, crashes>>
    /\ Lines' = Lines /\ disk \subseteq disk' /\ pending' \subseteq pending
    /\ scan'.at \in {"idle", "found"}
    /\ \/ loop' = loop
       \/ ~AtEnd /\ ~AtEnd'

LEMMA AsideLog ==
    ASSUME Log, Aside
    PROVE  Log'
<1>0. \A t \in Traces : Status(t)' = Status(t)
  BY DEF Aside, Status
<1>1. Still' /\ Functional(index)' /\ Fresh'
  BY <1>0 DEF Log, Aside, Still, Functional, Fresh
<1>2. Numbered' /\ Unique' /\ OneEnd'
  BY DEF Log, Aside, Numbered, Unique, OneEnd, IsVerdict
<1>3. Remembered' /\ Kept'
  BY DEF Log, Aside, Remembered, Kept, Status
<1>4. Told'
  BY <1>0 DEF Log, Aside, Told
<1>5. CASE loop' = loop
  <2>1. AtEnd' = AtEnd /\ mine' = mine
    BY <1>5 DEF AtEnd, Busy, Aside, me, mine
  <2>2. Ending'
    BY <1>5, <2>1 DEF Log, Aside, Ending, Status, IsVerdict
  <2>3. Hand'
    BY <1>5, <2>1 DEF Log, Aside, Hand, Status
  <2> QED
    BY <1>1, <1>2, <1>3, <1>4, <2>2, <2>3 DEF Log
<1>6. CASE ~AtEnd /\ ~AtEnd'
  <2>1. Ending'
    BY <1>6 DEF Log, Aside, Ending, Status, IsVerdict
  <2>2. Hand'
    BY <1>6 DEF Hand
  <2> QED
    BY <1>1, <1>2, <1>3, <1>4, <2>1, <2>2 DEF Log
<1> QED
  BY <1>5, <1>6 DEF Aside

\* A stream that takes up a script is not yet at its end.
LEMMA Begins ==
    ASSUME NEW r \in Streams, NEW todo, NEW s, NEW how, ~Busy, Does(r, todo, s, how),
           Head(todo) \notin {"store", "seal"}
    PROVE  ~AtEnd /\ ~AtEnd'
  BY DEF Does, AtEnd, Busy

LEMMA ScriptHeads ==
    /\ Head(Finalize) = "append" /\ Head(Finalize \o Settlement) = "append"
    /\ Head(<<"settle">> \o Finalize) = "settle"
    /\ Head(Settlement \o Finalize) \in {"settle", "append"}
    /\ Head(Settlement \o <<"await">>) \in {"settle", "await"}
<1>1. Finalize = <<"append", "store", "seal">>
  BY DEF Finalize
<1>2. Settlement = <<>> \/ Settlement = <<"settle">>
  BY DEF Settlement
<1> QED
  BY <1>1, <1>2

\* The steps of Next, but for those that write the log, the index or the recorder's memory.
Quiet ==
    \/ \E r \in Streams :
        \/ Register(r) \/ Assemble(r) \/ LeaveSetup(r) \/ Delegate(r) \/ ModelCall(r)
        \/ Complete(r) \/ Interrupt(r) \/ Fail(r) \/ Cancelled(r)
        \/ LeaveAwaiting(r) \/ Close(r) \/ EventRefused(r)
    \/ SettleStep \/ StepRefused
    \/ \E t \in Traces : Stop(t) \/ ScanFind(t)
    \/ DrainTake \/ DrainWrite \/ Granted \/ ScanRefused \/ UNCHANGED vars

LEMMA QuietAside ==
    ASSUME TypeOK, Script, Log, Quiet
    PROVE  Aside
<1> USE DEF Log, Still
<1>1. ASSUME NEW r \in Streams, Register(r) PROVE Aside
  BY <1>1 DEF Register, Aside, Lines, vars, streamVars, creditVars, memVars, bufVars, fileVars,
     crashVars, scanIdle, runIdle
<1>2. ASSUME NEW r \in Streams, Assemble(r) PROVE Aside
  BY <1>2 DEF Assemble, Aside, Lines, vars, streamVars, creditVars, memVars, bufVars, fileVars,
     crashVars, scanIdle, runIdle
<1>3. ASSUME NEW r \in Streams, LeaveSetup(r) PROVE Aside
  BY <1>3 DEF LeaveSetup, Ended, Aside, Lines, vars, streamVars, creditVars, memVars, bufVars,
     fileVars, crashVars, scanIdle, runIdle
<1>4. ASSUME NEW r \in Streams, Delegate(r) PROVE Aside
  BY <1>4 DEF Delegate, Aside, Lines, vars, streamVars, creditVars, memVars, bufVars, fileVars,
     crashVars, scanIdle, runIdle
<1>5. ASSUME NEW r \in Streams, ModelCall(r) PROVE Aside
  <2>1. loop' = loop \/ (~AtEnd /\ ~AtEnd')
    <3>1. PICK c \in Costs :
              \/ Does(r, <<"settle">> \o Finalize, "cancelled", "done")
              \/ UNCHANGED loop
      BY <1>5 DEF ModelCall
    <3> QED
      BY <1>5, <3>1, Begins, ScriptHeads DEF ModelCall, Running
  <2> QED
    BY <1>5, <2>1 DEF ModelCall, Aside, Lines, runIdle, streamVars, memVars, bufVars, fileVars,
       crashVars
<1>6. ASSUME NEW r \in Streams, Complete(r) PROVE Aside
  <2>1. ~AtEnd /\ ~AtEnd'
    BY <1>6, Begins, ScriptHeads DEF Complete, Running
  <2> QED
    BY <1>6, <2>1 DEF Complete, Aside, Lines, runIdle, streamVars, memVars, bufVars, fileVars,
       crashVars
<1>7. ASSUME NEW r \in Streams, Interrupt(r) PROVE Aside
  <2>1. ~AtEnd /\ ~AtEnd'
    BY <1>7, Begins, ScriptHeads DEF Interrupt, Running
  <2> QED
    BY <1>7, <2>1 DEF Interrupt, Aside, Lines, runIdle, streamVars, memVars, bufVars, fileVars,
       crashVars
<1>8. ASSUME NEW r \in Streams, Fail(r) PROVE Aside
  <2>1. ~AtEnd /\ ~AtEnd'
    BY <1>8, Begins, ScriptHeads DEF Fail, Running
  <2> QED
    BY <1>8, <2>1 DEF Fail, Aside, Lines, runIdle, streamVars, memVars, bufVars, fileVars,
       crashVars
<1>9. ASSUME NEW r \in Streams, Cancelled(r) PROVE Aside
  <2>1. ~AtEnd /\ ~AtEnd'
    BY <1>9, Begins, ScriptHeads DEF Cancelled, Running
  <2> QED
    BY <1>9, <2>1 DEF Cancelled, Aside, Lines, runIdle, streamVars, memVars, bufVars, fileVars,
       crashVars
<1>10. ASSUME NEW r \in Streams, LeaveAwaiting(r) PROVE Aside
  BY <1>10 DEF LeaveAwaiting, Drops, Ended, Aside, Lines, vars, streamVars, creditVars, memVars,
     bufVars, fileVars, crashVars, scanIdle, runIdle
<1>11. ASSUME NEW r \in Streams, Close(r) PROVE Aside
  BY <1>11 DEF Close, Drops, Ended, Aside, Lines, vars, streamVars, creditVars, memVars,
     bufVars, fileVars, crashVars, scanIdle, runIdle
<1>12. ASSUME NEW r \in Streams, EventRefused(r) PROVE Aside
  BY <1>12 DEF EventRefused, Drops, Ended, Aside, Lines, vars, streamVars, creditVars, memVars,
     bufVars, fileVars, crashVars, scanIdle, runIdle
<1>13. ASSUME SettleStep PROVE Aside
  <2>1. Head(loop.todo) = "settle" /\ loop.todo \in Closings \cup Awaitings
    BY <1>13 DEF SettleStep, Doing, Script
  <2>2. ~AtEnd
    BY <2>1 DEF AtEnd
  <2>3. ~AtEnd'
    <3>1. CASE Len(loop.todo) > 1
      BY <1>13, <2>1, <3>1, Scripts DEF SettleStep, Proceed, AtEnd, TypeOK, LoopTypes
    <3>2. CASE ~(Len(loop.todo) > 1)
      BY <1>13, <3>2 DEF SettleStep, Proceed, AtEnd, Idle, Busy
    <3> QED
      BY <3>1, <3>2
  <2>4. of' = of
    BY <1>13 DEF SettleStep, Proceed, streamVars, Ended
  <2> QED
    BY <1>13, <2>2, <2>3, <2>4 DEF SettleStep, Aside, Lines, bufVars, fileVars, crashVars
<1>14. ASSUME StepRefused PROVE Aside
  <2>1. ~AtEnd /\ ~AtEnd'
    BY <1>14 DEF StepRefused, Hand, AtEnd, Idle, Busy
  <2> QED
    BY <1>14, <2>1 DEF StepRefused, Ended, Aside, Lines, bufVars, fileVars, crashVars
<1>15. ASSUME NEW t \in Traces, Stop(t) PROVE Aside
  BY <1>15 DEF Stop, Aside, Lines, vars, streamVars, creditVars, memVars, bufVars, fileVars,
     crashVars, scanIdle, runIdle
<1>16. ASSUME NEW t \in Traces, ScanFind(t) PROVE Aside
  BY <1>16 DEF ScanFind, ScanTo, Aside, Lines, vars, streamVars, creditVars, memVars, bufVars,
     fileVars, crashVars, scanIdle, runIdle
<1>17. ASSUME DrainTake PROVE Aside
  BY <1>17 DEF DrainTake, Aside, Lines, vars, streamVars, creditVars, memVars, bufVars,
     fileVars, crashVars, scanIdle, runIdle
<1>18. ASSUME DrainWrite PROVE Aside
  BY <1>18 DEF DrainWrite, Aside, Lines, vars, streamVars, creditVars, memVars, bufVars,
     fileVars, crashVars, scanIdle, runIdle
<1>19. ASSUME Granted PROVE Aside
  BY <1>19 DEF Granted, Aside, Lines, vars, streamVars, creditVars, memVars, bufVars, fileVars,
     crashVars, scanIdle, runIdle
<1>20. ASSUME ScanRefused PROVE Aside
  BY <1>20 DEF ScanRefused, ScanEnds, ScanTo, Aside, Lines, vars, streamVars, creditVars,
     memVars, bufVars, fileVars, crashVars, scanIdle, runIdle
<1>21. ASSUME UNCHANGED vars PROVE Aside
  BY <1>21 DEF Aside, Lines, vars, streamVars, creditVars, memVars, bufVars, fileVars,
     crashVars, scanIdle, runIdle
<1> QED
  BY <1>1, <1>2, <1>3, <1>4, <1>5, <1>6, <1>7, <1>8, <1>9, <1>10, <1>11, <1>12, <1>13, <1>14,
     <1>15, <1>16, <1>17, <1>18, <1>19, <1>20, <1>21 DEF Quiet

-----------------------------------------------------------------------------
(* Steps that write it *)

LEMMA NumbersAreNats ==
    ASSUME TypeOK
    PROVE  /\ \A l \in Lines : l.n \in Nat
           /\ \A t \in Traces : seq[t] \in Nat /\ seq[t] < seq[t] + 1
           /\ index \in SUBSET Entries
  BY DEF TypeOK, LineTypes, MemTypes, FileTypes

\* A new line has a number of its own.
LEMMA NewLine ==
    ASSUME TypeOK, Log, NEW t \in Traces, NEW k, NEW w,
           seq' = [seq EXCEPT ![t] = @ + 1],
           Lines' = Lines \cup {Line(t, seq[t] + 1, k, w)},
           t \in active \/ Status(t) = "absent",
           k \in Terminal => \A l \in Lines : ~IsVerdict(l, t)
    PROVE  /\ Unique' /\ OneEnd'
           /\ \A l \in Lines' : l.trace \in active \cup {t} => l.n <= seq'[l.trace]
           /\ \A l \in Lines' : l.trace # t => l \in Lines
           /\ k \notin Terminal => \A l \in Lines' : l.kind \in Terminal => l \in Lines
<1> DEFINE new == Line(t, seq[t] + 1, k, w)
<1>1. Lines' = Lines \cup {new} /\ new.trace = t /\ new.n = seq[t] + 1 /\ new.kind = k
  BY DEF Line
<1>2. seq' = [seq EXCEPT ![t] = seq[t] + 1] /\ seq \in [Traces -> Nat]
  BY DEF TypeOK, MemTypes
<1> HIDE DEF new
<1>3. \A l \in Lines : l.trace = t => l.n <= seq[t]
  BY DEF Log, Numbered, Fresh
<1>4. \A l \in Lines : l.n \in Nat /\ l.trace \in Traces
  BY DEF TypeOK, LineTypes
<1>5. seq[t] \in Nat
  BY <1>2
<1>6. \A l \in Lines : l.trace = t => l.n # new.n
  BY <1>1, <1>3, <1>4, <1>5
<1>7. Unique'
  BY <1>1, <1>6 DEF Log, Unique
<1>8. OneEnd'
  BY <1>1 DEF Log, OneEnd, IsVerdict
<1>9. ASSUME NEW l \in Lines', l.trace \in active \cup {t} PROVE l.n <= seq'[l.trace]
  <2>1. CASE l = new
    BY <2>1, <1>1, <1>2, <1>5
  <2>2. CASE l \in Lines /\ l.trace = t
    BY <2>2, <1>2, <1>3, <1>4, <1>5
  <2>3. CASE l \in Lines /\ l.trace # t
    BY <2>3, <1>2, <1>4, <1>9 DEF Log, Numbered
  <2> QED
    BY <2>1, <2>2, <2>3, <1>1
<1> QED
  BY <1>1, <1>7, <1>8, <1>9

LEMMA EmitLines ==
    ASSUME NEW t \in Traces, NEW k, NEW w, Emit(t, k, w), UNCHANGED <<disk, batch>>
    PROVE  /\ seq' = [seq EXCEPT ![t] = @ + 1]
           /\ Lines' = Lines \cup {Line(t, seq[t] + 1, k, w)}
  BY DEF Emit, Lines

LEMMA FlushLines ==
    ASSUME NEW t \in Traces, NEW k, NEW w, AppendAndFlush(t, k, w), UNCHANGED batch
    PROVE  /\ seq' = [seq EXCEPT ![t] = @ + 1]
           /\ Lines' = Lines \cup {Line(t, seq[t] + 1, k, w)}
           /\ disk \subseteq disk' /\ Line(t, seq[t] + 1, k, w) \in disk'
           /\ \A l \in pending' : l \in pending /\ l.trace # t
<1>1. LinesOf(t, pending) \subseteq pending /\ \A l \in pending \ LinesOf(t, pending) : l.trace # t
  BY DEF LinesOf
<1> QED
  BY <1>1 DEF AppendAndFlush, Lines

LEMMA OpenNewLog ==
    ASSUME TypeOK, Log, NEW r \in Streams, OpenNew(r)
    PROVE  Log'
<1>1. PICK t \in Traces : CreateRun(r, t)
  BY DEF OpenNew
<1>2. /\ Status(t) = "absent" /\ Emit(t, "event", r)
      /\ active' = active \cup {t} /\ known' = known \cup {t}
      /\ index' = Put(index, t, "running", 0) /\ of' = [of EXCEPT ![r] = t]
      /\ UNCHANGED <<disk, batch, loop, crashes, scan>> /\ ~Busy
  BY <1>1 DEF OpenNew, CreateRun, openIdle, crashVars
<1>3. /\ Functional(index)'
      /\ Status(t)' = "running"
      /\ \A u \in Traces \ {t} : Status(u)' = Status(u)
  BY <1>2, PutStatus, NumbersAreNats DEF Log, Status, Statuses
<1>4. /\ Lines' = Lines \cup {Line(t, seq[t] + 1, "event", r)}
      /\ Unique' /\ OneEnd'
      /\ \A l \in Lines' : l.trace \in active \cup {t} => l.n <= seq'[l.trace]
      /\ \A l \in Lines' : l.trace # t => l \in Lines
      /\ \A l \in Lines' : l.kind \in Terminal => l \in Lines
  <2>1. "event" \notin Terminal
    BY DEF Terminal
  <2> QED
    <3>1. /\ seq' = [seq EXCEPT ![t] = @ + 1]
          /\ Lines' = Lines \cup {Line(t, seq[t] + 1, "event", r)}
      BY <1>2, EmitLines
    <3>2. Status(t) = "absent"
      BY <1>2
    <3> QED
      BY <2>1, <3>1, <3>2, NewLine
<1>5. active \subseteq Traces /\ known \subseteq Traces /\ of \in [Streams -> Traces \cup {NoOne}]
  BY DEF TypeOK, MemTypes, StreamTypes
<1>6. Still'
  BY <1>2 DEF Log, Still
<1>7. Fresh'
  BY <1>2, <1>3, <1>4, <1>5 DEF Log, Fresh
<1>8. Numbered'
  BY <1>2, <1>4 DEF Numbered
<1>9. Remembered'
  BY <1>2, <1>3, <1>5 DEF Log, Remembered
<1>10. ~AtEnd /\ ~AtEnd'
  BY <1>2 DEF AtEnd, Busy
<1>11. Ending'
  <2>1. ASSUME NEW u \in active'
        PROVE  Status(u)' \notin Terminal /\ \A l \in Lines' : ~IsVerdict(l, u)
    <3>1. CASE u = t
      BY <3>1, <1>2, <1>3, <1>4 DEF Log, Fresh, IsVerdict, Terminal
    <3>2. CASE u # t
      BY <3>2, <2>1, <1>2, <1>3, <1>4, <1>5, <1>10 DEF Log, Ending, IsVerdict
    <3> QED
      BY <3>1, <3>2
  <2> QED
    BY <2>1 DEF Ending, IsVerdict
<1>12. Hand'
  BY <1>10 DEF Hand
<1>13. Told'
  BY <1>2, <1>3 DEF Log, Told, Terminal
<1>14. Kept'
  BY <1>2, <1>3 DEF Log, Kept
<1> QED
  BY <1>3, <1>4, <1>6, <1>7, <1>8, <1>9, <1>11, <1>12, <1>13, <1>14 DEF Log

\* While the process knows a trace that waits, the trace is in memory.
LEMMA ResumableActive ==
    ASSUME Log, NEW t \in Traces, Resumable(t)
    PROVE  t \in active /\ t \in known /\ Status(t) # "absent"
  BY DEF Log, Resumable, Remembered, Terminal, Fresh

LEMMA ResumeLog ==
    ASSUME TypeOK, Log, NEW r \in Streams, NEW t \in Traces, Resume(r, t)
    PROVE  Log'
<1>1. t \in active /\ t \in known /\ Status(t) # "absent"
  BY ResumableActive DEF Resume
<1>2. /\ active' = active /\ seq' = seq /\ known' = known /\ Lines' = Lines
      /\ index' = Restatus(t, "running") /\ of' = [of EXCEPT ![r] = t]
      /\ UNCHANGED <<disk, loop, crashes, scan>> /\ ~Busy
  BY <1>1 DEF Resume, openIdle, crashVars, Lines, TypeOK, MemTypes
<1>3. /\ Functional(index)'
      /\ Status(t)' = "running"
      /\ \A u \in Traces \ {t} : Status(u)' = Status(u)
  BY <1>1, <1>2, RestatusStatus DEF Log, Status, Statuses, TypeOK, FileTypes, MemTypes
<1>4. active \subseteq Traces /\ known \subseteq Traces /\ of \in [Streams -> Traces \cup {NoOne}]
  BY DEF TypeOK, MemTypes, StreamTypes
<1>5. Still' /\ Unique' /\ OneEnd' /\ Numbered'
  BY <1>2 DEF Log, Still, Unique, OneEnd, Numbered
<1>6. Fresh'
  BY <1>2, <1>3, <1>4 DEF Log, Fresh
<1>7. Remembered' /\ Kept'
  BY <1>1, <1>2, <1>3, <1>4 DEF Log, Remembered, Kept
<1>8. ~AtEnd /\ ~AtEnd'
  BY <1>2 DEF AtEnd, Busy
<1>9. Ending'
  BY <1>2, <1>3, <1>4, <1>8 DEF Log, Ending, IsVerdict, Terminal
<1>10. Hand'
  BY <1>8 DEF Hand
<1>11. Told'
  BY <1>2, <1>3 DEF Log, Told, Terminal
<1> QED
  BY <1>3, <1>5, <1>6, <1>7, <1>9, <1>10, <1>11 DEF Log

LEMMA AgentEventLog ==
    ASSUME TypeOK, Log, Opened, NEW r \in Streams, AgentEvent(r)
    PROVE  Log'
<1> DEFINE t == of[r]
<1>1. /\ t \in active /\ Emit(t, "event", r) /\ ~Busy
      /\ UNCHANGED <<of, disk, batch, index, loop, active, known, crashes, scan>>
  BY DEF AgentEvent, Running, fileVars, streamVars, crashVars
<1>2. active \subseteq Traces /\ t \in Traces
  BY <1>1 DEF TypeOK, MemTypes
<1>3. \A u \in Traces : Status(u)' = Status(u)
  BY <1>1 DEF Status
<1>4. /\ Lines' = Lines \cup {Line(t, seq[t] + 1, "event", r)}
      /\ Unique' /\ OneEnd'
      /\ \A l \in Lines' : l.trace \in active \cup {t} => l.n <= seq'[l.trace]
      /\ \A l \in Lines' : l.trace # t => l \in Lines
      /\ \A l \in Lines' : l.kind \in Terminal => l \in Lines
  <2>1. "event" \notin Terminal
    BY DEF Terminal
  <2> QED
    BY <1>1, <1>2, <2>1, EmitLines, NewLine
<1> HIDE DEF t
<1>5. Still' /\ Functional(index)'
  BY <1>1 DEF Log, Still, Functional
<1>6. Fresh'
  BY <1>1, <1>2, <1>3, <1>4 DEF Log, Fresh, Remembered
<1>7. Numbered'
  BY <1>1, <1>4 DEF Numbered
<1>8. Remembered' /\ Kept'
  BY <1>1, <1>3 DEF Log, Remembered, Kept, TypeOK, MemTypes
<1>9. ~AtEnd /\ ~AtEnd'
  BY <1>1 DEF AtEnd, Busy
<1>10. Ending'
  BY <1>1, <1>2, <1>3, <1>4, <1>9 DEF Log, Ending, IsVerdict
<1>11. Hand'
  BY <1>9 DEF Hand
<1>12. Told'
  BY <1>1, <1>3 DEF Log, Told
<1> QED
  BY <1>4, <1>5, <1>6, <1>7, <1>8, <1>10, <1>11, <1>12 DEF Log

\* The statement that comes next, and the script it belongs to.
LEMMA Next1 ==
    ASSUME TypeOK, Script, Busy
    PROVE  /\ loop.todo \in Closings \cup Awaitings /\ me \in Streams
           /\ Len(loop.todo) > 1 => Tail(loop.todo) \in Closings \cup Awaitings
           /\ Head(loop.todo) \in {"append", "store", "seal"} => loop.status \in Terminal
  BY Scripts DEF Script

LEMMA AppendLog ==
    ASSUME TypeOK, Script, Log, AppendStep
    PROVE  Log'
<1>1. /\ Busy /\ Head(loop.todo) = "append" /\ mine \in active
      /\ AppendAndFlush(mine, loop.status, me)
      /\ UNCHANGED <<active, batch, index, known, crashes, scan>>
  BY DEF AppendStep, Doing, crashVars
<1>2. /\ Len(loop.todo) > 1 /\ Head(Tail(loop.todo)) = "store" /\ loop.status \in Terminal
  BY <1>1, Next1, Scripts
<1>3. /\ loop' = [loop EXCEPT !.todo = Tail(@),
                              !.copy = Put(index, mine, loop.status, seq[mine] + 1)]
      /\ of' = of
  BY <1>2 DEF AppendStep, Proceed, streamVars
<1>4. /\ loop'.by = loop.by /\ loop'.status = loop.status /\ Head(loop'.todo) = "store"
      /\ loop'.copy = Put(index, mine, loop.status, seq[mine] + 1)
  BY <1>2, <1>3 DEF TypeOK, LoopTypes
<1>5. Busy' /\ mine' = mine /\ AtEnd' /\ ~AtEnd
  BY <1>1, <1>3, <1>4 DEF Busy, AtEnd, me, mine
<1>6. mine \in Traces /\ active \subseteq Traces
  BY <1>1 DEF TypeOK, MemTypes
<1>7. \A l \in Lines : ~IsVerdict(l, mine)
  BY <1>1, <1>5 DEF Log, Ending
<1>8. /\ seq' = [seq EXCEPT ![mine] = @ + 1]
      /\ Lines' = Lines \cup {Line(mine, seq[mine] + 1, loop.status, me)}
      /\ disk \subseteq disk' /\ Line(mine, seq[mine] + 1, loop.status, me) \in disk'
      /\ \A l \in pending' : l \in pending /\ l.trace # mine
  BY <1>1, <1>6, FlushLines
<1>9. /\ Unique' /\ OneEnd'
      /\ \A l \in Lines' : l.trace \in active \cup {mine} => l.n <= seq'[l.trace]
      /\ \A l \in Lines' : l.trace # mine => l \in Lines
  BY <1>1, <1>6, <1>7, <1>8, NewLine
<1>10. \A u \in Traces : Status(u)' = Status(u)
  BY <1>1 DEF Status
<1>11. Still' /\ Functional(index)'
  BY <1>1 DEF Log, Still, Functional
<1>12. Fresh'
  BY <1>1, <1>3, <1>6, <1>9, <1>10 DEF Log, Fresh, Remembered
<1>13. Numbered'
  BY <1>1, <1>9 DEF Numbered
<1>14. Remembered' /\ Kept'
  BY <1>1, <1>10 DEF Log, Remembered, Kept, TypeOK, MemTypes
<1>15. Ending'
  BY <1>1, <1>5, <1>6, <1>9, <1>10 DEF Log, Ending, IsVerdict
<1>16. Hand'
  <2>1. Entry(mine, loop.status, seq[mine] + 1) \in loop'.copy
    BY <1>4 DEF Put
  <2>2. \E e \in loop'.copy : loop'.copy = Put(index', mine', loop'.status, e.count)
    BY <2>1, <1>1, <1>4, <1>5 DEF Entry
  <2>3. \E l \in disk' : l.trace = mine' /\ l.kind = loop'.status
    BY <1>4, <1>5, <1>8 DEF Line
  <2> QED
    BY <2>2, <2>3, <1>1, <1>4, <1>5, <1>8 DEF Hand
<1>17. Told'
  BY <1>8, <1>10 DEF Log, Told
<1> QED
  BY <1>9, <1>11, <1>12, <1>13, <1>14, <1>15, <1>16, <1>17 DEF Log

\* Nothing but the index changes, and only for a trace without a verdict in it.
LEMMA StoreIndex ==
    ASSUME TypeOK, Script, Log, StoreStep
    PROVE  /\ Busy /\ Head(loop.todo) = "store" /\ AtEnd /\ mine \in active /\ mine \in Traces
           /\ loop.status \in Terminal
           /\ Functional(index)'
           /\ Status(mine) \notin Terminal
           /\ \A u \in Traces : Status(u)' = IF u = mine THEN loop.status ELSE Status(u)
           /\ loop' = [loop EXCEPT !.todo = Tail(@), !.copy = index']
           /\ loop'.by = loop.by /\ loop'.status = loop.status /\ Head(loop'.todo) = "seal"
           /\ loop'.copy = index'
           /\ UNCHANGED <<of, active, seq, known, pending, batch, disk, crashes, scan>>
<1>1. /\ Busy /\ Head(loop.todo) = "store" /\ AtEnd /\ index' = loop.copy
      /\ UNCHANGED <<active, seq, known, pending, batch, disk, crashes, scan>>
  BY DEF StoreStep, Doing, AtEnd, memVars, bufVars, crashVars
<1>2. Len(loop.todo) > 1 /\ Head(Tail(loop.todo)) = "seal" /\ loop.status \in Terminal
  BY <1>1, Next1, Scripts
<1>3. loop' = [loop EXCEPT !.todo = Tail(@), !.copy = index'] /\ of' = of
  BY <1>1, <1>2 DEF StoreStep, Proceed, streamVars
<1>4. /\ loop'.by = loop.by /\ loop'.status = loop.status /\ Head(loop'.todo) = "seal"
      /\ loop'.copy = index'
  BY <1>2, <1>3 DEF TypeOK, LoopTypes
<1>5. mine \in active /\ mine \in Traces
  BY <1>1 DEF Log, Hand, TypeOK, MemTypes
<1>6. Status(mine) \notin Terminal
  BY <1>1, <1>5 DEF Log, Ending
<1>7. PICK e \in loop.copy : loop.copy = Put(index, mine, loop.status, e.count)
  BY <1>1 DEF Log, Hand
<1>8. e.count \in Nat /\ loop.status \in Statuses /\ index \in SUBSET Entries
  BY <1>7, <1>2 DEF TypeOK, LoopTypes, FileTypes, Entries, Statuses
<1>9. /\ Functional(loop.copy) /\ StatusIn(loop.copy, mine) = loop.status
      /\ \A u \in Traces \ {mine} : StatusIn(loop.copy, u) = StatusIn(index, u)
  BY <1>5, <1>7, <1>8, PutStatus DEF Log
<1>10. \A u \in Traces : Status(u)' = IF u = mine THEN loop.status ELSE Status(u)
  BY <1>1, <1>9 DEF Status
<1>11. Functional(index)'
  BY <1>1, <1>9
<1> QED
  BY <1>1, <1>2, <1>3, <1>4, <1>5, <1>6, <1>10, <1>11

LEMMA StoreLog ==
    ASSUME TypeOK, Script, Log, StoreStep
    PROVE  Log'
<1>1. /\ Busy /\ AtEnd /\ mine \in active /\ mine \in Traces /\ loop.status \in Terminal
      /\ Functional(index)'
      /\ Status(mine) \notin Terminal
      /\ \A u \in Traces : Status(u)' = IF u = mine THEN loop.status ELSE Status(u)
      /\ loop'.by = loop.by /\ loop'.status = loop.status /\ Head(loop'.todo) = "seal"
      /\ loop'.copy = index'
      /\ UNCHANGED <<of, active, seq, known, pending, batch, disk, crashes, scan>>
  BY StoreIndex
<1>2. Busy' /\ mine' = mine /\ AtEnd' /\ Lines' = Lines
  BY <1>1 DEF Busy, AtEnd, me, mine, Lines
<1>3. active \subseteq Traces /\ known \subseteq Traces
  BY DEF TypeOK, MemTypes
<1>4. Still' /\ Unique' /\ OneEnd' /\ Numbered'
  BY <1>1, <1>2 DEF Log, Still, Unique, OneEnd, Numbered
<1>5. Fresh'
  BY <1>1, <1>2 DEF Log, Fresh, Terminal
<1>6. Remembered'
  BY <1>1, <1>3 DEF Log, Remembered
<1>7. Kept'
  BY <1>1, <1>3 DEF Log, Kept, Remembered
<1>8. Ending'
  BY <1>1, <1>2, <1>3 DEF Log, Ending, IsVerdict
<1>9. Hand'
  BY <1>1, <1>2 DEF Log, Hand
<1>10. Told'
  BY <1>1, <1>2 DEF Log, Told, Hand
<1> QED
  BY <1>1, <1>4, <1>5, <1>6, <1>7, <1>8, <1>9, <1>10 DEF Log

\* The seal writes the index that is there.
LEMMA SealIndex ==
    ASSUME TypeOK, Script, Log, SealStep
    PROVE  /\ Busy /\ Head(loop.todo) = "seal" /\ AtEnd /\ mine \in active /\ mine \in Traces
           /\ Status(mine) \in Terminal
           /\ active' = active \ {mine} /\ seq' = [seq EXCEPT ![mine] = 0]
           /\ manifest' = [manifest EXCEPT ![mine] = Covered(mine)]
           /\ UNCHANGED <<of, index, known, pending, batch, disk, crashes, scan>>
           /\ Busy' => loop'.todo = <<"settle">> /\ loop'.by = loop.by
<1>1. /\ Busy /\ Head(loop.todo) = "seal" /\ AtEnd /\ mine \in active /\ index' = loop.copy
      /\ active' = active \ {mine} /\ seq' = [seq EXCEPT ![mine] = 0]
      /\ manifest' = [manifest EXCEPT ![mine] = Covered(mine)]
      /\ UNCHANGED <<known, pending, batch, disk, crashes, scan>>
  BY DEF SealStep, Doing, AtEnd, bufVars, crashVars, Forget
<1>2. index' = index /\ Status(mine) \in Terminal
  BY <1>1, Next1 DEF Log, Hand
<1>3. Busy' => loop'.todo = <<"settle">> /\ loop'.by = loop.by
  <2>1. CASE Len(loop.todo) > 1
    <3>1. Tail(loop.todo) = <<"settle">>
      BY <1>1, <2>1, Next1, Scripts
    <3> QED
      BY <2>1, <3>1 DEF SealStep, Proceed, TypeOK, LoopTypes
  <2>2. CASE ~(Len(loop.todo) > 1)
    BY <2>2 DEF SealStep, Proceed, Busy, Idle
  <2> QED
    BY <2>1, <2>2
<1>4. of' = of
  BY DEF SealStep, Proceed, streamVars, Ended
<1> QED
  BY <1>1, <1>2, <1>3, <1>4 DEF TypeOK, MemTypes

LEMMA SealLog ==
    ASSUME TypeOK, Script, Log, SealStep
    PROVE  Log'
<1>1. /\ Busy /\ AtEnd /\ mine \in active /\ mine \in Traces /\ Status(mine) \in Terminal
      /\ active' = active \ {mine} /\ seq' = [seq EXCEPT ![mine] = 0]
      /\ UNCHANGED <<of, index, known, pending, batch, disk, crashes, scan>>
      /\ Busy' => loop'.todo = <<"settle">>
  BY SealIndex
<1>2. ~AtEnd' /\ Lines' = Lines
  BY <1>1 DEF AtEnd, Lines
<1>3. \A u : Status(u)' = Status(u)
  BY <1>1 DEF Status
<1>4. Still' /\ Functional(index)' /\ Unique' /\ OneEnd'
  BY <1>1, <1>2 DEF Log, Still, Functional, Unique, OneEnd
<1>5. Numbered'
  <2> SUFFICES ASSUME NEW l \in Lines, l.trace \in active' PROVE l.n <= seq'[l.trace]
    BY <1>2 DEF Numbered
  <2>1. l.trace # mine /\ l.trace \in active /\ l.trace \in Traces
    BY <1>1 DEF TypeOK, LineTypes
  <2>2. seq'[l.trace] = seq[l.trace]
    BY <2>1, <1>1 DEF TypeOK, MemTypes
  <2> QED
    BY <2>1, <2>2 DEF Log, Numbered
<1>6. Fresh'
  BY <1>1, <1>2, <1>3 DEF Log, Fresh
<1>7. Remembered' /\ Kept'
  BY <1>1, <1>3 DEF Log, Remembered, Kept
<1>8. Ending'
  BY <1>1, <1>2, <1>3 DEF Log, Ending, IsVerdict
<1>9. Hand'
  BY <1>2 DEF Hand
<1>10. Told'
  BY <1>1, <1>3 DEF Log, Told
<1> QED
  BY <1>4, <1>5, <1>6, <1>7, <1>8, <1>9, <1>10 DEF Log

LEMMA AwaitIndex ==
    ASSUME TypeOK, Script, Log, AwaitStep
    PROVE  /\ Busy /\ Head(loop.todo) = "await" /\ mine \in active /\ mine \in Traces
           /\ Status(mine) \notin Terminal \cup {"absent"}
           /\ Functional(index)'
           /\ \A u \in Traces :
                 Status(u)' = IF u = mine THEN "awaiting_input" ELSE Status(u)
           /\ loop' = Idle
           /\ AppendAndFlush(mine, "awaiting", me)
           /\ UNCHANGED <<of, active, known, batch, crashes, scan>>
<1>1. /\ Busy /\ Head(loop.todo) = "await" /\ mine \in active
      /\ AppendAndFlush(mine, "awaiting", me)
      /\ index' = Put(index, mine, "awaiting_input", seq[mine] + 1)
      /\ UNCHANGED <<active, known, batch, crashes, scan>>
  BY DEF AwaitStep, Doing, crashVars
<1>2. ~(Len(loop.todo) > 1)
  BY <1>1, Next1, Scripts
<1>3. loop' = Idle /\ of' = of
  BY <1>2 DEF AwaitStep, Proceed, Ended, streamVars
<1>4. mine \in Traces /\ mine \in known
  BY <1>1 DEF TypeOK, MemTypes, Log, Remembered
<1>5. Status(mine) \notin Terminal \cup {"absent"}
  BY <1>1, <1>4 DEF Log, Ending, AtEnd, Fresh
<1>6. seq[mine] + 1 \in Nat /\ index \in SUBSET Entries /\ "awaiting_input" \in Statuses
  BY <1>4 DEF TypeOK, MemTypes, FileTypes, Statuses
<1>7. /\ Functional(index') /\ StatusIn(index', mine) = "awaiting_input"
      /\ \A u \in Traces \ {mine} : StatusIn(index', u) = StatusIn(index, u)
  BY <1>1, <1>4, <1>6, PutStatus DEF Log
<1> QED
  BY <1>1, <1>3, <1>4, <1>5, <1>7 DEF Status

LEMMA AwaitLog ==
    ASSUME TypeOK, Script, Log, AwaitStep
    PROVE  Log'
<1>1. /\ Busy /\ Head(loop.todo) = "await" /\ mine \in active /\ mine \in Traces
      /\ Status(mine) \notin Terminal \cup {"absent"}
      /\ Functional(index)'
      /\ \A u \in Traces : Status(u)' = IF u = mine THEN "awaiting_input" ELSE Status(u)
      /\ loop' = Idle
      /\ AppendAndFlush(mine, "awaiting", me)
      /\ UNCHANGED <<of, active, known, batch, crashes, scan>>
  BY AwaitIndex
<1>2. ~AtEnd /\ ~AtEnd'
  BY <1>1 DEF AtEnd, Busy, Idle
<1>3. /\ seq' = [seq EXCEPT ![mine] = @ + 1]
      /\ Lines' = Lines \cup {Line(mine, seq[mine] + 1, "awaiting", me)}
      /\ disk \subseteq disk'
  BY <1>1, FlushLines
<1>4. /\ Unique' /\ OneEnd'
      /\ \A l \in Lines' : l.trace \in active \cup {mine} => l.n <= seq'[l.trace]
      /\ \A l \in Lines' : l.trace # mine => l \in Lines
      /\ \A l \in Lines' : l.kind \in Terminal => l \in Lines
  <2>1. "awaiting" \notin Terminal
    BY DEF Terminal
  <2> QED
    BY <1>1, <1>3, <2>1, NewLine
<1>5. active \subseteq Traces /\ known \subseteq Traces
  BY DEF TypeOK, MemTypes
<1>6. Still'
  BY <1>1 DEF Log, Still
<1>7. Fresh'
  BY <1>1, <1>4 DEF Log, Fresh
<1>8. Numbered'
  BY <1>1, <1>4 DEF Numbered
<1>9. Remembered' /\ Kept'
  BY <1>1, <1>5 DEF Log, Remembered, Kept
<1>10. Ending'
  BY <1>1, <1>2, <1>4, <1>5 DEF Log, Ending, IsVerdict, Terminal
<1>11. Hand'
  BY <1>2 DEF Hand
<1>12. Told'
  BY <1>1, <1>3 DEF Log, Told, Terminal
<1> QED
  BY <1>1, <1>4, <1>6, <1>7, <1>8, <1>9, <1>10, <1>11, <1>12 DEF Log

\* After a crash nothing is in memory; what is on disk was written or taken by the drain before.
LEMMA CrashLog ==
    ASSUME TypeOK, Log, Crash
    PROVE  Log'
<1>1. /\ crashes' = crashes + 1 /\ crashes \in Nat /\ loop' = Idle /\ active' = {} /\ known' = {}
      /\ pending' = {} /\ batch' = {} /\ disk \subseteq disk' /\ disk' \subseteq disk \cup batch
      /\ scan'.at = "idle" /\ UNCHANGED <<of, index>>
  BY DEF Crash, ScanEnds, ScanTo, TypeOK, ThreadTypes
<1>2. Lines' \subseteq Lines
  BY <1>1 DEF Lines
<1>3. \A u : Status(u)' = Status(u)
  BY <1>1 DEF Status
<1>4. ~AtEnd'
  BY <1>1 DEF AtEnd, Busy, Idle
<1>5. Still' /\ Functional(index)' /\ Unique' /\ OneEnd' /\ Numbered' /\ Remembered'
  BY <1>1, <1>2 DEF Log, Still, Functional, Unique, OneEnd, Numbered, Remembered
<1>6. Fresh' /\ Told'
  BY <1>1, <1>2, <1>3 DEF Log, Fresh, Told
<1>7. Ending' /\ Hand' /\ Kept'
  BY <1>1, <1>4 DEF Ending, Hand, Kept
<1> QED
  BY <1>5, <1>6, <1>7 DEF Log

-----------------------------------------------------------------------------
(* Streams, scripts and holds *)

StreamInv == Script /\ Opened /\ HoldOwned /\ (scanned \/ (Log /\ Attached))

\* Steps that are none of the streams' business.
Calm ==
    /\ UNCHANGED <<pc, of, end, loop, shared, hold>>
    /\ scanned => scanned'

LEMMA CalmSteps ==
    ASSUME \/ \E r \in Streams : AgentEvent(r)
           \/ \E t \in Traces : Stop(t)
           \/ DrainTake \/ DrainWrite \/ Granted \/ Scan \/ UNCHANGED vars
    PROVE  Calm
<1>1. ASSUME NEW r \in Streams, AgentEvent(r) PROVE Calm
  BY <1>1 DEF AgentEvent, Calm, streamVars, crashVars, creditVars, scanIdle
<1>2. ASSUME NEW t \in Traces, Stop(t) PROVE Calm
  BY <1>2 DEF Stop, Calm, streamVars, crashVars, creditVars, scanIdle
<1>3. ASSUME DrainTake PROVE Calm
  BY <1>3 DEF DrainTake, Calm, streamVars, crashVars, creditVars, scanIdle
<1>4. ASSUME DrainWrite PROVE Calm
  BY <1>4 DEF DrainWrite, Calm, streamVars, crashVars, creditVars, scanIdle
<1>5. ASSUME Granted PROVE Calm
  BY <1>5 DEF Granted, AdminAdjust, Calm, streamVars, crashVars, creditVars, scanIdle
<1>6. ASSUME NEW t \in Traces, ScanFind(t) PROVE Calm
  BY <1>6 DEF ScanFind, Calm, streamVars, crashVars, creditVars, scanIdle
<1>7. ASSUME ScanCancel PROVE Calm
  BY <1>7 DEF ScanCancel, Calm, streamVars, crashVars, creditVars, scanIdle
<1>8. ASSUME ScanLoad PROVE Calm
  BY <1>8 DEF ScanLoad, Calm, streamVars, crashVars, creditVars, scanIdle
<1>9. ASSUME ScanStore PROVE Calm
  BY <1>9 DEF ScanStore, Calm, streamVars, crashVars, creditVars, scanIdle
<1>10. ASSUME ScanSeal PROVE Calm
  BY <1>10 DEF ScanSeal, Calm, streamVars, crashVars, creditVars, scanIdle
<1>11. ASSUME ScanRefused PROVE Calm
  BY <1>11 DEF ScanRefused, Calm, streamVars, crashVars, creditVars, scanIdle
<1>12. ASSUME UNCHANGED vars PROVE Calm
  BY <1>12 DEF vars, Calm, streamVars, crashVars, creditVars, scanIdle
<1> QED
  BY <1>1, <1>2, <1>3, <1>4, <1>5, <1>6, <1>7, <1>8, <1>9, <1>10, <1>11, <1>12 DEF Scan

LEMMA CalmKeeps ==
    ASSUME Script, Opened, HoldOwned, Calm
    PROVE  Script' /\ Opened' /\ HoldOwned'
<1>1. Script' /\ Opened'
  BY DEF Calm, Script, Opened, Busy, Live, me
<1>2. \A r : Holder(r) => Holder(r)'
  BY DEF Calm, Holder
<1> QED
  BY <1>1, <1>2 DEF Calm, HoldOwned, Busy

\* A stream moves on before its try statement.
Moves(r) ==
    /\ pc[r] \in {"idle", "opened", "setup"} /\ ~Busy
    /\ \E x \in {"opened", "setup", "run"}, t \in Traces :
        /\ pc' = [pc EXCEPT ![r] = x] /\ of' = [of EXCEPT ![r] = t]
    /\ shared \subseteq shared'
    /\ UNCHANGED <<end, loop, hold, scanned>>

LEMMA MoveSteps ==
    ASSUME TypeOK, Opened, NEW r \in Streams,
           \/ OpenNew(r) \/ Register(r) \/ Assemble(r)
           \/ \E t \in Traces : Resume(r, t)
    PROVE  Moves(r)
<1> USE DEF TypeOK, StreamTypes, crashVars, creditVars
<1>1. CASE OpenNew(r)
  BY <1>1 DEF OpenNew, CreateRun, openIdle, Moves
<1>2. ASSUME NEW t \in Traces, Resume(r, t) PROVE Moves(r)
  BY <1>2 DEF Resume, Attach, openIdle, Moves
<1>3. CASE Register(r)
  <2>1. of[r] \in Traces /\ of = [of EXCEPT ![r] = of[r]]
    BY <1>3 DEF Register, Opened, Live
  <2> QED
    BY <1>3, <2>1 DEF Register, Moves
<1>4. CASE Assemble(r)
  <2>1. of[r] \in Traces /\ of = [of EXCEPT ![r] = of[r]]
    BY <1>4 DEF Assemble, Opened, Live
  <2> QED
    BY <1>4, <2>1 DEF Assemble, Moves
<1> QED
  BY <1>1, <1>2, <1>3, <1>4

LEMMA MoveKeeps ==
    ASSUME TypeOK, Opened, HoldOwned, NEW r \in Streams, Moves(r)
    PROVE  Script' /\ Opened' /\ HoldOwned'
<1>1. ~Busy'
  BY DEF Moves, Busy
<1>2. Opened'
  BY DEF Moves, Opened, Live, TypeOK, StreamTypes
<1>3. ASSUME NEW o \in Streams, Holder(o) PROVE Holder(o)'
  BY <1>3 DEF Moves, Holder, Opened, TypeOK, StreamTypes
<1> QED
  BY <1>1, <1>2, <1>3 DEF Script, HoldOwned, Moves

\* A stream takes up the script of one of its endings.
Begun(r) ==
    /\ pc[r] = "run" /\ ~Busy
    /\ UNCHANGED <<pc, of, end, shared, scanned>>
    /\ hold'.active = hold.active
    /\ \E todo \in Closings \cup Awaitings, s \in Statuses, how \in {"done", "raised"} :
        /\ Does(r, todo, s, how)
        /\ todo \in Closings => s \in Terminal
        /\ todo # <<"settle">>
        /\ how = "done" /\ hold.active => Settles(todo)

LEMMA Endings ==
    /\ Finalize \in Closings /\ Finalize \o Settlement \in Closings
    /\ <<"settle">> \o Finalize \in Closings /\ Settlement \o Finalize \in Closings
    /\ Settlement \o <<"await">> \in Awaitings /\ Settlement \o <<"await">> \notin Closings
    /\ <<"settle">> \notin {Finalize, Finalize \o Settlement, <<"settle">> \o Finalize,
                           Settlement \o Finalize, Settlement \o <<"await">>}
    /\ Settles(<<"settle">> \o Finalize)
    /\ hold.active => /\ Settles(Finalize \o Settlement)
                      /\ Settles(Settlement \o Finalize)
                      /\ Settles(Settlement \o <<"await">>)
<1>1. Finalize = <<"append", "store", "seal">>
  BY DEF Finalize
<1>2. /\ ~hold.active => Settlement = <<>>
      /\ hold.active => Settlement = <<"settle">>
  BY DEF Settlement
<1>3. /\ <<"settle">> \o Finalize = <<"settle", "append", "store", "seal">>
      /\ Finalize \o <<"settle">> = <<"append", "store", "seal", "settle">>
      /\ <<"settle">> \o <<"await">> = <<"settle", "await">>
  <2> DEFINE a == <<"settle">> \o Finalize
             b == Finalize \o <<"settle">>
             c == <<"settle">> \o <<"await">>
  <2>1. /\ <<"settle">> \in Seq(Steps) /\ <<"await">> \in Seq(Steps) /\ Finalize \in Seq(Steps)
        /\ Len(<<"settle">>) = 1 /\ Len(<<"await">>) = 1 /\ Len(Finalize) = 3
    BY <1>1 DEF Steps
  <2>2. a \in Seq(Steps) /\ b \in Seq(Steps) /\ c \in Seq(Steps)
    BY <2>1
  <2>3. Len(a) = 4 /\ Len(b) = 4 /\ Len(c) = 2
    <3>1. ASSUME NEW x \in Seq(Steps), NEW y \in Seq(Steps) PROVE Len(x \o y) = Len(x) + Len(y)
      OBVIOUS
    <3>2. Len(a) = 1 + 3 /\ Len(b) = 3 + 1 /\ Len(c) = 1 + 1
      BY <2>1, <3>1
    <3> QED
      BY <3>2
  <2>4. a[1] = "settle" /\ a[2] = "append" /\ a[3] = "store" /\ a[4] = "seal"
    BY <1>1, <2>1
  <2>5. b[1] = "append" /\ b[2] = "store" /\ b[3] = "seal" /\ b[4] = "settle"
    BY <1>1, <2>1
  <2>6. c[1] = "settle" /\ c[2] = "await"
    BY <2>1
  <2> HIDE DEF a, b, c
  <2>7. a = <<"settle", "append", "store", "seal">>
    BY <2>2, <2>3, <2>4
  <2>8. b = <<"append", "store", "seal", "settle">>
    BY <2>2, <2>3, <2>5
  <2>9. c = <<"settle", "await">>
    BY <2>2, <2>3, <2>6
  <2> QED
    BY <2>7, <2>8, <2>9 DEF a, b, c
<1>4. <<>> \o Finalize = Finalize /\ Finalize \o <<>> = Finalize
  <2>1. Finalize \in Seq(Steps)
    BY StepTypes
  <2> QED
    BY <2>1
<1>5. <<>> \o <<"await">> = <<"await">>
  <2>1. <<"await">> \in Seq(Steps)
    BY DEF Steps
  <2> QED
    BY <2>1
<1>6. /\ Finalize \in Closings /\ <<"settle">> \o Finalize \in Closings
      /\ Finalize \o <<"settle">> \in Closings
  BY <1>1, <1>3 DEF Closings
<1>7. /\ <<"await">> \in Awaitings /\ <<"settle">> \o <<"await">> \in Awaitings
      /\ <<"await">> \notin Closings /\ <<"settle">> \o <<"await">> \notin Closings
  BY <1>3 DEF Awaitings, Closings
<1>8. /\ Settles(<<"settle">> \o Finalize) /\ Settles(Finalize \o <<"settle">>)
      /\ Settles(<<"settle">> \o <<"await">>)
  <2>1. Settles(<<"settle", "append", "store", "seal">>) /\ Settles(<<"settle", "await">>)
    BY DEF Settles
  <2>2. Settles(<<"append", "store", "seal", "settle">>)
    BY DEF Settles
  <2> QED
    BY <2>1, <2>2, <1>3
<1>9. /\ Finalize # <<"settle">> /\ <<"settle">> \o Finalize # <<"settle">>
      /\ Finalize \o <<"settle">> # <<"settle">> /\ <<"await">> # <<"settle">>
      /\ <<"settle">> \o <<"await">> # <<"settle">>
  BY <1>1, <1>3
<1> QED
  BY <1>2, <1>4, <1>5, <1>6, <1>7, <1>8, <1>9

LEMMA BeginSteps ==
    ASSUME TypeOK, NEW r \in Streams,
           Complete(r) \/ Interrupt(r) \/ Fail(r) \/ Cancelled(r) \/ (ModelCall(r) /\ loop' # loop)
    PROVE  Begun(r)
<1> USE Endings DEF streamVars, creditVars, crashVars, runIdle, Begun, Statuses, Terminal
<1>1. CASE Complete(r)
  BY <1>1 DEF Complete, Running
<1>2. CASE Interrupt(r)
  BY <1>2 DEF Interrupt, Running
<1>3. CASE Fail(r)
  BY <1>3 DEF Fail, Running
<1>4. CASE Cancelled(r)
  BY <1>4 DEF Cancelled
<1>5. CASE ModelCall(r) /\ loop' # loop
  BY <1>5 DEF ModelCall, Running, Consume, TypeOK, CreditTypes
<1> QED
  BY <1>1, <1>2, <1>3, <1>4, <1>5

LEMMA BeginKeeps ==
    ASSUME TypeOK, Opened, HoldOwned, NEW r \in Streams, Begun(r)
    PROVE  Script' /\ Opened' /\ HoldOwned'
<1>1. PICK todo \in Closings \cup Awaitings, s \in Statuses, how \in {"done", "raised"} :
        /\ Does(r, todo, s, how)
        /\ todo \in Closings => s \in Terminal
        /\ how = "done" /\ hold.active => Settles(todo)
  BY DEF Begun
<1>2. loop'.by = r /\ loop'.todo = todo /\ loop'.status = s /\ loop'.end = how
  BY <1>1 DEF Does
<1>3. Script'
  BY <1>1, <1>2 DEF Script, Begun, me
<1>4. Opened'
  BY DEF Begun, Opened, Live
<1>5. ASSUME NEW o \in Streams, Holder(o) PROVE Holder(o)'
  BY <1>5 DEF Begun, Holder
<1> QED
  BY <1>1, <1>2, <1>3, <1>4, <1>5 DEF HoldOwned, Begun

\* A stream ends outside a script.
Leaves(r, how) ==
    /\ Live(r) /\ ~Busy
    /\ pc' = [pc EXCEPT ![r] = "ended"] /\ end' = [end EXCEPT ![r] = how]
    /\ UNCHANGED <<of, shared, loop, hold, scanned>>
    /\ pc[r] = "run" => \/ how \in {"closed", "broken"}
                        \/ how = "left" /\ (of[r] \in shared \/ scanned)

LEMMA LeaveSteps ==
    ASSUME TypeOK, StreamInv, NEW r \in Streams,
           LeaveSetup(r) \/ LeaveAwaiting(r) \/ Close(r) \/ EventRefused(r)
    PROVE  \E how : Leaves(r, how)
<1> USE DEF Ended, creditVars, crashVars, Live
<1>1. CASE LeaveSetup(r)
  <2>1. Leaves(r, "setup")
    BY <1>1 DEF LeaveSetup, Leaves
  <2> QED
    BY <2>1
<1>2. CASE LeaveAwaiting(r)
  <2>1. scanned \/ of[r] \in shared
    BY <1>2 DEF LeaveAwaiting, StreamInv, Attached
  <2>2. Leaves(r, "left")
    BY <1>2, <2>1 DEF LeaveAwaiting, Drops, Leaves
  <2> QED
    BY <2>2
<1>3. CASE Close(r)
  <2>1. Leaves(r, "closed")
    BY <1>3 DEF Close, Drops, Leaves
  <2> QED
    BY <2>1
<1>4. CASE EventRefused(r)
  <2>1. Leaves(r, "broken")
    BY <1>4 DEF EventRefused, Drops, Running, Leaves
  <2> QED
    BY <2>1
<1> QED
  BY <1>1, <1>2, <1>3, <1>4

LEMMA LeaveKeeps ==
    ASSUME TypeOK, Opened, HoldOwned, NEW r \in Streams, NEW how, Leaves(r, how)
    PROVE  Script' /\ Opened' /\ HoldOwned'
<1>1. ~Busy'
  BY DEF Leaves, Busy
<1>2. Opened'
  BY DEF Leaves, Opened, Live, TypeOK, StreamTypes
<1>3. ASSUME NEW o \in Streams, Holder(o) PROVE Holder(o)'
  <2>1. CASE o = r
    BY <1>3, <2>1 DEF Leaves, Holder, Opened, Live, TypeOK, StreamTypes
  <2>2. CASE o # r
    BY <1>3, <2>2 DEF Leaves, Holder, TypeOK, StreamTypes
  <2> QED
    BY <2>1, <2>2
<1> QED
  BY <1>1, <1>2, <1>3 DEF Script, HoldOwned, Leaves

\* A statement of the stream that runs.
Says ==
    /\ Busy
    /\ \E copy : Proceed(copy)
    /\ UNCHANGED scanned
    /\ IF Head(loop.todo) = "settle" THEN ~hold'.active ELSE UNCHANGED hold

LEMMA SaySteps ==
    ASSUME SettleStep \/ AppendStep \/ StoreStep \/ SealStep \/ AwaitStep
    PROVE  Says
<1> USE DEF Doing, Says, crashVars, creditVars
<1>1. CASE SettleStep
  BY <1>1 DEF SettleStep, Settle, NoHold
<1>2. CASE AppendStep
  BY <1>2 DEF AppendStep
<1>3. CASE StoreStep
  BY <1>3 DEF StoreStep
<1>4. CASE SealStep
  BY <1>4 DEF SealStep
<1>5. CASE AwaitStep
  BY <1>5 DEF AwaitStep
<1> QED
  BY <1>1, <1>2, <1>3, <1>4, <1>5

\* It is followed by the rest of the script, or by the stream's end.
LEMMA SayEffect ==
    ASSUME TypeOK, Script, Says
    PROVE  /\ Len(loop.todo) > 1 =>
                /\ loop'.by = loop.by /\ loop'.todo = Tail(loop.todo)
                /\ loop'.status = loop.status /\ loop'.end = loop.end
                /\ UNCHANGED <<pc, of, end, shared>>
           /\ ~(Len(loop.todo) > 1) =>
                /\ loop' = Idle /\ me \in Streams /\ loop.end \in {"done", "raised"}
                /\ pc' = [pc EXCEPT ![me] = "ended"] /\ end' = [end EXCEPT ![me] = loop.end]
                /\ UNCHANGED <<of, shared>>
<1>1. PICK copy : Proceed(copy)
  BY DEF Says
<1>2. CASE Len(loop.todo) > 1
  BY <1>1, <1>2 DEF Proceed, streamVars, TypeOK, LoopTypes
<1>3. CASE ~(Len(loop.todo) > 1)
  BY <1>1, <1>3 DEF Proceed, Ended, Script, Says
<1> QED
  BY <1>2, <1>3

LEMMA SayKeeps ==
    ASSUME TypeOK, Script, Opened, HoldOwned, Says
    PROVE  Script' /\ Opened' /\ HoldOwned'
<1> DEFINE todo == loop.todo
<1>1. /\ Busy /\ todo \in Closings \cup Awaitings /\ me \in Streams /\ pc[me] = "run"
      /\ loop.end \in {"done", "raised"} /\ (todo \in Closings => loop.status \in Terminal)
  BY DEF Says, Script
<1>2. hold'.active => hold.active /\ Head(todo) # "settle"
  BY DEF Says
<1>3. CASE Len(todo) > 1
  <2>1. /\ loop'.by = loop.by /\ loop'.todo = Tail(todo)
        /\ loop'.status = loop.status /\ loop'.end = loop.end
        /\ UNCHANGED <<pc, of, end, shared>> /\ UNCHANGED scanned
    BY <1>3, SayEffect DEF Says
  <2>2. Script'
    BY <1>1, <1>3, <2>1, Scripts DEF Script, me
  <2>3. Opened'
    BY <2>1 DEF Opened, Live
  <2>4. ASSUME NEW o \in Streams, Holder(o) PROVE Holder(o)'
    BY <2>1, <2>4 DEF Holder
  <2>5. Busy' /\ loop'.end = "done" /\ hold'.active => Settles(loop'.todo)
    BY <1>1, <1>2, <2>1, Scripts DEF HoldOwned
  <2> QED
    BY <1>2, <2>2, <2>3, <2>4, <2>5 DEF HoldOwned
<1>4. CASE ~(Len(todo) > 1)
  <2>1. /\ loop' = Idle /\ pc' = [pc EXCEPT ![me] = "ended"]
        /\ end' = [end EXCEPT ![me] = loop.end] /\ UNCHANGED <<of, shared, scanned>>
    BY <1>4, SayEffect DEF Says
  <2>2. ~Busy'
    BY <2>1 DEF Busy, Idle
  <2>3. Opened'
    BY <1>1, <2>1 DEF Opened, Live, TypeOK, StreamTypes
  <2>4. hold'.active => \E o \in Streams : Holder(o)'
    <3> SUFFICES ASSUME hold'.active PROVE \E o \in Streams : Holder(o)'
      OBVIOUS
    <3>1. loop.end = "raised"
      BY <1>1, <1>2, <1>4, Scripts DEF HoldOwned
    <3>2. PICK o \in Streams : o = me
      BY <1>1
    <3>3. end'[o] = "raised"
      BY <2>1, <3>1, <3>2 DEF TypeOK, StreamTypes
    <3> QED
      BY <3>3 DEF Holder
  <2> QED
    BY <2>2, <2>3, <2>4 DEF Script, HoldOwned
<1> QED
  BY <1>3, <1>4

LEMMA RefusedKeeps ==
    ASSUME TypeOK, Script, Opened, HoldOwned, StepRefused
    PROVE  Script' /\ Opened' /\ HoldOwned' /\ UNCHANGED scanned
<1>0. PICK o \in Streams : o = me
  BY DEF StepRefused, Script
<1>1. /\ loop' = Idle /\ pc' = [pc EXCEPT ![o] = "ended"]
      /\ end' = [end EXCEPT ![o] = "broken"] /\ UNCHANGED <<of, shared, hold, scanned>>
  BY <1>0 DEF StepRefused, Ended, creditVars, crashVars
<1>2. ~Busy'
  BY <1>1 DEF Busy, Idle
<1>3. Opened'
  BY <1>1 DEF Opened, Live, TypeOK, StreamTypes
<1>4. Holder(o)'
  BY <1>1 DEF Holder, TypeOK, StreamTypes
<1> QED
  BY <1>1, <1>2, <1>3, <1>4 DEF Script, HoldOwned

LEMMA CrashKeeps ==
    ASSUME TypeOK, Opened, HoldOwned, Crash
    PROVE  Script' /\ Opened' /\ HoldOwned' /\ UNCHANGED scanned
<1>1. /\ loop' = Idle /\ UNCHANGED <<of, shared, hold, scanned>>
      /\ pc' = [r \in Streams |-> IF Live(r) THEN "ended" ELSE pc[r]]
      /\ end' = [r \in Streams |-> IF Live(r) THEN "crashed" ELSE end[r]]
  BY DEF Crash, CreateHoldDies, SettleDies, creditVars
<1>2. ~Busy'
  BY <1>1 DEF Busy, Idle
<1>3. Opened'
  BY <1>1 DEF Opened, Live, TypeOK, StreamTypes
<1>4. ASSUME NEW o \in Streams, Holder(o) PROVE Holder(o)'
  BY <1>1, <1>4 DEF Holder, Live, Opened
<1> QED
  BY <1>1, <1>2, <1>3, <1>4 DEF Script, HoldOwned

LEMMA HoldSteps ==
    ASSUME TypeOK, Opened, HoldOwned, NEW r \in Streams,
           Delegate(r) \/ (ModelCall(r) /\ loop' = loop)
    PROVE  Script' /\ Opened' /\ HoldOwned' /\ UNCHANGED scanned
<1>1. /\ pc[r] = "run" /\ ~Busy /\ UNCHANGED <<pc, of, end, shared, loop, scanned>>
  BY DEF Delegate, ModelCall, Running, runIdle, streamVars, crashVars
<1>2. ~Busy' /\ Opened'
  BY <1>1 DEF Busy, Opened, Live
<1>3. Holder(r)'
  BY <1>1 DEF Holder
<1> QED
  BY <1>1, <1>2, <1>3 DEF Script, HoldOwned

\* All steps, together.
LEMMA StreamsStep ==
    ASSUME TypeOK, StreamInv, [Next]_vars
    PROVE  Script' /\ Opened' /\ HoldOwned' /\ (scanned => scanned')
<1> USE DEF StreamInv
<1>1. CASE \/ \E r \in Streams : AgentEvent(r)
           \/ \E t \in Traces : Stop(t)
           \/ DrainTake \/ DrainWrite \/ Granted \/ Scan \/ UNCHANGED vars
  BY <1>1, CalmSteps, CalmKeeps DEF Calm
<1>2. ASSUME NEW r \in Streams, \/ OpenNew(r) \/ Register(r) \/ Assemble(r)
                                \/ \E t \in Traces : Resume(r, t)
      PROVE  Script' /\ Opened' /\ HoldOwned' /\ (scanned => scanned')
  <2>1. Moves(r)
    BY <1>2, MoveSteps
  <2> QED
    BY <2>1, MoveKeeps DEF Moves
<1>3. ASSUME NEW r \in Streams,
             \/ Complete(r) \/ Interrupt(r) \/ Fail(r) \/ Cancelled(r)
             \/ ModelCall(r) /\ loop' # loop
      PROVE  Script' /\ Opened' /\ HoldOwned' /\ (scanned => scanned')
  <2>1. Begun(r)
    BY <1>3, BeginSteps
  <2> QED
    BY <2>1, BeginKeeps DEF Begun
<1>4. ASSUME NEW r \in Streams, Delegate(r) \/ (ModelCall(r) /\ loop' = loop)
      PROVE  Script' /\ Opened' /\ HoldOwned' /\ (scanned => scanned')
  BY <1>4, HoldSteps
<1>5. ASSUME NEW r \in Streams, LeaveSetup(r) \/ LeaveAwaiting(r) \/ Close(r) \/ EventRefused(r)
      PROVE  Script' /\ Opened' /\ HoldOwned' /\ (scanned => scanned')
  <2>1. PICK how : Leaves(r, how)
    BY <1>5, LeaveSteps
  <2> QED
    BY <2>1, LeaveKeeps DEF Leaves
<1>6. CASE SettleStep \/ AppendStep \/ StoreStep \/ SealStep \/ AwaitStep
  BY <1>6, SaySteps, SayKeeps DEF Says
<1>7. CASE StepRefused
  BY <1>7, RefusedKeeps
<1>8. CASE Crash
  BY <1>8, CrashKeeps
<1> QED
  BY <1>1, <1>2, <1>3, <1>4, <1>5, <1>6, <1>7, <1>8 DEF Next, Stream, LoopStep

\* What may happen while the scanner has only looked.
LEMMA Early ==
    ASSUME [Next]_vars, Still, ~scanned'
    PROVE  \/ Quiet
           \/ \E r \in Streams : \/ OpenNew(r) \/ AgentEvent(r)
                                 \/ \E t \in Traces : Resume(r, t)
           \/ AppendStep \/ StoreStep \/ SealStep \/ AwaitStep \/ Crash
<1>1. ~ScanCancel /\ ~ScanLoad /\ ~ScanStore /\ ~ScanSeal
  BY DEF Still, ScanCancel, ScanLoad, ScanStore, ScanSeal
<1> QED
  BY <1>1 DEF Next, Stream, LoopStep, Scan, Quiet

LEMMA LogStep ==
    ASSUME TypeOK, StreamInv, Log, [Next]_vars, ~scanned'
    PROVE  Log'
<1> USE DEF StreamInv
<1>0. Still
  BY DEF Log
<1>1. CASE Quiet
  BY <1>1, QuietAside, AsideLog
<1>2. ASSUME NEW r \in Streams, OpenNew(r) \/ AgentEvent(r) PROVE Log'
  BY <1>2, OpenNewLog, AgentEventLog
<1>3. ASSUME NEW r \in Streams, NEW t \in Traces, Resume(r, t) PROVE Log'
  BY <1>3, ResumeLog
<1>4. CASE AppendStep \/ StoreStep \/ SealStep \/ AwaitStep
  BY <1>4, AppendLog, StoreLog, SealLog, AwaitLog
<1>5. CASE Crash
  BY <1>5, CrashLog
<1> QED
  BY <1>0, <1>1, <1>2, <1>3, <1>4, <1>5, Early

-----------------------------------------------------------------------------
(* Streams and their traces *)

Owns(r, t) == of[r] = t /\ (Live(r) \/ end[r] \in {"setup", "closed", "crashed"})
Claimed == \A t \in Traces : Status(t) = "running" => \E r \in Streams : Owns(r, t)

Reached ==
    \A r \in Streams : r # loop.by /\ pc[r] \in {"setup", "run"} /\ task[of[r]] # r =>
        of[r] \in shared

Links == Paid /\ Attached /\ Claimed /\ Reached

\* Streams, tasks and what the process knows stay; a trace may get its verdict.
Same ==
    /\ UNCHANGED <<pc, of, end, shared, known, task>>
    /\ \A t \in Traces : Status(t)' = Status(t) \/ Status(t)' \in Terminal
    /\ Busy => loop'.by = loop.by
    /\ Busy' /\ loop'.todo = <<"settle">> => loop' = loop

LEMMA SameLinks ==
    ASSUME TypeOK, Script, Opened, Links, Same
    PROVE  Links'
<1>1. Paid'
  BY DEF Links, Paid, Same, Script, Opened, Live, Busy, me, mine
<1>2. Attached'
  BY DEF Links, Attached, Same, Live, Terminal, Opened
<1>3. Claimed'
  BY DEF Links, Claimed, Owns, Same, Live, Terminal
<1>4. Reached'
  BY WritersAssumption DEF Links, Reached, Same, Busy
<1> QED
  BY <1>1, <1>2, <1>3, <1>4 DEF Links

LEMMA OpenNewLinks ==
    ASSUME TypeOK, Log, Opened, Links, NEW r \in Streams, OpenNew(r)
    PROVE  Links'
<1>1. PICK t \in Traces : CreateRun(r, t)
  BY DEF OpenNew
<1>2. /\ Status(t) = "absent" /\ known' = known \cup {t} /\ pc[r] = "idle"
      /\ index' = Put(index, t, "running", 0) /\ of' = [of EXCEPT ![r] = t]
      /\ pc' = [pc EXCEPT ![r] = "opened"]
      /\ UNCHANGED <<loop, end, shared, task>> /\ ~Busy
  BY <1>1 DEF OpenNew, CreateRun, openIdle
<1>3. Status(t)' = "running" /\ \A u \in Traces \ {t} : Status(u)' = Status(u)
  BY <1>2, PutStatus, NumbersAreNats DEF Log, Status, Statuses
<1>4. \A o \in Streams : of[o] # t
  BY <1>2 DEF Log, Fresh
<1>5. /\ of \in [Streams -> Traces \cup {NoOne}]
      /\ pc \in [Streams -> {"idle", "opened", "setup", "run", "ended"}]
  BY DEF TypeOK, StreamTypes
<1>6. Paid'
  BY <1>2 DEF Paid, Busy
<1>7. Attached'
  BY <1>2, <1>3, <1>4, <1>5 DEF Links, Attached, Live, Opened
<1>8. Claimed'
  <2>1. Owns(r, t)'
    BY <1>2, <1>5 DEF Owns, Live
  <2>2. ASSUME NEW u \in Traces \ {t}, NEW o \in Streams, Owns(o, u) PROVE Owns(o, u)'
    <3>1. o # r
      BY <2>2, <1>2, WritersAssumption DEF Owns, Opened
    <3> QED
      BY <3>1, <2>2, <1>2, <1>5 DEF Owns, Live
  <2> QED
    BY <2>1, <2>2, <1>3 DEF Links, Claimed
<1>9. Reached'
  BY <1>2, <1>5 DEF Links, Reached
<1> QED
  BY <1>6, <1>7, <1>8, <1>9 DEF Links

LEMMA ResumeLinks ==
    ASSUME TypeOK, Log, Opened, Links, NEW r \in Streams, NEW t \in Traces, Resume(r, t)
    PROVE  Links'
<1>1. t \in known /\ Status(t) # "absent"
  BY ResumableActive DEF Resume
<1>2. /\ known' = known /\ pc[r] = "idle"
      /\ index' = Restatus(t, "running") /\ of' = [of EXCEPT ![r] = t]
      /\ pc' = [pc EXCEPT ![r] = "setup"] /\ task' = [task EXCEPT ![t] = r]
      /\ UNCHANGED <<loop, end>> /\ ~Busy
  BY DEF Resume, openIdle
<1>3. Status(t)' = "running" /\ \A u \in Traces \ {t} : Status(u)' = Status(u)
  BY <1>1, <1>2, RestatusStatus DEF Log, Status, Statuses, TypeOK, FileTypes, MemTypes
<1>4. shared \subseteq shared' /\ ((\E o \in Streams : Live(o) /\ of[o] = t) => t \in shared')
  BY DEF Resume, Attach
<1>5. /\ of \in [Streams -> Traces \cup {NoOne}]
      /\ pc \in [Streams -> {"idle", "opened", "setup", "run", "ended"}]
      /\ task \in [Traces -> Streams \cup {NoOne}]
  BY DEF TypeOK, StreamTypes, MemTypes
<1>6. Paid'
  BY <1>2 DEF Paid, Busy
<1>7. \A o \in Streams \ {r} : of'[o] = of[o] /\ pc'[o] = pc[o] /\ Live(o)' = Live(o)
  BY <1>2, <1>5 DEF Live
<1>8. of'[r] = t /\ pc'[r] = "setup"
  BY <1>2, <1>5
<1>9. Attached'
  <2>1. ASSUME NEW o \in Streams, NEW p \in Streams, o # p, Live(o)', Live(p)', of'[o] = of'[p]
        PROVE  of'[o] \in shared'
    BY <2>1, <1>4, <1>7, <1>8 DEF Links, Attached
  <2>2. ASSUME NEW o \in Streams, Live(o)' PROVE of'[o] \in known'
    BY <2>2, <1>1, <1>2, <1>7, <1>8 DEF Links, Attached
  <2>3. ASSUME NEW o \in Streams, Live(o)', StatusIn(index', of'[o]) = "awaiting_input"
        PROVE  of'[o] \in shared'
    <3>1. StatusIn(index', t) = "running"
      BY <1>3 DEF Status
    <3>2. o # r /\ of[o] # t
      BY <2>3, <3>1, <1>7, <1>8
    <3>3. of[o] \in Traces
      BY <2>3, <3>2, <1>7 DEF Opened
    <3>4. Status(of[o]) = "awaiting_input"
      BY <2>3, <3>2, <3>3, <1>3, <1>7 DEF Status
    <3> QED
      BY <2>3, <3>2, <3>4, <1>4, <1>7 DEF Links, Attached
  <2> QED
    BY <2>1, <2>2, <2>3 DEF Attached, Status
<1>10. Claimed'
  <2>1. Owns(r, t)'
    BY <1>8 DEF Owns, Live
  <2>2. ASSUME NEW u \in Traces \ {t}, NEW o \in Streams, Owns(o, u) PROVE Owns(o, u)'
    <3>1. o # r
      BY <2>2, <1>2, WritersAssumption DEF Owns, Opened
    <3> QED
      BY <3>1, <2>2, <1>2, <1>7 DEF Owns
  <2> QED
    BY <2>1, <2>2, <1>3 DEF Links, Claimed
<1>11. Reached'
  <2> SUFFICES ASSUME NEW o \in Streams, o # loop'.by, pc'[o] \in {"setup", "run"},
                      task'[of'[o]] # o
               PROVE  of'[o] \in shared'
    BY DEF Reached
  <2>1. o # r
    BY <1>2, <1>5, <1>8
  <2>2. Live(o) /\ of'[o] = of[o] /\ of[o] \in Traces
    BY <2>1, <1>7 DEF Live, Opened
  <2>3. CASE of[o] = t
    BY <2>2, <2>3, <1>4
  <2>4. CASE of[o] # t
    BY <2>1, <2>2, <2>4, <1>2, <1>4, <1>5, <1>7 DEF Links, Reached
  <2> QED
    BY <2>3, <2>4
<1> QED
  BY <1>6, <1>9, <1>10, <1>11 DEF Links

\* The setup of a stream ends well or not.
LEMMA SetupLinks ==
    ASSUME TypeOK, Opened, Links, NEW r \in Streams, Register(r) \/ Assemble(r) \/ LeaveSetup(r)
    PROVE  Links'
<1>1. /\ Live(r) /\ ~Busy /\ UNCHANGED <<of, shared, known, index, loop>>
      /\ \A o \in Streams \ {r} : pc'[o] = pc[o] /\ end'[o] = end[o]
      /\ \/ pc'[r] \in {"setup", "run"} /\ end' = end
         \/ pc'[r] = "ended" /\ end'[r] = "setup"
  BY DEF Register, Assemble, LeaveSetup, Ended, TypeOK, StreamTypes, memVars, fileVars, Live
<1>2. \A o \in Streams : Live(o)' => Live(o)
  BY <1>1 DEF Live
<1>3. \A u : Status(u)' = Status(u)
  BY <1>1 DEF Status
<1>4. Paid'
  BY <1>1 DEF Paid, Busy
<1>5. Attached'
  BY <1>1, <1>2, <1>3 DEF Links, Attached
<1>6. Claimed'
  <2>1. ASSUME NEW o \in Streams, NEW t \in Traces, Owns(o, t) PROVE Owns(o, t)'
    BY <2>1, <1>1 DEF Owns, Live
  <2> QED
    BY <2>1, <1>3 DEF Links, Claimed
<1>7. Reached'
  <2> SUFFICES ASSUME NEW o \in Streams, o # loop.by, pc'[o] \in {"setup", "run"},
                      task'[of[o]] # o
               PROVE  of[o] \in shared
    BY <1>1 DEF Reached
  <2>1. CASE Register(r)
    <3>1. task' = [task EXCEPT ![of[r]] = r] /\ of[r] \in Traces
      BY <2>1, <1>1 DEF Register, Opened
    <3>2. o # r
      BY <3>1 DEF TypeOK, MemTypes
    <3>3. Live(o) /\ of[o] \in Traces
      BY <3>2, <1>1, <1>2 DEF Live, Opened
    <3>4. CASE of[o] = of[r]
      BY <3>2, <3>3, <3>4, <1>1 DEF Links, Attached
    <3>5. CASE of[o] # of[r]
      BY <3>1, <3>2, <3>3, <3>5, <1>1 DEF Links, Reached, TypeOK, MemTypes
    <3> QED
      BY <3>4, <3>5
  <2>2. CASE Assemble(r) \/ LeaveSetup(r)
    <3>1. task' = task
      BY <2>2 DEF Assemble, LeaveSetup, memVars
    <3>2. CASE Assemble(r)
      <4>1. pc[o] \in {"setup", "run"}
        BY <3>2, <1>1 DEF Assemble
      <4> QED
        BY <3>1, <4>1 DEF Links, Reached
    <3>3. CASE LeaveSetup(r)
      <4>1. pc[o] \in {"setup", "run"}
        BY <3>3, <1>1 DEF LeaveSetup, Ended, TypeOK, StreamTypes
      <4> QED
        BY <3>1, <4>1 DEF Links, Reached
    <3> QED
      BY <2>2, <3>2, <3>3
  <2> QED
    BY <2>1, <2>2
<1> QED
  BY <1>4, <1>5, <1>6, <1>7 DEF Links

\* A stream ends and unregisters the task of its trace: another stream of the trace shared it.
LEMMA PartsLinks ==
    ASSUME TypeOK, Opened, Links, NEW o \in Streams, NEW t \in Traces, t = of[o],
           pc[o] = "run", pc' = [pc EXCEPT ![o] = "ended"],
           NEW how, end' = [end EXCEPT ![o] = how],
           task' = [task EXCEPT ![t] = NoOne],
           UNCHANGED <<of, shared, known>>, ~Busy', loop.by \in {o, NoOne},
           \A u \in Traces \ {t} : Status(u)' = Status(u),
           how = "closed" \/ Status(t)' # "running"
    PROVE  Links'
<1>1. /\ \A p \in Streams \ {o} : pc'[p] = pc[p] /\ end'[p] = end[p]
      /\ pc'[o] = "ended" /\ end'[o] = how /\ Live(o)
  BY DEF TypeOK, StreamTypes, Live
<1>2. \A p \in Streams : Live(p)' => Live(p) /\ p # o
  BY <1>1 DEF Live
<1>3. \A p \in Streams : Live(p)' /\ of[p] = t => t \in shared
  BY <1>1, <1>2 DEF Links, Attached
<1>4. Paid'
  BY DEF Paid
<1>5. Attached'
  <2>1. ASSUME NEW p \in Streams, Live(p)', StatusIn(index', of[p]) = "awaiting_input"
        PROVE  of[p] \in shared
    <3>1. CASE of[p] = t
      BY <2>1, <3>1, <1>3
    <3>2. CASE of[p] # t
      <4>1. of[p] \in Traces /\ Live(p)
        BY <2>1, <1>2 DEF Opened
      <4>2. Status(of[p]) = "awaiting_input"
        BY <2>1, <3>2, <4>1 DEF Status
      <4> QED
        BY <4>1, <4>2 DEF Links, Attached
    <3> QED
      BY <3>1, <3>2
  <2> QED
    BY <2>1, <1>2 DEF Links, Attached, Status
<1>6. Claimed'
  <2>1. ASSUME NEW u \in Traces \ {t}, NEW p \in Streams, Owns(p, u) PROVE Owns(p, u)'
    BY <2>1, <1>1 DEF Owns, Live
  <2>2. CASE how = "closed"
    <3>1. Owns(o, t)'
      BY <2>2, <1>1 DEF Owns
    <3> QED
      BY <2>1, <3>1 DEF Links, Claimed
  <2>3. CASE Status(t)' # "running"
    BY <2>1, <2>3 DEF Links, Claimed
  <2> QED
    BY <2>2, <2>3
<1>7. Reached'
  <2> SUFFICES ASSUME NEW p \in Streams, pc'[p] \in {"setup", "run"}, task'[of[p]] # p
               PROVE  of[p] \in shared
    BY DEF Reached
  <2>1. p # o /\ pc[p] = pc'[p] /\ Live(p)' /\ of[p] \in Traces
    BY <1>1, <1>2 DEF Live, Opened
  <2>2. CASE of[p] = t
    BY <2>1, <2>2, <1>3
  <2>3. CASE of[p] # t
    BY <2>1, <2>3, WritersAssumption DEF Links, Reached, TypeOK, MemTypes
  <2> QED
    BY <2>2, <2>3
<1> QED
  BY <1>4, <1>5, <1>6, <1>7 DEF Links

LEMMA DropsLinks ==
    ASSUME TypeOK, StreamInv, Log, Links, NEW r \in Streams,
           LeaveAwaiting(r) \/ Close(r) \/ EventRefused(r)
    PROVE  Links'
<1>1. /\ pc[r] = "run" /\ ~Busy /\ of[r] \in Traces
      /\ UNCHANGED <<of, shared, known, loop, index>>
      /\ task' = [task EXCEPT ![of[r]] = NoOne]
      /\ pc' = [pc EXCEPT ![r] = "ended"]
  BY DEF LeaveAwaiting, Close, EventRefused, Running, Drops, Ended, fileVars, StreamInv, Opened,
     Live
<1>2. PICK how : /\ end' = [end EXCEPT ![r] = how]
                 /\ how = "closed" \/ Status(of[r]) # "running"
  <2>1. CASE LeaveAwaiting(r)
    BY <2>1 DEF LeaveAwaiting, Drops, Ended
  <2>2. CASE Close(r)
    BY <2>2 DEF Close, Drops, Ended
  <2>3. CASE EventRefused(r)
    <3>1. Status(of[r]) \in Terminal
      BY <2>3, <1>1 DEF EventRefused, Links, Attached, Live, Log, Remembered
    <3> QED
      BY <2>3, <3>1 DEF EventRefused, Drops, Ended, Terminal
  <2> QED
    BY <2>1, <2>2, <2>3
<1>3. PICK t \in Traces : t = of[r]
  BY <1>1
<1>4. ~Busy' /\ loop.by = NoOne /\ \A u : Status(u)' = Status(u)
  BY <1>1 DEF Busy, Status
<1> QED
  BY <1>1, <1>2, <1>3, <1>4, PartsLinks DEF StreamInv

\* The last statement of a script, by what the index says of the trace afterwards.
LEMMA LastLinks ==
    ASSUME TypeOK, StreamInv, Log, Links,
           SettleStep \/ SealStep \/ AwaitStep \/ StepRefused, loop' = Idle
    PROVE  Links'
<1>0. /\ Busy /\ me \in Streams /\ pc[me] = "run" /\ of[me] \in Traces
      /\ loop.todo \in Closings \cup Awaitings
  BY DEF SettleStep, SealStep, AwaitStep, StepRefused, Doing, StreamInv, Script, Opened, Live
<1>1. PICK o \in Streams, t \in Traces : o = me /\ t = of[o]
  BY <1>0
<1>2. ~Busy'
  BY DEF Idle, Busy
<1>2a. /\ ~(Len(loop.todo) > 1) => Len(loop.todo) = 1
       /\ loop.end # "none"
  <2>1. loop.todo \in Seq(Steps) /\ Len(loop.todo) > 0
    BY <1>0, Scripts
  <2>2. Len(loop.todo) \in Nat
    BY <2>1
  <2>3. loop.end # "none"
    BY <1>0 DEF StreamInv, Script
  <2>4. ~(Len(loop.todo) > 1) => Len(loop.todo) = 1
    <3> DEFINE n == Len(loop.todo)
    <3>1. n \in Nat /\ n > 0
      BY <2>1, <2>2
    <3> HIDE DEF n
    <3>2. ~(n > 1) => n = 1
      BY <3>1
    <3> QED
      BY <3>2 DEF n
  <2> QED
    BY <2>3, <2>4
<1>3. \/ StepRefused
      \/ Says /\ ~(Len(loop.todo) > 1)
  <2>1. ASSUME Says, Len(loop.todo) > 1 PROVE FALSE
    <3>1. loop'.by = loop.by
      BY <2>1, SayEffect DEF StreamInv
    <3> QED
      BY <3>1, <1>0, <1>2 DEF Busy
  <2> QED
    BY <2>1, SaySteps
<1>4. UNCHANGED <<of, shared, known>>
  BY <1>3, SayEffect DEF SettleStep, SealStep, AwaitStep, StepRefused, Ended, StreamInv
<1>5. /\ pc' = [pc EXCEPT ![o] = "ended"] /\ \E how : end' = [end EXCEPT ![o] = how]
  BY <1>1, <1>3, SayEffect DEF StepRefused, Ended, StreamInv
<1>6. task' = [task EXCEPT ![t] = NoOne]
  <2>1. CASE StepRefused
    BY <2>1, <1>1 DEF StepRefused, me, mine
  <2>2. CASE SettleStep /\ ~(Len(loop.todo) > 1)
    <3>1. Len(loop.todo) = 1 /\ loop.end # "none"
      BY <2>2, <1>2a
    <3> QED
      BY <2>2, <3>1, <1>1 DEF SettleStep, Unregistered, me, mine
  <2>3. CASE AwaitStep /\ ~(Len(loop.todo) > 1)
    <3>1. Len(loop.todo) = 1 /\ loop.end # "none"
      BY <2>3, <1>2a
    <3> QED
      BY <2>3, <3>1, <1>1 DEF AwaitStep, Unregistered, me, mine
  <2>4. CASE SealStep
    BY <2>4, <1>1 DEF SealStep, Forget, me, mine
  <2> QED
    BY <1>3, <2>1, <2>2, <2>3, <2>4
<1>7. /\ \A u \in Traces \ {t} : Status(u)' = Status(u)
      /\ Status(t)' # "running"
  <2>0. mine = t
    BY <1>1 DEF me, mine
  <2>1. CASE StepRefused
    <3>1. t \notin active /\ t \in known /\ index' = index
      BY <2>1, <2>0, <1>0, <1>1 DEF StepRefused, fileVars, Links, Attached, Live
    <3> QED
      BY <3>1 DEF Log, Remembered, Status, Terminal
  <2>2. CASE SettleStep /\ ~(Len(loop.todo) > 1)
    <3>1. loop.todo = <<"settle">>
      BY <2>2, <1>0, Scripts DEF SettleStep, Doing
    <3>2. Status(t) \in Terminal /\ index' = index
      BY <3>1, <2>0, <2>2, <1>0 DEF Links, Paid, SettleStep, fileVars
    <3> QED
      BY <3>2 DEF Status, Terminal
  <2>3. CASE AwaitStep
    BY <2>0, <2>3, AwaitIndex DEF StreamInv
  <2>4. CASE SealStep
    <3>1. Status(t) \in Terminal /\ index' = index
      BY <2>0, <2>4, SealIndex DEF StreamInv
    <3> QED
      BY <3>1 DEF Status, Terminal
  <2> QED
    BY <1>3, <2>1, <2>2, <2>3, <2>4
<1>8. PICK how : end' = [end EXCEPT ![o] = how]
  BY <1>5
<1>9. loop.by = o /\ pc[o] = "run"
  BY <1>0, <1>1 DEF me
<1> QED
  BY <1>1, <1>2, <1>4, <1>5, <1>6, <1>7, <1>8, <1>9, PartsLinks DEF StreamInv

\* The seal of a stream that will settle afterwards.
LEMMA SealLinks ==
    ASSUME TypeOK, StreamInv, Log, Links, SealStep, Len(loop.todo) > 1
    PROVE  Links'
<1>1. /\ Busy /\ mine \in Traces /\ Status(mine) \in Terminal
      /\ UNCHANGED <<of, index, known>>
  BY SealIndex DEF StreamInv
<1>2. /\ loop'.by = loop.by /\ UNCHANGED <<pc, end, shared>>
  BY SayEffect, SaySteps DEF StreamInv
<1>3. me \in Streams /\ Live(me) /\ of[me] = mine
  BY <1>1 DEF StreamInv, Script, Live, mine, me
<1>4. task' = [task EXCEPT ![mine] = NoOne]
  BY DEF SealStep, Forget
<1>5. \A u : Status(u)' = Status(u)
  BY <1>1 DEF Status
<1>6. Paid'
  BY <1>1, <1>2, <1>5 DEF Paid, mine, me
<1>7. Attached'
  BY <1>1, <1>2, <1>5 DEF Links, Attached, Live
<1>8. Claimed'
  BY <1>1, <1>2, <1>5 DEF Links, Claimed, Owns, Live
<1>9. Reached'
  <2> SUFFICES ASSUME NEW o \in Streams, o # loop.by, pc[o] \in {"setup", "run"}, task'[of[o]] # o
               PROVE  of[o] \in shared
    BY <1>1, <1>2 DEF Reached
  <2>1. Live(o) /\ of[o] \in Traces
    BY DEF Live, StreamInv, Opened
  <2>2. CASE of[o] = mine
    BY <1>3, <2>1, <2>2 DEF Links, Attached, me
  <2>3. CASE of[o] # mine
    BY <1>4, <2>1, <2>3 DEF Links, Reached, TypeOK, MemTypes
  <2> QED
    BY <2>2, <2>3
<1> QED
  BY <1>6, <1>7, <1>8, <1>9 DEF Links

LEMMA CrashLinks ==
    ASSUME TypeOK, Opened, Links, Crash
    PROVE  Links'
<1>1. /\ loop' = Idle /\ UNCHANGED <<of, index>>
      /\ pc' = [r \in Streams |-> IF Live(r) THEN "ended" ELSE pc[r]]
      /\ end' = [r \in Streams |-> IF Live(r) THEN "crashed" ELSE end[r]]
  BY DEF Crash
<1>2. ~Busy' /\ \A r \in Streams : ~Live(r)'
  BY <1>1 DEF Busy, Idle, Live
<1>3. \A u : Status(u)' = Status(u)
  BY <1>1 DEF Status
<1>4. Paid' /\ Attached' /\ Reached'
  BY <1>2 DEF Paid, Attached, Reached, Live
<1>5. ASSUME NEW o \in Streams, NEW t \in Traces, Owns(o, t) PROVE Owns(o, t)'
  BY <1>1, <1>5 DEF Owns, Live, Opened
<1> QED
  BY <1>3, <1>4, <1>5 DEF Links, Claimed

\* The other steps of the streams' traces.
LEMMA SameSteps ==
    ASSUME TypeOK, StreamInv, Log,
           \/ \E r \in Streams :
                \/ AgentEvent(r) \/ Delegate(r) \/ ModelCall(r)
                \/ Complete(r) \/ Interrupt(r) \/ Fail(r) \/ Cancelled(r)
           \/ SettleStep /\ Len(loop.todo) > 1
           \/ AppendStep \/ StoreStep
           \/ \E t \in Traces : Stop(t) \/ ScanFind(t)
           \/ DrainTake \/ DrainWrite \/ Granted \/ ScanRefused \/ UNCHANGED vars
    PROVE  Same
<1>1. ASSUME NEW r \in Streams, AgentEvent(r) PROVE Same
  BY <1>1 DEF AgentEvent, vars, streamVars, memVars, fileVars, scanIdle, runIdle, Same, Status
<1>2. ASSUME NEW r \in Streams, Delegate(r) PROVE Same
  BY <1>2 DEF Delegate, vars, streamVars, memVars, fileVars, scanIdle, runIdle, Same, Status
<1>3. ASSUME NEW r \in Streams, ModelCall(r) PROVE Same
  <2>1. ~Busy
    BY <1>3 DEF ModelCall, Running
  <2>2. loop' = loop \/ loop'.todo # <<"settle">>
    <3>1. CASE loop' # loop
      <4>1. Begun(r)
        BY <1>3, <3>1, BeginSteps
      <4> QED
        BY <4>1 DEF Begun, Does
    <3> QED
      BY <3>1
  <2> QED
    BY <1>3, <2>1, <2>2 DEF ModelCall, runIdle, streamVars, memVars, fileVars, Same, Status
<1>4. ASSUME NEW r \in Streams, Complete(r) PROVE Same
  <2>1. Begun(r)
    BY <1>4, BeginSteps
  <2>2. ~Busy /\ loop'.todo # <<"settle">>
    BY <2>1 DEF Begun, Does
  <2> QED
    BY <1>4, <2>2 DEF Complete, runIdle, streamVars, memVars, fileVars, Same, Status
<1>5. ASSUME NEW r \in Streams, Interrupt(r) PROVE Same
  <2>1. Begun(r)
    BY <1>5, BeginSteps
  <2>2. ~Busy /\ loop'.todo # <<"settle">>
    BY <2>1 DEF Begun, Does
  <2> QED
    BY <1>5, <2>2 DEF Interrupt, runIdle, streamVars, memVars, fileVars, Same, Status
<1>6. ASSUME NEW r \in Streams, Fail(r) PROVE Same
  <2>1. Begun(r)
    BY <1>6, BeginSteps
  <2>2. ~Busy /\ loop'.todo # <<"settle">>
    BY <2>1 DEF Begun, Does
  <2> QED
    BY <1>6, <2>2 DEF Fail, runIdle, streamVars, memVars, fileVars, Same, Status
<1>7. ASSUME NEW r \in Streams, Cancelled(r) PROVE Same
  <2>1. Begun(r)
    BY <1>7, BeginSteps
  <2>2. ~Busy /\ loop'.todo # <<"settle">>
    BY <2>1 DEF Begun, Does
  <2> QED
    BY <1>7, <2>2 DEF Cancelled, runIdle, streamVars, memVars, fileVars, Same, Status
<1>8. ASSUME SettleStep, Len(loop.todo) > 1 PROVE Same
  <2>1. /\ loop'.by = loop.by /\ loop'.todo = Tail(loop.todo)
        /\ UNCHANGED <<pc, of, end, shared>>
    BY <1>8, SaySteps, SayEffect DEF StreamInv
  <2>2. loop'.todo # <<"settle">>
    <3>1. Head(Tail(loop.todo)) \in {"append", "await"}
      BY <1>8, Scripts DEF SettleStep, Doing, StreamInv, Script
    <3>2. Head(<<"settle">>) = "settle"
      OBVIOUS
    <3> QED
      BY <2>1, <3>1, <3>2
  <2>3. task' = task
    <3>1. loop.todo \in Seq(Steps)
      BY DEF TypeOK, LoopTypes
    <3>2. Len(loop.todo) \in Nat /\ Len(loop.todo) > 1
      BY <1>8, <3>1
    <3>3. \A n \in Nat : n > 1 => n # 1
      OBVIOUS
    <3>4. Len(loop.todo) # 1
      BY <3>2, <3>3
    <3> QED
      BY <1>8, <3>4 DEF SettleStep, Unregistered
  <2> QED
    BY <1>8, <2>1, <2>2, <2>3 DEF SettleStep, fileVars, Same, Status
<1>9. ASSUME AppendStep PROVE Same
  <2>1. Len(loop.todo) > 1 /\ Head(Tail(loop.todo)) = "store"
    BY <1>9, Scripts DEF AppendStep, Doing, StreamInv, Script
  <2>2. /\ loop'.by = loop.by /\ loop'.todo = Tail(loop.todo)
        /\ UNCHANGED <<pc, of, end, shared>>
    BY <1>9, <2>1, SaySteps, SayEffect DEF StreamInv
  <2>3. loop'.todo # <<"settle">>
    <3>1. Head(<<"settle">>) = "settle"
      OBVIOUS
    <3> QED
      BY <2>1, <2>2, <3>1
  <2> QED
    BY <1>9, <2>2, <2>3 DEF AppendStep, Same, Status
<1>10. ASSUME StoreStep PROVE Same
  <2>1. /\ loop.status \in Terminal /\ loop'.by = loop.by /\ Head(loop'.todo) = "seal"
        /\ \A u \in Traces : Status(u)' = IF u = mine THEN loop.status ELSE Status(u)
    BY <1>10, StoreIndex DEF StreamInv
  <2>2. Len(loop.todo) > 1
    BY <1>10, Scripts DEF StoreStep, Doing, StreamInv, Script
  <2>3. UNCHANGED <<pc, of, end, shared>>
    BY <1>10, <2>2, SaySteps, SayEffect DEF StreamInv
  <2>4. loop'.todo # <<"settle">>
    <3>1. Head(<<"settle">>) = "settle"
      OBVIOUS
    <3> QED
      BY <2>1, <3>1
  <2> QED
    BY <1>10, <2>1, <2>3, <2>4 DEF StoreStep, memVars, Same
<1>11. ASSUME NEW t \in Traces, Stop(t) PROVE Same
  BY <1>11 DEF Stop, vars, streamVars, memVars, fileVars, scanIdle, runIdle, Same, Status
<1>12. ASSUME NEW t \in Traces, ScanFind(t) PROVE Same
  BY <1>12 DEF ScanFind, vars, streamVars, memVars, fileVars, scanIdle, runIdle, Same, Status
<1>13. ASSUME DrainTake PROVE Same
  BY <1>13 DEF DrainTake, vars, streamVars, memVars, fileVars, scanIdle, runIdle, Same, Status
<1>14. ASSUME DrainWrite PROVE Same
  BY <1>14 DEF DrainWrite, vars, streamVars, memVars, fileVars, scanIdle, runIdle, Same,
     Status
<1>15. ASSUME Granted PROVE Same
  BY <1>15 DEF Granted, vars, streamVars, memVars, fileVars, scanIdle, runIdle, Same, Status
<1>16. ASSUME ScanRefused PROVE Same
  BY <1>16 DEF ScanRefused, vars, streamVars, memVars, fileVars, scanIdle, runIdle, Same,
     Status
<1>17. ASSUME UNCHANGED vars PROVE Same
  BY <1>17 DEF vars, streamVars, memVars, fileVars, scanIdle, runIdle, Same, Status
<1> QED
  BY <1>1, <1>2, <1>3, <1>4, <1>5, <1>6, <1>7, <1>8, <1>9, <1>10, <1>11, <1>12, <1>13, <1>14,
     <1>15, <1>16, <1>17

LEMMA LinksStep ==
    ASSUME TypeOK, StreamInv, Log, Links, [Next]_vars, ~scanned'
    PROVE  Links'
<1> USE DEF StreamInv
<1>0. Still
  BY DEF Log
<1>1. ASSUME NEW r \in Streams, OpenNew(r) PROVE Links'
  BY <1>1, OpenNewLinks
<1>2. ASSUME NEW r \in Streams, NEW t \in Traces, Resume(r, t) PROVE Links'
  BY <1>2, ResumeLinks
<1>3. ASSUME NEW r \in Streams, Register(r) \/ Assemble(r) \/ LeaveSetup(r) PROVE Links'
  BY <1>3, SetupLinks
<1>4. ASSUME NEW r \in Streams, LeaveAwaiting(r) \/ Close(r) \/ EventRefused(r) PROVE Links'
  BY <1>4, DropsLinks
<1>5. CASE SettleStep \/ SealStep \/ AwaitStep \/ StepRefused
  <2>1. CASE loop' = Idle
    BY <1>5, <2>1, LastLinks
  <2>2. CASE loop' # Idle
    <3>1. ~StepRefused
      BY <2>2 DEF StepRefused
    <3>2. Len(loop.todo) > 1
      BY <1>5, <2>2, <3>1, SaySteps, SayEffect
    <3>3. ~AwaitStep
      BY <3>2, Scripts DEF AwaitStep, Doing, Script
    <3>4. CASE SettleStep
      BY <3>2, <3>4, SameSteps, SameLinks
    <3>5. CASE SealStep
      BY <3>2, <3>5, SealLinks
    <3> QED
      BY <1>5, <3>1, <3>3, <3>4, <3>5
  <2> QED
    BY <2>1, <2>2
<1>6. CASE Crash
  BY <1>6, CrashLinks
<1>7. CASE \/ \E r \in Streams :
                \/ AgentEvent(r) \/ Delegate(r) \/ ModelCall(r)
                \/ Complete(r) \/ Interrupt(r) \/ Fail(r) \/ Cancelled(r)
           \/ AppendStep \/ StoreStep
           \/ \E t \in Traces : Stop(t) \/ ScanFind(t)
           \/ DrainTake \/ DrainWrite \/ Granted \/ ScanRefused \/ UNCHANGED vars
  BY <1>7, SameSteps, SameLinks
<1> QED
  BY <1>0, <1>1, <1>2, <1>3, <1>4, <1>5, <1>6, <1>7, Early DEF Quiet

-----------------------------------------------------------------------------
(* The invariant holds *)

Inv == Script /\ Opened /\ HoldOwned /\ (scanned \/ (Log /\ Links))

LEMMA InitInv ==
    ASSUME Init
    PROVE  Inv
<1>1. /\ ~Busy /\ Lines = {} /\ index = {} /\ known = {} /\ active = {} /\ ~hold.active
      /\ \A r \in Streams : pc[r] = "idle" /\ of[r] = NoOne /\ end[r] = "none"
      /\ scan.at = "idle" /\ disk = {}
  BY DEF Init, CreditsInit, NoHold, Idle, Busy, Lines
<1>2. \A t : Status(t) = "absent"
  BY <1>1 DEF Status, StatusIn
<1>3. Script /\ Opened /\ HoldOwned
  BY <1>1 DEF Script, Opened, HoldOwned, Live
<1>4. Log
  <2>1. ~AtEnd
    BY <1>1 DEF AtEnd
  <2>2. Still /\ Functional(index) /\ Numbered /\ Unique /\ Remembered
    BY <1>1 DEF Still, Functional, Numbered, Unique, Remembered
  <2>3. Fresh
    BY <1>1, WritersAssumption DEF Fresh
  <2>4. OneEnd /\ Ending /\ Hand /\ Told /\ Kept
    BY <1>1, <1>2, <2>1 DEF OneEnd, Ending, Hand, Told, Kept, Terminal
  <2> QED
    BY <2>2, <2>3, <2>4 DEF Log
<1>5. Links
  BY <1>1, <1>2 DEF Links, Paid, Attached, Claimed, Reached, Live
<1> QED
  BY <1>3, <1>4, <1>5 DEF Inv

LEMMA InvStep ==
    ASSUME TypeOK, Inv, [Next]_vars
    PROVE  Inv'
<1>1. StreamInv
  BY DEF Inv, StreamInv, Links
<1>2. Script' /\ Opened' /\ HoldOwned' /\ (scanned => scanned')
  BY <1>1, StreamsStep
<1>3. CASE scanned'
  BY <1>2, <1>3 DEF Inv
<1>4. CASE ~scanned'
  <2>1. Log /\ Links
    BY <1>2, <1>4 DEF Inv
  <2>2. Log' /\ Links'
    BY <1>1, <1>4, <2>1, LogStep, LinksStep
  <2> QED
    BY <1>2, <2>2 DEF Inv
<1> QED
  BY <1>3, <1>4

\* However streams, stops, the drain, the scanner and crashes interleave: until the scanner
\* cancels a trace, log, index, memory and streams agree, statement by statement.
THEOREM Invariance == Spec => []Inv
<1>1. Init => Inv
  BY InitInv
<1>2. TypeOK /\ Inv /\ [Next]_vars => Inv'
  BY InvStep
<1> QED
  BY <1>1, <1>2, TypeSafety, PTL DEF Spec

-----------------------------------------------------------------------------
(* What it says *)

\* A trace gets one terminal event, whatever streams are attached to it and however they end
\* (finalize_run, _cleanup_run_state).
THEOREM OneTerminalEvent == Spec => []OneVerdict
<1>1. Inv => OneVerdict
  <2> SUFFICES ASSUME Inv, ~scanned, NEW t \in Traces PROVE Cardinality(Verdicts(t)) <= 1
    BY DEF OneVerdict
  <2>1. \A l, m \in Verdicts(t) : l = m
    BY DEF Inv, Log, OneEnd, IsVerdict, Verdicts, LinesOf
  <2>2. CASE Verdicts(t) = {}
    BY <2>2, FS_EmptySet
  <2>3. CASE Verdicts(t) # {}
    <3>1. PICK l \in Verdicts(t) : TRUE
      BY <2>3
    <3>2. Verdicts(t) = {l}
      BY <2>1, <3>1
    <3> QED
      BY <3>2, FS_Singleton
  <2> QED
    BY <2>2, <2>3
<1> QED
  BY <1>1, Invariance, PTL

\* Two events of a trace never share a number, across resumes and crashes (append_event,
\* _rebuild_active_state).
THEOREM NumbersStayUnique == Spec => []NumbersUnique
<1>1. Inv => NumbersUnique
  BY DEF Inv, Log, Unique, NumbersUnique
<1> QED
  BY <1>1, Invariance, PTL

\* A trace the index calls running has a stream, or one that was lost during setup, closed at
\* a yield or killed with the process (generate_stream's endings).
THEOREM RunningIsOwned == Spec => []RunningHasOwner
<1>1. Inv => RunningHasOwner
  BY DEF Inv, Links, Claimed, Owns, RunningHasOwner
<1> QED
  BY <1>1, Invariance, PTL

\* While the process lives, a trace that waits for input is in memory, to be resumed
\* (mark_awaiting_input, resume_run).
THEOREM AwaitingStaysInMemory == Spec => []AwaitingInMemory
<1>1. Inv => AwaitingInMemory
  BY DEF Inv, Log, Kept, Remembered, AwaitingInMemory, Terminal
<1> QED
  BY <1>1, Invariance, PTL

\* The status the index gives a finished trace was written to its event log before
\* (_finalize_run flushes the terminal event, then saves the index).
THEOREM IndexFollowsLog == Spec => []IndexTellsLog
<1>1. Inv => IndexTellsLog
  BY DEF Inv, Log, Told, IndexTellsLog, LinesOf
<1> QED
  BY <1>1, Invariance, PTL

\* POST /stop reaches every stream that works, unless two were attached to one trace
\* (register_run_task, unregister_run_task).
THEOREM StopsReach == Spec => []Stoppable
<1>1. Inv => Stoppable
  BY DEF Inv, Links, Reached, Stoppable
<1> QED
  BY <1>1, Invariance, PTL

\* No hold outlives the streams of its thread, but for the endings HoldReleased names
\* (settle_hold on generate_stream's endings).
THEOREM HoldIsReleased == Spec => []HoldReleased
<1>1. Inv => HoldReleased
  BY DEF Inv, HoldOwned, Holder, HoldReleased, Live
<1> QED
  BY <1>1, Invariance, PTL

\* A step that is not the scanner's leaves a verdict in the index.
LEMMA VerdictStep ==
    ASSUME TypeOK, Inv, [Next]_vars, ~scanned,
           NEW t \in Traces, Status(t) \in Terminal
    PROVE  StatusIn(index', t) = Status(t)
<1>0. Script /\ Opened /\ Log /\ Links /\ StreamInv
  BY DEF Inv, StreamInv, Links
<1> USE <1>0
<1>1. CASE UNCHANGED index
  BY <1>1 DEF Status
<1>2. ASSUME NEW r \in Streams, OpenNew(r) PROVE StatusIn(index', t) = Status(t)
  <2>1. PICK u \in Traces : Status(u) = "absent" /\ CreateRun(r, u)
    BY <1>2 DEF OpenNew, CreateRun
  <2>2. t # u /\ index' = Put(index, u, "running", 0)
    BY <2>1 DEF Terminal, CreateRun
  <2>3. index \in SUBSET Entries /\ Functional(index) /\ "running" \in Statuses
    BY DEF TypeOK, FileTypes, Log, Statuses
  <2> QED
    BY <2>2, <2>3, PutStatus DEF Status
<1>3. ASSUME NEW r \in Streams, NEW u \in Traces, Resume(r, u)
      PROVE StatusIn(index', t) = Status(t)
  <2>1. Status(u) \notin Terminal \cup {"absent"}
    BY <1>3, ResumableActive DEF Resume, Log, Ending, AtEnd
  <2>2. t # u /\ index' = Restatus(u, "running")
    BY <1>3, <2>1 DEF Resume
  <2> QED
    BY <2>1, <2>2, RestatusStatus DEF Log, Status, Statuses, TypeOK, FileTypes, MemTypes
<1>4. CASE StoreStep
  BY <1>4, StoreIndex DEF Status
<1>5. CASE SealStep
  BY <1>5, SealIndex DEF Status
<1>6. CASE AwaitStep
  BY <1>6, AwaitIndex DEF Status
<1>7. CASE Scan
  <2>1. index' = index
    BY <1>7 DEF Scan, ScanFind, ScanCancel, ScanLoad, ScanStore, ScanSeal, ScanRefused, Log,
       Still, fileVars, vars
  <2> QED
    BY <1>1, <2>1
<1>8. CASE \/ \E r \in Streams :
                \/ Register(r) \/ Assemble(r) \/ LeaveSetup(r) \/ AgentEvent(r)
                \/ EventRefused(r) \/ Delegate(r) \/ ModelCall(r) \/ Complete(r)
                \/ Interrupt(r) \/ Fail(r) \/ Cancelled(r) \/ LeaveAwaiting(r) \/ Close(r)
           \/ SettleStep \/ AppendStep \/ StepRefused
           \/ \E u \in Traces : Stop(u)
           \/ DrainTake \/ DrainWrite \/ Granted \/ Crash \/ UNCHANGED vars
  <2>1. UNCHANGED index
    BY <1>8 DEF Register, Assemble, LeaveSetup, AgentEvent, EventRefused, Delegate, ModelCall,
       Complete, Interrupt, Fail, Cancelled, LeaveAwaiting, Close, SettleStep, AppendStep,
       StepRefused, Stop, DrainTake, DrainWrite, Granted, Crash, vars, runIdle, scanIdle,
       fileVars, Drops
  <2> QED
    BY <1>1, <2>1
<1> QED
  BY <1>2, <1>3, <1>4, <1>5, <1>6, <1>7, <1>8 DEF Next, Stream, LoopStep

\* The index never takes back the verdict on a trace, unless the scanner's thread read or
\* wrote the file between two statements of the event loop (_save_index_entry, _scan_once).
THEOREM VerdictsStay == Spec => VerdictKept
<1>1. TypeOK /\ Inv /\ [Next]_vars =>
          \A t \in Traces : Status(t) \in Terminal /\ StatusIn(index', t) # Status(t) => scanned
  BY VerdictStep
<1>2. ASSUME TypeOK, Inv, [Next]_vars
      PROVE [\A t \in Traces : Status(t) \in Terminal /\ StatusIn(index', t) # Status(t)
                => scanned]_vars
  BY <1>1, <1>2
<1> QED
  BY <1>2, TypeSafety, Invariance, PTL DEF Spec, VerdictKept

\* A manifest is written by _finalize_run alone, and covers what is on disk.
LEMMA SealStepMisses ==
    ASSUME TypeOK, Inv, [Next]_vars, ~scanned,
           NEW t \in Traces, manifest'[t] # manifest[t]
    PROVE  Numbers(LinesOf(t, Lines)) \ manifest'[t] \subseteq Numbers(LinesOf(t, batch))
<1>0. Script /\ Log
  BY DEF Inv
<1>1. SealStep
  <2>1. ~ScanSeal
    BY <1>0 DEF Log, Still, ScanSeal
  <2> QED
    BY <2>1 DEF Next, Stream, LoopStep, Scan, OpenNew, CreateRun, openIdle, Resume, Register,
       Assemble, LeaveSetup, AgentEvent, EventRefused, Delegate, ModelCall, Complete, Interrupt,
       Fail, Cancelled, LeaveAwaiting, Close, SettleStep, AppendStep, StoreStep, AwaitStep,
       StepRefused, Stop, DrainTake, DrainWrite, Granted, Crash, ScanFind, ScanCancel, ScanLoad,
       ScanStore, ScanRefused, vars, runIdle, scanIdle, fileVars, Drops
<1>2. /\ AtEnd /\ mine \in Traces /\ manifest' = [manifest EXCEPT ![mine] = Covered(mine)]
  BY <1>0, <1>1, SealIndex
<1>3. t = mine /\ manifest'[t] = Covered(t)
  BY <1>2 DEF TypeOK, FileTypes
<1>4. /\ \A l \in pending : l.trace # t
      /\ \E l \in disk : l.trace = t /\ l.kind = loop.status
      /\ loop.status \in Terminal
  <2>1. Head(loop.todo) = "seal" /\ Busy
    BY <1>0, <1>1, SealIndex
  <2>2. loop.status \in Terminal
    BY <1>0, <1>1, SealIndex, <2>1, <1>2 DEF Log, Hand
  <2> QED
    BY <1>0, <1>2, <1>3, <2>2 DEF Log, Hand
<1>5. Covered(t) = Numbers(LinesOf(t, disk))
  BY <1>4 DEF Covered, LinesOf
<1> QED
  BY <1>3, <1>4, <1>5 DEF Numbers, LinesOf, Lines

\* A manifest covers every event of its trace, but for those the drain has taken and not yet
\* written: flush_sync does not wait for them (flush_sync, _drain_loop).
THEOREM SealsMissOnlyTheBatch == Spec => SealMisses
<1>1. TypeOK /\ Inv /\ [Next]_vars =>
          \A t \in Traces : manifest'[t] # manifest[t] /\ ~scanned =>
              Numbers(LinesOf(t, Lines)) \ manifest'[t] \subseteq Numbers(LinesOf(t, batch))
  BY SealStepMisses
<1>2. ASSUME TypeOK, Inv, [Next]_vars
      PROVE [\A t \in Traces : manifest'[t] # manifest[t] /\ ~scanned =>
                Numbers(LinesOf(t, Lines)) \ manifest'[t]
                    \subseteq Numbers(LinesOf(t, batch))]_vars
  BY <1>1, <1>2
<1> QED
  BY <1>2, TypeSafety, Invariance, PTL DEF Spec, SealMisses

-----------------------------------------------------------------------------
(* Generation's traces live as TraceLife says *)

\* The drain holds no terminal event: a stream writes its own to the file at once.
Flushed == \A l \in pending \cup batch : l.kind \notin Terminal

\* A trace that is in memory, or has no verdict in the index, has no manifest yet.
Unsealed == \A t \in Traces : t \in active \/ Status(t) \notin Terminal => manifest[t] = {}

LifeInv == scanned \/ (Flushed /\ Unsealed)

\* Both modules speak of the same outcomes and events.
LEMMA LifeData ==
    ASSUME NEW t
    PROVE  /\ Life(t)!Outcomes = Outcomes /\ Life(t)!TerminalEvents = TerminalEvents
           /\ Life(t)!NotTakenOver = Terminal /\ Life(t)!None = "none"
           /\ \A o \in Outcomes : Life(t)!EventOf(o) = EventOf(o)
  BY DEF Life!Outcomes, Outcomes, Life!TerminalEvents, TerminalEvents, Life!NotTakenOver,
     Terminal, Life!None, Life!EventOf, EventOf

LEMMA VerdictEvents ==
    /\ Terminal \subseteq Outcomes
    /\ \A s \in Terminal : EventOf(s) \in TerminalEvents /\ EventOf(s) # "none"
  BY DEF Terminal, Outcomes, EventOf, TerminalEvents

\* Quiet steps leave index and manifests alone, and move lines only towards the disk.
Moving ==
    /\ manifest' = manifest
    /\ pending' \cup batch' \subseteq pending \cup batch
    /\ disk \subseteq disk' /\ disk' \subseteq disk \cup batch

LEMMA QuietMoves ==
    ASSUME Quiet
    PROVE  Moving
<1>1. ASSUME NEW r \in Streams,
             \/ Register(r) \/ Assemble(r) \/ LeaveSetup(r) \/ Delegate(r) \/ ModelCall(r)
             \/ Complete(r) \/ Interrupt(r) \/ Fail(r) \/ Cancelled(r)
      PROVE  Moving
  BY <1>1 DEF Register, Assemble, LeaveSetup, Delegate, ModelCall, Complete, Interrupt, Fail,
     Cancelled, runIdle, bufVars, fileVars, Moving
<1>2. ASSUME NEW r \in Streams, LeaveAwaiting(r) \/ Close(r) \/ EventRefused(r)
      PROVE  Moving
  BY <1>2 DEF LeaveAwaiting, Close, EventRefused, Drops, bufVars, fileVars, Moving
<1>3. CASE SettleStep \/ StepRefused \/ Granted \/ ScanRefused \/ UNCHANGED vars
  BY <1>3 DEF SettleStep, StepRefused, Granted, ScanRefused, vars, bufVars, fileVars, Moving
<1>4. ASSUME NEW t \in Traces, Stop(t) \/ ScanFind(t) PROVE Moving
  BY <1>4 DEF Stop, ScanFind, bufVars, fileVars, Moving
<1>5. CASE DrainTake \/ DrainWrite
  BY <1>5 DEF DrainTake, DrainWrite, fileVars, Moving
<1> QED
  BY <1>1, <1>2, <1>3, <1>4, <1>5 DEF Quiet

LEMMA FlushedStep ==
    ASSUME TypeOK, Script, Log, Flushed, [Next]_vars, ~scanned'
    PROVE  Flushed'
<1>0. Still
  BY DEF Log
<1>1. CASE Quiet
  BY <1>1, QuietMoves DEF Moving, Flushed
<1>2. ASSUME NEW r \in Streams, OpenNew(r) \/ AgentEvent(r) PROVE Flushed'
  <2>1. PICK t : Emit(t, "event", r) /\ batch' = batch
    BY <1>2 DEF OpenNew, CreateRun, openIdle, AgentEvent
  <2>2. Line(t, seq[t] + 1, "event", r).kind \notin Terminal
    BY DEF Line, Terminal
  <2> QED
    BY <2>1, <2>2 DEF Emit, Flushed
<1>3. ASSUME NEW r \in Streams, NEW t \in Traces, Resume(r, t) PROVE Flushed'
  BY <1>3 DEF Resume, openIdle, Flushed
<1>4. CASE AppendStep \/ AwaitStep
  BY <1>4 DEF AppendStep, AwaitStep, AppendAndFlush, Flushed
<1>5. CASE StoreStep \/ SealStep
  BY <1>5 DEF StoreStep, SealStep, bufVars, Flushed
<1>6. CASE Crash
  BY <1>6 DEF Crash, Flushed
<1> QED
  BY <1>0, <1>1, <1>2, <1>3, <1>4, <1>5, <1>6, Early

LEMMA UnsealedStep ==
    ASSUME TypeOK, Script, Log, Unsealed, [Next]_vars, ~scanned'
    PROVE  Unsealed'
<1>0. Still
  BY DEF Log
<1>1. CASE Quiet
  BY <1>1, QuietMoves, QuietAside DEF Moving, Aside, Unsealed, Status
<1>2. ASSUME NEW r \in Streams, OpenNew(r) PROVE Unsealed'
  <2>1. PICK t \in Traces : /\ Status(t) = "absent" /\ active' = active \cup {t}
                            /\ index' = Put(index, t, "running", 0) /\ manifest' = manifest
    BY <1>2 DEF OpenNew, CreateRun, openIdle
  <2>2. index \in SUBSET Entries /\ Functional(index) /\ "running" \in Statuses
    BY DEF TypeOK, FileTypes, Log, Statuses
  <2>3. \A u \in Traces \ {t} : Status(u)' = Status(u)
    BY <2>1, <2>2, PutStatus DEF Status
  <2> QED
    BY <2>1, <2>3 DEF Unsealed, Terminal
<1>3. ASSUME NEW r \in Streams, AgentEvent(r) PROVE Unsealed'
  BY <1>3 DEF AgentEvent, fileVars, Unsealed, Status
<1>4. ASSUME NEW r \in Streams, NEW t \in Traces, Resume(r, t) PROVE Unsealed'
  <2>1. t \in active /\ Status(t) # "absent"
    BY <1>4, ResumableActive DEF Resume
  <2>2. active' = active /\ manifest' = manifest /\ index' = Restatus(t, "running")
    BY <1>4, <2>1 DEF Resume, openIdle
  <2>3. \A u \in Traces \ {t} : Status(u)' = Status(u)
    BY <2>1, <2>2, RestatusStatus DEF Log, Status, Statuses, TypeOK, FileTypes, MemTypes
  <2> QED
    BY <2>1, <2>2, <2>3 DEF Unsealed
<1>5. CASE AppendStep
  BY <1>5 DEF AppendStep, Unsealed, Status
<1>6. CASE StoreStep
  <2>1. manifest' = manifest
    BY <1>6 DEF StoreStep
  <2> QED
    BY <1>6, <2>1, StoreIndex DEF Unsealed
<1>7. CASE SealStep
  <2>1. \A u \in Traces : Status(u)' = Status(u) /\ (u # mine => manifest'[u] = manifest[u])
    BY <1>7, SealIndex DEF Status, TypeOK, FileTypes
  <2> QED
    BY <1>7, <2>1, SealIndex DEF Unsealed
<1>8. CASE AwaitStep
  <2>1. manifest' = manifest
    BY <1>8 DEF AwaitStep
  <2> QED
    BY <1>8, <2>1, AwaitIndex DEF Unsealed
<1>9. CASE Crash
  BY <1>9 DEF Crash, Unsealed, Status
<1> QED
  BY <1>0, <1>1, <1>2, <1>3, <1>4, <1>5, <1>6, <1>7, <1>8, <1>9, Early

LEMMA LifeInvStep ==
    ASSUME TypeOK, Inv, LifeInv, [Next]_vars
    PROVE  LifeInv'
<1>1. Script /\ StreamInv
  BY DEF Inv, StreamInv, Links
<1>2. scanned => scanned'
  BY <1>1, StreamsStep
<1>3. CASE ~scanned'
  BY <1>1, <1>2, <1>3, FlushedStep, UnsealedStep DEF Inv, LifeInv
<1> QED
  BY <1>3 DEF LifeInv

\* What TraceLife sees of a trace stays when its verdict, manifest and entry do; waiting for input
\* is running.
Ongoing(t) == Status(t) \notin Terminal \cup {"absent"}
SameTrace(t) ==
    /\ WrittenEnds(t)' = WrittenEnds(t)
    /\ manifest'[t] = manifest[t]
    /\ Status(t)' = Status(t) \/ (Ongoing(t) /\ Ongoing(t)')

LEMMA SameLife ==
    ASSUME NEW t, SameTrace(t)
    PROVE  UNCHANGED Life(t)!lifeVars
<1>1. EventIn(WrittenEnds(t))' = EventIn(WrittenEnds(t))
  BY DEF SameTrace, EventIn
<1>2. EventIn({l \in WrittenEnds(t) : l.n \in manifest[t]})'
          = EventIn({l \in WrittenEnds(t) : l.n \in manifest[t]})
  BY DEF SameTrace, EventIn
<1>3. PhaseOf(t)' = PhaseOf(t)
  BY DEF SameTrace, Ongoing, PhaseOf
<1>4. (IF Status(t) \in Terminal \cup {"absent"} THEN Status(t) ELSE "running")'
          = IF Status(t) \in Terminal \cup {"absent"} THEN Status(t) ELSE "running"
  BY DEF SameTrace, Ongoing
<1> QED
  BY <1>1, <1>2, <1>3, <1>4 DEF Life!lifeVars

\* Lines that are no verdicts, and verdicts on other traces, do not show.
LEMMA SameEnds ==
    ASSUME NEW t, disk \subseteq disk',
           \A l \in disk' \ disk : l.trace # t \/ l.kind \notin Terminal
    PROVE  WrittenEnds(t)' = WrittenEnds(t)
  BY DEF WrittenEnds, LinesOf

LEMMA OpenLife ==
    ASSUME TypeOK, Log, Unsealed, NEW r \in Streams, OpenNew(r), NEW t \in Traces
    PROVE  SameTrace(t) \/ Life(t)!Open
<1>1. PICK u \in Traces : /\ Status(u) = "absent" /\ index' = Put(index, u, "running", 0)
                          /\ UNCHANGED <<disk, manifest>>
  BY DEF OpenNew, CreateRun, openIdle
<1>2. index \in SUBSET Entries /\ Functional(index) /\ "running" \in Statuses
  BY DEF TypeOK, FileTypes, Log, Statuses
<1>3. Status(u)' = "running" /\ \A v \in Traces \ {u} : Status(v)' = Status(v)
  BY <1>1, <1>2, PutStatus DEF Status
<1>4. WrittenEnds(t)' = WrittenEnds(t)
  BY <1>1, SameEnds
<1>5. CASE t # u
  BY <1>1, <1>3, <1>4, <1>5 DEF SameTrace
<1>6. CASE t = u
  <2>1. Status(t) = "absent" /\ Status(t)' = "running" /\ "running" \notin Terminal
    BY <1>1, <1>3, <1>6 DEF Terminal
  <2>2. PhaseOf(t)' = "recording"
    BY <2>1 DEF PhaseOf
  <2>3. /\ EventIn(WrittenEnds(t))' = EventIn(WrittenEnds(t))
        /\ EventIn({l \in WrittenEnds(t) : l.n \in manifest[t]})'
               = EventIn({l \in WrittenEnds(t) : l.n \in manifest[t]})
    BY <1>1, <1>4 DEF EventIn
  <2> QED
    BY <2>1, <2>2, <2>3 DEF Life!Open
<1> QED
  BY <1>5, <1>6

\* The verdict reaches the file.
LEMMA AppendLife ==
    ASSUME TypeOK, Script, Log, LifeInv, ~scanned, AppendStep, NEW t \in Traces
    PROVE  SameTrace(t) \/ Life(t)!LifeNext
<1> DEFINE line == Line(mine, seq[mine] + 1, loop.status, me)
<1>1. /\ Busy /\ Head(loop.todo) = "append" /\ mine \in active
      /\ disk' = disk \cup LinesOf(mine, pending) \cup {line}
      /\ UNCHANGED <<index, manifest>>
  BY DEF AppendStep, Doing, AppendAndFlush
<1>2. loop.status \in Terminal /\ ~AtEnd
  BY <1>1, Next1 DEF AtEnd
<1>3. line.trace = mine /\ line.kind = loop.status
  BY DEF Line
<1>4. \A l \in LinesOf(mine, pending) : l.trace = mine /\ l.kind \notin Terminal
  BY DEF LifeInv, Flushed, LinesOf
<1>5. Status(t)' = Status(t)
  BY <1>1 DEF Status
<1> HIDE DEF line
<1>6. CASE t # mine
  BY <1>1, <1>3, <1>4, <1>5, <1>6, SameEnds DEF SameTrace
<1>7. CASE t = mine
  <2>1. WrittenEnds(t) = {}
    BY <1>1, <1>2, <1>7 DEF Log, Ending, IsVerdict, WrittenEnds, LinesOf, Lines
  <2>2. WrittenEnds(t)' = {line}
    BY <1>1, <1>2, <1>3, <1>4, <1>7, <2>1 DEF WrittenEnds, LinesOf
  <2>3. EventIn(WrittenEnds(t)) = "none" /\ EventIn(WrittenEnds(t))' = EventOf(loop.status)
    BY <1>3, <2>1, <2>2 DEF EventIn
  <2>4. manifest[t] = {}
    BY <1>1, <1>7 DEF LifeInv, Unsealed
  <2>5. EventIn({l \in WrittenEnds(t) : l.n \in manifest[t]})'
            = EventIn({l \in WrittenEnds(t) : l.n \in manifest[t]})
    BY <1>1, <2>4 DEF EventIn
  <2>6. Status(t) # "absent"
    BY <1>1, <1>7 DEF Log, Fresh, Remembered
  <2>7. PhaseOf(t)' = PhaseOf(t)
    BY <1>1, <1>5 DEF PhaseOf
  <2>8. Life(t)!Judge(EventOf(loop.status))
    BY <1>5, <2>3, <2>5, <2>6, <2>7, LifeData DEF Life!Judge
  <2> QED
    BY <1>2, <2>8, LifeData, VerdictEvents DEF Life!LifeNext
<1> QED
  BY <1>6, <1>7

\* The index follows the verdict that is in the file.
LEMMA StoreLife ==
    ASSUME TypeOK, Script, Log, LifeInv, ~scanned, StoreStep, NEW t \in Traces
    PROVE  SameTrace(t) \/ Life(t)!LifeNext
<1>1. /\ AtEnd /\ mine \in active /\ loop.status \in Terminal /\ Status(mine) \notin Terminal
      /\ \A u \in Traces : Status(u)' = IF u = mine THEN loop.status ELSE Status(u)
      /\ UNCHANGED disk
  BY StoreIndex
<1>2. manifest' = manifest
  BY DEF StoreStep
<1>3. WrittenEnds(t)' = WrittenEnds(t)
  BY <1>1, SameEnds
<1>4. CASE t # mine
  BY <1>1, <1>2, <1>3, <1>4 DEF SameTrace
<1>5. CASE t = mine
  <2>1. PICK l \in disk : l.trace = t /\ l.kind = loop.status
    BY <1>1, <1>5 DEF Log, Hand
  <2>2. WrittenEnds(t) = {l}
    BY <1>1, <2>1 DEF Log, OneEnd, IsVerdict, WrittenEnds, LinesOf, Lines
  <2>3. EventIn(WrittenEnds(t)) = EventOf(loop.status)
    BY <2>1, <2>2 DEF EventIn
  <2>4. manifest[t] = {} /\ Status(t)' = loop.status
    BY <1>1, <1>5 DEF LifeInv, Unsealed
  <2>5. PhaseOf(t)' = "sealing"
    BY <1>1, <1>2, <2>4 DEF PhaseOf, Terminal
  <2>6. /\ EventIn(WrittenEnds(t))' = EventIn(WrittenEnds(t))
        /\ EventIn({k \in WrittenEnds(t) : k.n \in manifest[t]})'
               = EventIn({k \in WrittenEnds(t) : k.n \in manifest[t]})
    BY <1>2, <1>3 DEF EventIn
  <2>7. Status(t) \notin Terminal /\ "running" \notin Terminal
    BY <1>1, <1>5 DEF Terminal
  <2>8. Life(t)!Close(loop.status)
    BY <1>1, <2>3, <2>4, <2>5, <2>6, <2>7, LifeData, VerdictEvents DEF Life!Close
  <2> QED
    BY <1>1, <2>8, LifeData, VerdictEvents DEF Life!LifeNext
<1> QED
  BY <1>4, <1>5

\* The manifest names the verdict.
LEMMA SealLife ==
    ASSUME TypeOK, Script, Log, LifeInv, ~scanned, SealStep, NEW t \in Traces
    PROVE  SameTrace(t) \/ Life(t)!LifeNext
<1>1. /\ Head(loop.todo) = "seal" /\ AtEnd /\ mine \in active /\ Status(mine) \in Terminal
      /\ manifest' = [manifest EXCEPT ![mine] = Covered(mine)]
      /\ UNCHANGED <<index, disk>>
  BY SealIndex
<1>2. Status(t)' = Status(t)
  BY <1>1 DEF Status
<1>3. WrittenEnds(t)' = WrittenEnds(t)
  BY <1>1, SameEnds
<1>4. CASE t # mine
  BY <1>1, <1>2, <1>3, <1>4 DEF SameTrace, TypeOK, FileTypes
<1>5. CASE t = mine
  <2>1. PICK l \in disk : l.trace = t /\ l.kind = Status(t)
    BY <1>1, <1>5 DEF Log, Hand
  <2>2. manifest'[t] = Covered(t) /\ manifest[t] = {}
    BY <1>1, <1>5 DEF TypeOK, FileTypes, LifeInv, Unsealed
  <2>3. Covered(t) = Numbers(LinesOf(t, disk))
    BY <1>1, <1>5, <2>1 DEF Covered, LinesOf
  <2>4. manifest'[t] # {} /\ \A k \in WrittenEnds(t) : k.n \in manifest'[t]
    BY <2>1, <2>2, <2>3 DEF Numbers, LinesOf, WrittenEnds
  <2>5. {k \in WrittenEnds(t) : k.n \in manifest[t]}' = WrittenEnds(t)
    BY <1>3, <2>4
  <2>6. /\ EventIn({k \in WrittenEnds(t) : k.n \in manifest[t]})' = EventIn(WrittenEnds(t)')
        /\ EventIn(WrittenEnds(t)') = EventIn(WrittenEnds(t))
        /\ EventIn(WrittenEnds(t))' = EventIn(WrittenEnds(t)')
    <3>1. {k \in WrittenEnds(t) : k.n \in manifest[t]}' = WrittenEnds(t)'
      BY <1>3, <2>5
    <3>2. EventIn({k \in WrittenEnds(t) : k.n \in manifest[t]})' = EventIn(WrittenEnds(t)')
      BY <3>1, Zenon
    <3>3. EventIn(WrittenEnds(t)') = EventIn(WrittenEnds(t))
      BY <1>3, Zenon
    <3>4. EventIn(WrittenEnds(t))' = EventIn(WrittenEnds(t)')
      BY Zenon
    <3> QED
      BY <3>2, <3>3, <3>4
  <2>7. PhaseOf(t) = "sealing" /\ PhaseOf(t)' = "sealed"
    BY <1>1, <1>2, <1>5, <2>2, <2>4 DEF PhaseOf, Terminal
  <2>8. Life(t)!Seal
    BY <1>2, <2>6, <2>7 DEF Life!Seal
  <2> QED
    BY <2>8 DEF Life!LifeNext
<1> QED
  BY <1>4, <1>5

\* The steps that show in no trace's life.
LEMMA OtherLife ==
    ASSUME TypeOK, Script, Log, LifeInv, ~scanned, NEW t \in Traces,
           \/ Quiet \/ AwaitStep \/ Crash \/ Scan
           \/ \E r \in Streams : AgentEvent(r) \/ \E u \in Traces : Resume(r, u)
    PROVE  SameTrace(t)
<1>1. CASE Quiet
  <2>1. WrittenEnds(t)' = WrittenEnds(t)
    BY <1>1, QuietMoves, SameEnds DEF Moving, LifeInv, Flushed
  <2> QED
    BY <1>1, <2>1, QuietMoves, QuietAside DEF Moving, Aside, SameTrace, Status
<1>2. CASE AwaitStep
  <2>1. /\ manifest' = manifest
        /\ disk' = disk \cup LinesOf(mine, pending) \cup {Line(mine, seq[mine] + 1, "awaiting", me)}
    BY <1>2 DEF AwaitStep, AppendAndFlush
  <2>2. \A l \in disk' \ disk : l.kind \notin Terminal
    BY <2>1 DEF LifeInv, Flushed, LinesOf, Line, Terminal
  <2>3. WrittenEnds(t)' = WrittenEnds(t)
    BY <2>1, <2>2, SameEnds
  <2>4. Status(t)' = Status(t) \/ (Ongoing(t) /\ Ongoing(t)')
    BY <1>2, AwaitIndex DEF Ongoing, Terminal
  <2> QED
    BY <2>1, <2>3, <2>4 DEF SameTrace
<1>3. CASE Crash
  <2>1. /\ UNCHANGED <<index, manifest>>
        /\ disk \subseteq disk' /\ disk' \subseteq disk \cup batch
    BY <1>3 DEF Crash
  <2>2. WrittenEnds(t)' = WrittenEnds(t)
    BY <2>1, SameEnds DEF LifeInv, Flushed
  <2> QED
    BY <2>1, <2>2 DEF SameTrace, Status
<1>4. CASE Scan
  <2>1. UNCHANGED <<disk, index, manifest>>
    BY <1>4 DEF Scan, ScanFind, ScanCancel, ScanLoad, ScanStore, ScanSeal, ScanRefused, Log,
       Still, fileVars
  <2> QED
    BY <2>1, SameEnds DEF SameTrace, Status
<1>5. ASSUME NEW r \in Streams, AgentEvent(r) PROVE SameTrace(t)
  BY <1>5, SameEnds DEF AgentEvent, fileVars, SameTrace, Status
<1>6. ASSUME NEW r \in Streams, NEW u \in Traces, Resume(r, u) PROVE SameTrace(t)
  <2>1. Status(u) \notin Terminal \cup {"absent"}
    BY <1>6, ResumableActive DEF Resume, Log, Ending, AtEnd
  <2>2. index' = Restatus(u, "running") /\ UNCHANGED <<disk, manifest>>
    BY <1>6 DEF Resume, openIdle
  <2>3. /\ Status(u)' = "running"
        /\ \A v \in Traces \ {u} : Status(v)' = Status(v)
    BY <2>1, <2>2, RestatusStatus DEF Log, Status, Statuses, TypeOK, FileTypes, MemTypes
  <2>4. Status(t)' = Status(t) \/ (Ongoing(t) /\ Ongoing(t)')
    BY <2>1, <2>3 DEF Ongoing, Terminal
  <2> QED
    BY <2>2, <2>4, SameEnds DEF SameTrace
<1> QED
  BY <1>1, <1>2, <1>3, <1>4, <1>5, <1>6

LEMMA LifeStep ==
    ASSUME TypeOK, Inv, LifeInv, [Next]_vars, ~scanned, NEW t \in Traces
    PROVE  UNCHANGED Life(t)!lifeVars \/ Life(t)!LifeNext
<1>0. Script /\ Log /\ Unsealed
  BY DEF Inv, LifeInv
<1>1. CASE \E r \in Streams : OpenNew(r)
  BY <1>0, <1>1, OpenLife, SameLife DEF Life!LifeNext
<1>2. CASE AppendStep \/ StoreStep \/ SealStep
  BY <1>0, <1>2, AppendLife, StoreLife, SealLife, SameLife
<1>3. CASE \/ Quiet \/ AwaitStep \/ Crash \/ Scan
           \/ \E r \in Streams : AgentEvent(r) \/ \E u \in Traces : Resume(r, u)
  BY <1>0, <1>3, OtherLife, SameLife
<1> QED
  BY <1>1, <1>2, <1>3 DEF Next, Stream, LoopStep, Quiet

LEMMA LifeBegins ==
    ASSUME Init, NEW t \in Traces
    PROVE  Life(t)!LifeInit
<1>1. Status(t) = "absent" /\ WrittenEnds(t) = {}
  BY DEF Init, Status, StatusIn, WrittenEnds, LinesOf
<1>2. EventIn({}) = "none" /\ {l \in WrittenEnds(t) : l.n \in manifest[t]} = {}
  BY <1>1 DEF EventIn
<1> QED
  BY <1>1, <1>2, LifeData DEF PhaseOf, Life!LifeInit

\* Every trace of a workspace lives as TraceLife says, until the scanner's thread cancels one:
\* one verdict, then the index, then a manifest that names it (create_run, _finalize_run).
THEOREM EveryTraceLives == Spec => TracesLive
<1>1. Init => LifeInv /\ \A t \in Traces : Life(t)!LifeInit
  BY LifeBegins DEF Init, LifeInv, Flushed, Unsealed
<1>2. TypeOK /\ Inv /\ LifeInv /\ [Next]_vars => LifeInv'
  BY LifeInvStep
<1>3. TypeOK /\ Inv /\ LifeInv /\ [Next]_vars =>
          [fileVars' # fileVars /\ ~scanned =>
              \A t \in Traces : UNCHANGED Life(t)!lifeVars \/ Life(t)!LifeNext]_vars
  BY LifeStep
<1> QED
  BY <1>1, <1>2, <1>3, TypeSafety, Invariance, PTL DEF Spec, TracesLive

=============================================================================
