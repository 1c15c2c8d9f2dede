------------------------- MODULE ManualTest_proofs -------------------------
(***************************************************************************)
(* Proofs about ManualTest for every set of stop requests and ingestions,  *)
(* every bound on 404s, and every choice of statuses and verdicts.         *)
(*                                                                         *)
(* A thread acts on what it read long ago, so the invariant speaks of the  *)
(* copies the threads hold: whatever the executor showed or handed out, in *)
(* a thread's hands or stored, is still backed by the trace (Claim), since *)
(* a verdict is never replaced and a stop request never withdrawn.         *)
(***************************************************************************)
EXTENDS ManualTest, TLAPS

\* What an index status says of the run that has it, and goes on saying.
Claim(s) ==
    /\ s \in Outcomes => verdict # None
    /\ s = "completed" => verdict = "run_end"
    /\ s = "cancelled" => asked

\* The trace and the task's status are backed by the verdict and the stop request.
TraceOK ==
    /\ Claim(state)
    /\ verdict # None => state # "absent"
    /\ verdict = "run_cancelled" => asked
    /\ shown \in CancelStatuses => asked
    /\ shown = "done" => verdict = "run_end" /\ traced

\* What GET /internal/traces/{trace_id} can return.
Copies == [verdict : TerminalEvents \cup {None}, hint : Outcomes \cup {"absent", "running"}]

\* So is every copy of the trace, stored or in the hands of a thread.
Backed(c) == c.verdict \in {None, verdict} /\ Claim(c.hint)

CopyOK ==
    /\ runs.verdict \in {None, verdict} /\ Claim(runs.status)
    /\ Backed(scanned)
    /\ \A i \in Ingests : Backed(fetched[i])
    /\ \A i \in Ingests :
          ing[i] = "mark" => fetched[i].hint \in {"completed", "failed", "cancelled"}

\* So is the answer that the poll thread acts on.
SeenOK ==
    /\ seen.status = "done" => verdict = "run_end" /\ seen.trace
    /\ seen.status \in {"cancelled", "cancel_timeout"} => asked
    /\ poll = "mark" => seen.status \in PolledToEnd

\* The executor was asked to stop by a request that was accepted.
Accepted == \E r \in StopReqs : stop[r] \notin {"idle", "refused"}
AskOK == asked => Accepted

\* The strengthening of DoneIsEarned, CancelIsWanted and CopyNotAhead that every step keeps.
Inv ==
    /\ TypeOK /\ TraceOK /\ CopyOK /\ SeenOK /\ AskOK
    /\ DoneIsEarned /\ CancelIsWanted

-----------------------------------------------------------------------------
(* Facts about the data *)

\* The statuses are different strings, and so are the verdicts.
LEMMA Vocabulary ==
    /\ None \notin TerminalEvents
    /\ \A o \in Outcomes : EventOf(o) \in TerminalEvents
    /\ \A o \in Outcomes : EventOf(o) = "run_end" => o = "completed"
    /\ EventOf("completed") = "run_end" /\ EventOf("failed") = "run_error"
    /\ NotTakenOver \subseteq Outcomes
  BY DEF None, TerminalEvents, Outcomes, EventOf, NotTakenOver

\* A row that is there has its columns.
LEMMA Columns ==
    ASSUME row \in Rows, Exists
    PROVE  row \in [status : TestTerminal \cup {"pending", "running"}, task : BOOLEAN,
                    trace : BOOLEAN]
  BY DEF Rows, Absent, Exists

\* An UPDATE of the row changes what it is told to, or nothing if the row is gone.
LEMMA Marking ==
    ASSUME row \in Rows, NEW s \in TestTerminal \cup {"pending", "running"},
           NEW t \in BOOLEAN, MarkTraced(s, t)
    PROVE  /\ row' \in Rows
           /\ row.trace => row'.trace
           /\ row' = row \/ (row'.status = s /\ (t => row'.trace))
<1> DEFINE link == row.trace \/ t
<1>1. link \in BOOLEAN
  OBVIOUS
<1>2. row' = IF Exists THEN [row EXCEPT !.status = s, !.trace = link] ELSE row
  BY DEF MarkTraced
<1> HIDE DEF link
<1>3. row' \in Rows /\ (row' = row \/ (row'.status = s /\ row'.trace = link))
  <2>1. CASE Exists
    <3>1. row' = [row EXCEPT !.status = s, !.trace = link]
      BY <1>2, <2>1
    <3> QED
      BY <1>1, <2>1, <3>1, Columns DEF Rows
  <2>2. CASE ~Exists
    BY <1>2, <2>2
  <2> QED
    BY <2>1, <2>2
<1> QED
  BY <1>3 DEF link

\* set_trace_id leaves the status alone and never unlinks a trace.
LEMMA Linking ==
    ASSUME row \in Rows, NEW t \in BOOLEAN, SetTrace(t)
    PROVE  row' \in Rows /\ row'.status = row.status /\ (row.trace => row'.trace)
<1>1. CASE Exists
  <2>1. row.status \in TestTerminal \cup {"pending", "running"}
    BY <1>1 DEF Rows, Absent, Exists
  <2> QED
    BY <2>1, Marking DEF SetTrace
<1>2. CASE ~Exists
  BY <1>2 DEF SetTrace, MarkTraced
<1> QED
  BY <1>1, <1>2

\* What a copy of the trace that is backed makes of the row in runs is backed too.
LEMMA Storing ==
    ASSUME TypeOK, TraceOK, CopyOK,
           NEW c \in [verdict : TerminalEvents \cup {None}, hint : Outcomes \cup {"absent", "running"}],
           Backed(c), Stored(c)
    PROVE  /\ runs' \in [status : Outcomes \cup {"absent", "running"},
                         verdict : TerminalEvents \cup {None}]
           /\ runs'.verdict \in {None, verdict}
           /\ Claim(runs'.status)
<1> DEFINE v == IF runs.verdict # None THEN runs.verdict ELSE c.verdict
<1>1. v \in {None, verdict} /\ v \in TerminalEvents \cup {None}
  BY DEF TypeOK, CopyOK, Backed
<1>2. runs' = [status |-> StatusOf(v, c.hint), verdict |-> v]
  BY DEF Stored
<1>3. StatusOf(v, c.hint) \in Outcomes \cup {"absent", "running"}
  BY DEF StatusOf, Outcomes
<1>4. Claim(StatusOf(v, c.hint))
  <2>1. CASE v = "run_end"
    BY <1>1, <2>1 DEF StatusOf, Claim, None, Outcomes
  <2>2. CASE v = "run_cancelled"
    BY <1>1, <2>2 DEF StatusOf, Claim, None, Outcomes, TraceOK
  <2>3. CASE v = "run_capture_failed"
    BY <1>1, <2>3 DEF StatusOf, Claim, None, Outcomes
  <2>4. CASE v \notin {"run_end", "run_cancelled", "run_capture_failed"}
    BY <2>4 DEF StatusOf, Backed
  <2> QED
    BY <2>1, <2>2, <2>3, <2>4
<1> QED
  BY <1>1, <1>2, <1>3, <1>4

-----------------------------------------------------------------------------
(* The executor's side: only its own steps and StopPost change what TaskView shows *)

\* No step does to the trace or the task's status what TaskView does not.
LEMMA ViewSteps == ASSUME [TestNext]_testVars PROVE [ViewNext]_viewVars
<1> USE DEF viewVars
<1>1. ASSUME ExecNext PROVE [ViewNext]_viewVars
  BY <1>1, StatusesAssumption
     DEF ExecNext, ExecTrace, ExecShowTrace, ExecShow, ExecRestarts, ViewNext
<1>2. ASSUME StartNext PROVE UNCHANGED viewVars
  BY <1>2 DEF StartNext, StartPost, StartPostFails, StartFails, StartMark, execVars
<1>3. ASSUME PollNext PROVE UNCHANGED viewVars
  BY <1>3 DEF PollNext, PollRead, PollGetFails, PollNotFound, PollGivesUp, PollSees, PollMark,
              pollIdle, execVars
<1>4. ASSUME NoticeNext PROVE UNCHANGED viewVars
  BY <1>4 DEF NoticeNext, NoticeLook, NoticeMark, noticeIdle, execVars
<1>5. ASSUME ScanNext PROVE UNCHANGED viewVars
  BY <1>5 DEF ScanNext, ScanFetch, ScanStore, scanIdle, execVars
<1>6. ASSUME DelNext PROVE UNCHANGED viewVars
  BY <1>6 DEF DelNext, DelRead, DelRuns, DelRow, delIdle, execVars
<1>7. ASSUME NEW r \in StopReqs, StopNext(r) PROVE [ViewNext]_viewVars
  BY <1>7 DEF StopNext, StopRead, StopPost, StopMark, ViewNext
<1>8. ASSUME NEW i \in Ingests, IngestFetch(i) \/ IngestWrites(i) PROVE UNCHANGED viewVars
  BY <1>8 DEF IngestFetch, IngestWrites, IngestRefetch, IngestOverwrite, IngestStore,
              IngestLook, IngestMark, fetchIdle, ingIdle
<1>9. CASE UNCHANGED testVars
  BY <1>9 DEF testVars, execVars
<1> QED
  BY <1>1, <1>2, <1>3, <1>4, <1>5, <1>6, <1>7, <1>8, <1>9 DEF TestNext

\* What TaskView does keeps its values typed and backed, keeps a verdict and a request.
LEMMA ViewKeeps ==
    ASSUME ViewTypeOK, TraceOK, [ViewNext]_viewVars
    PROVE  /\ ViewTypeOK' /\ TraceOK'
           /\ verdict # None => verdict' = verdict
           /\ asked => asked'
<1> USE DEF ViewTypeOK, TraceOK, Claim, viewVars, lifeVars
<1>1. CASE Ask
  BY <1>1 DEF Ask
<1>2. CASE TraceStep
  <2>1. CASE Open
    BY <1>2, <2>1 DEF TraceStep, Open, Outcomes
  <2>2. ASSUME NEW v \in TerminalEvents, Judge(v)
        PROVE  /\ ViewTypeOK' /\ TraceOK'
               /\ verdict # None => verdict' = verdict
               /\ asked => asked'
    BY <1>2, <2>2, Vocabulary DEF TraceStep, Judge, CancelStatuses, Outcomes
  <2>3. ASSUME NEW s \in Outcomes, Close(s)
        PROVE  /\ ViewTypeOK' /\ TraceOK'
               /\ verdict # None => verdict' = verdict
               /\ asked => asked'
    BY <1>2, <2>3, Vocabulary DEF TraceStep, Close, Outcomes
  <2>4. CASE Seal
    BY <1>2, <2>4 DEF TraceStep, Seal
  <2> QED
    BY <1>2, <2>1, <2>2, <2>3, <2>4 DEF TraceStep, LifeNext
<1>3. CASE ShowTrace
  BY <1>3 DEF ShowTrace
<1>4. ASSUME NEW s \in ShownStatuses, Show(s)
      PROVE  /\ ViewTypeOK' /\ TraceOK'
             /\ verdict # None => verdict' = verdict
             /\ asked => asked'
  BY <1>4 DEF Show, ShownStatuses, CancelStatuses
<1>5. CASE UNCHANGED viewVars
  BY <1>5
<1> QED
  BY <1>1, <1>2, <1>3, <1>4, <1>5 DEF ViewNext

-----------------------------------------------------------------------------
(* Who writes what *)

LEMMA RowFrame ==
    ASSUME [TestNext]_testVars
    PROVE  \/ UNCHANGED row
           \/ StartFails \/ StartMark \/ PollGivesUp \/ PollSees \/ PollMark \/ NoticeMark \/ DelRow
           \/ \E r \in StopReqs : StopMark(r)
           \/ \E i \in Ingests : IngestMark(i)
<1>1. CASE ExecNext
  BY <1>1 DEF ExecNext, ExecTrace, ExecShowTrace, ExecShow, ExecRestarts
<1>2. CASE StartPost \/ StartPostFails
  BY <1>2 DEF StartPost, StartPostFails
<1>3. CASE PollRead \/ PollGetFails \/ PollNotFound
  BY <1>3 DEF PollRead, PollGetFails, PollNotFound
<1>4. ASSUME NEW r \in StopReqs, StopRead(r) \/ StopPost(r) PROVE UNCHANGED row
  BY <1>4 DEF StopRead, StopPost
<1>5. CASE NoticeLook
  BY <1>5 DEF NoticeLook
<1>6. ASSUME NEW i \in Ingests,
              IngestFetch(i) \/ IngestRefetch(i) \/ IngestOverwrite(i) \/ IngestStore(i)
                \/ IngestLook(i)
      PROVE  UNCHANGED row
  BY <1>6 DEF IngestFetch, IngestRefetch, IngestOverwrite, IngestStore, IngestLook
<1>7. CASE ScanNext
  BY <1>7 DEF ScanNext, ScanFetch, ScanStore, scanIdle
<1>8. CASE DelRead \/ DelRuns
  BY <1>8 DEF DelRead, DelRuns
<1>9. CASE UNCHANGED testVars
  BY <1>9 DEF testVars
<1> QED
  BY <1>1, <1>2, <1>3, <1>4, <1>5, <1>6, <1>7, <1>8, <1>9
     DEF TestNext, StartNext, PollNext, StopNext, NoticeNext, IngestWrites, DelNext

LEMMA RunsFrame ==
    ASSUME [TestNext]_testVars
    PROVE  \/ UNCHANGED runs
           \/ ScanStore \/ DelRuns
           \/ \E i \in Ingests : IngestOverwrite(i) \/ IngestStore(i)
<1>1. CASE ExecNext
  BY <1>1 DEF ExecNext, ExecTrace, ExecShowTrace, ExecShow, ExecRestarts
<1>2. CASE StartNext
  BY <1>2 DEF StartNext, StartPost, StartPostFails, StartFails, StartMark
<1>3. CASE PollNext
  BY <1>3 DEF PollNext, PollRead, PollGetFails, PollNotFound, PollGivesUp, PollSees, PollMark,
              pollIdle
<1>4. ASSUME NEW r \in StopReqs, StopNext(r) PROVE UNCHANGED runs
  BY <1>4 DEF StopNext, StopRead, StopPost, StopMark, stopIdle
<1>5. CASE NoticeNext
  BY <1>5 DEF NoticeNext, NoticeLook, NoticeMark, noticeIdle
<1>6. ASSUME NEW i \in Ingests,
              IngestFetch(i) \/ IngestRefetch(i) \/ IngestLook(i) \/ IngestMark(i)
      PROVE  UNCHANGED runs
  BY <1>6 DEF IngestFetch, IngestRefetch, IngestLook, IngestMark
<1>7. CASE ScanFetch
  BY <1>7 DEF ScanFetch
<1>8. CASE DelRead \/ DelRow
  BY <1>8 DEF DelRead, DelRow
<1>9. CASE UNCHANGED testVars
  BY <1>9 DEF testVars
<1> QED
  BY <1>1, <1>2, <1>3, <1>4, <1>5, <1>6, <1>7, <1>8, <1>9
     DEF TestNext, ScanNext, IngestWrites, DelNext

\* The threads' own variables, which StartMark alone touches from outside (poll).
LEMMA ThreadFrame ==
    ASSUME [TestNext]_testVars
    PROVE  /\ UNCHANGED <<poll, seen>> \/ StartMark \/ PollNext
           /\ UNCHANGED stop \/ \E r \in StopReqs : StopNext(r)
           /\ UNCHANGED <<ing, fetched>>
                \/ \E i \in Ingests : IngestFetch(i) \/ IngestWrites(i)
           /\ UNCHANGED scanned \/ ScanNext
<1> USE DEF pollVars, stopVars, ingVars, scanVars
<1>1. CASE ExecNext
  BY <1>1 DEF ExecNext, ExecTrace, ExecShowTrace, ExecShow, ExecRestarts, evoVars
<1>2. CASE StartNext
  BY <1>2 DEF StartNext, StartPost, StartPostFails, StartFails, StartMark
<1>3. CASE PollNext
  BY <1>3 DEF PollNext, PollRead, PollGetFails, PollNotFound, PollGivesUp, PollSees, PollMark,
              pollIdle
<1>4. ASSUME NEW r \in StopReqs, StopNext(r) PROVE UNCHANGED <<pollVars, ingVars, scanVars>>
  BY <1>4 DEF StopNext, StopRead, StopPost, StopMark, stopIdle
<1>5. CASE NoticeNext
  BY <1>5 DEF NoticeNext, NoticeLook, NoticeMark, noticeIdle
<1>6. ASSUME NEW i \in Ingests, IngestFetch(i) \/ IngestWrites(i)
      PROVE  UNCHANGED <<pollVars, stopVars, scanVars>>
  BY <1>6 DEF IngestFetch, IngestWrites, IngestRefetch, IngestOverwrite, IngestStore,
              IngestLook, IngestMark, fetchIdle, ingIdle
<1>7. CASE ScanNext
  BY <1>7 DEF ScanNext, ScanFetch, ScanStore, scanIdle
<1>8. CASE DelNext
  BY <1>8 DEF DelNext, DelRead, DelRuns, DelRow, delIdle
<1>9. CASE UNCHANGED testVars
  BY <1>9 DEF testVars
<1> QED
  BY <1>1, <1>2, <1>3, <1>4, <1>5, <1>6, <1>7, <1>8, <1>9 DEF TestNext

-----------------------------------------------------------------------------
(* Types *)

\* The values that stand for nothing are typed.
LEMMA Blanks ==
    /\ Absent \in Rows /\ Nothing \in [status : ShownStatuses \cup {"running"}, trace : BOOLEAN]
    /\ NoCopy \in [verdict : TerminalEvents \cup {None}, hint : Outcomes \cup {"absent", "running"}]
    /\ NoRun \in [status : Outcomes \cup {"absent", "running"}, verdict : TerminalEvents \cup {None}]
    /\ ViewTypeOK => Copy \in [verdict : TerminalEvents \cup {None},
                               hint : Outcomes \cup {"absent", "running"}]
  BY DEF Absent, Rows, Nothing, NoCopy, NoRun, Copy, ViewTypeOK

\* A test that has been created is typed.
THEOREM TypeInit == Init => TypeOK
<1> SUFFICES ASSUME Init PROVE TypeOK
  OBVIOUS
<1>1. ViewTypeOK
  BY DEF Init, ViewInit, LifeInit, ViewTypeOK, None
<1>2. row \in Rows
  BY DEF Init, Rows
<1>3. /\ runs \in [status : Outcomes \cup {"absent", "running"}, verdict : TerminalEvents \cup {None}]
      /\ pollRow \in Rows
      /\ seen \in [status : ShownStatuses \cup {"running"}, trace : BOOLEAN]
      /\ fetched \in [Ingests -> [verdict : TerminalEvents \cup {None},
                                  hint : Outcomes \cup {"absent", "running"}]]
      /\ scanned \in [verdict : TerminalEvents \cup {None}, hint : Outcomes \cup {"absent", "running"}]
  BY Blanks DEF Init
<1>4. misses \in 0 .. MaxNotFound
  BY MaxNotFoundAssumption DEF Init
<1> QED
  BY <1>1, <1>2, <1>3, <1>4 DEF Init, TypeOK

\* The row keeps its type, whatever it is marked.
LEMMA RowTypes == ASSUME Inv, [TestNext]_testVars PROVE row' \in Rows
<1>1. row \in Rows /\ seen.trace \in BOOLEAN
  BY DEF Inv, TypeOK
<1> DEFINE Word == TestTerminal \cup {"pending", "running"}
<1>2. ASSUME NEW s \in Word, NEW t \in BOOLEAN, MarkTraced(s, t) PROVE row' \in Rows
  BY <1>1, <1>2, Marking
<1>3. ASSUME NEW s \in Word, Mark(s) PROVE row' \in Rows
  BY <1>2, <1>3 DEF Mark
<1>4. {"done", "failed", "cancelled", "pending", "running"} = Word
  BY DEF TestTerminal
<1> HIDE DEF Word
<1>5. CASE UNCHANGED row
  BY <1>1, <1>5
<1>6. CASE StartFails
  BY <1>3, <1>4, <1>6 DEF StartFails
<1>7. CASE StartMark
  BY <1>1, <1>7, Columns DEF StartMark, Rows
<1>8. CASE PollGivesUp
  BY <1>3, <1>4, <1>8 DEF PollGivesUp
<1>9. CASE PollSees
  <2>1. (traced /\ shown \in {"running", "done", "cancelled", "cancel_timeout"}) \in BOOLEAN
    OBVIOUS
  <2> QED
    BY <1>1, <1>9, <2>1, Linking DEF PollSees
<1>10. CASE PollMark
  <2>1. CASE row' = IF Exists THEN [row EXCEPT !.status = "done", !.trace = seen.trace] ELSE row
    BY <1>1, <2>1, Columns DEF Rows, TestTerminal
  <2>2. CASE MarkTraced("failed", seen.trace)
    BY <1>1, <1>2, <1>4, <2>2
  <2>3. CASE MarkTraced("cancelled", seen.trace)
    BY <1>1, <1>2, <1>4, <2>3
  <2> QED
    BY <1>5, <1>10, <2>1, <2>2, <2>3 DEF PollMark
<1>11. ASSUME NEW r \in StopReqs, StopMark(r) PROVE row' \in Rows
  <2>1. stopTrace[r] \in BOOLEAN
    BY DEF Inv, TypeOK
  <2> QED
    BY <1>2, <1>4, <1>11, <2>1 DEF StopMark
<1>12. CASE NoticeMark
  BY <1>3, <1>4, <1>12 DEF NoticeMark
<1>13. ASSUME NEW i \in Ingests, IngestMark(i) PROVE row' \in Rows
  <2>1. fetched[i].hint \in {"completed", "failed", "cancelled"}
    BY <1>13 DEF Inv, CopyOK, IngestMark
  <2> QED
    BY <1>2, <1>4, <1>13, <2>1 DEF IngestMark
<1>14. CASE DelRow
  BY <1>14, Blanks DEF DelRow
<1> QED
  BY <1>5, <1>6, <1>7, <1>8, <1>9, <1>10, <1>11, <1>12, <1>13, <1>14, RowFrame

\* The variables of the executor's side and of the threads, but the row, keep their types.
LEMMA ThreadTypes ==
    ASSUME Inv, [TestNext]_testVars, ViewTypeOK', row' \in Rows
    PROVE  TypeOK'
<1> USE DEF TypeOK, execVars, viewVars, lifeVars, pollVars, stopVars, ingVars, scanVars, evoVars
<1>0. TypeOK
  BY DEF Inv
<1>1. CASE ExecNext
  <2>1. UNCHANGED <<runs, start, pollVars, stopVars, ingVars, scanVars, del>>
    BY <1>1 DEF ExecNext, ExecTrace, ExecShowTrace, ExecShow, ExecRestarts
  <2>2. <<started, lost, listed>>' \in BOOLEAN \X BOOLEAN \X BOOLEAN
        /\ notice' \in {"none", "sent", "mark", "end"}
    BY <1>0, <1>1 DEF ExecNext, ExecTrace, ExecShowTrace, ExecShow, ExecRestarts
  <2> QED
    BY <1>0, <2>1, <2>2
<1>2. CASE StartNext
  <2>1. CASE StartPost \/ StartPostFails
    <3>1. started' \in BOOLEAN /\ start' \in {"post", "mark", "fail", "end"}
          /\ UNCHANGED <<row, runs, viewVars, lost, listed, pollVars, stopVars, notice, ingVars,
                         scanVars, del>>
      BY <2>1 DEF StartPost, StartPostFails
    <3>2. <<started, lost, listed>>' \in BOOLEAN \X BOOLEAN \X BOOLEAN
      BY <1>0, <3>1
    <3> QED
      BY <1>0, <3>1, <3>2
  <2>2. CASE StartFails
    BY <1>0, <2>2 DEF StartFails
  <2>3. CASE StartMark
    BY <1>0, <2>3 DEF StartMark
  <2> QED
    BY <1>2, <2>1, <2>2, <2>3 DEF StartNext
<1>3. CASE PollNext
  <2>1. UNCHANGED pollIdle
    BY <1>3 DEF PollNext, PollRead, PollGetFails, PollNotFound, PollGivesUp, PollSees, PollMark
  <2>2. /\ poll' \in {"none", "sleep", "get", "giveUp", "mark", "end"}
        /\ pollRow' \in Rows
        /\ misses' \in 0 .. MaxNotFound
        /\ seen' \in [status : ShownStatuses \cup {"running"}, trace : BOOLEAN]
    <3> USE DEF PollEnds, PollSleeps
    <3>0. 0 \in 0 .. MaxNotFound
      BY MaxNotFoundAssumption
    <3>1. CASE PollRead
      BY <1>0, <3>0, <3>1, Blanks DEF PollRead
    <3>2. CASE PollGetFails
      BY <1>0, <3>2, Blanks DEF PollGetFails
    <3>3. CASE PollNotFound
      BY <1>0, <3>0, <3>3, Blanks, MaxNotFoundAssumption DEF PollNotFound
    <3>4. CASE PollGivesUp
      BY <1>0, <3>0, <3>4, Blanks DEF PollGivesUp
    <3>5. CASE PollSees
      BY <1>0, <3>0, <3>5, Blanks DEF PollSees, ViewTypeOK
    <3>6. CASE PollMark
      BY <1>0, <3>0, <3>6, Blanks DEF PollMark
    <3> QED
      BY <1>3, <3>1, <3>2, <3>3, <3>4, <3>5, <3>6 DEF PollNext
  <2> QED
    BY <1>0, <2>1, <2>2 DEF pollIdle
<1>4. ASSUME NEW r \in StopReqs, StopNext(r) PROVE TypeOK'
  <2>1. UNCHANGED stopIdle
    BY <1>4 DEF StopNext, StopRead, StopPost, StopMark
  <2>2. /\ stop' \in [StopReqs -> {"idle", "refused", "post", "mark", "stopped"}]
        /\ stopTrace' \in [StopReqs -> BOOLEAN]
    <3>1. row.trace \in BOOLEAN
      <4>1. Exists \/ row = Absent
        BY <1>0 DEF Rows, Exists, TestTerminal
      <4>2. CASE Exists
        BY <1>0, <4>2, Columns
      <4>3. CASE row = Absent
        BY <4>3 DEF Absent
      <4> QED
        BY <4>1, <4>2, <4>3
    <3> QED
      BY <1>0, <1>4, <3>1 DEF StopNext, StopRead, StopPost, StopMark
  <2> QED
    BY <1>0, <2>1, <2>2 DEF stopIdle
<1>5. CASE NoticeNext
  BY <1>0, <1>5 DEF NoticeNext, NoticeLook, NoticeMark, noticeIdle
<1>6. ASSUME NEW i \in Ingests, IngestFetch(i) \/ IngestWrites(i) PROVE TypeOK'
  <2>1. UNCHANGED fetchIdle /\ listed' \in BOOLEAN
    BY <1>0, <1>6 DEF IngestFetch, IngestWrites, IngestRefetch, IngestOverwrite, IngestStore,
                      IngestLook, IngestMark, ingIdle
  <2>2. /\ ing' \in [Ingests -> {"idle", "store", "refetch", "overwrite", "look", "mark", "end"}]
        /\ fetched' \in [Ingests -> Copies]
    <3>0. /\ fetched \in [Ingests -> Copies] /\ Copy \in Copies /\ NoCopy \in Copies
          /\ [fetched[i] EXCEPT !.hint = runs.status] \in Copies
      BY <1>0, <1>6, Blanks DEF Copies
    <3> HIDE DEF TypeOK
    <3>1. ing \in [Ingests -> {"idle", "store", "refetch", "overwrite", "look", "mark", "end"}]
      BY <1>0 DEF TypeOK
    <3>2. CASE IngestFetch(i) \/ IngestRefetch(i)
      BY <3>0, <3>1, <3>2 DEF IngestFetch, IngestRefetch
    <3>3. CASE IngestOverwrite(i) \/ IngestStore(i) \/ IngestMark(i)
      BY <3>0, <3>1, <3>3 DEF IngestOverwrite, IngestStore, IngestMark, IngestEnds
    <3>4. CASE IngestLook(i)
      <4>1. fetched' = [fetched EXCEPT ![i] = [fetched[i] EXCEPT !.hint = runs.status]]
            \/ fetched' = [fetched EXCEPT ![i] = NoCopy]
        BY <3>4 DEF IngestLook, IngestEnds
      <4> QED
        BY <3>0, <3>1, <3>4, <4>1 DEF IngestLook, IngestEnds
    <3> QED
      BY <1>6, <3>2, <3>3, <3>4 DEF IngestWrites
  <2>3. runs' \in [status : Outcomes \cup {"absent", "running"}, verdict : TerminalEvents \cup {None}]
    <3>1. CASE IngestStore(i)
      <4>1. Backed(fetched[i]) /\ Stored(fetched[i])
        BY <3>1 DEF Inv, CopyOK, IngestStore
      <4> QED
        BY <1>0, <4>1, Storing DEF Inv
    <3>2. CASE IngestOverwrite(i)
      BY <1>0, <3>2 DEF IngestOverwrite
    <3>3. CASE UNCHANGED runs
      BY <1>0, <3>3
    <3> QED
      BY <1>6, <3>1, <3>2, <3>3
         DEF IngestFetch, IngestWrites, IngestRefetch, IngestLook, IngestMark
  <2> QED
    BY <1>0, <2>1, <2>2, <2>3 DEF fetchIdle, Copies
<1>7. CASE ScanNext
  <2>1. CASE ScanFetch
    BY <1>0, <2>1, Blanks DEF ScanFetch, scanIdle
  <2>2. CASE ScanStore
    <3>1. runs' \in [status : Outcomes \cup {"absent", "running"}, verdict : TerminalEvents \cup {None}]
      BY <1>0, <2>2, Storing DEF ScanStore, Inv, CopyOK
    <3> QED
      BY <1>0, <2>2, <3>1, Blanks DEF ScanStore, scanIdle
  <2> QED
    BY <1>7, <2>1, <2>2 DEF ScanNext
<1>8. CASE DelNext
  BY <1>0, <1>8, Blanks DEF DelNext, DelRead, DelRuns, DelRow, delIdle
<1>9. CASE UNCHANGED testVars
  BY <1>0, <1>9 DEF testVars, ViewTypeOK
<1> QED
  BY <1>1, <1>2, <1>3, <1>4, <1>5, <1>6, <1>7, <1>8, <1>9 DEF TestNext

-----------------------------------------------------------------------------
(* Copies of the trace, and the status shown, that evolution holds *)

\* No verdict is replaced and no stop request withdrawn, so what was backed stays so.
Kept ==
    /\ verdict # None => verdict' = verdict
    /\ asked => asked'

LEMMA CopyStep ==
    ASSUME Inv, TraceOK', Kept, [TestNext]_testVars
    PROVE  CopyOK'
<1> USE DEF Claim
<1>0. TypeOK /\ TraceOK /\ CopyOK
  BY DEF Inv
<1>1. Backed(Copy)' /\ Backed(NoCopy)'
  BY DEF Backed, Copy, NoCopy, TraceOK, Outcomes
<1>2. runs'.verdict \in {None, verdict'} /\ Claim(runs.status)'
  <2>1. CASE UNCHANGED runs
    BY <1>0, <2>1 DEF CopyOK, Kept, None
  <2>2. ASSUME NEW i \in Ingests, IngestOverwrite(i)
        PROVE  runs'.verdict \in {None, verdict'} /\ Claim(runs.status)'
    <3>1. runs' = runs \/ runs' = [runs EXCEPT !.status = fetched[i].hint]
      BY <2>2 DEF IngestOverwrite
    <3>2. Backed(fetched[i])
      BY <1>0 DEF CopyOK
    <3> QED
      BY <1>0, <3>1, <3>2 DEF CopyOK, Backed, Kept, TypeOK, None
  <2>3. ASSUME NEW i \in Ingests, IngestStore(i)
        PROVE  runs'.verdict \in {None, verdict'} /\ Claim(runs.status)'
    <3>1. fetched[i] \in Copies /\ Backed(fetched[i]) /\ Stored(fetched[i])
      BY <1>0, <2>3 DEF IngestStore, CopyOK, TypeOK, Copies
    <3>2. runs'.verdict \in {None, verdict} /\ Claim(runs'.status)
      BY <1>0, <3>1, Storing DEF Copies
    <3> QED
      BY <3>2 DEF Kept, None
  <2>4. CASE ScanStore
    <3>1. scanned \in Copies /\ Backed(scanned) /\ Stored(scanned)
      BY <1>0, <2>4 DEF ScanStore, CopyOK, TypeOK, Copies
    <3>2. runs'.verdict \in {None, verdict} /\ Claim(runs'.status)
      BY <1>0, <3>1, Storing DEF Copies
    <3> QED
      BY <3>2 DEF Kept, None
  <2>5. CASE DelRuns
    BY <2>5 DEF DelRuns, NoRun, Outcomes
  <2> QED
    BY <2>1, <2>2, <2>3, <2>4, <2>5, RunsFrame
<1>3. Backed(scanned)'
  <2>1. CASE UNCHANGED scanned
    BY <1>0, <2>1 DEF CopyOK, Backed, Kept, None
  <2>2. CASE ScanFetch
    <3>1. scanned' = Copy /\ UNCHANGED <<verdict, state>>
      BY <2>2 DEF ScanFetch, scanIdle, execVars, viewVars, lifeVars
    <3> QED
      BY <1>1, <3>1 DEF Backed, Copy
  <2>3. CASE ScanStore
    BY <1>1, <2>3 DEF ScanStore, Backed, NoCopy
  <2> QED
    BY <2>1, <2>2, <2>3, ThreadFrame DEF ScanNext
<1>4. ASSUME NEW j \in Ingests
      PROVE  /\ Backed(fetched[j])'
             /\ ing'[j] = "mark" => fetched'[j].hint \in {"completed", "failed", "cancelled"}
  <2>1. CASE ing'[j] = ing[j] /\ fetched'[j] = fetched[j]
    BY <1>0, <2>1 DEF CopyOK, Backed, Kept, None
  <2>2. CASE IngestFetch(j) \/ IngestRefetch(j)
    <3>1. fetched'[j] = Copy /\ ing'[j] # "mark" /\ UNCHANGED <<verdict, state>>
      BY <1>0, <2>2 DEF IngestFetch, IngestRefetch, fetchIdle, viewVars, lifeVars, TypeOK
    <3> QED
      BY <1>1, <3>1 DEF Backed, Copy
  <2>3. CASE IngestOverwrite(j) \/ IngestStore(j) \/ IngestMark(j)
    <3>1. fetched'[j] = NoCopy /\ ing'[j] # "mark"
      BY <1>0, <2>3 DEF IngestOverwrite, IngestStore, IngestMark, IngestEnds, TypeOK
    <3> QED
      BY <1>1, <3>1 DEF Backed, NoCopy
  <2>4. CASE IngestLook(j)
    <3>1. \/ fetched'[j] = NoCopy /\ ing'[j] # "mark"
          \/ /\ fetched'[j] = [fetched[j] EXCEPT !.hint = runs.status]
             /\ runs.status \in {"completed", "failed", "cancelled"}
      BY <1>0, <2>4 DEF IngestLook, IngestEnds, TypeOK
    <3>2. fetched[j] \in Copies
      BY <1>0 DEF TypeOK, Copies
    <3> QED
      BY <1>0, <1>1, <3>1, <3>2 DEF Backed, NoCopy, CopyOK, Copies, Kept, None
  <2>5. ASSUME NEW i \in Ingests, i # j, IngestFetch(i) \/ IngestWrites(i)
        PROVE  ing'[j] = ing[j] /\ fetched'[j] = fetched[j]
    BY <1>0, <2>5 DEF IngestFetch, IngestWrites, IngestRefetch, IngestOverwrite, IngestStore,
                      IngestLook, IngestMark, IngestEnds, TypeOK
  <2> QED
    BY <2>1, <2>2, <2>3, <2>4, <2>5, ThreadFrame DEF IngestWrites
<1> QED
  BY <1>2, <1>3, <1>4 DEF CopyOK

LEMMA SeenStep ==
    ASSUME Inv, Kept, [TestNext]_testVars
    PROVE  SeenOK'
<1>0. TypeOK /\ TraceOK /\ SeenOK
  BY DEF Inv
<1>1. CASE UNCHANGED <<poll, seen>>
  BY <1>0, <1>1 DEF SeenOK, Kept, None
<1>2. CASE StartMark
  BY <1>0, <1>2 DEF StartMark, SeenOK, Kept, None
<1>3. CASE PollRead \/ PollGetFails \/ PollNotFound \/ PollGivesUp \/ PollMark
  BY <1>0, <1>3 DEF PollRead, PollGetFails, PollNotFound, PollGivesUp, PollMark, PollEnds,
                    PollSleeps, SeenOK, Kept, Nothing, None
<1>4. CASE PollSees
  <2>1. /\ \/ seen' = Nothing /\ poll' = "sleep"
           \/ seen' = [status |-> shown, trace |-> traced] /\ shown \in PolledToEnd
        /\ UNCHANGED <<verdict, asked>>
    BY <1>4 DEF PollSees, PollSleeps, pollIdle, execVars, viewVars, lifeVars
  <2> QED
    BY <1>0, <2>1 DEF TraceOK, SeenOK, Nothing, CancelStatuses
<1> QED
  BY <1>1, <1>2, <1>3, <1>4, ThreadFrame DEF PollNext

-----------------------------------------------------------------------------
(* The row *)

\* A stop request that was accepted stays accepted, and only one reaches the executor.
LEMMA AskStep == ASSUME Inv, [TestNext]_testVars PROVE AskOK' /\ (Accepted => Accepted')
<1> USE DEF Accepted
<1>0. TypeOK /\ AskOK
  BY DEF Inv
<1>1. Accepted => Accepted'
  <2>1. ASSUME NEW r \in StopReqs, NEW q \in StopReqs, StopNext(r), stop[q] \notin {"idle", "refused"}
        PROVE  stop'[q] \notin {"idle", "refused"}
    BY <1>0, <2>1 DEF StopNext, StopRead, StopPost, StopMark, TypeOK
  <2> QED
    BY <2>1, ThreadFrame
<1>2. asked' => asked \/ Accepted'
  <2>1. ASSUME NEW r \in StopReqs, StopPost(r) PROVE Accepted'
    BY <1>0, <2>1 DEF StopPost, TypeOK
  <2>2. CASE ExecNext
    BY <2>2 DEF ExecNext, ExecTrace, ExecShowTrace, ExecShow, ExecRestarts, TraceStep, ShowTrace,
                Show, viewVars
  <2>3. CASE StartNext
    BY <2>3 DEF StartNext, StartPost, StartPostFails, StartFails, StartMark, execVars, viewVars
  <2>4. CASE PollNext
    BY <2>4 DEF PollNext, PollRead, PollGetFails, PollNotFound, PollGivesUp, PollSees, PollMark,
                pollIdle, execVars, viewVars
  <2>5. CASE NoticeNext
    BY <2>5 DEF NoticeNext, NoticeLook, NoticeMark, noticeIdle, execVars, viewVars
  <2>6. ASSUME NEW r \in StopReqs, StopRead(r) \/ StopMark(r) PROVE UNCHANGED asked
    BY <2>6 DEF StopRead, StopMark, viewVars
  <2>7. ASSUME NEW i \in Ingests, IngestFetch(i) \/ IngestWrites(i) PROVE UNCHANGED asked
    BY <2>7 DEF IngestFetch, IngestWrites, IngestRefetch, IngestOverwrite, IngestStore,
                IngestLook, IngestMark, fetchIdle, ingIdle, viewVars
  <2>8. CASE ScanNext
    BY <2>8 DEF ScanNext, ScanFetch, ScanStore, scanIdle, execVars, viewVars
  <2>9. CASE DelNext
    BY <2>9 DEF DelNext, DelRead, DelRuns, DelRow, delIdle, execVars, viewVars
  <2>10. CASE UNCHANGED testVars
    BY <2>10 DEF testVars, execVars, viewVars
  <2> QED
    BY <2>1, <2>2, <2>3, <2>4, <2>5, <2>6, <2>7, <2>8, <2>9, <2>10 DEF TestNext, StopNext
<1> QED
  BY <1>0, <1>1, <1>2 DEF AskOK

\* Each writer of the row, by what it writes: a status that is not a claim, or a claim that
\* what the writer holds backs.  The link to the trace is never dropped with the row kept.
LEMMA Written ==
    ASSUME Inv, Kept, [TestNext]_testVars
    PROVE  /\ row'.status = "done" => (row'.status = row.status \/ (verdict = "run_end" /\ row'.trace))
           /\ row'.status = "cancelled" => (row'.status = row.status \/ Accepted \/ Accepted')
           /\ row.trace => row'.trace \/ ~Exists'
<1> DEFINE Goal == /\ row'.status = "done" => (row'.status = row.status \/ (verdict = "run_end" /\ row'.trace))
                   /\ row'.status = "cancelled" => (row'.status = row.status \/ Accepted \/ Accepted')
                   /\ row.trace => row'.trace \/ ~Exists'
<1>0. TypeOK /\ TraceOK /\ CopyOK /\ SeenOK /\ AskOK /\ row \in Rows
  BY DEF Inv, TypeOK
<1>1. CASE UNCHANGED row
  BY <1>1
<1>2. ASSUME NEW t \in BOOLEAN, MarkTraced("failed", t) PROVE Goal
  BY <1>0, <1>2, Marking DEF TestTerminal
<1>3. ASSUME NEW t \in BOOLEAN, MarkTraced("cancelled", t), Accepted \/ Accepted' PROVE Goal
  BY <1>0, <1>3, Marking DEF TestTerminal
<1>4. CASE StartFails
  BY <1>2, <1>4 DEF StartFails, Mark
<1>5. CASE StartMark
  BY <1>0, <1>5, Columns DEF StartMark
<1>6. CASE PollGivesUp
  BY <1>2, <1>6 DEF PollGivesUp, Mark
<1>7. CASE PollSees
  <2>1. (traced /\ shown \in {"running", "done", "cancelled", "cancel_timeout"}) \in BOOLEAN
    OBVIOUS
  <2>2. row'.status = row.status /\ (row.trace => row'.trace)
    BY <1>0, <1>7, <2>1, Linking DEF PollSees
  <2> QED
    BY <2>2, Vocabulary
<1>8. CASE PollMark
  <2>0. seen.trace \in BOOLEAN
    BY <1>0 DEF TypeOK
  <2>1. CASE seen.status = "done" /\ row' = IF Exists THEN [row EXCEPT !.status = "done", !.trace = seen.trace] ELSE row
    <3>1. verdict = "run_end" /\ seen.trace
      BY <1>0, <2>1 DEF SeenOK
    <3> QED
      BY <1>0, <2>1, <3>1, Columns
  <2>2. CASE MarkTraced("failed", seen.trace)
    BY <1>2, <2>0, <2>2
  <2>3. CASE seen.status = "cancelled" /\ MarkTraced("cancelled", seen.trace)
    BY <1>0, <1>3, <2>0, <2>3 DEF SeenOK, AskOK
  <2> QED
    BY <1>1, <1>8, <2>1, <2>2, <2>3 DEF PollMark
<1>9. ASSUME NEW r \in StopReqs, StopMark(r) PROVE Goal
  <2>1. stopTrace[r] \in BOOLEAN /\ stop[r] = "mark"
    BY <1>0, <1>9 DEF TypeOK, StopMark
  <2>2. Accepted
    BY <2>1 DEF Accepted
  <2> QED
    BY <1>3, <1>9, <2>1, <2>2 DEF StopMark
<1>10. CASE NoticeMark
  BY <1>2, <1>10 DEF NoticeMark, Mark
<1>11. ASSUME NEW i \in Ingests, IngestMark(i) PROVE Goal
  <2>1. fetched[i].hint \in {"completed", "failed", "cancelled"} /\ Claim(fetched[i].hint)
    BY <1>0, <1>11 DEF CopyOK, Backed, IngestMark
  <2>2. CASE fetched[i].hint = "completed"
    <3>1. MarkTraced("done", TRUE) /\ verdict = "run_end"
      BY <1>11, <2>1, <2>2 DEF IngestMark, Claim
    <3>2. "done" \in TestTerminal \cup {"pending", "running"} /\ TRUE \in BOOLEAN
      BY DEF TestTerminal
    <3>3. (row.trace => row'.trace) /\ (row' = row \/ (row'.status = "done" /\ row'.trace))
      BY <1>0, <3>1, <3>2, Marking
    <3> QED
      BY <3>1, <3>3
  <2>3. CASE fetched[i].hint = "failed"
    BY <1>2, <1>11, <2>3 DEF IngestMark
  <2>4. CASE fetched[i].hint = "cancelled"
    BY <1>0, <1>3, <1>11, <2>1, <2>4 DEF IngestMark, Claim, AskOK
  <2> QED
    BY <2>1, <2>2, <2>3, <2>4
<1>12. CASE DelRow
  BY <1>12 DEF DelRow, Absent, Exists
<1> QED
  BY <1>1, <1>4, <1>5, <1>6, <1>7, <1>8, <1>9, <1>10, <1>11, <1>12, RowFrame

LEMMA RowStep ==
    ASSUME Inv, Kept, [TestNext]_testVars
    PROVE  DoneIsEarned' /\ CancelIsWanted'
<1>0. DoneIsEarned /\ (CancelIsWanted <=> (row.status = "cancelled" => Accepted))
  BY DEF Inv, CancelIsWanted, Accepted
<1>1. row'.status = "done" => verdict' = "run_end" /\ row'.trace
  <2>1. row.status = "done" => row.trace
    BY <1>0 DEF DoneIsEarned
  <2>2. verdict = "run_end" => verdict' = "run_end"
    BY DEF Kept, None
  <2> QED
    BY <1>0, <2>1, <2>2, Written DEF DoneIsEarned, Exists
<1>2. row'.status = "cancelled" => Accepted'
  BY <1>0, AskStep, Written DEF Inv
<1> QED
  BY <1>1, <1>2 DEF DoneIsEarned, CancelIsWanted, Accepted

-----------------------------------------------------------------------------
(* The invariant, and what follows *)

\* A test that has been created satisfies the invariant.
THEOREM InvInit == Init => Inv
<1> SUFFICES ASSUME Init PROVE Inv
  OBVIOUS
<1>1. TraceOK
  BY DEF Init, ViewInit, LifeInit, TraceOK, Claim, Outcomes, None, CancelStatuses
<1>2. CopyOK
  BY DEF Init, CopyOK, Backed, Claim, Outcomes, NoRun, NoCopy
<1>3. SeenOK
  BY DEF Init, SeenOK, Nothing
<1>4. AskOK
  BY DEF Init, ViewInit, AskOK
<1> QED
  BY <1>1, <1>2, <1>3, <1>4, TypeInit DEF Init, Inv, DoneIsEarned, CancelIsWanted

\* Every step of the executor and of evolution's threads keeps the invariant.
LEMMA InvStep == ASSUME Inv, [TestNext]_testVars PROVE Inv'
<1>1. ViewTypeOK' /\ TraceOK' /\ Kept
  BY ViewKeeps, ViewSteps DEF Inv, TypeOK, Kept
<1>2. TypeOK'
  BY <1>1, RowTypes, ThreadTypes
<1>3. CopyOK' /\ SeenOK'
  BY <1>1, CopyStep, SeenStep
<1>4. AskOK' /\ DoneIsEarned' /\ CancelIsWanted'
  BY <1>1, AskStep, RowStep
<1> QED
  BY <1>1, <1>2, <1>3, <1>4 DEF Inv

\* The invariant holds of a test, whatever the executor does and whatever is lost.
THEOREM Invariance == TestSpec => []Inv
<1>1. Init => Inv
  BY InvInit
<1>2. Inv /\ [TestNext]_testVars => Inv'
  BY InvStep
<1> QED
  BY <1>1, <1>2, PTL DEF TestSpec

\* The row, the copy in runs and every thread hold values the code can write there.
THEOREM TypeCorrect == TestSpec => []TypeOK
<1>1. Inv => TypeOK
  BY DEF Inv
<1> QED
  BY <1>1, Invariance, PTL

\* A test is done only if its run wrote run_end, and then it links its trace.
THEOREM EarnedDone == TestSpec => []DoneIsEarned
<1>1. Inv => DoneIsEarned
  BY DEF Inv
<1> QED
  BY <1>1, Invariance, PTL

\* A test is cancelled only if a stop was accepted for it.
THEOREM WantedCancel == TestSpec => []CancelIsWanted
<1>1. Inv => CancelIsWanted
  BY DEF Inv
<1> QED
  BY <1>1, Invariance, PTL

\* The copy in runs never says that a run has ended before it has.
THEOREM HonestCopy == TestSpec => []CopyNotAhead
<1>1. Inv => CopyNotAhead
  BY DEF Inv, CopyOK, Claim, CopyNotAhead
<1> QED
  BY <1>1, Invariance, PTL

\* No writer unlinks a test's trace, but the one that deletes the test.
THEOREM KeptTrace == TestSpec => TraceKept
<1>1. Inv /\ Inv' /\ [TestNext]_testVars => [row.trace => row'.trace \/ ~Exists']_row
  <2> SUFFICES ASSUME Inv, [TestNext]_testVars PROVE row.trace => row'.trace \/ ~Exists'
    OBVIOUS
  <2>1. Kept
    BY ViewKeeps, ViewSteps DEF Inv, TypeOK, Kept
  <2> QED
    BY <2>1, Written
<1> QED
  BY <1>1, Invariance, PTL DEF TestSpec, TraceKept

=============================================================================
