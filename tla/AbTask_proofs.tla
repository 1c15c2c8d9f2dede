--------------------------- MODULE AbTask_proofs ---------------------------
(***************************************************************************)
(* Proofs about AbTask for every set of stop requests.                     *)
(*                                                                         *)
(* The invariants of AbTask are not inductive: that a seal finds at most   *)
(* one verdict needs that the child no longer writes when the convergence  *)
(* thread does, which needs to know where either of them stands.  ExInv    *)
(* and ChildInv tie the child's position to the thread that starts it and  *)
(* to what is on disk, CvInv the convergence thread's position to the      *)
(* child's, and TraceKnown says that nobody holds the id of a trace that   *)
(* has no index entry; DoneKnown, that nobody holds the result "done" of   *)
(* a run that is not completed and sealed.  That a client sees what        *)
(* TaskView promises needs Told besides: nobody holds "cancelled" before a *)
(* stop was admitted.  That a convergence leaves no child running needs    *)
(* Stopped: no message comes from a child that has not run.                *)
(***************************************************************************)
EXTENDS AbTask, SequenceTheorems, TLAPS

\* Where the child is, by the position of the thread that starts it.
ExInv ==
    /\ ex \in {"start", "registered"} => child = "none"
    /\ ex = "starting" => child = "unstarted"

\* What is on disk, by the position of the child.
ChildInv ==
    /\ child \in {"none", "unstarted", "boot"} => index = NoEntry /\ events = <<>>
    /\ child \in {"created", "agent", "streamed"} =>
           events = <<>> /\ index.status = "running"
    /\ child \in {"ended", "sealing", "sealed"} =>
           outcome \in Outcomes /\ events = <<EventOf(outcome)>>
    /\ child = "ended" => index.status = "running"
    /\ child \in {"sealing", "sealed"} => index.status = outcome
    /\ child = "sealing" => index.phase = "sealing"
    /\ child = "sealed" => index.phase = "sealed"

DiskInv ==
    /\ VerdictOnce
    /\ index.status \in Outcomes => events # <<>>

\* Where the child is, and what is on disk, by the position of the convergence thread.
CvInv ==
    /\ cv \in {"killed", "drain", "seal", "sealEvent", "sealIndex", "sealManifest"} =>
           child \in {"doomed", "gone"}
    /\ cv = "publish" /\ (cvTrace \/ cvResult.trace) => child \in {"doomed", "gone"}
    /\ cv \in {"publish", "seal", "sealEvent", "sealIndex", "sealManifest", "close"} =>
           cvResult \in WorkerResults
    /\ cv = "seal" => cvTrace
    /\ cv \in {"sealEvent", "sealIndex"} =>
           index.status \in {"running", "evidence_capture_failed"}
    /\ cv \in {"sealIndex", "sealManifest"} => events # <<>>
    /\ cv = "sealManifest" => index.phase = "sealing" /\ index.status = "cancelled"
    /\ cv = "close" /\ cvTrace /\ cvResult.status = "cancelled" =>
           index.status \in Outcomes
    /\ cv # "none" => worker

TraceKnown ==
    index.status = "absent" =>
        /\ ~wTrace /\ ~lastResult.trace /\ ~cvTrace /\ ~cvResult.trace
        /\ \A t \in {"ex", "cv"} : ~hold[t].trace
        /\ \A i \in 1 .. Len(queue) : ~queue[i].trace

\* The child cancels itself only when it was told to.
FlagInv == outcome = "cancelled" => cancelFlag

\* The run is completed and sealed, and its child has nothing left to write.
DoneOnDisk ==
    /\ index.status = "completed" /\ index.phase = "sealed"
    /\ child \in {"exiting", "doomed", "gone"}

\* Until then no result, taken or not, says done.
DoneKnown ==
    ~DoneOnDisk =>
        /\ status # "done" /\ exResult.status # "done" /\ cvResult.status # "done"
        /\ lastResult.status # "done"
        /\ \A t \in {"ex", "cv"} : hold[t].status # "done"
        /\ \A i \in 1 .. Len(queue) : queue[i].status # "done"

Inv ==
    /\ TypeOK /\ ExInv /\ ChildInv /\ FlagInv /\ DiskInv /\ CvInv
    /\ TraceKnown /\ DoneKnown /\ ConvergedIsHonest

-----------------------------------------------------------------------------
(* Facts about the data *)

\* A message taken off the queue is typed, and so is what is left.
LEMMA QueueTypes ==
    ASSUME queue \in Seq(Messages), queue # <<>>
    PROVE  Head(queue) \in Messages /\ Tail(queue) \in Seq(Messages)
  OBVIOUS

\* A message that is put leaves the queue typed.
LEMMA Sending ==
    ASSUME queue \in Seq(Messages), NEW m \in Messages
    PROVE  Append(queue, m) \in Seq(Messages)
  OBVIOUS

\* What is in the queue after a put was there before, or is what was put.
LEMMA Queued ==
    ASSUME queue \in Seq(Messages), NEW m
    PROVE  \A i \in 1 .. Len(Append(queue, m)) :
              \/ Append(queue, m)[i] = m
              \/ i \in 1 .. Len(queue) /\ Append(queue, m)[i] = queue[i]
  OBVIOUS

\* The messages, results and statuses that the code writes have the types they should.
LEMMA DataTypes ==
    /\ Results \subseteq TaskStates
    /\ \A o \in Outcomes : EventOf(o) \in TerminalEvents
    /\ TraceMsg \in Messages /\ None \notin Messages
    /\ ResultMsgs \subseteq Messages /\ ResultMsgs \subseteq WorkerResults
    /\ \A s \in Results, t \in BOOLEAN : Result(s, t) \in ResultMsgs
    /\ \A s \in Results \cup {"unknown", "cancel_timeout"}, t \in BOOLEAN :
          Result(s, t) \in WorkerResults
    /\ \A m \in Messages \cup WorkerResults \cup {None} :
          m.status \in TaskStates /\ m.trace \in BOOLEAN
    /\ \A m \in Messages : m.kind = "result" => m \in ResultMsgs
<1> USE DEF Results, ResultMsgs, WorkerResults
<1>1. Results \subseteq TaskStates
  BY DEF TaskStates
<1>2. \A o \in Outcomes : EventOf(o) \in TerminalEvents
  BY DEF Outcomes, EventOf, TerminalEvents
<1>3. TraceMsg \in Messages
  BY DEF Messages
<1>4. None \notin Messages
  <2>1. None.kind = "none"
    BY DEF None
  <2>2. \A m \in Messages : m.kind # "none"
    BY DEF Messages, TraceMsg
  <2> QED
    BY <2>1, <2>2
<1>5. ResultMsgs \subseteq Messages
  BY DEF Messages
<1>6. ResultMsgs \subseteq WorkerResults
  OBVIOUS
<1>7. \A s \in Results, t \in BOOLEAN : Result(s, t) \in ResultMsgs
  BY DEF Result
<1>8. \A s \in Results \cup {"unknown", "cancel_timeout"}, t \in BOOLEAN :
          Result(s, t) \in WorkerResults
  BY DEF Result
<1>9. ASSUME NEW m \in Messages \cup WorkerResults \cup {None}
      PROVE  m.status \in TaskStates /\ m.trace \in BOOLEAN
  <2>1. CASE m = TraceMsg
    BY <2>1 DEF TraceMsg, TaskStates
  <2>2. CASE m = None
    BY <2>2 DEF None, TaskStates
  <2>3. CASE m \in WorkerResults
    BY <2>3 DEF TaskStates
  <2> QED
    BY <1>6, <2>1, <2>2, <2>3 DEF Messages
<1>10. \A m \in Messages : m.kind = "result" => m \in ResultMsgs
  BY DEF Messages, TraceMsg
<1> QED
  BY <1>1, <1>2, <1>3, <1>4, <1>5, <1>6, <1>7, <1>8, <1>9, <1>10

-----------------------------------------------------------------------------
(* Type correctness *)

\* The parts of TypeOK that a step leaves alone.
LEMMA Undisturbed ==
    /\ TaskTypes /\ UNCHANGED taskVars => TaskTypes'
    /\ ThreadTypes /\ UNCHANGED <<exVars, stop, cvVars, hold>> => ThreadTypes'
    /\ WorkerTypes /\ UNCHANGED workerVars => WorkerTypes'
    /\ TraceTypes /\ UNCHANGED <<childVars, diskVars, notified>> => TraceTypes'
<1>1. TaskTypes /\ UNCHANGED taskVars => TaskTypes'
  BY DEF TaskTypes, taskVars
<1>2. ThreadTypes /\ UNCHANGED <<exVars, stop, cvVars, hold>> => ThreadTypes'
  BY DEF ThreadTypes, exVars, cvVars
<1>3. WorkerTypes /\ UNCHANGED workerVars => WorkerTypes'
  BY DEF WorkerTypes, workerVars
<1>4. TraceTypes /\ UNCHANGED <<childVars, diskVars, notified>> => TraceTypes'
  BY DEF TraceTypes, childVars, diskVars
<1> QED
  BY <1>1, <1>2, <1>3, <1>4

\* What the writers of index.json store is an entry.
LEMMA EntryUpdates ==
    ASSUME NEW e \in Entries
    PROVE  /\ \A s \in Outcomes \cup {"running"}, p \in {"recording", "sealing"} :
                 [e EXCEPT !.status = s, !.phase = p] \in Entries
           /\ \A v \in TerminalEvents :
                 [e EXCEPT !.phase = "sealed", !.manifest = v] \in Entries
           /\ [e EXCEPT !.audit = TRUE] \in Entries
<1> USE DEF Entries
<1>1. ASSUME NEW s \in Outcomes \cup {"running"}, NEW p \in {"recording", "sealing"}
      PROVE  [e EXCEPT !.status = s, !.phase = p] \in Entries
  OBVIOUS
<1>2. ASSUME NEW v \in TerminalEvents
      PROVE  [e EXCEPT !.phase = "sealed", !.manifest = v] \in Entries
  OBVIOUS
<1>3. [e EXCEPT !.audit = TRUE] \in Entries
  OBVIOUS
<1> QED
  BY <1>1, <1>2, <1>3

\* A new task, as ab_run registers it, is well typed.
THEOREM TypeInit == Init => TypeOK
<1> SUFFICES ASSUME Init PROVE TypeOK
  OBVIOUS
<1>1. queue \in Seq(Messages) /\ events \in Seq(TerminalEvents)
  BY DEF Init
<1>2. index \in Entries
  BY DEF Init, NoEntry, Entries
<1>3. hold \in [{"ex", "cv"} -> Messages \cup {None}]
  BY DEF Init
<1>4. stop \in [StopReqs -> {"idle", "mark", "dispatch", "200", "409"}]
  BY DEF Init
<1> QED
  BY <1>1, <1>2, <1>3, <1>4
     DEF Init, TypeOK, TaskTypes, ThreadTypes, WorkerTypes, TraceTypes, TaskStates

\* Every step of the background thread keeps the types.
LEMMA ExTypes == ASSUME TypeOK, ExNext PROVE TypeOK'
<1> USE DEF TypeOK
<1>1. CASE ExPrepareFails \/ ExSpawnFails
  <2> USE DEF ExPrepareFails, ExSpawnFails, ExFail
  <2>1. TaskTypes'
    BY <1>1 DEF TaskTypes, TaskStates, Results
  <2>2. ThreadTypes'
    BY <1>1 DEF ThreadTypes, cvVars
  <2>3. TraceTypes'
    BY <1>1 DEF TraceTypes, childVars, diskVars
  <2> QED
    BY <1>1, <2>1, <2>2, <2>3, Undisturbed
<1>2. CASE ExRegisterWorker
  <2>1. TaskTypes' /\ ThreadTypes'
    BY <1>2 DEF ExRegisterWorker, TaskTypes, ThreadTypes, cvVars
  <2> QED
    BY <1>2, <2>1, Undisturbed DEF ExRegisterWorker
<1>3. CASE ExAssignProcess \/ ExSpawn
  <2> USE DEF ExAssignProcess, ExSpawn
  <2>1. ThreadTypes'
    BY <1>3 DEF ThreadTypes, cvVars
  <2>2. TraceTypes'
    BY <1>3 DEF TraceTypes, Executing, diskVars
  <2> QED
    BY <1>3, <2>1, <2>2, Undisturbed
<1>4. CASE ExTake
  <2>1. ThreadTypes' /\ WorkerTypes'
    BY <1>4, QueueTypes DEF ExTake, Take, ThreadTypes, WorkerTypes, exVars, cvVars
  <2> QED
    BY <1>4, <2>1, Undisturbed DEF ExTake
<1>5. CASE ExApply
  <2>1. ThreadTypes' /\ WorkerTypes'
    BY <1>5, DataTypes DEF ExApply, Apply, ThreadTypes, WorkerTypes, cvVars
  <2> QED
    BY <1>5, <2>1, Undisturbed DEF ExApply
<1>6. CASE ExWaitSeesExit \/ ExWaitEnds \/ ExPoll \/ ExYield
  <2> USE DEF ExWaitSeesExit, ExWaitEnds, ExPoll, ExYield
  <2>1. ThreadTypes'
    BY <1>6 DEF ThreadTypes, cvVars
  <2> QED
    BY <1>6, <2>1, Undisturbed
<1>7. CASE ExRecordTrace
  <2>1. TaskTypes' /\ ThreadTypes'
    BY <1>7 DEF ExRecordTrace, TaskTypes, ThreadTypes, WorkerTypes, cvVars
  <2> QED
    BY <1>7, <2>1, Undisturbed DEF ExRecordTrace
<1>8. CASE ExCollect
  <2>1. ThreadTypes'
    BY <1>8 DEF ExCollect, ThreadTypes, WorkerTypes, cvVars
  <2> QED
    BY <1>8, <2>1, Undisturbed DEF ExCollect
<1>9. CASE ExWrite
  <2>1. TaskTypes'
    BY <1>9, DataTypes DEF ExWrite, TaskTypes, ThreadTypes
  <2>2. ThreadTypes' /\ TraceTypes'
    BY <1>9 DEF ExWrite, ThreadTypes, TraceTypes, cvVars, childVars, diskVars
  <2> QED
    BY <1>9, <2>1, <2>2, Undisturbed DEF ExWrite
<1> QED
  BY <1>1, <1>2, <1>3, <1>4, <1>5, <1>6, <1>7, <1>8, <1>9 DEF ExNext

\* Every step of the child keeps the types, given where it stands.
LEMMA ChildTypes == ASSUME TypeOK, ChildInv, ChildNext PROVE TypeOK'
<1> USE DEF TypeOK
<1>1. CASE ChildCreateRun
  <2>1. index' \in Entries
    BY <1>1, EntryUpdates DEF ChildCreateRun, TraceTypes
  <2>2. TraceTypes'
    BY <1>1, <2>1 DEF ChildCreateRun, TraceTypes, Executing
  <2> QED
    BY <1>1, <2>2, Undisturbed DEF ChildCreateRun
<1>2. CASE ChildFailsEarly
  <2>1. Result("failed", FALSE) \in Messages
    BY DataTypes DEF Results
  <2>2. WorkerTypes'
    BY <1>2, <2>1, Sending DEF ChildFailsEarly, WorkerTypes
  <2>3. TraceTypes'
    BY <1>2 DEF ChildFailsEarly, TraceTypes, Executing, diskVars
  <2> QED
    BY <1>2, <2>2, <2>3, Undisturbed DEF ChildFailsEarly
<1>3. CASE ChildAnnounce
  <2>1. WorkerTypes' /\ TraceTypes'
    BY <1>3, DataTypes DEF ChildAnnounce, WorkerTypes, TraceTypes, Executing, diskVars
  <2> QED
    BY <1>3, <2>1, Undisturbed DEF ChildAnnounce
<1>4. CASE ChildStreamEnds \/ ChildExits
  <2>1. TraceTypes'
    BY <1>4 DEF ChildStreamEnds, ChildExits, TraceTypes, Executing, diskVars
  <2> QED
    BY <1>4, <2>1, Undisturbed DEF ChildStreamEnds, ChildExits
<1>5. ASSUME NEW o \in Outcomes, ChildEnds(o) PROVE TypeOK'
  <2>1. EventOf(o) \in TerminalEvents
    BY DataTypes
  <2>2. TraceTypes'
    BY <1>5, <2>1 DEF ChildEnds, TraceTypes, Executing
  <2> QED
    BY <1>5, <2>2, Undisturbed DEF ChildEnds
<1>6. CASE ChildIndexes
  <2>1. index' \in Entries
    BY <1>6, EntryUpdates DEF ChildIndexes, ChildInv, TraceTypes
  <2>2. TraceTypes'
    BY <1>6, <2>1 DEF ChildIndexes, TraceTypes, Executing
  <2> QED
    BY <1>6, <2>2, Undisturbed DEF ChildIndexes
<1>7. CASE ChildSeals
  <2>1. outcome \in Outcomes /\ events = <<EventOf(outcome)>>
    BY <1>7 DEF ChildSeals, ChildInv
  <2>2. events[Len(events)] = EventOf(outcome)
    BY <2>1
  <2>3. index' \in Entries
    BY <1>7, <2>1, <2>2, DataTypes, EntryUpdates DEF ChildSeals, TraceTypes
  <2>4. TraceTypes'
    BY <1>7, <2>1, <2>3 DEF ChildSeals, TraceTypes, Executing
  <2> QED
    BY <1>7, <2>4, Undisturbed DEF ChildSeals
<1>8. CASE ChildReports
  <2> DEFINE s == IF outcome \notin {"completed", "cancelled"} THEN outcome
                  ELSE IF cancelFlag THEN "cancelled" ELSE "done"
  <2>1. outcome \in Outcomes
    BY <1>8 DEF ChildReports, ChildInv
  <2>2. s \in Results
    BY <2>1 DEF Results, Outcomes
  <2>3. Result(s, TRUE) \in Messages
    BY <2>2, DataTypes
  <2>4. queue' = Append(queue, Result(s, TRUE)) /\ UNCHANGED <<cancelFlag, wTrace, lastResult>>
    BY <1>8 DEF ChildReports
  <2> HIDE DEF s
  <2>5. WorkerTypes'
    BY <2>3, <2>4, Sending DEF WorkerTypes
  <2>6. TraceTypes'
    BY <1>8 DEF ChildReports, TraceTypes, Executing, diskVars
  <2> QED
    BY <1>8, <2>5, <2>6, Undisturbed DEF ChildReports
<1>9. CASE ChildCrashes
  <2>1. TraceTypes'
    BY <1>9 DEF ChildCrashes, TornBy, TraceTypes
  <2> QED
    BY <1>9, <2>1, Undisturbed DEF ChildCrashes
<1> QED
  BY <1>1, <1>2, <1>3, <1>4, <1>5, <1>6, <1>7, <1>8, <1>9 DEF ChildNext

\* Every step of a stop handler keeps the types.
LEMMA StopTypes ==
    ASSUME TypeOK, NEW r \in StopReqs, StopCheck(r) \/ StopProceeds(r) PROVE TypeOK'
<1> USE DEF TypeOK
<1>1. CASE StopCheck(r)
  <2>1. TaskTypes' /\ ThreadTypes'
    BY <1>1 DEF StopCheck, TaskTypes, ThreadTypes, exVars, cvVars
  <2> QED
    BY <1>1, <2>1, Undisturbed DEF StopCheck
<1>2. CASE StopMark(r)
  <2>1. TaskTypes' /\ ThreadTypes'
    BY <1>2 DEF StopMark, TaskTypes, TaskStates, ThreadTypes, exVars, cvVars
  <2> QED
    BY <1>2, <2>1, Undisturbed DEF StopMark
<1>3. CASE StopLaunches(r) \/ StopAlreadyConverging(r)
  <2> USE DEF StopLaunches, StopAlreadyConverging
  <2>1. TaskTypes'
    BY <1>3 DEF TaskTypes, taskVars
  <2>2. ThreadTypes'
    BY <1>3 DEF ThreadTypes, exVars, cvVars
  <2> QED
    BY <1>3, <2>1, <2>2, Undisturbed
<1>4. CASE StopWithoutWorker(r)
  <2>1. TaskTypes' /\ ThreadTypes'
    BY <1>4 DEF StopWithoutWorker, TaskTypes, TaskStates, Results, ThreadTypes, exVars, cvVars
  <2> QED
    BY <1>4, <2>1, Undisturbed DEF StopWithoutWorker
<1> QED
  BY <1>1, <1>2, <1>3, <1>4 DEF StopProceeds

\* Every step of the convergence thread keeps the types.
LEMMA CvTypes == ASSUME TypeOK, CvInv, CvNext PROVE TypeOK'
<1> USE DEF TypeOK
<1>1. CASE CvNoProcess
  <2>1. cvResult' \in WorkerResults
    BY <1>1, DataTypes DEF CvNoProcess, WorkerTypes
  <2>2. ThreadTypes'
    BY <1>1, <2>1 DEF CvNoProcess, ThreadTypes, WorkerTypes, exVars
  <2> QED
    BY <1>1, <2>2, Undisturbed DEF CvNoProcess
<1>2. CASE CvSetFlag
  <2>1. ThreadTypes' /\ WorkerTypes'
    BY <1>2 DEF CvSetFlag, ThreadTypes, WorkerTypes, exVars
  <2> QED
    BY <1>2, <2>1, Undisturbed DEF CvSetFlag
<1>3. CASE CvJoinRaises
  <2>1. TaskTypes' /\ ThreadTypes'
    BY <1>3 DEF CvJoinRaises, TaskTypes, TaskStates, ThreadTypes, exVars
  <2> QED
    BY <1>3, <2>1, Undisturbed DEF CvJoinRaises
<1>4. CASE CvJoined \/ CvAfterKill
  <2>1. ThreadTypes'
    BY <1>4 DEF CvJoined, CvAfterKill, ThreadTypes, exVars
  <2> QED
    BY <1>4, <2>1, Undisturbed DEF CvJoined, CvAfterKill
<1>5. CASE CvKill
  <2>1. ThreadTypes'
    BY <1>5 DEF CvKill, ThreadTypes, exVars
  <2>2. TraceTypes'
    BY <1>5 DEF CvKill, TornBy, TraceTypes
  <2> QED
    BY <1>5, <2>1, <2>2, Undisturbed DEF CvKill
<1>6. CASE CvTake
  <2>1. ThreadTypes' /\ WorkerTypes'
    BY <1>6, QueueTypes DEF CvTake, Take, ThreadTypes, WorkerTypes, exVars, cvVars
  <2> QED
    BY <1>6, <2>1, Undisturbed DEF CvTake
<1>7. CASE CvApply
  <2>1. ThreadTypes' /\ WorkerTypes'
    BY <1>7, DataTypes DEF CvApply, Apply, ThreadTypes, WorkerTypes, exVars, cvVars
  <2> QED
    BY <1>7, <2>1, Undisturbed DEF CvApply
<1>8. CASE CvCollect
  <2>1. cvResult' \in WorkerResults
    BY <1>8, DataTypes DEF CvCollect, WorkerTypes, Results
  <2>2. ThreadTypes'
    BY <1>8, <2>1 DEF CvCollect, ThreadTypes, exVars
  <2> QED
    BY <1>8, <2>2, Undisturbed DEF CvCollect
<1>9. CASE CvPublish
  <2>1. TaskTypes'
    BY <1>9, DataTypes DEF CvPublish, TaskTypes, ThreadTypes
  <2>2. ThreadTypes'
    BY <1>9, DataTypes DEF CvPublish, ThreadTypes, exVars
  <2> QED
    BY <1>9, <2>1, <2>2, Undisturbed DEF CvPublish
<1>10. CASE CvSealGuard
  <2>1. index' \in Entries
    BY <1>10, EntryUpdates DEF CvSealGuard, TraceTypes
  <2>2. ThreadTypes' /\ TraceTypes'
    BY <1>10, <2>1 DEF CvSealGuard, ThreadTypes, TraceTypes, exVars, childVars
  <2> QED
    BY <1>10, <2>2, Undisturbed DEF CvSealGuard
<1>11. CASE CvSealRaises
  <2>1. cvResult \in WorkerResults
    BY <1>11 DEF CvSealRaises, CvInv
  <2>2. cvResult' \in WorkerResults
    BY <1>11, <2>1 DEF CvSealRaises, WorkerResults
  <2>3. TaskTypes' /\ ThreadTypes'
    BY <1>11, <2>2 DEF CvSealRaises, TaskTypes, TaskStates, ThreadTypes, exVars
  <2> QED
    BY <1>11, <2>3, Undisturbed DEF CvSealRaises
<1>12. CASE CvSealEvent
  <2>1. events' \in Seq(TerminalEvents)
    BY <1>12 DEF CvSealEvent, TraceTypes, TerminalEvents
  <2>2. ThreadTypes' /\ TraceTypes'
    BY <1>12, <2>1 DEF CvSealEvent, ThreadTypes, TraceTypes, exVars, childVars
  <2> QED
    BY <1>12, <2>2, Undisturbed DEF CvSealEvent
<1>13. CASE CvSealIndex
  <2>1. index' \in Entries
    BY <1>13, EntryUpdates DEF CvSealIndex, TraceTypes, Outcomes
  <2>2. ThreadTypes' /\ TraceTypes'
    BY <1>13, <2>1 DEF CvSealIndex, ThreadTypes, TraceTypes, exVars, childVars
  <2> QED
    BY <1>13, <2>2, Undisturbed DEF CvSealIndex
<1>14. CASE CvSealManifest
  <2>1. events[Len(events)] \in TerminalEvents
    BY <1>14 DEF CvSealManifest, CvInv, TraceTypes
  <2>2. index' \in Entries
    BY <1>14, <2>1, EntryUpdates DEF CvSealManifest, TraceTypes
  <2>3. ThreadTypes' /\ TraceTypes'
    BY <1>14, <2>2 DEF CvSealManifest, ThreadTypes, TraceTypes, Outcomes, exVars, childVars
  <2> QED
    BY <1>14, <2>3, Undisturbed DEF CvSealManifest
<1>15. CASE CvClose
  <2>1. TaskTypes' /\ ThreadTypes'
    BY <1>15 DEF CvClose, TaskTypes, ThreadTypes, exVars
  <2> QED
    BY <1>15, <2>1, Undisturbed DEF CvClose
<1> QED
  BY <1>1, <1>2, <1>3, <1>4, <1>5, <1>6, <1>7, <1>8, <1>9, <1>10, <1>11, <1>12, <1>13,
     <1>14, <1>15 DEF CvNext

-----------------------------------------------------------------------------
(* What the steps of one actor leave to the others *)

\* The background thread and the stop handlers never touch the trace; the thread moves
\* the child only by starting it.
LEMMA ExFrame ==
    ASSUME ExNext
    PROVE  /\ UNCHANGED <<cvVars, outcome, events, index, torn, audit, stop>>
           /\ worker => worker'
           /\ \/ ExAssignProcess /\ child' = "unstarted"
              \/ ExSpawn /\ child' = "boot"
              \/ UNCHANGED child
<1>1. CASE ExPrepareFails \/ ExSpawnFails
  BY <1>1 DEF ExPrepareFails, ExSpawnFails, ExFail, childVars, diskVars, cvVars
<1>2. CASE ExRegisterWorker \/ ExAssignProcess \/ ExSpawn
  BY <1>2 DEF ExRegisterWorker, ExAssignProcess, ExSpawn, taskVars, childVars, diskVars, cvVars
<1>3. CASE ExTake \/ ExApply \/ ExWaitSeesExit \/ ExWaitEnds \/ ExRecordTrace
  BY <1>3 DEF ExTake, ExApply, ExWaitSeesExit, ExWaitEnds, ExRecordTrace, taskVars,
     childVars, diskVars, cvVars
<1>4. CASE ExPoll \/ ExYield \/ ExCollect \/ ExWrite
  BY <1>4 DEF ExPoll, ExYield, ExCollect, ExWrite, taskVars, childVars, diskVars, cvVars
<1> QED
  BY <1>1, <1>2, <1>3, <1>4 DEF ExNext

\* A stop handler leaves the background thread, the child, the worker and the disk alone;
\* it starts the convergence thread of a registered worker, and audits only without one.
LEMMA StopFrame ==
    ASSUME NEW r \in StopReqs, StopCheck(r) \/ StopProceeds(r)
    PROVE  /\ UNCHANGED <<exVars, cvTrace, cvResult, hold, workerVars, childVars, diskVars,
                          worker>>
           /\ UNCHANGED cv \/ (cv' = "begin" /\ worker)
           /\ UNCHANGED audit \/ audit' = "open" \/ ~worker
<1>1. CASE StopCheck(r)
  BY <1>1 DEF StopCheck, cvVars
<1>2. CASE StopMark(r) \/ StopAlreadyConverging(r)
  BY <1>2 DEF StopMark, StopAlreadyConverging, taskVars, cvVars
<1>3. CASE StopLaunches(r)
  BY <1>3 DEF StopLaunches
<1>4. CASE StopWithoutWorker(r)
  BY <1>4 DEF StopWithoutWorker, cvVars
<1> QED
  BY <1>1, <1>2, <1>3, <1>4 DEF StopProceeds

\* The child never touches the executor's threads or the task entry.
LEMMA ChildFrame ==
    ASSUME ChildNext
    PROVE  UNCHANGED <<taskVars, exVars, stop, cvVars, hold, wTrace, lastResult>>
<1>1. CASE ChildCreateRun \/ ChildFailsEarly \/ ChildAnnounce \/ ChildStreamEnds
  BY <1>1 DEF ChildCreateRun, ChildFailsEarly, ChildAnnounce, ChildStreamEnds, workerVars
<1>2. ASSUME NEW o \in Outcomes, ChildEnds(o)
      PROVE  UNCHANGED <<taskVars, exVars, stop, cvVars, hold, wTrace, lastResult>>
  BY <1>2 DEF ChildEnds, workerVars
<1>3. CASE ChildIndexes \/ ChildSeals \/ ChildReports \/ ChildExits \/ ChildCrashes
  BY <1>3 DEF ChildIndexes, ChildSeals, ChildReports, ChildExits, ChildCrashes, workerVars
<1> QED
  BY <1>1, <1>2, <1>3 DEF ChildNext

\* The convergence thread moves the child only by killing it, and writes the trace only in
\* its three sealing steps.
LEMMA CvFrame ==
    ASSUME CvNext
    PROVE  /\ UNCHANGED <<exVars, outcome, worker>>
           /\ (CvKill /\ child' = "doomed") \/ UNCHANGED child
           /\ UNCHANGED events \/ CvSealEvent
           /\ UNCHANGED index \/ CvSealGuard \/ CvSealIndex \/ CvSealManifest
<1>1. CASE CvNoProcess \/ CvSetFlag \/ CvJoinRaises \/ CvJoined \/ CvKill \/ CvAfterKill
  BY <1>1 DEF CvNoProcess, CvSetFlag, CvJoinRaises, CvJoined, CvKill, CvAfterKill,
     taskVars, childVars, diskVars
<1>2. CASE CvTake \/ CvApply \/ CvCollect \/ CvPublish \/ CvSealGuard
  BY <1>2 DEF CvTake, CvApply, CvCollect, CvPublish, CvSealGuard, taskVars, childVars, diskVars
<1>3. CASE CvSealRaises \/ CvSealEvent \/ CvSealIndex \/ CvSealManifest \/ CvClose
  BY <1>3 DEF CvSealRaises, CvSealEvent, CvSealIndex, CvSealManifest, CvClose, taskVars,
     childVars, diskVars
<1> QED
  BY <1>1, <1>2, <1>3 DEF CvNext

-----------------------------------------------------------------------------
(* The inductive invariant *)

\* A new task satisfies it: there is no child, no convergence thread and no trace.
THEOREM InvInit == Init => Inv
<1> SUFFICES ASSUME Init PROVE Inv
  OBVIOUS
<1>1. TypeOK
  BY TypeInit
<1>2. ExInv /\ ChildInv /\ FlagInv /\ DiskInv /\ CvInv /\ ConvergedIsHonest
  BY DEF Init, ExInv, ChildInv, FlagInv, DiskInv, CvInv, ConvergedIsHonest, VerdictOnce, NoEntry,
     Outcomes
<1>3. TraceKnown /\ DoneKnown
  BY DEF Init, TraceKnown, DoneKnown, None
<1> QED
  BY <1>1, <1>2, <1>3 DEF Inv

\* Every step keeps the types.
LEMMA TypeStep == ASSUME Inv, [Next]_vars PROVE TypeOK'
<1>1. CASE ExNext
  BY <1>1, ExTypes DEF Inv
<1>2. CASE ChildNext
  BY <1>2, ChildTypes DEF Inv
<1>3. CASE CvNext
  BY <1>3, CvTypes DEF Inv
<1>4. CASE \E r \in StopReqs : StopCheck(r) \/ StopProceeds(r)
  BY <1>4, StopTypes DEF Inv
<1>5. CASE UNCHANGED vars
  BY <1>5, Undisturbed DEF Inv, TypeOK, vars
<1> QED
  BY <1>1, <1>2, <1>3, <1>4, <1>5 DEF Next

\* The thread that starts the child is where the child's position says, after every step.
LEMMA ExInvStep == ASSUME Inv, [Next]_vars PROVE ExInv'
<1> USE DEF Inv, ExInv
<1>1. CASE ExNext
  <2>1. CASE ExPrepareFails \/ ExRegisterWorker \/ ExSpawnFails
    BY <1>1, <2>1, ExFrame DEF ExPrepareFails, ExRegisterWorker, ExSpawnFails, ExFail,
       ExAssignProcess, ExSpawn
  <2>2. CASE ExAssignProcess \/ ExSpawn
    BY <2>2 DEF ExAssignProcess, ExSpawn
  <2>3. CASE ExTake \/ ExApply \/ ExWaitSeesExit \/ ExWaitEnds \/ ExRecordTrace
    BY <2>3 DEF ExTake, ExApply, ExWaitSeesExit, ExWaitEnds, ExRecordTrace, exVars
  <2>4. CASE ExPoll \/ ExYield \/ ExCollect \/ ExWrite
    BY <2>4 DEF ExPoll, ExYield, ExCollect, ExWrite
  <2> QED
    BY <1>1, <2>1, <2>2, <2>3, <2>4 DEF ExNext
<1>2. CASE ChildNext
  <2>1. child \notin {"none", "unstarted"}
    BY <1>2 DEF ChildNext, ChildCreateRun, ChildFailsEarly, ChildAnnounce, ChildStreamEnds,
       ChildEnds, ChildIndexes, ChildSeals, ChildReports, ChildExits, ChildCrashes, Executing
  <2> QED
    BY <1>2, <2>1, ChildFrame DEF exVars
<1>3. CASE CvNext
  <2>1. CvKill => child \notin {"none", "unstarted"}
    BY DEF CvKill, Executing
  <2> QED
    BY <1>3, <2>1, CvFrame DEF exVars
<1>4. CASE \E r \in StopReqs : StopCheck(r) \/ StopProceeds(r)
  BY <1>4, StopFrame DEF exVars, childVars
<1>5. CASE UNCHANGED vars
  BY <1>5 DEF vars, exVars, childVars
<1> QED
  BY <1>1, <1>2, <1>3, <1>4, <1>5 DEF Next

\* What is on disk fits the position of the child, after every step.
LEMMA ChildInvStep == ASSUME Inv, [Next]_vars PROVE ChildInv'
<1> USE DEF Inv
<1>1. CASE ExNext
  BY <1>1, ExFrame DEF ExInv, ChildInv, ExAssignProcess, ExSpawn
<1>2. CASE ChildNext
  <2>1. CASE ChildCreateRun
    BY <2>1 DEF ChildCreateRun, ChildInv, NoEntry
  <2>2. CASE ChildFailsEarly \/ ChildAnnounce \/ ChildStreamEnds \/ ChildReports \/ ChildExits
    BY <2>2 DEF ChildFailsEarly, ChildAnnounce, ChildStreamEnds, ChildReports, ChildExits,
       ChildInv, diskVars
  <2>3. ASSUME NEW o \in Outcomes, ChildEnds(o) PROVE ChildInv'
    <3>1. events = <<>> /\ index.status = "running"
      BY <2>3 DEF ChildEnds, ChildInv
    <3>2. events' = <<EventOf(o)>>
      BY <2>3, <3>1 DEF ChildEnds
    <3>3. outcome' = o /\ child' = "ended" /\ UNCHANGED index
      BY <2>3 DEF ChildEnds
    <3> QED
      BY <3>1, <3>2, <3>3 DEF ChildInv
  <2>4. CASE ChildIndexes
    BY <2>4 DEF ChildIndexes, ChildInv, TypeOK, TraceTypes, Entries
  <2>5. CASE ChildSeals
    BY <2>5 DEF ChildSeals, ChildInv, TypeOK, TraceTypes, Entries
  <2>6. CASE ChildCrashes
    BY <2>6 DEF ChildCrashes, ChildInv
  <2> QED
    BY <1>2, <2>1, <2>2, <2>3, <2>4, <2>5, <2>6 DEF ChildNext
<1>3. CASE CvNext
  <2>1. CASE CvKill
    BY <2>1 DEF CvKill, ChildInv
  <2>2. CASE CvSealGuard \/ CvSealEvent \/ CvSealIndex \/ CvSealManifest
    <3>1. child \in {"doomed", "gone"}
      BY <2>2 DEF CvSealGuard, CvSealEvent, CvSealIndex, CvSealManifest, CvInv
    <3>2. UNCHANGED child
      BY <2>2 DEF CvSealGuard, CvSealEvent, CvSealIndex, CvSealManifest, childVars
    <3> QED
      BY <3>1, <3>2 DEF ChildInv
  <2>3. CASE UNCHANGED <<child, outcome, events, index>>
    BY <2>3 DEF ChildInv
  <2> QED
    BY <1>3, <2>1, <2>2, <2>3, CvFrame
<1>4. CASE \E r \in StopReqs : StopCheck(r) \/ StopProceeds(r)
  BY <1>4, StopFrame DEF ChildInv, childVars, diskVars
<1>5. CASE UNCHANGED vars
  BY <1>5 DEF ChildInv, vars, childVars, diskVars
<1> QED
  BY <1>1, <1>2, <1>3, <1>4, <1>5 DEF Next

\* A cancelled run was told to cancel, after every step.
LEMMA FlagInvStep == ASSUME Inv, [Next]_vars PROVE FlagInv'
<1> USE DEF Inv, FlagInv
<1>1. CASE ExNext
  <2>1. cancelFlag' = cancelFlag
    BY <1>1 DEF ExNext, ExPrepareFails, ExRegisterWorker, ExAssignProcess, ExSpawn,
       ExSpawnFails, ExTake, ExApply, ExWaitSeesExit, ExWaitEnds, ExRecordTrace, ExPoll,
       ExYield, ExCollect, ExWrite, Take, Apply, workerVars
  <2> QED
    BY <1>1, <2>1, ExFrame
<1>2. CASE ChildNext
  <2>1. ASSUME NEW o \in Outcomes, ChildEnds(o) PROVE FlagInv'
    BY <2>1 DEF ChildEnds, ChildInv, workerVars
  <2>2. CASE UNCHANGED <<outcome, cancelFlag>>
    BY <2>2
  <2> QED
    BY <1>2, <2>1, <2>2 DEF ChildNext, ChildCreateRun, ChildFailsEarly, ChildAnnounce,
       ChildStreamEnds, ChildIndexes, ChildSeals, ChildReports, ChildExits, ChildCrashes,
       workerVars
<1>3. CASE CvNext
  <2>1. cancelFlag => cancelFlag'
    BY <1>3 DEF CvNext, CvNoProcess, CvSetFlag, CvJoinRaises, CvJoined, CvKill, CvAfterKill,
       CvTake, CvApply, CvCollect, CvPublish, CvSealGuard, CvSealRaises, CvSealEvent,
       CvSealIndex, CvSealManifest, CvClose, Take, Apply, workerVars
  <2> QED
    BY <1>3, <2>1, CvFrame
<1>4. CASE \E r \in StopReqs : StopCheck(r) \/ StopProceeds(r)
  BY <1>4, StopFrame DEF workerVars, childVars
<1>5. CASE UNCHANGED vars
  BY <1>5 DEF vars, workerVars, childVars
<1> QED
  BY <1>1, <1>2, <1>3, <1>4, <1>5 DEF Next

\* The trace has one verdict, and an outcome only with one, after every step.
LEMMA DiskInvStep == ASSUME Inv, [Next]_vars PROVE DiskInv'
<1> USE DEF Inv, DiskInv, VerdictOnce
<1>1. CASE ExNext
  BY <1>1, ExFrame
<1>2. CASE ChildNext
  <2>1. CASE ChildCreateRun
    BY <2>1 DEF ChildCreateRun, ChildInv, NoEntry, Outcomes
  <2>2. CASE ChildFailsEarly \/ ChildAnnounce \/ ChildStreamEnds \/ ChildReports \/ ChildExits
             \/ ChildCrashes
    BY <2>2 DEF ChildFailsEarly, ChildAnnounce, ChildStreamEnds, ChildReports, ChildExits,
       ChildCrashes, diskVars
  <2>3. ASSUME NEW o \in Outcomes, ChildEnds(o) PROVE DiskInv'
    <3>1. events = <<>> /\ events' = Append(events, EventOf(o))
      BY <2>3 DEF ChildEnds, ChildInv
    <3> QED
      BY <3>1
  <2>4. CASE ChildIndexes
    BY <2>4 DEF ChildIndexes, ChildInv
  <2>5. CASE ChildSeals
    BY <2>5 DEF ChildSeals, ChildInv
  <2> QED
    BY <1>2, <2>1, <2>2, <2>3, <2>4, <2>5 DEF ChildNext
<1>3. CASE CvNext
  <2>1. CASE CvSealEvent
    <3>1. CASE events = <<>>
      BY <2>1, <3>1 DEF CvSealEvent
    <3>2. CASE events # <<>>
      BY <2>1, <3>2 DEF CvSealEvent
    <3> QED
      BY <3>1, <3>2
  <2>2. CASE CvSealGuard
    BY <2>2 DEF CvSealGuard, TypeOK, TraceTypes, Entries
  <2>3. CASE CvSealIndex \/ CvSealManifest
    BY <2>3 DEF CvSealIndex, CvSealManifest, CvInv
  <2>4. CASE UNCHANGED <<events, index>>
    BY <2>4
  <2> QED
    BY <1>3, <2>1, <2>2, <2>3, <2>4, CvFrame
<1>4. CASE \E r \in StopReqs : StopCheck(r) \/ StopProceeds(r)
  BY <1>4, StopFrame DEF diskVars
<1>5. CASE UNCHANGED vars
  BY <1>5 DEF vars, diskVars
<1> QED
  BY <1>1, <1>2, <1>3, <1>4, <1>5 DEF Next

\* The convergence thread touches the trace only of a child that no longer runs, after
\* every step.
LEMMA CvInvStep == ASSUME Inv, [Next]_vars PROVE CvInv'
<1> USE DEF Inv
<1>1. CASE ExNext
  <2>1. child' \in {"doomed", "gone"} \/ child \notin {"doomed", "gone"}
    BY <1>1, ExFrame DEF ExInv, ExAssignProcess, ExSpawn
  <2> QED
    BY <1>1, <2>1, ExFrame DEF CvInv, cvVars
<1>2. CASE ChildNext
  <2>1. child \in {"doomed", "gone"} => child' \in {"doomed", "gone"} /\ UNCHANGED <<events, index>>
    BY <1>2 DEF ChildNext, ChildCreateRun, ChildFailsEarly, ChildAnnounce, ChildStreamEnds,
       ChildEnds, ChildIndexes, ChildSeals, ChildReports, ChildExits, ChildCrashes, Executing,
       diskVars
  <2>2. index.status \in Outcomes => index'.status \in Outcomes
    <3>1. CASE ChildCreateRun
      BY <3>1 DEF ChildCreateRun, ChildInv, NoEntry, Outcomes
    <3>2. CASE ChildIndexes
      BY <3>2 DEF ChildIndexes, ChildInv, TypeOK, TraceTypes, Entries
    <3>3. CASE ChildSeals
      BY <3>3 DEF ChildSeals, TypeOK, TraceTypes, Entries
    <3>4. CASE UNCHANGED index
      BY <3>4
    <3> QED
      BY <1>2, <3>1, <3>2, <3>3, <3>4 DEF ChildNext, ChildFailsEarly, ChildAnnounce,
         ChildStreamEnds, ChildEnds, ChildReports, ChildExits, ChildCrashes, diskVars
  <2> QED
    BY <1>2, <2>1, <2>2, ChildFrame DEF CvInv, cvVars, taskVars
<1>3. CASE CvNext
  <2> USE DEF CvInv
  <2>1. CASE CvNoProcess
    <3>1. ~cvTrace' /\ ~cvResult'.trace
      BY <2>1 DEF CvNoProcess, ChildInv, TraceKnown, NoEntry, Result
    <3>2. cvResult' \in WorkerResults
      BY <2>1, DataTypes DEF CvNoProcess, TypeOK, WorkerTypes
    <3> QED
      BY <2>1, <3>1, <3>2 DEF CvNoProcess, taskVars
  <2>2. CASE CvSetFlag \/ CvJoinRaises
    BY <2>2 DEF CvSetFlag, CvJoinRaises, taskVars
  <2>3. CASE CvJoined \/ CvKill \/ CvAfterKill
    BY <2>3 DEF CvJoined, CvKill, CvAfterKill, taskVars, childVars
  <2>4. CASE CvTake \/ CvApply
    BY <2>4 DEF CvTake, CvApply, cvVars, taskVars, childVars, diskVars
  <2>5. CASE CvCollect
    <3>1. cvResult' \in WorkerResults
      BY <2>5, DataTypes DEF CvCollect, TypeOK, WorkerTypes, Results
    <3> QED
      BY <2>5, <3>1 DEF CvCollect, taskVars, childVars, diskVars
  <2>6. CASE CvPublish
    <3>1. cvTrace \in BOOLEAN /\ cvResult.trace \in BOOLEAN
      BY <2>6, DataTypes DEF CvPublish, TypeOK, ThreadTypes
    <3> QED
      BY <2>6, <3>1 DEF CvPublish, childVars, diskVars
  <2>7. CASE CvSealGuard
    <3>1. index.status \in Outcomes \cup {"running"}
      BY <2>7 DEF CvSealGuard, TraceKnown, TypeOK, TraceTypes, Entries
    <3>2. index'.status = index.status
      BY <2>7 DEF CvSealGuard, TypeOK, TraceTypes, Entries
    <3> QED
      BY <2>7, <3>1, <3>2 DEF CvSealGuard, NotTakenOver, Outcomes, taskVars, childVars
  <2>8. CASE CvSealRaises
    <3>1. cvResult \in WorkerResults
      BY <2>8 DEF CvSealRaises
    <3>2. cvResult' \in WorkerResults /\ cvResult'.status = "cancel_timeout"
      BY <2>8, <3>1 DEF CvSealRaises, WorkerResults
    <3> QED
      BY <2>8, <3>2 DEF CvSealRaises
  <2>9. CASE CvSealEvent
    <3>1. events' # <<>>
      <4>1. CASE events = <<>>
        BY <2>9, <4>1 DEF CvSealEvent
      <4>2. CASE events # <<>>
        BY <2>9, <4>2 DEF CvSealEvent
      <4> QED
        BY <4>1, <4>2
    <3> QED
      BY <2>9, <3>1 DEF CvSealEvent, taskVars, childVars
  <2>10. CASE CvSealIndex
    <3>1. index'.status = "cancelled" /\ index'.phase = "sealing"
      BY <2>10 DEF CvSealIndex, TypeOK, TraceTypes, Entries
    <3> QED
      BY <2>10, <3>1 DEF CvSealIndex, taskVars, childVars
  <2>11. CASE CvSealManifest
    <3>1. index'.status = "cancelled"
      BY <2>11 DEF CvSealManifest, TypeOK, TraceTypes, Entries
    <3> QED
      BY <2>11, <3>1 DEF CvSealManifest, Outcomes, taskVars, childVars
  <2>12. CASE CvClose
    BY <2>12 DEF CvClose
  <2> QED
    BY <1>3, <2>1, <2>2, <2>3, <2>4, <2>5, <2>6, <2>7, <2>8, <2>9, <2>10, <2>11, <2>12
       DEF CvNext
<1>4. CASE \E r \in StopReqs : StopCheck(r) \/ StopProceeds(r)
  BY <1>4, StopFrame DEF CvInv, childVars, diskVars
<1>5. CASE UNCHANGED vars
  BY <1>5 DEF CvInv, vars, taskVars, cvVars, childVars, diskVars
<1> QED
  BY <1>1, <1>2, <1>3, <1>4, <1>5 DEF Next

\* Nobody knows a trace that has no entry, after every step.
LEMMA TraceKnownStep == ASSUME Inv, [Next]_vars PROVE TraceKnown'
<1> SUFFICES ASSUME index'.status = "absent" PROVE TraceKnown'
  BY DEF TraceKnown
<1> USE DEF Inv
<1>1. index.status = "absent"
  <2>1. CASE ChildNext
    <3>1. CASE UNCHANGED index
      BY <3>1
    <3>2. CASE ChildCreateRun \/ ChildIndexes
      BY <3>2 DEF ChildCreateRun, ChildIndexes, ChildInv, TypeOK, TraceTypes, Entries, Outcomes
    <3>3. CASE ChildSeals
      BY <3>3 DEF ChildSeals, TypeOK, TraceTypes, Entries
    <3> QED
      BY <2>1, <3>1, <3>2, <3>3 DEF ChildNext, ChildFailsEarly, ChildAnnounce,
         ChildStreamEnds, ChildEnds, ChildReports, ChildExits, ChildCrashes, diskVars
  <2>2. CASE CvNext
    <3>1. CvSealGuard \/ CvSealIndex \/ CvSealManifest => FALSE
      BY DEF CvSealGuard, CvSealIndex, CvSealManifest, TypeOK, TraceTypes, Entries, CvInv,
         TraceKnown
    <3> QED
      BY <2>2, <3>1, CvFrame
  <2>3. CASE ExNext
    BY <2>3, ExFrame
  <2>4. CASE \E r \in StopReqs : StopCheck(r) \/ StopProceeds(r)
    BY <2>4, StopFrame DEF diskVars
  <2>5. CASE UNCHANGED vars
    BY <2>5 DEF vars, diskVars
  <2> QED
    BY <2>1, <2>2, <2>3, <2>4, <2>5 DEF Next
<1> DEFINE Unknown ==
      /\ ~wTrace /\ ~lastResult.trace /\ ~cvTrace /\ ~cvResult.trace
      /\ \A t \in {"ex", "cv"} : ~hold[t].trace
      /\ \A i \in 1 .. Len(queue) : ~queue[i].trace
<1>2. Unknown
  BY <1>1 DEF TraceKnown
<1>3. ASSUME NEW t \in {"ex", "cv"}, Take(t)
      PROVE  /\ UNCHANGED <<wTrace, lastResult>>
             /\ \A u \in {"ex", "cv"} : ~hold'[u].trace
             /\ \A i \in 1 .. Len(queue') : ~queue'[i].trace
  <2>1. queue \in Seq(Messages) /\ queue # <<>>
    BY <1>3 DEF Take, TypeOK, WorkerTypes
  <2>2. Head(queue) = queue[1] /\ 1 \in 1 .. Len(queue)
    BY <2>1
  <2>3. \A i \in 1 .. Len(Tail(queue)) :
            Tail(queue)[i] = queue[i + 1] /\ i + 1 \in 1 .. Len(queue)
    BY <2>1
  <2> QED
    BY <1>2, <1>3, <2>2, <2>3 DEF Take, TypeOK, ThreadTypes
<1>4. ASSUME NEW t \in {"ex", "cv"}, Apply(t)
      PROVE  /\ UNCHANGED queue
             /\ ~wTrace' /\ ~lastResult'.trace
             /\ \A u \in {"ex", "cv"} : ~hold'[u].trace
  BY <1>2, <1>4 DEF Apply, None, TypeOK, ThreadTypes
<1>5. CASE ExNext
  <2>1. CASE ExTake
    BY <1>2, <1>3, <2>1 DEF ExTake, TraceKnown, cvVars
  <2>2. CASE ExApply
    BY <1>2, <1>4, <2>2 DEF ExApply, TraceKnown, cvVars
  <2>3. CASE UNCHANGED <<workerVars, hold, cvVars>>
    BY <1>2, <2>3 DEF TraceKnown, workerVars, cvVars
  <2> QED
    BY <1>5, <2>1, <2>2, <2>3 DEF ExNext, ExPrepareFails, ExRegisterWorker, ExAssignProcess,
       ExSpawn, ExSpawnFails, ExWaitSeesExit, ExWaitEnds, ExRecordTrace, ExPoll, ExYield,
       ExCollect, ExWrite
<1>6. CASE ChildNext
  <2>1. \/ UNCHANGED queue
        \/ queue' = Append(queue, Result("failed", FALSE))
    BY <1>1, <1>6 DEF ChildNext, ChildCreateRun, ChildFailsEarly, ChildAnnounce,
       ChildStreamEnds, ChildEnds, ChildIndexes, ChildSeals, ChildReports, ChildExits,
       ChildCrashes, ChildInv, workerVars, Outcomes
  <2>2. \A i \in 1 .. Len(queue') : ~queue'[i].trace
    <3>1. CASE UNCHANGED queue
      BY <1>2, <3>1
    <3>2. CASE queue' = Append(queue, Result("failed", FALSE))
      <4>1. queue \in Seq(Messages) /\ ~Result("failed", FALSE).trace
        BY DEF TypeOK, WorkerTypes, Result
      <4> QED
        BY <1>2, <3>2, <4>1, Queued
    <3> QED
      BY <2>1, <3>1, <3>2
  <2> QED
    BY <1>2, <1>6, <2>2, ChildFrame DEF TraceKnown, cvVars
<1>7. CASE CvNext
  <2>1. CASE CvTake
    BY <1>2, <1>3, <2>1 DEF CvTake, TraceKnown, cvVars
  <2>2. CASE CvApply
    BY <1>2, <1>4, <2>2 DEF CvApply, TraceKnown, cvVars
  <2>3. CASE CvNoProcess \/ CvCollect
    BY <1>2, <2>3 DEF CvNoProcess, CvCollect, TraceKnown, Result, workerVars
  <2>4. CASE CvSetFlag \/ CvPublish
    BY <1>2, <2>4 DEF CvSetFlag, CvPublish, TraceKnown, workerVars
  <2>5. CASE CvSealRaises
    BY <1>2, <2>5 DEF CvSealRaises, TraceKnown, workerVars, CvInv, WorkerResults
  <2>6. CASE UNCHANGED <<workerVars, hold, cvTrace, cvResult>>
    BY <1>2, <2>6 DEF TraceKnown, workerVars
  <2> QED
    BY <1>7, <2>1, <2>2, <2>3, <2>4, <2>5, <2>6 DEF CvNext, CvJoinRaises, CvJoined, CvKill,
       CvAfterKill, CvSealGuard, CvSealEvent, CvSealIndex, CvSealManifest, CvClose
<1>8. CASE \E r \in StopReqs : StopCheck(r) \/ StopProceeds(r)
  BY <1>2, <1>8, StopFrame DEF TraceKnown, workerVars
<1>9. CASE UNCHANGED vars
  BY <1>2, <1>9 DEF TraceKnown, vars, workerVars, cvVars
<1> QED
  BY <1>5, <1>6, <1>7, <1>8, <1>9 DEF Next

\* Nobody says done of a run that is not, after every step.
LEMMA DoneKnownStep == ASSUME Inv, [Next]_vars PROVE DoneKnown'
<1> SUFFICES ASSUME ~DoneOnDisk' PROVE DoneKnown'
  BY DEF DoneKnown
<1> USE DEF Inv
<1>1. ~DoneOnDisk
  <2> SUFFICES ASSUME DoneOnDisk PROVE DoneOnDisk'
    OBVIOUS
  <2> USE DEF DoneOnDisk
  <2>1. CASE ChildNext
    BY <2>1 DEF ChildNext, ChildCreateRun, ChildFailsEarly, ChildAnnounce, ChildStreamEnds,
       ChildEnds, ChildIndexes, ChildSeals, ChildReports, ChildExits, ChildCrashes, diskVars
  <2>2. CASE CvNext
    <3>1. CvSealGuard => UNCHANGED index
      BY DEF CvSealGuard, NotTakenOver
    <3>2. ~CvSealIndex /\ ~CvSealManifest
      BY DEF CvSealIndex, CvSealManifest, CvInv
    <3> QED
      BY <2>2, <3>1, <3>2, CvFrame
  <2>3. CASE ExNext
    BY <2>3, ExFrame DEF ExInv, ExAssignProcess, ExSpawn
  <2>4. CASE \E r \in StopReqs : StopCheck(r) \/ StopProceeds(r)
    BY <2>4, StopFrame DEF childVars, diskVars
  <2>5. CASE UNCHANGED vars
    BY <2>5 DEF vars, childVars, diskVars
  <2> QED
    BY <2>1, <2>2, <2>3, <2>4, <2>5 DEF Next
<1>2. /\ status # "done" /\ exResult.status # "done" /\ cvResult.status # "done"
      /\ lastResult.status # "done"
      /\ \A t \in {"ex", "cv"} : hold[t].status # "done"
      /\ \A i \in 1 .. Len(queue) : queue[i].status # "done"
  BY <1>1 DEF DoneKnown
<1>3. ASSUME NEW t \in {"ex", "cv"}, Take(t)
      PROVE  /\ UNCHANGED lastResult
             /\ \A u \in {"ex", "cv"} : hold'[u].status # "done"
             /\ \A i \in 1 .. Len(queue') : queue'[i].status # "done"
  <2>1. queue \in Seq(Messages) /\ queue # <<>>
    BY <1>3 DEF Take, TypeOK, WorkerTypes
  <2>2. Head(queue) = queue[1] /\ 1 \in 1 .. Len(queue)
    BY <2>1
  <2>3. \A i \in 1 .. Len(Tail(queue)) :
            Tail(queue)[i] = queue[i + 1] /\ i + 1 \in 1 .. Len(queue)
    BY <2>1
  <2> QED
    BY <1>2, <1>3, <2>2, <2>3 DEF Take, TypeOK, ThreadTypes
<1>4. ASSUME NEW t \in {"ex", "cv"}, Apply(t)
      PROVE  /\ UNCHANGED queue
             /\ lastResult'.status # "done"
             /\ \A u \in {"ex", "cv"} : hold'[u].status # "done"
  BY <1>2, <1>4 DEF Apply, None, TypeOK, ThreadTypes
<1>5. CASE ExNext
  <2>1. CASE ExTake
    BY <1>2, <1>3, <2>1 DEF ExTake, DoneKnown, taskVars, exVars, cvVars
  <2>2. CASE ExApply
    BY <1>2, <1>4, <2>2 DEF ExApply, DoneKnown, taskVars, cvVars
  <2>3. CASE ExPrepareFails \/ ExSpawnFails
    BY <1>2, <2>3 DEF ExPrepareFails, ExSpawnFails, ExFail, DoneKnown, workerVars, cvVars
  <2>4. CASE ExCollect \/ ExWrite
    BY <1>2, <2>4 DEF ExCollect, ExWrite, DoneKnown, taskVars, workerVars, cvVars
  <2>5. CASE UNCHANGED <<status, exResult, workerVars, hold, cvVars>>
    BY <1>2, <2>5 DEF DoneKnown, workerVars, cvVars
  <2> QED
    BY <1>5, <2>1, <2>2, <2>3, <2>4, <2>5 DEF ExNext, ExRegisterWorker, ExAssignProcess,
       ExSpawn, ExWaitSeesExit, ExWaitEnds, ExRecordTrace, ExPoll, ExYield, taskVars
<1>6. CASE ChildNext
  <2>1. CASE ChildReports
    <3>1. outcome # "completed"
      BY <1>2, <2>1 DEF ChildReports, ChildInv, DoneOnDisk, diskVars
    <3>2. PICK m \in ResultMsgs : m.status # "done" /\ queue' = Append(queue, m)
      <4> DEFINE s == IF outcome \notin {"completed", "cancelled"} THEN outcome
                      ELSE IF cancelFlag THEN "cancelled" ELSE "done"
      <4>1. CASE s # "done"
        <5>1. outcome \in Outcomes
          BY <2>1 DEF ChildReports, ChildInv
        <5>2. s \in Results
          BY <5>1 DEF Results, Outcomes
        <5>3. Result(s, TRUE) \in ResultMsgs /\ Result(s, TRUE).status = s
          BY <5>2, DataTypes DEF Result
        <5> QED
          BY <2>1, <4>1, <5>3 DEF ChildReports
      <4>2. CASE s = "done"
        <5>1. outcome = "cancelled" /\ ~cancelFlag
          BY <3>1, <4>2, <2>1 DEF ChildReports, ChildInv, Outcomes
        <5> QED
          BY <5>1 DEF FlagInv
      <4> QED
        BY <4>1, <4>2
    <3> QED
      BY <1>2, <1>6, <3>2, ChildFrame DEF DoneKnown, TypeOK, WorkerTypes, taskVars, exVars, cvVars
  <2>2. CASE ChildFailsEarly
    BY <1>2, <1>6, <2>2, ChildFrame DEF ChildFailsEarly, DoneKnown, TypeOK, WorkerTypes,
       Result, taskVars, exVars, cvVars
  <2>3. CASE ChildAnnounce
    BY <1>2, <1>6, <2>3, ChildFrame DEF ChildAnnounce, DoneKnown, TypeOK, WorkerTypes,
       TraceMsg, taskVars, exVars, cvVars
  <2>4. CASE UNCHANGED queue
    BY <1>2, <1>6, <2>4, ChildFrame DEF DoneKnown, taskVars, exVars, cvVars
  <2> QED
    BY <1>6, <2>1, <2>2, <2>3, <2>4 DEF ChildNext, ChildCreateRun, ChildStreamEnds,
       ChildEnds, ChildIndexes, ChildSeals, ChildExits, ChildCrashes, workerVars
<1>7. CASE CvNext
  <2>1. CASE CvTake
    BY <1>2, <1>3, <2>1 DEF CvTake, DoneKnown, taskVars, exVars, cvVars
  <2>2. CASE CvApply
    BY <1>2, <1>4, <2>2 DEF CvApply, DoneKnown, taskVars, exVars, cvVars
  <2>3. CASE CvNoProcess \/ CvCollect
    BY <1>2, <2>3 DEF CvNoProcess, CvCollect, DoneKnown, Result, workerVars, taskVars, exVars
  <2>4. CASE CvSetFlag \/ CvPublish \/ CvJoinRaises
    BY <1>2, <2>4 DEF CvSetFlag, CvPublish, CvJoinRaises, DoneKnown, workerVars, taskVars, exVars
  <2>5. CASE CvSealRaises
    BY <1>2, <2>5 DEF CvSealRaises, DoneKnown, workerVars, exVars, CvInv, WorkerResults
  <2>6. CASE UNCHANGED <<workerVars, hold, cvResult, status, exVars>>
    BY <1>2, <2>6 DEF DoneKnown, workerVars, exVars
  <2> QED
    BY <1>7, <2>1, <2>2, <2>3, <2>4, <2>5, <2>6 DEF CvNext, CvJoined, CvKill, CvAfterKill,
       CvSealGuard, CvSealEvent, CvSealIndex, CvSealManifest, CvClose, taskVars
<1>8. CASE \E r \in StopReqs : StopCheck(r) \/ StopProceeds(r)
  <2>1. status' # "done"
    BY <1>2, <1>8 DEF StopCheck, StopProceeds, StopMark, StopLaunches, StopAlreadyConverging,
       StopWithoutWorker, taskVars
  <2> QED
    BY <1>2, <1>8, <2>1, StopFrame DEF DoneKnown, workerVars, exVars
<1>9. CASE UNCHANGED vars
  BY <1>2, <1>9 DEF DoneKnown, vars, workerVars, taskVars, exVars, cvVars
<1> QED
  BY <1>5, <1>6, <1>7, <1>8, <1>9 DEF Next

\* A convergence that ended as cancelled stays honest, after every step.
LEMMA HonestStep == ASSUME Inv, [Next]_vars PROVE ConvergedIsHonest'
<1> USE DEF Inv, ConvergedIsHonest
<1>1. CASE ExNext
  BY <1>1, ExFrame DEF cvVars
<1>2. CASE ChildNext
  <2>1. events # <<>> => events' # <<>>
    <3>1. ASSUME NEW o \in Outcomes, ChildEnds(o) PROVE events' # <<>>
      BY <3>1 DEF ChildEnds, TypeOK, TraceTypes
    <3>2. CASE UNCHANGED events
      BY <3>2
    <3> QED
      BY <1>2, <3>1, <3>2 DEF ChildNext, ChildCreateRun, ChildFailsEarly, ChildAnnounce,
         ChildStreamEnds, ChildIndexes, ChildSeals, ChildReports, ChildExits, ChildCrashes,
         diskVars
  <2>2. index.status \in Outcomes => index'.status \in Outcomes
    <3>1. CASE ChildCreateRun
      BY <3>1 DEF ChildCreateRun, ChildInv, NoEntry, Outcomes
    <3>2. CASE ChildIndexes
      BY <3>2 DEF ChildIndexes, ChildInv, TypeOK, TraceTypes, Entries
    <3>3. CASE ChildSeals
      BY <3>3 DEF ChildSeals, TypeOK, TraceTypes, Entries
    <3>4. CASE UNCHANGED index
      BY <3>4
    <3> QED
      BY <1>2, <3>1, <3>2, <3>3, <3>4 DEF ChildNext, ChildFailsEarly, ChildAnnounce,
         ChildStreamEnds, ChildEnds, ChildReports, ChildExits, ChildCrashes, diskVars
  <2> QED
    BY <1>2, <2>1, <2>2, ChildFrame DEF cvVars, taskVars
<1>3. CASE CvNext
  <2>1. CASE CvClose
    BY <2>1 DEF CvClose, CvInv, DiskInv, diskVars
  <2>2. CASE CvJoinRaises
    BY <2>2 DEF CvJoinRaises
  <2>3. CASE cv' # "done"
    BY <2>3
  <2> QED
    BY <1>3, <2>1, <2>2, <2>3 DEF CvNext, CvNoProcess, CvSetFlag, CvJoined, CvKill,
       CvAfterKill, CvTake, CvApply, CvCollect, CvPublish, CvSealGuard, CvSealRaises,
       CvSealEvent, CvSealIndex, CvSealManifest, cvVars
<1>4. CASE \E r \in StopReqs : StopCheck(r) \/ StopProceeds(r)
  BY <1>4, StopFrame DEF CvInv, diskVars
<1>5. CASE UNCHANGED vars
  BY <1>5 DEF vars, taskVars, cvVars, diskVars
<1> QED
  BY <1>1, <1>2, <1>3, <1>4, <1>5 DEF Next

\* The inductive invariant holds throughout every behaviour of the task.
THEOREM Invariance == Spec => []Inv
<1>1. Inv /\ [Next]_vars => Inv'
  BY TypeStep, ExInvStep, ChildInvStep, FlagInvStep, DiskInvStep, CvInvStep,
     TraceKnownStep, DoneKnownStep, HonestStep
     DEF Inv
<1> QED
  BY InvInit, <1>1, PTL DEF Spec

\* Type correctness of the task, its threads, the worker, the child and the trace.
THEOREM TypeCorrect == Spec => []TypeOK
<1>1. Inv => TypeOK
  BY DEF Inv
<1> QED
  BY Invariance, <1>1, PTL

\* Child and convergence thread never give one trace two terminal events, however many
\* stop requests race the end of the run.
THEOREM OneVerdict == Spec => []VerdictOnce
<1>1. Inv => VerdictOnce
  BY DEF Inv, DiskInv
<1> QED
  BY Invariance, <1>1, PTL

\* A convergence that reports cancelled has left no trace it knew of without a verdict.
THEOREM HonestConvergence == Spec => []ConvergedIsHonest
<1>1. Inv => ConvergedIsHonest
  BY DEF Inv
<1> QED
  BY Invariance, <1>1, PTL

\* A task that is reported done has a completed, sealed trace.
THEOREM DoneIsCompleted == Spec => []DoneMeansCompleted
<1>1. Inv => DoneMeansCompleted
  BY DEF Inv, DoneKnown, DoneOnDisk, DoneMeansCompleted
<1> QED
  BY Invariance, <1>1, PTL

-----------------------------------------------------------------------------
(* AbTask implements TraceLife *)

\* Both modules speak of the same outcomes and events.
LEMMA SameData ==
    /\ Life!Outcomes = Outcomes /\ Life!TerminalEvents = TerminalEvents
    /\ Life!NotTakenOver = NotTakenOver /\ Life!None = "none"
    /\ \A o \in Outcomes : Life!EventOf(o) = EventOf(o)
  BY DEF Life!Outcomes, Outcomes, Life!TerminalEvents, TerminalEvents, Life!NotTakenOver,
     NotTakenOver, Life!None, Life!EventOf, EventOf

\* A task starts without a trace.
LEMMA LifeStarts == Init => Life!LifeInit
  BY SameData DEF Init, NoEntry, Life!LifeInit

\* Every step of the task opens, judges, closes or seals the trace, or leaves it alone.
LEMMA LifeSteps == ASSUME Inv, [Next]_vars PROVE [Life!LifeNext]_Life!lifeVars
<1> DEFINE v == IF events = <<>> THEN "none" ELSE events[Len(events)]
<1> USE DEF Inv, Life!lifeVars
<1>1. CASE UNCHANGED <<events, index>>
  BY <1>1
<1>2. CASE ChildCreateRun
  BY <1>2 DEF ChildCreateRun, ChildInv, NoEntry, Life!LifeNext, Life!Open
<1>3. ASSUME NEW o \in Outcomes, ChildEnds(o) PROVE Life!LifeNext
  <2>1. events = <<>> /\ index.status = "running"
    BY <1>3 DEF ChildEnds, ChildInv
  <2>2. events' = <<EventOf(o)>> /\ UNCHANGED index
    BY <1>3, <2>1 DEF ChildEnds
  <2>3. Life!Judge(EventOf(o))
    BY <2>1, <2>2, SameData DEF Life!Judge
  <2> QED
    BY <2>3, DataTypes, SameData DEF Life!LifeNext
<1>4. CASE ChildIndexes
  <2>a. index.status = "running" /\ outcome \in Outcomes /\ events = <<EventOf(outcome)>>
    BY <1>4 DEF ChildIndexes, ChildInv
  <2>b. events # <<>> /\ events[Len(events)] = EventOf(outcome)
    BY <2>a
  <2>1. v # "none" /\ index.status = "running" /\ outcome \in Outcomes
    BY <2>a, <2>b, DataTypes DEF TerminalEvents
  <2>2. Life!Close(outcome)
    BY <1>4, <2>a, <2>b, <2>1, SameData DEF ChildIndexes, Life!Close, NotTakenOver, TypeOK,
       TraceTypes, Entries
  <2> QED
    BY <2>1, <2>2, SameData DEF Life!LifeNext
<1>5. CASE ChildSeals
  <2>a. events = <<EventOf(outcome)>> /\ index.phase = "sealing"
    BY <1>5 DEF ChildSeals, ChildInv
  <2>1. events # <<>> /\ index.phase = "sealing"
    BY <2>a
  <2>2. Life!Seal
    BY <1>5, <2>1 DEF ChildSeals, Life!Seal, TypeOK, TraceTypes, Entries
  <2> QED
    BY <2>2 DEF Life!LifeNext
<1>6. CASE CvSealGuard
  BY <1>6 DEF CvSealGuard, TypeOK, TraceTypes, Entries
<1>7. CASE CvSealEvent
  <2>1. CASE events # <<>>
    BY <1>7, <2>1 DEF CvSealEvent
  <2>2. CASE events = <<>>
    <3>1. events' = <<"run_cancelled">> /\ UNCHANGED index
      BY <1>7, <2>2 DEF CvSealEvent
    <3>2. index.status # "absent"
      BY <1>7 DEF CvSealEvent, CvInv
    <3>3. Life!Judge("run_cancelled")
      BY <2>2, <3>1, <3>2, SameData DEF Life!Judge
    <3> QED
      BY <3>3, SameData DEF Life!LifeNext, TerminalEvents
  <2> QED
    BY <2>1, <2>2
<1>8. CASE CvSealIndex
  <2>1. events # <<>> /\ index.status \notin NotTakenOver
    BY <1>8 DEF CvSealIndex, CvInv, NotTakenOver
  <2>2. v # "none"
    BY <2>1 DEF TypeOK, TraceTypes, TerminalEvents
  <2>3. Life!Close("cancelled")
    BY <1>8, <2>1, <2>2, SameData DEF CvSealIndex, Life!Close, TypeOK, TraceTypes, Entries
  <2> QED
    BY <2>3, SameData DEF Life!LifeNext, Outcomes
<1>9. CASE CvSealManifest
  <2>1. events # <<>> /\ index.phase = "sealing"
    BY <1>9 DEF CvSealManifest, CvInv
  <2>2. Life!Seal
    BY <1>9, <2>1 DEF CvSealManifest, Life!Seal, TypeOK, TraceTypes, Entries
  <2> QED
    BY <2>2 DEF Life!LifeNext
<1>10. CASE ExNext
  BY <1>10, <1>1, ExFrame
<1>11. CASE ChildNext
  BY <1>11, <1>1, <1>2, <1>3, <1>4, <1>5 DEF ChildNext, ChildFailsEarly, ChildAnnounce,
     ChildStreamEnds, ChildReports, ChildExits, ChildCrashes, diskVars
<1>12. CASE CvNext
  BY <1>12, <1>1, <1>6, <1>7, <1>8, <1>9, CvFrame
<1>13. CASE \E r \in StopReqs : StopCheck(r) \/ StopProceeds(r)
  BY <1>13, <1>1, StopFrame DEF diskVars
<1>14. CASE UNCHANGED vars
  BY <1>14, <1>1 DEF vars, diskVars
<1> QED
  BY <1>10, <1>11, <1>12, <1>13, <1>14 DEF Next

\* The trace that child, kill and seal leave behind lives as TraceLife says.
THEOREM Refinement == Spec => TraceLives
<1>1. Inv /\ [Next]_vars => [Life!LifeNext]_Life!lifeVars
  BY LifeSteps
<1> QED
  BY LifeStarts, Invariance, <1>1, PTL DEF Spec, TraceLives, Life!LifeSpec

-----------------------------------------------------------------------------
(* What the convergence leaves behind *)

\* A child that was not spawned has sent nothing; a convergence has no result before it is
\* past join(); and past it the child is killed or gone, or nobody was there to stop.
Stopped ==
    /\ child \in {"none", "unstarted"} =>
           queue = <<>> /\ lastResult = None /\ \A t \in {"ex", "cv"} : hold[t] = None
    /\ cv # "none" => convergeStarted
    /\ cv \in {"none", "begin", "joining"} => cvResult = None
    /\ cv \notin {"none", "begin", "joining"} =>
           child \in {"doomed", "gone"} \/ cvResult.status = "unknown"

\* No step lets a child run on under a convergence that has collected its result.
LEMMA StoppedStep == ASSUME Inv, Stopped, [Next]_vars PROVE Stopped'
<1> USE DEF Stopped
<1>0. None.status = "unknown" /\ \A t : Result("unknown", t).status = "unknown"
  BY DEF None, Result
<1>1. CASE ExNext
  <2>1. UNCHANGED cvVars /\ UNCHANGED convergeStarted
    BY <1>1, ExFrame DEF ExNext, ExPrepareFails, ExRegisterWorker, ExAssignProcess, ExSpawn,
       ExSpawnFails, ExFail, ExTake, ExApply, ExWaitSeesExit, ExWaitEnds, ExRecordTrace, ExPoll,
       ExYield, ExCollect, ExWrite, taskVars
  <2>2. CASE ExTake \/ ExApply
    BY <1>1, <2>1, <2>2 DEF ExTake, ExApply, Take, Apply, cvVars, childVars
  <2>3. CASE UNCHANGED <<workerVars, hold>>
    <3>1. child' \in {"none", "unstarted"} => child \in {"none", "unstarted"}
      BY <1>1, <2>3 DEF ExNext, ExPrepareFails, ExRegisterWorker, ExAssignProcess, ExSpawn,
         ExSpawnFails, ExTake, ExApply, ExWaitSeesExit, ExWaitEnds, ExRecordTrace, ExPoll,
         ExYield, ExCollect, ExWrite, childVars, Inv, ExInv
    <3>2. child \in {"doomed", "gone"} => child' = child
      BY <1>1, <2>3 DEF ExNext, ExPrepareFails, ExRegisterWorker, ExAssignProcess, ExSpawn,
         ExSpawnFails, ExTake, ExApply, ExWaitSeesExit, ExWaitEnds, ExRecordTrace, ExPoll,
         ExYield, ExCollect, ExWrite, childVars, Inv, ExInv
    <3> QED
      BY <2>1, <2>3, <3>1, <3>2 DEF cvVars, workerVars
  <2> QED
    BY <1>1, <2>2, <2>3 DEF ExNext, ExPrepareFails, ExRegisterWorker, ExAssignProcess, ExSpawn,
       ExSpawnFails, ExWaitSeesExit, ExWaitEnds, ExRecordTrace, ExPoll, ExYield, ExCollect, ExWrite
<1>2. CASE ChildNext
  <2>1. UNCHANGED cvVars /\ UNCHANGED convergeStarted
    BY <1>2, ChildFrame DEF taskVars
  <2>2. child' \notin {"none", "unstarted"}
    BY <1>2 DEF ChildNext, ChildCreateRun, ChildFailsEarly, ChildAnnounce, ChildStreamEnds,
       ChildEnds, ChildIndexes, ChildSeals, ChildReports, ChildExits, ChildCrashes
  <2>3. child \in {"doomed", "gone"} => child' \in {"doomed", "gone"}
    BY <1>2 DEF ChildNext, ChildCreateRun, ChildFailsEarly, ChildAnnounce, ChildStreamEnds,
       ChildEnds, ChildIndexes, ChildSeals, ChildReports, ChildExits, ChildCrashes, Executing
  <2> QED
    BY <2>1, <2>2, <2>3 DEF cvVars
<1>3. CASE CvNext
  <2>0. cv # "none" /\ UNCHANGED convergeStarted
    BY <1>3 DEF CvNext, CvNoProcess, CvSetFlag, CvJoinRaises, CvJoined, CvKill, CvAfterKill,
       CvTake, CvApply, CvCollect, CvPublish, CvSealGuard, CvSealRaises, CvSealEvent, CvSealIndex,
       CvSealManifest, CvClose, taskVars
  <2>1. CASE CvNoProcess
    BY <1>0, <2>0, <2>1 DEF CvNoProcess, childVars, workerVars
  <2>2. CASE CvSetFlag
    BY <2>0, <2>2 DEF CvSetFlag, childVars
  <2>3. CASE CvJoinRaises
    BY <1>0, <2>0, <2>3 DEF CvJoinRaises, childVars, workerVars
  <2>4. CASE CvJoined \/ CvKill
    BY <2>0, <2>4 DEF CvJoined, CvKill, childVars, workerVars, Executing
  <2>5. CASE CvTake \/ CvApply
    BY <2>0, <2>5 DEF CvTake, CvApply, Take, Apply, cvVars, childVars, Inv, CvInv
  <2>6. CASE CvCollect \/ CvSealRaises
    BY <2>0, <2>6 DEF CvCollect, CvSealRaises, childVars, Inv, CvInv
  <2>7. CASE CvAfterKill \/ CvPublish \/ CvSealGuard \/ CvSealEvent \/ CvSealIndex
             \/ CvSealManifest \/ CvClose
    BY <2>0, <2>7 DEF CvAfterKill, CvPublish, CvSealGuard, CvSealEvent, CvSealIndex, CvSealManifest,
       CvClose, childVars, workerVars
  <2> QED
    BY <1>3, <2>1, <2>2, <2>3, <2>4, <2>5, <2>6, <2>7 DEF CvNext
<1>4. ASSUME NEW r \in StopReqs, StopCheck(r) \/ StopProceeds(r) PROVE Stopped'
  <2>1. UNCHANGED <<hold, workerVars, childVars, cvResult>>
    BY <1>4, StopFrame DEF StopCheck, cvVars
  <2>2. \/ UNCHANGED <<cv, convergeStarted>>
        \/ ~convergeStarted /\ cv' = "begin" /\ convergeStarted' = TRUE
    BY <1>4 DEF StopCheck, StopProceeds, StopMark, StopLaunches, StopAlreadyConverging,
       StopWithoutWorker, taskVars, cvVars
  <2> QED
    BY <2>1, <2>2 DEF childVars, workerVars
<1>5. CASE UNCHANGED vars
  BY <1>5 DEF vars, taskVars, cvVars, childVars, workerVars
<1> QED
  BY <1>1, <1>2, <1>3, <1>4, <1>5 DEF Next

\* Past join() the workspace has no other writer.
THEOREM ConvergenceStops == Spec => []ConvergedMeansStopped
<1>1. Init => Stopped
  BY DEF Init, Stopped
<1>2. Inv /\ Stopped /\ [Next]_vars => Stopped'
  BY StoppedStep
<1>3. Stopped => ConvergedMeansStopped
  BY DEF Stopped, ConvergedMeansStopped, Executing
<1> QED
  BY Invariance, <1>1, <1>2, <1>3, PTL DEF Spec

\* The writers of the index leave a notified outcome alone: the child writes its entry once,
\* and the seal takes over only what NotTakenOver leaves it.
LEMMA ToldOutcomeStep == ASSUME Inv, ToldOutcomeStands, [Next]_vars PROVE ToldOutcomeStands'
<1> USE DEF ToldOutcomeStands
<1>0. "task_failed" \notin NotTakenOver /\ NotTakenOver \subseteq Outcomes
  BY DEF NotTakenOver, Outcomes
<1>1. CASE ExNext
  <2>1. UNCHANGED index /\ notified' \subseteq notified \cup {"task_failed"}
    BY <1>1 DEF ExNext, ExPrepareFails, ExRegisterWorker, ExAssignProcess, ExSpawn, ExSpawnFails,
       ExFail, ExTake, ExApply, ExWaitSeesExit, ExWaitEnds, ExRecordTrace, ExPoll, ExYield,
       ExCollect, ExWrite, diskVars
  <2> QED
    BY <1>0, <2>1
<1>2. CASE ChildNext
  <2>1. CASE ChildCreateRun
    BY <1>0, <2>1 DEF ChildCreateRun, Inv, ChildInv, NoEntry, Outcomes
  <2>2. CASE ChildIndexes
    BY <1>0, <2>2 DEF ChildIndexes, Inv, ChildInv, Outcomes
  <2>3. CASE ChildSeals
    <3>1. index'.status = index.status /\ index'.phase = "sealed"
      BY <2>3 DEF ChildSeals, Inv, TypeOK, TraceTypes, Entries
    <3> QED
      BY <2>3, <3>1 DEF ChildSeals, Inv, ChildInv
  <2>4. CASE UNCHANGED <<index, notified>>
    BY <2>4
  <2> QED
    BY <1>2, <2>1, <2>2, <2>3, <2>4 DEF ChildNext, ChildFailsEarly, ChildAnnounce,
       ChildStreamEnds, ChildEnds, ChildReports, ChildExits, ChildCrashes, diskVars
<1>3. CASE CvNext
  <2>0. index \in Entries
    BY DEF Inv, TypeOK, TraceTypes
  <2>1. CASE CvSealGuard
    BY <2>0, <2>1 DEF CvSealGuard, Entries
  <2>2. CASE CvSealIndex
    BY <2>2 DEF CvSealIndex, Inv, CvInv, NotTakenOver
  <2>3. CASE CvSealManifest
    <3>1. index'.status = "cancelled" /\ index'.phase = "sealed" /\ index.status = "cancelled"
      BY <2>0, <2>3 DEF CvSealManifest, Inv, CvInv, Entries
    <3> QED
      BY <2>3, <3>1 DEF CvSealManifest
  <2>4. CASE UNCHANGED <<index, notified>>
    BY <2>4
  <2> QED
    BY <1>3, <2>1, <2>2, <2>3, <2>4 DEF CvNext, CvNoProcess, CvSetFlag, CvJoinRaises, CvJoined,
       CvKill, CvAfterKill, CvTake, CvApply, CvCollect, CvPublish, CvSealRaises, CvSealEvent,
       CvClose, diskVars
<1>4. ASSUME NEW r \in StopReqs, StopCheck(r) \/ StopProceeds(r) PROVE ToldOutcomeStands'
  BY <1>4 DEF StopCheck, StopProceeds, StopMark, StopLaunches, StopAlreadyConverging,
     StopWithoutWorker, diskVars
<1>5. CASE UNCHANGED vars
  BY <1>5 DEF vars, diskVars
<1> QED
  BY <1>1, <1>2, <1>3, <1>4, <1>5 DEF Next

\* What evolution was told of a run is what the index goes on saying.
THEOREM ToldStands == Spec => []ToldOutcomeStands
<1>1. Init => ToldOutcomeStands
  BY DEF Init, ToldOutcomeStands
<1>2. Inv /\ ToldOutcomeStands /\ [Next]_vars => ToldOutcomeStands'
  BY ToldOutcomeStep
<1> QED
  BY Invariance, <1>1, <1>2, PTL DEF Spec

-----------------------------------------------------------------------------
(* AbTask implements TaskView *)

\* A stop request has been admitted.
Asked == \E r \in StopReqs : stop[r] \in {"mark", "dispatch", "200"}

\* What a message or a result says fits what has happened.
Fits(m) ==
    /\ m.status = "done" => m.trace
    /\ m.status = "cancelled" => Asked

\* Nobody cancels, or says cancelled, before a stop was admitted; nobody says done without
\* naming the trace; and nobody names a trace that is not there.
Told ==
    /\ cancelFlag \/ cv # "none" => Asked
    /\ Fits(exResult) /\ Fits(cvResult) /\ Fits(lastResult)
    /\ \A t \in {"ex", "cv"} : Fits(hold[t])
    /\ \A i \in 1 .. Len(queue) : Fits(queue[i])
    /\ ex = "write" => exResult # None
    /\ exResult.trace => index.status # "absent"

LEMMA ToldInit == Init => Told
  BY DEF Init, Told, Fits, None

\* A request that was admitted is not withdrawn; only StopCheck admits one.
LEMMA AskedSteps ==
    ASSUME Inv, [Next]_vars
    PROVE  /\ Asked => Asked'
           /\ Asked' => Asked \/ \E r \in StopReqs : StopCheck(r)
           /\ \A r \in StopReqs : StopProceeds(r) => Asked
<1> USE DEF Asked
<1>0. stop \in [StopReqs -> {"idle", "mark", "dispatch", "200", "409"}]
  BY DEF Inv, TypeOK, ThreadTypes
<1>1. ASSUME NEW r \in StopReqs, StopProceeds(r)
      PROVE  /\ stop[r] \in {"mark", "dispatch"}
             /\ stop' = [stop EXCEPT ![r] = "dispatch"] \/ stop' = [stop EXCEPT ![r] = "200"]
  BY <1>1 DEF StopProceeds, StopMark, StopLaunches, StopAlreadyConverging, StopWithoutWorker
<1>2. ASSUME NEW r \in StopReqs, StopProceeds(r)
      PROVE  Asked /\ Asked'
  BY <1>0, <1>1, <1>2
<1>3. ASSUME NEW r \in StopReqs, StopCheck(r), Asked
      PROVE  Asked'
  BY <1>0, <1>3 DEF StopCheck
<1>4. CASE UNCHANGED stop
  BY <1>2, <1>4
<1>5. CASE ExNext
  BY <1>4, <1>5, ExFrame
<1>6. CASE ChildNext
  BY <1>4, <1>6, ChildFrame
<1>7. CASE CvNext
  BY <1>4, <1>7 DEF CvNext, CvNoProcess, CvSetFlag, CvJoinRaises, CvJoined, CvKill, CvAfterKill,
     CvTake, CvApply, CvCollect, CvPublish, CvSealGuard, CvSealRaises, CvSealEvent, CvSealIndex,
     CvSealManifest, CvClose
<1>8. CASE UNCHANGED vars
  BY <1>4, <1>8 DEF vars
<1> QED
  BY <1>2, <1>3, <1>5, <1>6, <1>7, <1>8 DEF Next

\* An index entry, once made, stays.
LEMMA EntryStays ==
    ASSUME Inv, [Next]_vars, index.status # "absent"
    PROVE  index'.status # "absent"
<1>1. CASE UNCHANGED Life!lifeVars
  BY <1>1 DEF Life!lifeVars
<1>2. CASE Life!LifeNext
  BY <1>2 DEF Life!LifeNext, Life!Open, Life!Judge, Life!Close, Life!Seal, Life!Outcomes
<1> QED
  BY <1>1, <1>2, LifeSteps

\* Only messages that fit are put, so only such are ever taken, stored and published.
LEMMA ToldStep == ASSUME Inv, Told, [Next]_vars PROVE Told'
<1> DEFINE Holds == \A t \in {"ex", "cv"} : Fits(hold[t])
           Queue == \A i \in 1 .. Len(queue) : Fits(queue[i])
<1>1. /\ TypeOK
      /\ Asked => Asked'
      /\ index.status # "absent" => index'.status # "absent"
  BY AskedSteps, EntryStays DEF Inv
<1>2. /\ Fits(exResult) /\ Fits(cvResult) /\ Fits(lastResult) /\ Holds /\ Queue
      /\ cancelFlag \/ cv # "none" => Asked
      /\ ex = "write" => exResult # None
      /\ exResult.trace => index.status # "absent"
  BY DEF Told
<1>3. ASSUME UNCHANGED exResult, UNCHANGED ex \/ ex' # "write"
      PROVE  /\ Fits(exResult)'
             /\ ex' = "write" => exResult' # None
             /\ exResult'.trace => index'.status # "absent"
  BY <1>1, <1>2, <1>3 DEF Fits
<1>4. ASSUME UNCHANGED <<lastResult, hold, queue>>
      PROVE  Fits(lastResult)' /\ Holds' /\ Queue'
  BY <1>1, <1>2, <1>4 DEF Fits
<1>5. ASSUME UNCHANGED cvResult PROVE Fits(cvResult)'
  BY <1>1, <1>2, <1>5 DEF Fits
<1>6. ASSUME UNCHANGED <<cancelFlag, cv>> PROVE cancelFlag' \/ cv' # "none" => Asked'
  BY <1>1, <1>2, <1>6
<1>7. ASSUME NEW t \in {"ex", "cv"}, Take(t)
      PROVE  Fits(lastResult)' /\ Holds' /\ Queue'
  <2>1. queue \in Seq(Messages) /\ queue # <<>>
    BY <1>1, <1>7 DEF Take, TypeOK, WorkerTypes
  <2>2. Head(queue) = queue[1] /\ 1 \in 1 .. Len(queue)
    BY <2>1
  <2>3. \A i \in 1 .. Len(Tail(queue)) :
            Tail(queue)[i] = queue[i + 1] /\ i + 1 \in 1 .. Len(queue)
    BY <2>1
  <2>4. Queue'
    BY <1>1, <1>2, <1>7, <2>3 DEF Take, Fits
  <2>5. Holds'
    BY <1>1, <1>2, <1>7, <2>2 DEF Take, Fits, TypeOK, ThreadTypes
  <2>6. Fits(lastResult)'
    BY <1>1, <1>2, <1>7 DEF Take, Fits
  <2> QED
    BY <2>4, <2>5, <2>6
<1>8. ASSUME NEW t \in {"ex", "cv"}, Apply(t)
      PROVE  Fits(lastResult)' /\ Holds' /\ Queue'
  <2>1. Queue'
    BY <1>1, <1>2, <1>8 DEF Apply, Fits
  <2>2. Holds'
    BY <1>1, <1>2, <1>8 DEF Apply, Fits, None, TypeOK, ThreadTypes
  <2>3. Fits(lastResult)'
    BY <1>1, <1>2, <1>8 DEF Apply, Fits
  <2> QED
    BY <2>1, <2>2, <2>3
<1>9. ASSUME NEW m \in Messages, queue' = Append(queue, m), Fits(m)', UNCHANGED <<lastResult, hold>>
      PROVE  Fits(lastResult)' /\ Holds' /\ Queue'
  <2>1. queue \in Seq(Messages)
    BY <1>1 DEF TypeOK, WorkerTypes
  <2>2. Queue'
    BY <1>1, <1>2, <1>9, <2>1, Queued DEF Fits
  <2> QED
    BY <1>1, <1>2, <1>9, <2>2 DEF Fits
<1> HIDE DEF Holds, Queue
<1>10. CASE ExNext
  <2>1. UNCHANGED <<cvVars, cancelFlag>>
    BY <1>10, ExFrame DEF ExNext, ExPrepareFails, ExRegisterWorker, ExAssignProcess, ExSpawn,
       ExSpawnFails, ExTake, ExApply, ExWaitSeesExit, ExWaitEnds, ExRecordTrace, ExPoll, ExYield,
       ExCollect, ExWrite, Take, Apply, workerVars
  <2>2. Fits(lastResult)' /\ Holds' /\ Queue'
    BY <1>4, <1>7, <1>8, <1>10 DEF ExNext, ExPrepareFails, ExRegisterWorker, ExAssignProcess,
       ExSpawn, ExSpawnFails, ExTake, ExApply, ExWaitSeesExit, ExWaitEnds, ExRecordTrace, ExPoll,
       ExYield, ExCollect, ExWrite, workerVars
  <2>3. /\ Fits(exResult)'
        /\ ex' = "write" => exResult' # None
        /\ exResult'.trace => index'.status # "absent"
    <3>1. CASE ExCollect
      <4>1. lastResult.trace => index.status # "absent"
        BY DEF Inv, TraceKnown
      <4>2. exResult' = lastResult /\ (ex' = "write" => lastResult # None)
        BY <3>1 DEF ExCollect
      <4> QED
        BY <1>1, <1>2, <4>1, <4>2 DEF Fits
    <3>2. CASE ~ExCollect
      BY <1>3, <1>10, <3>2 DEF ExNext, ExPrepareFails, ExRegisterWorker, ExAssignProcess,
         ExSpawn, ExSpawnFails, ExTake, ExApply, ExWaitSeesExit, ExWaitEnds, ExRecordTrace,
         ExPoll, ExYield, ExWrite, ExFail, exVars
    <3> QED
      BY <3>1, <3>2
  <2> QED
    BY <1>5, <1>6, <2>1, <2>2, <2>3 DEF Told, Holds, Queue, cvVars
<1>11. CASE ChildNext
  <2>1. UNCHANGED <<exVars, cvVars, hold, lastResult>> /\ UNCHANGED cancelFlag
    BY <1>11, ChildFrame DEF ChildNext, ChildCreateRun, ChildFailsEarly, ChildAnnounce,
       ChildStreamEnds, ChildEnds, ChildIndexes, ChildSeals, ChildReports, ChildExits,
       ChildCrashes, workerVars
  <2>2. Fits(lastResult)' /\ Holds' /\ Queue'
    <3>1. CASE ChildReports
      <4> DEFINE s == IF outcome \notin {"completed", "cancelled"} THEN outcome
                      ELSE IF cancelFlag THEN "cancelled" ELSE "done"
      <4>1. queue' = Append(queue, Result(s, TRUE)) /\ outcome \in Outcomes
        BY <3>1 DEF ChildReports, Inv, ChildInv
      <4>2. s \in Results /\ (s = "cancelled" => cancelFlag)
        BY <4>1 DEF Inv, FlagInv, Results, Outcomes
      <4>3. PICK m \in Messages : m = Result(s, TRUE)
        BY <4>2, DataTypes
      <4>4. Fits(m)'
        BY <1>1, <1>2, <4>2, <4>3 DEF Fits, Result
      <4> QED
        BY <1>9, <2>1, <4>1, <4>3, <4>4
    <3>2. CASE ChildFailsEarly
      <4>1. Result("failed", FALSE) \in Messages /\ Fits(Result("failed", FALSE))'
        BY DataTypes DEF Fits, Result, Results
      <4> QED
        BY <1>9, <2>1, <3>2, <4>1 DEF ChildFailsEarly
    <3>3. CASE ChildAnnounce
      <4>1. TraceMsg \in Messages /\ Fits(TraceMsg)'
        BY DataTypes DEF Fits, TraceMsg
      <4> QED
        BY <1>9, <2>1, <3>3, <4>1 DEF ChildAnnounce
    <3>4. CASE UNCHANGED queue
      BY <1>4, <2>1, <3>4
    <3> QED
      BY <1>11, <3>1, <3>2, <3>3, <3>4 DEF ChildNext, ChildCreateRun, ChildStreamEnds,
         ChildEnds, ChildIndexes, ChildSeals, ChildExits, ChildCrashes, workerVars
  <2> QED
    BY <1>3, <1>5, <1>6, <2>1, <2>2 DEF Told, Holds, Queue, cvVars, exVars
<1>12. CASE CvNext
  <2>1. UNCHANGED exVars /\ Asked /\ Asked'
    BY <1>1, <1>2, <1>12, CvFrame DEF CvNext, CvNoProcess, CvSetFlag, CvJoinRaises, CvJoined,
       CvKill, CvAfterKill, CvTake, CvApply, CvCollect, CvPublish, CvSealGuard, CvSealRaises,
       CvSealEvent, CvSealIndex, CvSealManifest, CvClose
  <2>2. Fits(lastResult)' /\ Holds' /\ Queue'
    BY <1>4, <1>7, <1>8, <1>12 DEF CvNext, CvNoProcess, CvSetFlag, CvJoinRaises, CvJoined,
       CvKill, CvAfterKill, CvTake, CvApply, CvCollect, CvPublish, CvSealGuard, CvSealRaises,
       CvSealEvent, CvSealIndex, CvSealManifest, CvClose, workerVars
  <2>3. Fits(cvResult)'
    <3>1. CASE CvNoProcess \/ CvCollect
      BY <1>2, <2>1, <3>1 DEF CvNoProcess, CvCollect, Fits, Result
    <3>2. CASE CvSealRaises
      <4>1. cvResult \in WorkerResults
        BY <3>2 DEF Inv, CvInv, CvSealRaises
      <4> QED
        BY <3>2, <4>1 DEF CvSealRaises, WorkerResults, Fits
    <3>3. CASE UNCHANGED cvResult
      BY <1>5, <3>3
    <3> QED
      BY <1>12, <3>1, <3>2, <3>3 DEF CvNext, CvSetFlag, CvJoinRaises, CvJoined, CvKill,
         CvAfterKill, CvTake, CvApply, CvPublish, CvSealGuard, CvSealEvent, CvSealIndex,
         CvSealManifest, CvClose, cvVars
  <2> QED
    BY <1>3, <2>1, <2>2, <2>3 DEF Told, Holds, Queue, exVars
<1>13. ASSUME NEW r \in StopReqs, StopCheck(r) \/ StopProceeds(r) PROVE Told'
  <2>1. /\ UNCHANGED <<exVars, cvResult, hold, workerVars>>
        /\ UNCHANGED cv \/ StopProceeds(r)
    BY <1>13, StopFrame DEF StopCheck, cvVars
  <2>2. cancelFlag' \/ cv' # "none" => Asked'
    BY <1>1, <1>2, <1>6, <2>1, AskedSteps DEF workerVars
  <2> QED
    BY <1>3, <1>4, <1>5, <2>1, <2>2 DEF Told, Holds, Queue, exVars, workerVars
<1>14. CASE UNCHANGED vars
  BY <1>3, <1>4, <1>5, <1>6, <1>14 DEF Told, Holds, Queue, vars, exVars, cvVars, workerVars
<1> QED
  BY <1>10, <1>11, <1>12, <1>13, <1>14 DEF Next

\* A step of TraceLife is one of the trace's steps in TaskView.
LEMMA SameLife ==
    /\ Life!LifeInit => View!LifeInit
    /\ Life!LifeNext => View!LifeNext
    /\ UNCHANGED Life!lifeVars <=> UNCHANGED View!lifeVars
<1>1. Life!LifeInit => View!LifeInit
  BY DEF Life!LifeInit, View!LifeInit, Life!None, View!None
<1>2. UNCHANGED Life!lifeVars <=> UNCHANGED View!lifeVars
  BY DEF Life!lifeVars, View!lifeVars
<1>3. Life!Open => View!Open
  BY DEF Life!Open, View!Open
<1>4. \A u : Life!Judge(u) => View!Judge(u)
  BY DEF Life!Judge, View!Judge, Life!None, View!None
<1>5. \A o : Life!Close(o) => View!Close(o)
  BY DEF Life!Close, View!Close, Life!None, View!None, Life!NotTakenOver, View!NotTakenOver,
     Life!EventOf, View!EventOf
<1>6. Life!Seal => View!Seal
  BY DEF Life!Seal, View!Seal
<1>7. Life!TerminalEvents = View!TerminalEvents /\ Life!Outcomes = View!Outcomes
  BY DEF Life!TerminalEvents, View!TerminalEvents, Life!Outcomes, View!Outcomes
<1> QED
  BY <1>1, <1>2, <1>3, <1>4, <1>5, <1>6, <1>7 DEF Life!LifeNext, View!LifeNext

\* A task starts without a request, a trace or a result.
LEMMA ViewStarts == Init => View!ViewInit
  BY LifeStarts, SameLife DEF Init, View!ViewInit

\* Every step of the task shows what TaskView lets it show.
LEMMA ViewSteps ==
    ASSUME Inv, Told, Inv', Told', [Next]_vars
    PROVE  [View!ViewNext]_View!viewVars
<1> DEFINE quiet == UNCHANGED <<events, index>>
<1>0. /\ TypeOK
      /\ Asked <=> \E r \in StopReqs : stop[r] \in {"mark", "dispatch", "200"}
      /\ quiet => UNCHANGED View!lifeVars
  BY DEF Inv, Asked, View!lifeVars
<1>1. /\ View!ShownStatuses = TaskStates \ {"running"}
      /\ View!CancelStatuses = {"cancelling", "cancelled", "cancel_timeout", "unknown"}
  BY DEF View!ShownStatuses, View!CancelStatuses, TaskStates, Results
\* The three ways to take part: nothing shown, a status shown, the trace written.
<1>2. ASSUME UNCHANGED <<status, traceIds>>, quiet \/ UNCHANGED Life!lifeVars, Asked' <=> Asked
      PROVE  UNCHANGED View!viewVars
  BY <1>0, <1>2, SameLife DEF View!viewVars, Asked
<1>3. ASSUME NEW s \in View!ShownStatuses, status' = s, quiet, Asked' <=> Asked,
             s \in View!CancelStatuses => Asked,
             traceIds => traceIds', traceIds' => traceIds \/ index.status # "absent",
             traceIds' \in BOOLEAN,
             s = "done" => DoneOnDisk /\ traceIds'
      PROVE  View!ViewNext
  <2>1. View!Show(s)
    BY <1>0, <1>3 DEF View!Show, DoneOnDisk, Asked
  <2> QED
    BY <2>1 DEF View!ViewNext
<1>4. ASSUME UNCHANGED <<status, traceIds>>, Asked' <=> Asked, View!LifeNext,
             Asked \/ ((events' = <<>> \/ events'[Len(events')] # "run_cancelled")
                       /\ index'.status # "cancelled")
      PROVE  View!ViewNext
  <2>1. View!TraceStep
    BY <1>0, <1>4 DEF View!TraceStep, Asked
  <2> QED
    BY <2>1 DEF View!ViewNext
<1> HIDE DEF quiet
<1>5. CASE ExNext
  <2>1. quiet /\ (Asked' <=> Asked)
    BY <1>5, ExFrame DEF Asked, quiet
  <2>2. CASE ExPrepareFails \/ ExSpawnFails
    BY <1>0, <1>1, <1>3, <2>1, <2>2 DEF ExPrepareFails, ExSpawnFails, ExFail, TaskStates,
       Results, TypeOK, TaskTypes
  <2>3. CASE ExRecordTrace
    <3>1. CASE traceIds' = traceIds
      BY <1>2, <2>1, <2>3, <3>1 DEF ExRecordTrace
    <3>2. CASE traceIds' # traceIds
      <4>1. wTrace /\ traceIds' = TRUE
        BY <1>0, <2>3, <3>2 DEF ExRecordTrace, TypeOK, TaskTypes, WorkerTypes
      <4>2. View!ShowTrace
        BY <1>0, <2>1, <2>3, <4>1 DEF ExRecordTrace, View!ShowTrace, Asked, Inv, TraceKnown
      <4> QED
        BY <4>2 DEF View!ViewNext
    <3> QED
      BY <3>1, <3>2
  <2>4. CASE ExWrite
    <3>1. exResult \in ResultMsgs /\ status' = exResult.status
          /\ (traceIds' <=> traceIds \/ exResult.trace)
      BY <1>0, <2>4 DEF ExWrite, Told, TypeOK, ThreadTypes
    <3>2. exResult.status \in Results /\ exResult.trace \in BOOLEAN
      BY <3>1 DEF ResultMsgs
    <3>3. /\ exResult.status = "cancelled" => Asked
          /\ exResult.status = "done" => DoneOnDisk /\ exResult.trace
          /\ exResult.trace => index.status # "absent"
      BY DEF Told, Fits, Inv, DoneKnown
    <3>4. traceIds' \in BOOLEAN
      BY <1>0, <2>4, <3>2 DEF ExWrite, TypeOK, TaskTypes
    <3> QED
      BY <1>1, <1>3, <2>1, <3>1, <3>2, <3>3, <3>4 DEF TaskStates, Results
  <2>5. CASE UNCHANGED <<status, traceIds>>
    BY <1>2, <2>1, <2>5
  <2> QED
    BY <1>5, <2>2, <2>3, <2>4, <2>5 DEF ExNext, ExRegisterWorker, ExAssignProcess, ExSpawn,
       ExTake, ExApply, ExWaitSeesExit, ExWaitEnds, ExPoll, ExYield, ExCollect, taskVars
<1>6. CASE ChildNext
  <2>1. UNCHANGED <<status, traceIds>> /\ (Asked' <=> Asked)
    BY <1>6, ChildFrame DEF Asked, taskVars
  <2>2. CASE quiet \/ UNCHANGED Life!lifeVars
    BY <1>2, <2>1, <2>2
  <2>3. CASE ~quiet /\ ~UNCHANGED Life!lifeVars
    <3>1. View!LifeNext
      BY <2>3, LifeSteps, SameLife
    <3>2. child' \in {"created", "ended", "sealing", "sealed"}
      BY <1>6, <2>3 DEF ChildNext, ChildCreateRun, ChildFailsEarly, ChildAnnounce,
         ChildStreamEnds, ChildEnds, ChildIndexes, ChildSeals, ChildReports, ChildExits,
         ChildCrashes, diskVars, quiet
    <3>3. ~Asked => outcome' # "cancelled"
      BY <2>1 DEF Inv, FlagInv, Told
    <3>4. CASE child' = "created"
      <4>1. events' = <<>> /\ index'.status = "running"
        BY <3>4 DEF Inv, ChildInv
      <4> QED
        BY <1>4, <2>1, <3>1, <4>1
    <3>5. CASE child' \in {"ended", "sealing", "sealed"}
      <4>1. /\ outcome' \in Outcomes /\ events' = <<EventOf(outcome')>>
            /\ index'.status \in {"running", outcome'}
        BY <3>5 DEF Inv, ChildInv
      <4>2. events'[Len(events')] = EventOf(outcome')
        BY <4>1
      <4>3. outcome' # "cancelled" => EventOf(outcome') # "run_cancelled"
        BY <4>1 DEF Outcomes, EventOf
      <4> QED
        BY <1>4, <2>1, <3>1, <3>3, <4>1, <4>2, <4>3
    <3> QED
      BY <3>2, <3>4, <3>5
  <2> QED
    BY <2>2, <2>3
<1>7. CASE CvNext
  <2>1. Asked /\ (Asked' <=> Asked)
    <3>1. cv # "none" /\ UNCHANGED stop
      BY <1>7 DEF CvNext, CvNoProcess, CvSetFlag, CvJoinRaises, CvJoined, CvKill, CvAfterKill,
         CvTake, CvApply, CvCollect, CvPublish, CvSealGuard, CvSealRaises, CvSealEvent,
         CvSealIndex, CvSealManifest, CvClose
    <3> QED
      BY <3>1 DEF Told, Asked
  <2>2. CASE CvJoinRaises
    <3>1. quiet
      BY <2>2 DEF CvJoinRaises, diskVars, quiet
    <3> QED
      BY <1>0, <1>1, <1>3, <2>1, <2>2, <3>1 DEF CvJoinRaises, TaskStates, TypeOK, TaskTypes
  <2>3. CASE CvSealRaises
    <3>1. quiet
      BY <2>3 DEF CvSealRaises, diskVars, quiet
    <3> QED
      BY <1>0, <1>1, <1>3, <2>1, <2>3, <3>1 DEF CvSealRaises, TaskStates, TypeOK, TaskTypes
  <2>4. CASE CvPublish
    <3>1. cvResult \in WorkerResults /\ status' = cvResult.status
          /\ (traceIds' <=> traceIds \/ cvResult.trace) /\ quiet
      BY <1>0, <2>4 DEF CvPublish, Inv, CvInv, diskVars, quiet
    <3>2. cvResult.status \in Results \cup {"unknown", "cancel_timeout"}
          /\ cvResult.trace \in BOOLEAN
      BY <3>1 DEF WorkerResults
    <3>3. /\ cvResult.status = "done" => DoneOnDisk /\ cvResult.trace
          /\ cvResult.trace => index.status # "absent"
      BY DEF Told, Fits, Inv, DoneKnown, TraceKnown
    <3>4. traceIds' \in BOOLEAN
      BY <1>0, <2>4, <3>2 DEF CvPublish, TypeOK, TaskTypes
    <3> QED
      BY <1>1, <1>3, <2>1, <3>1, <3>2, <3>3, <3>4 DEF TaskStates, Results
  <2>5. CASE UNCHANGED <<status, traceIds>>
    <3>1. CASE UNCHANGED Life!lifeVars
      BY <1>2, <2>1, <2>5, <3>1
    <3>2. CASE Life!LifeNext
      BY <1>4, <2>1, <2>5, <3>2, SameLife
    <3> QED
      BY <3>1, <3>2, LifeSteps
  <2> QED
    BY <1>7, <2>2, <2>3, <2>4, <2>5 DEF CvNext, CvNoProcess, CvSetFlag, CvJoined, CvKill,
       CvAfterKill, CvTake, CvApply, CvCollect, CvSealGuard, CvSealEvent, CvSealIndex,
       CvSealManifest, CvClose, taskVars
<1>8. ASSUME NEW r \in StopReqs, StopCheck(r)
      PROVE  [View!ViewNext]_View!viewVars
  <2>1. quiet /\ UNCHANGED <<status, traceIds>>
    BY <1>8 DEF StopCheck, diskVars, quiet
  <2>2. CASE Asked' <=> Asked
    BY <1>2, <2>1, <2>2
  <2>3. CASE ~(Asked' <=> Asked)
    <3>1. Asked'
      BY <2>3, AskedSteps
    <3>2. View!Ask
      BY <1>0, <2>1, <3>1 DEF View!Ask, Asked
    <3> QED
      BY <3>2 DEF View!ViewNext
  <2> QED
    BY <2>2, <2>3
<1>9. ASSUME NEW r \in StopReqs, StopProceeds(r)
      PROVE  [View!ViewNext]_View!viewVars
  <2>1. quiet
    BY <1>9, StopFrame DEF diskVars, quiet
  <2>2. Asked /\ (Asked' <=> Asked)
    BY <1>9, AskedSteps
  <2>3. CASE StopMark(r) \/ StopWithoutWorker(r)
    BY <1>0, <1>1, <1>3, <2>1, <2>2, <2>3 DEF StopMark, StopWithoutWorker, TaskStates, Results,
       TypeOK, TaskTypes
  <2>4. CASE UNCHANGED <<status, traceIds>>
    BY <1>2, <2>1, <2>2, <2>4
  <2> QED
    BY <1>9, <2>3, <2>4 DEF StopProceeds, StopLaunches, StopAlreadyConverging, taskVars
<1>10. CASE UNCHANGED vars
  <2>1. quiet /\ UNCHANGED <<status, traceIds, stop>>
    BY <1>10 DEF vars, diskVars, taskVars, quiet
  <2> QED
    BY <1>2, <2>1 DEF Asked
<1> QED
  BY <1>5, <1>6, <1>7, <1>8, <1>9, <1>10 DEF Next

\* Until and after any stop, a client sees of a task what TaskView promises.
THEOREM Visibility == Spec => TaskSeen
<1>1. Inv /\ Told /\ [Next]_vars => Told'
  BY ToldStep
<1>2. Inv /\ Told /\ Inv' /\ Told' /\ [Next]_vars => [View!ViewNext]_View!viewVars
  BY ViewSteps
<1> QED
  BY ViewStarts, ToldInit, Invariance, <1>1, <1>2, PTL DEF Spec, TaskSeen, View!ViewSpec

=============================================================================
