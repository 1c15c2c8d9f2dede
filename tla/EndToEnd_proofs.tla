-------------------------- MODULE EndToEnd_proofs --------------------------
(***************************************************************************)
(* Proofs about EndToEnd, for every number of stops and ingestions.  The   *)
(* executor's threads and child are the executor that ManualTest assumes,  *)
(* so what is proved of each service alone holds of the two together, and  *)
(* the two invariants joined say what neither can say alone.               *)
(***************************************************************************)
EXTENDS EndToEnd, AbTask_proofs

-----------------------------------------------------------------------------
(* The words of TaskView as either service instantiates it                 *)

LEMMA Constants ==
    /\ TerminalEvents \subseteq Test!TerminalEvents
    /\ View!ShownStatuses \subseteq Test!ShownStatuses
    /\ 5 \in Nat \ {0}
    /\ View!CancelStatuses = {"cancelling", "cancelled", "cancel_timeout", "unknown"}
    /\ Test!CancelStatuses = {"cancelling", "cancelled", "cancel_timeout", "unknown"}
  BY DEF TerminalEvents, Test!TerminalEvents, View!ShownStatuses, Test!ShownStatuses,
         View!CancelStatuses, Test!CancelStatuses

LEMMA SameTrace ==
    /\ View!LifeNext => Test!LifeNext
    /\ UNCHANGED View!lifeVars <=> UNCHANGED Test!lifeVars
<1>1. UNCHANGED View!lifeVars <=> UNCHANGED Test!lifeVars
  BY DEF View!lifeVars, Test!lifeVars
<1>2. View!Open => Test!Open
  BY DEF View!Open, Test!Open
<1>3. \A u : View!Judge(u) => Test!Judge(u)
  BY DEF View!Judge, Test!Judge, View!None, Test!None
<1>4. \A o : View!Close(o) => Test!Close(o)
  BY DEF View!Close, Test!Close, View!None, Test!None, View!NotTakenOver, Test!NotTakenOver,
     View!EventOf, Test!EventOf
<1>5. View!Seal => Test!Seal
  BY DEF View!Seal, Test!Seal
<1>6. View!TerminalEvents = Test!TerminalEvents /\ View!Outcomes = Test!Outcomes
  BY DEF View!TerminalEvents, Test!TerminalEvents, View!Outcomes, Test!Outcomes
<1> QED
  BY <1>1, <1>2, <1>3, <1>4, <1>5, <1>6 DEF View!LifeNext, Test!LifeNext

LEMMA SameView ==
    /\ View!Ask => Test!Ask
    /\ View!TraceStep => Test!TraceStep
    /\ View!ShowTrace => Test!ShowTrace
    /\ \A s : View!Show(s) => Test!Show(s)
    /\ UNCHANGED View!viewVars <=> UNCHANGED Test!viewVars
<1>1. View!Ask => Test!Ask
  BY SameTrace DEF View!Ask, Test!Ask
<1>2. View!TraceStep => Test!TraceStep
  BY SameTrace DEF View!TraceStep, Test!TraceStep
<1>3. View!ShowTrace => Test!ShowTrace
  BY SameTrace DEF View!ShowTrace, Test!ShowTrace
<1>4. \A s : View!Show(s) => Test!Show(s)
  BY SameTrace, Constants DEF View!Show, Test!Show
<1>5. UNCHANGED View!viewVars <=> UNCHANGED Test!viewVars
  BY SameTrace DEF View!viewVars, Test!viewVars
<1> QED
  BY <1>1, <1>2, <1>3, <1>4, <1>5

-----------------------------------------------------------------------------
(* The invariant: those of the two services, and what ties them            *)

\* A failure that shows has had its notice, and a stop handler its request.
Noticed == status \in Failures => notice # "none"
Delivered == \A r \in StopReqs : stop[r] # "idle" => request[r] \in {"mark", "stopped"}


\* The child wrote the verdict, or the seal did.
Authored ==
    events # <<>> => \/ events = <<"run_cancelled">>
                     \/ outcome \in Outcomes /\ events = <<EventOf(outcome)>>

WholeInv == Inv /\ Told /\ Authored /\ Test!Inv /\ Noticed /\ Delivered

\* To the executor's own invariants a step of the whole is a step of the task, or none.
LEMMA TaskSteps == ASSUME [WholeNext]_wholeVars PROVE [Next]_vars
<1>1. ASSUME Executor PROVE Next
  BY <1>1 DEF Executor, Next
<1>2. ASSUME NEW r \in StopReqs, Deliver(r) PROVE Next
  BY <1>2 DEF Deliver, Next
<1>3. ASSUME NEW r \in StopReqs, Drop(r) PROVE UNCHANGED vars
  BY <1>3 DEF Drop
<1> QED
  BY <1>1, <1>2, <1>3 DEF WholeNext, Evolution, Restarts, wholeVars

\* The trace that a task shows for the first time is one it registers, or comes with a status.
LEMMA FirstShown ==
    ASSUME Inv, Told, Next, traceIds' # traceIds
    PROVE  Registers \/ status' \in View!ShownStatuses
<1>0. TypeOK /\ View!ShownStatuses = TaskStates \ {"running"}
  BY DEF Inv, View!ShownStatuses, View!CancelStatuses, TaskStates, Results
<1>1. CASE ExNext
  <2>1. CASE ExRecordTrace
    BY <1>0, <1>1, <2>1 DEF ExRecordTrace, Registers, TypeOK, TaskTypes, WorkerTypes
  <2>2. CASE ExWrite
    BY <1>0, <2>2 DEF ExWrite, Told, ResultMsgs, Results, TaskStates, TypeOK, ThreadTypes
  <2> QED
    BY <1>1, <2>1, <2>2 DEF ExNext, ExPrepareFails, ExSpawnFails, ExFail, ExRegisterWorker,
       ExAssignProcess, ExSpawn, ExTake, ExApply, ExWaitSeesExit, ExWaitEnds, ExPoll, ExYield,
       ExCollect, taskVars
<1>2. CASE ChildNext
  BY <1>2, ChildFrame DEF taskVars
<1>3. CASE CvNext
  <2>1. CASE CvPublish
    BY <1>0, <2>1 DEF CvPublish, Inv, CvInv, WorkerResults, Results, TaskStates
  <2> QED
    BY <1>3, <2>1 DEF CvNext, CvNoProcess, CvSetFlag, CvJoinRaises, CvJoined, CvKill,
       CvAfterKill, CvTake, CvApply, CvCollect, CvSealGuard, CvSealRaises, CvSealEvent,
       CvSealIndex, CvSealManifest, CvClose, taskVars
<1>4. ASSUME NEW r \in StopReqs, StopCheck(r) \/ StopProceeds(r) PROVE FALSE
  BY <1>4 DEF StopCheck, StopProceeds, StopMark, StopLaunches, StopAlreadyConverging,
     StopWithoutWorker, taskVars
<1> QED
  BY <1>1, <1>2, <1>3, <1>4 DEF Next

\* A trace that is registered exists, and shows from then on.
LEMMA Registering ==
    ASSUME Inv, Next, Registers
    PROVE  UNCHANGED <<status, stop, events, index>> /\ View!ShowTrace
<1>1. ex = "record" /\ ex' = "loop" /\ wTrace
  BY DEF Registers
<1>2. ~ChildNext
  BY <1>1, ChildFrame DEF exVars
<1>3. ~CvNext
  BY <1>1 DEF CvNext, CvNoProcess, CvSetFlag, CvJoinRaises, CvJoined, CvKill, CvAfterKill,
     CvTake, CvApply, CvCollect, CvPublish, CvSealGuard, CvSealRaises, CvSealEvent, CvSealIndex,
     CvSealManifest, CvClose, exVars
<1>4. ASSUME NEW r \in StopReqs PROVE ~StopCheck(r) /\ ~StopProceeds(r)
  BY <1>1 DEF StopCheck, StopProceeds, StopMark, StopLaunches, StopAlreadyConverging,
     StopWithoutWorker, exVars
<1>5. ExNext
  BY <1>2, <1>3, <1>4 DEF Next
<1>6. ExRecordTrace
  BY <1>1, <1>5 DEF ExNext, ExPrepareFails, ExSpawnFails, ExFail, ExRegisterWorker,
     ExAssignProcess, ExSpawn, ExTake, ExApply, ExWaitSeesExit, ExWaitEnds, ExPoll, ExYield,
     ExCollect, ExWrite, exVars
<1>7. UNCHANGED <<status, stop, events, index>> /\ traceIds' = TRUE
  BY <1>1, <1>6 DEF ExRecordTrace, diskVars, Inv, TypeOK, TaskTypes, WorkerTypes
<1>8. index.status # "absent"
  BY <1>1 DEF Inv, TraceKnown
<1> QED
  BY <1>7, <1>8 DEF View!ShowTrace, View!lifeVars

\* Only a request from outside asks: the executor's own steps neither ask nor take back.
LEMMA OwnSteps ==
    ASSUME Inv, ChildNext \/ ExNext \/ CvNext \/ \E r \in StopReqs : StopProceeds(r)
    PROVE  Asked' <=> Asked
<1>1. ASSUME NEW r \in StopReqs, StopProceeds(r) PROVE Asked /\ Asked'
  BY <1>1, AskedSteps DEF Next
<1>2. CASE ChildNext \/ ExNext
  BY <1>2, ChildFrame, ExFrame DEF Asked
<1>3. CASE CvNext
  BY <1>3 DEF CvNext, CvNoProcess, CvSetFlag, CvJoinRaises, CvJoined, CvKill, CvAfterKill,
     CvTake, CvApply, CvCollect, CvPublish, CvSealGuard, CvSealRaises, CvSealEvent, CvSealIndex,
     CvSealManifest, CvClose, Asked
<1> QED
  BY <1>1, <1>2, <1>3

-----------------------------------------------------------------------------
(* Every step of the two services is one of ManualTest                     *)

LEMMA EvolutionSteps == ASSUME Evolution PROVE Test!TestNext
  BY DEF Evolution, Test!TestNext, Test!NoticeNext, Test!StopNext

\* A stop that reaches the executor asks, unless it is answered 409 or another has asked.
LEMMA RequestSteps ==
    ASSUME Inv, NEW r \in StopReqs, Deliver(r) \/ Drop(r)
    PROVE  Test!StopPost(r)
<1>1. UNCHANGED Test!viewVars \/ (Deliver(r) /\ Test!Ask)
  <2>1. CASE Drop(r)
    BY <2>1 DEF Drop, vars, taskVars, diskVars, Test!viewVars, Test!lifeVars
  <2>2. CASE Deliver(r)
    <3>1. UNCHANGED <<events, index, status, traceIds>>
      BY <2>2 DEF Deliver, StopCheck, diskVars
    <3>2. CASE Asked' <=> Asked
      BY <3>1, <3>2 DEF Asked, Test!viewVars, Test!lifeVars
    <3>3. CASE ~(Asked' <=> Asked)
      <4>1. Asked'
        BY <2>2, <3>3, AskedSteps DEF Deliver, Next
      <4> QED
        BY <2>2, <3>1, <4>1 DEF Asked, Test!Ask, Test!lifeVars
    <3> QED
      BY <3>2, <3>3
  <2> QED
    BY <2>1, <2>2
<1>2. UNCHANGED <<ownVars, started, lost, listed, notice>>
      /\ request[r] = "post" /\ request' = [request EXCEPT ![r] = "mark"]
  BY DEF Deliver, Drop
<1> QED
  BY <1>1, <1>2 DEF Deliver, Test!StopPost, Test!stopIdle, Test!pollVars, Test!ingVars,
     Test!scanVars, ownVars

\* What the executor does, evolution sees as a step of the trace, a trace or a status that
\* is shown, or not at all.
LEMMA ExecutorSteps ==
    ASSUME Inv, Told, Test!Inv, Noticed, Inv', Told', Executor
    PROVE  [Test!TestNext]_(Test!testVars)
<1>0. /\ Next /\ started
      /\ ChildNext \/ ~lost
      /\ listed' = (listed \/ Registers)
      /\ notice' = IF notice = "none" /\ status' \in Failures THEN "sent" ELSE notice
      /\ UNCHANGED <<ownVars, request, started, lost>>
  BY DEF Executor, Next
<1>1. status' = status => notice' = notice
  BY <1>0 DEF Noticed
<1>2. ~ChildNext \/ UNCHANGED <<status, traceIds, ex>>
  BY ChildFrame DEF taskVars, exVars
<1>3. CASE Registers
  <2>1. View!ShowTrace /\ UNCHANGED <<status, stop>>
    BY <1>0, <1>3, Registering
  <2>2. ~lost
    BY <1>0, <1>2, <1>3 DEF Registers
  <2>3. listed' = TRUE
    BY <1>0, <1>3
  <2>4. Test!ExecShowTrace
    BY <1>0, <1>1, <2>1, <2>2, <2>3, SameView DEF Test!ExecShowTrace, Test!evoVars,
       Test!pollVars, Test!stopVars, Test!ingVars, Test!scanVars, ownVars
  <2> QED
    BY <2>4 DEF Test!TestNext, Test!ExecNext
<1>4. CASE ~Registers
  <2>0. listed' = listed
    <3>1. listed \in BOOLEAN
      BY DEF Test!Inv, Test!TypeOK
    <3> QED
      BY <1>0, <1>4, <3>1
  <2>1. [View!ViewNext]_View!viewVars
    BY <1>0, ViewSteps
  <2>2. Asked' <=> Asked
    BY OwnSteps DEF Executor
  <2>3. ASSUME UNCHANGED Test!viewVars PROVE UNCHANGED Test!testVars
    <3>1. UNCHANGED <<status, traceIds>>
      BY <2>3 DEF Test!viewVars
    <3> QED
      BY <1>0, <1>1, <2>0, <2>3, <3>1 DEF Test!testVars, Test!execVars, Test!pollVars,
         Test!stopVars, Test!ingVars, Test!scanVars, ownVars
  <2>4. ASSUME UNCHANGED View!lifeVars, UNCHANGED <<status, traceIds>>
        PROVE  UNCHANGED Test!testVars
    BY <2>2, <2>3, <2>4, SameTrace DEF Test!viewVars, Asked
  <2>5. ASSUME View!TraceStep PROVE Test!ExecTrace
    <3>1. (IF events = <<>> THEN "none" ELSE events[Len(events)])' \in TerminalEvents \cup {"none"}
      BY DEF Inv, TypeOK, TraceTypes
    <3>2. UNCHANGED <<status, traceIds>>
      BY <2>5 DEF View!TraceStep
    <3> QED
      BY <1>0, <1>1, <2>0, <2>5, <3>1, <3>2, SameView DEF Test!ExecTrace, Test!evoVars,
         Test!pollVars, Test!stopVars, Test!ingVars, Test!scanVars, ownVars, Test!None
  <2>6. ASSUME View!Show(status'), status' \in View!ShownStatuses, ~lost
        PROVE  Test!ExecShow(status')
    BY <1>0, <2>0, <2>6, SameView DEF Test!ExecShow, Failures, Test!pollVars, Test!stopVars,
       Test!ingVars, Test!scanVars, ownVars
  <2>7. CASE UNCHANGED <<status, traceIds>>
    <3>1. CASE View!TraceStep
      BY <2>5, <3>1 DEF Test!TestNext, Test!ExecNext
    <3>2. CASE ~View!TraceStep
      <4>1. UNCHANGED View!lifeVars
        BY <2>1, <3>2 DEF View!ViewNext, View!Ask, View!ShowTrace, View!Show, View!viewVars
      <4> QED
        BY <2>4, <2>7, <4>1
    <3> QED
      BY <3>1, <3>2
  <2>8. CASE ~UNCHANGED <<status, traceIds>>
    <3>1. ~lost
      BY <1>0, <1>2, <2>8
    <3>2. View!ShowTrace \/ \E s \in View!ShownStatuses : View!Show(s)
      BY <2>1, <2>8 DEF View!ViewNext, View!Ask, View!TraceStep, View!viewVars
    <3>3. View!Show(status') /\ status' \in View!ShownStatuses
      <4>1. CASE \E s \in View!ShownStatuses : View!Show(s)
        BY <4>1 DEF View!Show
      <4>2. CASE View!ShowTrace
        <5>1. status' = status /\ traceIds' = TRUE /\ UNCHANGED View!lifeVars
              /\ index.status # "absent"
          BY <4>2 DEF View!ShowTrace
        <5>2. status' \in View!ShownStatuses
          BY <1>0, <1>4, <2>8, <5>1, FirstShown
        <5>3. status = "done" => DoneOnDisk
          BY DEF Inv, DoneKnown
        <5>4. status \in View!CancelStatuses => Asked
          BY Constants DEF Test!Inv, Test!TraceOK, Asked
        <5> QED
          BY <2>2, <5>1, <5>2, <5>3, <5>4 DEF View!Show, DoneOnDisk, Asked
      <4> QED
        BY <3>2, <4>1, <4>2
    <3> QED
      BY <2>6, <3>1, <3>3 DEF Test!TestNext, Test!ExecNext
  <2> QED
    BY <2>7, <2>8
<1> QED
  BY <1>3, <1>4

LEMMA WholeSteps ==
    ASSUME Inv, Told, Test!Inv, Noticed, Inv', Told', [WholeNext]_wholeVars
    PROVE  [Test!TestNext]_(Test!testVars)
<1>1. CASE Evolution
  BY <1>1, EvolutionSteps
<1>2. CASE Executor
  BY <1>2, ExecutorSteps
<1>3. CASE Restarts
  BY <1>3 DEF Restarts, Test!TestNext, Test!ExecNext
<1>4. ASSUME NEW r \in StopReqs, Deliver(r) \/ Drop(r) PROVE Test!TestNext
  BY <1>4, RequestSteps DEF Test!TestNext, Test!StopNext
<1>5. CASE UNCHANGED wholeVars
  BY <1>5 DEF wholeVars, vars, taskVars, diskVars, ownVars, Test!testVars, Test!execVars,
     Test!viewVars, Test!lifeVars, Test!pollVars, Test!stopVars, Test!ingVars, Test!scanVars
<1> QED
  BY <1>1, <1>2, <1>3, <1>4, <1>5 DEF WholeNext

-----------------------------------------------------------------------------
(* The invariant, and what follows                                         *)

LEMMA AuthoredStep == ASSUME Inv, Authored, [Next]_vars PROVE Authored'
<1>1. CASE UNCHANGED <<events, outcome>>
  BY <1>1 DEF Authored
<1>2. CASE ChildNext
  <2>1. ASSUME NEW o \in Outcomes, ChildEnds(o) PROVE Authored'
    <3>1. events = <<>>
      BY <2>1 DEF ChildEnds, Inv, ChildInv
    <3>2. events' = <<EventOf(o)>> /\ outcome' = o
      BY <2>1, <3>1 DEF ChildEnds
    <3> QED
      BY <3>2 DEF Authored
  <2> QED
    BY <1>1, <1>2, <2>1 DEF ChildNext, ChildCreateRun, ChildFailsEarly, ChildAnnounce,
       ChildStreamEnds, ChildIndexes, ChildSeals, ChildReports, ChildExits, ChildCrashes,
       diskVars
<1>3. CASE CvNext
  <2>1. CASE CvSealEvent
    <3>1. events' = events \/ events' = <<"run_cancelled">>
      <4>1. CASE events = <<>>
        BY <2>1, <4>1 DEF CvSealEvent
      <4>2. CASE events # <<>>
        BY <2>1, <4>2 DEF CvSealEvent
      <4> QED
        BY <4>1, <4>2
    <3>2. outcome' = outcome
      BY <1>3, CvFrame
    <3> QED
      BY <3>1, <3>2 DEF Authored
  <2> QED
    BY <1>1, <1>3, <2>1, CvFrame
<1>4. CASE ExNext
  BY <1>1, <1>4, ExFrame
<1>5. ASSUME NEW r \in StopReqs, StopCheck(r) \/ StopProceeds(r) PROVE Authored'
  BY <1>1, <1>5, StopFrame DEF childVars, diskVars
<1>6. CASE UNCHANGED vars
  BY <1>1, <1>6 DEF vars, childVars, diskVars
<1> QED
  BY <1>2, <1>3, <1>4, <1>5, <1>6 DEF Next

\* Evolution takes a notice back as little as the executor does.
LEMMA NoticedStep == ASSUME Noticed, [WholeNext]_wholeVars PROVE Noticed'
<1>1. CASE Evolution
  <2>1. notice' = notice \/ notice' \in {"mark", "end"}
    BY <1>1 DEF Evolution, Test!StartNext, Test!StartPost, Test!StartPostFails, Test!StartFails,
       Test!StartMark, Test!PollNext, Test!PollRead, Test!PollGetFails, Test!PollNotFound,
       Test!PollGivesUp, Test!PollSees, Test!PollMark, Test!pollIdle, Test!ScanNext,
       Test!ScanFetch, Test!ScanStore, Test!scanIdle, Test!DelNext, Test!DelRead, Test!DelRuns,
       Test!DelRow, Test!delIdle, Test!NoticeLook, Test!NoticeMark, Test!StopRead,
       Test!StopMark, Test!stopIdle, Test!IngestFetch, Test!IngestWrites, Test!IngestRefetch,
       Test!IngestOverwrite, Test!IngestStore, Test!IngestLook, Test!IngestMark,
       Test!fetchIdle, Test!ingIdle
  <2>2. status' = status
    BY <1>1 DEF Evolution, vars, taskVars
  <2> QED
    BY <2>1, <2>2 DEF Noticed
<1>2. CASE Executor
  BY <1>2 DEF Executor, Noticed
<1>3. CASE Restarts
  BY <1>3 DEF Restarts, Test!ExecRestarts, Test!evoVars, vars, taskVars, Noticed
<1>4. ASSUME NEW r \in StopReqs, Deliver(r) \/ Drop(r) PROVE Noticed'
  BY <1>4 DEF Deliver, StopCheck, Drop, vars, taskVars, Noticed
<1>5. CASE UNCHANGED wholeVars
  BY <1>5 DEF wholeVars, vars, taskVars, Noticed
<1> QED
  BY <1>1, <1>2, <1>3, <1>4, <1>5 DEF WholeNext

LEMMA DeliveredStep ==
    ASSUME Inv, Test!Inv, Delivered, [WholeNext]_wholeVars
    PROVE  Delivered'
<1>0. /\ stop \in [StopReqs -> {"idle", "mark", "dispatch", "200", "409"}]
      /\ request \in [StopReqs -> {"idle", "refused", "post", "mark", "stopped"}]
  BY DEF Inv, TypeOK, ThreadTypes, Test!Inv, Test!TypeOK
<1>1. CASE Evolution
  <2>1. UNCHANGED request \/ \E r \in StopReqs : Test!StopNext(r)
    <3>1. Test!TestNext
      BY <1>1, EvolutionSteps
    <3> QED
      BY <3>1, Constants, Test!ThreadFrame
  <2>2. UNCHANGED stop
    BY <1>1 DEF Evolution, vars
  <2>3. ASSUME NEW r \in StopReqs, Test!StopNext(r) PROVE Delivered'
    BY <1>0, <2>2, <2>3 DEF Test!StopNext, Test!StopRead, Test!StopPost, Test!StopMark, Delivered
  <2> QED
    BY <2>1, <2>2, <2>3 DEF Delivered
<1>2. CASE Executor
  <2>1. ASSUME NEW r \in StopReqs, StopProceeds(r)
        PROVE  \A q \in StopReqs : stop'[q] # "idle" => stop[q] # "idle"
    BY <1>0, <2>1 DEF StopProceeds, StopMark, StopLaunches, StopAlreadyConverging,
       StopWithoutWorker
  <2>2. ASSUME ChildNext \/ ExNext \/ CvNext PROVE UNCHANGED stop
    BY <2>2, ChildFrame, ExFrame DEF CvNext, CvNoProcess, CvSetFlag, CvJoinRaises, CvJoined,
       CvKill, CvAfterKill, CvTake, CvApply, CvCollect, CvPublish, CvSealGuard, CvSealRaises,
       CvSealEvent, CvSealIndex, CvSealManifest, CvClose
  <2>3. UNCHANGED request
    BY <1>2 DEF Executor
  <2> QED
    BY <1>2, <2>1, <2>2, <2>3 DEF Executor, Delivered
<1>3. CASE Restarts
  BY <1>3 DEF Restarts, Test!ExecRestarts, Test!evoVars, Test!stopVars, vars, Delivered
<1>4. ASSUME NEW r \in StopReqs, Deliver(r) PROVE Delivered'
  BY <1>0, <1>4 DEF Deliver, StopCheck, Delivered
<1>5. ASSUME NEW r \in StopReqs, Drop(r) PROVE Delivered'
  BY <1>0, <1>5 DEF Drop, vars, Delivered
<1>6. CASE UNCHANGED wholeVars
  BY <1>6 DEF wholeVars, vars, Delivered
<1> QED
  BY <1>1, <1>2, <1>3, <1>4, <1>5, <1>6 DEF WholeNext

\* A test and a task that have been created, and not met, satisfy it.
LEMMA WholeInvInit == WholeInit => WholeInv
<1> SUFFICES ASSUME WholeInit PROVE WholeInv
  OBVIOUS
<1>1. Inv /\ Told
  BY InvInit, ToldInit DEF WholeInit
<1>2. Test!Inv
  BY Constants, Test!InvInit DEF WholeInit
<1>3. Authored /\ Noticed /\ Delivered
  BY DEF WholeInit, Init, Authored, Noticed, Failures, Delivered
<1> QED
  BY <1>1, <1>2, <1>3 DEF WholeInv

LEMMA WholeInvStep == ASSUME WholeInv, [WholeNext]_wholeVars PROVE WholeInv'
<1>0. Inv /\ Told /\ Authored /\ Test!Inv /\ Noticed /\ Delivered /\ [Next]_vars
  BY TaskSteps DEF WholeInv
<1>1. Inv'
  BY <1>0, TypeStep, ExInvStep, ChildInvStep, FlagInvStep, DiskInvStep, CvInvStep,
     TraceKnownStep, DoneKnownStep, HonestStep DEF Inv
<1>2. Told'
  BY <1>0, ToldStep
<1>3. [Test!TestNext]_(Test!testVars)
  BY <1>0, <1>1, <1>2, WholeSteps
<1>4. Test!Inv'
  BY <1>0, <1>3, Constants, Test!InvStep
<1> QED
  BY <1>0, <1>1, <1>2, <1>4, AuthoredStep, NoticedStep, DeliveredStep DEF WholeInv

\* What each service relies on holds of the two together, and goes on holding.
THEOREM WholeInvariance == WholeSpec => []WholeInv
<1>1. WholeInv /\ [WholeNext]_wholeVars => WholeInv'
  BY WholeInvStep
<1> QED
  BY WholeInvInit, <1>1, PTL DEF WholeSpec

\* Every step of the executor's threads and child, with the network between, is one that
\* ManualTest allows its executor: what holds of ManualTest's tests holds of real ones.
THEOREM Composition == WholeSpec => TestSeen
<1>1. WholeInit => Test!Init
  BY DEF WholeInit
<1>2. WholeInv /\ WholeInv' /\ [WholeNext]_wholeVars => [Test!TestNext]_(Test!testVars)
  BY WholeSteps DEF WholeInv
<1> QED
  BY WholeInvariance, <1>1, <1>2, PTL DEF WholeSpec, TestSeen

\* A done test is a run that its child completed, and is linked to its trace.
THEOREM ChildsDone == WholeSpec => []DoneIsTheChilds
<1>1. WholeInv => DoneIsTheChilds
  <2> SUFFICES ASSUME WholeInv, row.status = "done"
               PROVE  outcome = "completed" /\ events = <<"run_end">> /\ row.trace
    BY DEF DoneIsTheChilds
  <2>1. /\ (IF events = <<>> THEN "none" ELSE events[Len(events)]) = "run_end"
        /\ row.trace
    BY DEF WholeInv, Test!Inv, Test!DoneIsEarned
  <2>2. outcome \in Outcomes /\ events = <<EventOf(outcome)>>
    BY <2>1 DEF WholeInv, Authored
  <2> QED
    BY <2>1, <2>2 DEF EventOf, Outcomes
<1> QED
  BY WholeInvariance, <1>1, PTL

\* No part of either service cancels, or says cancelled, on its own account.
THEOREM UsersCancel == WholeSpec => []CancelIsTheUsers
<1>1. WholeInv => CancelIsTheUsers
  <2> SUFFICES ASSUME WholeInv
               PROVE  CancelIsTheUsers
    OBVIOUS
  <2>0. request \in [StopReqs -> {"idle", "refused", "post", "mark", "stopped"}]
    BY DEF WholeInv, Test!Inv, Test!TypeOK
  <2> DEFINE Users == \E r \in StopReqs : request[r] \in {"post", "mark", "stopped"}
  <2>1. row.status = "cancelled" => Users
    BY <2>0 DEF WholeInv, Test!Inv, Test!CancelIsWanted
  <2>2. Asked => Users
    BY DEF WholeInv, Delivered, Asked
  <2>3. outcome = "cancelled" \/ cancelFlag => Asked
    BY DEF WholeInv, Inv, FlagInv, Told
  <2>4. /\ index.status = "cancelled" => Asked
        /\ status \in {"cancelling", "cancelled", "cancel_timeout", "unknown"} => Asked
        /\ events = <<"run_cancelled">> => Asked
    BY Constants DEF WholeInv, Test!Inv, Test!TraceOK, Test!Claim, Asked
  <2> QED
    BY <2>1, <2>2, <2>3, <2>4 DEF CancelIsTheUsers
<1> QED
  BY WholeInvariance, <1>1, PTL

=============================================================================
