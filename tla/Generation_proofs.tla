------------------------- MODULE Generation_proofs -------------------------
(***************************************************************************)
(* Proofs about Generation, for every number of streams and traces, every  *)
(* hold, limit and cost, and every bound: its types, the user's books, how *)
(* far his debt can go, and that it implements Ledger.                     *)
(***************************************************************************)
EXTENDS Generation, TLAPS

-----------------------------------------------------------------------------
(* Types *)

LEMMA IdleTypes == Idle \in [by : Streams \cup {NoOne}, todo : Seq(Steps), status : Statuses,
                             end : {"none", "done", "raised"}, copy : SUBSET Entries]
<1> <<>> \in Seq(Steps)
  OBVIOUS
<1> QED
  BY DEF Idle, Statuses, Terminal

LEMMA InitTypes == Init => TypeOK
<1> SUFFICES ASSUME Init PROVE TypeOK
  OBVIOUS
<1>1. CreditTypes
  BY CreditsAssumption DEF Init, CreditsInit, NoHold, CreditTypes
<1>2. StreamTypes /\ MemTypes /\ ThreadTypes
  BY DEF Init, StreamTypes, MemTypes, ThreadTypes
<1>3. LoopTypes
  BY IdleTypes DEF Init, LoopTypes
<1>4. LineTypes /\ FileTypes
  BY DEF Init, LineTypes, Lines, FileTypes
<1> QED
  BY <1>1, <1>2, <1>3, <1>4 DEF TypeOK

LEMMA StepTypes ==
    /\ Finalize \in Seq(Steps) /\ Settlement \in Seq(Steps)
    /\ Settlement \o Finalize \in Seq(Steps) /\ Finalize \o Settlement \in Seq(Steps)
    /\ <<"settle">> \o Finalize \in Seq(Steps) /\ Settlement \o <<"await">> \in Seq(Steps)
<1>1. Finalize \in Seq(Steps)
  BY DEF Finalize, Steps
<1>2. Settlement \in Seq(Steps)
  <2>1. <<"settle">> \in Seq(Steps) /\ <<>> \in Seq(Steps)
    BY DEF Steps
  <2> QED
    BY <2>1 DEF Settlement
<1>3. <<"settle">> \in Seq(Steps) /\ <<"await">> \in Seq(Steps)
  BY DEF Steps
<1> QED
  BY <1>1, <1>2, <1>3

LEMMA DoesTypes ==
    ASSUME NEW r \in Streams, NEW steps \in Seq(Steps), NEW status \in Statuses,
           NEW how \in {"none", "done", "raised"}, Does(r, steps, status, how)
    PROVE  LoopTypes'
  BY DEF Does, LoopTypes

LEMMA ProceedTypes ==
    ASSUME LoopTypes, NEW copy \in SUBSET Entries, Proceed(copy)
    PROVE  LoopTypes'
<1>1. CASE Len(loop.todo) > 1
  <2>1. Tail(loop.todo) \in Seq(Steps)
    BY <1>1 DEF LoopTypes
  <2> QED
    BY <1>1, <2>1 DEF Proceed, LoopTypes
<1>2. CASE ~(Len(loop.todo) > 1)
  BY <1>2, IdleTypes DEF Proceed, LoopTypes
<1> QED
  BY <1>1, <1>2

LEMMA CountTypes ==
    ASSUME FileTypes, NEW t \in Traces, Status(t) = "awaiting_input"
    PROVE  Count(t) \in Nat
<1>1. PICK e \in index : e.trace = t
  BY DEF Status, StatusIn
<1>2. (CHOOSE x \in index : x.trace = t) \in index
  BY <1>1
<1> QED
  BY <1>2 DEF Count, FileTypes, Entries

LEMMA NextTypes == TypeOK /\ [Next]_vars => TypeOK'
<1> SUFFICES ASSUME TypeOK, [Next]_vars PROVE TypeOK'
  OBVIOUS
<1> USE CreditsAssumption, GrantsAssumption DEF TypeOK
<1>1. ASSUME NEW r \in Streams, OpenNew(r) PROVE TypeOK'
  BY <1>1 DEF OpenNew, CreateRun, Emit, Line, Put, Entry, Entries, Statuses, Terminal,
     creditVars, streamVars, memVars, bufVars, fileVars, crashVars, scanIdle, openIdle, runIdle,
     TypeOK, CreditTypes, StreamTypes, LoopTypes, MemTypes, LineTypes, FileTypes, ThreadTypes,
     Lines
<1>2. ASSUME NEW r \in Streams, NEW t \in Traces, Resume(r, t) PROVE TypeOK'
  <2>1. CreditTypes'
    BY <1>2 DEF Resume, Restatus, Attach, Resumable, Entry, Entries, Statuses, Terminal,
       creditVars, streamVars, memVars, bufVars, fileVars, crashVars, scanIdle, openIdle,
       runIdle, TypeOK, CreditTypes, StreamTypes, LoopTypes, MemTypes, LineTypes, FileTypes,
       ThreadTypes, Lines
  <2>2. StreamTypes'
    BY <1>2 DEF Resume, Restatus, Attach, Resumable, Entry, Entries, Statuses, Terminal,
       creditVars, streamVars, memVars, bufVars, fileVars, crashVars, scanIdle, openIdle,
       runIdle, TypeOK, CreditTypes, StreamTypes, LoopTypes, MemTypes, LineTypes, FileTypes,
       ThreadTypes, Lines
  <2>3. LoopTypes'
    BY <1>2 DEF Resume, Restatus, Attach, Resumable, Entry, Entries, Statuses, Terminal,
       creditVars, streamVars, memVars, bufVars, fileVars, crashVars, scanIdle, openIdle,
       runIdle, TypeOK, CreditTypes, StreamTypes, LoopTypes, MemTypes, LineTypes, FileTypes,
       ThreadTypes, Lines
  <2>4. MemTypes'
    BY <1>2, CountTypes DEF Resume, Resumable, openIdle, TypeOK, MemTypes
  <2>5. LineTypes'
    BY <1>2 DEF Resume, Restatus, Attach, Resumable, Entry, Entries, Statuses, Terminal,
       creditVars, streamVars, memVars, bufVars, fileVars, crashVars, scanIdle, openIdle,
       runIdle, TypeOK, CreditTypes, StreamTypes, LoopTypes, MemTypes, LineTypes, FileTypes,
       ThreadTypes, Lines
  <2>6. FileTypes'
    BY <1>2 DEF Resume, Restatus, Attach, Resumable, Entry, Entries, Statuses, Terminal,
       creditVars, streamVars, memVars, bufVars, fileVars, crashVars, scanIdle, openIdle,
       runIdle, TypeOK, CreditTypes, StreamTypes, LoopTypes, MemTypes, LineTypes, FileTypes,
       ThreadTypes, Lines
  <2>7. ThreadTypes'
    BY <1>2 DEF Resume, Restatus, Attach, Resumable, Entry, Entries, Statuses, Terminal,
       creditVars, streamVars, memVars, bufVars, fileVars, crashVars, scanIdle, openIdle,
       runIdle, TypeOK, CreditTypes, StreamTypes, LoopTypes, MemTypes, LineTypes, FileTypes,
       ThreadTypes, Lines
  <2> QED
    BY <2>1, <2>2, <2>3, <2>4, <2>5, <2>6, <2>7
<1>3. ASSUME NEW r \in Streams, Register(r) PROVE TypeOK'
  BY <1>3 DEF Register, creditVars, streamVars, memVars, bufVars, fileVars, crashVars, scanIdle,
     openIdle, runIdle, TypeOK, CreditTypes, StreamTypes, LoopTypes, MemTypes, LineTypes,
     FileTypes, ThreadTypes, Lines
<1>4. ASSUME NEW r \in Streams, Assemble(r) PROVE TypeOK'
  BY <1>4 DEF Assemble, creditVars, streamVars, memVars, bufVars, fileVars, crashVars, scanIdle,
     openIdle, runIdle, TypeOK, CreditTypes, StreamTypes, LoopTypes, MemTypes, LineTypes,
     FileTypes, ThreadTypes, Lines
<1>5. ASSUME NEW r \in Streams, LeaveSetup(r) PROVE TypeOK'
  BY <1>5 DEF LeaveSetup, Ended, creditVars, streamVars, memVars, bufVars, fileVars, crashVars,
     scanIdle, openIdle, runIdle, TypeOK, CreditTypes, StreamTypes, LoopTypes, MemTypes,
     LineTypes, FileTypes, ThreadTypes, Lines
<1>6. ASSUME NEW r \in Streams, AgentEvent(r) PROVE TypeOK'
  BY <1>6 DEF AgentEvent, Emit, Line, creditVars, streamVars, memVars, bufVars, fileVars,
     crashVars, scanIdle, openIdle, runIdle, TypeOK, CreditTypes, StreamTypes, LoopTypes,
     MemTypes, LineTypes, FileTypes, ThreadTypes, Lines
<1>7. ASSUME NEW r \in Streams, EventRefused(r) PROVE TypeOK'
  BY <1>7 DEF EventRefused, Drops, Ended, creditVars, streamVars, memVars, bufVars, fileVars,
     crashVars, scanIdle, openIdle, runIdle, TypeOK, CreditTypes, StreamTypes, LoopTypes,
     MemTypes, LineTypes, FileTypes, ThreadTypes, Lines
<1>8. ASSUME NEW r \in Streams, Delegate(r) PROVE TypeOK'
  <2>1. CreditTypes'
    BY <1>8 DEF Delegate, CreateHold, creditVars, streamVars, memVars, bufVars, fileVars,
       crashVars, scanIdle, openIdle, runIdle, TypeOK, CreditTypes, StreamTypes, LoopTypes,
       MemTypes, LineTypes, FileTypes, ThreadTypes, Lines
  <2>2. StreamTypes'
    BY <1>8 DEF Delegate, CreateHold, creditVars, streamVars, memVars, bufVars, fileVars,
       crashVars, scanIdle, openIdle, runIdle, TypeOK, CreditTypes, StreamTypes, LoopTypes,
       MemTypes, LineTypes, FileTypes, ThreadTypes, Lines
  <2>3. LoopTypes'
    BY <1>8 DEF Delegate, CreateHold, creditVars, streamVars, memVars, bufVars, fileVars,
       crashVars, scanIdle, openIdle, runIdle, TypeOK, CreditTypes, StreamTypes, LoopTypes,
       MemTypes, LineTypes, FileTypes, ThreadTypes, Lines
  <2>4. MemTypes'
    BY <1>8 DEF Delegate, CreateHold, creditVars, streamVars, memVars, bufVars, fileVars,
       crashVars, scanIdle, openIdle, runIdle, TypeOK, CreditTypes, StreamTypes, LoopTypes,
       MemTypes, LineTypes, FileTypes, ThreadTypes, Lines
  <2>5. LineTypes'
    BY <1>8 DEF Delegate, CreateHold, creditVars, streamVars, memVars, bufVars, fileVars,
       crashVars, scanIdle, openIdle, runIdle, TypeOK, CreditTypes, StreamTypes, LoopTypes,
       MemTypes, LineTypes, FileTypes, ThreadTypes, Lines
  <2>6. FileTypes'
    BY <1>8 DEF Delegate, CreateHold, creditVars, streamVars, memVars, bufVars, fileVars,
       crashVars, scanIdle, openIdle, runIdle, TypeOK, CreditTypes, StreamTypes, LoopTypes,
       MemTypes, LineTypes, FileTypes, ThreadTypes, Lines
  <2>7. ThreadTypes'
    BY <1>8 DEF Delegate, CreateHold, creditVars, streamVars, memVars, bufVars, fileVars,
       crashVars, scanIdle, openIdle, runIdle, TypeOK, CreditTypes, StreamTypes, LoopTypes,
       MemTypes, LineTypes, FileTypes, ThreadTypes, Lines
  <2> QED
    BY <2>1, <2>2, <2>3, <2>4, <2>5, <2>6, <2>7
<1>9. ASSUME NEW r \in Streams, ModelCall(r) PROVE TypeOK'
  <2>1. CreditTypes'
    <3>1. PICK c \in Costs : Consume(c)
      BY <1>9 DEF ModelCall
    <3>2. c \in Nat
      OBVIOUS
    <3> QED
      BY <3>1, <3>2 DEF Consume, CreditTypes
  <2>2. StreamTypes'
    BY <1>9 DEF ModelCall, Consume, Does, Finalize, Statuses, Terminal, creditVars,
       streamVars, memVars, bufVars, fileVars, crashVars, scanIdle, openIdle, runIdle, TypeOK,
       CreditTypes, StreamTypes, LoopTypes, MemTypes, LineTypes, FileTypes, ThreadTypes, Lines
  <2>3. LoopTypes'
    BY <1>9, DoesTypes, StepTypes DEF ModelCall, Statuses, Terminal, LoopTypes
  <2>4. MemTypes'
    BY <1>9 DEF ModelCall, Consume, Does, Finalize, Statuses, Terminal, creditVars,
       streamVars, memVars, bufVars, fileVars, crashVars, scanIdle, openIdle, runIdle, TypeOK,
       CreditTypes, StreamTypes, LoopTypes, MemTypes, LineTypes, FileTypes, ThreadTypes, Lines
  <2>5. LineTypes'
    BY <1>9 DEF ModelCall, Consume, Does, Finalize, Statuses, Terminal, creditVars,
       streamVars, memVars, bufVars, fileVars, crashVars, scanIdle, openIdle, runIdle, TypeOK,
       CreditTypes, StreamTypes, LoopTypes, MemTypes, LineTypes, FileTypes, ThreadTypes, Lines
  <2>6. FileTypes'
    BY <1>9 DEF ModelCall, Consume, Does, Finalize, Statuses, Terminal, creditVars,
       streamVars, memVars, bufVars, fileVars, crashVars, scanIdle, openIdle, runIdle, TypeOK,
       CreditTypes, StreamTypes, LoopTypes, MemTypes, LineTypes, FileTypes, ThreadTypes, Lines
  <2>7. ThreadTypes'
    BY <1>9 DEF ModelCall, Consume, Does, Finalize, Statuses, Terminal, creditVars,
       streamVars, memVars, bufVars, fileVars, crashVars, scanIdle, openIdle, runIdle, TypeOK,
       CreditTypes, StreamTypes, LoopTypes, MemTypes, LineTypes, FileTypes, ThreadTypes, Lines
  <2> QED
    BY <2>1, <2>2, <2>3, <2>4, <2>5, <2>6, <2>7
<1>10. ASSUME NEW r \in Streams, Complete(r) PROVE TypeOK'
  <2>1. CreditTypes'
    BY <1>10 DEF Complete, Does, Settlement, Finalize, Statuses, Terminal, creditVars,
       streamVars, memVars, bufVars, fileVars, crashVars, scanIdle, openIdle, runIdle, TypeOK,
       CreditTypes, StreamTypes, LoopTypes, MemTypes, LineTypes, FileTypes, ThreadTypes, Lines
  <2>2. StreamTypes'
    BY <1>10 DEF Complete, Does, Settlement, Finalize, Statuses, Terminal, creditVars,
       streamVars, memVars, bufVars, fileVars, crashVars, scanIdle, openIdle, runIdle, TypeOK,
       CreditTypes, StreamTypes, LoopTypes, MemTypes, LineTypes, FileTypes, ThreadTypes, Lines
  <2>3. LoopTypes'
    BY <1>10, DoesTypes, StepTypes DEF Complete, Statuses, Terminal, LoopTypes
  <2>4. MemTypes'
    BY <1>10 DEF Complete, Does, Settlement, Finalize, Statuses, Terminal, creditVars,
       streamVars, memVars, bufVars, fileVars, crashVars, scanIdle, openIdle, runIdle, TypeOK,
       CreditTypes, StreamTypes, LoopTypes, MemTypes, LineTypes, FileTypes, ThreadTypes, Lines
  <2>5. LineTypes'
    BY <1>10 DEF Complete, Does, Settlement, Finalize, Statuses, Terminal, creditVars,
       streamVars, memVars, bufVars, fileVars, crashVars, scanIdle, openIdle, runIdle, TypeOK,
       CreditTypes, StreamTypes, LoopTypes, MemTypes, LineTypes, FileTypes, ThreadTypes, Lines
  <2>6. FileTypes'
    BY <1>10 DEF Complete, Does, Settlement, Finalize, Statuses, Terminal, creditVars,
       streamVars, memVars, bufVars, fileVars, crashVars, scanIdle, openIdle, runIdle, TypeOK,
       CreditTypes, StreamTypes, LoopTypes, MemTypes, LineTypes, FileTypes, ThreadTypes, Lines
  <2>7. ThreadTypes'
    BY <1>10 DEF Complete, Does, Settlement, Finalize, Statuses, Terminal, creditVars,
       streamVars, memVars, bufVars, fileVars, crashVars, scanIdle, openIdle, runIdle, TypeOK,
       CreditTypes, StreamTypes, LoopTypes, MemTypes, LineTypes, FileTypes, ThreadTypes, Lines
  <2> QED
    BY <2>1, <2>2, <2>3, <2>4, <2>5, <2>6, <2>7
<1>11. ASSUME NEW r \in Streams, Interrupt(r) PROVE TypeOK'
  <2>1. CreditTypes'
    BY <1>11 DEF Interrupt, Does, Settlement, Statuses, Terminal, creditVars, streamVars,
       memVars, bufVars, fileVars, crashVars, scanIdle, openIdle, runIdle, TypeOK,
       CreditTypes, StreamTypes, LoopTypes, MemTypes, LineTypes, FileTypes, ThreadTypes, Lines
  <2>2. StreamTypes'
    BY <1>11 DEF Interrupt, Does, Settlement, Statuses, Terminal, creditVars, streamVars,
       memVars, bufVars, fileVars, crashVars, scanIdle, openIdle, runIdle, TypeOK,
       CreditTypes, StreamTypes, LoopTypes, MemTypes, LineTypes, FileTypes, ThreadTypes, Lines
  <2>3. LoopTypes'
    BY <1>11, DoesTypes, StepTypes DEF Interrupt, Statuses, Terminal, LoopTypes
  <2>4. MemTypes'
    BY <1>11 DEF Interrupt, Does, Settlement, Statuses, Terminal, creditVars, streamVars,
       memVars, bufVars, fileVars, crashVars, scanIdle, openIdle, runIdle, TypeOK,
       CreditTypes, StreamTypes, LoopTypes, MemTypes, LineTypes, FileTypes, ThreadTypes, Lines
  <2>5. LineTypes'
    BY <1>11 DEF Interrupt, Does, Settlement, Statuses, Terminal, creditVars, streamVars,
       memVars, bufVars, fileVars, crashVars, scanIdle, openIdle, runIdle, TypeOK,
       CreditTypes, StreamTypes, LoopTypes, MemTypes, LineTypes, FileTypes, ThreadTypes, Lines
  <2>6. FileTypes'
    BY <1>11 DEF Interrupt, Does, Settlement, Statuses, Terminal, creditVars, streamVars,
       memVars, bufVars, fileVars, crashVars, scanIdle, openIdle, runIdle, TypeOK,
       CreditTypes, StreamTypes, LoopTypes, MemTypes, LineTypes, FileTypes, ThreadTypes, Lines
  <2>7. ThreadTypes'
    BY <1>11 DEF Interrupt, Does, Settlement, Statuses, Terminal, creditVars, streamVars,
       memVars, bufVars, fileVars, crashVars, scanIdle, openIdle, runIdle, TypeOK,
       CreditTypes, StreamTypes, LoopTypes, MemTypes, LineTypes, FileTypes, ThreadTypes, Lines
  <2> QED
    BY <2>1, <2>2, <2>3, <2>4, <2>5, <2>6, <2>7
<1>12. ASSUME NEW r \in Streams, Fail(r) PROVE TypeOK'
  <2>1. CreditTypes'
    BY <1>12 DEF Fail, Does, Finalize, Statuses, Terminal, creditVars, streamVars, memVars,
       bufVars, fileVars, crashVars, scanIdle, openIdle, runIdle, TypeOK, CreditTypes,
       StreamTypes, LoopTypes, MemTypes, LineTypes, FileTypes, ThreadTypes, Lines
  <2>2. StreamTypes'
    BY <1>12 DEF Fail, Does, Finalize, Statuses, Terminal, creditVars, streamVars, memVars,
       bufVars, fileVars, crashVars, scanIdle, openIdle, runIdle, TypeOK, CreditTypes,
       StreamTypes, LoopTypes, MemTypes, LineTypes, FileTypes, ThreadTypes, Lines
  <2>3. LoopTypes'
    BY <1>12, DoesTypes, StepTypes DEF Fail, Statuses, Terminal, LoopTypes
  <2>4. MemTypes'
    BY <1>12 DEF Fail, Does, Finalize, Statuses, Terminal, creditVars, streamVars, memVars,
       bufVars, fileVars, crashVars, scanIdle, openIdle, runIdle, TypeOK, CreditTypes,
       StreamTypes, LoopTypes, MemTypes, LineTypes, FileTypes, ThreadTypes, Lines
  <2>5. LineTypes'
    BY <1>12 DEF Fail, Does, Finalize, Statuses, Terminal, creditVars, streamVars, memVars,
       bufVars, fileVars, crashVars, scanIdle, openIdle, runIdle, TypeOK, CreditTypes,
       StreamTypes, LoopTypes, MemTypes, LineTypes, FileTypes, ThreadTypes, Lines
  <2>6. FileTypes'
    BY <1>12 DEF Fail, Does, Finalize, Statuses, Terminal, creditVars, streamVars, memVars,
       bufVars, fileVars, crashVars, scanIdle, openIdle, runIdle, TypeOK, CreditTypes,
       StreamTypes, LoopTypes, MemTypes, LineTypes, FileTypes, ThreadTypes, Lines
  <2>7. ThreadTypes'
    BY <1>12 DEF Fail, Does, Finalize, Statuses, Terminal, creditVars, streamVars, memVars,
       bufVars, fileVars, crashVars, scanIdle, openIdle, runIdle, TypeOK, CreditTypes,
       StreamTypes, LoopTypes, MemTypes, LineTypes, FileTypes, ThreadTypes, Lines
  <2> QED
    BY <2>1, <2>2, <2>3, <2>4, <2>5, <2>6, <2>7
<1>13. ASSUME NEW r \in Streams, Cancelled(r) PROVE TypeOK'
  <2>1. CreditTypes'
    BY <1>13 DEF Cancelled, Does, Settlement, Finalize, Statuses, Terminal, creditVars,
       streamVars, memVars, bufVars, fileVars, crashVars, scanIdle, openIdle, runIdle, TypeOK,
       CreditTypes, StreamTypes, LoopTypes, MemTypes, LineTypes, FileTypes, ThreadTypes, Lines
  <2>2. StreamTypes'
    BY <1>13 DEF Cancelled, Does, Settlement, Finalize, Statuses, Terminal, creditVars,
       streamVars, memVars, bufVars, fileVars, crashVars, scanIdle, openIdle, runIdle, TypeOK,
       CreditTypes, StreamTypes, LoopTypes, MemTypes, LineTypes, FileTypes, ThreadTypes, Lines
  <2>3. LoopTypes'
    BY <1>13, DoesTypes, StepTypes DEF Cancelled, Statuses, Terminal, LoopTypes
  <2>4. MemTypes'
    BY <1>13 DEF Cancelled, Does, Settlement, Finalize, Statuses, Terminal, creditVars,
       streamVars, memVars, bufVars, fileVars, crashVars, scanIdle, openIdle, runIdle, TypeOK,
       CreditTypes, StreamTypes, LoopTypes, MemTypes, LineTypes, FileTypes, ThreadTypes, Lines
  <2>5. LineTypes'
    BY <1>13 DEF Cancelled, Does, Settlement, Finalize, Statuses, Terminal, creditVars,
       streamVars, memVars, bufVars, fileVars, crashVars, scanIdle, openIdle, runIdle, TypeOK,
       CreditTypes, StreamTypes, LoopTypes, MemTypes, LineTypes, FileTypes, ThreadTypes, Lines
  <2>6. FileTypes'
    BY <1>13 DEF Cancelled, Does, Settlement, Finalize, Statuses, Terminal, creditVars,
       streamVars, memVars, bufVars, fileVars, crashVars, scanIdle, openIdle, runIdle, TypeOK,
       CreditTypes, StreamTypes, LoopTypes, MemTypes, LineTypes, FileTypes, ThreadTypes, Lines
  <2>7. ThreadTypes'
    BY <1>13 DEF Cancelled, Does, Settlement, Finalize, Statuses, Terminal, creditVars,
       streamVars, memVars, bufVars, fileVars, crashVars, scanIdle, openIdle, runIdle, TypeOK,
       CreditTypes, StreamTypes, LoopTypes, MemTypes, LineTypes, FileTypes, ThreadTypes, Lines
  <2> QED
    BY <2>1, <2>2, <2>3, <2>4, <2>5, <2>6, <2>7
<1>14. ASSUME NEW r \in Streams, LeaveAwaiting(r) PROVE TypeOK'
  BY <1>14 DEF LeaveAwaiting, Drops, Ended, creditVars, streamVars, memVars, bufVars, fileVars,
     crashVars, scanIdle, openIdle, runIdle, TypeOK, CreditTypes, StreamTypes, LoopTypes,
     MemTypes, LineTypes, FileTypes, ThreadTypes, Lines
<1>15. ASSUME NEW r \in Streams, Close(r) PROVE TypeOK'
  BY <1>15 DEF Close, Drops, Ended, creditVars, streamVars, memVars, bufVars, fileVars,
     crashVars, scanIdle, openIdle, runIdle, TypeOK, CreditTypes, StreamTypes, LoopTypes,
     MemTypes, LineTypes, FileTypes, ThreadTypes, Lines
<1>16. ASSUME SettleStep PROVE TypeOK'
  <2>1. CreditTypes'
    BY <1>16 DEF SettleStep, Settle, Difference, NoHold, CreditTypes
  <2>2. StreamTypes'
    BY <1>16 DEF SettleStep, Settle, Difference, Proceed, Ended, Unregistered, Idle, Statuses,
       creditVars, streamVars, memVars, bufVars, fileVars, crashVars, scanIdle, openIdle,
       runIdle, TypeOK, CreditTypes, StreamTypes, LoopTypes, MemTypes, LineTypes, FileTypes,
       ThreadTypes, Lines
  <2>3. LoopTypes'
    BY <1>16, ProceedTypes DEF SettleStep
  <2>4. MemTypes'
    BY <1>16 DEF SettleStep, Settle, Difference, Proceed, Ended, Unregistered, Idle, Statuses,
       creditVars, streamVars, memVars, bufVars, fileVars, crashVars, scanIdle, openIdle,
       runIdle, TypeOK, CreditTypes, StreamTypes, LoopTypes, MemTypes, LineTypes, FileTypes,
       ThreadTypes, Lines
  <2>5. LineTypes'
    BY <1>16 DEF SettleStep, Settle, Difference, Proceed, Ended, Unregistered, Idle, Statuses,
       creditVars, streamVars, memVars, bufVars, fileVars, crashVars, scanIdle, openIdle,
       runIdle, TypeOK, CreditTypes, StreamTypes, LoopTypes, MemTypes, LineTypes, FileTypes,
       ThreadTypes, Lines
  <2>6. FileTypes'
    BY <1>16 DEF SettleStep, Settle, Difference, Proceed, Ended, Unregistered, Idle, Statuses,
       creditVars, streamVars, memVars, bufVars, fileVars, crashVars, scanIdle, openIdle,
       runIdle, TypeOK, CreditTypes, StreamTypes, LoopTypes, MemTypes, LineTypes, FileTypes,
       ThreadTypes, Lines
  <2>7. ThreadTypes'
    BY <1>16 DEF SettleStep, Settle, Difference, Proceed, Ended, Unregistered, Idle, Statuses,
       creditVars, streamVars, memVars, bufVars, fileVars, crashVars, scanIdle, openIdle,
       runIdle, TypeOK, CreditTypes, StreamTypes, LoopTypes, MemTypes, LineTypes, FileTypes,
       ThreadTypes, Lines
  <2> QED
    BY <2>1, <2>2, <2>3, <2>4, <2>5, <2>6, <2>7
<1>17. ASSUME AppendStep PROVE TypeOK'
  <2>1. CreditTypes'
    BY <1>17 DEF AppendStep, AppendAndFlush, LinesOf, Line, Proceed, Put, Ended, Idle, Doing,
       Busy, Entry, Entries, Statuses, Terminal, creditVars, streamVars, memVars, bufVars,
       fileVars, crashVars, scanIdle, openIdle, runIdle, TypeOK, CreditTypes, StreamTypes,
       LoopTypes, MemTypes, LineTypes, FileTypes, ThreadTypes, Lines
  <2>2. StreamTypes'
    BY <1>17 DEF AppendStep, AppendAndFlush, LinesOf, Line, Proceed, Put, Ended, Idle, Doing,
       Busy, Entry, Entries, Statuses, Terminal, creditVars, streamVars, memVars, bufVars,
       fileVars, crashVars, scanIdle, openIdle, runIdle, TypeOK, CreditTypes, StreamTypes,
       LoopTypes, MemTypes, LineTypes, FileTypes, ThreadTypes, Lines
  <2>3. LoopTypes'
    <3>1. Put(index, mine, loop.status, seq[mine] + 1) \in SUBSET Entries
      BY <1>17 DEF AppendStep, Put, Entry, Entries, LoopTypes, FileTypes, MemTypes
    <3> QED
      BY <1>17, <3>1, ProceedTypes DEF AppendStep
  <2>4. MemTypes'
    BY <1>17 DEF AppendStep, AppendAndFlush, LinesOf, Line, Proceed, Put, Ended, Idle, Doing,
       Busy, Entry, Entries, Statuses, Terminal, creditVars, streamVars, memVars, bufVars,
       fileVars, crashVars, scanIdle, openIdle, runIdle, TypeOK, CreditTypes, StreamTypes,
       LoopTypes, MemTypes, LineTypes, FileTypes, ThreadTypes, Lines
  <2>5. LineTypes'
    BY <1>17 DEF AppendStep, AppendAndFlush, LinesOf, Line, Proceed, Put, Ended, Idle, Doing,
       Busy, Entry, Entries, Statuses, Terminal, creditVars, streamVars, memVars, bufVars,
       fileVars, crashVars, scanIdle, openIdle, runIdle, TypeOK, CreditTypes, StreamTypes,
       LoopTypes, MemTypes, LineTypes, FileTypes, ThreadTypes, Lines
  <2>6. FileTypes'
    BY <1>17 DEF AppendStep, AppendAndFlush, LinesOf, Line, Proceed, Put, Ended, Idle, Doing,
       Busy, Entry, Entries, Statuses, Terminal, creditVars, streamVars, memVars, bufVars,
       fileVars, crashVars, scanIdle, openIdle, runIdle, TypeOK, CreditTypes, StreamTypes,
       LoopTypes, MemTypes, LineTypes, FileTypes, ThreadTypes, Lines
  <2>7. ThreadTypes'
    BY <1>17 DEF AppendStep, AppendAndFlush, LinesOf, Line, Proceed, Put, Ended, Idle, Doing,
       Busy, Entry, Entries, Statuses, Terminal, creditVars, streamVars, memVars, bufVars,
       fileVars, crashVars, scanIdle, openIdle, runIdle, TypeOK, CreditTypes, StreamTypes,
       LoopTypes, MemTypes, LineTypes, FileTypes, ThreadTypes, Lines
  <2> QED
    BY <2>1, <2>2, <2>3, <2>4, <2>5, <2>6, <2>7
<1>18. ASSUME StoreStep PROVE TypeOK'
  <2>1. CreditTypes'
    BY <1>18 DEF StoreStep, Proceed, Ended, Idle, Doing, Busy, Statuses, creditVars,
       streamVars, memVars, bufVars, fileVars, crashVars, scanIdle, openIdle, runIdle, TypeOK,
       CreditTypes, StreamTypes, LoopTypes, MemTypes, LineTypes, FileTypes, ThreadTypes, Lines
  <2>2. StreamTypes'
    BY <1>18 DEF StoreStep, Proceed, Ended, Idle, Doing, Busy, Statuses, creditVars,
       streamVars, memVars, bufVars, fileVars, crashVars, scanIdle, openIdle, runIdle, TypeOK,
       CreditTypes, StreamTypes, LoopTypes, MemTypes, LineTypes, FileTypes, ThreadTypes, Lines
  <2>3. LoopTypes'
    BY <1>18, ProceedTypes DEF StoreStep, LoopTypes
  <2>4. MemTypes'
    BY <1>18 DEF StoreStep, Proceed, Ended, Idle, Doing, Busy, Statuses, creditVars,
       streamVars, memVars, bufVars, fileVars, crashVars, scanIdle, openIdle, runIdle, TypeOK,
       CreditTypes, StreamTypes, LoopTypes, MemTypes, LineTypes, FileTypes, ThreadTypes, Lines
  <2>5. LineTypes'
    BY <1>18 DEF StoreStep, Proceed, Ended, Idle, Doing, Busy, Statuses, creditVars,
       streamVars, memVars, bufVars, fileVars, crashVars, scanIdle, openIdle, runIdle, TypeOK,
       CreditTypes, StreamTypes, LoopTypes, MemTypes, LineTypes, FileTypes, ThreadTypes, Lines
  <2>6. FileTypes'
    BY <1>18 DEF StoreStep, Proceed, Ended, Idle, Doing, Busy, Statuses, creditVars,
       streamVars, memVars, bufVars, fileVars, crashVars, scanIdle, openIdle, runIdle, TypeOK,
       CreditTypes, StreamTypes, LoopTypes, MemTypes, LineTypes, FileTypes, ThreadTypes, Lines
  <2>7. ThreadTypes'
    BY <1>18 DEF StoreStep, Proceed, Ended, Idle, Doing, Busy, Statuses, creditVars,
       streamVars, memVars, bufVars, fileVars, crashVars, scanIdle, openIdle, runIdle, TypeOK,
       CreditTypes, StreamTypes, LoopTypes, MemTypes, LineTypes, FileTypes, ThreadTypes, Lines
  <2> QED
    BY <2>1, <2>2, <2>3, <2>4, <2>5, <2>6, <2>7
<1>19. ASSUME SealStep PROVE TypeOK'
  <2>1. CreditTypes'
    BY <1>19 DEF SealStep, Covered, Numbers, LinesOf, Forget, Proceed, Ended, Idle, Doing,
       Busy, Statuses, creditVars, streamVars, memVars, bufVars, fileVars, crashVars,
       scanIdle, openIdle, runIdle, TypeOK, CreditTypes, StreamTypes, LoopTypes, MemTypes,
       LineTypes, FileTypes, ThreadTypes, Lines
  <2>2. StreamTypes'
    BY <1>19 DEF SealStep, Covered, Numbers, LinesOf, Forget, Proceed, Ended, Idle, Doing,
       Busy, Statuses, creditVars, streamVars, memVars, bufVars, fileVars, crashVars,
       scanIdle, openIdle, runIdle, TypeOK, CreditTypes, StreamTypes, LoopTypes, MemTypes,
       LineTypes, FileTypes, ThreadTypes, Lines
  <2>3. LoopTypes'
    BY <1>19, ProceedTypes DEF SealStep
  <2>4. MemTypes'
    BY <1>19 DEF SealStep, Covered, Numbers, LinesOf, Forget, Proceed, Ended, Idle, Doing,
       Busy, Statuses, creditVars, streamVars, memVars, bufVars, fileVars, crashVars,
       scanIdle, openIdle, runIdle, TypeOK, CreditTypes, StreamTypes, LoopTypes, MemTypes,
       LineTypes, FileTypes, ThreadTypes, Lines
  <2>5. LineTypes'
    BY <1>19 DEF SealStep, Covered, Numbers, LinesOf, Forget, Proceed, Ended, Idle, Doing,
       Busy, Statuses, creditVars, streamVars, memVars, bufVars, fileVars, crashVars,
       scanIdle, openIdle, runIdle, TypeOK, CreditTypes, StreamTypes, LoopTypes, MemTypes,
       LineTypes, FileTypes, ThreadTypes, Lines
  <2>6. FileTypes'
    BY <1>19 DEF SealStep, Covered, Numbers, LinesOf, Forget, Proceed, Ended, Idle, Doing,
       Busy, Statuses, creditVars, streamVars, memVars, bufVars, fileVars, crashVars,
       scanIdle, openIdle, runIdle, TypeOK, CreditTypes, StreamTypes, LoopTypes, MemTypes,
       LineTypes, FileTypes, ThreadTypes, Lines
  <2>7. ThreadTypes'
    BY <1>19 DEF SealStep, Covered, Numbers, LinesOf, Forget, Proceed, Ended, Idle, Doing,
       Busy, Statuses, creditVars, streamVars, memVars, bufVars, fileVars, crashVars,
       scanIdle, openIdle, runIdle, TypeOK, CreditTypes, StreamTypes, LoopTypes, MemTypes,
       LineTypes, FileTypes, ThreadTypes, Lines
  <2> QED
    BY <2>1, <2>2, <2>3, <2>4, <2>5, <2>6, <2>7
<1>20. ASSUME AwaitStep PROVE TypeOK'
  <2>1. CreditTypes'
    BY <1>20 DEF AwaitStep, AppendAndFlush, LinesOf, Line, Proceed, Put, Ended, Idle, Doing,
       Busy, Unregistered, Entry, Entries, Statuses, Terminal, creditVars, streamVars,
       memVars, bufVars, fileVars, crashVars, scanIdle, openIdle, runIdle, TypeOK,
       CreditTypes, StreamTypes, LoopTypes, MemTypes, LineTypes, FileTypes, ThreadTypes, Lines
  <2>2. StreamTypes'
    BY <1>20 DEF AwaitStep, AppendAndFlush, LinesOf, Line, Proceed, Put, Ended, Idle, Doing,
       Busy, Unregistered, Entry, Entries, Statuses, Terminal, creditVars, streamVars,
       memVars, bufVars, fileVars, crashVars, scanIdle, openIdle, runIdle, TypeOK,
       CreditTypes, StreamTypes, LoopTypes, MemTypes, LineTypes, FileTypes, ThreadTypes, Lines
  <2>3. LoopTypes'
    BY <1>20, ProceedTypes DEF AwaitStep
  <2>4. MemTypes'
    BY <1>20 DEF AwaitStep, AppendAndFlush, LinesOf, Line, Proceed, Put, Ended, Idle, Doing,
       Busy, Unregistered, Entry, Entries, Statuses, Terminal, creditVars, streamVars,
       memVars, bufVars, fileVars, crashVars, scanIdle, openIdle, runIdle, TypeOK,
       CreditTypes, StreamTypes, LoopTypes, MemTypes, LineTypes, FileTypes, ThreadTypes, Lines
  <2>5. LineTypes'
    BY <1>20 DEF AwaitStep, AppendAndFlush, LinesOf, Line, Proceed, Put, Ended, Idle, Doing,
       Busy, Unregistered, Entry, Entries, Statuses, Terminal, creditVars, streamVars,
       memVars, bufVars, fileVars, crashVars, scanIdle, openIdle, runIdle, TypeOK,
       CreditTypes, StreamTypes, LoopTypes, MemTypes, LineTypes, FileTypes, ThreadTypes, Lines
  <2>6. FileTypes'
    BY <1>20 DEF AwaitStep, AppendAndFlush, LinesOf, Line, Proceed, Put, Ended, Idle, Doing,
       Busy, Unregistered, Entry, Entries, Statuses, Terminal, creditVars, streamVars,
       memVars, bufVars, fileVars, crashVars, scanIdle, openIdle, runIdle, TypeOK,
       CreditTypes, StreamTypes, LoopTypes, MemTypes, LineTypes, FileTypes, ThreadTypes, Lines
  <2>7. ThreadTypes'
    BY <1>20 DEF AwaitStep, AppendAndFlush, LinesOf, Line, Proceed, Put, Ended, Idle, Doing,
       Busy, Unregistered, Entry, Entries, Statuses, Terminal, creditVars, streamVars,
       memVars, bufVars, fileVars, crashVars, scanIdle, openIdle, runIdle, TypeOK,
       CreditTypes, StreamTypes, LoopTypes, MemTypes, LineTypes, FileTypes, ThreadTypes, Lines
  <2> QED
    BY <2>1, <2>2, <2>3, <2>4, <2>5, <2>6, <2>7
<1>21. ASSUME StepRefused PROVE TypeOK'
  <2>1. CreditTypes'
    BY <1>21 DEF StepRefused, Ended, Idle, Busy, Statuses, creditVars, streamVars, memVars,
       bufVars, fileVars, crashVars, scanIdle, openIdle, runIdle, TypeOK, CreditTypes,
       StreamTypes, LoopTypes, MemTypes, LineTypes, FileTypes, ThreadTypes, Lines
  <2>2. StreamTypes'
    BY <1>21 DEF StepRefused, Ended, Idle, Busy, Statuses, creditVars, streamVars, memVars,
       bufVars, fileVars, crashVars, scanIdle, openIdle, runIdle, TypeOK, CreditTypes,
       StreamTypes, LoopTypes, MemTypes, LineTypes, FileTypes, ThreadTypes, Lines
  <2>3. LoopTypes'
    BY <1>21, IdleTypes DEF StepRefused, LoopTypes
  <2>4. MemTypes'
    BY <1>21 DEF StepRefused, Ended, Idle, Busy, Statuses, creditVars, streamVars, memVars,
       bufVars, fileVars, crashVars, scanIdle, openIdle, runIdle, TypeOK, CreditTypes,
       StreamTypes, LoopTypes, MemTypes, LineTypes, FileTypes, ThreadTypes, Lines
  <2>5. LineTypes'
    BY <1>21 DEF StepRefused, Ended, Idle, Busy, Statuses, creditVars, streamVars, memVars,
       bufVars, fileVars, crashVars, scanIdle, openIdle, runIdle, TypeOK, CreditTypes,
       StreamTypes, LoopTypes, MemTypes, LineTypes, FileTypes, ThreadTypes, Lines
  <2>6. FileTypes'
    BY <1>21 DEF StepRefused, Ended, Idle, Busy, Statuses, creditVars, streamVars, memVars,
       bufVars, fileVars, crashVars, scanIdle, openIdle, runIdle, TypeOK, CreditTypes,
       StreamTypes, LoopTypes, MemTypes, LineTypes, FileTypes, ThreadTypes, Lines
  <2>7. ThreadTypes'
    BY <1>21 DEF StepRefused, Ended, Idle, Busy, Statuses, creditVars, streamVars, memVars,
       bufVars, fileVars, crashVars, scanIdle, openIdle, runIdle, TypeOK, CreditTypes,
       StreamTypes, LoopTypes, MemTypes, LineTypes, FileTypes, ThreadTypes, Lines
  <2> QED
    BY <2>1, <2>2, <2>3, <2>4, <2>5, <2>6, <2>7
<1>22. ASSUME NEW t \in Traces, Stop(t) PROVE TypeOK'
  BY <1>22 DEF Stop, creditVars, streamVars, memVars, bufVars, fileVars, crashVars, scanIdle,
     openIdle, runIdle, TypeOK, CreditTypes, StreamTypes, LoopTypes, MemTypes, LineTypes,
     FileTypes, ThreadTypes, Lines
<1>23. ASSUME DrainTake PROVE TypeOK'
  BY <1>23 DEF DrainTake, creditVars, streamVars, memVars, bufVars, fileVars, crashVars,
     scanIdle, openIdle, runIdle, TypeOK, CreditTypes, StreamTypes, LoopTypes, MemTypes,
     LineTypes, FileTypes, ThreadTypes, Lines
<1>24. ASSUME DrainWrite PROVE TypeOK'
  BY <1>24 DEF DrainWrite, creditVars, streamVars, memVars, bufVars, fileVars, crashVars,
     scanIdle, openIdle, runIdle, TypeOK, CreditTypes, StreamTypes, LoopTypes, MemTypes,
     LineTypes, FileTypes, ThreadTypes, Lines
<1>25. ASSUME Granted PROVE TypeOK'
  BY <1>25 DEF Granted, AdminAdjust, creditVars, streamVars, memVars, bufVars, fileVars,
     crashVars, scanIdle, openIdle, runIdle, TypeOK, CreditTypes, StreamTypes, LoopTypes,
     MemTypes, LineTypes, FileTypes, ThreadTypes, Lines
<1>26. ASSUME NEW t \in Traces, ScanFind(t) PROVE TypeOK'
  BY <1>26 DEF ScanFind, ScanTo, creditVars, streamVars, memVars, bufVars, fileVars, crashVars,
     scanIdle, openIdle, runIdle, TypeOK, CreditTypes, StreamTypes, LoopTypes, MemTypes,
     LineTypes, FileTypes, ThreadTypes, Lines
<1>27. ASSUME ScanCancel PROVE TypeOK'
  BY <1>27 DEF ScanCancel, ScanTo, Emit, Line, creditVars, streamVars, memVars, bufVars,
     fileVars, crashVars, scanIdle, openIdle, runIdle, TypeOK, CreditTypes, StreamTypes,
     LoopTypes, MemTypes, LineTypes, FileTypes, ThreadTypes, Lines
<1>28. ASSUME ScanLoad PROVE TypeOK'
  BY <1>28 DEF ScanLoad, ScanTo, LinesOf, Put, Entry, Entries, Statuses, Terminal, creditVars,
     streamVars, memVars, bufVars, fileVars, crashVars, scanIdle, openIdle, runIdle, TypeOK,
     CreditTypes, StreamTypes, LoopTypes, MemTypes, LineTypes, FileTypes, ThreadTypes, Lines
<1>29. ASSUME ScanStore PROVE TypeOK'
  BY <1>29 DEF ScanStore, ScanTo, creditVars, streamVars, memVars, bufVars, fileVars, crashVars,
     scanIdle, openIdle, runIdle, TypeOK, CreditTypes, StreamTypes, LoopTypes, MemTypes,
     LineTypes, FileTypes, ThreadTypes, Lines
<1>30. ASSUME ScanSeal PROVE TypeOK'
  BY <1>30 DEF ScanSeal, ScanTo, ScanEnds, Covered, Numbers, LinesOf, Forget, creditVars,
     streamVars, memVars, bufVars, fileVars, crashVars, scanIdle, openIdle, runIdle, TypeOK,
     CreditTypes, StreamTypes, LoopTypes, MemTypes, LineTypes, FileTypes, ThreadTypes, Lines
<1>31. ASSUME ScanRefused PROVE TypeOK'
  BY <1>31 DEF ScanRefused, ScanTo, ScanEnds, creditVars, streamVars, memVars, bufVars,
     fileVars, crashVars, scanIdle, openIdle, runIdle, TypeOK, CreditTypes, StreamTypes,
     LoopTypes, MemTypes, LineTypes, FileTypes, ThreadTypes, Lines
<1>32. ASSUME Crash PROVE TypeOK'
  <2>1. CreditTypes'
    BY <1>32 DEF Crash, CreateHoldDies, SettleDies, Difference, ScanTo, ScanEnds, Idle,
       Statuses, creditVars, streamVars, memVars, bufVars, fileVars, crashVars, scanIdle,
       openIdle, runIdle, TypeOK, CreditTypes, StreamTypes, LoopTypes, MemTypes, LineTypes,
       FileTypes, ThreadTypes, Lines
  <2>2. StreamTypes'
    BY <1>32 DEF Crash, CreateHoldDies, SettleDies, Difference, ScanTo, ScanEnds, Idle,
       Statuses, creditVars, streamVars, memVars, bufVars, fileVars, crashVars, scanIdle,
       openIdle, runIdle, TypeOK, CreditTypes, StreamTypes, LoopTypes, MemTypes, LineTypes,
       FileTypes, ThreadTypes, Lines
  <2>3. LoopTypes'
    BY <1>32, IdleTypes DEF Crash, LoopTypes
  <2>4. MemTypes'
    BY <1>32 DEF Crash, CreateHoldDies, SettleDies, Difference, ScanTo, ScanEnds, Idle,
       Statuses, creditVars, streamVars, memVars, bufVars, fileVars, crashVars, scanIdle,
       openIdle, runIdle, TypeOK, CreditTypes, StreamTypes, LoopTypes, MemTypes, LineTypes,
       FileTypes, ThreadTypes, Lines
  <2>5. LineTypes'
    BY <1>32 DEF Crash, CreateHoldDies, SettleDies, Difference, ScanTo, ScanEnds, Idle,
       Statuses, creditVars, streamVars, memVars, bufVars, fileVars, crashVars, scanIdle,
       openIdle, runIdle, TypeOK, CreditTypes, StreamTypes, LoopTypes, MemTypes, LineTypes,
       FileTypes, ThreadTypes, Lines
  <2>6. FileTypes'
    BY <1>32 DEF Crash, CreateHoldDies, SettleDies, Difference, ScanTo, ScanEnds, Idle,
       Statuses, creditVars, streamVars, memVars, bufVars, fileVars, crashVars, scanIdle,
       openIdle, runIdle, TypeOK, CreditTypes, StreamTypes, LoopTypes, MemTypes, LineTypes,
       FileTypes, ThreadTypes, Lines
  <2>7. ThreadTypes'
    <3>1. torn' \in BOOLEAN
      BY <1>32, Zenon DEF Crash, ThreadTypes
    <3>2. scan' = [at |-> "idle", trace |-> NoOne, copy |-> {}] /\ crashes' = crashes + 1
      BY <1>32 DEF Crash, ScanEnds, ScanTo
    <3>3. scanned' = scanned
      BY <1>32 DEF Crash
    <3> QED
      BY <3>1, <3>2, <3>3 DEF ThreadTypes
  <2> QED
    BY <2>1, <2>2, <2>3, <2>4, <2>5, <2>6, <2>7
<1>33. CASE UNCHANGED vars
  BY <1>33 DEF vars, creditVars, streamVars, memVars, bufVars, fileVars, crashVars, scanIdle,
     openIdle, runIdle, TypeOK, CreditTypes, StreamTypes, LoopTypes, MemTypes, LineTypes,
     FileTypes, ThreadTypes, Lines
<1> QED
  BY <1>1, <1>2, <1>3, <1>4, <1>5, <1>6, <1>7, <1>8, <1>9, <1>10, <1>11, <1>12, <1>13, <1>14,
     <1>15, <1>16, <1>17, <1>18, <1>19, <1>20, <1>21, <1>22, <1>23, <1>24, <1>25, <1>26, <1>27,
     <1>28, <1>29, <1>30, <1>31, <1>32, <1>33 DEF Next, Stream, LoopStep, Scan

\* The model's types.
THEOREM TypeSafety == Spec => []TypeOK
  BY InitTypes, NextTypes, PTL DEF Spec

-----------------------------------------------------------------------------
(* Credits *)

\* The statement that settles the hold is next.
Stopping == Doing("settle")

Others ==
    \/ \E r \in Streams :
        \/ OpenNew(r) \/ Register(r) \/ Assemble(r) \/ LeaveSetup(r)
        \/ \E t \in Traces : Resume(r, t)
        \/ AgentEvent(r) \/ EventRefused(r) \/ Complete(r) \/ Interrupt(r) \/ Fail(r)
        \/ Cancelled(r) \/ LeaveAwaiting(r) \/ Close(r)
    \/ AppendStep \/ StoreStep \/ SealStep \/ AwaitStep \/ StepRefused
    \/ \E t \in Traces : Stop(t)
    \/ DrainTake \/ DrainWrite \/ Scan \/ UNCHANGED vars

\* The actions by what they do to credits.
LEMMA Actions ==
    [Next]_vars => \/ \E r \in Streams : Delegate(r) \/ ModelCall(r)
                   \/ SettleStep \/ Granted \/ Crash \/ Others
  BY DEF Next, Stream, LoopStep, Others

\* The others leave the credits alone, and a stream that is about to settle about to settle.
LEMMA Frame ==
    ASSUME Others
    PROVE  UNCHANGED <<balance, hold, spent, granted, crashes, torn>> /\ (Stopping => Stopping')
<1>1. ASSUME NEW r \in Streams, OpenNew(r)
      PROVE  UNCHANGED <<balance, hold, spent, granted, crashes, torn>> /\ (Stopping => Stopping')
  BY <1>1 DEF OpenNew, CreateRun, Stopping, Doing, Busy, Running, creditVars, streamVars,
     memVars, bufVars, fileVars, crashVars, scanIdle, openIdle, runIdle
<1>2. ASSUME NEW r \in Streams, NEW t \in Traces, Resume(r, t)
      PROVE  UNCHANGED <<balance, hold, spent, granted, crashes, torn>> /\ (Stopping => Stopping')
  BY <1>2 DEF Resume, Stopping, Doing, Busy, Running, creditVars, streamVars, memVars, bufVars,
     fileVars, crashVars, scanIdle, openIdle, runIdle
<1>3. ASSUME NEW r \in Streams, Register(r)
      PROVE  UNCHANGED <<balance, hold, spent, granted, crashes, torn>> /\ (Stopping => Stopping')
  BY <1>3 DEF Register, Stopping, Doing, Busy, Running, creditVars, streamVars, memVars,
     bufVars, fileVars, crashVars, scanIdle, openIdle, runIdle
<1>4. ASSUME NEW r \in Streams, Assemble(r)
      PROVE  UNCHANGED <<balance, hold, spent, granted, crashes, torn>> /\ (Stopping => Stopping')
  BY <1>4 DEF Assemble, Stopping, Doing, Busy, Running, creditVars, streamVars, memVars,
     bufVars, fileVars, crashVars, scanIdle, openIdle, runIdle
<1>5. ASSUME NEW r \in Streams, LeaveSetup(r)
      PROVE  UNCHANGED <<balance, hold, spent, granted, crashes, torn>> /\ (Stopping => Stopping')
  BY <1>5 DEF LeaveSetup, Stopping, Doing, Busy, Running, creditVars, streamVars, memVars,
     bufVars, fileVars, crashVars, scanIdle, openIdle, runIdle
<1>6. ASSUME NEW r \in Streams, AgentEvent(r)
      PROVE  UNCHANGED <<balance, hold, spent, granted, crashes, torn>> /\ (Stopping => Stopping')
  BY <1>6 DEF AgentEvent, Stopping, Doing, Busy, Running, creditVars, streamVars, memVars,
     bufVars, fileVars, crashVars, scanIdle, openIdle, runIdle
<1>7. ASSUME NEW r \in Streams, EventRefused(r)
      PROVE  UNCHANGED <<balance, hold, spent, granted, crashes, torn>> /\ (Stopping => Stopping')
  BY <1>7 DEF EventRefused, Drops, Running, Stopping, Doing, Busy, Running, creditVars,
     streamVars, memVars, bufVars, fileVars, crashVars, scanIdle, openIdle, runIdle
<1>8. ASSUME NEW r \in Streams, Complete(r)
      PROVE  UNCHANGED <<balance, hold, spent, granted, crashes, torn>> /\ (Stopping => Stopping')
  BY <1>8 DEF Complete, Stopping, Doing, Busy, Running, creditVars, streamVars, memVars,
     bufVars, fileVars, crashVars, scanIdle, openIdle, runIdle
<1>9. ASSUME NEW r \in Streams, Interrupt(r)
      PROVE  UNCHANGED <<balance, hold, spent, granted, crashes, torn>> /\ (Stopping => Stopping')
  BY <1>9 DEF Interrupt, Stopping, Doing, Busy, Running, creditVars, streamVars, memVars,
     bufVars, fileVars, crashVars, scanIdle, openIdle, runIdle
<1>10. ASSUME NEW r \in Streams, Fail(r)
      PROVE  UNCHANGED <<balance, hold, spent, granted, crashes, torn>> /\ (Stopping => Stopping')
  BY <1>10 DEF Fail, Stopping, Doing, Busy, Running, creditVars, streamVars, memVars, bufVars,
     fileVars, crashVars, scanIdle, openIdle, runIdle
<1>11. ASSUME NEW r \in Streams, Cancelled(r)
      PROVE  UNCHANGED <<balance, hold, spent, granted, crashes, torn>> /\ (Stopping => Stopping')
  BY <1>11 DEF Cancelled, Stopping, Doing, Busy, Running, creditVars, streamVars, memVars,
     bufVars, fileVars, crashVars, scanIdle, openIdle, runIdle
<1>12. ASSUME NEW r \in Streams, LeaveAwaiting(r)
      PROVE  UNCHANGED <<balance, hold, spent, granted, crashes, torn>> /\ (Stopping => Stopping')
  BY <1>12 DEF LeaveAwaiting, Drops, Stopping, Doing, Busy, Running, creditVars, streamVars,
     memVars, bufVars, fileVars, crashVars, scanIdle, openIdle, runIdle
<1>13. ASSUME NEW r \in Streams, Close(r)
      PROVE  UNCHANGED <<balance, hold, spent, granted, crashes, torn>> /\ (Stopping => Stopping')
  BY <1>13 DEF Close, Drops, Stopping, Doing, Busy, Running, creditVars, streamVars, memVars,
     bufVars, fileVars, crashVars, scanIdle, openIdle, runIdle
<1>14. ASSUME AppendStep
      PROVE  UNCHANGED <<balance, hold, spent, granted, crashes, torn>> /\ (Stopping => Stopping')
  BY <1>14 DEF AppendStep, Stopping, Doing, Busy, Running, creditVars, streamVars, memVars,
     bufVars, fileVars, crashVars, scanIdle, openIdle, runIdle
<1>15. ASSUME StoreStep
      PROVE  UNCHANGED <<balance, hold, spent, granted, crashes, torn>> /\ (Stopping => Stopping')
  BY <1>15 DEF StoreStep, Stopping, Doing, Busy, Running, creditVars, streamVars, memVars,
     bufVars, fileVars, crashVars, scanIdle, openIdle, runIdle
<1>16. ASSUME SealStep
      PROVE  UNCHANGED <<balance, hold, spent, granted, crashes, torn>> /\ (Stopping => Stopping')
  BY <1>16 DEF SealStep, Stopping, Doing, Busy, Running, creditVars, streamVars, memVars,
     bufVars, fileVars, crashVars, scanIdle, openIdle, runIdle
<1>17. ASSUME AwaitStep
      PROVE  UNCHANGED <<balance, hold, spent, granted, crashes, torn>> /\ (Stopping => Stopping')
  BY <1>17 DEF AwaitStep, Stopping, Doing, Busy, Running, creditVars, streamVars, memVars,
     bufVars, fileVars, crashVars, scanIdle, openIdle, runIdle
<1>18. ASSUME StepRefused
      PROVE  UNCHANGED <<balance, hold, spent, granted, crashes, torn>> /\ (Stopping => Stopping')
  BY <1>18 DEF StepRefused, Stopping, Doing, Busy, Running, creditVars, streamVars, memVars,
     bufVars, fileVars, crashVars, scanIdle, openIdle, runIdle
<1>19. ASSUME NEW t \in Traces, Stop(t)
      PROVE  UNCHANGED <<balance, hold, spent, granted, crashes, torn>> /\ (Stopping => Stopping')
  BY <1>19 DEF Stop, Stopping, Doing, Busy, Running, creditVars, streamVars, memVars, bufVars,
     fileVars, crashVars, scanIdle, openIdle, runIdle
<1>20. ASSUME DrainTake
      PROVE  UNCHANGED <<balance, hold, spent, granted, crashes, torn>> /\ (Stopping => Stopping')
  BY <1>20 DEF DrainTake, Stopping, Doing, Busy, Running, creditVars, streamVars, memVars,
     bufVars, fileVars, crashVars, scanIdle, openIdle, runIdle
<1>21. ASSUME DrainWrite
      PROVE  UNCHANGED <<balance, hold, spent, granted, crashes, torn>> /\ (Stopping => Stopping')
  BY <1>21 DEF DrainWrite, Stopping, Doing, Busy, Running, creditVars, streamVars, memVars,
     bufVars, fileVars, crashVars, scanIdle, openIdle, runIdle
<1>22. ASSUME NEW t \in Traces, ScanFind(t)
      PROVE  UNCHANGED <<balance, hold, spent, granted, crashes, torn>> /\ (Stopping => Stopping')
  BY <1>22 DEF ScanFind, Stopping, Doing, Busy, Running, creditVars, streamVars, memVars,
     bufVars, fileVars, crashVars, scanIdle, openIdle, runIdle
<1>23. ASSUME ScanCancel
      PROVE  UNCHANGED <<balance, hold, spent, granted, crashes, torn>> /\ (Stopping => Stopping')
  BY <1>23 DEF ScanCancel, Stopping, Doing, Busy, Running, creditVars, streamVars, memVars,
     bufVars, fileVars, crashVars, scanIdle, openIdle, runIdle
<1>24. ASSUME ScanLoad
      PROVE  UNCHANGED <<balance, hold, spent, granted, crashes, torn>> /\ (Stopping => Stopping')
  BY <1>24 DEF ScanLoad, Stopping, Doing, Busy, Running, creditVars, streamVars, memVars,
     bufVars, fileVars, crashVars, scanIdle, openIdle, runIdle
<1>25. ASSUME ScanStore
      PROVE  UNCHANGED <<balance, hold, spent, granted, crashes, torn>> /\ (Stopping => Stopping')
  BY <1>25 DEF ScanStore, Stopping, Doing, Busy, Running, creditVars, streamVars, memVars,
     bufVars, fileVars, crashVars, scanIdle, openIdle, runIdle
<1>26. ASSUME ScanSeal
      PROVE  UNCHANGED <<balance, hold, spent, granted, crashes, torn>> /\ (Stopping => Stopping')
  BY <1>26 DEF ScanSeal, Stopping, Doing, Busy, Running, creditVars, streamVars, memVars,
     bufVars, fileVars, crashVars, scanIdle, openIdle, runIdle
<1>27. ASSUME ScanRefused
      PROVE  UNCHANGED <<balance, hold, spent, granted, crashes, torn>> /\ (Stopping => Stopping')
  BY <1>27 DEF ScanRefused, Stopping, Doing, Busy, Running, creditVars, streamVars, memVars,
     bufVars, fileVars, crashVars, scanIdle, openIdle, runIdle
<1>28. ASSUME UNCHANGED vars
      PROVE  UNCHANGED <<balance, hold, spent, granted, crashes, torn>> /\ (Stopping => Stopping')
  BY <1>28 DEF vars, Stopping, Doing, Busy, creditVars, streamVars, memVars, bufVars, fileVars,
     crashVars, scanIdle, openIdle, runIdle
<1> QED
  BY <1>1, <1>2, <1>3, <1>4, <1>5, <1>6, <1>7, <1>8, <1>9, <1>10, <1>11, <1>12, <1>13, <1>14,
     <1>15, <1>16, <1>17, <1>18, <1>19, <1>20, <1>21, <1>22, <1>23, <1>24, <1>25, <1>26, <1>27,
     <1>28 DEF Others, Scan

\* No credit is lost or made.
LEMMA BooksStep == TypeOK /\ Books /\ [Next]_vars => Books'
<1> SUFFICES ASSUME TypeOK, Books, [Next]_vars PROVE Books'
  OBVIOUS
<1> USE CreditsAssumption, GrantsAssumption DEF TypeOK, CreditTypes, Books
<1>1. ASSUME NEW r \in Streams, Delegate(r) PROVE Books'
  BY <1>1 DEF Delegate, runIdle, crashVars, CreateHold, CanHold
<1>2. ASSUME NEW r \in Streams, ModelCall(r) PROVE Books'
  BY <1>2 DEF ModelCall, runIdle, crashVars, Consume
<1>3. CASE SettleStep
  BY <1>3 DEF SettleStep, crashVars, Settle, Difference, NoHold
<1>4. CASE Granted
  BY <1>4 DEF Granted, crashVars, AdminAdjust
<1>5. CASE Crash
  BY <1>5 DEF Crash, creditVars
<1>6. CASE Others
  BY <1>6, Frame
<1> QED
  BY <1>1, <1>2, <1>3, <1>4, <1>5, <1>6, Actions

THEOREM BooksBalance == Spec => []Books
<1>1. Init => Books
  BY CreditsAssumption DEF Init, CreditsInit, NoHold, Books
<1> QED
  BY <1>1, BooksStep, TypeSafety, PTL DEF Spec

(* The debt.  A model call is let through while the hold, counted a second time, keeps the *)
(* balance above the limit.  The call that crosses it is followed by the settlement, unless *)
(* the process dies first: then another stream may make one more.                           *)

DebtInv ==
    hold.active /\ ~torn =>
        /\ balance - hold.consumed >= MaxDebt - (crashes + 1) * MaxCost
        /\ Stopping \/ balance - hold.consumed >= MaxDebt - crashes * MaxCost

LEMMA Product == \A a, b \in Nat : a * b \in Nat /\ (a + 1) * b = a * b + b
  OBVIOUS

LEMMA DebtStep == TypeOK /\ DebtInv /\ [Next]_vars => DebtInv'
<1> SUFFICES ASSUME TypeOK, DebtInv, [Next]_vars PROVE DebtInv'
  OBVIOUS
<1> DEFINE P == crashes * MaxCost
           Q == (crashes + 1) * MaxCost
<1> USE CreditsAssumption, GrantsAssumption DEF TypeOK, CreditTypes, ThreadTypes, MaxDebt
<1>a. P \in Nat /\ Q = P + MaxCost /\ Q \in Nat
  BY Product
<1>1. ASSUME NEW r \in Streams, Delegate(r) PROVE DebtInv'
  BY <1>1, <1>a DEF Delegate, runIdle, crashVars, CreateHold, CanHold, DebtInv
<1>2. ASSUME NEW r \in Streams, ModelCall(r) PROVE DebtInv'
  <2>1. PICK c \in Costs :
          /\ Consume(c)
          /\ IF LimitReached(hold.consumed + c)
             THEN Does(r, <<"settle">> \o Finalize, "cancelled", "done")
             ELSE UNCHANGED loop
    BY <1>2 DEF ModelCall
  <2>2. c \in Nat /\ c <= MaxCost
    OBVIOUS
  <2>3. ~Stopping /\ crashes' = crashes /\ torn' = torn
    BY <1>2 DEF ModelCall, Running, Stopping, Doing, runIdle, crashVars
  <2>4. balance' = balance /\ hold'.consumed = hold.consumed + c /\ hold.active
    BY <2>1 DEF Consume
  <2>5. CASE LimitReached(hold.consumed + c)
    <3>1. Stopping'
      <4>1. loop' = [by |-> r, todo |-> <<"settle">> \o Finalize, status |-> "cancelled",
                     end |-> "done", copy |-> {}]
        BY <2>1, <2>5 DEF Does
      <4>2. Head(<<"settle">> \o Finalize) = "settle"
        BY DEF Finalize
      <4> QED
        BY <4>1, <4>2, WritersAssumption DEF Stopping, Doing, Busy
    <3> QED
      BY <3>1, <2>2, <2>3, <2>4, <1>a DEF DebtInv
  <2>6. CASE ~LimitReached(hold.consumed + c)
    BY <2>6, <2>2, <2>3, <2>4, <1>a DEF DebtInv, LimitReached
  <2> QED
    BY <2>5, <2>6
<1>3. CASE SettleStep
  BY <1>3 DEF SettleStep, Settle, NoHold, DebtInv
<1>4. CASE Granted
  <2>1. Stopping' = Stopping /\ crashes' = crashes /\ torn' = torn
    BY <1>4 DEF Granted, crashVars, Stopping, Doing, Busy
  <2>2. PICK a \in Grants : AdminAdjust(a)
    BY <1>4 DEF Granted
  <2>3. a \in Nat /\ balance' = balance + a /\ hold' = hold
    BY <2>2 DEF AdminAdjust
  <2> QED
    BY <2>1, <2>3, <1>a DEF DebtInv
<1>5. CASE Crash
  <2>1. CASE torn'
    BY <2>1 DEF DebtInv
  <2>2. CASE ~torn'
    <3>1. UNCHANGED <<balance, hold, torn>> /\ crashes' = crashes + 1
      BY <1>5, <2>2 DEF Crash, creditVars
    <3>2. (crashes' + 1) * MaxCost = Q + MaxCost
      BY <3>1, Product
    <3> QED
      BY <3>1, <3>2, <1>a, <2>2 DEF DebtInv
  <2> QED
    BY <2>1, <2>2
<1>6. CASE Others
  BY <1>6, Frame DEF DebtInv
<1> QED
  BY <1>1, <1>2, <1>3, <1>4, <1>5, <1>6, Actions

\* A creation is stopped a whole hold above the limit, but for one call and one per crash.
THEOREM DebtIsBounded == Spec => []DebtBounded
<1>1. Init => DebtInv
  BY DEF Init, CreditsInit, NoHold, DebtInv
<1>2. TypeOK /\ DebtInv => DebtBounded
  <2> SUFFICES ASSUME TypeOK, DebtInv PROVE DebtBounded
    OBVIOUS
  <2>1. (crashes + 1) * MaxCost \in Nat
    BY Product, CreditsAssumption DEF TypeOK, ThreadTypes
  <2> QED
    BY <2>1, CreditsAssumption
    DEF TypeOK, CreditTypes, ThreadTypes, DebtInv, DebtBounded, Settled, MaxDebt
<1> QED
  BY <1>1, <1>2, DebtStep, TypeSafety, PTL DEF Spec

-----------------------------------------------------------------------------
(* The account.  Holds, refunds and charges are invisible in what the user has once all is *)
(* settled: each step is a step of Ledger or changes nothing there.                        *)

AccountStep == Account!LedgerNext \/ UNCHANGED Account!ledgerVars

LEMMA InitAccount == Init => Account!LedgerInit
  BY CreditsAssumption DEF Init, CreditsInit, NoHold, Settled, Account!LedgerInit

LEMMA KeepsAccount == ASSUME TypeOK, [Next]_vars PROVE AccountStep
<1> USE CreditsAssumption, GrantsAssumption DEF TypeOK, CreditTypes, Settled
<1>1. ASSUME NEW r \in Streams, Delegate(r) PROVE Account!Begin
  BY <1>1 DEF Delegate, runIdle, crashVars, CreateHold, CanHold, IsFrozen, MaxDebt,
              Account!Begin
<1>2. ASSUME NEW r \in Streams, ModelCall(r) PROVE \E c \in Costs : Account!Use(c)
  <2>1. PICK c \in Costs : Consume(c)
    BY <1>2 DEF ModelCall
  <2>2. torn' = torn /\ c \in Int
    BY <1>2 DEF ModelCall, runIdle, crashVars
  <2>3. /\ hold.active /\ hold'.active /\ balance' = balance
        /\ hold'.consumed = hold.consumed + c
    BY <2>1 DEF Consume
  <2>4. Settled' = Settled - c
    BY <2>2, <2>3
  <2> QED
    BY <2>2, <2>3, <2>4 DEF Account!Use
<1>3. ASSUME SettleStep PROVE Account!Finish
  BY <1>3 DEF SettleStep, crashVars, Settle, Difference, NoHold, Account!Finish
<1>4. ASSUME Granted PROVE \E a \in Grants : Account!Grant(a)
  <2>1. PICK a \in Grants : AdminAdjust(a)
    BY <1>4 DEF Granted
  <2>2. torn' = torn /\ a \in Int
    BY <1>4 DEF Granted, crashVars
  <2>3. balance' = balance + a /\ hold' = hold
    BY <2>1 DEF AdminAdjust
  <2>4. Settled' = Settled + a
    BY <2>2, <2>3
  <2> QED
    BY <2>2, <2>3, <2>4 DEF Account!Grant
<1>5. ASSUME Crash PROVE Account!Tear \/ UNCHANGED Account!ledgerVars
  <2>1. CASE UNCHANGED <<creditVars, torn>>
    BY <2>1 DEF creditVars, Account!ledgerVars
  <2>2. CASE CreateHoldDies /\ torn' = TRUE
    <3>1. balance' \in Int /\ hold' = hold
      BY <2>2 DEF CreateHoldDies
    <3> QED
      BY <2>2, <3>1 DEF Account!Tear
  <2>3. CASE SettleDies /\ torn' = TRUE
    <3>1. balance' \in Int /\ hold' = hold
      BY <2>3 DEF SettleDies, Difference
    <3> QED
      BY <2>3, <3>1 DEF Account!Tear
  <2> QED
    BY <1>5, <2>1, <2>2, <2>3 DEF Crash
<1>6. ASSUME Others PROVE UNCHANGED Account!ledgerVars
  BY <1>6, Frame DEF Account!ledgerVars
<1> QED
  BY <1>1, <1>2, <1>3, <1>4, <1>5, <1>6, Actions DEF AccountStep, Account!LedgerNext

\* Whatever the streams, holds, settlements and crashes do, the account changes only as
\* Ledger says.
THEOREM AccountRefined == Spec => AccountKept
<1>1. TypeOK /\ [Next]_vars => [Account!LedgerNext]_(Account!ledgerVars)
  BY KeepsAccount DEF AccountStep
<1> QED
  BY <1>1, InitAccount, TypeSafety, PTL DEF Spec, AccountKept, Account!LedgerSpec

=============================================================================
