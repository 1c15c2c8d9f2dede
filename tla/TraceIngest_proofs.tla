------------------------- MODULE TraceIngest_proofs -------------------------
(***************************************************************************)
(* Proofs about TraceIngest, for every number of ingestions, events,       *)
(* clashes and restarts.  The inductive invariant has four parts: what the *)
(* executor's file and index say of each other (File, Sealing), what a     *)
(* thread holds between a fetch and its commit (Honest), and what the copy *)
(* owes to both (Copied).                                                  *)
(***************************************************************************)
EXTENDS TraceIngest, WellFoundedInduction, TLAPS

-----------------------------------------------------------------------------
(* The invariant                                                           *)

SameEvent(S) == \A e, f \in S : e.n = f.n => e = f
Judged(S) == \E e \in S : e.kind \in Verdicts

\* Number and copy name one event, a verdict's number names no other.
Named(A, m) ==
    /\ \A e \in A : e.n <= m /\ (e.copy = 2 => e.kind = "event")
    /\ \A e, f \in A : e.n = f.n /\ e.copy = f.copy => e = f
    /\ \A e, f \in A : e.n = f.n /\ e.kind \in Verdicts => e = f

\* A trace is judged once.
OneEnding(A) == \A e, f \in A : e.kind \in Verdicts /\ f.kind \in Verdicts => e = f

File ==
    /\ stage = "running" => top <= MaxEvents - 1 /\ ~Judged(log \cup late)
    /\ stage # "running" => Judged(log)
    /\ Named(log \cup late, top) /\ OneEnding(log \cup late)

Sealing ==
    /\ idx.status \in Verdicts <=> stage \in {"indexed", "sealed"}
    /\ idx.status \in Verdicts => Has(log, idx.status)
    /\ stage # "sealed" => idx.manifest = {}
    /\ idx.integrity # "verified" => idx.manifest = {}
    /\ idx.manifest # {} => Judged(idx.manifest)

\* What thread r holds, given the file L, the events S stored and the
\* manifest M.
Honest(r, L, S, M) ==
    /\ \A h \in r.hint :
          /\ h.manifest # {} => h.manifest = M /\ h.status \in Verdicts
          /\ h.integrity # "verified" => h.manifest = {}
          /\ h.status \in Verdicts =>
                /\ Has(L, h.status)
                /\ r.at = "commit" => Judged(r.events \cup S)
    /\ r.events \subseteq L
    /\ 1..r.since \subseteq Numbers(S)

ThreadsHonest == \A t \in Threads : Honest(th[t], log, stored, idx.manifest)

Whole ==
    row.by = "receipt" /\ row.integrity = "verified" =>
        /\ stored = idx.manifest /\ stored # {} /\ ~conflict
        /\ Numbers(stored) = 1..row.seq /\ Numbers(stored) \cap Heavy \subseteq bodies
        /\ row.status \in Verdicts

Copied ==
    /\ stored \subseteq log /\ SameEvent(stored)
    /\ 1..row.seq \subseteq Numbers(stored) /\ row.seq + 1 \notin Numbers(stored)
    /\ EndingIsProven
    /\ Whole

Inv == TypeOK /\ File /\ Sealing /\ ThreadsHonest /\ Copied

-----------------------------------------------------------------------------
(* The high-water mark                                                     *)

LEMMA LeastExists ==
    ASSUME NEW S \in SUBSET Nat, S # {}
    PROVE  \E x \in S : \A y \in S : x <= y
<1>1. PICK k \in S : \A y \in S : ~(<<y, k>> \in OpToRel(<, Nat))
  BY WFMin, NatLessThanWellFounded
<1>2. \A y \in S : ~(y < k)
  BY <1>1 DEF OpToRel
<1> QED
  BY <1>2

IsMark(k, S) == 1..k \subseteq Numbers(S) /\ k + 1 \notin Numbers(S)

\* The mark exists: the least number whose successor is missing.
LEMMA MarkExists ==
    ASSUME NEW S \in SUBSET Events
    PROVE  Contiguous(S) \in 0..MaxEvents /\ IsMark(Contiguous(S), S)
<1> DEFINE Gaps == {n \in Nat : n + 1 \notin Numbers(S)}
<1>1. Numbers(S) \subseteq 1..MaxEvents /\ MaxEvents \in Nat
  BY IngestAssumption DEF Numbers, Events
<1>2. MaxEvents \in Gaps
  BY <1>1
<1>3. PICK k \in Gaps : \A y \in Gaps : k <= y
  <2>1. Gaps \subseteq Nat /\ Gaps # {}
    BY <1>2
  <2> HIDE DEF Gaps
  <2> QED
    BY <2>1, LeastExists
<1>4. k \in 0..MaxEvents /\ k + 1 \notin Numbers(S)
  BY <1>1, <1>2, <1>3
<1>5. ASSUME NEW j \in 1..k PROVE j \in Numbers(S)
  <2>1. j - 1 \in Nat /\ j - 1 < k /\ (j - 1) + 1 = j
    BY <1>3
  <2>2. j - 1 \notin Gaps
    BY <1>3, <2>1
  <2> QED
    BY <2>1, <2>2
<1>6. \E x \in 0..MaxEvents : 1..x \subseteq Numbers(S) /\ x + 1 \notin Numbers(S)
  BY <1>4, <1>5
<1> QED
  BY <1>6 DEF Contiguous, IsMark

\* ... and is the only one.
LEMMA MarkUnique ==
    ASSUME NEW S \in SUBSET Events, NEW k \in 0..MaxEvents, IsMark(k, S)
    PROVE  Contiguous(S) = k
<1> DEFINE m == Contiguous(S)
<1>1. m \in 0..MaxEvents /\ IsMark(m, S)
  BY MarkExists
<1> HIDE DEF m
<1>2. m \in Nat /\ k \in Nat
  BY <1>1, IngestAssumption
<1>3. ~(m < k)
  <2> SUFFICES ASSUME m < k PROVE FALSE
    OBVIOUS
  <2>1. m + 1 \in 1..k
    BY <1>2
  <2> QED
    BY <1>1, <2>1 DEF IsMark
<1>4. ~(k < m)
  <2> SUFFICES ASSUME k < m PROVE FALSE
    OBVIOUS
  <2>1. k + 1 \in 1..m
    BY <1>2
  <2> QED
    BY <1>1, <2>1 DEF IsMark
<1>5. m = k
  BY <1>2, <1>3, <1>4
<1> QED
  BY <1>5 DEF m

-----------------------------------------------------------------------------
(* Small facts                                                             *)

LEMMA MaxNat == MaxEvents \in Nat /\ MaxEvents >= 2 /\ Heavy \subseteq 1..MaxEvents
BY IngestAssumption

LEMMA EventType ==
    ASSUME NEW n, NEW kind, NEW copy
    PROVE  /\ Event(n, kind, copy).n = n /\ Event(n, kind, copy).kind = kind
           /\ Event(n, kind, copy).copy = copy
           /\ n \in 1..MaxEvents /\ kind \in Kinds /\ copy \in 1..2
                 => Event(n, kind, copy) \in Events
BY DEF Event, Events

LEMMA NoThreadHonest ==
    /\ NoThread \in ThreadSet
    /\ \A at \in {"idle", "rows", "summary", "resummary"} :
          /\ [NoThread EXCEPT !.at = at] \in ThreadSet
          /\ \A L, S, M : Honest([NoThread EXCEPT !.at = at], L, S, M)
    /\ \A L, S, M : Honest(NoThread, L, S, M)
<1>1. NoThread \in ThreadSet
  BY MaxNat DEF NoThread, ThreadSet
<1>2. \A at \in {"idle", "rows", "summary", "resummary"} :
         [NoThread EXCEPT !.at = at] \in ThreadSet
  BY <1>1 DEF NoThread, ThreadSet
<1>3. \A L, S, M : Honest(NoThread, L, S, M)
  BY DEF NoThread, Honest
<1>4. \A at : \A L, S, M : Honest([NoThread EXCEPT !.at = at], L, S, M)
  BY DEF NoThread, Honest
<1> QED
  BY <1>1, <1>2, <1>3, <1>4

\* What a thread holds stays honest while file and copy grow and the
\* manifest is set once.
LEMMA HonestStays ==
    ASSUME NEW r, NEW L, NEW S, NEW M, NEW L2, NEW S2, NEW M2, Honest(r, L, S, M),
           L \subseteq L2, S \subseteq S2, M # {} => M2 = M
    PROVE  Honest(r, L2, S2, M2)
<1>1. ASSUME NEW h \in r.hint
      PROVE  /\ h.manifest # {} => h.manifest = M2 /\ h.status \in Verdicts
             /\ h.integrity # "verified" => h.manifest = {}
             /\ h.status \in Verdicts =>
                   /\ Has(L2, h.status)
                   /\ r.at = "commit" => Judged(r.events \cup S2)
  BY <1>1 DEF Honest, Has, Judged
<1>2. r.events \subseteq L2 /\ 1..r.since \subseteq Numbers(S2)
  BY DEF Honest, Numbers
<1> QED
  BY <1>1, <1>2 DEF Honest

-----------------------------------------------------------------------------
(* The executor                                                            *)

LEMMA AddFresh ==
    ASSUME NEW A \in SUBSET Events, NEW m \in Nat, Named(A, m), NEW kind
    PROVE  Named(A \cup {Event(m + 1, kind, 1)}, m + 1)
<1> DEFINE new == Event(m + 1, kind, 1)
<1>1. new.n = m + 1 /\ new.copy = 1
  BY EventType
<1>2. \A e \in A : e.n \in Int /\ e.n <= m
  BY MaxNat DEF Named, Events
<1> HIDE DEF new
<1>3. \A e \in A : e.n # new.n
  BY <1>1, <1>2
<1>4. \A e \in A \cup {new} : e.n <= m + 1 /\ (e.copy = 2 => e.kind = "event")
  BY <1>1, <1>2 DEF Named
<1>5. \A e, f \in A \cup {new} : e.n = f.n /\ e.copy = f.copy => e = f
  BY <1>3 DEF Named
<1>6. \A e, f \in A \cup {new} : e.n = f.n /\ e.kind \in Verdicts => e = f
  BY <1>3 DEF Named
<1> QED
  BY <1>4, <1>5, <1>6 DEF Named, new

ExTypes ==
    /\ stage \in {"running", "closing", "indexed", "sealed"} /\ top \in 1..MaxEvents
    /\ log \subseteq Events /\ late \subseteq Events /\ idx \in Entries

\* What the rest may rely on when the executor moves.
Grown ==
    /\ log \subseteq log'
    /\ idx.manifest # {} => idx'.manifest = idx.manifest
    /\ UNCHANGED exIdle

ExKept == ExTypes' /\ File' /\ Sealing' /\ Grown

LEMMA FileTypes ==
    ASSUME TypeOK
    PROVE  /\ ExTypes /\ top \in Nat /\ log \cup late \in SUBSET Events
           /\ idx \in [status : {"running", "awaiting_input"} \cup Verdicts,
                       integrity : {"pending", "verified", "incomplete"},
                       manifest : SUBSET Events]
BY MaxNat DEF TypeOK, ExTypes, Entries

LEMMA AppendKept ==
    ASSUME TypeOK, File, Sealing, ExEvent \/ ExAwaits PROVE ExKept
<1> USE FileTypes
<1>1. PICK kind \in {"event", "awaiting"} :
         /\ stage = "running" /\ stage' = stage /\ log' = log /\ top < MaxEvents - 1
         /\ top' = top + 1 /\ late' = late \cup {Event(top + 1, kind, 1)}
         /\ \/ idx' = idx
            \/ idx.status = "running" /\ idx' = [idx EXCEPT !.status = "awaiting_input"]
         /\ UNCHANGED exIdle
  BY DEF ExEvent, ExAwaits
<1>2. Event(top + 1, kind, 1) \in Events /\ Event(top + 1, kind, 1).kind = kind
  BY <1>1, EventType, MaxNat DEF Kinds
<1>3. ExTypes'
  BY <1>1, <1>2, MaxNat DEF ExTypes, Entries
<1>4. File'
  <2>1. log' \cup late' = (log \cup late) \cup {Event(top + 1, kind, 1)}
    BY <1>1
  <2>2. Named(log' \cup late', top')
    BY <1>1, <2>1, AddFresh DEF File
  <2>3. kind \notin Verdicts
    BY DEF Verdicts
  <2>4. ~Judged(log' \cup late')
    BY <1>1, <1>2, <2>1, <2>3 DEF File, Judged
  <2>5. OneEnding(log' \cup late')
    BY <2>4 DEF Judged, OneEnding
  <2> QED
    BY <1>1, <2>2, <2>4, <2>5, MaxNat DEF File
<1>5. Sealing' /\ Grown
  <2>1. /\ idx'.manifest = idx.manifest /\ idx'.integrity = idx.integrity
        /\ \/ idx'.status = idx.status
           \/ idx'.status = "awaiting_input" /\ idx.status = "running"
    BY <1>1
  <2> QED
    BY <1>1, <2>1 DEF Sealing, Grown, Verdicts
<1> QED
  BY <1>3, <1>4, <1>5 DEF ExKept

LEMMA WritesKept == ASSUME TypeOK, File, Sealing, ExWrites PROVE ExKept
<1> USE FileTypes
<1>1. /\ log' = log \cup late /\ late' = {} /\ UNCHANGED <<stage, top, idx, exIdle>>
  BY DEF ExWrites
<1>2. log' \cup late' = log \cup late
  BY <1>1
<1>3. File'
  BY <1>1, <1>2 DEF File, Judged
<1>4. Sealing' /\ Grown /\ ExTypes'
  BY <1>1 DEF Sealing, Grown, ExTypes, Has
<1> QED
  BY <1>3, <1>4 DEF ExKept

LEMMA ResumesKept == ASSUME TypeOK, File, Sealing, ExResumes PROVE ExKept
<1> USE FileTypes
<1>1. /\ idx.status = "awaiting_input" /\ idx' = [idx EXCEPT !.status = "running"]
      /\ stage = "running" /\ UNCHANGED <<stage, top, log, late, exIdle>>
  BY DEF ExResumes
<1>2. /\ idx'.manifest = idx.manifest /\ idx'.integrity = idx.integrity
      /\ idx'.status = "running"
  BY <1>1
<1> QED
  BY <1>1, <1>2 DEF ExKept, File, Sealing, Grown, ExTypes, Entries, Verdicts

LEMMA ReusesKept == ASSUME TypeOK, File, Sealing, ExReusesNumber PROVE ExKept
<1> USE FileTypes
<1>1. PICK e \in log : log' = log \cup {Event(e.n, "event", 2)}
  BY DEF ExReusesNumber
<1>2. stage = "running" /\ UNCHANGED <<stage, top, late, idx, exIdle>>
  BY DEF ExReusesNumber
<1> DEFINE new == Event(e.n, "event", 2)
<1>3. new \in Events /\ new.n = e.n /\ new.kind = "event" /\ new.copy = 2
  BY EventType DEF Events, Kinds
<1>4. \A f \in log \cup late : f.n = new.n /\ f.copy = 2 => f = new
  <2> SUFFICES ASSUME NEW f \in log \cup late, f.n = new.n, f.copy = 2 PROVE f = new
    OBVIOUS
  <2>1. f.kind = "event"
    BY DEF File, Named
  <2> QED
    BY <1>3, <2>1 DEF Events, Event
<1>5. \A f \in log \cup late : f.kind \notin Verdicts
  BY <1>2 DEF File, Judged
<1>6. new.kind \notin Verdicts
  BY <1>3 DEF Verdicts
<1>7. log' \cup late' = (log \cup late) \cup {new}
  BY <1>1, <1>2
<1> HIDE DEF new
<1>8. Named(log' \cup late', top)
  <2>1. \A f \in (log \cup late) \cup {new} : f.n <= top /\ (f.copy = 2 => f.kind = "event")
    BY <1>3 DEF File, Named
  <2>2. \A f, g \in (log \cup late) \cup {new} : f.n = g.n /\ f.copy = g.copy => f = g
    BY <1>3, <1>4 DEF File, Named
  <2>3. \A f \in (log \cup late) \cup {new} : f.kind \notin Verdicts
    BY <1>5, <1>6
  <2> QED
    BY <1>7, <2>1, <2>2, <2>3 DEF Named
<1>9. File'
  BY <1>2, <1>5, <1>6, <1>7, <1>8 DEF File, Judged, OneEnding
<1>10. log' \subseteq Events /\ log \subseteq log'
  BY <1>1, <1>3 DEF new
<1> QED
  BY <1>2, <1>9, <1>10 DEF ExKept, Sealing, Grown, ExTypes, Has

LEMMA JudgesKept == ASSUME TypeOK, File, Sealing, ExJudges PROVE ExKept
<1> USE FileTypes
<1>1. PICK v \in Endings : log' = log \cup {Event(top + 1, v, 1)}
  BY DEF ExJudges
<1>2. /\ stage = "running" /\ stage' = "closing" /\ top' = top + 1
      /\ UNCHANGED <<late, idx, exIdle>>
  BY DEF ExJudges
<1>3. v \in Verdicts /\ v \in Kinds
  BY IngestAssumption DEF Verdicts, Kinds
<1>4. top + 1 \in 1..MaxEvents
  BY <1>2, MaxNat DEF File
<1>5. Event(top + 1, v, 1) \in Events /\ Event(top + 1, v, 1).kind = v
  BY <1>3, <1>4, EventType
<1>6. log' \cup late' = (log \cup late) \cup {Event(top + 1, v, 1)}
  BY <1>1, <1>2
<1>7. Named(log' \cup late', top')
  BY <1>2, <1>6, AddFresh DEF File
<1>8. Judged(log')
  BY <1>1, <1>3, <1>5 DEF Judged
<1>9. OneEnding(log' \cup late')
  BY <1>2, <1>6 DEF File, Judged, OneEnding
<1> QED
  BY <1>1, <1>2, <1>4, <1>5, <1>7, <1>8, <1>9 DEF ExKept, File, Sealing, Grown, ExTypes, Has

LEMMA IndexesKept == ASSUME TypeOK, File, Sealing, ExIndexes PROVE ExKept
<1> USE FileTypes
<1>1. /\ stage = "closing" /\ stage' = "indexed" /\ UNCHANGED <<late, exIdle>>
      /\ \/ UNCHANGED <<top, log>>
         \/ /\ top < MaxEvents /\ top' = top + 1
            /\ log' = log \cup {Event(top + 1, "event", 1)}
  BY DEF ExIndexes
<1>2. PICK v \in Verdicts : Has(log, v) /\ idx' = [idx EXCEPT !.status = v]
  BY DEF ExIndexes
<1>3. log \subseteq log'
  BY <1>1
<1>4. Named(log' \cup late', top') /\ top' \in 1..MaxEvents /\ log' \subseteq Events
  <2>1. CASE UNCHANGED <<top, log>>
    BY <1>1, <2>1 DEF File, ExTypes
  <2>2. CASE /\ top < MaxEvents /\ top' = top + 1
             /\ log' = log \cup {Event(top + 1, "event", 1)}
    <3>1. log' \cup late' = (log \cup late) \cup {Event(top + 1, "event", 1)}
      BY <1>1, <2>2
    <3>2. top + 1 \in 1..MaxEvents
      BY <2>2, MaxNat
    <3>3. Event(top + 1, "event", 1) \in Events
      BY <3>2, EventType DEF Kinds
    <3> QED
      BY <2>2, <3>1, <3>2, <3>3, AddFresh DEF File
  <2> QED
    BY <1>1, <2>1, <2>2
<1>5. File'
  <2>1. Event(top + 1, "event", 1).kind \notin Verdicts
    BY EventType DEF Verdicts
  <2>2. OneEnding(log' \cup late')
    BY <1>1, <2>1 DEF File, OneEnding
  <2> QED
    BY <1>1, <1>3, <1>4, <2>2 DEF File, Judged
<1>6. /\ idx'.status = v /\ idx'.manifest = idx.manifest
      /\ idx'.integrity = idx.integrity /\ idx' \in Entries
  BY <1>2 DEF Entries
<1>7. Sealing'
  BY <1>1, <1>2, <1>3, <1>6 DEF Sealing, Has
<1> QED
  BY <1>1, <1>3, <1>4, <1>5, <1>6, <1>7 DEF ExKept, Grown, ExTypes

LEMMA SealsKept == ASSUME TypeOK, File, Sealing, ExSeals PROVE ExKept
<1> USE FileTypes
<1>1. /\ stage = "indexed" /\ stage' = "sealed" /\ UNCHANGED <<top, log, late, exIdle>>
      /\ \/ idx' = [idx EXCEPT !.integrity = "verified", !.manifest = log]
         \/ idx' = [idx EXCEPT !.integrity = "incomplete"]
  BY DEF ExSeals
<1>2. idx.manifest = {} /\ Judged(log) /\ idx.status \in Verdicts
  BY <1>1 DEF File, Sealing
<1>3. /\ idx'.status = idx.status /\ idx' \in Entries
      /\ \/ idx'.integrity = "verified" /\ idx'.manifest = log
         \/ idx'.integrity = "incomplete" /\ idx'.manifest = {}
  BY <1>1, <1>2 DEF Entries
<1>4. File'
  BY <1>1 DEF File
<1>5. Sealing'
  BY <1>1, <1>2, <1>3 DEF Sealing, Has
<1> QED
  BY <1>1, <1>2, <1>3, <1>4, <1>5 DEF ExKept, Grown, ExTypes

LEMMA ExecutorKept == ASSUME TypeOK, File, Sealing, Executor PROVE ExKept
BY AppendKept, WritesKept, ResumesKept, ReusesKept, JudgesKept, IndexesKept, SealsKept
   DEF Executor

\* The executor writes no more than it may: the invariant holds after it.
LEMMA ExecutorStep == ASSUME Inv, Executor PROVE Inv'
<1>1. ExKept /\ ExTypes
  BY ExecutorKept, FileTypes DEF Inv
<1>2. TypeOK'
  BY <1>1 DEF Inv, TypeOK, ExKept, ExTypes, Grown, exIdle, dbVars
<1>3. ThreadsHonest'
  <2> SUFFICES ASSUME NEW t \in Threads
               PROVE  Honest(th'[t], log', stored', idx'.manifest)
    BY DEF ThreadsHonest
  <2>1. Honest(th[t], log, stored, idx.manifest)
    BY DEF Inv, ThreadsHonest
  <2>2. Honest(th[t], log', stored, idx'.manifest)
    BY <1>1, <2>1, HonestStays DEF ExKept, Grown
  <2> QED
    BY <1>1, <2>2 DEF ExKept, Grown, exIdle, dbVars
<1>4. Copied'
  <2>1. /\ log \subseteq log'
        /\ idx.manifest # {} => idx'.manifest = idx.manifest
        /\ UNCHANGED <<row, stored, bodies, conflict, test>>
    BY <1>1 DEF ExKept, Grown, exIdle, dbVars
  <2>2. Whole'
    BY <2>1 DEF Inv, Copied, Whole, EndingIsProven
  <2> QED
    BY <2>1, <2>2 DEF Inv, Copied, EndingIsProven, Has
<1> QED
  BY <1>1, <1>2, <1>3, <1>4 DEF Inv, ExKept

-----------------------------------------------------------------------------
(* Fetches                                                                 *)

LEMMA ThreadType ==
    ASSUME TypeOK, NEW t \in Threads
    PROVE  /\ th[t] \in ThreadSet /\ th \in [Threads -> ThreadSet]
           /\ th[t].since \in 0..MaxEvents
           /\ th[t].events \subseteq Events /\ th[t].got \subseteq Heavy
           /\ th[t].hint \subseteq Entries
BY DEF TypeOK, ThreadSet

\* A step that changes nothing but a thread that stays honest.
LEMMA GoesStep ==
    ASSUME Inv, NEW t \in Threads, NEW r \in ThreadSet,
           Honest(r, log, stored, idx.manifest), Goes(t, r), UNCHANGED <<dbVars, thIdle>>
    PROVE  Inv'
<1>1. /\ UNCHANGED <<stage, top, log, late, idx, row, stored, bodies, conflict, migrated,
                     test, boot, restarts>>
      /\ th' = [th EXCEPT ![t] = r]
  BY DEF Goes, dbVars, thIdle, exVars
<1>2. TypeOK'
  BY <1>1 DEF Inv, TypeOK
<1>3. ThreadsHonest'
  BY <1>1, ThreadType DEF Inv, ThreadsHonest
<1>4. File' /\ Sealing' /\ Copied'
  BY <1>1 DEF Inv, File, Sealing, Copied, Whole, EndingIsProven
<1> QED
  BY <1>2, <1>3, <1>4 DEF Inv

LEMMA StartStep ==
    ASSUME Inv, NEW i \in Threads, IngestStart(i) PROVE Inv'
<1> DEFINE r == [NoThread EXCEPT !.at = "summary", !.since = row.seq]
<1>1. r \in ThreadSet
  BY NoThreadHonest DEF Inv, TypeOK, Rows, ThreadSet
<1>2. Honest(r, log, stored, idx.manifest)
  BY DEF Honest, NoThread, Inv, Copied
<1>3. Goes(i, r) /\ UNCHANGED <<dbVars, thIdle>>
  BY DEF IngestStart
<1> HIDE DEF r
<1> QED
  BY <1>1, <1>2, <1>3, GoesStep

LEMMA ScanStep == ASSUME Inv, ScanList \/ ScanRows PROVE Inv'
<1>1. Scanner \in Threads
  BY DEF Threads
<1>2. CASE ScanList
  <2> DEFINE r == [NoThread EXCEPT !.at = "rows", !.listed = idx.status]
  <2>1. r \in ThreadSet
    BY NoThreadHonest DEF Inv, TypeOK, Entries, ThreadSet
  <2>2. Honest(r, log, stored, idx.manifest)
    BY DEF Honest, NoThread
  <2>3. Goes(Scanner, r) /\ UNCHANGED <<dbVars, thIdle>>
    BY <1>2 DEF ScanList
  <2> HIDE DEF r
  <2> QED
    BY <1>1, <2>1, <2>2, <2>3, GoesStep
<1>3. CASE ScanRows
  <2>1. PICK r \in {NoThread, [NoThread EXCEPT !.at = "summary"]} :
           Goes(Scanner, r) /\ UNCHANGED <<dbVars, thIdle>>
    BY <1>3 DEF ScanRows, Ends
  <2> QED
    BY <1>1, <2>1, NoThreadHonest, GoesStep
<1> QED
  BY <1>2, <1>3

\* An entry just read.
LEMMA EntryRead ==
    ASSUME Inv, NEW t \in Threads, NEW at \in {"events", "status"},
           Goes(t, [th[t] EXCEPT !.at = at, !.hint = {idx}]), UNCHANGED <<dbVars, thIdle>>
    PROVE  Inv'
<1> DEFINE r == [th[t] EXCEPT !.at = at, !.hint = {idx}]
<1>1. r \in ThreadSet
  BY ThreadType DEF Inv, TypeOK, ThreadSet
<1>2. /\ r.hint = {idx} /\ r.at = at /\ r.events = th[t].events /\ r.since = th[t].since
  BY ThreadType DEF Inv, ThreadSet
<1>3. th[t].events \subseteq log /\ 1..th[t].since \subseteq Numbers(stored)
  BY DEF Inv, ThreadsHonest, Honest
<1>4. /\ idx.manifest # {} => idx.status \in Verdicts
      /\ idx.integrity # "verified" => idx.manifest = {}
      /\ idx.status \in Verdicts => Has(log, idx.status)
  BY DEF Inv, Sealing
<1> HIDE DEF r
<1>5. Honest(r, log, stored, idx.manifest)
  BY <1>2, <1>3, <1>4 DEF Honest
<1>6. Goes(t, r)
  BY DEF r
<1> QED
  BY <1>1, <1>5, <1>6, GoesStep

\* The file read: an event above the mark is in the fetch, one below it is
\* stored already.
LEMMA FetchStep == ASSUME Inv, NEW t \in Threads, FetchEvents(t) PROVE Inv'
<1> DEFINE new == {e \in log : e.n > th[t].since}
<1>1. th[t].at = "events" /\ UNCHANGED <<dbVars, thIdle>>
  BY DEF FetchEvents, At
<1>2. CASE Ends(t) \/ Goes(t, [NoThread EXCEPT !.at = "resummary"])
  BY <1>1, <1>2, NoThreadHonest, GoesStep DEF Ends
<1>3. ASSUME NEW got \in {{}, Numbers(new) \cap Heavy},
             Goes(t, [th[t] EXCEPT !.at = "commit", !.since = 0, !.events = new, !.got = got])
      PROVE  Inv'
  <2> DEFINE r == [th[t] EXCEPT !.at = "commit", !.since = 0, !.events = new, !.got = got]
  <2>1. new \subseteq log /\ log \subseteq Events /\ got \subseteq Heavy
    BY DEF Inv, TypeOK
  <2>2. r \in ThreadSet
    <3>1. th[t] \in ThreadSet /\ new \in SUBSET Events /\ 0 \in 0..MaxEvents
      BY <2>1, ThreadType, MaxNat DEF Inv
    <3> HIDE DEF new
    <3> QED
      BY <2>1, <3>1 DEF ThreadSet
  <2>3. r.hint = th[t].hint /\ r.events = new /\ r.since = 0
    BY ThreadType DEF Inv, ThreadSet
  <2>4. ASSUME NEW h \in th[t].hint, h.status \in Verdicts PROVE Judged(new \cup stored)
    <3>1. PICK e \in log : e.kind = h.status
      BY <2>4 DEF Inv, ThreadsHonest, Honest, Has
    <3>2. CASE e.n > th[t].since
      BY <2>4, <3>1, <3>2 DEF Judged
    <3>3. CASE ~(e.n > th[t].since)
      <4>1. e.n \in 1..th[t].since
        BY <2>1, <3>3, ThreadType, MaxNat DEF Inv, Events
      <4>2. PICK f \in stored : f.n = e.n
        BY <4>1 DEF Inv, ThreadsHonest, Honest, Numbers
      <4>3. e = f
        BY <2>4, <3>1, <4>2 DEF Inv, Copied, File, Named
      <4> QED
        BY <2>4, <3>1, <4>3 DEF Judged
    <3> QED
      BY <3>2, <3>3
  <2>5. Honest(th[t], log, stored, idx.manifest)
    BY DEF Inv, ThreadsHonest
  <2> HIDE DEF r, new
  <2>6. Honest(r, log, stored, idx.manifest)
    BY <2>1, <2>3, <2>4, <2>5 DEF Honest
  <2>7. Goes(t, r)
    BY <1>3 DEF r
  <2> QED
    BY <1>1, <2>2, <2>6, <2>7, GoesStep
<1> QED
  BY <1>2, <1>3 DEF FetchEvents

-----------------------------------------------------------------------------
(* What a fetch stores                                                     *)

LEMMA AcceptedFacts ==
    ASSUME Inv, NEW E \in SUBSET log
    PROVE  /\ stored \subseteq Accepted(E) /\ Accepted(E) \subseteq log
           /\ Accepted(E) \in SUBSET Events /\ SameEvent(Accepted(E))
           /\ Judged(E \cup stored) => Judged(Accepted(E))
<1>1. stored \subseteq log /\ SameEvent(stored) /\ Named(log \cup late, top) /\ log \subseteq Events
  BY DEF Inv, Copied, File, TypeOK
<1>2. stored \subseteq Accepted(E) /\ Accepted(E) \subseteq log
  BY <1>1 DEF Accepted
<1>3. SameEvent(Accepted(E))
  <2> SUFFICES ASSUME NEW e \in Accepted(E), NEW f \in Accepted(E), e.n = f.n PROVE e = f
    BY DEF SameEvent
  <2>1. CASE e \in stored
    <3>1. e.n \in Numbers(stored)
      BY <2>1 DEF Numbers
    <3> QED
      BY <1>1, <2>1, <3>1 DEF Accepted, SameEvent
  <2>2. CASE f \in stored
    <3>1. f.n \in Numbers(stored)
      BY <2>2 DEF Numbers
    <3> QED
      BY <1>1, <2>2, <3>1 DEF Accepted, SameEvent
  <2>3. CASE e \notin stored /\ f \notin stored
    <3>1. e \in E /\ f \in E /\ e.copy <= f.copy /\ f.copy <= e.copy
      BY <2>3 DEF Accepted
    <3>2. e.copy \in Int /\ f.copy \in Int
      BY <1>1, <3>1 DEF Events
    <3>3. e.copy = f.copy
      BY <3>1, <3>2
    <3> QED
      BY <1>1, <3>1, <3>3 DEF Named
  <2> QED
    BY <2>1, <2>2, <2>3
<1>4. ASSUME NEW e \in E, e.kind \in Verdicts PROVE e \in Accepted(E)
  <2>1. \A f \in log : f.n = e.n => f = e
    BY <1>1, <1>4 DEF Named
  <2>2. CASE e.n \in Numbers(stored)
    BY <1>1, <1>2, <2>1, <2>2 DEF Numbers
  <2>3. CASE e.n \notin Numbers(stored)
    <3>1. e.copy \in Int
      BY <1>1 DEF Events
    <3>2. \A f \in E : f.n = e.n => e.copy <= f.copy
      BY <2>1, <3>1
    <3> QED
      BY <2>3, <3>2 DEF Accepted
  <2> QED
    BY <2>2, <2>3
<1>5. Judged(E \cup stored) => Judged(Accepted(E))
  BY <1>2, <1>4 DEF Judged
<1> QED
  BY <1>1, <1>2, <1>3, <1>5

LEMMA StatusFacts ==
    ASSUME NEW S, NEW h, h.status \in Verdicts => Judged(S)
    PROVE  /\ StatusOf(S, h) \in Verdicts \cup {"awaiting_input", h.status}
           /\ Has(S, StatusOf(S, h)) \/ StatusOf(S, h) \in {"awaiting_input", h.status}
           /\ h.status \in Verdicts => StatusOf(S, h) \in Verdicts
           /\ StatusOf(S, h) \notin Verdicts =>
                 ~Has(S, "completed") /\ ~Has(S, "cancelled")
<1>1. Judged(S) => Has(S, "completed") \/ Has(S, "failed") \/ Has(S, "cancelled")
  BY DEF Judged, Has, Verdicts
<1> QED
  BY <1>1 DEF StatusOf, Verdicts

\* A fetch is stored.
LEMMA CommitFacts ==
    ASSUME Inv, NEW t \in Threads, At(t, "commit"), NEW h \in th[t].hint,
           Ingest(th[t].events, h, th[t].got), Ends(t), UNCHANGED <<migrated, thIdle>>
    PROVE  /\ stored \subseteq stored' /\ stored' \subseteq log /\ stored' \in SUBSET Events
           /\ SameEvent(stored') /\ bodies \subseteq bodies' /\ bodies' \subseteq Heavy
           /\ row'.status = StatusOf(stored', h) /\ row'.by = "receipt"
           /\ row'.seq = Contiguous(stored')
           /\ row'.integrity \in {"verified", "incomplete", "conflict"}
           /\ row'.integrity = "verified" <=>
                 /\ ~conflict' /\ ManifestOk(stored', h.manifest)
                 /\ Numbers(stored') \cap Heavy \subseteq th[t].got \cup bodies
           /\ Numbers(stored') \cap Heavy \subseteq th[t].got \cup bodies =>
                 Numbers(stored') \cap Heavy \subseteq bodies'
           /\ conflict' \in BOOLEAN /\ row' \in Rows
           /\ h.status \in Verdicts => Judged(stored') /\ Has(log, h.status)
           /\ h.status \in {"running", "awaiting_input"} \cup Verdicts
<1>1. th[t].at = "commit" /\ th[t].events \subseteq log
  BY DEF Inv, ThreadsHonest, Honest, At
<1>2. stored' = Accepted(th[t].events) /\ bodies' = bodies \cup (th[t].got \cap Numbers(stored'))
  BY DEF Ingest
<1>3. /\ stored \subseteq stored' /\ stored' \subseteq log /\ stored' \in SUBSET Events
      /\ SameEvent(stored')
      /\ Judged(th[t].events \cup stored) => Judged(stored')
  BY <1>1, <1>2, AcceptedFacts
<1>4. bodies \subseteq bodies' /\ bodies' \subseteq Heavy
  BY <1>2, ThreadType DEF Inv, TypeOK
<1>5. /\ conflict' = (conflict \/ Clashes(th[t].events, stored'))
      /\ row' = [status |-> StatusOf(stored', h), seq |-> Contiguous(stored'),
                 integrity |-> Integrity(stored', h, conflict',
                                         BodiesComplete(stored', th[t].got)),
                 by |-> "receipt"]
  BY <1>2 DEF Ingest
<1>6. conflict' \in BOOLEAN
  BY <1>5 DEF Inv, TypeOK, Clashes
<1>7. /\ row'.integrity \in {"verified", "incomplete", "conflict"}
      /\ row'.integrity = "verified" <=>
            /\ ~conflict' /\ ManifestOk(stored', h.manifest)
            /\ Numbers(stored') \cap Heavy \subseteq th[t].got \cup bodies
  BY <1>5 DEF Integrity, BodiesComplete
<1>8. Numbers(stored') \cap Heavy \subseteq th[t].got \cup bodies =>
         Numbers(stored') \cap Heavy \subseteq bodies'
  BY <1>2
<1>9. h.status \in Verdicts => Judged(stored') /\ Has(log, h.status)
  BY <1>1, <1>3 DEF Inv, ThreadsHonest, Honest
<1>10. h.status \in {"running", "awaiting_input"} \cup Verdicts
  BY ThreadType DEF Inv, Entries
<1>11. row' \in Rows
  <2>1. Contiguous(stored') \in 0..MaxEvents
    BY <1>3, MarkExists
  <2>2. StatusOf(stored', h) \in Verdicts \cup {"awaiting_input", "running"}
    BY <1>9, <1>10, StatusFacts
  <2> QED
    BY <1>5, <1>7, <2>1, <2>2 DEF Rows
<1> QED
  BY <1>3, <1>4, <1>5, <1>6, <1>7, <1>8, <1>9, <1>10, <1>11

LEMMA CommitStep == ASSUME Inv, NEW t \in Threads, Commit(t) PROVE Inv'
<1>1. PICK h \in th[t].hint : Ingest(th[t].events, h, th[t].got)
  BY DEF Commit
<1>2. At(t, "commit") /\ Ends(t) /\ UNCHANGED <<migrated, thIdle>>
  BY DEF Commit
<1>3. /\ UNCHANGED <<stage, top, log, late, idx, migrated, test, boot, restarts>>
      /\ th' = [th EXCEPT ![t] = NoThread]
  BY <1>2 DEF Ends, Goes, thIdle, exVars
<1>4. /\ stored \subseteq stored' /\ stored' \subseteq log /\ stored' \in SUBSET Events
      /\ SameEvent(stored') /\ bodies' \subseteq Heavy
      /\ row'.status = StatusOf(stored', h) /\ row'.seq = Contiguous(stored')
      /\ row'.by = "receipt" /\ conflict' \in BOOLEAN /\ row' \in Rows
      /\ h.status \in Verdicts => Judged(stored') /\ Has(log, h.status)
  BY <1>1, <1>2, CommitFacts
<1>5. TypeOK'
  BY <1>3, <1>4, NoThreadHonest DEF Inv, TypeOK
<1>6. ThreadsHonest'
  <2> SUFFICES ASSUME NEW u \in Threads
               PROVE  Honest(th'[u], log, stored', idx.manifest)
    BY <1>3 DEF ThreadsHonest
  <2>1. Honest(th[u], log, stored', idx.manifest)
    BY <1>4, HonestStays DEF Inv, ThreadsHonest
  <2>2. th'[u] = th[u] \/ th'[u] = NoThread
    BY <1>3, ThreadType DEF Inv
  <2> QED
    BY <2>1, <2>2, NoThreadHonest
<1>7. 1..row'.seq \subseteq Numbers(stored') /\ row'.seq + 1 \notin Numbers(stored')
  BY <1>4, MarkExists DEF IsMark
<1>8. EndingIsProven'
  <2> SUFFICES ASSUME row'.status \in Verdicts PROVE Has(stored', row'.status)
    BY <1>4 DEF EndingIsProven
  <2>1. Has(stored', row'.status) \/ row'.status = h.status
    BY <1>4, StatusFacts DEF Verdicts
  <2>2. CASE row'.status = h.status
    <3>1. PICK e \in log : e.kind = h.status
      BY <1>4, <2>2 DEF Has
    <3>2. PICK f \in stored' : f.kind \in Verdicts
      BY <1>4, <2>2 DEF Judged
    <3>3. e = f
      BY <1>4, <2>2, <3>1, <3>2 DEF Inv, File, OneEnding
    <3> QED
      BY <2>2, <3>1, <3>3 DEF Has
  <2> QED
    BY <2>1, <2>2
<1>9. Whole'
  <2> SUFFICES ASSUME row'.integrity = "verified"
               PROVE  /\ stored' = idx.manifest /\ stored' # {} /\ ~conflict'
                      /\ Numbers(stored') = 1..row'.seq
                      /\ Numbers(stored') \cap Heavy \subseteq bodies'
                      /\ row'.status \in Verdicts
    BY <1>3 DEF Whole
  <2>1. /\ ~conflict' /\ ManifestOk(stored', h.manifest)
        /\ Numbers(stored') \cap Heavy \subseteq bodies'
    BY <1>1, <1>2, CommitFacts
  <2>2. h.manifest # {} /\ h.manifest = stored' /\ Numbers(stored') = 1..row'.seq
    BY <1>4, <2>1 DEF ManifestOk
  <2>3. h.manifest = idx.manifest /\ h.status \in Verdicts
    BY <2>2 DEF Inv, ThreadsHonest, Honest
  <2> QED
    BY <1>4, <2>1, <2>2, <2>3, StatusFacts
<1> QED
  BY <1>3, <1>4, <1>5, <1>6, <1>7, <1>8, <1>9 DEF Inv, File, Sealing, Copied

LEMMA WriteStatusStep == ASSUME Inv, NEW t \in Threads, WriteStatus(t) PROVE Inv'
<1>1. PICK h \in th[t].hint :
         row' = [row EXCEPT !.status = h.status, !.integrity = h.integrity, !.by = "executor"]
  BY DEF WriteStatus
<1>2. /\ UNCHANGED <<stage, top, log, late, idx, stored, bodies, conflict, migrated, test,
                     boot, restarts>>
      /\ th' = [th EXCEPT ![t] = NoThread]
  BY DEF WriteStatus, Ends, Goes, thIdle, exVars
<1>3. h \in Entries /\ (h.status \in Verdicts => Has(log, h.status))
  BY ThreadType DEF Inv, ThreadsHonest, Honest
<1>4. /\ row'.status = h.status /\ row'.by = "executor" /\ row'.seq = row.seq
      /\ row' \in Rows
  BY <1>1, <1>3 DEF Inv, TypeOK, Rows, Entries
<1>5. TypeOK'
  BY <1>2, <1>4, NoThreadHonest DEF Inv, TypeOK
<1>6. ThreadsHonest'
  BY <1>2, NoThreadHonest, ThreadType DEF Inv, ThreadsHonest
<1>7. Copied'
  BY <1>2, <1>3, <1>4 DEF Inv, Copied, Whole, EndingIsProven
<1> QED
  BY <1>2, <1>5, <1>6, <1>7 DEF Inv, File, Sealing

LEMMA ThreadStep == ASSUME Inv, NEW t \in Threads, Thread(t) PROVE Inv'
<1>1. CASE FetchSummary(t)
  BY <1>1, EntryRead DEF FetchSummary
<1>2. CASE Resummary(t)
  BY <1>2, EntryRead DEF Resummary
<1>3. CASE FetchFails(t)
  BY <1>3, NoThreadHonest, GoesStep DEF FetchFails, Ends
<1> QED
  BY <1>1, <1>2, <1>3, FetchStep, CommitStep, WriteStatusStep DEF Thread

-----------------------------------------------------------------------------
(* Restarts and the end of the test                                        *)

LEMMA RestartStep == ASSUME Inv, Restart PROVE Inv'
<1>1. /\ UNCHANGED <<stage, top, log, late, idx, row, stored, bodies, conflict, migrated, test>>
      /\ th' = [t \in Threads |-> NoThread] /\ boot' = "migrate"
      /\ restarts' = restarts + 1 /\ restarts < MaxRestarts
  BY DEF Restart, exVars, dbVars
<1>2. TypeOK'
  BY <1>1, NoThreadHonest, IngestAssumption DEF Inv, TypeOK
<1>3. ThreadsHonest'
  BY <1>1, NoThreadHonest DEF ThreadsHonest
<1> QED
  BY <1>1, <1>2, <1>3 DEF Inv, File, Sealing, Copied, Whole, EndingIsProven

LEMMA MigrateStep == ASSUME Inv, Migrate \/ MigrateAudit PROVE Inv'
<1>1. /\ UNCHANGED <<stage, top, log, late, idx, stored, bodies, conflict, test, th, restarts>>
      /\ boot' \in {"up", "audit"} /\ migrated' \in BOOLEAN
      /\ \/ row' = row
         \/ row' = [row EXCEPT !.status = OrphanStatus, !.integrity = "incomplete",
                               !.by = "migration"]
  BY DEF Migrate, MigrateAudit, exVars, Inv, TypeOK
<1>2. CASE row' = row
  BY <1>1, <1>2 DEF Inv, TypeOK, File, Sealing, ThreadsHonest, Copied, Whole,
     EndingIsProven
<1>3. CASE row' = [row EXCEPT !.status = OrphanStatus, !.integrity = "incomplete",
                              !.by = "migration"]
  <2>1. OrphanStatus \in {"cancelled", "interrupted"}
    BY DEF OrphanStatus
  <2>2. OrphanStatus = "cancelled" => Has(stored, "cancelled") \/ test = "cancelled"
    BY DEF OrphanStatus
  <2>3. /\ row' \in Rows /\ row'.seq = row.seq /\ row'.status = OrphanStatus
        /\ row'.by = "migration"
    BY <1>3, <2>1 DEF Inv, TypeOK, Rows, Verdicts
  <2>4. TypeOK' /\ ThreadsHonest' /\ File' /\ Sealing'
    BY <1>1, <2>3 DEF Inv, TypeOK, File, Sealing, ThreadsHonest
  <2>5. EndingIsProven'
    BY <1>1, <2>1, <2>2, <2>3 DEF EndingIsProven, Verdicts
  <2>6. Copied'
    BY <1>1, <2>3, <2>5 DEF Inv, Copied, Whole, EndingIsProven
  <2> QED
    BY <2>4, <2>6 DEF Inv
<1> QED
  BY <1>1, <1>2, <1>3

LEMMA TestEndsStep == ASSUME Inv, TestEnds PROVE Inv'
<1>1. /\ UNCHANGED <<stage, top, log, late, idx, row, stored, bodies, conflict, migrated, th,
                     boot, restarts>>
      /\ test = "running" /\ test' \in {"done", "cancelled"}
  BY IngestAssumption DEF TestEnds, exVars, dbVars
<1> QED
  BY <1>1 DEF Inv, TypeOK, File, Sealing, ThreadsHonest, Copied, Whole,
     EndingIsProven

LEMMA InitInv == Init => Inv
<1> SUFFICES ASSUME Init PROVE Inv
  OBVIOUS
<1>1. Event(1, "event", 1) \in Events /\ Event(1, "event", 1).kind = "event"
      /\ Event(1, "event", 1).n = 1 /\ Event(1, "event", 1).copy = 1
  BY EventType, MaxNat DEF Kinds
<1>2. TypeOK
  <2>1. top \in 1..MaxEvents /\ row \in Rows /\ restarts \in 0..MaxRestarts
    BY MaxNat, IngestAssumption DEF Init, Rows, Absent
  <2>2. idx \in Entries
    BY DEF Init, Entries
  <2>3. th \in [Threads -> ThreadSet]
    BY NoThreadHonest DEF Init
  <2>4. log \subseteq Events /\ late \subseteq Events
    BY <1>1 DEF Init
  <2> QED
    BY <2>1, <2>2, <2>3, <2>4 DEF Init, TypeOK
<1>3. File
  BY <1>1, MaxNat DEF Init, File, Named, Judged, OneEnding, Verdicts
<1>4. Sealing
  BY DEF Init, Sealing, Verdicts
<1>5. ThreadsHonest
  BY NoThreadHonest DEF Init, ThreadsHonest
<1>6. Copied
  BY DEF Init, Copied, Whole, EndingIsProven, Absent, SameEvent, Numbers, Verdicts
<1> QED
  BY <1>2, <1>3, <1>4, <1>5, <1>6 DEF Inv

LEMMA InvKept == Inv /\ [Next]_vars => Inv'
<1> SUFFICES ASSUME Inv, [Next]_vars PROVE Inv'
  OBVIOUS
<1>1. CASE UNCHANGED vars
  BY <1>1 DEF vars, exVars, dbVars, Inv, TypeOK, File, Sealing, ThreadsHonest, Copied, Whole,
     EndingIsProven
<1>2. ASSUME NEW i \in Ingestions, IngestStart(i) PROVE Inv'
  BY <1>2, StartStep DEF Threads
<1> QED
  BY <1>1, <1>2, ExecutorStep, TestEndsStep, ScanStep, ThreadStep, RestartStep, MigrateStep
     DEF Next

-----------------------------------------------------------------------------
(* The theorems                                                            *)

\* The inductive invariant holds in every state of every behaviour.
THEOREM Invariance == Spec => []Inv
<1> QED
  BY InitInv, InvKept, PTL DEF Spec

\* TypeOK for every value of the constants.
THEOREM TypeSafety == Spec => []TypeOK
<1>1. Inv => TypeOK
  BY DEF Inv
<1> QED
  BY <1>1, Invariance, PTL

\* MarkExact: no fetch that starts at the mark misses an event, whatever the
\* order in which fetches are stored.
THEOREM MarkIsExact == Spec => []MarkExact
<1>1. Inv => MarkExact
  BY DEF Inv, Copied, MarkExact
<1> QED
  BY <1>1, Invariance, PTL

\* EndingIsProven: no copy invents how its trace ended.
THEOREM EndingHasProof == Spec => []EndingIsProven
<1>1. Inv => EndingIsProven
  BY DEF Inv, Copied
<1> QED
  BY <1>1, Invariance, PTL

\* VerifiedIsWhole: a verified copy is the sealed file, with its verdict and
\* every payload.
THEOREM VerifiedCopyIsWhole == Spec => []VerifiedIsWhole
<1>1. Inv => VerifiedIsWhole
  BY DEF Inv, Copied, Whole, VerifiedIsWhole, Sealing, Judged, Has
<1> QED
  BY <1>1, Invariance, PTL

\* The steps that write the copy.
LEMMA StoredWriter ==
    ASSUME Inv, Next, stored' # stored
    PROVE  \E t \in Threads : Commit(t)
BY DEF Next, Executor, ExEvent, ExWrites, ExReusesNumber, ExAwaits, ExResumes, ExJudges,
   ExIndexes, ExSeals, exIdle, dbVars, TestEnds, IngestStart, ScanList, ScanRows, Restart,
   Migrate, MigrateAudit, Thread, FetchSummary, FetchEvents, Resummary, FetchFails, WriteStatus

LEMMA RowWriter ==
    ASSUME Inv, Next, row' # row
    PROVE  (\E t \in Threads : Commit(t) \/ WriteStatus(t)) \/ Migrate
BY DEF Next, Executor, ExEvent, ExWrites, ExReusesNumber, ExAwaits, ExResumes, ExJudges,
   ExIndexes, ExSeals, exIdle, dbVars, TestEnds, IngestStart, ScanList, ScanRows, Restart,
   MigrateAudit, Thread, FetchSummary, FetchEvents, Resummary, FetchFails

\* What a commit does, with the summary it uses.
LEMMA CommitUses ==
    ASSUME Inv, NEW t \in Threads, Commit(t)
    PROVE  \E h \in th[t].hint :
              /\ th'[t].at = "idle" /\ UNCHANGED idx
              /\ stored \subseteq stored' /\ stored' \in SUBSET Events /\ SameEvent(stored')
              /\ bodies \subseteq bodies'
              /\ row'.status = StatusOf(stored', h)
              /\ row'.integrity = "verified" <=>
                    /\ ~conflict' /\ ManifestOk(stored', h.manifest)
                    /\ Numbers(stored') \cap Heavy \subseteq th[t].got \cup bodies
              /\ h.status \in Verdicts => Judged(stored')
<1>1. PICK h \in th[t].hint : Ingest(th[t].events, h, th[t].got)
  BY DEF Commit
<1>2. At(t, "commit") /\ Ends(t) /\ UNCHANGED <<migrated, thIdle>>
  BY DEF Commit
<1>3. th'[t].at = "idle" /\ UNCHANGED idx
  BY <1>2, ThreadType DEF Ends, Goes, NoThread, thIdle, exVars, Inv
<1> QED
  BY <1>1, <1>2, <1>3, CommitFacts

\* AcceptedStays: one number, one event, for ever.
THEOREM AcceptedEventsStay == Spec => AcceptedStays
<1>1. Inv /\ [Next]_vars =>
         [stored \subseteq stored' /\ \A e, f \in stored' : e.n = f.n => e = f]_vars
  <2> SUFFICES ASSUME Inv, Next
               PROVE  stored \subseteq stored' /\ SameEvent(stored')
    BY DEF SameEvent
  <2>1. CASE stored' = stored
    BY <2>1 DEF Inv, Copied, SameEvent
  <2>2. CASE stored' # stored
    BY <2>2, StoredWriter, CommitUses
  <2> QED
    BY <2>1, <2>2
<1> QED
  BY <1>1, Invariance, PTL DEF Spec, AcceptedStays

Doubted == row.by = "receipt" /\ row.integrity = "verified" /\ row'.integrity # "verified"

DoubtExcused ==
    \/ \E t \in Threads : \E h \in th[t].hint : h.manifest = {} /\ th'[t].at = "idle"
    \/ stored' # stored \/ conflict'

LEMMA DoubtStep == ASSUME Inv, Next, Doubted PROVE DoubtExcused
<1>1. /\ stored = idx.manifest /\ stored # {} /\ ~conflict
      /\ Numbers(stored) = 1..row.seq /\ Numbers(stored) \cap Heavy \subseteq bodies
      /\ row.status \in Verdicts
  BY DEF Inv, Copied, Whole, Doubted
<1>2. row' # row
  BY DEF Doubted
<1>3. ASSUME NEW t \in Threads, Commit(t) PROVE DoubtExcused
  <2>1. PICK h \in th[t].hint :
           /\ th'[t].at = "idle"
           /\ row'.integrity = "verified" <=>
                 /\ ~conflict' /\ ManifestOk(stored', h.manifest)
                 /\ Numbers(stored') \cap Heavy \subseteq th[t].got \cup bodies
    BY <1>3, CommitUses
  <2>2. CASE h.manifest = {}
    BY <2>1, <2>2 DEF DoubtExcused
  <2>3. CASE h.manifest # {} /\ stored' = stored /\ ~conflict'
    <3>1. h.manifest = stored
      BY <1>1, <2>3 DEF Inv, ThreadsHonest, Honest
    <3>2. Contiguous(stored) = row.seq
      <4>1. stored \in SUBSET Events /\ row.seq \in 0..MaxEvents
        BY DEF Inv, TypeOK, Rows
      <4> QED
        BY <4>1, MarkUnique DEF Inv, Copied, IsMark
    <3>3. ManifestOk(stored', h.manifest)
      BY <1>1, <2>3, <3>1, <3>2 DEF ManifestOk
    <3>4. FALSE
      BY <1>1, <2>1, <2>3, <3>3 DEF Doubted
    <3> QED
      BY <3>4
  <2> QED
    BY <2>2, <2>3 DEF DoubtExcused
<1>4. ASSUME NEW t \in Threads, WriteStatus(t) PROVE DoubtExcused
  <2>1. PICK h \in th[t].hint :
           row' = [row EXCEPT !.status = h.status, !.integrity = h.integrity, !.by = "executor"]
    BY <1>4 DEF WriteStatus
  <2>2. row'.integrity = h.integrity
    BY <2>1 DEF Inv, TypeOK, Rows
  <2>3. h.manifest = {}
    BY <2>2 DEF Inv, ThreadsHonest, Honest, Doubted
  <2>4. th'[t].at = "idle"
    BY <1>4, ThreadType DEF WriteStatus, Ends, Goes, NoThread, Inv
  <2> QED
    BY <2>3, <2>4 DEF DoubtExcused
<1>5. ~Migrate
  BY <1>1, <1>2 DEF Migrate, IsOrphan, Verdicts
<1> QED
  BY <1>2, <1>3, <1>4, <1>5, RowWriter

\* VerifiedStays: a verified copy is doubted only for a reason.
THEOREM VerifiedCopyStays == Spec => VerifiedStays
<1>1. Inv /\ [Next]_vars => [Doubted => DoubtExcused]_vars
  BY DoubtStep
<1>2. Spec => [][Doubted => DoubtExcused]_vars
  BY <1>1, Invariance, PTL DEF Spec
<1> QED
  BY <1>2 DEF VerifiedStays, Doubted, DoubtExcused

Reopened == row.status \in Verdicts /\ row'.status \notin Verdicts

Belated ==
    \E t \in Threads :
        /\ \E h \in th[t].hint : h.status \notin Verdicts
        /\ th'[t].at = "idle"
        /\ th[t].at = "status" \/ ~(Has(stored', "completed") \/ Has(stored', "cancelled"))

LEMMA ReopenStep == ASSUME Inv, Next, Reopened PROVE Belated
<1>1. row' # row
  BY DEF Reopened
<1>2. ASSUME NEW t \in Threads, Commit(t) PROVE Belated
  <2>1. PICK h \in th[t].hint :
           /\ th'[t].at = "idle" /\ row'.status = StatusOf(stored', h)
           /\ h.status \in Verdicts => Judged(stored')
    BY <1>2, CommitUses
  <2>2. h.status \notin Verdicts /\ ~Has(stored', "completed") /\ ~Has(stored', "cancelled")
    BY <2>1, StatusFacts DEF Reopened
  <2> QED
    BY <2>1, <2>2 DEF Belated
<1>3. ASSUME NEW t \in Threads, WriteStatus(t) PROVE Belated
  <2>1. PICK h \in th[t].hint :
           row' = [row EXCEPT !.status = h.status, !.integrity = h.integrity, !.by = "executor"]
    BY <1>3 DEF WriteStatus
  <2>2. row'.status = h.status
    BY <2>1 DEF Inv, TypeOK, Rows
  <2>3. th'[t].at = "idle" /\ th[t].at = "status"
    BY <1>3, ThreadType DEF WriteStatus, Ends, Goes, NoThread, At, Inv
  <2> QED
    BY <2>2, <2>3 DEF Belated, Reopened
<1>4. ~Migrate
  BY <1>1 DEF Migrate, IsOrphan, Verdicts, Reopened
<1> QED
  BY <1>1, <1>2, <1>3, <1>4, RowWriter

\* EndStays: only a fetch that read the entry before the end reopens a copy.
THEOREM EndedCopyStays == Spec => EndStays
<1>1. Inv /\ [Next]_vars => [Reopened => Belated]_vars
  BY ReopenStep
<1>2. Spec => [][Reopened => Belated]_vars
  BY <1>1, Invariance, PTL DEF Spec
<1> QED
  BY <1>2 DEF EndStays, Reopened, Belated
=============================================================================
