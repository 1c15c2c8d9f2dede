--------------------------- MODULE Release_proofs ---------------------------
(***************************************************************************)
(* Proofs about Release, for every number of sessions, publish threads,    *)
(* requests and upsets: its types, that registry.json is sound wherever it *)
(* is read, written or committed, that the executor serves nothing that    *)
(* went around the gate, and that a closed session stays closed.           *)
(***************************************************************************)
EXTENDS Release, WellFoundedInduction, TLAPS

-----------------------------------------------------------------------------
(* What the operations of the registry preserve                            *)

Exist(r, C) == \A e \in r.versions : e.commit \in C \cup {Unbound}

Bounded(r) == \E m \in Nat : \A e \in r.versions : e.version <= m

Sound(r, P) ==
    /\ Bounded(r)
    /\ \A e \in r.versions :
          /\ \A f \in r.versions : f.version = e.version => f = e
          /\ e.session # NoSession =>
                /\ e.commit \in P
                /\ \A f \in r.versions : f.session = e.session => f = e

Keeps(r, q) ==
    /\ q \in RegistrySet
    /\ \A C : Exist(r, C) => Exist(q, C)
    /\ \A P : Sound(r, P) => Sound(q, P)

\* Writing marks and moving the pointer keeps a registry what it was.
LEMMA MarkedKeeps ==
    ASSUME NEW r \in RegistrySet, NEW D, NEW mark \in [D -> Marks], NEW p \in Nat
    PROVE  Keeps(r, [prod |-> p, versions |-> Marked(r, mark)])
<1> DEFINE new(e) == IF e.version \in D THEN [e EXCEPT !.mark = mark[e.version]] ELSE e
           q == [prod |-> p, versions |-> Marked(r, mark)]
<1>1. q.versions = {new(e) : e \in r.versions}
  BY DEF Marked
<1>2. \A e \in r.versions : /\ new(e) \in EntrySet
                            /\ new(e).version = e.version /\ new(e).commit = e.commit
                            /\ new(e).session = e.session
  BY DEF RegistrySet, EntrySet
<1>3. q \in RegistrySet
  BY <1>1, <1>2 DEF RegistrySet
<1>4. ASSUME NEW C, Exist(r, C) PROVE Exist(q, C)
  BY <1>1, <1>2, <1>4 DEF Exist
<1>5. ASSUME NEW P, Sound(r, P) PROVE Sound(q, P)
  <2> HIDE DEF new, q
  <2>1. Bounded(q)
    BY <1>1, <1>2, <1>5 DEF Sound, Bounded
  <2> SUFFICES ASSUME NEW e \in r.versions
               PROVE  /\ \A f \in r.versions : new(f).version = new(e).version => new(f) = new(e)
                      /\ new(e).session # NoSession =>
                            /\ new(e).commit \in P
                            /\ \A f \in r.versions :
                                  new(f).session = new(e).session => new(f) = new(e)
    BY <1>1, <2>1 DEF Sound
  <2> QED
    BY <1>2, <1>5 DEF Sound
<1> QED
  BY <1>3, <1>4, <1>5 DEF Keeps

LEMMA PromotedKeeps ==
    ASSUME NEW r \in RegistrySet, NEW v \in Nat
    PROVE  Keeps(r, Promoted(r, v))
<1> DEFINE mark == [x \in {r.prod, v} |-> IF x = v THEN "production" ELSE "retired"]
<1>1. mark \in [{r.prod, v} -> Marks]
  BY DEF Marks
<1> QED
  BY <1>1, MarkedKeeps DEF Promoted

LEMMA RestoredKeeps ==
    ASSUME NEW r \in RegistrySet, NEW u \in Nat, NEW v \in Nat
    PROVE  Keeps(r, Restored(r, u, v))
<1> DEFINE mark == [x \in {u, v} |-> IF x = v THEN "candidate" ELSE "production"]
<1>1. mark \in [{u, v} -> Marks]
  BY DEF Marks
<1> QED
  BY <1>1, MarkedKeeps DEF Restored

LEMMA RolledBackKeeps ==
    ASSUME NEW r \in RegistrySet, NEW v \in Nat
    PROVE  Keeps(r, RolledBack(r, v))
<1> DEFINE mark == [x \in {r.prod, v} |-> IF x = r.prod THEN "retired" ELSE "production"]
<1>1. mark \in [{r.prod, v} -> Marks]
  BY DEF Marks
<1> QED
  BY <1>1, MarkedKeeps DEF RolledBack

LEMMA RollbackUndoneKeeps ==
    ASSUME NEW r \in RegistrySet, NEW u \in Nat, NEW v \in Nat
    PROVE  Keeps(r, RollbackUndone(r, u, v))
<1> DEFINE mark == [x \in {u, v} |-> IF x = v THEN "retired" ELSE "production"]
<1>1. mark \in [{u, v} -> Marks]
  BY DEF Marks
<1> QED
  BY <1>1, MarkedKeeps DEF RollbackUndone

\* A candidate is new to the registry and comes with an accepted commit.
LEMMA CandidateKeeps ==
    ASSUME NEW r \in RegistrySet, NEW v \in Nat, NEW c \in Nat, NEW s \in Sessions \cup {NoSession},
           Registrable(r, v, s)
    PROVE  /\ WithCandidate(r, v, c, s) \in RegistrySet
           /\ \A C : Exist(r, C) /\ c \in C => Exist(WithCandidate(r, v, c, s), C)
           /\ \A P : Sound(r, P) /\ c \in P => Sound(WithCandidate(r, v, c, s), P)
<1> DEFINE n == [version |-> v, commit |-> c, session |-> s, mark |-> "candidate"]
           q == WithCandidate(r, v, c, s)
<1>1. n \in EntrySet
  BY DEF EntrySet, Marks
<1>2. q = [prod |-> r.prod, versions |-> r.versions \cup {n}]
  BY DEF WithCandidate, RegistrySet
<1>3. \A e \in r.versions : e.version # v /\ e.session # s
  BY DEF Registrable, Entries, OfSession
<1>4. q \in RegistrySet
  BY <1>1, <1>2 DEF RegistrySet
<1>5. \A C : Exist(r, C) /\ c \in C => Exist(q, C)
  BY <1>2 DEF Exist
<1>6. ASSUME NEW P, Sound(r, P), c \in P PROVE Sound(q, P)
  <2>1. PICK m \in Nat : \A e \in r.versions : e.version <= m
    BY <1>6 DEF Sound, Bounded
  <2>2. \A e \in r.versions : e.version \in Nat
    BY DEF RegistrySet, EntrySet
  <2>3. \A e \in q.versions : e.version <= m + v
    BY <1>2, <2>1, <2>2
  <2>4. m + v \in Nat
    OBVIOUS
  <2>5. Bounded(q)
    BY <2>3, <2>4 DEF Bounded
  <2> QED
    BY <1>2, <1>3, <1>6, <2>5 DEF Sound
<1> QED
  BY <1>4, <1>5, <1>6

\* The entry point binds a version only if it had no commit, which no
\* version of a session is without.
LEMMA PrunedKeeps ==
    ASSUME NEW r \in RegistrySet, NEW c \in Nat
    PROVE  /\ Pruned(r, c) \in RegistrySet
           /\ \A C : Exist(r, C) /\ c \in C => Exist(Pruned(r, c), C)
           /\ \A P : Sound(r, P) /\ Unbound \notin P => Sound(Pruned(r, c), P)
<1> DEFINE new(e) == IF e.version = r.prod /\ e.commit = Unbound THEN [e EXCEPT !.commit = c] ELSE e
           old == {x \in r.versions : x.commit # Unbound \/ x.version = r.prod}
           q == Pruned(r, c)
<1>1. CASE ~HasProduction(r)
  BY <1>1 DEF Pruned
<1>2. CASE HasProduction(r)
  <2>1. q = [prod |-> r.prod, versions |-> {new(e) : e \in old}]
    BY <1>2 DEF Pruned, RegistrySet
  <2>2. ASSUME NEW e \in old
        PROVE  /\ e \in r.versions /\ new(e) \in EntrySet
               /\ new(e).version = e.version /\ new(e).session = e.session
               /\ new(e).commit = e.commit \/ (e.commit = Unbound /\ new(e).commit = c)
    <3>1. e \in EntrySet
      BY DEF RegistrySet
    <3> QED
      BY <3>1 DEF EntrySet
  <2>3. q \in RegistrySet
    BY <2>1, <2>2 DEF RegistrySet
  <2>4. ASSUME NEW C, Exist(r, C), c \in C PROVE Exist(q, C)
    <3> HIDE DEF new, old, q
    <3> QED
      BY <2>1, <2>2, <2>4 DEF Exist
  <2>5. ASSUME NEW P, Sound(r, P), Unbound \notin P PROVE Sound(q, P)
    <3> HIDE DEF new, old, q
    <3>1. Bounded(q)
      BY <2>1, <2>2, <2>5 DEF Sound, Bounded
    <3> SUFFICES ASSUME NEW e \in old
                 PROVE  /\ \A f \in old : new(f).version = new(e).version => new(f) = new(e)
                        /\ new(e).session # NoSession =>
                              /\ new(e).commit \in P
                              /\ \A f \in old : new(f).session = new(e).session => new(f) = new(e)
      BY <2>1, <3>1 DEF Sound
    <3> QED
      BY <2>2, <2>5 DEF Sound
  <2> QED
    BY <2>3, <2>4, <2>5
<1> QED
  BY <1>1, <1>2

\* The production commit is the commit of an entry.
LEMMA ProductionIsEntry ==
    ASSUME NEW r, ProductionCommit(r) # Unbound
    PROVE  \E e \in r.versions : e.version = r.prod /\ ProductionCommit(r) = e.commit
BY DEF ProductionCommit, HasProduction, CommitOf, Entries

\* A bounded set of numbers that is not empty has a largest one.
LEMMA LargestExists ==
    ASSUME NEW S \in SUBSET Nat, S # {}, NEW m \in Nat, \A x \in S : x <= m
    PROVE  \E x \in S : \A y \in S : y <= x
<1> DEFINE T == {n \in Nat : \A x \in S : x <= n}
<1>1. PICK k \in T : \A y \in T : ~(<<y, k>> \in OpToRel(<, Nat))
  <2>1. T \subseteq Nat /\ T # {}
    OBVIOUS
  <2> HIDE DEF T
  <2> QED
    BY <2>1, WFMin, NatLessThanWellFounded
<1>2. \A y \in T : ~(y < k)
  BY <1>1 DEF OpToRel
<1>3. k \in S
  <2>1. CASE k = 0
    <3>1. PICK x \in S : TRUE
      OBVIOUS
    <3> QED
      BY <2>1, <3>1
  <2>2. CASE k # 0 /\ k \notin S
    <3>1. k - 1 \in T
      BY <2>2
    <3> QED
      BY <1>2, <3>1
  <2> QED
    BY <2>1, <2>2
<1> QED
  BY <1>3

LEMMA NextVersionType ==
    ASSUME NEW r \in RegistrySet, Bounded(r)
    PROVE  NextVersion(r) \in Nat
<1> DEFINE V == {e.version : e \in r.versions}
           IsMax(v) == \A e \in r.versions : e.version <= v
           top == CHOOSE w \in V : IsMax(w)
<1>1. CASE r.versions = {}
  BY <1>1 DEF NextVersion
<1>2. CASE r.versions # {}
  <2>1. V \in SUBSET Nat /\ V # {}
    BY <1>2 DEF RegistrySet, EntrySet
  <2>2. PICK v \in V : \A y \in V : y <= v
    <3>1. PICK m \in Nat : \A y \in V : y <= m
      BY DEF Bounded
    <3> HIDE DEF V
    <3> QED
      BY <2>1, <3>1, LargestExists
  <2>3. IsMax(v)
    BY <2>2
  <2>4. top \in V
    <3> HIDE DEF V, IsMax
    <3> QED
      BY <2>3
  <2>5. NextVersion(r) = 1 + top
    BY <1>2 DEF NextVersion
  <2> HIDE DEF V, IsMax, top
  <2> QED
    BY <2>1, <2>4, <2>5
<1> QED
  BY <1>1, <1>2

-----------------------------------------------------------------------------
(* The history of the working repository                                   *)

LogOK ==
    /\ log \in Seq(CommitSet)
    /\ \A c \in Commits : log[c].anc \subseteq 1..c
    /\ \A c \in Commits : Exist(log[c].reg, Commits)

\* A commit on top of an existing one leaves the history as it was.
LEMMA CommitGrows ==
    ASSUME LogOK, NEW h \in Commits, NEW r \in RegistrySet, Exist(r, Commits),
           log' = Append(log, [reg |-> r, anc |-> log[h].anc \cup {Len(log) + 1}])
    PROVE  /\ LogOK' /\ Commits' = Commits \cup {Len(log) + 1}
           /\ \A c \in Commits : log'[c] = log[c]
           /\ log'[Len(log) + 1].reg = r
<1> DEFINE n == Len(log) + 1
           k == [reg |-> r, anc |-> log[h].anc \cup {n}]
<1>1. log \in Seq(CommitSet) /\ Len(log) \in Nat
  BY DEF LogOK
<1>2. log[h] \in CommitSet /\ log[h].anc \subseteq 1..h /\ h \in 1..Len(log)
  BY <1>1 DEF LogOK, Commits
<1>3. k \in CommitSet
  BY <1>1, <1>2 DEF CommitSet
<1>4. log' \in Seq(CommitSet) /\ Len(log') = n /\ log'[n] = k
  BY <1>1, <1>3
<1>5. \A c \in Commits : log'[c] = log[c]
  BY <1>1, <1>3 DEF Commits
<1>6. Commits' = Commits \cup {n}
  BY <1>1, <1>4 DEF Commits
<1>7. \A c \in Commits' : log'[c].anc \subseteq 1..c
  <2>1. log'[n].anc \subseteq 1..n
    BY <1>1, <1>2, <1>4
  <2> QED
    BY <1>5, <1>6, <2>1 DEF LogOK
<1>8. \A c \in Commits' : Exist(log'[c].reg, Commits')
  <2>1. Exist(log'[n].reg, Commits')
    BY <1>4, <1>6 DEF Exist
  <2>2. \A c \in Commits : Exist(log'[c].reg, Commits')
    BY <1>5, <1>6 DEF LogOK, Exist
  <2> QED
    BY <1>6, <2>1, <2>2
<1>9. LogOK'
  BY <1>4, <1>7, <1>8 DEF LogOK, Exist
<1>10. log'[n].reg = r
  BY <1>4
<1> QED
  BY <1>5, <1>6, <1>9, <1>10

\* What a git command does to history, whatever it commits
Grows ==
    /\ LogOK' /\ head' \in Commits' /\ Commits \subseteq Commits'
    /\ \A c \in Commits : log'[c] = log[c]
    /\ \A c \in Commits' : log'[c].reg \in {reg, reg'} \cup {log[d].reg : d \in Commits}

LEMMA LogType ==
    ASSUME TypeOK
    PROVE  /\ LogOK /\ reg \in RegistrySet /\ Exist(reg, Commits)
           /\ head \in Commits /\ bare \in Commits
           /\ \A c \in Commits : log[c] \in CommitSet /\ log[c].reg \in RegistrySet
           /\ Commits \subseteq Nat /\ Unbound \notin Commits
<1>1. log \in Seq(CommitSet) /\ reg \in RegistrySet
  BY DEF TypeOK, Shapes
<1>2. \A c \in Commits : log[c] \in CommitSet /\ log[c].reg \in RegistrySet
  <2>1. \A c \in Commits : log[c] \in CommitSet
    BY <1>1 DEF Commits
  <2> QED
    BY <2>1 DEF CommitSet
<1>3. Exist(reg, Commits) /\ \A c \in Commits : Exist(log[c].reg, Commits)
  BY DEF TypeOK, CommitsExist, Registries, Exist
<1> QED
  BY <1>1, <1>2, <1>3 DEF TypeOK, CommitsExist, LogOK, Commits, Unbound

LEMMA RegistryCommitGrows == ASSUME TypeOK, CommitRegistry PROVE Grows
<1>1. CASE UNCHANGED <<log, head>>
  BY <1>1, LogType DEF Grows, LogOK, Commits
<1>2. CASE log' = Append(log, [reg |-> reg, anc |-> log[head].anc \cup {Len(log) + 1}])
           /\ head' = Len(log) + 1
  <2>1. /\ LogOK' /\ Commits' = Commits \cup {Len(log) + 1}
        /\ \A c \in Commits : log'[c] = log[c]
        /\ log'[Len(log) + 1].reg = reg
    BY <1>2, LogType, CommitGrows
  <2> QED
    BY <1>2, <2>1 DEF Grows
<1> QED
  BY <1>1, <1>2 DEF CommitRegistry

LEMMA SourceCommitGrows == ASSUME TypeOK, CommitSources PROVE Grows
<1>1. CASE UNCHANGED <<log, head>>
  BY <1>1, LogType DEF Grows, LogOK, Commits
<1>2. CASE log' = Append(log, [reg |-> log[head].reg, anc |-> log[head].anc \cup {Len(log) + 1}])
           /\ head' = Len(log) + 1
  <2>1. /\ LogOK' /\ Commits' = Commits \cup {Len(log) + 1}
        /\ \A c \in Commits : log'[c] = log[c]
        /\ log'[Len(log) + 1].reg = log[head].reg
    BY <1>2, LogType, CommitGrows DEF LogOK
  <2> QED
    BY <1>2, <2>1, LogType DEF Grows
<1> QED
  BY <1>1, <1>2 DEF CommitSources

LEMMA UnchangedGrows == ASSUME TypeOK, UNCHANGED <<log, head>> PROVE Grows
BY LogType DEF Grows, LogOK, Commits

-----------------------------------------------------------------------------
(* What a step does to the registry, to history and to what names commits  *)

SoundHere == \A r \in Registries : Sound(r, probed)

TreeStep ==
    /\ Grows /\ bare' \in Commits' /\ checkout' \in Commits'
    /\ reg' \in RegistrySet /\ Exist(reg', Commits')
    /\ probed \subseteq probed' /\ probed' \subseteq Commits'
    /\ disc'.pc = "reset" => disc'.commit \in Commits'
    /\ SoundHere => Sound(reg', probed')

LEMMA StillTree ==
    ASSUME TypeOK, UNCHANGED <<reg, log, head, bare, checkout, probed>>,
           disc' = disc \/ disc' = NoDiscard \/ disc' = [disc EXCEPT !.alone = FALSE]
                  \/ disc' = [disc EXCEPT !.pc = "close"]
    PROVE  TreeStep
<1>1. Grows /\ LogOK
  BY UnchangedGrows, LogType
<1>2. Commits' = Commits
  BY DEF Commits
<1>3. disc'.pc = "reset" => disc.pc = "reset" /\ disc'.commit = disc.commit
  BY DEF TypeOK, Shapes, NoDiscard
<1>4. SoundHere => Sound(reg', probed')
  BY DEF SoundHere, Registries
<1> QED
  BY <1>1, <1>2, <1>3, <1>4, LogType DEF TypeOK, CommitsExist, TreeStep

\* Only the registry is written, by an operation that keeps what it was.
LEMMA RegistryTree ==
    ASSUME TypeOK, UNCHANGED <<log, head, bare, checkout, probed, disc>>, Keeps(reg, reg')
    PROVE  TreeStep
<1>1. Grows
  BY UnchangedGrows
<1>2. Commits' = Commits
  BY DEF Commits
<1>3. SoundHere => Sound(reg', probed')
  BY DEF SoundHere, Registries, Keeps
<1> QED
  BY <1>1, <1>2, <1>3, LogType DEF TypeOK, CommitsExist, TreeStep, Keeps

LEMMA CommitTree ==
    ASSUME TypeOK, Grows, bare' = bare \/ bare' = head',
           UNCHANGED <<reg, checkout, probed, disc>>
    PROVE  TreeStep
<1>1. Commits \subseteq Commits' /\ head' \in Commits' /\ Exist(reg', Commits')
  BY LogType DEF Grows, Exist
<1>2. SoundHere => Sound(reg', probed')
  BY DEF SoundHere, Registries
<1> QED
  BY <1>1, <1>2, LogType DEF TypeOK, CommitsExist, TreeStep

LEMMA FreezeTree == ASSUME TypeOK, NEW p \in Publishers, Freeze(p) PROVE TreeStep
<1>1. Grows
  BY SourceCommitGrows DEF Freeze
<1> QED
  BY <1>1, CommitTree DEF Freeze, Push, execVars

LEMMA SaveTree == ASSUME TypeOK, NEW t \in Threads, SaveRegistry(t) PROVE TreeStep
<1>1. Grows
  BY RegistryCommitGrows, UnchangedGrows DEF SaveRegistry, gitVars
<1> QED
  BY <1>1, CommitTree DEF SaveRegistry, gitVars, execVars, Push

LEMMA ProbeTree == ASSUME TypeOK, NEW p \in Publishers, Probe(p) PROVE TreeStep
<1> DEFINE c == thr[p].commit
           q == WithCandidate(reg, thr[p].ver, c, thr[p].s)
<1> USE DEF gitVars, execVars
<1>0. thr[p] \in ThreadSet
  BY DEF TypeOK, Shapes, Threads
<1>1. CASE UNCHANGED <<reg, probed>>
  BY <1>1, StillTree DEF Probe
<1>2. CASE c \in log[bare].anc /\ probed' = probed \cup {c}
  <2>1. c \in Commits /\ Commits' = Commits
    <3>1. bare \in 1..Len(log) /\ Len(log) \in Nat /\ c \in 1..bare
      BY <1>2, LogType DEF LogOK, Commits
    <3>2. UNCHANGED log
      BY DEF Probe
    <3> QED
      BY <3>1, <3>2 DEF Commits
  <2>2. Grows /\ UNCHANGED <<bare, checkout, disc>>
    BY UnchangedGrows DEF Probe
  <2>3. reg' \in RegistrySet /\ Exist(reg', Commits) /\ (Sound(reg, probed') => Sound(reg', probed'))
    <3>1. CASE reg' = reg
      BY <3>1, LogType
    <3>2. CASE Registrable(reg, thr[p].ver, thr[p].s) /\ reg' = q
      <4>1. /\ reg \in RegistrySet /\ thr[p].ver \in Nat /\ c \in Nat
            /\ thr[p].s \in Sessions \cup {NoSession} /\ c \in probed'
        BY <1>0, <1>2, LogType DEF ThreadSet
      <4>2. /\ q \in RegistrySet
            /\ \A C : Exist(reg, C) /\ c \in C => Exist(q, C)
            /\ \A P : Sound(reg, P) /\ c \in P => Sound(q, P)
        BY <3>2, <4>1, CandidateKeeps
      <4> QED
        BY <2>1, <3>2, <4>1, <4>2, LogType
    <3> QED
      BY <3>1, <3>2, <1>2 DEF Probe
  <2>4. SoundHere => Sound(reg, probed')
    BY <1>2 DEF SoundHere, Registries, Sound
  <2> QED
    BY <1>2, <2>1, <2>2, <2>3, <2>4 DEF TreeStep, TypeOK, CommitsExist
<1> QED
  BY <1>1, <1>2 DEF Probe

LEMMA PromoteTree == ASSUME TypeOK, NEW p \in Publishers, Promote(p) PROVE TreeStep
<1>1. thr[p] \in ThreadSet /\ thr[p].ver \in Nat
  BY DEF TypeOK, Shapes, Threads, ThreadSet
<1>2. CASE UNCHANGED reg
  BY <1>2, StillTree DEF Promote, gitVars, execVars
<1>3. CASE reg' = Promoted(reg, thr[p].ver)
  <2>1. Keeps(reg, reg')
    BY <1>1, <1>3, LogType, PromotedKeeps
  <2> QED
    BY <2>1, RegistryTree DEF Promote, gitVars, execVars
<1> QED
  BY <1>2, <1>3 DEF Promote

LEMMA RestoreTree == ASSUME TypeOK, NEW t \in Threads, Restore(t) PROVE TreeStep
<1>1. thr[t] \in ThreadSet /\ thr[t].ver \in Nat /\ thr[t].prev \in Nat
  BY DEF TypeOK, Shapes, ThreadSet
<1>2. Keeps(reg, reg')
  BY <1>1, LogType, RestoredKeeps, RollbackUndoneKeeps DEF Restore
<1> QED
  BY <1>2, RegistryTree DEF Restore, gitVars, execVars

LEMMA RollbackTree == ASSUME TypeOK, NEW e \in reg.versions, Rollback(e.version) PROVE TreeStep
<1>1. e.version \in Nat
  BY LogType DEF RegistrySet, EntrySet
<1>2. Keeps(reg, reg')
  BY <1>1, LogType, RolledBackKeeps DEF Rollback
<1>3. Grows /\ Commits' = Commits
  BY UnchangedGrows DEF Rollback, gitVars, Commits
<1>4. disc'.pc = "reset" => disc.pc = "reset" /\ disc'.commit = disc.commit
  BY DEF TypeOK, Shapes, Rollback, Begin
<1>5. SoundHere => Sound(reg', probed')
  BY <1>2 DEF SoundHere, Registries, Keeps, Rollback
<1> QED
  BY <1>2, <1>3, <1>4, <1>5, LogType
  DEF TypeOK, CommitsExist, TreeStep, Keeps, Rollback, gitVars, execVars

LEMMA DiscardTree == ASSUME TypeOK, NEW s \in Sessions, Discard(s) PROVE TreeStep
<1>1. Grows /\ Commits' = Commits
  BY UnchangedGrows DEF Discard, treeVars, Commits
<1>2. ProductionCommit(reg) \in Commits
  BY LogType, ProductionIsEntry DEF Discard, Exist
<1>3. SoundHere => Sound(reg', probed')
  BY DEF SoundHere, Registries, Discard, treeVars
<1> QED
  BY <1>1, <1>2, <1>3, LogType DEF TypeOK, CommitsExist, TreeStep, Discard, treeVars, execVars

LEMMA ResetTree == ASSUME TypeOK, Reset PROVE TreeStep
<1>1. disc.commit \in Commits /\ Commits' = Commits
  BY DEF TypeOK, CommitsExist, Reset, Commits
<1>2. Grows
  BY <1>1, LogType DEF Grows, LogOK, Reset
<1>3. reg' \in RegistrySet /\ Exist(reg', Commits)
  BY <1>1, LogType DEF LogOK, Reset
<1>4. SoundHere => Sound(reg', probed')
  BY <1>1 DEF SoundHere, Registries, Reset
<1>5. disc'.pc = "close"
  BY DEF TypeOK, Shapes, Reset
<1> QED
  BY <1>1, <1>2, <1>3, <1>4, <1>5, LogType DEF TypeOK, CommitsExist, TreeStep, Reset, execVars

\* The executor checks out the commit of a production version.
LEMMA CheckoutTree ==
    ASSUME TypeOK, Target # Unbound, checkout' = Target,
           UNCHANGED <<reg, log, head, bare, disc, probed>>
    PROVE  TreeStep
<1>1. Grows /\ Commits' = Commits
  BY UnchangedGrows DEF Commits
<1>2. Target \in Commits
  BY LogType, ProductionIsEntry DEF Target, LogOK, Exist
<1>3. SoundHere => Sound(reg', probed')
  BY DEF SoundHere, Registries
<1> QED
  BY <1>1, <1>2, <1>3, LogType DEF TypeOK, CommitsExist, TreeStep

LEMMA RestartTree == ASSUME TypeOK, Restart PROVE TreeStep
<1> DEFINE q == Pruned(reg, head)
           n == Len(log) + 1
<1>1. head \in Nat /\ q \in RegistrySet /\ Exist(q, Commits)
      /\ (SoundHere => Sound(q, probed))
  <2>1. head \in Nat /\ Unbound \notin probed /\ Exist(reg, Commits) /\ head \in Commits
    BY LogType DEF TypeOK, CommitsExist
  <2>2. SoundHere => Sound(reg, probed)
    BY DEF SoundHere, Registries
  <2> QED
    BY <2>1, <2>2, LogType, PrunedKeeps
<1>2. reg' = q /\ probed' = probed /\ checkout' = checkout /\ disc' = NoDiscard /\ bare' = head'
  BY DEF Restart
<1>3. Grows
  <2>1. CASE UNCHANGED <<log, head>>
    BY <2>1, UnchangedGrows
  <2>2. CASE log' = Append(log, [reg |-> q, anc |-> log[head].anc \cup {n}]) /\ head' = n
    <3>1. /\ LogOK' /\ Commits' = Commits \cup {n}
          /\ \A c \in Commits : log'[c] = log[c]
          /\ log'[n].reg = q
      BY <1>1, <2>2, LogType, CommitGrows
    <3> QED
      BY <1>2, <2>2, <3>1 DEF Grows
  <2> QED
    BY <2>1, <2>2 DEF Restart
<1>4. Commits \subseteq Commits' /\ head' \in Commits' /\ Exist(reg', Commits')
  BY <1>1, <1>2, <1>3 DEF Grows, Exist
<1> QED
  BY <1>1, <1>2, <1>3, <1>4 DEF TypeOK, CommitsExist, TreeStep, NoDiscard

\* Every step keeps the registry and the history sound.
LEMMA EveryTreeStep == ASSUME TypeOK, Next PROVE TreeStep
<1> USE DEF treeVars, gitVars, execVars
<1>1. ASSUME NEW s \in Sessions,
             Start(s) \/ InspectEnds(s) \/ Finalize(s) \/ LandingEnds(s) \/ Edit(s) \/ Stop(s)
      PROVE  TreeStep
  BY <1>1, StillTree DEF Start, InspectEnds, Finalize, LandingEnds, Edit, Stop, SessionStep
<1>2. ASSUME NEW s \in Sessions, Discard(s) PROVE TreeStep
  BY <1>2, DiscardTree
<1>3. CASE Reset
  BY <1>3, ResetTree
<1>4. CASE CloseDiscarded
  BY <1>4, StillTree DEF CloseDiscarded
<1>5. ASSUME NEW p \in Publishers, NEW s \in Sessions, Publish(p, s) PROVE TreeStep
  BY <1>5, StillTree DEF Publish, Begin
<1>6. ASSUME NEW p \in Publishers, Freeze(p) \/ Probe(p) \/ Promote(p) PROVE TreeStep
  BY <1>6, FreezeTree, ProbeTree, PromoteTree
<1>7. ASSUME NEW t \in Threads, Restore(t) \/ SaveRegistry(t) PROVE TreeStep
  BY <1>7, RestoreTree, SaveTree
<1>8. ASSUME NEW t \in Threads, Ask(t) \/ Hear(t) \/ GiveUp(t) \/ Return(t) PROVE TreeStep
  BY <1>8, StillTree DEF Ask, Hear, GiveUp, Return, ThreadOnly
<1>9. ASSUME NEW e \in reg.versions, Rollback(e.version) PROVE TreeStep
  BY <1>9, RollbackTree
<1>10. ASSUME NEW i \in Loads, ServeReload(i) PROVE TreeStep
  BY <1>10, StillTree, CheckoutTree DEF ServeReload
<1>11. CASE Reconcile
  BY <1>11, CheckoutTree DEF Reconcile
<1>12. CASE Restart
  BY <1>12, RestartTree
<1> QED
  BY <1>1, <1>2, <1>3, <1>4, <1>5, <1>6, <1>7, <1>8, <1>9, <1>10, <1>11, <1>12
  DEF Next, SessionNext, PublishNext, ThreadNext, ExecNext

-----------------------------------------------------------------------------
(* Types of what belongs to the threads                                    *)

ThreadTypes == thr \in [Threads -> ThreadSet]
DiscTypes == disc \in [pc : {"idle", "reset", "close"}, s : Sessions \cup {NoSession},
                       commit : Nat, alone : BOOLEAN]
LoadTypes == load \in [Loads -> [st : {"none", "asked", "answered", "error"}, c : Nat]]
UsedTypes == used \in [request : 0..MaxRequests, upset : 0..MaxUpsets]
ActorTypes == ThreadTypes /\ DiscTypes /\ LoadTypes /\ UsedTypes

LEMMA IdleType == Idle \in ThreadSet
BY DEF Idle, ThreadSet, Places, NoVersion, Unbound

LEMMA PcType ==
    ASSUME NEW x \in ThreadSet, NEW pc \in Places
    PROVE  [x EXCEPT !.pc = pc] \in ThreadSet
BY DEF ThreadSet

LEMMA GotoTypes ==
    ASSUME ThreadTypes, NEW t \in Threads, NEW pc \in Places, Goto(t, pc)
    PROVE  ThreadTypes'
<1>1. thr' = [thr EXCEPT ![t] = [thr[t] EXCEPT !.pc = pc]]
  BY DEF Goto
<1> QED
  BY <1>1, PcType DEF ThreadTypes

LEMMA FinishTypes ==
    ASSUME ThreadTypes, NEW t \in Threads, Finish(t)
    PROVE  ThreadTypes'
BY IdleType DEF ThreadTypes, Finish

LEMMA MetTypes == ASSUME ThreadTypes PROVE Met \in [Threads -> ThreadSet]
BY DEF ThreadTypes, Met, ThreadSet

LEMMA BeginTypes ==
    ASSUME ThreadTypes, DiscTypes, NEW t \in Threads, NEW rec \in ThreadSet, Begin(t, rec)
    PROVE  ThreadTypes' /\ DiscTypes'
<1> DEFINE flag == Quiet /\ HasProduction(reg)
<1>1. [rec EXCEPT !.alone = flag] \in ThreadSet
  BY DEF ThreadSet, Quiet, HasProduction
<1>2. thr' = [Met EXCEPT ![t] = [rec EXCEPT !.alone = flag]]
  BY DEF Begin
<1>3. ThreadTypes'
  BY <1>1, <1>2, MetTypes DEF ThreadTypes
<1>4. DiscTypes'
  BY DEF DiscTypes, Begin
<1> QED
  BY <1>3, <1>4

LEMMA UpsetTypes ==
    ASSUME UsedTypes, Upset \/ NoFault \/ Request
    PROVE  UsedTypes'
BY ReleaseAssumption DEF UsedTypes, Upset, NoFault, Request

LEMMA CommitNat == ASSUME TypeOK, TreeStep
                   PROVE  /\ Commits' \subseteq Nat /\ head' \in Nat
                          /\ \A v : Entries(reg, v) # {} => CommitOf(reg, v) \in Nat
                          /\ ProductionCommit(reg) \in Nat /\ Target \in Nat
<1>1. Commits' \subseteq Nat /\ head' \in Nat
  BY DEF TreeStep, Grows, LogOK, Commits
<1>2. \A r \in RegistrySet : /\ \A v : Entries(r, v) # {} => CommitOf(r, v) \in Nat
                             /\ ProductionCommit(r) \in Nat
  BY DEF RegistrySet, EntrySet, Entries, CommitOf, ProductionCommit, HasProduction, Unbound
<1> QED
  BY <1>1, <1>2, LogType DEF Target

\* The thread moves on or ends, and nothing else of the actors changes but
\* the bound.
LEMMA MoveTypes ==
    ASSUME ActorTypes, NEW t \in Threads,
           Finish(t) \/ \E pc \in Places : Goto(t, pc),
           Fault \/ NoFault, UNCHANGED disc
    PROVE  ThreadTypes' /\ DiscTypes' /\ UsedTypes'
<1>1. ThreadTypes'
  BY FinishTypes, GotoTypes DEF ActorTypes
<1>2. UsedTypes'
  BY UpsetTypes DEF ActorTypes, Fault
<1> QED
  BY <1>1, <1>2 DEF ActorTypes, DiscTypes

LEMMA NewestType ==
    ASSUME TypeOK, SoundHere, NEW s \in Sessions, Mine(s) # {}
    PROVE  Newest(s) \in EntrySet /\ Newest(s) \in reg.versions
<1> DEFINE IsNewest(e) == \A x \in Mine(s) : x.version <= e.version
<1>1. Mine(s) \subseteq EntrySet
  BY LogType DEF Mine, OfSession, RegistrySet
<1>2. PICK e \in Mine(s) : \A f \in Mine(s) : f = e
  BY NamesAssumption DEF SoundHere, Registries, Sound, Mine, OfSession
<1>3. IsNewest(e)
  BY <1>1, <1>2 DEF EntrySet
<1>4. Newest(s) \in Mine(s)
  BY <1>3 DEF Newest
<1> QED
  BY <1>1, <1>4 DEF Mine, OfSession

LEMMA PublishTypes ==
    ASSUME TypeOK, ActorTypes, SoundHere, NEW p \in Publishers, NEW s \in Sessions,
           Publish(p, s)
    PROVE  ActorTypes'
<1>0. p \in Threads /\ ThreadTypes /\ DiscTypes /\ UsedTypes /\ LoadTypes
  BY DEF Threads, ActorTypes
<1>1. UsedTypes' /\ LoadTypes'
  <2>1. UNCHANGED load /\ Request
    BY DEF Publish, execVars
  <2> QED
    BY <1>0, <2>1, UpsetTypes DEF LoadTypes
<1>2. CASE Begin(p, [Idle EXCEPT !.pc = "freeze", !.s = s, !.ver = NextVersion(reg)])
  <2>1. NextVersion(reg) \in Nat
    BY LogType, NextVersionType DEF SoundHere, Registries, Sound
  <2>2. [Idle EXCEPT !.pc = "freeze", !.s = s, !.ver = NextVersion(reg)] \in ThreadSet
    BY <2>1, IdleType DEF ThreadSet, Places
  <2> QED
    BY <1>0, <1>1, <1>2, <2>2, BeginTypes DEF ActorTypes
<1>3. CASE Mine(s) # {} /\ Begin(p, [Idle EXCEPT !.pc = "probe again", !.s = s,
                                   !.ver = Newest(s).version, !.commit = Newest(s).commit])
  <2>1. Newest(s) \in EntrySet
    BY <1>3, NewestType
  <2>2. [Idle EXCEPT !.pc = "probe again", !.s = s, !.ver = Newest(s).version,
                     !.commit = Newest(s).commit] \in ThreadSet
    BY <2>1, IdleType DEF ThreadSet, Places, EntrySet
  <2> QED
    BY <1>0, <1>1, <1>3, <2>2, BeginTypes DEF ActorTypes
<1>4. CASE thr' = Met /\ disc' = [disc EXCEPT !.alone = FALSE]
  BY <1>0, <1>1, <1>4, MetTypes DEF ActorTypes, ThreadTypes, DiscTypes
<1> QED
  BY <1>2, <1>3, <1>4 DEF Publish

LEMMA RollbackTypes ==
    ASSUME TypeOK, ActorTypes, TreeStep, NEW e \in reg.versions, Rollback(e.version)
    PROVE  ActorTypes'
<1> DEFINE rec == [Idle EXCEPT !.pc = "promoted", !.ver = e.version, !.prev = reg.prod,
                              !.commit = CommitOf(reg, e.version),
                              !.base = ProductionCommit(reg)]
<1>1. e.version \in Nat /\ reg.prod \in Nat /\ ProductionCommit(reg) \in Nat
  BY LogType, CommitNat DEF RegistrySet, EntrySet
<1>2. CommitOf(reg, e.version) \in Nat
  BY CommitNat DEF Entries
<1>3. rec \in ThreadSet
  BY <1>1, <1>2, IdleType DEF ThreadSet, Places
<1>4. Begin(Roller, rec) /\ Request /\ UNCHANGED load
  BY DEF Rollback, execVars
<1> HIDE DEF rec
<1>5. Roller \in Threads
  BY DEF Threads
<1> QED
  BY <1>3, <1>4, <1>5, BeginTypes, UpsetTypes DEF ActorTypes, LoadTypes

LEMMA FreezeTypes ==
    ASSUME TypeOK, ActorTypes, TreeStep, NEW p \in Publishers, Freeze(p)
    PROVE  ActorTypes'
<1>0. p \in Threads /\ thr[p] \in ThreadSet /\ UNCHANGED <<load, disc>>
  BY DEF Threads, ActorTypes, ThreadTypes, Freeze, execVars
<1>1. UsedTypes' /\ LoadTypes' /\ DiscTypes'
  BY <1>0, UpsetTypes DEF ActorTypes, LoadTypes, DiscTypes, Freeze, Fault
<1>2. CASE Finish(p)
  BY <1>0, <1>1, <1>2, FinishTypes DEF ActorTypes
<1>3. CASE thr' = [thr EXCEPT ![p].pc = "probe", ![p].commit = head']
  <2>1. [thr[p] EXCEPT !.pc = "probe", !.commit = head'] \in ThreadSet
    BY <1>0, CommitNat DEF ThreadSet, Places
  <2>2. thr' = [thr EXCEPT ![p] = [thr[p] EXCEPT !.pc = "probe", !.commit = head']]
    BY <1>0, <1>3 DEF ActorTypes, ThreadTypes
  <2> QED
    BY <1>1, <2>1, <2>2 DEF ActorTypes, ThreadTypes
<1> QED
  BY <1>2, <1>3 DEF Freeze

LEMMA PromoteTypes ==
    ASSUME TypeOK, ActorTypes, NEW p \in Publishers, Promote(p)
    PROVE  ActorTypes'
<1>0. p \in Threads /\ thr[p] \in ThreadSet /\ UNCHANGED <<load, disc>>
  BY DEF Threads, ActorTypes, ThreadTypes, Promote, execVars
<1>1. UsedTypes' /\ LoadTypes' /\ DiscTypes'
  BY <1>0, UpsetTypes DEF ActorTypes, LoadTypes, DiscTypes, Promote
<1>2. CASE Finish(p)
  BY <1>0, <1>1, <1>2, FinishTypes DEF ActorTypes
<1>3. CASE thr' = [thr EXCEPT ![p].prev = reg.prod, ![p].pc = "promoted"]
  <2>1. [thr[p] EXCEPT !.prev = reg.prod, !.pc = "promoted"] \in ThreadSet
    BY <1>0, LogType DEF ThreadSet, Places, RegistrySet
  <2>2. thr' = [thr EXCEPT ![p] = [thr[p] EXCEPT !.prev = reg.prod, !.pc = "promoted"]]
    BY <1>0, <1>3 DEF ActorTypes, ThreadTypes
  <2> QED
    BY <1>1, <2>1, <2>2 DEF ActorTypes, ThreadTypes
<1> QED
  BY <1>2, <1>3 DEF Promote

\* Steps that move a thread and leave the reloads alone
LEMMA MoverTypes ==
    ASSUME TypeOK, ActorTypes,
           \/ \E p \in Publishers : Probe(p)
           \/ \E t \in Threads : Restore(t) \/ SaveRegistry(t) \/ GiveUp(t) \/ Return(t)
    PROVE  ActorTypes'
<1> USE DEF Places
<1>1. ASSUME NEW p \in Publishers, Probe(p) PROVE ActorTypes'
  <2>1. /\ p \in Threads /\ UNCHANGED <<disc, load>> /\ NoFault
        /\ Finish(p) \/ Goto(p, "promote") \/ Goto(p, "registered")
    BY <1>1 DEF Probe, execVars, Threads
  <2> QED
    BY <2>1, MoveTypes DEF ActorTypes, LoadTypes
<1>2. ASSUME NEW t \in Threads, Restore(t) PROVE ActorTypes'
  <2>1. UNCHANGED <<disc, load>> /\ NoFault /\ (Goto(t, "recalled") \/ Goto(t, "restored"))
    BY <1>2 DEF Restore, execVars
  <2> QED
    BY <2>1, MoveTypes DEF ActorTypes, LoadTypes
<1>3. ASSUME NEW t \in Threads, SaveRegistry(t) PROVE ActorTypes'
  <2>1. Pushed(t) \in Places \cup {"failed"} /\ NotPushed(t) \in Places \cup {"failed"}
    BY <1>3 DEF SaveRegistry, Pushed, NotPushed
  <2>2. /\ UNCHANGED <<disc, load>> /\ (Fault \/ NoFault)
        /\ Finish(t) \/ \E pc \in Places : Goto(t, pc)
    BY <1>3, <2>1 DEF SaveRegistry, execVars, GotoOrFail
  <2> QED
    BY <2>2, MoveTypes DEF ActorTypes, LoadTypes
<1>4. ASSUME NEW t \in Threads, GiveUp(t) PROVE ActorTypes'
  <2>1. UNCHANGED <<disc, load>> /\ Fault /\ (Finish(t) \/ Goto(t, "restore"))
    BY <1>4 DEF GiveUp, Unconfirmed, execVars
  <2> QED
    BY <2>1, MoveTypes DEF ActorTypes, LoadTypes
<1>5. ASSUME NEW t \in Threads, Return(t) PROVE ActorTypes'
  <2>1. UNCHANGED <<disc, load>> /\ NoFault /\ Finish(t)
    BY <1>5 DEF Return, ThreadOnly, execVars
  <2> QED
    BY <2>1, MoveTypes DEF ActorTypes, LoadTypes
<1> QED
  BY <1>1, <1>2, <1>3, <1>4, <1>5

\* The caller and the executor at the two ends of a reload
LEMMA ReloadTypes ==
    ASSUME TypeOK, ActorTypes, TreeStep,
           \/ \E t \in Threads : Ask(t) \/ Hear(t)
           \/ \E i \in Loads : ServeReload(i)
    PROVE  ActorTypes'
<1> USE DEF Places
<1>1. ASSUME NEW t \in Threads, Ask(t) PROVE ActorTypes'
  <2>1. /\ UNCHANGED disc /\ (Fault \/ NoFault)
        /\ Finish(t) \/ \E pc \in Places : Goto(t, pc)
    BY <1>1 DEF Ask, Unconfirmed
  <2>2. LoadTypes'
    BY <1>1 DEF Ask, ActorTypes, LoadTypes
  <2> QED
    BY <2>1, <2>2, MoveTypes DEF ActorTypes
<1>2. ASSUME NEW t \in Threads, Hear(t) PROVE ActorTypes'
  <2>1. /\ UNCHANGED disc /\ NoFault
        /\ Finish(t) \/ \E pc \in Places : Goto(t, pc)
    BY <1>2 DEF Hear, Confirmed, Unconfirmed
  <2>2. LoadTypes'
    BY <1>2 DEF Hear, ActorTypes, LoadTypes, NoLoad, Unbound
  <2> QED
    BY <2>1, <2>2, MoveTypes DEF ActorTypes
<1>3. ASSUME NEW i \in Loads, ServeReload(i) PROVE ActorTypes'
  <2>1. UNCHANGED <<thr, disc>> /\ (Fault \/ NoFault)
    BY <1>3 DEF ServeReload
  <2>2. LoadTypes'
    <3>1. Answer(i, "answered", Target) \/ Answer(i, "error", Unbound)
      BY <1>3 DEF ServeReload
    <3> QED
      BY <3>1, CommitNat DEF Answer, ActorTypes, LoadTypes, NoLoad, Unbound
  <2>3. UsedTypes'
    BY <2>1, UpsetTypes DEF Fault, ActorTypes
  <2> QED
    BY <2>1, <2>2, <2>3 DEF ActorTypes, ThreadTypes, DiscTypes
<1> QED
  BY <1>1, <1>2, <1>3

LEMMA DiscardTypes ==
    ASSUME TypeOK, ActorTypes, TreeStep,
           (\E s \in Sessions : Discard(s)) \/ Reset \/ CloseDiscarded \/ Restart
    PROVE  ActorTypes'
<1>1. ASSUME NEW s \in Sessions, Discard(s) PROVE ActorTypes'
  <2>1. DiscTypes'
    BY <1>1, CommitNat DEF Discard, DiscTypes, Quiet
  <2>2. ThreadTypes'
    BY <1>1, MetTypes DEF Discard, ActorTypes, ThreadTypes
  <2> QED
    BY <1>1, <2>1, <2>2 DEF Discard, ActorTypes, LoadTypes, UsedTypes, execVars
<1>2. CASE Reset \/ CloseDiscarded
  <2>1. UNCHANGED <<thr, load, used>>
    BY <1>2 DEF Reset, CloseDiscarded, execVars
  <2>2. DiscTypes'
    <3>1. CASE Reset
      <4>1. disc' = [disc EXCEPT !.pc = "close"] /\ DiscTypes
        BY <3>1 DEF Reset, ActorTypes
      <4> QED
        BY <4>1 DEF DiscTypes
    <3>2. CASE CloseDiscarded
      BY <3>2 DEF CloseDiscarded, DiscTypes, NoDiscard, Unbound
    <3> QED
      BY <1>2, <3>1, <3>2
  <2> QED
    BY <2>1, <2>2 DEF ActorTypes, ThreadTypes, LoadTypes, UsedTypes
<1>3. CASE Restart
  <2>1. ThreadTypes' /\ DiscTypes'
    BY <1>3, IdleType DEF Restart, ThreadTypes, DiscTypes, NoDiscard, Unbound
  <2>2. LoadTypes'
    BY <1>3 DEF Restart, ActorTypes, LoadTypes, NoLoad, Unbound
  <2>3. UsedTypes'
    BY <1>3, UpsetTypes DEF Restart, ActorTypes
  <2> QED
    BY <2>1, <2>2, <2>3 DEF ActorTypes
<1> QED
  BY <1>1, <1>2, <1>3

LEMMA StillTypes ==
    ASSUME ActorTypes, UNCHANGED <<thr, disc, load, used>>
    PROVE  ActorTypes'
BY DEF ActorTypes, ThreadTypes, DiscTypes, LoadTypes, UsedTypes

LEMMA EveryActorStep == ASSUME TypeOK, SoundHere, TreeStep, Next PROVE ActorTypes'
<1>0. ActorTypes
  BY DEF TypeOK, Shapes, ActorTypes, ThreadTypes, DiscTypes, LoadTypes, UsedTypes
<1> USE DEF treeVars, execVars
<1>1. ASSUME NEW s \in Sessions,
             Start(s) \/ InspectEnds(s) \/ Finalize(s) \/ LandingEnds(s) \/ Edit(s) \/ Stop(s)
      PROVE  ActorTypes'
  BY <1>0, <1>1, StillTypes DEF Start, InspectEnds, Finalize, LandingEnds, Edit, Stop, SessionStep
<1>2. CASE (\E s \in Sessions : Discard(s)) \/ Reset \/ CloseDiscarded \/ Restart
  BY <1>0, <1>2, DiscardTypes
<1>3. ASSUME NEW p \in Publishers, NEW s \in Sessions, Publish(p, s) PROVE ActorTypes'
  BY <1>0, <1>3, PublishTypes
<1>4. ASSUME NEW p \in Publishers, Freeze(p) \/ Probe(p) \/ Promote(p) PROVE ActorTypes'
  BY <1>0, <1>4, FreezeTypes, MoverTypes, PromoteTypes
<1>5. ASSUME NEW t \in Threads,
             Restore(t) \/ SaveRegistry(t) \/ GiveUp(t) \/ Return(t) \/ Ask(t) \/ Hear(t)
      PROVE  ActorTypes'
  BY <1>0, <1>5, MoverTypes, ReloadTypes
<1>6. ASSUME NEW e \in reg.versions, Rollback(e.version) PROVE ActorTypes'
  BY <1>0, <1>6, RollbackTypes
<1>7. ASSUME NEW i \in Loads, ServeReload(i) PROVE ActorTypes'
  BY <1>0, <1>7, ReloadTypes
<1>8. CASE Reconcile
  BY <1>0, <1>8, StillTypes DEF Reconcile
<1> QED
  BY <1>1, <1>2, <1>3, <1>4, <1>5, <1>6, <1>7, <1>8
  DEF Next, SessionNext, PublishNext, ThreadNext, ExecNext

-----------------------------------------------------------------------------
(* Types of the sessions, and the invariant                                *)

SessionTypes ==
    /\ status \in [Sessions -> Statuses]
    /\ round \in [Sessions -> {"none", "inspect", "landing"}]
    /\ dirty \in BOOLEAN

LEMMA EverySessionStep == ASSUME SessionTypes, Next PROVE SessionTypes'
<1> USE DEF SessionTypes, Statuses, treeVars, sessionVars
<1>1. ASSUME NEW s \in Sessions,
             Start(s) \/ InspectEnds(s) \/ Finalize(s) \/ LandingEnds(s) \/ Edit(s) \/ Stop(s)
             \/ Discard(s)
      PROVE  SessionTypes'
  BY <1>1 DEF Start, InspectEnds, Finalize, LandingEnds, Edit, Stop, Discard, SessionStep
<1>2. CASE Reset \/ CloseDiscarded \/ Restart \/ Reconcile
  BY <1>2 DEF Reset, CloseDiscarded, Restart, Reconcile
<1>3. ASSUME NEW p \in Publishers, NEW s \in Sessions, Publish(p, s) PROVE SessionTypes'
  BY <1>3 DEF Publish
<1>4. ASSUME NEW p \in Publishers, Freeze(p) \/ Probe(p) \/ Promote(p) PROVE SessionTypes'
  BY <1>4 DEF Freeze, Probe, Promote
<1>5. ASSUME NEW t \in Threads, Restore(t) \/ SaveRegistry(t) \/ Return(t) PROVE SessionTypes'
  BY <1>5 DEF Restore, SaveRegistry, Return, ThreadOnly
<1>6. ASSUME NEW t \in Threads, Ask(t) \/ Hear(t) \/ GiveUp(t) PROVE SessionTypes'
  <2>1. Confirmed(t) \/ Unconfirmed(t) => status' \in [Sessions -> Statuses]
    BY DEF Confirmed, Unconfirmed
  <2>2. status' \in [Sessions -> Statuses] /\ UNCHANGED <<round, dirty>>
    BY <1>6, <2>1 DEF Ask, Hear, GiveUp
  <2> QED
    BY <2>2
<1>7. ASSUME NEW e \in reg.versions, Rollback(e.version) PROVE SessionTypes'
  BY <1>7 DEF Rollback
<1>8. ASSUME NEW i \in Loads, ServeReload(i) PROVE SessionTypes'
  BY <1>8 DEF ServeReload
<1> QED
  BY <1>1, <1>2, <1>3, <1>4, <1>5, <1>6, <1>7, <1>8
  DEF Next, SessionNext, PublishNext, ThreadNext, ExecNext

Inv == TypeOK /\ SoundHere

LEMMA InitInv == Init => Inv
<1> SUFFICES ASSUME Init PROVE Inv
  OBVIOUS
<1>1. Seed(1) \in RegistrySet /\ Seed(Unbound) \in RegistrySet
  BY DEF Seed, RegistrySet, EntrySet, Marks, Unbound
<1>2. log \in Seq(CommitSet) /\ Len(log) = 2
  <2> DEFINE first == [reg |-> Seed(Unbound), anc |-> {1}]
             second == [reg |-> Seed(1), anc |-> {1, 2}]
  <2>1. first \in CommitSet /\ second \in CommitSet
    BY <1>1 DEF CommitSet
  <2>2. log = <<first, second>>
    BY DEF Init
  <2> HIDE DEF first, second
  <2> QED
    BY <2>1, <2>2
<1>3. Commits = {1, 2}
  BY <1>2 DEF Commits
<1>4. Shapes
  <2>1. /\ thr \in [Threads -> ThreadSet]
        /\ used \in [request : 0..MaxRequests, upset : 0..MaxUpsets]
    BY IdleType, ReleaseAssumption DEF Init
  <2>2. /\ disc \in [pc : {"idle", "reset", "close"}, s : Sessions \cup {NoSession},
                    commit : Nat, alone : BOOLEAN]
        /\ load \in [Loads -> [st : {"none", "asked", "answered", "error"}, c : Nat]]
    BY DEF Init, NoDiscard, NoLoad, Unbound
  <2>3. /\ status \in [Sessions -> Statuses]
        /\ round \in [Sessions -> {"none", "inspect", "landing"}]
        /\ dirty \in BOOLEAN /\ reg \in RegistrySet
    BY <1>1 DEF Init, Statuses
  <2> QED
    BY <1>2, <2>1, <2>2, <2>3 DEF Shapes
<1>5. /\ log[1].anc \subseteq 1..1 /\ log[2].anc \subseteq 1..2
      /\ Registries \subseteq {Seed(1), Seed(Unbound)}
  BY <1>3 DEF Init, Registries
<1>6. CommitsExist
  BY <1>3, <1>5 DEF CommitsExist, Init, NoDiscard, Seed, Unbound
<1>7. Sound(Seed(1), probed) /\ Sound(Seed(Unbound), probed)
  BY DEF Sound, Bounded, Seed
<1> QED
  BY <1>4, <1>5, <1>6, <1>7 DEF Inv, TypeOK, SoundHere

LEMMA InvKept == Inv /\ [Next]_vars => Inv'
<1> SUFFICES ASSUME Inv, [Next]_vars PROVE Inv'
  OBVIOUS
<1>1. CASE Next
  <2>1. TypeOK /\ SoundHere /\ TreeStep
    BY <1>1, EveryTreeStep DEF Inv
  <2>2. ActorTypes'
    BY <1>1, <2>1, EveryActorStep
  <2>3. SessionTypes'
    BY <1>1, <2>1, EverySessionStep DEF SessionTypes, TypeOK, Shapes
  <2>4. Shapes'
    BY <2>1, <2>2, <2>3 DEF Shapes, ActorTypes, ThreadTypes, DiscTypes, LoadTypes, UsedTypes,
                            SessionTypes, TreeStep, Grows, LogOK
  <2>5. \A r \in Registries' : Exist(r, Commits') /\ Sound(r, probed')
    <3>1. Exist(reg', Commits') /\ Sound(reg', probed')
      BY <2>1 DEF TreeStep
    <3>2. \A r \in Registries : Sound(r, probed')
      BY <2>1 DEF SoundHere, Sound, TreeStep
    <3>3. \A c \in Commits' : log'[c].reg \in {reg, reg'} \cup {log[d].reg : d \in Commits}
      BY <2>1 DEF TreeStep, Grows
    <3>4. \A c \in Commits' : Sound(log'[c].reg, probed')
      BY <3>1, <3>2, <3>3 DEF Registries
    <3>5. \A c \in Commits' : Exist(log'[c].reg, Commits')
      BY <2>1 DEF TreeStep, Grows, LogOK
    <3> QED
      BY <3>1, <3>4, <3>5 DEF Registries
  <2>6. CommitsExist'
    BY <2>1, <2>5 DEF CommitsExist, TreeStep, Grows, LogOK, Exist
  <2> QED
    BY <2>4, <2>5, <2>6 DEF Inv, TypeOK, SoundHere
<1>2. CASE UNCHANGED vars
  BY <1>2 DEF vars, Inv, TypeOK, Shapes, CommitsExist, SoundHere, Registries, Commits
<1> QED
  BY <1>1, <1>2

\* Every variable keeps its type, and a commit that is named exists.
THEOREM TypeSafety == Spec => []TypeOK
<1>1. Inv => TypeOK
  BY DEF Inv
<1> QED
  BY InitInv, InvKept, <1>1, PTL DEF Spec

\* However releases interleave, every registry numbers its versions
\* uniquely, has one version per session, and only accepted commits for them.
THEOREM GateHolds == Spec => []RegistrySound
<1>1. Inv => RegistrySound
  BY DEF Inv, SoundHere, Sound, RegistrySound
<1> QED
  BY InitInv, InvKept, <1>1, PTL DEF Spec

-----------------------------------------------------------------------------
(* What the executor serves: it takes a commit from a production entry of  *)
(* a committed registry, and such an entry has passed the gate.            *)

LEMMA ProbeServesNothing ==
    ASSUME NEW p \in Publishers, Probe(p)
    PROVE  checkout' = checkout
BY Zenon DEF Probe, execVars

LEMMA CheckoutMoves ==
    ASSUME Next, checkout' # checkout
    PROVE  checkout' = Target /\ Target # Unbound
<1> USE DEF treeVars, gitVars, execVars, sessionVars
<1>1. CASE SessionNext \/ Reset \/ CloseDiscarded
  BY <1>1 DEF SessionNext, Reset, CloseDiscarded, Start, InspectEnds, Finalize, Edit,
              LandingEnds, Stop, Discard, SessionStep
<1>2. ASSUME NEW p \in Publishers, PublishNext(p) PROVE FALSE
  <2>1. CASE \E s \in Sessions : Publish(p, s)
    BY <2>1 DEF Publish
  <2>2. CASE Freeze(p)
    BY <2>2 DEF Freeze
  <2>3. CASE Probe(p)
    BY <2>3, ProbeServesNothing
  <2>4. CASE Promote(p)
    BY <2>4 DEF Promote
  <2> QED
    BY <1>2, <2>1, <2>2, <2>3, <2>4 DEF PublishNext
<1>3. ASSUME NEW t \in Threads, ThreadNext(t) PROVE FALSE
  BY <1>3 DEF ThreadNext, Restore, SaveRegistry, Ask, Hear, GiveUp, Return, ThreadOnly
<1>4. ASSUME NEW e \in reg.versions, Rollback(e.version) PROVE FALSE
  BY <1>4 DEF Rollback
<1>5. CASE ExecNext
  BY <1>5 DEF ExecNext, Reconcile, ServeReload
<1>6. CASE Restart
  BY <1>6 DEF Restart
<1> QED
  BY <1>1, <1>2, <1>3, <1>4, <1>5, <1>6 DEF Next

LEMMA InitGated == Init => ServedIsGated
<1> SUFFICES ASSUME Init PROVE ServedIsGated
  OBVIOUS
<1>1. TypeOK
  BY InitInv DEF Inv
<1>2. Len(log) = 2 /\ log[2].reg = Seed(1) /\ checkout = 1
  BY DEF Init
<1>3. 2 \in Commits
  BY <1>2 DEF Commits
<1>4. \E e \in Seed(1).versions : e.session = NoSession /\ e.commit = 1
  BY DEF Seed
<1> QED
  BY <1>2, <1>3, <1>4 DEF ServedIsGated

LEMMA GatedKept == Inv /\ ServedIsGated /\ [Next]_vars => ServedIsGated'
<1> SUFFICES ASSUME Inv, ServedIsGated, [Next]_vars PROVE ServedIsGated'
  OBVIOUS
<1>1. CASE UNCHANGED vars
  BY <1>1 DEF vars, ServedIsGated, Commits
<1>2. CASE Next
  <2>1. Grows /\ probed \subseteq probed'
    BY <1>2, EveryTreeStep DEF Inv, TreeStep
  <2>2. CASE checkout' = checkout
    BY <2>1, <2>2 DEF ServedIsGated, Grows
  <2>3. CASE checkout' # checkout
    <3>1. checkout' = Target /\ Target # Unbound
      BY <1>2, <2>3, CheckoutMoves
    <3>2. bare \in Commits
      BY DEF Inv, TypeOK, CommitsExist
    <3>3. PICK e \in log[bare].reg.versions : checkout' = e.commit
      BY <3>1, ProductionIsEntry DEF Target
    <3>4. CASE e.session = NoSession
      BY <2>1, <3>2, <3>3, <3>4 DEF ServedIsGated, Grows
    <3>5. CASE e.session # NoSession
      <4>1. Sound(log[bare].reg, probed)
        BY <3>2 DEF Inv, SoundHere, Registries
      <4>2. e.commit \in probed
        BY <3>3, <3>5, <4>1 DEF Sound
      <4> QED
        BY <2>1, <3>3, <4>2 DEF ServedIsGated
    <3> QED
      BY <3>4, <3>5
  <2> QED
    BY <2>2, <2>3
<1> QED
  BY <1>1, <1>2

\* The executor never serves a harness around the gate: what it has checked
\* out was accepted by the probe or is the image's own.
THEOREM GateServes == Spec => []ServedIsGated
BY InitInv, InvKept, InitGated, GatedKept, PTL DEF Spec

-----------------------------------------------------------------------------
(* Who may change the status of a session: its round, until it ends for    *)
(* review; then the releases and the discard that hold it.  One that is    *)
(* alone is the only one, and finds the session as it left it.             *)

Settled == {"pending_review", "published", "discarded"}

RoundsOver == \A s \in Sessions : status[s] \in Settled => round[s] = "none"

Holders ==
    /\ \A p \in Publishers :
          thr[p].pc # "idle" => thr[p].s \in Sessions /\ status[thr[p].s] \in Settled
    /\ disc.pc # "idle" => disc.s \in Sessions /\ status[disc.s] \in Settled

Loners ==
    /\ \A t \in Threads : thr[t].alone =>
          /\ thr[t].pc # "idle" /\ disc.pc = "idle"
          /\ \A u \in Threads : u # t => thr[u].pc = "idle"
    /\ disc.alone => disc.pc # "idle" /\ \A u \in Threads : thr[u].pc = "idle"

Undisturbed ==
    /\ \A p \in Publishers : thr[p].alone /\ thr[p].pc # "done" =>
          status[thr[p].s] = "pending_review"
    /\ disc.alone => status[disc.s] = "pending_review"

Owned == RoundsOver /\ Holders /\ Loners /\ Undisturbed

LEMMA ActorTypesHere ==
    ASSUME Inv
    PROVE  /\ thr \in [Threads -> ThreadSet] /\ Publishers \subseteq Threads
           /\ status \in [Sessions -> Statuses]
           /\ round \in [Sessions -> {"none", "inspect", "landing"}]
           /\ disc \in [pc : {"idle", "reset", "close"}, s : Sessions \cup {NoSession},
                        commit : Nat, alone : BOOLEAN]
           /\ Roller \in Threads /\ Roller \notin Publishers
BY NamesAssumption DEF Inv, TypeOK, Shapes, Threads

\* A session that no release or discard holds changes its status.
LEMMA SessionOwned ==
    ASSUME Inv, Owned, NEW s \in Sessions, status[s] \notin Settled,
           NEW st \in Statuses, status' = [status EXCEPT ![s] = st],
           NEW r \in {"none", "inspect", "landing"}, round' = [round EXCEPT ![s] = r],
           st \in Settled => r = "none", UNCHANGED <<thr, disc>>
    PROVE  Owned'
<1> USE ActorTypesHere
<1>1. \A x \in Sessions : x # s => status'[x] = status[x] /\ round'[x] = round[x]
  OBVIOUS
<1>2. status'[s] = st /\ round'[s] = r
  OBVIOUS
<1>3. RoundsOver'
  BY <1>1, <1>2 DEF Owned, RoundsOver
<1>4. /\ \A p \in Publishers : thr[p].pc # "idle" => thr[p].s \in Sessions /\ thr[p].s # s
      /\ disc.pc # "idle" => disc.s \in Sessions /\ disc.s # s
  BY DEF Owned, Holders
<1>5. Holders'
  BY <1>1, <1>4 DEF Owned, Holders
<1>6. Loners'
  BY DEF Owned, Loners
<1>7. Undisturbed'
  BY <1>1, <1>4 DEF Owned, Undisturbed, Loners
<1> QED
  BY <1>3, <1>5, <1>6, <1>7 DEF Owned

\* A thread moves on, or ends, without a word to its session.
LEMMA MoveOwned ==
    ASSUME Inv, Owned, NEW t \in Threads, thr[t].pc # "idle",
           \/ thr' = [thr EXCEPT ![t] = Idle]
           \/ \E x \in ThreadSet : /\ thr' = [thr EXCEPT ![t] = x]
                                  /\ x.s = thr[t].s /\ x.alone = thr[t].alone
                                  /\ x.pc \notin {"idle", "done"} /\ thr[t].pc # "done",
           UNCHANGED <<status, round, disc>>
    PROVE  Owned'
<1> USE ActorTypesHere
<1>1. \A u \in Threads : u # t => thr'[u] = thr[u]
  OBVIOUS
<1>2. \/ thr'[t].pc = "idle" /\ ~thr'[t].alone
      \/ /\ thr'[t].s = thr[t].s /\ thr'[t].alone = thr[t].alone
         /\ thr'[t].pc \notin {"idle", "done"} /\ thr[t].pc # "done"
  BY DEF Idle
<1>3. RoundsOver' /\ Holders'
  BY <1>1, <1>2 DEF Owned, RoundsOver, Holders
<1>4. Loners'
  BY <1>1, <1>2 DEF Owned, Loners
<1>5. Undisturbed'
  BY <1>1, <1>2 DEF Owned, Undisturbed
<1> QED
  BY <1>3, <1>4, <1>5 DEF Owned

LEMMA GotoMoves ==
    ASSUME Inv, NEW t \in Threads, NEW pc \in Places, Goto(t, pc)
    PROVE  \E x \in ThreadSet : /\ thr' = [thr EXCEPT ![t] = x] /\ x.pc = pc
                               /\ x.s = thr[t].s /\ x.alone = thr[t].alone
<1>1. thr[t] \in ThreadSet
  BY ActorTypesHere
<1>2. [thr[t] EXCEPT !.pc = pc] \in ThreadSet
  BY <1>1, PcType
<1>3. thr' = [thr EXCEPT ![t] = [thr[t] EXCEPT !.pc = pc]]
  BY ActorTypesHere DEF Goto
<1> QED
  BY <1>1, <1>2, <1>3 DEF ThreadSet

LEMMA GotoEffect ==
    ASSUME Inv, NEW t \in Threads, NEW pc \in Places, Goto(t, pc)
    PROVE  /\ \A u \in Threads : u # t => thr'[u] = thr[u]
           /\ thr'[t].pc = pc /\ thr'[t].s = thr[t].s /\ thr'[t].alone = thr[t].alone
<1>1. PICK x \in ThreadSet : /\ thr' = [thr EXCEPT ![t] = x] /\ x.pc = pc
                            /\ x.s = thr[t].s /\ x.alone = thr[t].alone
  BY GotoMoves
<1> QED
  BY <1>1, ActorTypesHere

LEMMA GotoOwned ==
    ASSUME Inv, Owned, NEW t \in Threads, thr[t].pc \notin {"idle", "done"},
           Finish(t) \/ \E pc \in Places \ {"idle", "done"} : Goto(t, pc),
           UNCHANGED <<status, round, disc>>
    PROVE  Owned'
<1>1. CASE Finish(t)
  BY <1>1, MoveOwned DEF Finish
<1>2. ASSUME NEW pc \in Places \ {"idle", "done"}, Goto(t, pc) PROVE Owned'
  <2>1. PICK x \in ThreadSet : /\ thr' = [thr EXCEPT ![t] = x] /\ x.pc = pc
                              /\ x.s = thr[t].s /\ x.alone = thr[t].alone
    BY <1>2, GotoMoves
  <2> QED
    BY <2>1, MoveOwned
<1> QED
  BY <1>1, <1>2

\* A release or a rollback begins: nothing that is under way is alone now.
LEMMA BeginOwned ==
    ASSUME Inv, Owned, NEW t \in Threads, thr[t].pc = "idle", NEW rec \in ThreadSet,
           Begin(t, rec), rec.pc \notin {"idle", "done"},
           t \in Publishers => rec.s \in Sessions /\ status[rec.s] = "pending_review",
           UNCHANGED <<status, round>>
    PROVE  Owned'
<1> USE ActorTypesHere
<1> DEFINE flag == Quiet /\ HasProduction(reg)
<1>1. thr'[t] = [rec EXCEPT !.alone = flag]
  BY MetTypes DEF Begin, ThreadTypes
<1>2. /\ thr'[t].pc = rec.pc /\ thr'[t].s = rec.s
      /\ thr'[t].alone => Quiet
  BY <1>1 DEF ThreadSet
<1>3. \A u \in Threads : u # t => /\ thr'[u].pc = thr[u].pc /\ thr'[u].s = thr[u].s
                                 /\ ~thr'[u].alone
  BY MetTypes DEF Begin, Met, ThreadTypes, ThreadSet
<1>4. disc'.pc = disc.pc /\ disc'.s = disc.s /\ ~disc'.alone
  BY DEF Begin
<1>5. RoundsOver' /\ Holders'
  BY <1>2, <1>3, <1>4 DEF Owned, RoundsOver, Holders, Settled
<1>6. Loners'
  BY <1>2, <1>3, <1>4 DEF Owned, Loners, Quiet
<1>7. Undisturbed'
  BY <1>2, <1>3, <1>4 DEF Owned, Undisturbed
<1> QED
  BY <1>5, <1>6, <1>7 DEF Owned

LEMMA SessionStepsOwned ==
    ASSUME Inv, Owned, NEW s \in Sessions,
           Start(s) \/ InspectEnds(s) \/ Finalize(s) \/ LandingEnds(s) \/ Stop(s)
    PROVE  Owned'
<1> USE ActorTypesHere DEF SessionStep, Settled, Statuses
<1>1. status[s] \in Settled => round[s] = "none"
  BY DEF Owned, RoundsOver
<1>2. CASE Start(s) \/ Finalize(s)
  BY <1>2, SessionOwned DEF Start, Finalize
<1>3. CASE InspectEnds(s) \/ LandingEnds(s)
  BY <1>1, <1>3, SessionOwned DEF InspectEnds, LandingEnds
<1>4. CASE Stop(s)
  <2>1. /\ status[s] \notin Settled /\ status' = [status EXCEPT ![s] = "cancelling"]
        /\ round' = [round EXCEPT ![s] = round[s]] /\ UNCHANGED <<thr, disc>>
    BY <1>4 DEF Stop, Stoppable
  <2>2. round[s] \in {"none", "inspect", "landing"}
    OBVIOUS
  <2> QED
    BY <2>1, <2>2, SessionOwned
<1> QED
  BY <1>2, <1>3, <1>4

LEMMA DiscardOwned ==
    ASSUME Inv, Owned, (\E s \in Sessions : Discard(s)) \/ Reset \/ CloseDiscarded
    PROVE  Owned'
<1> USE ActorTypesHere DEF Settled
<1>1. ASSUME NEW s \in Sessions, Discard(s) PROVE Owned'
  <2>1. /\ \A t \in Threads : /\ thr'[t].pc = thr[t].pc /\ thr'[t].s = thr[t].s
                               /\ ~thr'[t].alone
        /\ UNCHANGED <<status, round>>
    BY <1>1 DEF Discard, Met, sessionVars, ThreadSet
  <2>2. /\ disc'.pc = "reset" /\ disc'.s = s /\ status[s] = "pending_review"
        /\ disc'.alone => \A t \in Threads : thr[t].pc = "idle"
    BY <1>1 DEF Discard, Quiet
  <2> QED
    BY <2>1, <2>2 DEF Owned, RoundsOver, Holders, Loners, Undisturbed
<1>2. CASE Reset
  <2>1. /\ UNCHANGED <<status, round, thr>> /\ disc.pc = "reset"
        /\ disc'.pc = "close" /\ disc'.s = disc.s /\ disc'.alone = disc.alone
    BY <1>2 DEF Reset, sessionVars
  <2> QED
    BY <2>1 DEF Owned, RoundsOver, Holders, Loners, Undisturbed
<1>3. CASE CloseDiscarded
  <2>1. /\ UNCHANGED <<round, thr>> /\ disc.pc = "close"
        /\ status' = [status EXCEPT ![disc.s] = "discarded"]
        /\ disc'.pc = "idle" /\ ~disc'.alone
    BY <1>3 DEF CloseDiscarded, NoDiscard
  <2>2. disc.s \in Sessions /\ status[disc.s] \in Settled
    BY <2>1 DEF Owned, Holders
  <2>3. \A t \in Threads : ~thr[t].alone
    BY <2>1 DEF Owned, Loners
  <2>4. \A s \in Sessions : /\ status'[s] \in Settled => status[s] \in Settled
                           /\ status[s] \in Settled => status'[s] \in Settled
    BY <2>1, <2>2
  <2> QED
    BY <2>1, <2>3, <2>4 DEF Owned, RoundsOver, Holders, Loners, Undisturbed
<1> QED
  BY <1>1, <1>2, <1>3

LEMMA PublishOwned ==
    ASSUME Inv, Owned, Inv', NEW p \in Publishers, NEW s \in Sessions, Publish(p, s)
    PROVE  Owned'
<1> USE ActorTypesHere
<1>0. /\ p \in Threads /\ thr[p].pc = "idle" /\ status[s] = "pending_review"
      /\ round[s] = "none" /\ UNCHANGED round
  BY DEF Publish
<1>1. CASE /\ Begin(p, [Idle EXCEPT !.pc = "freeze", !.s = s, !.ver = NextVersion(reg)])
           /\ UNCHANGED status
  <2> DEFINE rec == [Idle EXCEPT !.pc = "freeze", !.s = s, !.ver = NextVersion(reg)]
  <2>1. rec \in ThreadSet /\ rec.pc = "freeze" /\ rec.s = s
    <3>1. NextVersion(reg) \in Nat
      BY LogType, NextVersionType DEF Inv, SoundHere, Registries, Sound
    <3> QED
      BY <3>1, IdleType DEF ThreadSet, Places
  <2> HIDE DEF rec
  <2>2. Begin(p, rec) /\ UNCHANGED status
    BY <1>1 DEF rec
  <2> QED
    BY <1>0, <2>1, <2>2, BeginOwned
<1>2. CASE /\ Mine(s) # {} /\ UNCHANGED status
           /\ Begin(p, [Idle EXCEPT !.pc = "probe again", !.s = s, !.ver = Newest(s).version,
                                    !.commit = Newest(s).commit])
  <2> DEFINE rec == [Idle EXCEPT !.pc = "probe again", !.s = s, !.ver = Newest(s).version,
                                !.commit = Newest(s).commit]
  <2>1. rec \in ThreadSet /\ rec.pc = "probe again" /\ rec.s = s
    <3>1. Newest(s) \in EntrySet
      BY <1>2, NewestType DEF Inv
    <3> QED
      BY <3>1, IdleType DEF ThreadSet, Places, EntrySet
  <2> HIDE DEF rec
  <2>2. Begin(p, rec) /\ UNCHANGED status
    BY <1>2 DEF rec
  <2> QED
    BY <1>0, <2>1, <2>2, BeginOwned
<1>3. CASE /\ status' = [status EXCEPT ![s] = "published"]
           /\ thr' = Met /\ disc' = [disc EXCEPT !.alone = FALSE]
  <2>1. \A t \in Threads : thr'[t].pc = thr[t].pc /\ thr'[t].s = thr[t].s /\ ~thr'[t].alone
    BY <1>3 DEF Met, ThreadSet
  <2>2. disc'.pc = disc.pc /\ disc'.s = disc.s /\ ~disc'.alone
    BY <1>3
  <2>3. \A x \in Sessions : status'[x] \in Settled <=> status[x] \in Settled
    BY <1>0, <1>3 DEF Settled
  <2> QED
    BY <1>0, <2>1, <2>2, <2>3 DEF Owned, RoundsOver, Holders, Loners, Undisturbed
<1> QED
  BY <1>1, <1>2, <1>3 DEF Publish

\* A reload is confirmed or not: the one release that is alone closes, or
\* keeps open, the session it holds.
LEMMA OutcomeOwned ==
    ASSUME Inv, Owned, NEW t \in Threads,
           thr[t].pc \in {"activate", "activating", "reactivate", "reactivating"},
           \/ Confirmed(t) /\ thr[t].pc \in {"activating", "reactivating"}
           \/ Unconfirmed(t),
           UNCHANGED <<round, disc>>
    PROVE  Owned'
<1> USE ActorTypesHere
<1>0. {"undone", "restore", "done"} \subseteq Places
  BY DEF Places
<1>1. CASE UNCHANGED status /\ (t \in Publishers => ~Goto(t, "done"))
  <2>1. CASE Goto(t, "undone") \/ Goto(t, "restore")
    BY <1>0, <1>1, <2>1, GotoOwned
  <2>2. CASE Finish(t)
    BY <1>1, <2>2, GotoOwned
  <2>3. CASE t = Roller /\ Goto(t, "done")
    <3>1. /\ \A u \in Threads : u # t => thr'[u] = thr[u]
          /\ thr'[t].pc = "done" /\ thr'[t].s = thr[t].s /\ thr'[t].alone = thr[t].alone
      BY <1>0, <2>3, GotoEffect
    <3> QED
      BY <1>1, <2>3, <3>1 DEF Owned, RoundsOver, Holders, Loners, Undisturbed
  <2> QED
    BY <1>1, <2>1, <2>2, <2>3 DEF Confirmed, Unconfirmed, Threads
<1>2. CASE /\ t \in Publishers /\ Goto(t, "done")
           /\ status' = [status EXCEPT ![thr[t].s] = "published"]
  <2>1. /\ \A u \in Threads : u # t => thr'[u] = thr[u]
        /\ thr'[t].pc = "done" /\ thr'[t].s = thr[t].s /\ thr'[t].alone = thr[t].alone
    BY <1>0, <1>2, GotoEffect
  <2>2. thr[t].s \in Sessions /\ status[thr[t].s] \in Settled
    BY <1>2 DEF Owned, Holders
  <2>3. \A x \in Sessions : status'[x] \in Settled <=> status[x] \in Settled
    BY <1>2, <2>2 DEF Settled
  <2>4. (\A u \in Threads : u # t => ~thr[u].alone) /\ ~disc.alone
    BY DEF Owned, Loners
  <2> QED
    BY <1>2, <2>1, <2>3, <2>4 DEF Owned, RoundsOver, Holders, Loners, Undisturbed
<1>3. CASE /\ t \in Publishers /\ Goto(t, "restore")
           /\ status' = [status EXCEPT ![thr[t].s] = "pending_review"]
  <2>1. /\ \A u \in Threads : u # t => thr'[u] = thr[u]
        /\ thr'[t].pc = "restore" /\ thr'[t].s = thr[t].s /\ thr'[t].alone = thr[t].alone
    BY <1>0, <1>3, GotoEffect
  <2>2. thr[t].s \in Sessions /\ status[thr[t].s] \in Settled
    BY <1>3 DEF Owned, Holders
  <2>3. \A x \in Sessions : status'[x] \in Settled <=> status[x] \in Settled
    BY <1>3, <2>2 DEF Settled
  <2>4. (\A u \in Threads : u # t => ~thr[u].alone) /\ ~disc.alone
    BY DEF Owned, Loners
  <2>5. status'[thr[t].s] = "pending_review"
    BY <1>3, <2>2
  <2> QED
    BY <1>3, <2>1, <2>3, <2>4, <2>5 DEF Owned, RoundsOver, Holders, Loners, Undisturbed
<1> QED
  <2>1. CASE t = Roller
    BY <1>1, <2>1 DEF Confirmed, Unconfirmed
  <2>2. CASE t \in Publishers
    <3>1. t # Roller
      BY <2>2
    <3>2. CASE Confirmed(t) /\ thr[t].pc = "reactivating"
      <4>1. Goto(t, "undone") /\ UNCHANGED status
        BY <3>2 DEF Confirmed
      <4> QED
        BY <1>0, <4>1, GotoOwned
    <3>3. CASE Confirmed(t) /\ thr[t].pc = "activating"
      BY <1>2, <2>2, <3>1, <3>3 DEF Confirmed
    <3>4. CASE Unconfirmed(t) /\ thr[t].pc \in {"reactivate", "reactivating"}
      <4>1. Finish(t) /\ UNCHANGED status
        BY <3>4 DEF Unconfirmed
      <4> QED
        BY <4>1, GotoOwned
    <3>5. CASE Unconfirmed(t) /\ thr[t].pc \in {"activate", "activating"}
      BY <1>3, <2>2, <3>1, <3>5 DEF Unconfirmed
    <3> QED
      BY <3>2, <3>3, <3>4, <3>5
  <2> QED
    BY <2>1, <2>2 DEF Threads

\* The steps of a thread between its request and the answer to it.
LEMMA MoverOwned ==
    ASSUME Inv, Owned, NEW t \in Threads,
           \/ t \in Publishers /\ (Freeze(t) \/ Probe(t) \/ Promote(t))
           \/ Restore(t) \/ SaveRegistry(t) \/ Return(t)
    PROVE  Owned'
<1> USE ActorTypesHere
<1>0. thr[t] \in ThreadSet
  OBVIOUS
<1>1. CASE t \in Publishers /\ Freeze(t)
  <2>1. thr[t].pc = "freeze" /\ UNCHANGED <<status, round, disc>>
    BY <1>1 DEF Freeze, sessionVars
  <2>2. CASE Finish(t)
    BY <2>1, <2>2, GotoOwned
  <2>3. CASE thr' = [thr EXCEPT ![t].pc = "probe", ![t].commit = head']
    <3> DEFINE x == [thr[t] EXCEPT !.pc = "probe", !.commit = head']
    <3>1. head' \in Nat
      <4>1. TypeOK /\ TreeStep
        BY <1>1, FreezeTree DEF Inv
      <4> QED
        BY <4>1, CommitNat
    <3>2. x \in ThreadSet /\ x.s = thr[t].s /\ x.alone = thr[t].alone /\ x.pc = "probe"
      BY <1>0, <3>1 DEF ThreadSet, Places
    <3>3. thr' = [thr EXCEPT ![t] = x]
      BY <2>3
    <3> HIDE DEF x
    <3> QED
      BY <2>1, <3>2, <3>3, MoveOwned
  <2> QED
    BY <1>1, <2>2, <2>3 DEF Freeze
<1>2. CASE Probe(t)
  <2>1. /\ thr[t].pc \in {"probe", "probe again"} /\ UNCHANGED <<status, round, disc>>
        /\ Finish(t) \/ Goto(t, "promote") \/ Goto(t, "registered")
    BY <1>2 DEF Probe, sessionVars
  <2> QED
    BY <2>1, GotoOwned DEF Places
<1>3. CASE Promote(t)
  <2>1. thr[t].pc = "promote" /\ UNCHANGED <<status, round, disc>>
    BY <1>3 DEF Promote, sessionVars
  <2>2. CASE Finish(t)
    BY <2>1, <2>2, GotoOwned
  <2>3. CASE thr' = [thr EXCEPT ![t].prev = reg.prod, ![t].pc = "promoted"]
    <3> DEFINE x == [thr[t] EXCEPT !.prev = reg.prod, !.pc = "promoted"]
    <3>1. reg.prod \in Nat
      BY DEF Inv, TypeOK, Shapes, RegistrySet
    <3>2. x \in ThreadSet /\ x.s = thr[t].s /\ x.alone = thr[t].alone /\ x.pc = "promoted"
      BY <1>0, <3>1 DEF ThreadSet, Places
    <3>3. thr' = [thr EXCEPT ![t] = x]
      BY <2>3
    <3> HIDE DEF x
    <3> QED
      BY <2>1, <3>2, <3>3, MoveOwned
  <2> QED
    BY <1>3, <2>2, <2>3 DEF Promote
<1>4. CASE Restore(t)
  <2>1. /\ thr[t].pc \in {"recall", "restore"} /\ UNCHANGED <<status, round, disc>>
        /\ Goto(t, "recalled") \/ Goto(t, "restored")
    BY <1>4 DEF Restore, sessionVars
  <2> QED
    BY <2>1, GotoOwned DEF Places
<1>5. CASE SaveRegistry(t)
  <2>1. /\ thr[t].pc \in {"registered", "promoted", "recalled", "restored"}
        /\ UNCHANGED <<status, round, disc>>
        /\ GotoOrFail(t, Pushed(t)) \/ GotoOrFail(t, NotPushed(t))
    BY <1>5 DEF SaveRegistry, sessionVars
  <2>2. /\ Pushed(t) \in (Places \ {"idle", "done"}) \cup {"failed"}
        /\ NotPushed(t) \in (Places \ {"idle", "done"}) \cup {"failed"}
    BY <2>1 DEF Pushed, NotPushed, Places
  <2> QED
    BY <2>1, <2>2, GotoOwned DEF GotoOrFail
<1>6. CASE Return(t)
  BY <1>6, MoveOwned DEF Return, ThreadOnly, sessionVars, Finish
<1> QED
  BY <1>1, <1>2, <1>3, <1>4, <1>5, <1>6

\* A thread asks for a reload, hears of it or waits no longer.
LEMMA ReloadOwned ==
    ASSUME Inv, Owned, NEW t \in Threads, Ask(t) \/ Hear(t) \/ GiveUp(t)
    PROVE  Owned'
<1>1. CASE Ask(t)
  <2>1. PICK k \in Reload :
           /\ thr[t].pc = k /\ UNCHANGED <<round, disc>>
           /\ \/ /\ Goto(t, IF k = "activate" THEN "activating" ELSE "reactivating")
                 /\ UNCHANGED status
              \/ Unconfirmed(t)
    BY <1>1 DEF Ask
  <2>2. thr[t].pc \in {"activate", "reactivate"}
    BY <2>1 DEF Reload
  <2>3. CASE Unconfirmed(t)
    BY <2>1, <2>2, <2>3, OutcomeOwned
  <2>4. CASE /\ UNCHANGED status
             /\ Goto(t, IF k = "activate" THEN "activating" ELSE "reactivating")
    BY <2>1, <2>2, <2>4, GotoOwned DEF Places
  <2> QED
    BY <2>1, <2>3, <2>4
<1>2. CASE Hear(t)
  BY <1>2, OutcomeOwned DEF Hear
<1>3. CASE GiveUp(t)
  BY <1>3, OutcomeOwned DEF GiveUp
<1> QED
  BY <1>1, <1>2, <1>3

LEMMA RollbackOwned ==
    ASSUME Inv, Owned, NEW e \in reg.versions, Rollback(e.version)
    PROVE  Owned'
<1> USE ActorTypesHere
<1> DEFINE rec == [Idle EXCEPT !.pc = "promoted", !.ver = e.version, !.prev = reg.prod,
                               !.commit = CommitOf(reg, e.version),
                               !.base = ProductionCommit(reg)]
<1>1. rec \in ThreadSet /\ rec.pc = "promoted"
  <2>1. /\ reg.prod \in Nat /\ e.version \in Nat
        /\ CommitOf(reg, e.version) \in Nat /\ ProductionCommit(reg) \in Nat
    BY RollbackTree, LogType, CommitNat DEF Inv, RegistrySet, EntrySet, Entries
  <2> QED
    BY <2>1, IdleType DEF ThreadSet, Places
<1>2. Begin(Roller, rec) /\ thr[Roller].pc = "idle" /\ UNCHANGED <<status, round>>
  BY DEF Rollback, sessionVars
<1> HIDE DEF rec
<1> QED
  BY <1>1, <1>2, BeginOwned

LEMMA OwnedKept == Inv /\ Owned /\ Inv' /\ [Next]_vars => Owned'
<1> SUFFICES ASSUME Inv, Owned, Inv', [Next]_vars PROVE Owned'
  OBVIOUS
<1>1. ASSUME UNCHANGED <<status, round, thr, disc>> PROVE Owned'
  BY <1>1 DEF Owned, RoundsOver, Holders, Loners, Undisturbed
<1>2. CASE SessionNext
  <2>1. ASSUME NEW s \in Sessions, Edit(s) PROVE Owned'
    BY <1>1, <2>1 DEF Edit, sessionVars
  <2> QED
    BY <1>2, <2>1, SessionStepsOwned, DiscardOwned DEF SessionNext
<1>3. CASE Reset \/ CloseDiscarded
  BY <1>3, DiscardOwned
<1>4. ASSUME NEW p \in Publishers, PublishNext(p) PROVE Owned'
  <2>1. p \in Threads
    BY DEF Threads
  <2> QED
    BY <1>4, <2>1, PublishOwned, MoverOwned DEF PublishNext
<1>5. ASSUME NEW t \in Threads, ThreadNext(t) PROVE Owned'
  BY <1>5, MoverOwned, ReloadOwned DEF ThreadNext
<1>6. ASSUME NEW e \in reg.versions, Rollback(e.version) PROVE Owned'
  BY <1>6, RollbackOwned
<1>7. CASE ExecNext
  BY <1>1, <1>7 DEF ExecNext, Reconcile, ServeReload, sessionVars
<1>8. CASE Restart
  <2>1. /\ \A t \in Threads : thr'[t].pc = "idle" /\ ~thr'[t].alone
        /\ disc'.pc = "idle" /\ ~disc'.alone /\ UNCHANGED status
        /\ \A s \in Sessions : round'[s] = "none"
    BY <1>8 DEF Restart, Idle, NoDiscard
  <2> QED
    BY <2>1, ActorTypesHere DEF Owned, RoundsOver, Holders, Loners, Undisturbed
<1>9. CASE UNCHANGED vars
  BY <1>1, <1>9 DEF vars
<1> QED
  BY <1>2, <1>3, <1>4, <1>5, <1>6, <1>7, <1>8, <1>9 DEF Next

LEMMA InitOwned == Init => Owned
<1> SUFFICES ASSUME Init PROVE Owned
  OBVIOUS
<1>1. /\ \A t \in Threads : thr[t].pc = "idle" /\ ~thr[t].alone
      /\ disc.pc = "idle" /\ ~disc.alone /\ \A s \in Sessions : round[s] = "none"
  BY DEF Init, Idle, NoDiscard
<1>2. Publishers \subseteq Threads
  BY DEF Threads
<1> QED
  BY <1>1, <1>2 DEF Owned, RoundsOver, Holders, Loners, Undisturbed

Excused(s) ==
    \/ \E p \in Publishers : thr[p].s = s /\ ~thr[p].alone
    \/ disc.s = s /\ ~disc.alone

\* What a step says of a closed session.
LEMMA ClosedStep ==
    ASSUME Inv, Owned, Next, NEW x \in Sessions, status[x] \in Closed, status'[x] # status[x]
    PROVE  Excused(x)
<1> USE ActorTypesHere
<1>0. status[x] \in Settled /\ round[x] = "none" /\ status[x] # "pending_review"
  BY DEF Closed, Settled, Owned, RoundsOver
<1>1. ASSUME NEW s \in Sessions, s # x => status'[x] = status[x] PROVE s = x
  BY <1>1
<1>2. CASE SessionNext
  <2>1. PICK s \in Sessions : Start(s) \/ InspectEnds(s) \/ Finalize(s) \/ Edit(s)
                              \/ LandingEnds(s) \/ Stop(s) \/ Discard(s)
    BY <1>2 DEF SessionNext
  <2>2. CASE Start(s) \/ Finalize(s) \/ InspectEnds(s) \/ LandingEnds(s)
    BY <1>0, <2>2 DEF Start, Finalize, InspectEnds, LandingEnds, SessionStep, Closed
  <2>3. CASE Stop(s)
    BY <1>0, <2>3 DEF Stop, Stoppable, Closed
  <2>4. CASE Edit(s) \/ Discard(s)
    BY <2>4 DEF Edit, Discard, sessionVars
  <2> QED
    BY <2>1, <2>2, <2>3, <2>4
<1>3. CASE Reset
  BY <1>3 DEF Reset, sessionVars
<1>4. CASE CloseDiscarded
  <2>1. disc.pc # "idle" /\ status' = [status EXCEPT ![disc.s] = "discarded"]
    BY <1>4 DEF CloseDiscarded
  <2>2. disc.s = x
    BY <2>1
  <2> QED
    BY <1>0, <2>2 DEF Excused, Owned, Undisturbed
<1>5. ASSUME NEW p \in Publishers, PublishNext(p) PROVE Excused(x)
  <2>1. CASE Freeze(p) \/ Probe(p) \/ Promote(p)
    BY <2>1 DEF Freeze, Probe, Promote, sessionVars
  <2>2. ASSUME NEW s \in Sessions, Publish(p, s) PROVE Excused(x)
    BY <1>0, <2>2 DEF Publish
  <2> QED
    BY <1>5, <2>1, <2>2 DEF PublishNext
<1>6. ASSUME NEW t \in Threads, ThreadNext(t) PROVE Excused(x)
  <2>1. CASE Restore(t) \/ SaveRegistry(t) \/ Return(t)
    BY <2>1 DEF Restore, SaveRegistry, Return, ThreadOnly, sessionVars
  <2>2. CASE Ask(t) \/ Hear(t) \/ GiveUp(t)
    <3>1. /\ thr[t].pc \in {"activate", "activating", "reactivate", "reactivating"}
          /\ Confirmed(t) \/ Unconfirmed(t)
      BY <2>2 DEF Ask, Hear, GiveUp, Reload
    <3>2. /\ t # Roller
          /\ \E st \in Statuses : status' = [status EXCEPT ![thr[t].s] = st]
      BY <3>1 DEF Confirmed, Unconfirmed, Statuses
    <3>3. t \in Publishers /\ thr[t].s = x
      BY <3>2 DEF Threads
    <3> QED
      BY <1>0, <3>1, <3>3 DEF Excused, Owned, Undisturbed
  <2> QED
    BY <1>6, <2>1, <2>2 DEF ThreadNext
<1>7. ASSUME NEW e \in reg.versions, Rollback(e.version) PROVE Excused(x)
  BY <1>7 DEF Rollback, sessionVars
<1>8. CASE ExecNext
  BY <1>8 DEF ExecNext, Reconcile, ServeReload, sessionVars
<1>9. CASE Restart
  BY <1>9 DEF Restart
<1> QED
  BY <1>2, <1>3, <1>4, <1>5, <1>6, <1>7, <1>8, <1>9 DEF Next

\* ClosedStays, for any number of sessions, publishers, requests and upsets:
\* a round, a stop, a rollback or a restart never reopens a closed session.
THEOREM ClosedSessionsStay == Spec => ClosedStays
<1>1. Init => Inv /\ Owned
  BY InitInv, InitOwned
<1>2. Inv /\ Owned /\ [Next]_vars => (Inv /\ Owned)'
  BY InvKept, OwnedKept
<1>3. Inv /\ Owned /\ [Next]_vars =>
        [\A s \in Sessions : status[s] \in Closed /\ status'[s] # status[s] =>
            \/ \E p \in Publishers : thr[p].s = s /\ ~thr[p].alone
            \/ disc.s = s /\ ~disc.alone]_vars
  <2> SUFFICES ASSUME Inv, Owned, Next,
                      NEW s \in Sessions, status[s] \in Closed, status'[s] # status[s]
               PROVE  Excused(s)
    BY DEF Excused
  <2> QED
    BY ClosedStep
<1> QED
  BY <1>1, <1>2, <1>3, PTL DEF Spec, ClosedStays
=============================================================================
