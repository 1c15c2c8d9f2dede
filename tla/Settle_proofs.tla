---------------------------- MODULE Settle_proofs ----------------------------
(***************************************************************************)
(* Proof of ReleaseSettles: a release or a rollback that met no other ends *)
(* all or nothing.  The invariant follows the one thread that is alone     *)
(* from place to place: what the registry holds for it (Stage), whether    *)
(* the bare repository says the same, what the executor has answered.      *)
(***************************************************************************)
EXTENDS Release_proofs

Forward == {"promoted", "recall", "activate", "activating", "restore", "done"}
Back == {"recalled", "restored", "withdrawn", "reactivate", "reactivating", "undone"}
Saved == {"activate", "activating", "done", "withdrawn", "reactivate", "reactivating", "undone"}

Holds(r, v, c, m) == \E e \in r.versions : e.version = v /\ e.commit = c /\ e.mark = m
HoldsMark(r, v, m) == \E e \in r.versions : e.version = v /\ e.mark = m

\* Before the production pointer moves, while it has moved, after it moved
\* back: registry r for the thread's version v, commit c and old version u.
Ready(r, v, c) ==
    /\ HasProduction(r) /\ v # r.prod
    /\ \E e \in r.versions : e.version = v /\ e.commit = c
Turned(r, v, c, u) ==
    /\ r.prod = v /\ u # v /\ Holds(r, v, c, "production") /\ Entries(r, u) # {}
Returned(r, v, u, m) ==
    /\ r.prod = u /\ u # v /\ HoldsMark(r, u, "production") /\ HoldsMark(r, v, m)

TakenBack(t) == IF t = Roller THEN "retired" ELSE "candidate"

Stage(t, x, r) ==
    /\ x.pc \in {"freeze", "probe"} => HasProduction(r)
    /\ x.pc \in {"probe again", "registered", "promote"} => Ready(r, x.ver, x.commit)
    /\ x.pc \in Forward => Turned(r, x.ver, x.commit, x.prev)
    /\ x.pc \in Back => Returned(r, x.ver, x.prev, TakenBack(t))

Heard(t) ==
    thr[t].pc \in {"activating", "reactivating"} /\ load[Asked(t)].st = "answered" =>
        load[Asked(t)].c = Target /\ checkout = Target

Follows(t) ==
    /\ Stage(t, thr[t], reg)
    /\ thr[t].pc \in Saved => log[bare].reg = reg
    /\ Heard(t)
    /\ thr[t].pc \in {"done", "undone"} => checkout = Target
    /\ thr[t].pc = "done" /\ t \in Publishers => status[thr[t].s] = "published"

Followed == \A t \in Threads : thr[t].alone => Follows(t)

All == Inv /\ Owned /\ Followed

-----------------------------------------------------------------------------
(* The registry                                                            *)

\* Marks are written, the rest of an entry stays.
LEMMA MarkedEntry ==
    ASSUME NEW r \in RegistrySet, NEW D, NEW mark \in [D -> Marks], NEW e \in r.versions
    PROVE  \E f \in Marked(r, mark) :
              /\ f.version = e.version /\ f.commit = e.commit
              /\ e.version \in D => f.mark = mark[e.version]
<1> DEFINE f == IF e.version \in D THEN [e EXCEPT !.mark = mark[e.version]] ELSE e
<1>1. f \in Marked(r, mark)
  BY DEF Marked
<1>2. f.version = e.version /\ f.commit = e.commit
  BY DEF RegistrySet, EntrySet
<1>3. e.version \in D => f.mark = mark[e.version]
  BY DEF RegistrySet, EntrySet
<1> HIDE DEF f
<1> QED
  BY <1>1, <1>2, <1>3

LEMMA PromotedTurns ==
    ASSUME NEW r \in RegistrySet, NEW v \in Nat, NEW c, Ready(r, v, c)
    PROVE  Turned(Promoted(r, v), v, c, r.prod)
<1> DEFINE mark == [x \in {r.prod, v} |-> IF x = v THEN "production" ELSE "retired"]
<1>1. /\ mark \in [{r.prod, v} -> Marks] /\ mark[v] = "production"
      /\ Promoted(r, v).prod = v /\ Promoted(r, v).versions = Marked(r, mark)
  BY DEF Marks, Promoted
<1> HIDE DEF mark
<1>2. PICK e \in r.versions : e.version = v /\ e.commit = c
  BY DEF Ready
<1>3. PICK g \in r.versions : g.version = r.prod
  BY DEF Ready, HasProduction, Entries
<1>4. Holds(Promoted(r, v), v, c, "production")
  BY <1>1, <1>2, MarkedEntry DEF Holds
<1>5. Entries(Promoted(r, v), r.prod) # {}
  BY <1>1, <1>3, MarkedEntry DEF Entries
<1> QED
  BY <1>1, <1>4, <1>5 DEF Turned, Ready

LEMMA RolledBackTurns ==
    ASSUME NEW r \in RegistrySet, NEW v \in Nat, NEW c, Ready(r, v, c)
    PROVE  Turned(RolledBack(r, v), v, c, r.prod)
<1> DEFINE mark == [x \in {r.prod, v} |-> IF x = r.prod THEN "retired" ELSE "production"]
<1>1. /\ mark \in [{r.prod, v} -> Marks] /\ mark[v] = "production"
      /\ RolledBack(r, v).prod = v /\ RolledBack(r, v).versions = Marked(r, mark)
  BY DEF Marks, RolledBack, Ready
<1> HIDE DEF mark
<1>2. PICK e \in r.versions : e.version = v /\ e.commit = c
  BY DEF Ready
<1>3. PICK g \in r.versions : g.version = r.prod
  BY DEF Ready, HasProduction, Entries
<1>4. Holds(RolledBack(r, v), v, c, "production")
  BY <1>1, <1>2, MarkedEntry DEF Holds
<1>5. Entries(RolledBack(r, v), r.prod) # {}
  BY <1>1, <1>3, MarkedEntry DEF Entries
<1> QED
  BY <1>1, <1>4, <1>5 DEF Turned, Ready

LEMMA RestoredReturns ==
    ASSUME NEW r \in RegistrySet, NEW v \in Nat, NEW c, NEW u \in Nat, Turned(r, v, c, u)
    PROVE  /\ Returned(Restored(r, u, v), v, u, "candidate")
           /\ Returned(RollbackUndone(r, u, v), v, u, "retired")
<1>1. PICK e \in r.versions : e.version = v
  BY DEF Turned, Holds
<1>2. PICK g \in r.versions : g.version = u
  BY DEF Turned, Entries
<1>3. ASSUME NEW m \in Marks, NEW mark, mark = [x \in {u, v} |-> IF x = v THEN m ELSE "production"]
      PROVE  Returned([prod |-> u, versions |-> Marked(r, mark)], v, u, m)
  <2>1. mark \in [{u, v} -> Marks] /\ mark[v] = m /\ mark[u] = "production"
    BY <1>3 DEF Marks, Turned
  <2> DEFINE q == [prod |-> u, versions |-> Marked(r, mark)]
  <2>2. HoldsMark(q, v, m) /\ HoldsMark(q, u, "production")
    BY <1>1, <1>2, <2>1, MarkedEntry DEF HoldsMark
  <2> QED
    BY <2>2 DEF Returned, Turned
<1>4. "candidate" \in Marks /\ "retired" \in Marks
  BY DEF Marks
<1> QED
  BY <1>3, <1>4 DEF Restored, RollbackUndone

LEMMA CandidateReady ==
    ASSUME NEW r \in RegistrySet, NEW v, NEW c, NEW s, HasProduction(r), Registrable(r, v, s)
    PROVE  Ready(WithCandidate(r, v, c, s), v, c)
<1>1. /\ WithCandidate(r, v, c, s).prod = r.prod
      /\ WithCandidate(r, v, c, s).versions = r.versions \cup
            {[version |-> v, commit |-> c, session |-> s, mark |-> "candidate"]}
  BY DEF WithCandidate, RegistrySet
<1>2. PICK g \in r.versions : g.version = r.prod
  BY DEF HasProduction, Entries
<1>3. v # r.prod
  BY <1>2 DEF Registrable, Entries
<1> DEFINE q == WithCandidate(r, v, c, s)
           n == [version |-> v, commit |-> c, session |-> s, mark |-> "candidate"]
<1>4. g \in q.versions /\ n \in q.versions /\ n.version = v /\ n.commit = c
  BY <1>1
<1> HIDE DEF q, n
<1>5. HasProduction(q)
  BY <1>1, <1>2, <1>4 DEF HasProduction, Entries, q
<1>6. Ready(q, v, c)
  BY <1>1, <1>3, <1>4, <1>5 DEF Ready, q
<1> QED
  BY <1>6 DEF q

\* In a sound registry a version has one entry.
LEMMA OneEntry ==
    ASSUME NEW r, NEW P, Sound(r, P), NEW v, NEW c, NEW m
    PROVE  /\ Holds(r, v, c, m) => CommitOf(r, v) = c /\ Entries(r, v) # {}
           /\ HoldsMark(r, v, m) => {e.mark : e \in Entries(r, v)} = {m}
<1>1. ASSUME NEW e \in r.versions, e.version = v PROVE Entries(r, v) = {e}
  BY <1>1 DEF Sound, Entries
<1>2. ASSUME Holds(r, v, c, m) PROVE CommitOf(r, v) = c /\ Entries(r, v) # {}
  <2>1. PICK e \in r.versions : e.version = v /\ e.commit = c
    BY <1>2 DEF Holds
  <2>2. Entries(r, v) = {e}
    BY <1>1, <2>1
  <2> QED
    BY <2>1, <2>2 DEF CommitOf
<1>3. ASSUME HoldsMark(r, v, m) PROVE {e.mark : e \in Entries(r, v)} = {m}
  <2>1. PICK e \in r.versions : e.version = v /\ e.mark = m
    BY <1>3 DEF HoldsMark
  <2>2. Entries(r, v) = {e}
    BY <1>1, <2>1
  <2> QED
    BY <2>1, <2>2
<1> QED
  BY <1>2, <1>3

\* What the invariant says of a release that has ended.
LEMMA FollowedSettles == All => ReleaseSettles
<1> SUFFICES ASSUME All, NEW t \in Threads, thr[t].alone, NEW v, v = thr[t].ver,
                    NEW u, u = thr[t].prev
             PROVE  /\ thr[t].pc = "done" =>
                          /\ reg.prod = v /\ log[bare].reg = reg
                          /\ Target = thr[t].commit /\ checkout = Target
                          /\ MarkOf(v) = {"production"}
                          /\ t # Roller => status[thr[t].s] = "published"
                    /\ thr[t].pc \in {"undone", "withdrawn"} =>
                          /\ reg.prod = u /\ log[bare].reg = reg
                          /\ MarkOf(u) = {"production"}
                          /\ MarkOf(v) = {TakenBack(t)}
                          /\ t # Roller => status[thr[t].s] = "pending_review"
                          /\ thr[t].pc = "undone" => checkout = Target
  BY DEF ReleaseSettles, TakenBack
<1>1. Follows(t) /\ Sound(reg, probed)
  BY DEF All, Followed, Inv, SoundHere, Registries, Sound
<1>2. t # Roller => t \in Publishers
  BY DEF Threads
<1>3. CASE thr[t].pc = "done"
  <2>1. Turned(reg, v, thr[t].commit, u) /\ log[bare].reg = reg /\ checkout = Target
    BY <1>1, <1>3 DEF Follows, Stage, Forward, Saved
  <2>2. CommitOf(reg, v) = thr[t].commit /\ Entries(reg, v) # {} /\ MarkOf(v) = {"production"}
    BY <1>1, <2>1, OneEntry DEF Turned, MarkOf, Holds, HoldsMark
  <2>3. Target = thr[t].commit
    BY <2>1, <2>2 DEF Target, ProductionCommit, HasProduction, Turned
  <2> QED
    BY <1>1, <1>2, <1>3, <2>1, <2>2, <2>3 DEF Turned, Follows
<1>4. CASE thr[t].pc \in {"undone", "withdrawn"}
  <2>1. Returned(reg, v, u, TakenBack(t)) /\ log[bare].reg = reg
    BY <1>1, <1>4 DEF Follows, Stage, Back, Saved
  <2>2. MarkOf(u) = {"production"} /\ MarkOf(v) = {TakenBack(t)}
    BY <1>1, <2>1, OneEntry DEF Returned, MarkOf
  <2> QED
    BY <1>1, <1>2, <1>4, <2>1, <2>2 DEF Returned, Follows, All, Owned, Undisturbed
<1> QED
  BY <1>3, <1>4

-----------------------------------------------------------------------------
(* Steps of the others                                                     *)

\* The thread that is alone does not move, and nothing it relies on changes
\* but the executor's checkout, which follows the bare repository.
LEMMA OthersFollow ==
    ASSUME All, NEW t \in Threads, thr[t].alone, thr'[t] = thr[t],
           reg' = reg, bare' = bare, log'[bare] = log[bare],
           checkout' \in {checkout, Target},
           \/ load'[Asked(t)] = load[Asked(t)]
           \/ load'[Asked(t)].st = "answered" =>
                 load'[Asked(t)].c = Target /\ checkout' = Target,
           t \in Publishers => status'[thr[t].s] = status[thr[t].s]
    PROVE  Follows(t)'
<1>1. Follows(t)
  BY DEF All, Followed
<1>2. Target' = Target
  BY DEF Target
<1>3. Asked(t)' = Asked(t)
  BY DEF Asked
<1>4. Heard(t)'
  BY <1>1, <1>2, <1>3 DEF Heard, Follows
<1> QED
  BY <1>1, <1>2, <1>4 DEF Follows

\* A thread that moves meets nobody who is alone, but itself.
LEMMA OneMoves ==
    ASSUME All, NEW t \in Threads, thr[t].pc # "idle",
           \A u \in Threads : u # t => thr'[u] = thr[u],
           thr'[t].alone => Follows(t)'
    PROVE  Followed'
BY DEF All, Owned, Loners, Followed

\* A release or a rollback begins.
LEMMA BeginFollows ==
    ASSUME All, NEW t \in Threads, NEW rec \in ThreadSet, Begin(t, rec),
           rec.pc \in {"freeze", "probe again", "promoted"},
           HasProduction(reg) => Stage(t, rec, reg')
    PROVE  Followed'
<1> USE ActorTypesHere DEF All
<1> DEFINE flag == Quiet /\ HasProduction(reg)
<1>1. thr'[t] = [rec EXCEPT !.alone = flag]
  BY MetTypes DEF Begin, ThreadTypes
<1>2. /\ thr'[t].pc = rec.pc /\ thr'[t].ver = rec.ver /\ thr'[t].prev = rec.prev
      /\ thr'[t].commit = rec.commit /\ (thr'[t].alone => HasProduction(reg))
  BY <1>1 DEF ThreadSet
<1>3. \A u \in Threads : u # t => ~thr'[u].alone
  BY MetTypes DEF Begin, Met, ThreadTypes, ThreadSet
<1>4. HasProduction(reg) => Stage(t, thr'[t], reg')
  BY <1>2 DEF Stage
<1>5. thr'[t].pc \notin Saved \cup {"activating", "reactivating", "done", "undone"}
  BY <1>2 DEF Saved
<1>6. thr'[t].alone => Follows(t)'
  BY <1>2, <1>4, <1>5 DEF Follows, Heard
<1> QED
  BY <1>3, <1>6 DEF Followed

\* A thread moves on by its place alone.
LEMMA GotoAll ==
    ASSUME Inv, NEW t \in Threads, NEW pc \in Places, Goto(t, pc)
    PROVE  /\ \A u \in Threads : u # t => thr'[u] = thr[u]
           /\ thr'[t].pc = pc /\ thr'[t].s = thr[t].s /\ thr'[t].alone = thr[t].alone
           /\ thr'[t].ver = thr[t].ver /\ thr'[t].prev = thr[t].prev
           /\ thr'[t].commit = thr[t].commit
<1>1. thr[t] \in ThreadSet
  BY ActorTypesHere
<1>2. thr' = [thr EXCEPT ![t] = [thr[t] EXCEPT !.pc = pc]]
  BY ActorTypesHere DEF Goto
<1>3. thr'[t] = [thr[t] EXCEPT !.pc = pc]
  BY <1>2, ActorTypesHere
<1>4. \A u \in Threads : u # t => thr'[u] = thr[u]
  BY <1>2, ActorTypesHere
<1> QED
  BY <1>1, <1>3, <1>4 DEF ThreadSet

LEMMA FinishFollows ==
    ASSUME All, NEW t \in Threads, thr[t].pc # "idle", Finish(t)
    PROVE  Followed'
BY OneMoves, ActorTypesHere DEF All, Finish, Idle

-----------------------------------------------------------------------------
(* Requests                                                                *)

LEMMA PublishFollows ==
    ASSUME All, NEW p \in Publishers, NEW s \in Sessions, Publish(p, s)
    PROVE  Followed'
<1> USE ActorTypesHere DEF All
<1>0. p \in Threads /\ UNCHANGED reg /\ reg \in RegistrySet
  BY DEF Publish, treeVars, Inv, TypeOK, Shapes
<1>1. CASE Begin(p, [Idle EXCEPT !.pc = "freeze", !.s = s, !.ver = NextVersion(reg)])
  <2> DEFINE rec == [Idle EXCEPT !.pc = "freeze", !.s = s, !.ver = NextVersion(reg)]
  <2>1. rec \in ThreadSet /\ rec.pc = "freeze"
    <3>1. NextVersion(reg) \in Nat
      BY LogType, NextVersionType DEF Inv, SoundHere, Registries, Sound
    <3> QED
      BY <3>1, IdleType DEF ThreadSet, Places
  <2>2. Begin(p, rec)
    BY <1>1
  <2> HIDE DEF rec
  <2>3. HasProduction(reg) => Stage(p, rec, reg')
    BY <1>0, <2>1 DEF Stage, Forward, Back
  <2> QED
    BY <1>0, <2>1, <2>2, <2>3, BeginFollows
<1>2. CASE /\ Mine(s) # {} /\ Newest(s).version # reg.prod
           /\ Begin(p, [Idle EXCEPT !.pc = "probe again", !.s = s, !.ver = Newest(s).version,
                                    !.commit = Newest(s).commit])
  <2> DEFINE rec == [Idle EXCEPT !.pc = "probe again", !.s = s, !.ver = Newest(s).version,
                                !.commit = Newest(s).commit]
  <2>1. Newest(s) \in EntrySet /\ Newest(s) \in reg.versions
    BY <1>2, NewestType DEF Inv
  <2>2. /\ rec \in ThreadSet /\ rec.pc = "probe again" /\ rec.ver = Newest(s).version
        /\ rec.commit = Newest(s).commit
    BY <2>1, IdleType DEF ThreadSet, Places, EntrySet
  <2>3. Begin(p, rec)
    BY <1>2
  <2> HIDE DEF rec
  <2>4. HasProduction(reg) => Ready(reg, rec.ver, rec.commit)
    BY <1>2, <2>1, <2>2 DEF Ready
  <2>5. HasProduction(reg) => Stage(p, rec, reg')
    BY <1>0, <2>2, <2>4 DEF Stage, Forward, Back
  <2> QED
    BY <1>0, <2>2, <2>3, <2>5, BeginFollows
<1>3. CASE thr' = Met
  <2>1. \A t \in Threads : ~thr'[t].alone
    BY <1>3 DEF Met, ThreadSet
  <2> QED
    BY <2>1 DEF Followed
<1> QED
  BY <1>1, <1>2, <1>3 DEF Publish

LEMMA RollbackFollows ==
    ASSUME All, NEW e \in reg.versions, Rollback(e.version)
    PROVE  Followed'
<1> USE ActorTypesHere DEF All
<1> DEFINE v == e.version
           c == CommitOf(reg, v)
           rec == [Idle EXCEPT !.pc = "promoted", !.ver = v, !.prev = reg.prod,
                               !.commit = c, !.base = ProductionCommit(reg)]
<1>1. /\ v \in Nat /\ reg.prod \in Nat /\ c \in Nat /\ ProductionCommit(reg) \in Nat
      /\ reg \in RegistrySet
  BY RollbackTree, LogType, CommitNat DEF Inv, RegistrySet, EntrySet, Entries
<1>2. HasProduction(reg) /\ v # reg.prod /\ reg' = RolledBack(reg, v) /\ Begin(Roller, rec)
  BY DEF Rollback
<1>3. Ready(reg, v, c)
  BY <1>2 DEF Ready, Entries, CommitOf
<1>4. /\ rec \in ThreadSet /\ rec.pc = "promoted" /\ rec.ver = v /\ rec.commit = c
      /\ rec.prev = reg.prod
  BY <1>1, IdleType DEF ThreadSet, Places
<1> HIDE DEF rec, c, v
<1>5. Turned(reg', v, c, reg.prod)
  BY <1>1, <1>2, <1>3, RolledBackTurns
<1>6. Stage(Roller, rec, reg')
  BY <1>4, <1>5 DEF Stage, Forward, Back
<1> QED
  BY <1>2, <1>4, <1>6, BeginFollows

-----------------------------------------------------------------------------
(* A thread moves                                                          *)

LEMMA FreezeFollows ==
    ASSUME All, NEW t \in Publishers, Freeze(t)
    PROVE  Followed'
<1> USE ActorTypesHere DEF All
<1>0. t \in Threads /\ thr[t].pc = "freeze" /\ reg' = reg /\ thr[t] \in ThreadSet
  BY DEF Freeze
<1>1. CASE Finish(t)
  BY <1>0, <1>1, FinishFollows
<1>2. CASE thr' = [thr EXCEPT ![t].pc = "probe", ![t].commit = head']
  <2>1. /\ \A u \in Threads : u # t => thr'[u] = thr[u]
        /\ thr'[t].pc = "probe" /\ thr'[t].alone = thr[t].alone
    BY <1>0, <1>2 DEF ThreadSet
  <2>2. thr[t].alone => HasProduction(reg')
    BY <1>0 DEF Followed, Follows, Stage
  <2>3. thr'[t].alone => Follows(t)'
    BY <2>1, <2>2 DEF Follows, Stage, Forward, Back, Saved, Heard
  <2> QED
    BY <1>0, <2>1, <2>3, OneMoves
<1> QED
  BY <1>1, <1>2 DEF Freeze

LEMMA ProbeFollows ==
    ASSUME All, NEW t \in Publishers, Probe(t)
    PROVE  Followed'
<1> USE ActorTypesHere DEF All
<1>0. /\ t \in Threads /\ thr[t].pc \in {"probe", "probe again"}
      /\ reg \in RegistrySet /\ {"promote", "registered"} \subseteq Places
  BY DEF Probe, Inv, TypeOK, Shapes, Places
<1>1. CASE Finish(t)
  BY <1>0, <1>1, FinishFollows
<1>2. CASE thr[t].pc = "probe again" /\ Goto(t, "promote") /\ UNCHANGED reg
  <2>1. /\ \A u \in Threads : u # t => thr'[u] = thr[u]
        /\ thr'[t].pc = "promote" /\ thr'[t].alone = thr[t].alone
        /\ thr'[t].ver = thr[t].ver /\ thr'[t].commit = thr[t].commit
    BY <1>0, <1>2, GotoAll
  <2>2. thr[t].alone => Ready(reg', thr'[t].ver, thr'[t].commit)
    BY <1>2, <2>1 DEF Followed, Follows, Stage
  <2>3. thr'[t].alone => Follows(t)'
    BY <2>1, <2>2 DEF Follows, Stage, Forward, Back, Saved, Heard
  <2> QED
    BY <1>0, <2>1, <2>3, OneMoves
<1>3. CASE /\ thr[t].pc = "probe" /\ Goto(t, "registered")
           /\ Registrable(reg, thr[t].ver, thr[t].s)
           /\ reg' = WithCandidate(reg, thr[t].ver, thr[t].commit, thr[t].s)
  <2>1. /\ \A u \in Threads : u # t => thr'[u] = thr[u]
        /\ thr'[t].pc = "registered" /\ thr'[t].alone = thr[t].alone
        /\ thr'[t].ver = thr[t].ver /\ thr'[t].commit = thr[t].commit
    BY <1>0, <1>3, GotoAll
  <2>2. thr[t].alone => HasProduction(reg)
    BY <1>3 DEF Followed, Follows, Stage
  <2>3. thr[t].alone => Ready(reg', thr'[t].ver, thr'[t].commit)
    BY <1>0, <1>3, <2>1, <2>2, CandidateReady
  <2>4. thr'[t].alone => Follows(t)'
    BY <2>1, <2>3 DEF Follows, Stage, Forward, Back, Saved, Heard
  <2> QED
    BY <1>0, <2>1, <2>4, OneMoves
<1> QED
  BY <1>0, <1>1, <1>2, <1>3 DEF Probe

LEMMA PromoteFollows ==
    ASSUME All, NEW t \in Publishers, Promote(t)
    PROVE  Followed'
<1> USE ActorTypesHere DEF All
<1>0. /\ t \in Threads /\ thr[t].pc = "promote" /\ reg \in RegistrySet
      /\ thr[t] \in ThreadSet /\ thr[t].ver \in Nat
  BY DEF Promote, Inv, TypeOK, Shapes, ThreadSet
<1>1. CASE Finish(t)
  BY <1>0, <1>1, FinishFollows
<1>2. CASE /\ reg' = Promoted(reg, thr[t].ver)
           /\ thr' = [thr EXCEPT ![t].prev = reg.prod, ![t].pc = "promoted"]
  <2>1. /\ \A u \in Threads : u # t => thr'[u] = thr[u]
        /\ thr'[t].pc = "promoted" /\ thr'[t].alone = thr[t].alone
        /\ thr'[t].ver = thr[t].ver /\ thr'[t].commit = thr[t].commit
        /\ thr'[t].prev = reg.prod
    BY <1>0, <1>2 DEF ThreadSet
  <2>2. thr[t].alone => Ready(reg, thr[t].ver, thr[t].commit)
    BY <1>0 DEF Followed, Follows, Stage
  <2>3. thr[t].alone => Turned(reg', thr'[t].ver, thr'[t].commit, thr'[t].prev)
    BY <1>0, <1>2, <2>1, <2>2, PromotedTurns
  <2>4. thr'[t].alone => Follows(t)'
    BY <2>1, <2>3 DEF Follows, Stage, Forward, Back, Saved, Heard
  <2> QED
    BY <1>0, <2>1, <2>4, OneMoves
<1> QED
  BY <1>1, <1>2 DEF Promote

LEMMA RestoreFollows ==
    ASSUME All, NEW t \in Threads, Restore(t)
    PROVE  Followed'
<1> USE ActorTypesHere DEF All
<1>0. /\ thr[t].pc \in {"recall", "restore"} /\ reg \in RegistrySet
      /\ thr[t].ver \in Nat /\ thr[t].prev \in Nat
      /\ {"recalled", "restored"} \subseteq Places
  BY DEF Restore, Inv, TypeOK, Shapes, ThreadSet, Places
<1>1. PICK pc \in {"recalled", "restored"} : Goto(t, pc)
  BY DEF Restore
<1>2. /\ \A u \in Threads : u # t => thr'[u] = thr[u]
      /\ thr'[t].pc = pc /\ thr'[t].alone = thr[t].alone
      /\ thr'[t].ver = thr[t].ver /\ thr'[t].prev = thr[t].prev
  BY <1>0, <1>1, GotoAll
<1>3. thr[t].alone => Turned(reg, thr[t].ver, thr[t].commit, thr[t].prev)
  BY <1>0 DEF Followed, Follows, Stage, Forward
<1>4. thr[t].alone =>
         /\ Returned(Restored(reg, thr[t].prev, thr[t].ver), thr[t].ver, thr[t].prev, "candidate")
         /\ Returned(RollbackUndone(reg, thr[t].prev, thr[t].ver), thr[t].ver, thr[t].prev,
                     "retired")
  BY <1>0, <1>3, RestoredReturns
<1>5. thr[t].alone => Returned(reg', thr'[t].ver, thr'[t].prev, TakenBack(t))
  BY <1>2, <1>4 DEF Restore, TakenBack
<1>6. thr'[t].alone => Follows(t)'
  BY <1>2, <1>5 DEF Follows, Stage, Forward, Back, Saved, Heard
<1> QED
  BY <1>0, <1>2, <1>6, OneMoves

LEMMA CommittedReads ==
    ASSUME TypeOK, CommitRegistry
    PROVE  log'[head'].reg = reg
<1>1. CASE reg = log[head].reg
  BY <1>1 DEF CommitRegistry
<1>2. CASE log' = Append(log, [reg |-> reg, anc |-> log[head].anc \cup {Len(log) + 1}])
           /\ head' = Len(log) + 1
  BY <1>2, LogType, CommitGrows
<1> QED
  BY <1>1, <1>2 DEF CommitRegistry

LEMMA SaveFollows ==
    ASSUME All, NEW t \in Threads, SaveRegistry(t)
    PROVE  Followed'
<1> USE ActorTypesHere DEF All
<1>0. /\ thr[t].pc \in {"registered", "promoted", "recalled", "restored"} /\ reg' = reg
      /\ thr[t].pc # "idle" /\ TypeOK
  BY DEF SaveRegistry, Inv
<1>1. PICK pc : /\ GotoOrFail(t, pc)
                /\ \/ pc = Pushed(t) /\ log'[bare'].reg = reg
                   \/ pc = NotPushed(t)
  BY <1>0, CommittedReads DEF SaveRegistry, Push
<1>2. CASE pc = "failed"
  BY <1>0, <1>1, <1>2, FinishFollows DEF GotoOrFail
<1>3. CASE pc # "failed"
  <2>1. Goto(t, pc)
    BY <1>1, <1>3 DEF GotoOrFail
  <2>2. /\ pc \in {"promote", "activate", "withdrawn", "reactivate", "recall", "restore"}
        /\ pc = "promote" => thr[t].pc = "registered"
        /\ pc \in {"activate", "recall", "restore"} => thr[t].pc = "promoted"
        /\ pc \in {"withdrawn", "reactivate"} => thr[t].pc \in {"recalled", "restored"}
        /\ pc \in Saved => log'[bare'].reg = reg
    BY <1>0, <1>1, <1>3 DEF Pushed, NotPushed, Saved
  <2>3. pc \in Places
    BY <2>2 DEF Places
  <2>4. /\ \A u \in Threads : u # t => thr'[u] = thr[u]
        /\ thr'[t].pc = pc /\ thr'[t].alone = thr[t].alone
        /\ thr'[t].ver = thr[t].ver /\ thr'[t].prev = thr[t].prev
        /\ thr'[t].commit = thr[t].commit
    BY <2>1, <2>3, GotoAll
  <2>5. thr[t].alone => Stage(t, thr[t], reg)
    BY DEF Followed, Follows
  <2>6. thr[t].alone => Stage(t, thr'[t], reg)
    BY <2>2, <2>4, <2>5 DEF Stage, Forward, Back
  <2>7. thr'[t].alone => Follows(t)'
    BY <1>0, <2>2, <2>4, <2>6 DEF Follows, Heard
  <2> QED
    BY <1>0, <2>4, <2>7, OneMoves
<1> QED
  BY <1>2, <1>3

\* A reload was not confirmed: the thread takes its release back, or ends.
LEMMA UnconfirmedFollows ==
    ASSUME All, NEW t \in Threads, Unconfirmed(t), reg' = reg,
           thr[t].pc \in {"activate", "activating", "reactivate", "reactivating"}
    PROVE  Followed'
<1> USE ActorTypesHere DEF All
<1>1. CASE Finish(t)
  BY <1>1, FinishFollows
<1>2. CASE thr[t].pc \in {"activate", "activating"} /\ Goto(t, "restore")
  <2>1. "restore" \in Places
    BY DEF Places
  <2>2. /\ \A u \in Threads : u # t => thr'[u] = thr[u]
        /\ thr'[t].pc = "restore" /\ thr'[t].alone = thr[t].alone
        /\ thr'[t].ver = thr[t].ver /\ thr'[t].prev = thr[t].prev
        /\ thr'[t].commit = thr[t].commit
    BY <1>2, <2>1, GotoAll
  <2>3. thr[t].alone => Stage(t, thr'[t], reg')
    BY <1>2, <2>2 DEF Followed, Follows, Stage, Forward, Back
  <2>4. thr'[t].alone => Follows(t)'
    BY <2>2, <2>3 DEF Follows, Heard, Saved
  <2> QED
    BY <2>2, <2>4, OneMoves
<1> QED
  BY <1>1, <1>2 DEF Unconfirmed

LEMMA AskFollows ==
    ASSUME All, NEW t \in Threads, Ask(t)
    PROVE  Followed'
<1> USE ActorTypesHere DEF All
<1>0. /\ reg' = reg /\ bare' = bare /\ log' = log
      /\ thr[t].pc \in {"activate", "reactivate"}
  BY DEF Ask, treeVars, Reload
<1>1. CASE Unconfirmed(t)
  BY <1>0, <1>1, UnconfirmedFollows
<1>2. ASSUME NEW k \in Reload, thr[t].pc = k, load[<<t, k>>] = NoLoad,
             load' = [load EXCEPT ![<<t, k>>].st = "asked"],
             Goto(t, IF k = "activate" THEN "activating" ELSE "reactivating")
      PROVE  Followed'
  <2> DEFINE pc == IF k = "activate" THEN "activating" ELSE "reactivating"
  <2>1. pc \in Places /\ Goto(t, pc)
    BY <1>2 DEF Places
  <2>2. /\ \A u \in Threads : u # t => thr'[u] = thr[u]
        /\ thr'[t].pc = pc /\ thr'[t].alone = thr[t].alone
        /\ thr'[t].ver = thr[t].ver /\ thr'[t].prev = thr[t].prev
        /\ thr'[t].commit = thr[t].commit
    BY <2>1, GotoAll
  <2>3. thr[t].alone => Stage(t, thr'[t], reg') /\ log'[bare'].reg = reg'
    BY <1>0, <1>2, <2>2 DEF Followed, Follows, Stage, Forward, Back, Saved, Reload
  <2>4. Asked(t)' = <<t, k>>
    BY <1>2, <2>2 DEF Asked, Reload
  <2>5. load'[<<t, k>>].st = "asked"
    <3>1. load \in [Loads -> [st : {"none", "asked", "answered", "error"}, c : Nat]]
      BY DEF Inv, TypeOK, Shapes
    <3>2. <<t, k>> \in Loads
      BY DEF Loads
    <3> QED
      BY <1>2, <3>1, <3>2
  <2>6. Heard(t)'
    BY <2>4, <2>5 DEF Heard
  <2>7. thr'[t].alone => Follows(t)'
    BY <2>2, <2>3, <2>6 DEF Follows
  <2> QED
    BY <1>0, <2>2, <2>7, OneMoves
<1> QED
  BY <1>1, <1>2 DEF Ask

LEMMA HearFollows ==
    ASSUME All, NEW t \in Threads, Hear(t)
    PROVE  Followed'
<1> USE ActorTypesHere DEF All
<1>0. /\ reg' = reg /\ bare' = bare /\ log' = log /\ checkout' = checkout
      /\ thr[t].pc \in {"activating", "reactivating"}
  BY DEF Hear, treeVars
<1>1. CASE Unconfirmed(t)
  BY <1>0, <1>1, UnconfirmedFollows
<1>2. CASE Confirmed(t) /\ load[Asked(t)].st = "answered"
  <2>1. PICK pc \in {"undone", "done"} :
           /\ Goto(t, pc)
           /\ pc = "undone" <=> thr[t].pc = "reactivating"
           /\ pc = "done" /\ t # Roller => status' = [status EXCEPT ![thr[t].s] = "published"]
    BY <1>0, <1>2 DEF Confirmed
  <2>2. pc \in Places
    BY DEF Places
  <2>3. /\ \A u \in Threads : u # t => thr'[u] = thr[u]
        /\ thr'[t].pc = pc /\ thr'[t].alone = thr[t].alone /\ thr'[t].s = thr[t].s
        /\ thr'[t].ver = thr[t].ver /\ thr'[t].prev = thr[t].prev
        /\ thr'[t].commit = thr[t].commit
    BY <2>1, <2>2, GotoAll
  <2>4. thr[t].alone => /\ Stage(t, thr'[t], reg') /\ log'[bare'].reg = reg'
                        /\ checkout' = Target'
    BY <1>0, <1>2, <2>1, <2>3 DEF Followed, Follows, Stage, Forward, Back, Saved, Heard, Target
  <2>5. t \in Publishers => thr[t].s \in Sessions /\ t # Roller
    BY <1>0 DEF Owned, Holders
  <2>6. pc = "done" /\ t \in Publishers => status'[thr'[t].s] = "published"
    BY <2>1, <2>3, <2>5
  <2>7. Heard(t)'
    BY <2>3 DEF Heard
  <2>8. thr'[t].alone => Follows(t)'
    BY <2>3, <2>4, <2>6, <2>7 DEF Follows
  <2> QED
    BY <1>0, <2>3, <2>8, OneMoves
<1> QED
  BY <1>1, <1>2 DEF Hear

LEMMA ThreadFollows ==
    ASSUME All, NEW t \in Threads, ThreadNext(t)
    PROVE  Followed'
<1>1. CASE GiveUp(t)
  BY <1>1, UnconfirmedFollows DEF GiveUp, treeVars
<1>2. CASE Return(t)
  BY <1>2, FinishFollows DEF Return
<1> QED
  BY <1>1, <1>2, RestoreFollows, SaveFollows, AskFollows, HearFollows DEF ThreadNext

-----------------------------------------------------------------------------
(* Everybody else                                                          *)

\* A step of the sessions leaves the thread, its registry and its session.
LEMMA SessionFollows ==
    ASSUME All, SessionNext
    PROVE  Followed'
<1> USE ActorTypesHere DEF All
<1>1. PICK s \in Sessions : Start(s) \/ InspectEnds(s) \/ Finalize(s) \/ Edit(s)
                            \/ LandingEnds(s) \/ Stop(s) \/ Discard(s)
  BY DEF SessionNext
<1>2. CASE Discard(s)
  <2>1. \A t \in Threads : ~thr'[t].alone
    BY <1>2 DEF Discard, Met, ThreadSet
  <2> QED
    BY <2>1 DEF Followed
<1>3. CASE ~Discard(s)
  <2>1. /\ UNCHANGED <<reg, log, bare, thr, load, checkout>>
        /\ \A x \in Sessions : x # s => status'[x] = status[x]
        /\ status' = status \/ status[s] \notin Settled
    <3>1. CASE Edit(s)
      BY <3>1 DEF Edit, sessionVars, gitVars, execVars
    <3>2. CASE Stop(s)
      BY <3>2 DEF Stop, Stoppable, Settled, treeVars, execVars
    <3>3. CASE Start(s) \/ InspectEnds(s) \/ Finalize(s) \/ LandingEnds(s)
      <4>1. status[s] \in Settled => round[s] = "none"
        BY DEF Owned, RoundsOver
      <4>2. \E st, r : SessionStep(s, st, r)
        BY <3>3 DEF Start, InspectEnds, Finalize, LandingEnds
      <4>3. status[s] \notin Settled
        BY <3>3, <4>1 DEF Start, InspectEnds, Finalize, LandingEnds, Settled
      <4> QED
        BY <4>2, <4>3 DEF SessionStep, treeVars, execVars
    <3> QED
      BY <1>1, <1>3, <3>1, <3>2, <3>3
  <2>2. ASSUME NEW t \in Threads, thr[t].alone PROVE Follows(t)'
    <3>1. t \in Publishers => thr[t].s \in Sessions /\ status[thr[t].s] \in Settled
      BY <2>2 DEF Owned, Loners, Holders
    <3>2. t \in Publishers => status'[thr[t].s] = status[thr[t].s]
      BY <2>1, <3>1
    <3> QED
      BY <2>1, <2>2, <3>2, OthersFollow
  <2> QED
    BY <2>1, <2>2 DEF Followed
<1> QED
  BY <1>2, <1>3

\* While a discard resets the tree no thread is alone.
LEMMA DiscardFollows ==
    ASSUME All, Reset \/ CloseDiscarded
    PROVE  Followed'
<1>1. disc.pc # "idle" /\ thr' = thr
  BY DEF Reset, CloseDiscarded
<1> QED
  BY <1>1 DEF All, Owned, Loners, Followed

\* The executor checks out what the bare repository names.
LEMMA ExecFollows ==
    ASSUME All, ExecNext
    PROVE  Followed'
<1> USE ActorTypesHere DEF All
<1>1. UNCHANGED <<status, reg, log, bare, thr>>
  BY DEF ExecNext, Reconcile, ServeReload, sessionVars, treeVars
<1>2. CASE Reconcile
  BY <1>1, <1>2, OthersFollow DEF Reconcile, Followed
<1>3. ASSUME NEW i \in Loads, ServeReload(i) PROVE Followed'
  <2>1. checkout' \in {checkout, Target}
    BY <1>3 DEF ServeReload
  <2>2. \/ \E st : st # "answered" /\ Answer(i, st, Unbound)
        \/ Answer(i, "answered", Target) /\ checkout' = Target
    BY <1>3 DEF ServeReload
  <2>3. load \in [Loads -> [st : {"none", "asked", "answered", "error"}, c : Nat]]
    BY DEF Inv, TypeOK, Shapes
  <2>4. ASSUME NEW t \in Threads
        PROVE  \/ load'[Asked(t)] = load[Asked(t)]
               \/ load'[Asked(t)].st = "answered" =>
                     load'[Asked(t)].c = Target /\ checkout' = Target
    <3>1. Asked(t) \in Loads
      BY DEF Asked, Loads, Reload
    <3>2. CASE Asked(t) # i
      BY <2>2, <2>3, <3>1, <3>2 DEF Answer
    <3>3. CASE Asked(t) = i
      <4>1. CASE Answer(i, "answered", Target) /\ checkout' = Target
        BY <2>3, <3>3, <4>1 DEF Answer, NoLoad
      <4>2. ASSUME NEW st, st # "answered", Answer(i, st, Unbound)
            PROVE  load'[i].st # "answered"
        BY <2>3, <4>2 DEF Answer, NoLoad
      <4> QED
        BY <2>2, <3>3, <4>1, <4>2
    <3> QED
      BY <3>2, <3>3
  <2> QED
    BY <1>1, <2>1, <2>4, OthersFollow DEF Followed
<1> QED
  BY <1>2, <1>3 DEF ExecNext

LEMMA FollowedKept == All /\ [Next]_vars => Followed'
<1> SUFFICES ASSUME All, [Next]_vars PROVE Followed'
  OBVIOUS
<1>1. CASE UNCHANGED vars
  BY <1>1 DEF vars, All, Followed, Follows, Heard, Asked, Target
<1>2. ASSUME NEW p \in Publishers, PublishNext(p) PROVE Followed'
  BY <1>2, PublishFollows, FreezeFollows, ProbeFollows, PromoteFollows DEF PublishNext
<1>3. CASE Restart
  <2>1. \A t \in Threads : ~thr'[t].alone
    BY <1>3 DEF Restart, Idle
  <2> QED
    BY <2>1 DEF Followed
<1> QED
  BY <1>1, <1>2, <1>3, SessionFollows, DiscardFollows, ThreadFollows, RollbackFollows,
     ExecFollows DEF Next

LEMMA InitFollowed == Init => Followed
BY DEF Init, Followed, Idle

\* ReleaseSettles for every value of the constants: a release or a rollback
\* that meets no other is confirmed everywhere or taken back everywhere,
\* whichever of its git commands, requests and reloads fail, and however
\* late the executor serves them.
THEOREM ReleasesSettle == Spec => []ReleaseSettles
<1>1. Init => All
  BY InitInv, InitOwned, InitFollowed DEF All
<1>2. All /\ [Next]_vars => All'
  BY InvKept, OwnedKept, FollowedKept DEF All
<1> QED
  BY <1>1, <1>2, FollowedSettles, PTL DEF Spec
=============================================================================
