------------------------------ MODULE Release ------------------------------
(***************************************************************************)
(* How a harness evolves and reaches the executor.  A session of the       *)
(* evolve agent edits the working tree and ends in review; publish freezes *)
(* the edits as a commit, has the executor probe it, registers a candidate *)
(* version, promotes it and has the executor reload; discard resets the    *)
(* working tree; rollback moves the production pointer to an old version.  *)
(*                                                                         *)
(* publish and rollback run in threads of the server with no lock between  *)
(* them; discard and the rounds of the agent run on the event loop.  A     *)
(* change of registry.json (read, compute, write) is one step, a git       *)
(* command too.  The executor serves a reload whether or not the caller    *)
(* still waits for the answer, and reconciles its checkout with the        *)
(* production version of the bare repository.  The import of the code      *)
(* checked out is part of the reload; a round's answer to a message, which *)
(* changes nothing here, is left out.                                      *)
(***************************************************************************)
EXTENDS Registry, Sequences, FiniteSets

CONSTANTS Sessions,
          Publishers,     \* threads that serve publish
          MaxRequests,    \* bound: publish and rollback requests
          MaxUpsets       \* bound: requests that start while another is served,
                          \* restarts, and git, HTTP and loader failures

ASSUME ReleaseAssumption == MaxRequests \in Nat /\ MaxUpsets \in Nat

VARIABLES
    status, round,      \* of a session: its row, its background task
    dirty,              \* the working tree has edits not committed
    reg,                \* registry.json in the working tree
    log,                \* commits: the registry they hold, their ancestors
    head, bare,         \* main of the working repository, of the bare one
    thr,                \* publish threads and the rollback thread
    disc,               \* the discard in progress
    load,               \* reloads the executor has in hand
    checkout,           \* the commit the executor has checked out
    probed,             \* commits the probe has accepted
    used                \* how much of each bound is used

sessionVars == <<status, round>>
gitVars == <<log, head, bare>>
treeVars == <<dirty, reg, log, head, bare>>
execVars == <<load, checkout>>
vars == <<status, round, dirty, reg, log, head, bare, thr, disc, load,
          checkout, probed, used>>

Roller == "rollback"
NoSession == "none"
Threads == Publishers \cup {Roller}
ASSUME NamesAssumption == Roller \notin Publishers /\ NoSession \notin Sessions

Active == {"running", "conversing", "finalizing", "pending_review"}
Stoppable == {"running", "conversing", "finalizing"}
Closed == {"published", "discarded"}

Reload == {"activate", "reactivate"}
Loads == Threads \X Reload

Idle == [pc |-> "idle", s |-> NoSession, ver |-> NoVersion, commit |-> Unbound,
         prev |-> NoVersion, base |-> Unbound, alone |-> FALSE]
NoLoad == [st |-> "none", c |-> Unbound]
NoDiscard == [pc |-> "idle", s |-> NoSession, commit |-> Unbound, alone |-> FALSE]

\* The image's registry has one version without a commit; the first start
\* binds it to the first commit and commits the registry
Seed(c) == [prod |-> 1, versions |-> {[version |-> 1, commit |-> c,
                                       session |-> NoSession, mark |-> "plain"]}]

Init ==
    /\ status = [s \in Sessions |-> "new"]
    /\ round = [s \in Sessions |-> "none"]
    /\ dirty = FALSE
    /\ reg = Seed(1)
    /\ log = <<[reg |-> Seed(Unbound), anc |-> {1}], [reg |-> Seed(1), anc |-> {1, 2}]>>
    /\ head = 2 /\ bare = 2
    /\ thr = [t \in Threads |-> Idle]
    /\ disc = NoDiscard
    /\ load = [i \in Loads |-> NoLoad]
    /\ checkout = 1
    /\ probed = {}
    /\ used = [request |-> 0, upset |-> 0]

Upset == used.upset < MaxUpsets /\ used' = [used EXCEPT !.upset = @ + 1]
Fault == Upset    \* git, HTTP or the loader fails
NoFault == UNCHANGED used

-----------------------------------------------------------------------------
(* Sessions and the rounds of the agent.  The server's loop does nothing   *)
(* else while a discard runs.                                              *)

LoopFree == disc.pc = "idle"

SessionStep(s, st, r) ==
    /\ LoopFree
    /\ status' = [status EXCEPT ![s] = st]
    /\ round' = [round EXCEPT ![s] = r]
    /\ UNCHANGED <<treeVars, thr, disc, execVars, probed, used>>

\* POST /evolve/start (whole) and /evolve/start-converse (inspect)
Start(s) ==
    /\ status[s] = "new"
    /\ \A x \in Sessions : status[x] \notin Active
    /\ \E r \in {"inspect", "landing"} : SessionStep(s, "running", r)

InspectEnds(s) ==
    /\ round[s] = "inspect"
    /\ \E st \in {"conversing", "failed"} : SessionStep(s, st, "none")

\* the task sets finalizing as soon as it runs
Finalize(s) ==
    /\ status[s] = "conversing" /\ round[s] = "none"
    /\ SessionStep(s, "finalizing", "landing")

Edit(s) ==
    /\ round[s] = "landing" /\ ~dirty
    /\ dirty' = TRUE
    /\ UNCHANGED <<sessionVars, reg, gitVars, thr, disc, execVars, probed, used>>

\* the round writes its outcome over whatever the row says
LandingEnds(s) ==
    /\ round[s] = "landing"
    /\ \E st \in {"pending_review", "failed"} : SessionStep(s, st, "none")

\* Mutant: stop says cancelled before anything has stopped.
StopCancelled(s) ==
    /\ status[s] \in Stoppable
    /\ status' = [status EXCEPT ![s] = "cancelled"]
    /\ UNCHANGED <<round, treeVars, thr, disc, execVars, probed, used>>

\* stop_session runs in a thread: asyncio.create_task raises there, so the
\* status is written and nobody cancels the round
Stop(s) ==
    /\ status[s] \in Stoppable
    /\ status' = [status EXCEPT ![s] = "cancelling"]
    /\ UNCHANGED <<round, treeVars, thr, disc, execVars, probed, used>>

-----------------------------------------------------------------------------
(* git                                                                     *)

\* the working registry committed on top of HEAD, if it differs
CommitRegistry ==
    IF reg = log[head].reg THEN UNCHANGED <<log, head>>
    ELSE LET c == Len(log) + 1
         IN  /\ log' = Append(log, [reg |-> reg, anc |-> log[head].anc \cup {c}])
             /\ head' = c

\* the source edits committed on top of HEAD, registry.json left out
CommitSources ==
    IF ~dirty THEN UNCHANGED <<log, head>>
    ELSE LET c == Len(log) + 1
         IN  /\ log' = Append(log, [reg |-> log[head].reg,
                                    anc |-> log[head].anc \cup {c}])
             /\ head' = c

\* fast-forward or --force-with-lease: the bare repository follows HEAD
Push == bare' = head'

-----------------------------------------------------------------------------
(* Threads.  alone is history: no other release, discard or restart met    *)
(* this one.                                                               *)

Quiet == (\A t \in Threads : thr[t].pc = "idle") /\ disc.pc = "idle"

Met == [t \in Threads |-> [thr[t] EXCEPT !.alone = FALSE]]
Begin(t, rec) ==
    /\ thr' = [Met EXCEPT ![t] = [rec EXCEPT !.alone = Quiet /\ HasProduction(reg)]]
    /\ disc' = [disc EXCEPT !.alone = FALSE]
Request ==
    LET overlaps == IF \A t \in Threads : thr[t].pc = "idle" THEN 0 ELSE 1
    IN  /\ used.request < MaxRequests /\ used.upset + overlaps <= MaxUpsets
        /\ used' = [request |-> used.request + 1, upset |-> used.upset + overlaps]

Goto(t, pc) == thr' = [thr EXCEPT ![t].pc = pc]
Finish(t) == thr' = [thr EXCEPT ![t] = Idle]
GotoOrFail(t, pc) == IF pc = "failed" THEN Finish(t) ELSE Goto(t, pc)

\* the newest version of the session, if it has one
Mine(s) == OfSession(reg, s)
Newest(s) == CHOOSE e \in Mine(s) : \A x \in Mine(s) : x.version <= e.version

\* publish_session: its checks and get_version_by_session, next_version_number
Publish(p, s) ==
    /\ thr[p].pc = "idle" /\ Request
    /\ status[s] = "pending_review" /\ round[s] = "none"
    /\ \/ /\ Mine(s) = {}
          /\ Begin(p, [Idle EXCEPT !.pc = "freeze", !.s = s, !.ver = NextVersion(reg)])
          /\ UNCHANGED status
       \/ /\ Mine(s) # {} /\ Newest(s).version # reg.prod
          /\ Begin(p, [Idle EXCEPT !.pc = "probe again", !.s = s,
                                   !.ver = Newest(s).version, !.commit = Newest(s).commit])
          /\ UNCHANGED status
       \/ /\ Mine(s) # {} /\ Newest(s).version = reg.prod
          /\ status' = [status EXCEPT ![s] = "published"]
          /\ thr' = Met /\ disc' = [disc EXCEPT !.alone = FALSE]
    /\ UNCHANGED <<round, treeVars, execVars, probed>>

ThreadOnly == UNCHANGED <<sessionVars, treeVars, disc, execVars, probed>>

Freeze(p) ==
    /\ thr[p].pc = "freeze"
    /\ CommitSources /\ dirty' = FALSE
    /\ \/ /\ Push /\ NoFault
          /\ thr' = [thr EXCEPT ![p].pc = "probe", ![p].commit = head']
       \/ UNCHANGED bare /\ Fault /\ Finish(p)
    /\ UNCHANGED <<sessionVars, reg, disc, execVars, probed>>

\* the executor clones the bare repository and assembles the commit;
\* create_candidate follows the answer
Probe(p) ==
    /\ thr[p].pc \in {"probe", "probe again"}
    /\ \/ /\ thr[p].commit \in log[bare].anc
          /\ probed' = probed \cup {thr[p].commit}
          /\ CASE thr[p].pc = "probe again" -> Goto(p, "promote") /\ UNCHANGED reg
               [] thr[p].pc = "probe" /\ Registrable(reg, thr[p].ver, thr[p].s) ->
                    /\ reg' = WithCandidate(reg, thr[p].ver, thr[p].commit, thr[p].s)
                    /\ Goto(p, "registered")
               [] OTHER -> Finish(p) /\ UNCHANGED reg
       \/ Finish(p) /\ UNCHANGED <<reg, probed>>
    /\ NoFault
    /\ UNCHANGED <<sessionVars, dirty, gitVars, disc, execVars>>

\* get_production_version_number, promote_candidate
Promote(p) ==
    /\ thr[p].pc = "promote"
    /\ IF Promotable(reg, thr[p].ver)
       THEN /\ reg' = Promoted(reg, thr[p].ver)
            /\ thr' = [thr EXCEPT ![p].prev = reg.prod, ![p].pc = "promoted"]
       ELSE Finish(p) /\ UNCHANGED reg
    /\ NoFault
    /\ UNCHANGED <<sessionVars, dirty, gitVars, disc, execVars, probed>>

\* restore_production after a promotion that could not be committed
\* ("recall") or activated, restore_failed_rollback
Restore(t) ==
    /\ thr[t].pc \in {"recall", "restore"}
    /\ reg' = IF t = Roller THEN RollbackUndone(reg, thr[t].prev, thr[t].ver)
                            ELSE Restored(reg, thr[t].prev, thr[t].ver)
    /\ Goto(t, IF thr[t].pc = "recall" THEN "recalled" ELSE "restored")
    /\ NoFault
    /\ UNCHANGED <<sessionVars, dirty, gitVars, disc, execVars, probed>>

Pushed(t) ==
    CASE thr[t].pc = "registered" -> "promote"
      [] thr[t].pc = "promoted"   -> "activate"
      [] thr[t].pc = "recalled"   -> "withdrawn"
      [] thr[t].pc = "restored"   -> IF thr[t].prev = NoVersion THEN "failed"
                                                                ELSE "reactivate"

NotPushed(t) ==
    CASE thr[t].pc = "promoted" -> IF t = Roller THEN "restore" ELSE "recall"
      [] OTHER -> "failed"

\* commit_registry_and_push refuses when the sources have drifted
SaveRegistry(t) ==
    /\ thr[t].pc \in {"registered", "promoted", "recalled", "restored"}
    /\ \/ /\ ~dirty /\ CommitRegistry /\ Push /\ NoFault
          /\ GotoOrFail(t, Pushed(t))
       \/ /\ dirty /\ UNCHANGED gitVars /\ NoFault
          /\ GotoOrFail(t, NotPushed(t))
       \/ /\ ~dirty /\ Fault /\ UNCHANGED bare
          /\ CommitRegistry \/ UNCHANGED <<log, head>>
          /\ GotoOrFail(t, NotPushed(t))
    /\ UNCHANGED <<sessionVars, dirty, reg, disc, execVars, probed>>

\* the reload answered as it should: a publish closes its session
Confirmed(t) ==
    IF thr[t].pc = "reactivating" THEN Goto(t, "undone") /\ UNCHANGED status
    ELSE /\ Goto(t, "done")
         /\ status' = IF t = Roller THEN status
                      ELSE [status EXCEPT ![thr[t].s] = "published"]

\* it did not: a publish reopens its session and restores the registry
Unconfirmed(t) ==
    IF thr[t].pc \in {"reactivate", "reactivating"} THEN Finish(t) /\ UNCHANGED status
    ELSE /\ Goto(t, "restore")
         /\ status' = IF t = Roller THEN status
                      ELSE [status EXCEPT ![thr[t].s] = "pending_review"]

\* POST /internal/reload: sent, or refused by the network
Ask(t) ==
    \E k \in Reload :
        /\ thr[t].pc = k /\ load[<<t, k>>] = NoLoad
        /\ \/ /\ load' = [load EXCEPT ![<<t, k>>].st = "asked"]
              /\ Goto(t, IF k = "activate" THEN "activating" ELSE "reactivating")
              /\ NoFault /\ UNCHANGED status
           \/ Unconfirmed(t) /\ Fault /\ UNCHANGED load
        /\ UNCHANGED <<round, treeVars, disc, checkout, probed>>

Asked(t) == <<t, IF thr[t].pc = "activating" THEN "activate" ELSE "reactivate">>

\* whether the answer names the commit it should; with no production version
\* left in the registry a publish accepts any
Expected(t, c) ==
    CASE thr[t].pc = "activating" -> c = thr[t].commit
      [] thr[t].pc = "reactivating" /\ t = Roller -> c = thr[t].base
      [] OTHER -> HasProduction(reg) => c = ProductionCommit(reg)

Hear(t) ==
    /\ thr[t].pc \in {"activating", "reactivating"}
    /\ load[Asked(t)].st \in {"answered", "error"}
    /\ load' = [load EXCEPT ![Asked(t)] = NoLoad]
    /\ IF load[Asked(t)].st = "answered" /\ Expected(t, load[Asked(t)].c)
       THEN Confirmed(t) ELSE Unconfirmed(t)
    /\ NoFault
    /\ UNCHANGED <<round, treeVars, disc, checkout, probed>>

\* the client's timeout; the executor goes on
GiveUp(t) ==
    /\ thr[t].pc \in {"activating", "reactivating"}
    /\ load[Asked(t)].st = "asked"
    /\ Fault /\ Unconfirmed(t)
    /\ UNCHANGED <<round, treeVars, disc, execVars, probed>>

\* the request is answered
Return(t) ==
    /\ thr[t].pc \in {"done", "undone", "withdrawn"}
    /\ Finish(t) /\ ThreadOnly /\ NoFault

-----------------------------------------------------------------------------
(* rollback_snapshot: its checks and the registry's rollback, which        *)
(* refuses candidates and versions without a commit; the rest is shared    *)

Rollback(v) ==
    /\ thr[Roller].pc = "idle" /\ Request
    /\ HasProduction(reg) /\ v # reg.prod /\ Returnable(reg, v)
    /\ reg' = RolledBack(reg, v)
    /\ Begin(Roller, [Idle EXCEPT !.pc = "promoted", !.ver = v, !.prev = reg.prod,
                                  !.commit = CommitOf(reg, v),
                                  !.base = ProductionCommit(reg)])
    /\ UNCHANGED <<sessionVars, dirty, gitVars, execVars, probed>>

-----------------------------------------------------------------------------
(* discard_session                                                         *)

\* Mutant: any session can be discarded.
DiscardAny(s) ==
    /\ LoopFree /\ ProductionCommit(reg) # Unbound
    /\ disc' = [pc |-> "reset", s |-> s, commit |-> ProductionCommit(reg),
                alone |-> Quiet]
    /\ thr' = Met
    /\ UNCHANGED <<sessionVars, treeVars, execVars, probed, used>>

Discard(s) ==
    /\ LoopFree /\ status[s] = "pending_review"
    /\ ProductionCommit(reg) # Unbound
    /\ disc' = [pc |-> "reset", s |-> s, commit |-> ProductionCommit(reg),
                alone |-> Quiet]
    /\ thr' = Met
    /\ UNCHANGED <<sessionVars, treeVars, execVars, probed, used>>

\* git reset --hard and git clean: HEAD and every file, registry.json too
Reset ==
    /\ disc.pc = "reset"
    /\ head' = disc.commit
    /\ reg' = log[disc.commit].reg
    /\ dirty' = FALSE
    /\ disc' = [disc EXCEPT !.pc = "close"]
    /\ UNCHANGED <<sessionVars, log, bare, thr, execVars, probed, used>>

CloseDiscarded ==
    /\ disc.pc = "close"
    /\ status' = [status EXCEPT ![disc.s] = "discarded"]
    /\ disc' = NoDiscard
    /\ UNCHANGED <<round, treeVars, thr, execVars, probed, used>>

-----------------------------------------------------------------------------
(* The executor                                                            *)

\* Mutant: main's HEAD is deployed, whatever production names.
TargetMain == bare

Target == ProductionCommit(log[bare].reg)

Waited(i) == thr[i[1]].pc = IF i[2] = "activate" THEN "activating" ELSE "reactivating"

Answer(i, st, c) ==
    load' = [load EXCEPT ![i] = IF Waited(i) THEN [st |-> st, c |-> c] ELSE NoLoad]

\* reload_current pulls what production names now; the answer names what is
\* checked out.  A production commit that main no longer reaches is there
\* only if it was fetched before.
ServeReload(i) ==
    /\ load[i].st = "asked"
    /\ \/ /\ Target # Unbound
          /\ checkout' = Target
          /\ Answer(i, "answered", Target) /\ NoFault
       \/ /\ Target \notin log[bare].anc
          /\ Answer(i, "error", Unbound) /\ UNCHANGED checkout /\ NoFault
       \/ Fault /\ Answer(i, "error", Unbound) /\ UNCHANGED checkout
    /\ UNCHANGED <<sessionVars, treeVars, thr, disc, probed>>

\* _reconcile_once
Reconcile ==
    /\ Target # Unbound /\ checkout # Target
    /\ checkout' = Target
    /\ UNCHANGED <<sessionVars, treeVars, thr, disc, load, probed, used>>

-----------------------------------------------------------------------------
\* evolution restarts: its threads and rounds are gone; the entry point
\* pushes HEAD and binds an unbound production version to it
Restart ==
    LET pruned == Pruned(reg, head)
        c == Len(log) + 1
    IN  /\ Upset
        /\ thr' = [t \in Threads |-> Idle]
        /\ disc' = NoDiscard
        /\ round' = [s \in Sessions |-> "none"]
        /\ reg' = pruned
        /\ IF pruned = reg THEN UNCHANGED <<log, head>>
           ELSE /\ log' = Append(log, [reg |-> pruned, anc |-> log[head].anc \cup {c}])
                /\ head' = c
        /\ bare' = head'
        /\ load' = [i \in Loads |-> IF load[i].st \in {"answered", "error"} THEN NoLoad
                                                                          ELSE load[i]]
        /\ UNCHANGED <<status, dirty, checkout, probed>>

SessionNext ==
    \E s \in Sessions :
        \/ Start(s) \/ InspectEnds(s) \/ Finalize(s) \/ Edit(s) \/ LandingEnds(s)
        \/ Stop(s) \/ Discard(s)

ThreadNext(t) ==
    Restore(t) \/ SaveRegistry(t) \/ Ask(t) \/ Hear(t) \/ GiveUp(t) \/ Return(t)

PublishNext(p) ==
    (\E s \in Sessions : Publish(p, s)) \/ Freeze(p) \/ Probe(p) \/ Promote(p)

ExecNext == Reconcile \/ \E i \in Loads : ServeReload(i)

Next ==
    \/ SessionNext \/ Reset \/ CloseDiscarded
    \/ \E p \in Publishers : PublishNext(p)
    \/ \E t \in Threads : ThreadNext(t)
    \/ \E e \in reg.versions : Rollback(e.version)
    \/ ExecNext \/ Restart

Spec == Init /\ [][Next]_vars

-----------------------------------------------------------------------------
(* Properties                                                              *)

Commits == 1..Len(log)
Registries == {reg} \cup {log[c].reg : c \in Commits}

Statuses == {"new", "running", "conversing", "finalizing", "cancelling",
             "pending_review", "published", "discarded", "failed"}
EntrySet == [version : Nat, commit : Nat, session : Sessions \cup {NoSession},
             mark : Marks]
RegistrySet == [prod : Nat, versions : SUBSET EntrySet]
CommitSet == [reg : RegistrySet, anc : SUBSET Nat]
Places == {"idle", "freeze", "probe", "probe again", "registered", "promote", "promoted",
           "recall", "recalled", "activate", "activating", "restore", "restored",
           "reactivate", "reactivating", "done", "undone", "withdrawn"}
ThreadSet == [pc : Places, s : Sessions \cup {NoSession}, ver : Nat, commit : Nat,
              prev : Nat, base : Nat, alone : BOOLEAN]

Shapes ==
    /\ status \in [Sessions -> Statuses]
    /\ round \in [Sessions -> {"none", "inspect", "landing"}]
    /\ dirty \in BOOLEAN
    /\ reg \in RegistrySet
    /\ log \in Seq(CommitSet)
    /\ thr \in [Threads -> ThreadSet]
    /\ disc \in [pc : {"idle", "reset", "close"}, s : Sessions \cup {NoSession},
                 commit : Nat, alone : BOOLEAN]
    /\ load \in [Loads -> [st : {"none", "asked", "answered", "error"}, c : Nat]]
    /\ used \in [request : 0..MaxRequests, upset : 0..MaxUpsets]

CommitsExist ==
    /\ head \in Commits /\ bare \in Commits /\ checkout \in Commits
    /\ probed \subseteq Commits
    /\ \A c \in Commits : log[c].anc \subseteq 1..c
    /\ \A r \in Registries : \A e \in r.versions : e.commit \in Commits \cup {Unbound}
    /\ disc.pc = "reset" => disc.commit \in Commits

\* The variables hold the kinds of values the code gives them, and every
\* commit that is named exists.
TypeOK == Shapes /\ CommitsExist

\* However publishes, rollbacks, discards and restarts interleave, every
\* registry.json, read, written or committed, numbers its versions uniquely,
\* has one version per session and names for it a commit the probe accepted:
\* a second publish of the same session never registers a second version,
\* and no version reaches the registry around the gate.
RegistrySound ==
    \A r \in Registries :
        \A e \in r.versions :
            /\ \A f \in r.versions : f.version = e.version => f = e
            /\ e.session # NoSession =>
                  /\ e.commit \in probed
                  /\ \A f \in r.versions : f.session = e.session => f = e

\* The executor never checks out a harness around the gate: late reloads,
\* reconciliations, resets and restarts included, what it serves is a commit
\* the probe accepted or the one a version without a session is bound to, the
\* image's own harness.
ServedIsGated ==
    \/ checkout \in probed
    \/ \E c \in Commits : \E e \in log[c].reg.versions :
           e.session = NoSession /\ e.commit = checkout

MarkOf(v) == {e.mark : e \in Entries(reg, v)}

\* A release that met no other ends all or nothing: confirmed, the registry,
\* the bare repository and the executor's checkout all name its version and
\* its session is published; taken back, all of them name the previous
\* version again, the session is open for review and its version is still a
\* candidate (a rollback's target still retired).
ReleaseSettles ==
    \A t \in Threads : thr[t].alone =>
        /\ thr[t].pc = "done" =>
              /\ reg.prod = thr[t].ver /\ log[bare].reg = reg
              /\ Target = thr[t].commit /\ checkout = Target
              /\ MarkOf(thr[t].ver) = {"production"}
              /\ t # Roller => status[thr[t].s] = "published"
        /\ thr[t].pc \in {"undone", "withdrawn"} =>
              /\ reg.prod = thr[t].prev /\ log[bare].reg = reg
              /\ MarkOf(thr[t].prev) = {"production"}
              /\ MarkOf(thr[t].ver) = {IF t = Roller THEN "retired" ELSE "candidate"}
              /\ t # Roller => status[thr[t].s] = "pending_review"
              /\ thr[t].pc = "undone" => checkout = Target

\* A published or discarded session keeps its status unless a release or a
\* discard of that very session overlapped with another one: no round, stop,
\* rollback or restart reopens it.
ClosedStays ==
    [][\A s \in Sessions : status[s] \in Closed /\ status'[s] # status[s] =>
          \/ \E p \in Publishers : thr[p].s = s /\ ~thr[p].alone
          \/ disc.s = s /\ ~disc.alone]_vars

=============================================================================
