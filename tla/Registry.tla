------------------------------ MODULE Registry ------------------------------
(***************************************************************************)
(* registry.json of the harness repository: the versions, each bound to a  *)
(* commit, and the production pointer.  Every operation of the code reads  *)
(* the whole file, computes the new contents and writes the whole file: an *)
(* operator here is the computation between the read and the write.        *)
(* Scores, summaries, parents and the rollback log are left out: no        *)
(* decision depends on them.                                               *)
(***************************************************************************)
EXTENDS Integers

Unbound == 0        \* commit of an entry older than explicit binding
NoVersion == 0      \* production pointer of an empty registry

Marks == {"plain", "candidate", "production", "retired"}

Entries(r, v) == {e \in r.versions : e.version = v}
OfSession(r, s) == {e \in r.versions : e.session = s}

HasProduction(r) == Entries(r, r.prod) # {}

CommitOf(r, v) == (CHOOSE e \in Entries(r, v) : TRUE).commit

\* get_version_commit of the production version; what the executor resolves
ProductionCommit(r) == IF HasProduction(r) THEN CommitOf(r, r.prod) ELSE Unbound

NextVersion(r) ==
    IF r.versions = {} THEN 1
    ELSE 1 + (CHOOSE v \in {e.version : e \in r.versions} :
                 \A e \in r.versions : e.version <= v)

\* Writes marks into the entries whose version is in the domain of mark
Marked(r, mark) ==
    {IF e.version \in DOMAIN mark THEN [e EXCEPT !.mark = mark[e.version]] ELSE e :
        e \in r.versions}

\* Mutant: the entry is written without looking at what is there.
RegistrableAlways(r, v, s) == TRUE

\* create_candidate's check of number and session
Registrable(r, v, s) == Entries(r, v) = {} /\ OfSession(r, s) = {}

WithCandidate(r, v, c, s) ==
    [r EXCEPT !.versions =
        @ \cup {[version |-> v, commit |-> c, session |-> s, mark |-> "candidate"]}]

Promotable(r, v) == \E e \in Entries(r, v) : e.mark = "candidate"

Promoted(r, v) ==
    [prod |-> v,
     versions |-> Marked(r, [x \in {r.prod, v} |->
                                IF x = v THEN "production" ELSE "retired"])]

\* Mutant: the pointer moves back, the marks stay.
RestoredPointer(r, previous, failed) == [r EXCEPT !.prod = previous]

\* restore_production: the failed version is a candidate again
Restored(r, previous, failed) ==
    [prod |-> previous,
     versions |-> Marked(r, [x \in {previous, failed} |->
                                IF x = failed THEN "candidate" ELSE "production"])]

Returnable(r, v) ==
    \E e \in Entries(r, v) : e.mark # "candidate" /\ e.commit # Unbound

RolledBack(r, v) ==
    [prod |-> v,
     versions |-> Marked(r, [x \in {r.prod, v} |->
                                IF x = r.prod THEN "retired" ELSE "production"])]

\* restore_failed_rollback: the failed target is retired again
RollbackUndone(r, previous, failed) ==
    [prod |-> previous,
     versions |-> Marked(r, [x \in {previous, failed} |->
                                IF x = failed THEN "retired" ELSE "production"])]

\* prune_unexecutable_history_and_bind_production
Pruned(r, c) ==
    IF ~HasProduction(r) THEN r
    ELSE [r EXCEPT !.versions =
            {IF e.version = r.prod /\ e.commit = Unbound THEN [e EXCEPT !.commit = c]
                                                         ELSE e :
                e \in {x \in r.versions : x.commit # Unbound \/ x.version = r.prod}}]
=============================================================================
