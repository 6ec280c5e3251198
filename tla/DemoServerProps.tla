-------------------------- MODULE DemoServerProps --------------------------
(***************************************************************************)
(* What DemoServer is meant to guarantee.                                  *)
(***************************************************************************)
EXTENDS DemoServer

Sweeping(g) == pc[g] \in {"list", "sweep", "drop", "dropping"}
Creating(g) == pc[g] \in {"await", "start", "poll", "undo"}

\* muCreate does what session.go:15 says: while a resync lists and deletes
\* instances, no goroutine is between the first and the last call of
\* instanceCreate.
NoCreateDuringResync ==
    \A g \in Resyncers, c \in Creators : Sweeping(g) => ~ Creating(c)

RecoveryPending(i, loading, visiting, last) ==
    \/ pc[Boot] \in loading
    \/ pc[Boot] \in visiting /\ \E e \in todo : e.inst = i
    \/ pc[Boot] \in last /\ my[Boot] = i

\* Every active row has a keeper that will end it: a timer, the handler that
\* has claimed it, or the recovery at startup.  The only rows without one are
\* those whose last keeper returned early.
ActiveKept ==
    \A i \in dbActive(db) :
        \/ HasTimer(i, "session")
        \/ Waking(i)
        \/ RecoveryPending(i, {"down", "load"}, {"restore", "halted", "expire"},
                           {"halted", "expire"})
        \/ i \in abandoned

\* The same for the rows of the pool: a pool timer, or the purge at startup.
AllocatedKept ==
    \A i \in dbAllocated(db) :
        \/ HasTimer(i, "pool")
        \/ RecoveryPending(i, {"down", "load", "restore", "halted", "expire"},
                           {"purge", "purging", "purgerow"}, {"purging", "purgerow"})
        \/ i \in abandoned

\* Handlers that have passed the check of the total (of the client's quota) and
\* have not yet written the row it was made for.
Admitted == {r \in Requests : pc[r] \in {"ip", "select", "claim", "create",
                                         "await", "start", "poll", "record"}}
AdmittedFor(a) == {r \in Admitted : pc[r] # "ip" /\ client[r] = a}

\* The limits are read long before the row they guard is written.  With N
\* handlers at work they are overshot by at most N - 1, whatever the pool, the
\* timers and restarts do meanwhile.
TotalOvershoot ==
    dbActiveCount(db) + Cardinality(Admitted) < LimitTotal + Cardinality(Requests)

IPOvershoot ==
    LimitIP # 0 =>
        \A a \in IP : dbActiveCountForIP(db, a) + Cardinality(AdmittedFor(a))
                        < LimitIP + Cardinality(Requests)

\* No callback ends a session before the expiry its row was given, although two
\* handlers may be given the same row and both arm a timer for it, and although
\* the expiry is computed long before the timer is armed (api_session.go:100,
\* 156).  That is as long as the process lives: after a restart the recovery may
\* go by the expiry of the first of two claims.
TimersNotEarly ==
    \A t \in timers :
        t.kind = "session" /\ db[t.inst].status = "active" => db[t.inst].expiry =< t.left
-----------------------------------------------------------------------------
Fairness ==
    /\ \A g \in Creators : WF_vars(Creation(g)) /\ SF_vars(CreateInstance(g))
    /\ \A r \in Requests : WF_vars(Handler(r))
    /\ WF_vars(\E w \in Workers : WorkerStarts(w))
    /\ \A g \in Workers \cup {Boot} : WF_vars(RecordAllocated(g))
    /\ \A i \in Inst : WF_vars(\E t \in timers : t.inst = i /\ Timers(t))
    /\ WF_vars(Recovery)
    /\ \A g \in Resyncers : WF_vars(Resync(g))
    /\ \A i \in Inst : WF_vars(IncusCreates(i)) /\ WF_vars(InfoDeletes(i))
    /\ WF_vars(Tick)

FairSpec == Spec /\ Fairness
-----------------------------------------------------------------------------
\* A session ends: no active row stays active for ever, except one abandoned.
ActiveExpires ==
    \A i \in Inst : db[i].status = "active" ~> db[i].status # "active" \/ i \in abandoned

\* Every request gets its answer, however creations and resyncs take turns at
\* the lock.
StartAnswered == \A r \in Requests : pc[r] # "idle" ~> pc[r] = "idle"

Orphan(i) == inst[i] # "absent" /\ ~ dbShouldExist(db, i)

\* An instance no row records, left behind by a crash, an operation lost in
\* flight or a failed deletion, does not stay for ever.
OrphansCollected == \A i \in Inst : Orphan(i) ~> ~ Orphan(i)

\* The pool is refilled again and again, whatever claims and expiries take away.
PoolRefilled == []<>(Cardinality(dbAllocated(db)) >= AllocateCount)

\* "The server is currently full, please try again in a few minutes"
\* (static/index.html): a full server has room again some time later.
FullClears == dbActiveCount(db) >= LimitTotal ~> dbActiveCount(db) < LimitTotal
-----------------------------------------------------------------------------
\* A row as the promise sees it: the pool is not part of it.
PromisedState(row) == CASE row.status = "active" -> "open"
                        [] row.status = "expired" -> "closed"
                        [] OTHER -> "none"

Promise == INSTANCE SessionPromise WITH
    Session <- Inst, Life <- SessionExpiry,
    state <- [i \in Inst |-> PromisedState(db[i])],
    left <- [i \in Inst |-> db[i].expiry]

\* Without a pool the rows of the table live as the README promises, across
\* restarts and double restoration included.
KeepsPromise == Promise!Spec
-----------------------------------------------------------------------------
(* What comments and pages of the repository say, and the code does not keep. *)

\* "The demo server is currently running N user sessions out of M"
\* (static/index.html): never more than M.
WithinTotal == dbActiveCount(db) =< LimitTotal

\* "Find oldest pre-allocated instance" (db.go): the row a request is given is
\* still a pre-allocated one when it is given.
ClaimTakesAllocated ==
    [][\A r \in Requests : ClaimAllocated(r) => dbIsAllocated(db, my[r])]_vars

\* "Make sure no instances get spawned during cleanup" (session.go): what the
\* cleanup deletes is not an instance some goroutine has just created and is
\* about to record.
DropsOnlyOrphans ==
    [][\A g \in Resyncers : DropDeletes(g) /\ inst' # inst =>
          \A c \in Creators : ~ (pc[c] = "record" /\ my[c] = my[g])]_vars
=============================================================================
