----------------------------- MODULE DemoServer -----------------------------
(***************************************************************************)
(* The life of a demo session: /1.0/start, the pool of pre-allocated       *)
(* instances, the expiry timers, the periodic resync with Incus and the    *)
(* recovery at startup (api_session.go, session.go, main.go, utils.go) on  *)
(* top of the session table (db.go) and of the Incus daemon, which is      *)
(* external.                                                               *)
(*                                                                         *)
(* Every call to the database, to Incus or to muCreate is a step of its    *)
(* own, taken by the goroutine that makes it; what a goroutine does        *)
(* between two such calls belongs to the step of the first of them, except *)
(* that it reads the clock in the step of the call that follows.  A call   *)
(* that fails and changes nothing is one step with the next call, and so   *)
(* are those that configure and start an instance nobody else knows of.    *)
(* The goroutines are                                                      *)
(*   Requests   handlers of /1.0/start being served at the same time,      *)
(*   Workers    `go instancePreAllocate()` and its calls from a timer,     *)
(*   Boot       the goroutine of run() that connects and recovers,         *)
(*   Hourly     the loop that runs instanceResync() every hour,            *)
(*   timers     one time.AfterFunc goroutine each,                         *)
(*   parting    handlers of /1.0/info, one for each instance they delete.  *)
(*                                                                         *)
(* A definition whose name starts with Broken is its successor with a bug  *)
(* put in; the specification does not use it.  It is there to see that the *)
(* properties would notice such a bug.                                     *)
(***************************************************************************)
EXTENDS SessionTable

CONSTANTS
    Requests, Workers,          \* goroutines of each kind that exist at once
    Boot, Hourly,               \* the two single goroutines
    NoInst,                     \* "no instance chosen yet"
    LimitTotal, LimitIP,        \* config.Server.Limits (IP = 0: no limit)
    AllocateCount,              \* config.Instance.Allocate.Count
    AllocateExpiry,             \* config.Instance.Allocate.Expiry, in ticks
    SessionExpiry,              \* config.Session.Expiry, in ticks
    Faults,                     \* what may go wrong in the environment
    MaxFaults,                  \* bound: how many times it does
    MaxBacklog,                 \* bound: spawned workers not yet scheduled
    HoursPass                   \* bound: whether the hourly loop wakes up

\* "create": Incus refuses or fails a creation; "wait": the connection is lost
\* while an operation is awaited; "start": an instance cannot be configured,
\* started or queried; "delete": it cannot be stopped or deleted; "list":
\* GetInstanceNames fails; "read", "write": a statement fails; "encode": the
\* client is gone when it is answered; "poweroff": an instance stops by itself;
\* "crash": the server's process dies and is restarted.
FaultKinds == {"create", "wait", "start", "delete", "list", "read", "write",
               "encode", "poweroff", "crash"}

Creators == Requests \cup Workers \cup {Boot}
Resyncers == {Boot, Hourly}
Goroutines == Creators \cup {Hourly}

ASSUME ConstantsAssumption ==
    /\ LimitTotal \in Nat /\ LimitIP \in Nat
    /\ AllocateCount \in Nat /\ AllocateExpiry \in Nat /\ SessionExpiry \in Nat
    /\ Faults \subseteq FaultKinds /\ MaxFaults \in Nat /\ MaxBacklog \in Nat
    /\ HoursPass \in BOOLEAN
    /\ NoInst \notin Inst /\ NoIP \notin IP
    /\ Boot # Hourly
    /\ Requests \cap Workers = {}
    /\ {Boot, Hourly} \cap (Requests \cup Workers) = {}
    /\ Requests # {}
    /\ IsFiniteSet(Requests) /\ IsFiniteSet(Workers) /\ IsFiniteSet(Inst)

VARIABLES
    db,         \* the table of sessions
    inst,       \* the instances of Incus
    muCreate,   \* the lock of session.go
    pc,         \* where each goroutine is
    my,         \* the instance it works on
    client,     \* the address a handler serves
    deadline,   \* the instance_expiry it has computed for a claim, 0 without
    parting,    \* instances a handler of /1.0/info has stopped and will delete
    timers,     \* pending and running time.AfterFunc callbacks
    spawned,    \* goroutines at the first line of instancePreAllocate
    todo,       \* rows or names a loop of Boot or Hourly has still to visit
    fill,       \* instances Boot has still to pre-allocate
    abandoned,  \* (history) rows whose last keeper returned without moving them
    faults      \* (bound) faults that may still happen

\* What only handlers change.
handlers == <<client, deadline, parting>>

vars == <<db, inst, muCreate, pc, my, client, deadline, parting, timers, spawned, todo,
          fill, abandoned, faults>>

Mu == INSTANCE RWLock WITH Readers <- Creators, lock <- muCreate

Timer == [inst : Inst, kind : {"session", "pool"}, left : Nat,
          stage : {"armed", "checked", "stopped", "deleted"}]

\* LoadActive to Unlock of the resync, then the pre-allocations.
BootPC == {"down", "load", "restore", "halted", "expire", "purge", "purging",
           "purgerow", "lock", "list", "sweep", "drop", "dropping", "fill", "create",
           "await", "start", "poll", "undo", "record", "discard", "end"}
HourlyPC == {"off", "sleep", "lock", "list", "sweep", "drop", "dropping"}
RequestPC == {"idle", "total", "ip", "select", "claim", "wake", "wakestart",
              "wakepoll", "create", "await", "start", "poll", "undo", "record",
              "discard", "answer"}
WorkerPC == {"idle", "create", "await", "start", "poll", "undo", "record", "discard"}

DataTypes ==
    /\ inst \in [Inst -> {"absent", "creating", "stopped", "running"}]
    /\ Mu!TypeOK
    /\ client \in [Requests -> IP \cup {NoIP}]
    /\ deadline \in [Requests -> Nat]
    /\ parting \subseteq Inst
    /\ timers \subseteq Timer
    /\ spawned \in Nat
    /\ todo \subseteq [inst : Inst, expiry : Nat]
    /\ fill \in 0..AllocateCount
    /\ abandoned \subseteq Inst
    /\ faults \in 0..MaxFaults

ControlTypes ==
    /\ pc \in [Goroutines -> BootPC \cup HourlyPC \cup RequestPC]
    /\ pc[Boot] \in BootPC /\ pc[Hourly] \in HourlyPC
    /\ \A r \in Requests : pc[r] \in RequestPC
    /\ \A w \in Workers : pc[w] \in WorkerPC
    /\ my \in [Goroutines -> Inst \cup {NoInst}]

TypeOK == db \in Table /\ DataTypes /\ ControlTypes
-----------------------------------------------------------------------------
(* Steps *)

Fault(kind) == /\ kind \in Faults
               /\ faults > 0
               /\ faults' = faults - 1

NoFault == UNCHANGED faults

Go(g, to) == pc' = [pc EXCEPT ![g] = to]

\* The goroutine goes on with instance i.
GoWith(g, to, i) == /\ Go(g, to)
                    /\ my' = [my EXCEPT ![g] = i]

\* incusForceDelete: one call that stops the instance and one that deletes it,
\* which Incus refuses unless it is stopped by then.  The error of the first is
\* ignored, and so is that of the second by every caller: they go on.
Stopped(i) == IF inst[i] = "running" THEN [inst EXCEPT ![i] = "stopped"] ELSE inst

Deleted(i) == IF inst[i] = "stopped" THEN [inst EXCEPT ![i] = "absent"] ELSE inst

Stop(i) == \/ inst' = Stopped(i) /\ NoFault
           \/ Fault("delete") /\ UNCHANGED inst

Delete(i) == \/ inst' = Deleted(i) /\ NoFault
             \/ Fault("delete") /\ UNCHANGED inst

\* The same calls made because another has just failed: they may fail as well.
StopInOutage(i) == inst' \in {inst, Stopped(i)}

DeleteInOutage(i) == inst' \in {inst, Deleted(i)} /\ NoFault

\* uuid.NewRandom: a name nothing refers to.  The row of a session that ended
\* is forgotten when its name is taken again, which keeps the names finite.
Fresh(i) == /\ inst[i] = "absent"
            /\ ~ dbShouldExist(db, i)
            /\ \A g \in Goroutines : my[g] # i
            /\ \A t \in timers : t.inst # i
            /\ \A e \in todo : e.inst # i
            /\ i \notin parting

BrokenAfterFunc(i, kind, delay) ==  \* the callback does not wait
    timers' = timers \cup {[inst |-> i, kind |-> kind, left |-> 0, stage |-> "armed"]}

AfterFunc(i, kind, delay) ==
    timers' = timers \cup {[inst |-> i, kind |-> kind, left |-> delay, stage |-> "armed"]}
-----------------------------------------------------------------------------
(* instanceCreate and instanceStart *)

\* Where a creator goes when instanceCreate fails: a handler answers the error,
\* instancePreAllocate sleeps 30 seconds and tries again.
AfterFailure(g) == IF g \in Requests THEN "idle" ELSE "create"

BrokenLocks(g) == UNCHANGED muCreate  \* the lock is forgotten

Locks(g) == Mu!RLock(g)

BrokenUnlocks(g) == UNCHANGED muCreate  \* the deferred call is forgotten

\* The lock is released by the deferred RUnlock, whatever instanceCreate returns.
Unlocks(g) == IF pc[g] \in {"await", "start", "poll", "undo"} THEN Mu!RUnlock(g)
                                                              ELSE UNCHANGED muCreate

\* instanceCreate takes the lock and posts the creation.
CreateInstance(g) ==
    /\ pc[g] = "create"
    /\ \E i \in Inst :
        /\ Fresh(i)
        /\ Locks(g)
        /\ inst' = [inst EXCEPT ![i] = "creating"]
        /\ db' = dbDelete(db, i)
        /\ abandoned' = abandoned \ {i}
        /\ GoWith(g, "await", i)
    /\ NoFault
    /\ UNCHANGED <<handlers, timers, spawned, todo, fill>>

\* Reading the source instance or posting the creation fails.
CreateRefused(g) ==
    /\ pc[g] = "create"
    /\ muCreate.writer = "free"
    /\ Fault("create")
    /\ Go(g, AfterFailure(g))
    /\ UNCHANGED <<db, inst, muCreate, my, handlers, timers, spawned, todo, fill,
                   abandoned>>

\* rop.Wait returns: Incus has created the instance, or has given up on it.
AwaitCreated(g) ==
    /\ pc[g] = "await"
    /\ inst[my[g]] # "creating"
    /\ \/ /\ inst[my[g]] # "absent"
          /\ Go(g, "start")
          /\ UNCHANGED <<muCreate, my>>
       \/ /\ inst[my[g]] = "absent"
          /\ GoWith(g, AfterFailure(g), NoInst)
          /\ Unlocks(g)
    /\ NoFault
    /\ UNCHANGED <<db, inst, handlers, timers, spawned, todo, fill, abandoned>>

\* rop.Wait returns an error of its own while the creation goes on in Incus:
\* instanceCreate returns without deleting anything.
AwaitLost(g) ==
    /\ pc[g] = "await"
    /\ Fault("wait")
    /\ GoWith(g, AfterFailure(g), NoInst)
    /\ Unlocks(g)
    /\ UNCHANGED <<db, inst, handlers, timers, spawned, todo, fill, abandoned>>

\* The rest of instanceCreate up to the start operation.
StartInstance(g) ==
    /\ pc[g] = "start"
    /\ inst[my[g]] = "stopped"
    /\ inst' = [inst EXCEPT ![my[g]] = "running"]
    /\ Go(g, "poll")
    /\ NoFault
    /\ UNCHANGED <<db, muCreate, my, handlers, timers, spawned, todo, fill, abandoned>>

\* The end of instanceStart: the address and the ready command are polled for a
\* bounded time, after which the instance is taken as it is.
InstanceReady(g) ==
    /\ pc[g] = "poll"
    /\ inst[my[g]] # "absent"
    /\ Go(g, "record")
    /\ Unlocks(g)
    /\ NoFault
    /\ UNCHANGED <<db, inst, my, handlers, timers, spawned, todo, fill, abandoned>>

\* instanceStart on a claimed instance, which is running unless it stopped since.
ClaimedStopped(r) ==
    /\ pc[r] = "wake" /\ inst[my[r]] = "stopped"
    /\ Go(r, "wakestart")
    /\ NoFault
    /\ UNCHANGED <<db, inst, muCreate, my, handlers, timers, spawned, todo, fill,
                   abandoned>>

StartClaimed(r) ==
    /\ pc[r] = "wakestart" /\ inst[my[r]] = "stopped"
    /\ inst' = [inst EXCEPT ![my[r]] = "running"]
    /\ Go(r, "wakepoll")
    /\ NoFault
    /\ UNCHANGED <<db, muCreate, my, handlers, timers, spawned, todo, fill, abandoned>>

BrokenClaimedReady(r) ==  \* returns early when nothing had to be started
    /\ pc[r] = "wake" /\ inst[my[r]] = "running"
    /\ Go(r, "answer")
    /\ NoFault
    /\ UNCHANGED <<db, inst, muCreate, my, handlers, timers, spawned, todo, fill,
                   abandoned>>

\* It returns; restStartHandler arms the timer.
ClaimedReady(r) ==
    /\ \/ pc[r] = "wake" /\ inst[my[r]] = "running"
       \/ pc[r] = "wakepoll" /\ inst[my[r]] # "absent"
    /\ AfterFunc(my[r], "session", SessionExpiry)
    /\ Go(r, "answer")
    /\ NoFault
    /\ UNCHANGED <<db, inst, muCreate, my, handlers, spawned, todo, fill, abandoned>>

\* Incus has no such instance any more, or cannot configure, start or query it:
\* the creation fails, and the instance is stopped and deleted under the lock.
\* When it is instanceStart that fails, both functions do so; in an outage one
\* pair of calls stands for the two.
StartFails(g) ==
    /\ pc[g] \in {"start", "poll"}
    /\ \/ inst[my[g]] = "absent" /\ NoFault
       \/ Fault("start")
    /\ StopInOutage(my[g])
    /\ Go(g, "undo")
    /\ UNCHANGED <<db, muCreate, my, handlers, timers, spawned, todo, fill, abandoned>>

UndoCreation(g) ==
    /\ pc[g] = "undo"
    /\ DeleteInOutage(my[g])
    /\ GoWith(g, AfterFailure(g), NoInst)
    /\ Unlocks(g)
    /\ UNCHANGED <<db, handlers, timers, spawned, todo, fill, abandoned>>

\* The same for a claimed instance, which Incus also refuses to start when
\* another handler has: the error is answered, the row stays active and no timer
\* is armed.
ClaimedFails(r) ==
    /\ pc[r] \in {"wake", "wakestart", "wakepoll"}
    /\ \/ inst[my[r]] = "absent" /\ NoFault
       \/ pc[r] = "wakestart" /\ inst[my[r]] = "running" /\ NoFault
       \/ Fault("start")
    /\ StopInOutage(my[r])
    /\ Go(r, "discard")
    /\ abandoned' = abandoned \cup {my[r]}
    /\ UNCHANGED <<db, muCreate, my, handlers, timers, spawned, todo, fill>>
-----------------------------------------------------------------------------
(* restStartHandler *)

\* A request that is not refused for its method, address, terms, or the
\* blocklist; those refusals change nothing.  While incusDaemon is nil (or the
\* process is down) every request is refused.
Arrive(r) ==
    /\ pc[r] = "idle"
    /\ pc[Boot] # "down"
    /\ spawned < MaxBacklog
    /\ \E a \in IP : client' = [client EXCEPT ![r] = a]
    /\ Go(r, "total")
    /\ NoFault
    /\ UNCHANGED <<db, inst, muCreate, my, deadline, parting, timers, spawned, todo, fill,
                   abandoned>>

BrokenFull == dbActiveCount(db) > LimitTotal  \* off by one

Full == dbActiveCount(db) >= LimitTotal

\* Count running instances; a count that fails reads as a full server.
CheckTotal(r) ==
    /\ pc[r] = "total"
    /\ \/ ~ Full /\ Go(r, "ip") /\ NoFault
       \/ Full /\ Go(r, "idle") /\ NoFault
       \/ Fault("read") /\ Go(r, "idle")
    /\ UNCHANGED <<db, inst, muCreate, my, handlers, timers, spawned, todo, fill,
                   abandoned>>

BrokenQuotaReached(count) == LimitIP # 0 /\ count > LimitIP  \* off by one

QuotaReached(count) == LimitIP # 0 /\ count >= LimitIP

\* Count the instances of this client; a count that fails reads as its quota.
CheckIP(r) ==
    /\ pc[r] = "ip"
    /\ LET answer(count) == Go(r, IF QuotaReached(count) THEN "idle" ELSE "select")
       IN  \/ answer(dbActiveCountForIP(db, client[r])) /\ NoFault
           \/ answer(LimitIP) /\ Fault("read")
    /\ UNCHANGED <<db, inst, muCreate, my, handlers, timers, spawned, todo, fill,
                   abandoned>>

\* The expiry of a claimed row is computed, and dbGetAllocated makes its SELECT:
\* without a row to use, instanceCreate follows.
SelectAllocated(r) ==
    /\ pc[r] = "select"
    /\ \/ /\ AllocateCount # 0
          /\ \E i \in dbOldestAllocated(db) : GoWith(r, "claim", i)
          /\ deadline' = [deadline EXCEPT ![r] = SessionExpiry]
          /\ NoFault
       \/ /\ AllocateCount = 0 \/ dbAllocated(db) = {}
          /\ Go(r, "create")
          /\ NoFault /\ UNCHANGED <<my, deadline>>
       \/ /\ AllocateCount # 0
          /\ Fault("read")
          /\ Go(r, "create")
          /\ UNCHANGED <<my, deadline>>
    /\ UNCHANGED <<db, inst, muCreate, client, parting, timers, spawned, todo, fill,
                   abandoned>>

BrokenSpawn == UNCHANGED spawned  \* no replacement

\* go instancePreAllocate(), or its call at the end of a callback.
Spawn == spawned' = spawned + 1

NoDeadline(r) == deadline' = [deadline EXCEPT ![r] = 0]

BrokenClaimAllocated(r) ==  \* the expiry is computed as late as the claim
    /\ pc[r] = "claim"
    /\ db' = dbClaim(db, my[r], client[r], SessionExpiry)
    /\ NoDeadline(r)
    /\ Spawn
    /\ Go(r, "wake")
    /\ NoFault
    /\ UNCHANGED <<inst, muCreate, my, client, parting, timers, todo, fill, abandoned>>

\* dbGetAllocated, the UPDATE of the row that was selected; the replacement is
\* then spawned.
ClaimAllocated(r) ==
    /\ pc[r] = "claim"
    /\ db' = dbClaim(db, my[r], client[r], deadline[r])
    /\ NoDeadline(r)
    /\ Spawn
    /\ Go(r, "wake")
    /\ NoFault
    /\ UNCHANGED <<inst, muCreate, my, client, parting, timers, todo, fill, abandoned>>

ClaimFails(r) ==
    /\ pc[r] = "claim"
    /\ Fault("write")
    /\ NoDeadline(r)
    /\ GoWith(r, "create", NoInst)
    /\ UNCHANGED <<db, inst, muCreate, client, parting, timers, spawned, todo, fill,
                   abandoned>>

\* The new instance is recorded and its expiry armed, both from the same reading
\* of the clock.
RecordSession(r) ==
    /\ pc[r] = "record"
    /\ db' = dbNew(db, my[r], "active", client[r], SessionExpiry)
    /\ AfterFunc(my[r], "session", SessionExpiry)
    /\ Go(r, "answer")
    /\ NoFault
    /\ UNCHANGED <<inst, muCreate, my, handlers, spawned, todo, fill, abandoned>>

\* Where instancePreAllocate returns to: main.go's loop goes on after a success
\* and gives up after an error.
Returns(g, ok) == IF g = Boot THEN IF ok THEN "fill" ELSE "end" ELSE "idle"

\* dbNew fails: the instance is deleted, and the error answered or returned.
RecordFails(g) ==
    /\ pc[g] = "record"
    /\ Fault("write")
    /\ StopInOutage(my[g])
    /\ Go(g, "discard")
    /\ UNCHANGED <<db, muCreate, my, handlers, timers, spawned, todo, fill, abandoned>>

\* The session is answered; when that fails its instance is deleted at once and
\* the row is left to its timer.
Answer(r) ==
    /\ pc[r] = "answer"
    /\ \/ UNCHANGED inst /\ NoFault /\ GoWith(r, "idle", NoInst)
       \/ Fault("encode") /\ StopInOutage(my[r]) /\ Go(r, "discard") /\ UNCHANGED my
    /\ UNCHANGED <<db, muCreate, handlers, timers, spawned, todo, fill, abandoned>>

\* The second call of a deletion outside the lock, after which the function that
\* failed returns.
Discard(g) ==
    /\ pc[g] = "discard"
    /\ DeleteInOutage(my[g])
    /\ GoWith(g, Returns(g, FALSE), NoInst)
    /\ UNCHANGED <<db, muCreate, handlers, timers, spawned, todo, fill, abandoned>>

\* restInfoHandler on a session whose client is gone: the same deletion.
InfoFails(i) ==
    /\ pc[Boot] # "down"
    /\ db[i].status # "none"
    /\ i \notin parting
    /\ Fault("encode")
    /\ StopInOutage(i)
    /\ parting' = parting \cup {i}
    /\ UNCHANGED <<db, muCreate, pc, my, client, deadline, timers, spawned, todo, fill,
                   abandoned>>

InfoDeletes(i) ==
    /\ i \in parting
    /\ DeleteInOutage(i)
    /\ parting' = parting \ {i}
    /\ UNCHANGED <<db, muCreate, pc, my, client, deadline, timers, spawned, todo, fill,
                   abandoned>>
-----------------------------------------------------------------------------
(* instancePreAllocate *)

\* A goroutine started for instancePreAllocate is scheduled.
WorkerStarts(w) ==
    /\ pc[w] = "idle"
    /\ spawned > 0
    /\ spawned' = spawned - 1
    /\ Go(w, "create")
    /\ NoFault
    /\ UNCHANGED <<db, inst, muCreate, my, handlers, timers, todo, fill, abandoned>>

RecordAllocated(g) ==
    /\ pc[g] = "record"
    /\ db' = dbNew(db, my[g], "allocated", NoIP, AllocateExpiry)
    /\ AfterFunc(my[g], "pool", AllocateExpiry)
    /\ GoWith(g, Returns(g, TRUE), NoInst)
    /\ fill' = IF g = Boot THEN fill - 1 ELSE fill
    /\ NoFault
    /\ UNCHANGED <<inst, muCreate, handlers, spawned, todo, abandoned>>
-----------------------------------------------------------------------------
(* time.AfterFunc callbacks *)

Due(t, kind, stage) == t.kind = kind /\ t.stage = stage /\ t.left = 0

Advance(t, stage) == timers' = (timers \ {t}) \cup {[t EXCEPT !.stage = stage]}

Drop(t) == timers' = timers \ {t}

\* The callback of a session: stop, delete, then dbExpire.
SessionTimerStops(t) ==
    /\ Due(t, "session", "armed")
    /\ Stop(t.inst)
    /\ Advance(t, "stopped")
    /\ UNCHANGED <<db, muCreate, pc, my, handlers, spawned, todo, fill, abandoned>>

SessionTimerDeletes(t) ==
    /\ Due(t, "session", "stopped")
    /\ Delete(t.inst)
    /\ Advance(t, "deleted")
    /\ UNCHANGED <<db, muCreate, pc, my, handlers, spawned, todo, fill, abandoned>>

SessionTimerExpires(t) ==
    /\ Due(t, "session", "deleted")
    /\ \/ NoFault /\ db' = dbExpire(db, t.inst) /\ UNCHANGED abandoned
       \/ Fault("write") /\ abandoned' = abandoned \cup {t.inst} /\ UNCHANGED db
    /\ Drop(t)
    /\ UNCHANGED <<inst, muCreate, pc, my, handlers, spawned, todo, fill>>

\* The callback of a pre-allocated instance: unless it has been claimed (or that
\* cannot be read), stop, delete, dbDelete and a replacement.
PoolTimerChecks(t) ==
    /\ Due(t, "pool", "armed")
    /\ \/ /\ dbIsAllocated(db, t.inst)
          /\ Advance(t, "checked")
          /\ NoFault /\ UNCHANGED abandoned
       \/ /\ ~ dbIsAllocated(db, t.inst)
          /\ Drop(t)
          /\ NoFault /\ UNCHANGED abandoned
       \/ /\ Fault("read")
          /\ Drop(t)
          /\ abandoned' = abandoned \cup {t.inst}
    /\ UNCHANGED <<db, inst, muCreate, pc, my, handlers, spawned, todo, fill>>

PoolTimerStops(t) ==
    /\ Due(t, "pool", "checked")
    /\ Stop(t.inst)
    /\ Advance(t, "stopped")
    /\ UNCHANGED <<db, muCreate, pc, my, handlers, spawned, todo, fill, abandoned>>

PoolTimerDeletes(t) ==
    /\ Due(t, "pool", "stopped")
    /\ Delete(t.inst)
    /\ Advance(t, "deleted")
    /\ UNCHANGED <<db, muCreate, pc, my, handlers, spawned, todo, fill, abandoned>>

PoolTimerReplaces(t) ==
    /\ Due(t, "pool", "deleted")
    /\ \/ NoFault /\ db' = dbDelete(db, t.inst) /\ UNCHANGED abandoned
       \/ Fault("write") /\ abandoned' = abandoned \cup {t.inst} /\ UNCHANGED db
    /\ Drop(t)
    /\ Spawn
    /\ UNCHANGED <<inst, muCreate, pc, my, handlers, todo, fill>>
-----------------------------------------------------------------------------
(* run(): connection and recovery *)

HasTimer(i, kind) == \E t \in timers : t.inst = i /\ t.kind = kind

\* A handler has claimed i and will arm its timer.
Waking(i) ==
    \E r \in Requests : pc[r] \in {"wake", "wakestart", "wakepoll"} /\ my[r] = i

\* The rows that only the recovery would have attended to.
Unkept == {i \in dbActive(db) : ~ HasTimer(i, "session") /\ ~ Waking(i)}
          \cup {i \in dbAllocated(db) : ~ HasTimer(i, "pool")}

BrokenSnapshot(S) ==  \* rows already overdue are not read
    {[inst |-> i, expiry |-> db[i].expiry] : i \in {j \in S : db[j].expiry > 0}}

Snapshot(S) == {[inst |-> i, expiry |-> db[i].expiry] : i \in S}

\* Incus answers; incusDaemon is set and requests are served from here on.
Connect ==
    /\ pc[Boot] = "down"
    /\ Go(Boot, "load")
    /\ NoFault
    /\ UNCHANGED <<db, inst, muCreate, my, handlers, timers, spawned, todo, fill,
                   abandoned>>

\* dbActive: the sessions to restore; without them the goroutine returns.
LoadActive ==
    /\ pc[Boot] = "load"
    /\ \/ /\ todo' = Snapshot(dbActive(db))
          /\ Go(Boot, "restore")
          /\ NoFault /\ UNCHANGED abandoned
       \/ /\ Fault("read")
          /\ Go(Boot, "end")
          /\ abandoned' = abandoned \cup Unkept
          /\ UNCHANGED todo
    /\ UNCHANGED <<db, inst, muCreate, my, handlers, timers, spawned, fill>>

BrokenRestoreActive(e) ==  \* no timer is armed
    /\ pc[Boot] = "restore"
    /\ e.expiry > 0
    /\ todo' = todo \ {e}
    /\ NoFault
    /\ UNCHANGED <<db, inst, muCreate, pc, my, handlers, timers, spawned, fill, abandoned>>

\* One session of the snapshot: its timer is armed for the time that is left...
RestoreActive(e) ==
    /\ pc[Boot] = "restore"
    /\ e.expiry > 0
    /\ AfterFunc(e.inst, "session", e.expiry)
    /\ todo' = todo \ {e}
    /\ NoFault
    /\ UNCHANGED <<db, inst, muCreate, pc, my, handlers, spawned, fill, abandoned>>

\* ... or it is deleted, when none is.
RestoreExpired(e) ==
    /\ pc[Boot] = "restore"
    /\ e.expiry = 0
    /\ Stop(e.inst)
    /\ todo' = todo \ {e}
    /\ GoWith(Boot, "halted", e.inst)
    /\ UNCHANGED <<db, muCreate, handlers, timers, spawned, fill, abandoned>>

\* The second call of a deletion of the recovery: the row is next.
RecoveryDeletes ==
    /\ pc[Boot] \in {"halted", "purging"}
    /\ Delete(my[Boot])
    /\ Go(Boot, IF pc[Boot] = "halted" THEN "expire" ELSE "purgerow")
    /\ UNCHANGED <<db, muCreate, my, handlers, timers, spawned, todo, fill, abandoned>>

ExpireRow ==
    /\ pc[Boot] = "expire"
    /\ \/ NoFault /\ db' = dbExpire(db, my[Boot]) /\ UNCHANGED abandoned
       \/ Fault("write") /\ abandoned' = abandoned \cup {my[Boot]} /\ UNCHANGED db
    /\ GoWith(Boot, "restore", NoInst)
    /\ UNCHANGED <<inst, muCreate, handlers, timers, spawned, todo, fill>>

\* dbAllocated: what is left of the former pool.
LoadAllocated ==
    /\ pc[Boot] = "restore"
    /\ todo = {}
    /\ \/ /\ todo' = Snapshot(dbAllocated(db))
          /\ Go(Boot, "purge")
          /\ NoFault /\ UNCHANGED abandoned
       \/ /\ Fault("read")
          /\ Go(Boot, "end")
          /\ abandoned' = abandoned \cup Unkept
          /\ UNCHANGED todo
    /\ UNCHANGED <<db, inst, muCreate, my, handlers, timers, spawned, fill>>

PurgeAllocated(e) ==
    /\ pc[Boot] = "purge"
    /\ Stop(e.inst)
    /\ todo' = todo \ {e}
    /\ GoWith(Boot, "purging", e.inst)
    /\ UNCHANGED <<db, muCreate, handlers, timers, spawned, fill, abandoned>>

PurgeRow ==
    /\ pc[Boot] = "purgerow"
    /\ \/ NoFault /\ db' = dbDelete(db, my[Boot]) /\ UNCHANGED abandoned
       \/ Fault("write") /\ abandoned' = abandoned \cup {my[Boot]} /\ UNCHANGED db
    /\ GoWith(Boot, "purge", NoInst)
    /\ UNCHANGED <<inst, muCreate, handlers, timers, spawned, todo, fill>>

BrokenPreAllocateNext ==  \* does not stop at Count
    /\ pc[Boot] = "fill"
    /\ Go(Boot, "create")
    /\ NoFault
    /\ UNCHANGED <<db, inst, muCreate, my, handlers, timers, spawned, todo, fill,
                   abandoned>>

PreAllocateNext ==
    /\ pc[Boot] = "fill"
    /\ Go(Boot, IF fill = 0 THEN "end" ELSE "create")
    /\ NoFault
    /\ UNCHANGED <<db, inst, muCreate, my, handlers, timers, spawned, todo, fill,
                   abandoned>>
-----------------------------------------------------------------------------
(* instanceResync, called by Boot once and by Hourly every hour *)

BrokenResyncDue(g) == g = Boot /\ pc[g] = "purge" /\ todo = {}  \* at startup only

ResyncDue(g) ==
    \/ g = Boot /\ pc[g] = "purge" /\ todo = {}
    \/ g = Hourly /\ pc[g] = "sleep" /\ HoursPass

ResyncWaits(g) ==
    /\ ResyncDue(g)
    /\ Mu!Announce
    /\ Go(g, "lock")
    /\ NoFault
    /\ UNCHANGED <<db, inst, my, handlers, timers, spawned, todo, fill, abandoned>>

ResyncLocks(g) ==
    /\ pc[g] = "lock"
    /\ Mu!Acquire
    /\ Go(g, "list")
    /\ NoFault
    /\ UNCHANGED <<db, inst, my, handlers, timers, spawned, todo, fill, abandoned>>

\* GetInstanceNames.
ListInstances(g) ==
    /\ pc[g] = "list"
    /\ todo' = Snapshot({i \in Inst : inst[i] # "absent"})
    /\ Go(g, "sweep")
    /\ NoFault
    /\ UNCHANGED <<db, inst, muCreate, my, handlers, timers, spawned, fill, abandoned>>

\* dbShouldExist for one of the names: what the database does not know of goes.
CheckInstance(g, e) ==
    /\ pc[g] = "sweep"
    /\ todo' = todo \ {e}
    /\ IF dbShouldExist(db, e.inst) THEN UNCHANGED <<pc, my>>
                                    ELSE GoWith(g, "drop", e.inst)
    /\ NoFault
    /\ UNCHANGED <<db, inst, muCreate, handlers, timers, spawned, fill, abandoned>>

DropStops(g) ==
    /\ pc[g] = "drop"
    /\ Stop(my[g])
    /\ Go(g, "dropping")
    /\ UNCHANGED <<db, muCreate, my, handlers, timers, spawned, todo, fill, abandoned>>

DropDeletes(g) ==
    /\ pc[g] = "dropping"
    /\ Delete(my[g])
    /\ GoWith(g, "sweep", NoInst)
    /\ UNCHANGED <<db, muCreate, handlers, timers, spawned, todo, fill, abandoned>>

\* The deferred Unlock, at the end or on an error.  After the first resync Boot
\* starts the hourly loop and fills the pool, unless there was an error.
Resynced(g, ok) ==
    /\ Mu!Unlock
    /\ todo' = {}
    /\ IF g = Boot /\ ok
         THEN /\ pc' = [pc EXCEPT ![Boot] = "fill", ![Hourly] = "sleep"]
              /\ fill' = AllocateCount
         ELSE /\ Go(g, IF g = Boot THEN "end" ELSE "sleep")
              /\ UNCHANGED fill
    /\ UNCHANGED <<db, inst, my, handlers, timers, spawned, abandoned>>

ResyncEnds(g) ==
    /\ pc[g] = "sweep"
    /\ todo = {}
    /\ Resynced(g, TRUE)
    /\ NoFault

ResyncFails(g) ==
    /\ \/ pc[g] = "list" /\ Fault("list")
       \/ pc[g] = "sweep" /\ todo # {} /\ Fault("read")
    /\ Resynced(g, FALSE)
-----------------------------------------------------------------------------
(* The environment *)

\* Incus completes a creation, or gives up on it.
IncusCreates(i) ==
    /\ inst[i] = "creating"
    /\ \/ inst' = [inst EXCEPT ![i] = "stopped"] /\ NoFault
       \/ inst' = [inst EXCEPT ![i] = "absent"] /\ Fault("create")
    /\ UNCHANGED <<db, muCreate, pc, my, handlers, timers, spawned, todo, fill, abandoned>>

PowerOff(i) ==
    /\ inst[i] = "running"
    /\ Fault("poweroff")
    /\ inst' = [inst EXCEPT ![i] = "stopped"]
    /\ UNCHANGED <<db, muCreate, pc, my, handlers, timers, spawned, todo, fill, abandoned>>

\* Time passes for rows, deadlines, timers and the snapshot of Boot alike.
Tick ==
    /\ db' = Aged(db)
    /\ deadline' = [r \in Requests |-> Sooner(deadline[r])]
    /\ timers' = {[t EXCEPT !.left = Sooner(@)] : t \in timers}
    /\ todo' = {[e EXCEPT !.expiry = Sooner(@)] : e \in todo}
    /\ NoFault
    /\ UNCHANGED <<inst, muCreate, pc, my, client, parting, spawned, fill, abandoned>>

\* The process dies: only the database and Incus survive.
Crash ==
    /\ Fault("crash")
    /\ muCreate' = Mu!Free
    /\ pc' = [g \in Goroutines |-> IF g = Boot THEN "down"
                                   ELSE IF g = Hourly THEN "off" ELSE "idle"]
    /\ my' = [g \in Goroutines |-> NoInst]
    /\ client' = [r \in Requests |-> NoIP]
    /\ deadline' = [r \in Requests |-> 0] /\ parting' = {}
    /\ timers' = {} /\ todo' = {} /\ abandoned' = {}
    /\ spawned' = 0 /\ fill' = 0
    /\ UNCHANGED <<db, inst>>
-----------------------------------------------------------------------------
Init ==
    /\ db = [i \in Inst |-> NoRow]
    /\ inst = [i \in Inst |-> "absent"]
    /\ muCreate = Mu!Free
    /\ pc = [g \in Goroutines |-> IF g = Boot THEN "down"
                                  ELSE IF g = Hourly THEN "off" ELSE "idle"]
    /\ my = [g \in Goroutines |-> NoInst]
    /\ client = [r \in Requests |-> NoIP]
    /\ deadline = [r \in Requests |-> 0] /\ parting = {}
    /\ timers = {} /\ todo = {} /\ abandoned = {}
    /\ spawned = 0 /\ fill = 0
    /\ faults = MaxFaults

Creation(g) ==
    \/ CreateInstance(g) \/ CreateRefused(g) \/ AwaitCreated(g) \/ AwaitLost(g)
    \/ StartInstance(g) \/ InstanceReady(g) \/ StartFails(g)
    \/ UndoCreation(g) \/ RecordFails(g) \/ Discard(g)

Handler(r) ==
    \/ CheckTotal(r) \/ CheckIP(r) \/ SelectAllocated(r) \/ ClaimAllocated(r)
    \/ ClaimFails(r) \/ ClaimedStopped(r) \/ StartClaimed(r) \/ ClaimedReady(r)
    \/ ClaimedFails(r) \/ RecordSession(r) \/ Answer(r)

Timers(t) ==
    \/ SessionTimerStops(t) \/ SessionTimerDeletes(t) \/ SessionTimerExpires(t)
    \/ PoolTimerChecks(t) \/ PoolTimerStops(t) \/ PoolTimerDeletes(t)
    \/ PoolTimerReplaces(t)

Recovery ==
    \/ Connect \/ LoadActive \/ RecoveryDeletes \/ ExpireRow \/ LoadAllocated
    \/ PurgeRow \/ PreAllocateNext
    \/ \E e \in todo : RestoreActive(e) \/ RestoreExpired(e) \/ PurgeAllocated(e)

Resync(g) ==
    \/ ResyncWaits(g) \/ ResyncLocks(g) \/ ListInstances(g)
    \/ \E e \in todo : CheckInstance(g, e)
    \/ DropStops(g) \/ DropDeletes(g) \/ ResyncEnds(g) \/ ResyncFails(g)

Environment ==
    \/ \E r \in Requests : Arrive(r)
    \/ \E i \in Inst : InfoFails(i) \/ PowerOff(i)
    \/ Crash

Next ==
    \/ \E g \in Creators : Creation(g)
    \/ \E r \in Requests : Handler(r)
    \/ \E w \in Workers : WorkerStarts(w)
    \/ \E g \in Workers \cup {Boot} : RecordAllocated(g)
    \/ \E t \in timers : Timers(t)
    \/ Recovery
    \/ \E g \in Resyncers : Resync(g)
    \/ \E i \in Inst : IncusCreates(i) \/ InfoDeletes(i)
    \/ Tick
    \/ Environment

Spec == Init /\ [][Next]_vars
=============================================================================
