------------------------ MODULE DemoServerKeepProofs ------------------------
(***************************************************************************)
(* No row of the table is left without somebody to end it, for every value *)
(* of the constants: a timer, a handler or the recovery at startup keeps   *)
(* it, or its last keeper returned early.  And without a pool nobody ends  *)
(* it before its time: the table implements SessionPromise.                *)
(***************************************************************************)
EXTENDS DemoServerProofs

KeptInv == ActiveKept /\ AllocatedKept
-----------------------------------------------------------------------------
\* What each statement of db.go does to the set of active rows and to the pool.
LEMMA ActiveRows ==
    ASSUME NEW t \in Table, NEW i \in Inst
    PROVE  /\ \A a, n : dbActive(dbNew(t, i, "active", a, n)) = dbActive(t) \cup {i}
           /\ \A a, n : dbActive(dbNew(t, i, "allocated", a, n)) = dbActive(t) \ {i}
           /\ \A a, n : dbActive(dbClaim(t, i, a, n)) \subseteq dbActive(t) \cup {i}
           /\ dbActive(dbExpire(t, i)) = dbActive(t) \ {i}
           /\ dbActive(dbDelete(t, i)) = dbActive(t) \ {i}
<1>1. \A a, n : /\ dbActive(dbNew(t, i, "active", a, n)) = dbActive(t) \cup {i}
                /\ dbActive(dbNew(t, i, "allocated", a, n)) = dbActive(t) \ {i}
  BY DEF dbActive, dbNew, Table, Row
<1>2. \A a, n : dbActive(dbClaim(t, i, a, n)) \subseteq dbActive(t) \cup {i}
  BY <1>1 DEF dbClaim
<1>3. dbActive(dbExpire(t, i)) = dbActive(t) \ {i}
  BY DEF dbActive, dbExpire, Table, Row
<1>4. dbActive(dbDelete(t, i)) = dbActive(t) \ {i}
  BY DEF dbActive, dbDelete, Table, Row, NoRow
<1> QED
  BY <1>1, <1>2, <1>3, <1>4

LEMMA AllocatedRows ==
    ASSUME NEW t \in Table, NEW i \in Inst
    PROVE  /\ \A a, n : dbAllocated(dbNew(t, i, "active", a, n)) = dbAllocated(t) \ {i}
           /\ \A a, n :
                dbAllocated(dbNew(t, i, "allocated", a, n)) = dbAllocated(t) \cup {i}
           /\ \A a, n : dbAllocated(dbClaim(t, i, a, n)) = dbAllocated(t) \ {i}
           /\ dbAllocated(dbExpire(t, i)) = dbAllocated(t) \ {i}
           /\ dbAllocated(dbDelete(t, i)) = dbAllocated(t) \ {i}
<1>1. \A a, n : /\ dbAllocated(dbNew(t, i, "active", a, n)) = dbAllocated(t) \ {i}
                /\ dbAllocated(dbNew(t, i, "allocated", a, n)) = dbAllocated(t) \cup {i}
  BY DEF dbAllocated, dbNew, Table, Row
<1>2. t[i].status = "none" => i \notin dbAllocated(t)
  BY DEF dbAllocated
<1>3. \A a, n : dbAllocated(dbClaim(t, i, a, n)) = dbAllocated(t) \ {i}
  BY <1>1, <1>2 DEF dbClaim
<1>4. dbAllocated(dbExpire(t, i)) = dbAllocated(t) \ {i}
  BY DEF dbAllocated, dbExpire, Table, Row
<1>5. dbAllocated(dbDelete(t, i)) = dbAllocated(t) \ {i}
  BY DEF dbAllocated, dbDelete, Table, Row, NoRow
<1> QED
  BY <1>1, <1>3, <1>4, <1>5

LEMMA AgedRows ==
    ASSUME NEW t \in Table
    PROVE  dbActive(Aged(t)) = dbActive(t) /\ dbAllocated(Aged(t)) = dbAllocated(t)
<1>1. \A i \in Inst : Aged(t)[i].status = t[i].status
  BY DEF Aged, Table, Row
<1> QED
  BY <1>1 DEF dbActive, dbAllocated

\* The snapshot of a recovery names every row it was taken of.
LEMMA SnapshotNames ==
    ASSUME NEW S PROVE \A i \in S : \E e \in Snapshot(S) : e.inst = i
<1> SUFFICES ASSUME NEW i \in S PROVE \E e \in Snapshot(S) : e.inst = i
  OBVIOUS
<1>1. [inst |-> i, expiry |-> db[i].expiry] \in Snapshot(S)
  BY DEF Snapshot
<1> QED
  BY <1>1

\* What each operation on the timers does to those of an instance.
LEMMA ArmedTimer ==
    ASSUME NEW j, NEW kind, NEW delay, AfterFunc(j, kind, delay)
    PROVE  /\ \A i, k : HasTimer(i, k) => HasTimer(i, k)'
           /\ HasTimer(j, kind)'
<1> DEFINE u == [inst |-> j, kind |-> kind, left |-> delay, stage |-> "armed"]
<1>1. u \in timers' /\ u.inst = j /\ u.kind = kind
  BY DEF AfterFunc
<1>2. timers \subseteq timers'
  BY DEF AfterFunc
<1> QED
  BY <1>1, <1>2 DEF HasTimer

LEMMA AdvancedTimer ==
    ASSUME timers \subseteq Timer, NEW t \in timers, NEW stage, Advance(t, stage)
    PROVE  \A i, k : HasTimer(i, k) => HasTimer(i, k)'
<1> DEFINE u == [t EXCEPT !.stage = stage]
<1>1. u.inst = t.inst /\ u.kind = t.kind
  BY DEF Timer
<1> QED
  BY <1>1 DEF Advance, HasTimer

LEMMA DroppedTimer ==
    ASSUME NEW t \in timers, Drop(t)
    PROVE  \A i, k : HasTimer(i, k) => HasTimer(i, k)' \/ (i = t.inst /\ k = t.kind)
  BY DEF Drop, HasTimer

LEMMA AgedTimers ==
    ASSUME timers \subseteq Timer,
           timers' = {[t EXCEPT !.left = Sooner(@)] : t \in timers}
    PROVE  \A i, k : HasTimer(i, k) => HasTimer(i, k)'
<1>1. ASSUME NEW t \in timers
      PROVE  LET u == [t EXCEPT !.left = Sooner(@)]
             IN  u \in timers' /\ u.inst = t.inst /\ u.kind = t.kind
  BY DEF Timer
<1> QED
  BY <1>1 DEF HasTimer

LEMMA InitKept == Init => KeptInv
  BY DEF Init, KeptInv, ActiveKept, AllocatedKept, dbActive, dbAllocated, NoRow

\* Every step leaves each row that is active or allocated with a keeper.  LockInv
\* is needed because Boot and the hourly loop share todo: while Boot restores,
\* the hourly loop is off.
LEMMA KeptStep == TypeInv /\ LockInv /\ KeptInv /\ [Next]_vars => KeptInv'
<1> SUFFICES ASSUME TypeInv, LockInv, KeptInv, [Next]_vars PROVE KeptInv'
  OBVIOUS
<1> USE ConstantsAssumption
    DEF TypeInv, TypeOK, ControlTypes, DataTypes, LockInv, OneResync, MyInv,
        Holding, KeptInv, ActiveKept, AllocatedKept, Waking, RecoveryPending, Go,
        GoWith, NoFault, Fault, Goroutines, Creators, Resyncers
<1>1. ASSUME NEW g \in Creators, CreateInstance(g)
      PROVE  KeptInv'
  <2>1. PICK i \in Inst : /\ db' = dbDelete(db, i)
                          /\ abandoned' = abandoned \ {i}
                          /\ my' = [my EXCEPT ![g] = i]
    BY <1>1 DEF CreateInstance
  <2>2. dbActive(db') = dbActive(db) \ {i} /\ dbAllocated(db') = dbAllocated(db) \ {i}
    BY <2>1, ActiveRows, AllocatedRows
  <2>3. ActiveKept'
    BY <1>1, <2>1, <2>2 DEF CreateInstance, HasTimer
  <2>4. AllocatedKept'
    BY <1>1, <2>1, <2>2 DEF CreateInstance, HasTimer
  <2> QED
    BY <2>3, <2>4
<1>2. ASSUME NEW g \in Creators, CreateRefused(g)
      PROVE  KeptInv'
  BY <1>2 DEF CreateRefused, AfterFailure, HasTimer, dbActive, dbAllocated
<1>3. ASSUME NEW g \in Creators, AwaitCreated(g)
      PROVE  KeptInv'
  BY <1>3 DEF AwaitCreated, AfterFailure, HasTimer, dbActive, dbAllocated
<1>4. ASSUME NEW g \in Creators, AwaitLost(g)
      PROVE  KeptInv'
  BY <1>4 DEF AwaitLost, AfterFailure, HasTimer, dbActive, dbAllocated
<1>5. ASSUME NEW g \in Creators, StartInstance(g)
      PROVE  KeptInv'
  BY <1>5 DEF StartInstance, HasTimer, dbActive, dbAllocated
<1>6. ASSUME NEW g \in Creators, InstanceReady(g)
      PROVE  KeptInv'
  BY <1>6 DEF InstanceReady, HasTimer, dbActive, dbAllocated
<1>7. ASSUME NEW g \in Creators, StartFails(g)
      PROVE  KeptInv'
  BY <1>7 DEF StartFails, HasTimer, dbActive, dbAllocated
<1>8. ASSUME NEW g \in Creators, UndoCreation(g)
      PROVE  KeptInv'
  BY <1>8 DEF UndoCreation, AfterFailure, HasTimer, dbActive, dbAllocated
<1>9. ASSUME NEW g \in Creators, RecordFails(g)
      PROVE  KeptInv'
  BY <1>9 DEF RecordFails, HasTimer, dbActive, dbAllocated
<1>10. ASSUME NEW g \in Creators, Discard(g)
       PROVE  KeptInv'
  BY <1>10 DEF Discard, Returns, HasTimer, dbActive, dbAllocated
<1>11. ASSUME NEW g \in Requests, CheckTotal(g)
       PROVE  KeptInv'
  BY <1>11 DEF CheckTotal, HasTimer, dbActive, dbAllocated
<1>12. ASSUME NEW g \in Requests, CheckIP(g)
       PROVE  KeptInv'
  BY <1>12 DEF CheckIP, HasTimer, dbActive, dbAllocated
<1>13. ASSUME NEW g \in Requests, SelectAllocated(g)
       PROVE  KeptInv'
  BY <1>13 DEF SelectAllocated, HasTimer, dbActive, dbAllocated
<1>14. ASSUME NEW g \in Requests, ClaimAllocated(g)
       PROVE  KeptInv'
  <2>1. dbActive(db') \subseteq dbActive(db) \cup {my[g]} /\ dbAllocated(db') = dbAllocated(db) \ {my[g]}
    BY <1>14, ActiveRows, AllocatedRows DEF ClaimAllocated
  <2>2. ActiveKept'
    BY <1>14, <2>1 DEF ClaimAllocated, HasTimer
  <2>3. AllocatedKept'
    BY <1>14, <2>1 DEF ClaimAllocated, HasTimer
  <2> QED
    BY <2>2, <2>3
<1>15. ASSUME NEW g \in Requests, ClaimFails(g)
       PROVE  KeptInv'
  BY <1>15 DEF ClaimFails, HasTimer, dbActive, dbAllocated
<1>16. ASSUME NEW g \in Requests, ClaimedStopped(g)
       PROVE  KeptInv'
  BY <1>16 DEF ClaimedStopped, HasTimer, dbActive, dbAllocated
<1>17. ASSUME NEW g \in Requests, StartClaimed(g)
       PROVE  KeptInv'
  BY <1>17 DEF StartClaimed, HasTimer, dbActive, dbAllocated
<1>18. ASSUME NEW g \in Requests, ClaimedReady(g)
       PROVE  KeptInv'
  <2>1. (\A i, kind : HasTimer(i, kind) => HasTimer(i, kind)')
        /\ HasTimer(my[g], "session")'
    BY <1>18, ArmedTimer DEF ClaimedReady
  <2>2. ActiveKept'
    BY <1>18, <2>1 DEF ClaimedReady, dbActive
  <2>3. AllocatedKept'
    BY <1>18, <2>1 DEF ClaimedReady, dbAllocated
  <2> QED
    BY <2>2, <2>3
<1>19. ASSUME NEW g \in Requests, ClaimedFails(g)
       PROVE  KeptInv'
  BY <1>19 DEF ClaimedFails, HasTimer, dbActive, dbAllocated
<1>20. ASSUME NEW g \in Requests, RecordSession(g)
       PROVE  KeptInv'
  <2>1. dbActive(db') = dbActive(db) \cup {my[g]} /\ dbAllocated(db') = dbAllocated(db) \ {my[g]}
    BY <1>20, ActiveRows, AllocatedRows DEF RecordSession
  <2>2. (\A i, kind : HasTimer(i, kind) => HasTimer(i, kind)')
        /\ HasTimer(my[g], "session")'
    BY <1>20, ArmedTimer DEF RecordSession
  <2>3. ActiveKept'
    BY <1>20, <2>1, <2>2 DEF RecordSession
  <2>4. AllocatedKept'
    BY <1>20, <2>1, <2>2 DEF RecordSession
  <2> QED
    BY <2>3, <2>4
<1>21. ASSUME NEW g \in Requests, Answer(g)
       PROVE  KeptInv'
  BY <1>21 DEF Answer, HasTimer, dbActive, dbAllocated
<1>22. ASSUME NEW g \in Requests, Arrive(g)
       PROVE  KeptInv'
  BY <1>22 DEF Arrive, HasTimer, dbActive, dbAllocated
<1>23. ASSUME NEW g \in Workers, WorkerStarts(g)
       PROVE  KeptInv'
  BY <1>23 DEF WorkerStarts, HasTimer, dbActive, dbAllocated
<1>24. ASSUME NEW g \in Workers \cup {Boot}, RecordAllocated(g)
       PROVE  KeptInv'
  <2>1. PICK i \in Inst : i = my[g]
    BY <1>24 DEF RecordAllocated
  <2>2. dbActive(db') = dbActive(db) \ {i} /\ dbAllocated(db') = dbAllocated(db) \cup {i}
    BY <1>24, <2>1, ActiveRows, AllocatedRows DEF RecordAllocated
  <2>3. (\A j, kind : HasTimer(j, kind) => HasTimer(j, kind)')
        /\ HasTimer(i, "pool")'
    BY <1>24, <2>1, ArmedTimer DEF RecordAllocated
  <2>4. ActiveKept'
    BY <1>24, <2>1, <2>2, <2>3 DEF RecordAllocated, Returns
  <2>5. AllocatedKept'
    BY <1>24, <2>1, <2>2, <2>3 DEF RecordAllocated, Returns
  <2> QED
    BY <2>4, <2>5
<1>25. ASSUME NEW t \in timers, SessionTimerStops(t)
       PROVE  KeptInv'
  <2>1. \A i, kind : HasTimer(i, kind) => HasTimer(i, kind)'
    BY <1>25, AdvancedTimer DEF SessionTimerStops
  <2>2. ActiveKept'
    BY <1>25, <2>1 DEF SessionTimerStops, dbActive
  <2>3. AllocatedKept'
    BY <1>25, <2>1 DEF SessionTimerStops, dbAllocated
  <2> QED
    BY <2>2, <2>3
<1>26. ASSUME NEW t \in timers, SessionTimerDeletes(t)
       PROVE  KeptInv'
  <2>1. \A i, kind : HasTimer(i, kind) => HasTimer(i, kind)'
    BY <1>26, AdvancedTimer DEF SessionTimerDeletes
  <2>2. ActiveKept'
    BY <1>26, <2>1 DEF SessionTimerDeletes, dbActive
  <2>3. AllocatedKept'
    BY <1>26, <2>1 DEF SessionTimerDeletes, dbAllocated
  <2> QED
    BY <2>2, <2>3
<1>27. ASSUME NEW t \in timers, SessionTimerExpires(t)
       PROVE  KeptInv'
  <2> HIDE DEF KeptInv, LockInv
  <2>1. t.inst \in Inst
    BY <1>27 DEF SessionTimerExpires, Timer
  <2>2. /\ dbActive(dbExpire(db, t.inst)) = dbActive(db) \ {t.inst}
        /\ dbAllocated(dbExpire(db, t.inst)) = dbAllocated(db) \ {t.inst}
    BY <2>1, ActiveRows, AllocatedRows
  <2>3. \/ /\ dbActive(db') = dbActive(db) \ {t.inst} /\ dbAllocated(db') = dbAllocated(db) \ {t.inst}
           /\ abandoned' = abandoned
        \/ db' = db /\ abandoned' = abandoned \cup {t.inst}
    BY <1>27, <2>2 DEF SessionTimerExpires
  <2>4. \A i, kind : HasTimer(i, kind) =>
         HasTimer(i, kind)' \/ (i = t.inst /\ kind = "session")
    BY <1>27, DroppedTimer DEF SessionTimerExpires, Due
  <2>5. ActiveKept'
    BY <1>27, <2>1, <2>3, <2>4 DEF SessionTimerExpires, KeptInv, LockInv
  <2>6. AllocatedKept'
    BY <1>27, <2>1, <2>3, <2>4 DEF SessionTimerExpires, KeptInv, LockInv
  <2> QED
    BY <2>5, <2>6 DEF KeptInv
<1>28. ASSUME NEW t \in timers, PoolTimerChecks(t)
       PROVE  KeptInv'
  <2>1. \A i, kind : HasTimer(i, kind) =>
         \/ HasTimer(i, kind)'
         \/ /\ i = t.inst /\ kind = "pool"
            /\ (i \in abandoned' \/ i \notin dbAllocated(db))
    BY <1>28, AdvancedTimer, DroppedTimer DEF PoolTimerChecks, Due,
        dbIsAllocated, dbAllocated
  <2>2. ActiveKept'
    BY <1>28, <2>1 DEF PoolTimerChecks, dbActive
  <2>3. AllocatedKept'
    BY <1>28, <2>1 DEF PoolTimerChecks, dbAllocated
  <2> QED
    BY <2>2, <2>3
<1>29. ASSUME NEW t \in timers, PoolTimerStops(t)
       PROVE  KeptInv'
  <2>1. \A i, kind : HasTimer(i, kind) => HasTimer(i, kind)'
    BY <1>29, AdvancedTimer DEF PoolTimerStops
  <2>2. ActiveKept'
    BY <1>29, <2>1 DEF PoolTimerStops, dbActive
  <2>3. AllocatedKept'
    BY <1>29, <2>1 DEF PoolTimerStops, dbAllocated
  <2> QED
    BY <2>2, <2>3
<1>30. ASSUME NEW t \in timers, PoolTimerDeletes(t)
       PROVE  KeptInv'
  <2>1. \A i, kind : HasTimer(i, kind) => HasTimer(i, kind)'
    BY <1>30, AdvancedTimer DEF PoolTimerDeletes
  <2>2. ActiveKept'
    BY <1>30, <2>1 DEF PoolTimerDeletes, dbActive
  <2>3. AllocatedKept'
    BY <1>30, <2>1 DEF PoolTimerDeletes, dbAllocated
  <2> QED
    BY <2>2, <2>3
<1>31. ASSUME NEW t \in timers, PoolTimerReplaces(t)
       PROVE  KeptInv'
  <2> HIDE DEF KeptInv, LockInv
  <2>1. t.inst \in Inst
    BY <1>31 DEF PoolTimerReplaces, Timer
  <2>2. /\ dbActive(dbDelete(db, t.inst)) = dbActive(db) \ {t.inst}
        /\ dbAllocated(dbDelete(db, t.inst)) = dbAllocated(db) \ {t.inst}
    BY <2>1, ActiveRows, AllocatedRows
  <2>3. \/ /\ dbActive(db') = dbActive(db) \ {t.inst} /\ dbAllocated(db') = dbAllocated(db) \ {t.inst}
           /\ abandoned' = abandoned
        \/ db' = db /\ abandoned' = abandoned \cup {t.inst}
    BY <1>31, <2>2 DEF PoolTimerReplaces
  <2>4. \A i, kind : HasTimer(i, kind) =>
         HasTimer(i, kind)' \/ (i = t.inst /\ kind = "pool")
    BY <1>31, DroppedTimer DEF PoolTimerReplaces, Due
  <2>5. ActiveKept'
    BY <1>31, <2>1, <2>3, <2>4 DEF PoolTimerReplaces, KeptInv, LockInv
  <2>6. AllocatedKept'
    BY <1>31, <2>1, <2>3, <2>4 DEF PoolTimerReplaces, KeptInv, LockInv
  <2> QED
    BY <2>5, <2>6 DEF KeptInv
<1>32. ASSUME Connect
       PROVE  KeptInv'
  BY <1>32 DEF Connect, HasTimer, dbActive, dbAllocated
<1>33. ASSUME LoadActive
       PROVE  KeptInv'
  <2> HIDE DEF KeptInv, LockInv
  <2>1. \A i \in dbActive(db) : \E e \in Snapshot(dbActive(db)) : e.inst = i
    BY SnapshotNames
  <2>2. \/ pc'[Boot] = "restore" /\ todo' = Snapshot(dbActive(db))
        \/ pc'[Boot] = "end" /\ abandoned' = abandoned \cup Unkept
    BY <1>33 DEF LoadActive
  <2>3. ActiveKept'
    BY <1>33, <2>1, <2>2 DEF LoadActive, Unkept, HasTimer, dbActive, KeptInv, LockInv
  <2>4. AllocatedKept'
    BY <1>33, <2>1, <2>2 DEF LoadActive, Unkept, HasTimer, dbAllocated, KeptInv, LockInv
  <2> QED
    BY <2>3, <2>4 DEF KeptInv
<1>34. ASSUME RecoveryDeletes
       PROVE  KeptInv'
  BY <1>34 DEF RecoveryDeletes, HasTimer, dbActive, dbAllocated
<1>35. ASSUME ExpireRow
       PROVE  KeptInv'
  <2> HIDE DEF KeptInv, LockInv
  <2>1. my[Boot] \in Inst
    BY <1>35 DEF ExpireRow
  <2>2. /\ dbActive(dbExpire(db, my[Boot])) = dbActive(db) \ {my[Boot]}
        /\ dbAllocated(dbExpire(db, my[Boot])) = dbAllocated(db) \ {my[Boot]}
    BY <2>1, ActiveRows, AllocatedRows
  <2>3. \/ /\ dbActive(db') = dbActive(db) \ {my[Boot]} /\ dbAllocated(db') = dbAllocated(db) \ {my[Boot]}
           /\ abandoned' = abandoned
        \/ db' = db /\ abandoned' = abandoned \cup {my[Boot]}
    BY <1>35, <2>2 DEF ExpireRow
  <2>4. ActiveKept'
    BY <1>35, <2>1, <2>3 DEF ExpireRow, HasTimer, KeptInv, LockInv
  <2>5. AllocatedKept'
    BY <1>35, <2>1, <2>3 DEF ExpireRow, HasTimer, KeptInv, LockInv
  <2> QED
    BY <2>4, <2>5 DEF KeptInv
<1>36. ASSUME LoadAllocated
       PROVE  KeptInv'
  <2> HIDE DEF KeptInv, LockInv
  <2>1. \A i \in dbAllocated(db) : \E e \in Snapshot(dbAllocated(db)) : e.inst = i
    BY SnapshotNames
  <2>2. \/ pc'[Boot] = "purge" /\ todo' = Snapshot(dbAllocated(db))
        \/ pc'[Boot] = "end" /\ abandoned' = abandoned \cup Unkept
    BY <1>36 DEF LoadAllocated
  <2>3. ActiveKept'
    BY <1>36, <2>1, <2>2 DEF LoadAllocated, Unkept, HasTimer, dbActive, KeptInv, LockInv
  <2>4. AllocatedKept'
    BY <1>36, <2>1, <2>2 DEF LoadAllocated, Unkept, HasTimer, dbAllocated, KeptInv, LockInv
  <2> QED
    BY <2>3, <2>4 DEF KeptInv
<1>37. ASSUME PurgeRow
       PROVE  KeptInv'
  <2> HIDE DEF KeptInv, LockInv
  <2>1. my[Boot] \in Inst
    BY <1>37 DEF PurgeRow
  <2>2. /\ dbActive(dbDelete(db, my[Boot])) = dbActive(db) \ {my[Boot]}
        /\ dbAllocated(dbDelete(db, my[Boot])) = dbAllocated(db) \ {my[Boot]}
    BY <2>1, ActiveRows, AllocatedRows
  <2>3. \/ /\ dbActive(db') = dbActive(db) \ {my[Boot]} /\ dbAllocated(db') = dbAllocated(db) \ {my[Boot]}
           /\ abandoned' = abandoned
        \/ db' = db /\ abandoned' = abandoned \cup {my[Boot]}
    BY <1>37, <2>2 DEF PurgeRow
  <2>4. ActiveKept'
    BY <1>37, <2>1, <2>3 DEF PurgeRow, HasTimer, KeptInv, LockInv
  <2>5. AllocatedKept'
    BY <1>37, <2>1, <2>3 DEF PurgeRow, HasTimer, KeptInv, LockInv
  <2> QED
    BY <2>4, <2>5 DEF KeptInv
<1>38. ASSUME PreAllocateNext
       PROVE  KeptInv'
  BY <1>38 DEF PreAllocateNext, HasTimer, dbActive, dbAllocated
<1>39. ASSUME NEW e \in todo, RestoreActive(e)
       PROVE  KeptInv'
  <2>1. (\A i, kind : HasTimer(i, kind) => HasTimer(i, kind)')
        /\ HasTimer(e.inst, "session")'
    BY <1>39, ArmedTimer DEF RestoreActive
  <2>2. ActiveKept'
    BY <1>39, <2>1 DEF RestoreActive, dbActive
  <2>3. AllocatedKept'
    BY <1>39, <2>1 DEF RestoreActive, dbAllocated
  <2> QED
    BY <2>2, <2>3
<1>40. ASSUME NEW e \in todo, RestoreExpired(e)
       PROVE  KeptInv'
  BY <1>40 DEF RestoreExpired, HasTimer, dbActive, dbAllocated
<1>41. ASSUME NEW e \in todo, PurgeAllocated(e)
       PROVE  KeptInv'
  BY <1>41 DEF PurgeAllocated, HasTimer, dbActive, dbAllocated
<1>42. ASSUME NEW g \in Resyncers, ResyncWaits(g)
       PROVE  KeptInv'
  BY <1>42 DEF ResyncWaits, ResyncDue, HasTimer, dbActive, dbAllocated
<1>43. ASSUME NEW g \in Resyncers, ResyncLocks(g)
       PROVE  KeptInv'
  BY <1>43 DEF ResyncLocks, HasTimer, dbActive, dbAllocated
<1>44. ASSUME NEW g \in Resyncers, ListInstances(g)
       PROVE  KeptInv'
  BY <1>44 DEF ListInstances, Snapshot, HasTimer, dbActive, dbAllocated
<1>45. ASSUME NEW g \in Resyncers, NEW e \in todo, CheckInstance(g, e)
       PROVE  KeptInv'
  BY <1>45 DEF CheckInstance, dbShouldExist, HasTimer, dbActive, dbAllocated
<1>46. ASSUME NEW g \in Resyncers, DropStops(g)
       PROVE  KeptInv'
  BY <1>46 DEF DropStops, HasTimer, dbActive, dbAllocated
<1>47. ASSUME NEW g \in Resyncers, DropDeletes(g)
       PROVE  KeptInv'
  BY <1>47 DEF DropDeletes, HasTimer, dbActive, dbAllocated
<1>48. ASSUME NEW g \in Resyncers, ResyncEnds(g)
       PROVE  KeptInv'
  BY <1>48 DEF ResyncEnds, Resynced, HasTimer, dbActive, dbAllocated
<1>49. ASSUME NEW g \in Resyncers, ResyncFails(g)
       PROVE  KeptInv'
  BY <1>49 DEF ResyncFails, Resynced, HasTimer, dbActive, dbAllocated
<1>50. ASSUME NEW i \in Inst, IncusCreates(i)
       PROVE  KeptInv'
  BY <1>50 DEF IncusCreates, HasTimer, dbActive, dbAllocated
<1>51. ASSUME NEW i \in Inst, InfoFails(i)
       PROVE  KeptInv'
  BY <1>51 DEF InfoFails, HasTimer, dbActive, dbAllocated
<1>52. ASSUME NEW i \in Inst, InfoDeletes(i)
       PROVE  KeptInv'
  BY <1>52 DEF InfoDeletes, HasTimer, dbActive, dbAllocated
<1>53. ASSUME NEW i \in Inst, PowerOff(i)
       PROVE  KeptInv'
  BY <1>53 DEF PowerOff, HasTimer, dbActive, dbAllocated
<1>54. ASSUME Tick
       PROVE  KeptInv'
  <2> HIDE DEF KeptInv, LockInv
  <2>1. dbActive(db') = dbActive(db) /\ dbAllocated(db') = dbAllocated(db)
    BY <1>54, AgedRows DEF Tick
  <2>2. \A i, kind : HasTimer(i, kind) => HasTimer(i, kind)'
    BY <1>54, AgedTimers DEF Tick
  <2>3. \A e \in todo : \E d \in todo' : d.inst = e.inst
    <3> TAKE e \in todo
    <3> DEFINE d == [e EXCEPT !.expiry = Sooner(@)]
    <3>1. d \in todo' /\ d.inst = e.inst
      BY <1>54 DEF Tick
    <3> QED
      BY <3>1
  <2>4. UNCHANGED <<pc, my, abandoned>>
    BY <1>54 DEF Tick
  <2>5. ActiveKept'
    BY <2>1, <2>2, <2>3, <2>4 DEF KeptInv, LockInv
  <2>6. AllocatedKept'
    BY <2>1, <2>2, <2>3, <2>4 DEF KeptInv, LockInv
  <2> QED
    BY <2>5, <2>6 DEF KeptInv
<1>55. ASSUME Crash
       PROVE  KeptInv'
  BY <1>55 DEF Crash, HasTimer, dbActive, dbAllocated
<1>56. CASE UNCHANGED vars
  BY <1>56 DEF vars, HasTimer, dbActive, dbAllocated
<1> QED
  BY <1>1, <1>2, <1>3, <1>4, <1>5, <1>6, <1>7, <1>8, <1>9, <1>10, <1>11, <1>12,
      <1>13, <1>14, <1>15, <1>16, <1>17, <1>18, <1>19, <1>20, <1>21, <1>22,
      <1>23, <1>24, <1>25, <1>26, <1>27, <1>28, <1>29, <1>30, <1>31, <1>32,
      <1>33, <1>34, <1>35, <1>36, <1>37, <1>38, <1>39, <1>40, <1>41, <1>42,
      <1>43, <1>44, <1>45, <1>46, <1>47, <1>48, <1>49, <1>50, <1>51, <1>52,
      <1>53, <1>54, <1>55, <1>56 DEF Next, Creation, Handler, Timers, Recovery,
      Resync, Environment

\* Every active row has a timer, a handler or the recovery to end it, unless its
\* last keeper returned early.
THEOREM ActiveAlwaysKept == Spec => []ActiveKept
<1>1. KeptInv => ActiveKept
  BY DEF KeptInv
<1> QED
  BY InitTypes, TypeStep, InitLock, LockStep, InitKept, KeptStep, <1>1, PTL DEF Spec

\* Every row of the pool has a pool timer or the purge at startup to remove it,
\* unless its last keeper returned early.
THEOREM AllocatedAlwaysKept == Spec => []AllocatedKept
<1>1. KeptInv => AllocatedKept
  BY DEF KeptInv
<1> QED
  BY InitTypes, TypeStep, InitLock, LockStep, InitKept, KeptStep, <1>1, PTL DEF Spec
-----------------------------------------------------------------------------
(* The promise.  Without a pool the table keeps the promise of             *)
(* SessionPromise, for every number of handlers and instances, every life  *)
(* of a session and every fault: the safety half of KeepsPromise.          *)

\* AllocateCount = 0: nothing of the pool is ever at work.
NoPool ==
  /\ AllocateCount = 0 /\ spawned = 0 /\ fill = 0
  /\ \A w \in Workers : pc[w] = "idle"
  /\ pc[Boot] \notin {"purging", "purgerow", "create", "await", "start", "poll", "undo",
                       "record", "discard"}
  /\ \A r \in Requests : pc[r] \notin {"claim", "wake", "wakestart", "wakepoll"}
  /\ \A t \in timers : t.kind = "session"
  /\ pc[Boot] = "purge" => todo = {}

Blank ==
  \A i \in Inst : /\ db[i].status # "allocated"
                  /\ db[i].status = "none" => db[i] = NoRow

\* A handler that has chosen a name and not recorded it yet, and the recovery
\* while it restores the sessions of the last process.
Making(r) == pc[r] \in {"await", "start", "poll", "record"}
Recovering == pc[Boot] \in {"restore", "halted", "expire"}

\* It has found a session that is over and has not ended its row yet.
Ending == pc[Boot] \in {"halted", "expire"}

\* The name of a handler that has not recorded it is its own: it has no row, and
\* neither another handler, nor a timer, nor the recovery knows of it.
Apart ==
  \A r \in Requests : Making(r) =>
    /\ db[my[r]].status = "none"
    /\ \A q \in Requests : Making(q) /\ my[q] = my[r] => q = r
    /\ \A t \in timers : t.inst # my[r]
    /\ Recovering => \A e \in todo : e.inst # my[r]
    /\ Ending => my[Boot] # my[r]

\* Nobody who will end a session does so before its expiry, though each of them
\* goes by a time of its own: the row is never later than they are.
NotEarly(i, n) == db[i].status = "active" => db[i].expiry =< n

Late ==
  /\ \A t \in timers : NotEarly(t.inst, t.left)
  /\ \A t \in timers : t.stage # "armed" => t.left = 0
  /\ Recovering => \A e \in todo : NotEarly(e.inst, e.expiry)
  /\ Ending => NotEarly(my[Boot], 0)

PromiseInv == Blank /\ Apart /\ Late
-----------------------------------------------------------------------------
\* A step that changes no row and no timer, gives no handler a name, and does not
\* move the recovery.
Quiet ==
  /\ UNCHANGED <<db, timers>>
  /\ \A r \in Requests : Making(r)' => Making(r) /\ my'[r] = my[r]
  /\ Recovering' => /\ Recovering /\ todo' = todo
                    /\ pc'[Boot] = pc[Boot] /\ my'[Boot] = my[Boot]

Loud ==
  \/ \E r \in Requests : CreateInstance(r) \/ RecordSession(r)
  \/ \E t \in timers : SessionTimerStops(t) \/ SessionTimerDeletes(t)
                        \/ SessionTimerExpires(t)
  \/ \E e \in todo : RestoreActive(e) \/ RestoreExpired(e)
  \/ LoadActive \/ RecoveryDeletes \/ ExpireRow \/ Tick \/ Crash

\* Without a pool all but these actions are quiet, and there is no pool afterwards.
LEMMA QuietOrLoud ==
  ASSUME TypeInv, LockInv, NoPool, Blank, [Next]_vars
  PROVE  NoPool' /\ (Quiet \/ Loud)
<1> USE ConstantsAssumption
    DEF TypeInv, TypeOK, ControlTypes, DataTypes, MyInv, Holding, LockInv, OneResync,
        NoPool, Go, GoWith, NoFault, Fault, Spawn, Goroutines, Creators, Resyncers
<1>1. ASSUME NEW g \in Creators, CreateInstance(g)
      PROVE  NoPool' /\ g \in Requests
  BY <1>1 DEF CreateInstance, Locks
<1>2. ASSUME NEW g \in Creators, CreateRefused(g)
      PROVE  NoPool' /\ Quiet
  BY <1>2 DEF CreateRefused, AfterFailure, Quiet, Recovering, Making
<1>3. ASSUME NEW g \in Creators, AwaitCreated(g)
      PROVE  NoPool' /\ Quiet
  BY <1>3 DEF AwaitCreated, AfterFailure, Quiet, Recovering, Making
<1>4. ASSUME NEW g \in Creators, AwaitLost(g)
      PROVE  NoPool' /\ Quiet
  BY <1>4 DEF AwaitLost, AfterFailure, Quiet, Recovering, Making
<1>5. ASSUME NEW g \in Creators, StartInstance(g)
      PROVE  NoPool' /\ Quiet
  BY <1>5 DEF StartInstance, Quiet, Recovering, Making
<1>6. ASSUME NEW g \in Creators, InstanceReady(g)
      PROVE  NoPool' /\ Quiet
  BY <1>6 DEF InstanceReady, Quiet, Recovering, Making
<1>7. ASSUME NEW g \in Creators, StartFails(g)
      PROVE  NoPool' /\ Quiet
  BY <1>7 DEF StartFails, Quiet, Recovering, Making
<1>8. ASSUME NEW g \in Creators, UndoCreation(g)
      PROVE  NoPool' /\ Quiet
  BY <1>8 DEF UndoCreation, AfterFailure, Quiet, Recovering, Making
<1>9. ASSUME NEW g \in Creators, RecordFails(g)
      PROVE  NoPool' /\ Quiet
  BY <1>9 DEF RecordFails, Quiet, Recovering, Making
<1>10. ASSUME NEW g \in Creators, Discard(g)
       PROVE  NoPool' /\ Quiet
  BY <1>10 DEF Discard, Returns, Quiet, Recovering, Making
<1>11. ASSUME NEW r \in Requests, CheckTotal(r)
       PROVE  NoPool' /\ Quiet
  BY <1>11 DEF CheckTotal, Quiet, Recovering, Making
<1>12. ASSUME NEW r \in Requests, CheckIP(r)
       PROVE  NoPool' /\ Quiet
  BY <1>12 DEF CheckIP, Quiet, Recovering, Making
<1>13. ASSUME NEW r \in Requests, SelectAllocated(r)
       PROVE  NoPool' /\ Quiet
  BY <1>13 DEF SelectAllocated, Quiet, Recovering, Making
<1>14. ASSUME NEW r \in Requests, ClaimAllocated(r)
       PROVE  NoPool' /\ Quiet
  BY <1>14 DEF ClaimAllocated, Quiet, Recovering, Making
<1>15. ASSUME NEW r \in Requests, ClaimFails(r)
       PROVE  NoPool' /\ Quiet
  BY <1>15 DEF ClaimFails, Quiet, Recovering, Making
<1>16. ASSUME NEW r \in Requests, ClaimedStopped(r)
       PROVE  NoPool' /\ Quiet
  BY <1>16 DEF ClaimedStopped, Quiet, Recovering, Making
<1>17. ASSUME NEW r \in Requests, StartClaimed(r)
       PROVE  NoPool' /\ Quiet
  BY <1>17 DEF StartClaimed, Quiet, Recovering, Making
<1>18. ASSUME NEW r \in Requests, ClaimedReady(r)
       PROVE  NoPool' /\ Quiet
  BY <1>18 DEF ClaimedReady, Quiet, Recovering, Making
<1>19. ASSUME NEW r \in Requests, ClaimedFails(r)
       PROVE  NoPool' /\ Quiet
  BY <1>19 DEF ClaimedFails, Quiet, Recovering, Making
<1>20. ASSUME NEW r \in Requests, RecordSession(r)
       PROVE  NoPool'
  BY <1>20 DEF RecordSession, AfterFunc
<1>21. ASSUME NEW r \in Requests, Answer(r)
       PROVE  NoPool' /\ Quiet
  BY <1>21 DEF Answer, Quiet, Recovering, Making
<1>22. ASSUME NEW r \in Requests, Arrive(r)
       PROVE  NoPool' /\ Quiet
  BY <1>22 DEF Arrive, Quiet, Recovering, Making
<1>23. ASSUME NEW w \in Workers, WorkerStarts(w)
       PROVE  NoPool' /\ Quiet
  BY <1>23 DEF WorkerStarts, Quiet, Recovering, Making
<1>24. ASSUME NEW g \in Workers \cup {Boot}, RecordAllocated(g)
       PROVE  NoPool' /\ Quiet
  BY <1>24 DEF RecordAllocated, Returns, Quiet, Recovering, Making
<1>25. ASSUME NEW t \in timers, SessionTimerStops(t)
       PROVE  NoPool'
  BY <1>25 DEF SessionTimerStops, Advance, Due, Timer
<1>26. ASSUME NEW t \in timers, SessionTimerDeletes(t)
       PROVE  NoPool'
  BY <1>26 DEF SessionTimerDeletes, Advance, Due, Timer
<1>27. ASSUME NEW t \in timers, SessionTimerExpires(t)
       PROVE  NoPool'
  BY <1>27 DEF SessionTimerExpires, Drop
<1>28. ASSUME NEW t \in timers, PoolTimerChecks(t)
       PROVE  NoPool' /\ Quiet
  BY <1>28 DEF PoolTimerChecks, Due, Quiet, Recovering, Making
<1>29. ASSUME NEW t \in timers, PoolTimerStops(t)
       PROVE  NoPool' /\ Quiet
  BY <1>29 DEF PoolTimerStops, Due, Quiet, Recovering, Making
<1>30. ASSUME NEW t \in timers, PoolTimerDeletes(t)
       PROVE  NoPool' /\ Quiet
  BY <1>30 DEF PoolTimerDeletes, Due, Quiet, Recovering, Making
<1>31. ASSUME NEW t \in timers, PoolTimerReplaces(t)
       PROVE  NoPool' /\ Quiet
  BY <1>31 DEF PoolTimerReplaces, Due, Quiet, Recovering, Making
<1>32. ASSUME Connect
       PROVE  NoPool' /\ Quiet
  BY <1>32 DEF Connect, Quiet, Recovering, Making
<1>33. ASSUME LoadActive
       PROVE  NoPool'
  BY <1>33 DEF LoadActive
<1>34. ASSUME RecoveryDeletes
       PROVE  NoPool'
  BY <1>34 DEF RecoveryDeletes
<1>35. ASSUME ExpireRow
       PROVE  NoPool'
  BY <1>35 DEF ExpireRow
<1>36. ASSUME LoadAllocated
       PROVE  NoPool' /\ Quiet
  BY <1>36 DEF LoadAllocated, Blank, Snapshot, dbAllocated, Quiet, Recovering, Making
<1>37. ASSUME PurgeRow
       PROVE  NoPool' /\ Quiet
  BY <1>37 DEF PurgeRow, Quiet, Recovering, Making
<1>38. ASSUME PreAllocateNext
       PROVE  NoPool' /\ Quiet
  BY <1>38 DEF PreAllocateNext, Quiet, Recovering, Making
<1>39. ASSUME NEW e \in todo, RestoreActive(e)
       PROVE  NoPool'
  BY <1>39 DEF RestoreActive, AfterFunc
<1>40. ASSUME NEW e \in todo, RestoreExpired(e)
       PROVE  NoPool'
  BY <1>40 DEF RestoreExpired
<1>41. ASSUME NEW e \in todo, PurgeAllocated(e)
       PROVE  NoPool' /\ Quiet
  BY <1>41 DEF PurgeAllocated, Quiet, Recovering, Making
<1>42. ASSUME NEW g \in Resyncers, ResyncWaits(g)
       PROVE  NoPool' /\ Quiet
  BY <1>42 DEF ResyncWaits, ResyncDue, Quiet, Recovering, Making
<1>43. ASSUME NEW g \in Resyncers, ResyncLocks(g)
       PROVE  NoPool' /\ Quiet
  BY <1>43 DEF ResyncLocks, Quiet, Recovering, Making
<1>44. ASSUME NEW g \in Resyncers, ListInstances(g)
       PROVE  NoPool' /\ Quiet
  BY <1>44 DEF ListInstances, Quiet, Recovering, Making
<1>45. ASSUME NEW g \in Resyncers, NEW e \in todo, CheckInstance(g, e)
       PROVE  NoPool' /\ Quiet
  BY <1>45 DEF CheckInstance, Quiet, Recovering, Making
<1>46. ASSUME NEW g \in Resyncers, DropStops(g)
       PROVE  NoPool' /\ Quiet
  BY <1>46 DEF DropStops, Quiet, Recovering, Making
<1>47. ASSUME NEW g \in Resyncers, DropDeletes(g)
       PROVE  NoPool' /\ Quiet
  BY <1>47 DEF DropDeletes, Quiet, Recovering, Making
<1>48. ASSUME NEW g \in Resyncers, ResyncEnds(g)
       PROVE  NoPool' /\ Quiet
  BY <1>48 DEF ResyncEnds, Resynced, Quiet, Recovering, Making
<1>49. ASSUME NEW g \in Resyncers, ResyncFails(g)
       PROVE  NoPool' /\ Quiet
  BY <1>49 DEF ResyncFails, Resynced, Quiet, Recovering, Making
<1>50. ASSUME NEW i \in Inst, IncusCreates(i)
       PROVE  NoPool' /\ Quiet
  BY <1>50 DEF IncusCreates, Quiet, Recovering, Making
<1>51. ASSUME NEW i \in Inst, InfoFails(i)
       PROVE  NoPool' /\ Quiet
  BY <1>51 DEF InfoFails, Quiet, Recovering, Making
<1>52. ASSUME NEW i \in Inst, InfoDeletes(i)
       PROVE  NoPool' /\ Quiet
  BY <1>52 DEF InfoDeletes, Quiet, Recovering, Making
<1>53. ASSUME NEW i \in Inst, PowerOff(i)
       PROVE  NoPool' /\ Quiet
  BY <1>53 DEF PowerOff, Quiet, Recovering, Making
<1>54. ASSUME Tick
       PROVE  NoPool'
  BY <1>54 DEF Tick, Timer
<1>55. ASSUME Crash
       PROVE  NoPool'
  BY <1>55 DEF Crash
<1>56. CASE UNCHANGED vars
  BY <1>56 DEF vars, Quiet, Recovering, Making
<1> QED
  BY <1>1, <1>2, <1>3, <1>4, <1>5, <1>6, <1>7, <1>8, <1>9, <1>10, <1>11, <1>12,
      <1>13, <1>14, <1>15, <1>16, <1>17, <1>18, <1>19, <1>20, <1>21, <1>22,
      <1>23, <1>24, <1>25, <1>26, <1>27, <1>28, <1>29, <1>30, <1>31, <1>32,
      <1>33, <1>34, <1>35, <1>36, <1>37, <1>38, <1>39, <1>40, <1>41, <1>42,
      <1>43, <1>44, <1>45, <1>46, <1>47, <1>48, <1>49, <1>50, <1>51, <1>52,
      <1>53, <1>54, <1>55, <1>56 DEF Next, Creation, Handler, Timers, Recovery,
      Resync, Environment, Loud
-----------------------------------------------------------------------------
LEMMA PromiseInvInit == AllocateCount = 0 /\ Init => NoPool /\ PromiseInv
  BY ConstantsAssumption
  DEF Init, NoPool, PromiseInv, Blank, Apart, Late, NotEarly, Making, Recovering, Ending, NoRow,
      Goroutines, Creators

\* Ending a session makes no row active, later or new.
LEMMA ExpiredRows ==
  ASSUME NEW t \in Table, NEW i \in Inst
  PROVE  \A j \in Inst :
           /\ dbExpire(t, i)[j].status = "none" <=> t[j].status = "none"
           /\ dbExpire(t, i)[j].status = "none" => dbExpire(t, i)[j] = t[j]
           /\ dbExpire(t, i)[j].status \in {t[j].status, "expired"}
           /\ dbExpire(t, i)[j].expiry = t[j].expiry
           /\ dbExpire(t, i)[j].status = "active" => t[j].status = "active"
  BY DEF dbExpire, Table, Row

\* What a step of the table, a timer, the recovery or the clock does to the
\* invariant; a quiet step keeps it whole.
LEMMA PromiseInvStep ==
  ASSUME TypeInv, NoPool, PromiseInv, Quiet \/ Loud \/ UNCHANGED vars
  PROVE  PromiseInv'
<1> USE ConstantsAssumption
    DEF TypeInv, TypeOK, ControlTypes, DataTypes, MyInv, Holding, NoPool, PromiseInv,
        Making, Recovering, Ending, NotEarly, NoFault, Fault, Go, GoWith, Goroutines, Creators
<1>1. ASSUME NEW r \in Requests, CreateInstance(r)
      PROVE  PromiseInv'
  <2>1. PICK i \in Inst : /\ Fresh(i) /\ db' = dbDelete(db, i)
                          /\ pc' = [pc EXCEPT ![r] = "await"]
                          /\ my' = [my EXCEPT ![r] = i]
    BY <1>1 DEF CreateInstance
  <2>2. db' = [db EXCEPT ![i] = NoRow] /\ UNCHANGED <<timers, todo>>
    BY <1>1, <2>1 DEF CreateInstance, dbDelete
  <2>3. /\ \A t \in timers : t.inst # i
        /\ \A e \in todo : e.inst # i
        /\ \A g \in Goroutines : my[g] # i
    BY <2>1 DEF Fresh
  <2>4. Blank'
    BY <2>2 DEF Blank, Table, NoRow
  <2>5. Apart'
    BY <2>1, <2>2, <2>3 DEF Apart, Table, NoRow
  <2>6. Late'
    BY <2>1, <2>2, <2>3 DEF Late, Table, NoRow, Timer
  <2> QED
    BY <2>4, <2>5, <2>6
<1>2. ASSUME NEW r \in Requests, RecordSession(r)
      PROVE  PromiseInv'
  <2>1. /\ db' = [db EXCEPT ![my[r]] =
                    [status |-> "active", ip |-> client[r], expiry |-> SessionExpiry]]
        /\ timers' = timers \cup {[inst |-> my[r], kind |-> "session",
                                   left |-> SessionExpiry, stage |-> "armed"]}
        /\ pc' = [pc EXCEPT ![r] = "answer"]
        /\ UNCHANGED <<my, todo>>
        /\ my[r] \in Inst /\ Making(r)
    BY <1>2 DEF RecordSession, dbNew, AfterFunc
  <2>2. Blank'
    BY <2>1 DEF Blank, Table
  <2>3. Apart'
    BY <2>1 DEF Apart, Table
  <2>4. Late'
    BY <2>1 DEF Late, Apart, Table, Row, Timer
  <2> QED
    BY <2>2, <2>3, <2>4
<1>3. ASSUME NEW t \in timers, SessionTimerStops(t)
      PROVE  PromiseInv'
  <2>1. /\ timers' = (timers \ {t}) \cup {[t EXCEPT !.stage = "stopped"]}
        /\ t.left = 0 /\ UNCHANGED <<db, pc, my, todo>>
    BY <1>3 DEF SessionTimerStops, Advance, Due
  <2>2. [t EXCEPT !.stage = "stopped"].inst = t.inst /\ [t EXCEPT !.stage = "stopped"].left = 0
    BY <2>1 DEF Timer
  <2>3. \A u \in timers' : \E v \in timers : u.inst = v.inst /\ u.left = v.left
    BY <2>1, <2>2
  <2>4. Blank' /\ Apart'
    BY <2>1, <2>3 DEF Blank, Apart
  <2>5. Late'
    BY <2>1, <2>2, <2>3 DEF Late
  <2> QED
    BY <2>4, <2>5
<1>4. ASSUME NEW t \in timers, SessionTimerDeletes(t)
      PROVE  PromiseInv'
  <2>1. /\ timers' = (timers \ {t}) \cup {[t EXCEPT !.stage = "deleted"]}
        /\ t.left = 0 /\ UNCHANGED <<db, pc, my, todo>>
    BY <1>4 DEF SessionTimerDeletes, Advance, Due
  <2>2. [t EXCEPT !.stage = "deleted"].inst = t.inst /\ [t EXCEPT !.stage = "deleted"].left = 0
    BY <2>1 DEF Timer
  <2>3. \A u \in timers' : \E v \in timers : u.inst = v.inst /\ u.left = v.left
    BY <2>1, <2>2
  <2>4. Blank' /\ Apart'
    BY <2>1, <2>3 DEF Blank, Apart
  <2>5. Late'
    BY <2>1, <2>2, <2>3 DEF Late
  <2> QED
    BY <2>4, <2>5
<1>5. ASSUME NEW t \in timers, SessionTimerExpires(t)
      PROVE  PromiseInv'
  <2>1. /\ timers' \subseteq timers /\ UNCHANGED <<pc, my, todo>>
        /\ t.inst \in Inst
        /\ db' = db \/ db' = dbExpire(db, t.inst)
    BY <1>5 DEF SessionTimerExpires, Drop, Timer
  <2>2. Blank'
    BY <2>1, ExpiredRows DEF Blank
  <2>3. Apart'
    BY <2>1, ExpiredRows DEF Apart
  <2>4. Late'
    BY <2>1, ExpiredRows DEF Late, Timer
  <2> QED
    BY <2>2, <2>3, <2>4
<1>6. ASSUME NEW e \in todo, RestoreActive(e)
      PROVE  PromiseInv'
  <2>1. /\ timers' = timers \cup {[inst |-> e.inst, kind |-> "session",
                                   left |-> e.expiry, stage |-> "armed"]}
        /\ pc[Boot] = "restore" /\ todo' \subseteq todo
        /\ UNCHANGED <<db, pc, my>>
    BY <1>6 DEF RestoreActive, AfterFunc
  <2> QED
    BY <2>1 DEF Blank, Apart, Late
<1>7. ASSUME NEW e \in todo, RestoreExpired(e)
      PROVE  PromiseInv'
  <2>1. /\ pc[Boot] = "restore" /\ e.expiry = 0 /\ todo' \subseteq todo
        /\ pc' = [pc EXCEPT ![Boot] = "halted"] /\ my' = [my EXCEPT ![Boot] = e.inst]
        /\ UNCHANGED <<db, timers>>
    BY <1>7 DEF RestoreExpired
  <2> QED
    BY <2>1 DEF Blank, Apart, Late
<1>8. ASSUME LoadActive
      PROVE  PromiseInv'
  <2>1. /\ UNCHANGED <<db, timers, my>>
        /\ \/ /\ todo' = Snapshot(dbActive(db)) /\ pc' = [pc EXCEPT ![Boot] = "restore"]
           \/ pc' = [pc EXCEPT ![Boot] = "end"]
    BY <1>8 DEF LoadActive
  <2>2. \A e \in Snapshot(dbActive(db)) :
          e.inst \in dbActive(db) /\ e.expiry = db[e.inst].expiry
    BY DEF Snapshot
  <2> QED
    BY <2>1, <2>2 DEF Blank, Apart, Late, dbActive, Table, Row
<1>9. ASSUME RecoveryDeletes
      PROVE  PromiseInv'
  <2>1. /\ UNCHANGED <<db, timers, my, todo>>
        /\ pc[Boot] = "halted" /\ pc' = [pc EXCEPT ![Boot] = "expire"]
    BY <1>9 DEF RecoveryDeletes
  <2> QED
    BY <2>1 DEF Blank, Apart, Late
<1>10. ASSUME ExpireRow
       PROVE  PromiseInv'
  <2>1. /\ UNCHANGED <<timers, todo>> /\ my[Boot] \in Inst
        /\ db' = db \/ db' = dbExpire(db, my[Boot])
        /\ pc[Boot] = "expire" /\ pc' = [pc EXCEPT ![Boot] = "restore"]
        /\ my' = [my EXCEPT ![Boot] = NoInst]
    BY <1>10 DEF ExpireRow
  <2>2. Blank' /\ Apart'
    BY <2>1, ExpiredRows DEF Blank, Apart
  <2>3. Late'
    BY <2>1, ExpiredRows DEF Late, Timer
  <2> QED
    BY <2>2, <2>3
<1>11. ASSUME Tick
       PROVE  PromiseInv'
  <2>1. /\ UNCHANGED <<pc, my>> /\ db' = Aged(db)
        /\ timers' = {[t EXCEPT !.left = Sooner(@)] : t \in timers}
        /\ todo' = {[e EXCEPT !.expiry = Sooner(@)] : e \in todo}
    BY <1>11 DEF Tick
  <2>2. \A i \in Inst : /\ db'[i].status = db[i].status
                        /\ db'[i].expiry = Sooner(db[i].expiry)
                        /\ db[i] = NoRow => db'[i] = NoRow
    BY <2>1 DEF Aged, Table, Row, NoRow, Sooner
  <2>3. \A m, n \in Nat : m =< n => Sooner(m) =< Sooner(n)
    BY DEF Sooner
  <2>4. \A i \in Inst, n \in Nat : NotEarly(i, n) => NotEarly(i, Sooner(n))'
    BY <2>2, <2>3 DEF Table, Row
  <2>5. \A u \in timers' : \E t \in timers : /\ u.inst = t.inst /\ u.stage = t.stage
                                             /\ u.left = Sooner(t.left)
    BY <2>1 DEF Timer
  <2>6. \A u \in todo' : \E e \in todo : u.inst = e.inst /\ u.expiry = Sooner(e.expiry)
    BY <2>1
  <2>7. Blank'
    BY <2>2 DEF Blank
  <2>8. Apart'
    BY <2>1, <2>2, <2>5, <2>6 DEF Apart
  <2>9. \A u \in timers' : NotEarly(u.inst, u.left)' /\ (u.stage # "armed" => u.left = 0)
    <3> SUFFICES ASSUME NEW u \in timers'
                 PROVE  NotEarly(u.inst, u.left)' /\ (u.stage # "armed" => u.left = 0)
      OBVIOUS
    <3>1. PICK t \in timers : u.inst = t.inst /\ u.stage = t.stage /\ u.left = Sooner(t.left)
      BY <2>5
    <3>2. t.inst \in Inst /\ t.left \in Nat /\ NotEarly(t.inst, t.left)
      BY DEF Late, Timer
    <3>3. NotEarly(t.inst, Sooner(t.left))'
      BY <2>4, <3>2
    <3> QED
      BY <3>1, <3>3 DEF Late, Sooner
  <2>10. Recovering' => \A u \in todo' : NotEarly(u.inst, u.expiry)'
    BY <2>1, <2>4, <2>6 DEF Late
  <2>11. Ending' => NotEarly(my[Boot], 0)'
    BY <2>1, <2>4 DEF Late, Sooner
  <2> QED
    BY <2>1, <2>7, <2>8, <2>9, <2>10, <2>11 DEF Late
<1>12. ASSUME Crash
       PROVE  PromiseInv'
  BY <1>12 DEF Crash, Blank, Apart, Late
<1>13. CASE Quiet
  BY <1>13 DEF Quiet, Blank, Apart, Late
<1>14. CASE UNCHANGED vars
  BY <1>14 DEF vars, Blank, Apart, Late
<1> QED
  BY <1>1, <1>2, <1>3, <1>4, <1>5, <1>6, <1>7, <1>8, <1>9, <1>10, <1>11, <1>12,
      <1>13, <1>14 DEF Loud
-----------------------------------------------------------------------------
LEMMA PromiseInit == Init => Promise!Init
  BY DEF Init, Promise!Init, PromisedState, NoRow

\* A row that is removed is forgotten, or had been before.
LEMMA RowForgotten ==
  ASSUME NEW i \in Inst, db \in Table, db' = [db EXCEPT ![i] = NoRow], Blank,
         db[i].status # "active"
  PROVE  Promise!Forget(i) \/ UNCHANGED Promise!promise
<1> USE DEF Table, Row, Status, NoRow, PromisedState, Promise!promise, Blank
<1>1. CASE db[i].status = "expired"
  BY <1>1 DEF Promise!Forget
<1>2. CASE db[i].status = "none"
  BY <1>2
<1> QED
  BY <1>1, <1>2

\* The row of a session that is over closes it, or had closed it before.
LEMMA RowClosed ==
  ASSUME NEW i \in Inst, db \in Table, db' = db \/ db' = dbExpire(db, i), Blank,
         NotEarly(i, 0)
  PROVE  Promise!Close(i) \/ UNCHANGED Promise!promise
<1> USE DEF Table, Row, Status, PromisedState, Promise!promise, Blank, dbExpire
<1>1. CASE db' = db \/ db[i].status # "active"
  BY <1>1
<1>2. CASE db' = dbExpire(db, i) /\ db[i].status = "active"
  <2>1. \A j \in Inst : /\ db'[j].expiry = db[j].expiry
                        /\ db'[j].status = IF j = i THEN "expired" ELSE db[j].status
    BY <1>2
  <2>2. db[i].expiry = 0
    BY <1>2 DEF NotEarly
  <2> QED
    BY <1>2, <2>1, <2>2 DEF Promise!Close
<1> QED
  BY <1>1, <1>2

\* Every step is a step of the promise or leaves what it speaks of as it is.
LEMMA PromiseStep ==
  ASSUME TypeInv, NoPool, PromiseInv, Quiet \/ Loud \/ UNCHANGED vars
  PROVE  [Promise!Next]_(Promise!promise)
<1> USE ConstantsAssumption
    DEF TypeInv, TypeOK, ControlTypes, DataTypes, MyInv, Holding, NoPool, PromiseInv,
        Goroutines, Creators
<1>1. ASSUME NEW r \in Requests, CreateInstance(r)
      PROVE  [Promise!Next]_(Promise!promise)
  <2>1. PICK i \in Inst : db' = [db EXCEPT ![i] = NoRow] /\ db[i].status # "active"
    BY <1>1 DEF CreateInstance, Fresh, dbShouldExist, dbDelete
  <2> QED
    BY <2>1, RowForgotten DEF Promise!Next
<1>2. ASSUME NEW r \in Requests, RecordSession(r)
      PROVE  [Promise!Next]_(Promise!promise)
  <2>1. PICK i \in Inst :
          /\ db[i].status = "none"
          /\ db' = [db EXCEPT ![i] = [status |-> "active", ip |-> client[r],
                                     expiry |-> SessionExpiry]]
    BY <1>2 DEF RecordSession, dbNew, Apart, Making
  <2>2. Promise!Open(i)
    BY <2>1 DEF Promise!Open, PromisedState, Table, Row
  <2> QED
    BY <2>2 DEF Promise!Next
<1>3. ASSUME NEW t \in timers, SessionTimerExpires(t)
      PROVE  [Promise!Next]_(Promise!promise)
  <2>1. /\ t.inst \in Inst
        /\ db' = db \/ db' = dbExpire(db, t.inst)
        /\ NotEarly(t.inst, 0)
    BY <1>3 DEF SessionTimerExpires, Due, Timer, Late
  <2> QED
    BY <2>1, RowClosed DEF Promise!Next
<1>4. ASSUME ExpireRow
      PROVE  [Promise!Next]_(Promise!promise)
  <2>1. /\ my[Boot] \in Inst
        /\ db' = db \/ db' = dbExpire(db, my[Boot])
        /\ NotEarly(my[Boot], 0)
    BY <1>4 DEF ExpireRow, Late, Ending
  <2> QED
    BY <2>1, RowClosed DEF Promise!Next
<1>5. ASSUME Tick
      PROVE  [Promise!Next]_(Promise!promise)
  <2>1. \A i \in Inst : /\ db'[i].status = db[i].status
                        /\ db'[i].expiry = Sooner(db[i].expiry)
    BY <1>5 DEF Tick, Aged, Table, Row
  <2>2. Promise!Tick
    BY <2>1 DEF Promise!Tick, PromisedState, Sooner
  <2> QED
    BY <2>2 DEF Promise!Next
<1>6. CASE UNCHANGED db
  BY <1>6 DEF Promise!promise, PromisedState
<1>7. ASSUME NEW t \in timers, SessionTimerStops(t) \/ SessionTimerDeletes(t)
      PROVE  UNCHANGED db
  BY <1>7 DEF SessionTimerStops, SessionTimerDeletes
<1>8. ASSUME NEW e \in todo, RestoreActive(e) \/ RestoreExpired(e)
      PROVE  UNCHANGED db
  BY <1>8 DEF RestoreActive, RestoreExpired
<1>9. LoadActive \/ RecoveryDeletes \/ Crash \/ Quiet \/ UNCHANGED vars => UNCHANGED db
  BY DEF LoadActive, RecoveryDeletes, Crash, Quiet, vars
<1> QED
  BY <1>1, <1>2, <1>3, <1>4, <1>5, <1>6, <1>7, <1>8, <1>9 DEF Loud

\* Without a pool every behaviour keeps the promise of the README as far as
\* safety goes: a session opens with its full life, closes only once that has
\* passed, and opens again only under a name that was forgotten (restStartHandler,
\* the callbacks and the recovery of run(), crashes and failures included).  This
\* is KeepsPromise less its fairness.
THEOREM PromiseKept ==
  AllocateCount = 0 /\ Spec => Promise!Init /\ [][Promise!Next]_(Promise!promise)
<1> DEFINE I == TypeInv /\ LockInv /\ NoPool /\ PromiseInv
<1>1. AllocateCount = 0 /\ Init => I /\ Promise!Init
  BY InitTypes, InitLock, PromiseInvInit, PromiseInit
<1>2. I /\ [Next]_vars => I' /\ [Promise!Next]_(Promise!promise)
  <2> SUFFICES ASSUME I, [Next]_vars
               PROVE  I' /\ [Promise!Next]_(Promise!promise)
    OBVIOUS
  <2>1. TypeInv' /\ LockInv'
    BY TypeStep, LockStep
  <2>2. NoPool' /\ (Quiet \/ Loud)
    BY QuietOrLoud DEF PromiseInv
  <2> QED
    BY <2>1, <2>2, PromiseInvStep, PromiseStep
<1> QED
  BY <1>1, <1>2, PTL DEF Spec

\* Nor is the instance of a session taken away early: neither its callback nor the
\* recovery stops or deletes the instance of an active row that has time left,
\* restored twice or not (session.go, main.go).  The promise speaks of rows only.
TakenByTimer(t) == SessionTimerStops(t) \/ SessionTimerDeletes(t)

DeletedOnTime ==
  [][/\ \A t \in timers : TakenByTimer(t) => NotEarly(t.inst, 0)
     /\ \A e \in todo : RestoreExpired(e) => NotEarly(e.inst, 0)
     /\ RecoveryDeletes => NotEarly(my[Boot], 0)]_vars

THEOREM AlwaysDeletedOnTime == AllocateCount = 0 /\ Spec => DeletedOnTime
<1> DEFINE I == TypeInv /\ LockInv /\ NoPool /\ PromiseInv
<1>1. AllocateCount = 0 /\ Init => I
  BY InitTypes, InitLock, PromiseInvInit
<1>2. I /\ [Next]_vars => I'
  BY TypeStep, LockStep, QuietOrLoud, PromiseInvStep DEF PromiseInv
<1>3. I /\ [Next]_vars =>
        [/\ \A t \in timers : TakenByTimer(t) => NotEarly(t.inst, 0)
         /\ \A e \in todo : RestoreExpired(e) => NotEarly(e.inst, 0)
         /\ RecoveryDeletes => NotEarly(my[Boot], 0)]_vars
  <2> SUFFICES ASSUME I
               PROVE  /\ \A t \in timers : TakenByTimer(t) => NotEarly(t.inst, 0)
                      /\ \A e \in todo : RestoreExpired(e) => NotEarly(e.inst, 0)
                      /\ RecoveryDeletes => NotEarly(my[Boot], 0)
    OBVIOUS
  <2>1. ASSUME NEW t \in timers, TakenByTimer(t) PROVE NotEarly(t.inst, 0)
    BY <2>1 DEF TakenByTimer, SessionTimerStops, SessionTimerDeletes, Due, PromiseInv, Late
  <2>2. ASSUME NEW e \in todo, RestoreExpired(e) PROVE NotEarly(e.inst, 0)
    BY <2>2 DEF RestoreExpired, PromiseInv, Late, Recovering
  <2>3. ASSUME RecoveryDeletes PROVE NotEarly(my[Boot], 0)
    BY <2>3 DEF RecoveryDeletes, NoPool, PromiseInv, Late, Ending
  <2> QED
    BY <2>1, <2>2, <2>3
<1> QED
  BY <1>1, <1>2, <1>3, PTL DEF Spec, DeletedOnTime
=============================================================================
