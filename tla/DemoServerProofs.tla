-------------------------- MODULE DemoServerProofs --------------------------
(***************************************************************************)
(* Proofs about DemoServer for every value of its constants.               *)
(***************************************************************************)
EXTENDS DemoServerProps, TLAPS

\* Strengthening of TypeOK: whoever works on an instance has one, and Boot only
\* pre-allocates while the pool lacks some.
Holding == {"claim", "wake", "wakestart", "wakepoll", "await", "start", "poll", "undo",
            "record", "discard", "answer", "halted", "expire", "purging", "purgerow",
            "drop", "dropping"}

MyInv == \A g \in Goroutines : pc[g] \in Holding => my[g] \in Inst

FillInv == pc[Boot] \in {"create", "await", "start", "poll", "undo", "record"} => fill > 0

TypeInv == TypeOK /\ MyInv /\ FillInv

-----------------------------------------------------------------------------
\* Every statement of db.go leaves a well-formed table.
LEMMA TableOps ==
    ASSUME NEW t \in Table, NEW i \in Inst, NEW a \in IP \cup {NoIP},
           NEW s \in Status, NEW n \in Nat
    PROVE  /\ dbNew(t, i, s, a, n) \in Table
           /\ dbClaim(t, i, a, n) \in Table
           /\ dbExpire(t, i) \in Table
           /\ dbDelete(t, i) \in Table
<1>1. dbNew(t, i, s, a, n) \in Table
  BY DEF dbNew, Table, Row
<1>2. dbClaim(t, i, a, n) \in Table
  BY DEF dbClaim, dbNew, Table, Row, Status
<1>3. dbExpire(t, i) \in Table
  BY DEF dbExpire, Table, Row, Status
<1>4. dbDelete(t, i) \in Table
  BY DEF dbDelete, Table, Row, Status, NoRow
<1> QED
  BY <1>1, <1>2, <1>3, <1>4

LEMMA AgedTable == ASSUME NEW t \in Table PROVE Aged(t) \in Table
<1>1. ASSUME NEW j \in Inst
      PROVE  [t[j] EXCEPT !.expiry = Sooner(@)] \in Row
  BY DEF Table, Row, Sooner
<1> QED
  BY <1>1 DEF Aged, Table

LEMMA InitTypes == Init => TypeInv
  BY ConstantsAssumption
  DEF Init, TypeInv, TypeOK, DataTypes, ControlTypes, MyInv, FillInv, Mu!TypeOK, Mu!Free, Table, Row,
      NoRow, Status, Goroutines, Creators, BootPC, HourlyPC, RequestPC, WorkerPC,
      Holding

\* Every step keeps the types, the instance each goroutine works on and fill.
LEMMA TypeStep == TypeInv /\ [Next]_vars => TypeInv'
<1> SUFFICES ASSUME TypeInv, [Next]_vars PROVE TypeInv'
  OBVIOUS
<1> USE ConstantsAssumption
    DEF TypeInv, TypeOK, ControlTypes, MyInv, Holding, NoFault, Fault, Go, GoWith,
        Goroutines, Creators, handlers
<1>1. ASSUME NEW g \in Creators, CreateInstance(g)
      PROVE  TypeInv'
  <2>1. db' \in Table
    BY <1>1, TableOps DEF CreateInstance, Status
  <2>2. DataTypes'
    BY <1>1 DEF CreateInstance, DataTypes, Locks, Mu!RLock, Timer, Mu!TypeOK
  <2>3. ControlTypes' /\ MyInv' /\ FillInv'
    BY <1>1 DEF CreateInstance, FillInv, BootPC, HourlyPC, RequestPC, WorkerPC
  <2> QED
    BY <2>1, <2>2, <2>3
<1>2. ASSUME NEW g \in Creators, CreateRefused(g)
      PROVE  TypeInv'
  <2>1. db' \in Table
    BY <1>2 DEF CreateRefused
  <2>2. DataTypes'
    BY <1>2 DEF CreateRefused, DataTypes, Timer, Mu!TypeOK
  <2>3. ControlTypes' /\ MyInv' /\ FillInv'
    BY <1>2 DEF CreateRefused, FillInv, BootPC, HourlyPC, RequestPC, WorkerPC,
        AfterFailure
  <2> QED
    BY <2>1, <2>2, <2>3
<1>3. ASSUME NEW g \in Creators, AwaitCreated(g)
      PROVE  TypeInv'
  <2>1. db' \in Table
    BY <1>3 DEF AwaitCreated
  <2>2. DataTypes'
    BY <1>3 DEF AwaitCreated, DataTypes, Unlocks, Mu!RUnlock, Timer, Mu!TypeOK
  <2>3. ControlTypes' /\ MyInv' /\ FillInv'
    BY <1>3 DEF AwaitCreated, FillInv, BootPC, HourlyPC, RequestPC, WorkerPC,
        AfterFailure
  <2> QED
    BY <2>1, <2>2, <2>3
<1>4. ASSUME NEW g \in Creators, AwaitLost(g)
      PROVE  TypeInv'
  <2>1. db' \in Table
    BY <1>4 DEF AwaitLost
  <2>2. DataTypes'
    BY <1>4 DEF AwaitLost, DataTypes, Unlocks, Mu!RUnlock, Timer, Mu!TypeOK
  <2>3. ControlTypes' /\ MyInv' /\ FillInv'
    BY <1>4 DEF AwaitLost, FillInv, BootPC, HourlyPC, RequestPC, WorkerPC,
        AfterFailure
  <2> QED
    BY <2>1, <2>2, <2>3
<1>5. ASSUME NEW g \in Creators, StartInstance(g)
      PROVE  TypeInv'
  <2>1. db' \in Table
    BY <1>5 DEF StartInstance
  <2>2. DataTypes'
    BY <1>5 DEF StartInstance, DataTypes, Timer, Mu!TypeOK
  <2>3. ControlTypes' /\ MyInv' /\ FillInv'
    BY <1>5 DEF StartInstance, FillInv, BootPC, HourlyPC, RequestPC, WorkerPC
  <2> QED
    BY <2>1, <2>2, <2>3
<1>6. ASSUME NEW g \in Creators, InstanceReady(g)
      PROVE  TypeInv'
  <2>1. db' \in Table
    BY <1>6 DEF InstanceReady
  <2>2. DataTypes'
    BY <1>6 DEF InstanceReady, DataTypes, Unlocks, Mu!RUnlock, Timer, Mu!TypeOK
  <2>3. ControlTypes' /\ MyInv' /\ FillInv'
    BY <1>6 DEF InstanceReady, FillInv, BootPC, HourlyPC, RequestPC, WorkerPC
  <2> QED
    BY <2>1, <2>2, <2>3
<1>7. ASSUME NEW g \in Creators, StartFails(g)
      PROVE  TypeInv'
  <2>1. db' \in Table
    BY <1>7 DEF StartFails
  <2>2. DataTypes'
    BY <1>7 DEF StartFails, DataTypes, StopInOutage, Stopped, Timer, Mu!TypeOK
  <2>3. ControlTypes' /\ MyInv' /\ FillInv'
    BY <1>7 DEF StartFails, FillInv, BootPC, HourlyPC, RequestPC, WorkerPC
  <2> QED
    BY <2>1, <2>2, <2>3
<1>8. ASSUME NEW g \in Creators, UndoCreation(g)
      PROVE  TypeInv'
  <2>1. db' \in Table
    BY <1>8 DEF UndoCreation
  <2>2. DataTypes'
    BY <1>8 DEF UndoCreation, DataTypes, Unlocks, Mu!RUnlock,
        DeleteInOutage, Deleted, Timer, Mu!TypeOK
  <2>3. ControlTypes' /\ MyInv' /\ FillInv'
    BY <1>8 DEF UndoCreation, FillInv, BootPC, HourlyPC, RequestPC, WorkerPC,
        AfterFailure
  <2> QED
    BY <2>1, <2>2, <2>3
<1>9. ASSUME NEW g \in Creators, RecordFails(g)
      PROVE  TypeInv'
  <2>1. db' \in Table
    BY <1>9 DEF RecordFails
  <2>2. DataTypes'
    BY <1>9 DEF RecordFails, DataTypes, StopInOutage, Stopped, Timer,
        Mu!TypeOK
  <2>3. ControlTypes' /\ MyInv' /\ FillInv'
    BY <1>9 DEF RecordFails, FillInv, BootPC, HourlyPC, RequestPC, WorkerPC
  <2> QED
    BY <2>1, <2>2, <2>3
<1>10. ASSUME NEW g \in Creators, Discard(g)
       PROVE  TypeInv'
  <2>1. db' \in Table
    BY <1>10 DEF Discard
  <2>2. DataTypes'
    BY <1>10 DEF Discard, DataTypes, DeleteInOutage, Deleted, Timer,
        Mu!TypeOK
  <2>3. ControlTypes' /\ MyInv' /\ FillInv'
    BY <1>10 DEF Discard, FillInv, BootPC, HourlyPC, RequestPC, WorkerPC,
        Returns
  <2> QED
    BY <2>1, <2>2, <2>3
<1>11. ASSUME NEW g \in Requests, CheckTotal(g)
       PROVE  TypeInv'
  <2>1. db' \in Table
    BY <1>11 DEF CheckTotal
  <2>2. DataTypes'
    BY <1>11 DEF CheckTotal, DataTypes, Timer, Mu!TypeOK
  <2>3. ControlTypes' /\ MyInv' /\ FillInv'
    BY <1>11 DEF CheckTotal, FillInv, BootPC, HourlyPC, RequestPC, WorkerPC,
        Full
  <2> QED
    BY <2>1, <2>2, <2>3
<1>12. ASSUME NEW g \in Requests, CheckIP(g)
       PROVE  TypeInv'
  <2>1. db' \in Table
    BY <1>12 DEF CheckIP
  <2>2. DataTypes'
    BY <1>12 DEF CheckIP, DataTypes, Timer, Mu!TypeOK
  <2>3. ControlTypes' /\ MyInv' /\ FillInv'
    BY <1>12 DEF CheckIP, FillInv, BootPC, HourlyPC, RequestPC, WorkerPC,
        QuotaReached
  <2> QED
    BY <2>1, <2>2, <2>3
<1>13. ASSUME NEW g \in Requests, SelectAllocated(g)
       PROVE  TypeInv'
  <2>1. db' \in Table
    BY <1>13 DEF SelectAllocated
  <2>2. DataTypes'
    BY <1>13 DEF SelectAllocated, DataTypes, dbAllocated, Timer, Mu!TypeOK
  <2>3. ControlTypes' /\ MyInv' /\ FillInv'
    BY <1>13 DEF SelectAllocated, FillInv, BootPC, HourlyPC, RequestPC,
        WorkerPC, dbOldestAllocated, dbAllocated
  <2> QED
    BY <2>1, <2>2, <2>3
<1>14. ASSUME NEW g \in Requests, ClaimAllocated(g)
       PROVE  TypeInv'
  <2>1. db' \in Table
    BY <1>14, TableOps DEF ClaimAllocated, Status, DataTypes
  <2>2. DataTypes'
    BY <1>14 DEF ClaimAllocated, DataTypes, NoDeadline, Spawn, Timer, Mu!TypeOK, Table, Row
  <2>3. ControlTypes' /\ MyInv' /\ FillInv'
    BY <1>14 DEF ClaimAllocated, FillInv, BootPC, HourlyPC, RequestPC, WorkerPC
  <2> QED
    BY <2>1, <2>2, <2>3
<1>15. ASSUME NEW g \in Requests, ClaimFails(g)
       PROVE  TypeInv'
  <2>1. db' \in Table
    BY <1>15 DEF ClaimFails
  <2>2. DataTypes'
    BY <1>15 DEF ClaimFails, DataTypes, NoDeadline, Timer, Mu!TypeOK
  <2>3. ControlTypes' /\ MyInv' /\ FillInv'
    BY <1>15 DEF ClaimFails, FillInv, BootPC, HourlyPC, RequestPC, WorkerPC
  <2> QED
    BY <2>1, <2>2, <2>3
<1>16. ASSUME NEW g \in Requests, ClaimedStopped(g)
       PROVE  TypeInv'
  <2>1. db' \in Table
    BY <1>16 DEF ClaimedStopped
  <2>2. DataTypes'
    BY <1>16 DEF ClaimedStopped, DataTypes, Timer, Mu!TypeOK
  <2>3. ControlTypes' /\ MyInv' /\ FillInv'
    BY <1>16 DEF ClaimedStopped, FillInv, BootPC, HourlyPC, RequestPC, WorkerPC
  <2> QED
    BY <2>1, <2>2, <2>3
<1>17. ASSUME NEW g \in Requests, StartClaimed(g)
       PROVE  TypeInv'
  <2>1. db' \in Table
    BY <1>17 DEF StartClaimed
  <2>2. DataTypes'
    BY <1>17 DEF StartClaimed, DataTypes, Timer, Mu!TypeOK
  <2>3. ControlTypes' /\ MyInv' /\ FillInv'
    BY <1>17 DEF StartClaimed, FillInv, BootPC, HourlyPC, RequestPC, WorkerPC
  <2> QED
    BY <2>1, <2>2, <2>3
<1>18. ASSUME NEW g \in Requests, ClaimedReady(g)
       PROVE  TypeInv'
  <2>1. db' \in Table
    BY <1>18 DEF ClaimedReady
  <2>2. DataTypes'
    BY <1>18 DEF ClaimedReady, DataTypes, AfterFunc, Timer, Mu!TypeOK
  <2>3. ControlTypes' /\ MyInv' /\ FillInv'
    BY <1>18 DEF ClaimedReady, FillInv, BootPC, HourlyPC, RequestPC, WorkerPC
  <2> QED
    BY <2>1, <2>2, <2>3
<1>19. ASSUME NEW g \in Requests, ClaimedFails(g)
       PROVE  TypeInv'
  <2>1. db' \in Table
    BY <1>19 DEF ClaimedFails
  <2>2. DataTypes'
    BY <1>19 DEF ClaimedFails, DataTypes, StopInOutage, Stopped, Timer,
        Mu!TypeOK
  <2>3. ControlTypes' /\ MyInv' /\ FillInv'
    BY <1>19 DEF ClaimedFails, FillInv, BootPC, HourlyPC, RequestPC, WorkerPC
  <2> QED
    BY <2>1, <2>2, <2>3
<1>20. ASSUME NEW g \in Requests, RecordSession(g)
       PROVE  TypeInv'
  <2>1. db' \in Table
    BY <1>20, TableOps DEF RecordSession, Status, DataTypes
  <2>2. DataTypes'
    BY <1>20 DEF RecordSession, DataTypes, AfterFunc, Timer, Mu!TypeOK, Table,
        Row
  <2>3. ControlTypes' /\ MyInv' /\ FillInv'
    BY <1>20 DEF RecordSession, FillInv, BootPC, HourlyPC, RequestPC, WorkerPC
  <2> QED
    BY <2>1, <2>2, <2>3
<1>21. ASSUME NEW g \in Requests, Answer(g)
       PROVE  TypeInv'
  <2>1. db' \in Table
    BY <1>21 DEF Answer
  <2>2. DataTypes'
    BY <1>21 DEF Answer, DataTypes, StopInOutage, Stopped, Timer,
        Mu!TypeOK
  <2>3. ControlTypes' /\ MyInv' /\ FillInv'
    BY <1>21 DEF Answer, FillInv, BootPC, HourlyPC, RequestPC, WorkerPC
  <2> QED
    BY <2>1, <2>2, <2>3
<1>22. ASSUME NEW g \in Requests, Arrive(g)
       PROVE  TypeInv'
  <2>1. db' \in Table
    BY <1>22 DEF Arrive
  <2>2. DataTypes'
    BY <1>22 DEF Arrive, DataTypes, Timer, Mu!TypeOK
  <2>3. ControlTypes' /\ MyInv' /\ FillInv'
    BY <1>22 DEF Arrive, FillInv, BootPC, HourlyPC, RequestPC, WorkerPC
  <2> QED
    BY <2>1, <2>2, <2>3
<1>23. ASSUME NEW g \in Workers, WorkerStarts(g)
       PROVE  TypeInv'
  <2>1. db' \in Table
    BY <1>23 DEF WorkerStarts
  <2>2. DataTypes'
    BY <1>23 DEF WorkerStarts, DataTypes, Timer, Mu!TypeOK
  <2>3. ControlTypes' /\ MyInv' /\ FillInv'
    BY <1>23 DEF WorkerStarts, FillInv, BootPC, HourlyPC, RequestPC, WorkerPC
  <2> QED
    BY <2>1, <2>2, <2>3
<1>24. ASSUME NEW g \in Workers \cup {Boot}, RecordAllocated(g)
       PROVE  TypeInv'
  <2>1. db' \in Table
    BY <1>24, TableOps DEF RecordAllocated, Status
  <2>2. DataTypes'
    BY <1>24 DEF RecordAllocated, DataTypes, FillInv, AfterFunc, Timer,
        Mu!TypeOK
  <2>3. ControlTypes' /\ MyInv' /\ FillInv'
    BY <1>24 DEF RecordAllocated, FillInv, BootPC, HourlyPC, RequestPC,
        WorkerPC, Returns, DataTypes
  <2> QED
    BY <2>1, <2>2, <2>3
<1>25. ASSUME NEW t \in timers, SessionTimerStops(t)
       PROVE  TypeInv'
  <2>1. db' \in Table
    BY <1>25 DEF SessionTimerStops
  <2>2. DataTypes'
    BY <1>25 DEF SessionTimerStops, DataTypes, Advance, Stop, Stopped,
        Due, Timer, Mu!TypeOK
  <2>3. ControlTypes' /\ MyInv' /\ FillInv'
    BY <1>25 DEF SessionTimerStops, FillInv, BootPC, HourlyPC, RequestPC,
        WorkerPC
  <2> QED
    BY <2>1, <2>2, <2>3
<1>26. ASSUME NEW t \in timers, SessionTimerDeletes(t)
       PROVE  TypeInv'
  <2>1. db' \in Table
    BY <1>26 DEF SessionTimerDeletes
  <2>2. DataTypes'
    BY <1>26 DEF SessionTimerDeletes, DataTypes, Advance, Delete, Deleted,
        Due, Timer, Mu!TypeOK
  <2>3. ControlTypes' /\ MyInv' /\ FillInv'
    BY <1>26 DEF SessionTimerDeletes, FillInv, BootPC, HourlyPC, RequestPC,
        WorkerPC
  <2> QED
    BY <2>1, <2>2, <2>3
<1>27. ASSUME NEW t \in timers, SessionTimerExpires(t)
       PROVE  TypeInv'
  <2>1. db' \in Table
    BY <1>27, TableOps DEF SessionTimerExpires, Status, DataTypes, Timer
  <2>2. DataTypes'
    BY <1>27 DEF SessionTimerExpires, DataTypes, Drop, Due, Timer, Mu!TypeOK
  <2>3. ControlTypes' /\ MyInv' /\ FillInv'
    BY <1>27 DEF SessionTimerExpires, FillInv, BootPC, HourlyPC, RequestPC,
        WorkerPC
  <2> QED
    BY <2>1, <2>2, <2>3
<1>28. ASSUME NEW t \in timers, PoolTimerChecks(t)
       PROVE  TypeInv'
  <2>1. db' \in Table
    BY <1>28 DEF PoolTimerChecks
  <2>2. DataTypes'
    BY <1>28 DEF PoolTimerChecks, DataTypes, Drop, Advance, Due, Timer,
        Mu!TypeOK
  <2>3. ControlTypes' /\ MyInv' /\ FillInv'
    BY <1>28 DEF PoolTimerChecks, FillInv, BootPC, HourlyPC, RequestPC,
        WorkerPC
  <2> QED
    BY <2>1, <2>2, <2>3
<1>29. ASSUME NEW t \in timers, PoolTimerStops(t)
       PROVE  TypeInv'
  <2>1. db' \in Table
    BY <1>29 DEF PoolTimerStops
  <2>2. DataTypes'
    BY <1>29 DEF PoolTimerStops, DataTypes, Advance, Stop, Stopped,
        Due, Timer, Mu!TypeOK
  <2>3. ControlTypes' /\ MyInv' /\ FillInv'
    BY <1>29 DEF PoolTimerStops, FillInv, BootPC, HourlyPC, RequestPC,
        WorkerPC
  <2> QED
    BY <2>1, <2>2, <2>3
<1>30. ASSUME NEW t \in timers, PoolTimerDeletes(t)
       PROVE  TypeInv'
  <2>1. db' \in Table
    BY <1>30 DEF PoolTimerDeletes
  <2>2. DataTypes'
    BY <1>30 DEF PoolTimerDeletes, DataTypes, Advance, Delete, Deleted,
        Due, Timer, Mu!TypeOK
  <2>3. ControlTypes' /\ MyInv' /\ FillInv'
    BY <1>30 DEF PoolTimerDeletes, FillInv, BootPC, HourlyPC, RequestPC,
        WorkerPC
  <2> QED
    BY <2>1, <2>2, <2>3
<1>31. ASSUME NEW t \in timers, PoolTimerReplaces(t)
       PROVE  TypeInv'
  <2>1. db' \in Table
    BY <1>31, TableOps DEF PoolTimerReplaces, Status, DataTypes, Timer
  <2>2. DataTypes'
    BY <1>31 DEF PoolTimerReplaces, DataTypes, Spawn, Drop, Due, Timer,
        Mu!TypeOK
  <2>3. ControlTypes' /\ MyInv' /\ FillInv'
    BY <1>31 DEF PoolTimerReplaces, FillInv, BootPC, HourlyPC, RequestPC,
        WorkerPC
  <2> QED
    BY <2>1, <2>2, <2>3
<1>32. ASSUME Connect
       PROVE  TypeInv'
  <2>1. db' \in Table
    BY <1>32 DEF Connect
  <2>2. DataTypes'
    BY <1>32 DEF Connect, DataTypes, Timer, Mu!TypeOK
  <2>3. ControlTypes' /\ MyInv' /\ FillInv'
    BY <1>32 DEF Connect, FillInv, BootPC, HourlyPC, RequestPC, WorkerPC
  <2> QED
    BY <2>1, <2>2, <2>3
<1>33. ASSUME LoadActive
       PROVE  TypeInv'
  <2>1. db' \in Table
    BY <1>33 DEF LoadActive
  <2>2. DataTypes'
    BY <1>33 DEF LoadActive, DataTypes, Unkept, dbActive, dbAllocated, Snapshot, Timer,
        Mu!TypeOK, Table, Row
  <2>3. ControlTypes' /\ MyInv' /\ FillInv'
    BY <1>33 DEF LoadActive, FillInv, BootPC, HourlyPC, RequestPC, WorkerPC
  <2> QED
    BY <2>1, <2>2, <2>3
<1>34. ASSUME RecoveryDeletes
       PROVE  TypeInv'
  <2>1. db' \in Table
    BY <1>34 DEF RecoveryDeletes
  <2>2. DataTypes'
    BY <1>34 DEF RecoveryDeletes, DataTypes, Delete, Deleted, Timer, Mu!TypeOK
  <2>3. ControlTypes' /\ MyInv' /\ FillInv'
    BY <1>34 DEF RecoveryDeletes, FillInv, BootPC, HourlyPC, RequestPC, WorkerPC
  <2> QED
    BY <2>1, <2>2, <2>3
<1>35. ASSUME ExpireRow
       PROVE  TypeInv'
  <2>1. db' \in Table
    BY <1>35, TableOps DEF ExpireRow, Status
  <2>2. DataTypes'
    BY <1>35 DEF ExpireRow, DataTypes, Timer, Mu!TypeOK
  <2>3. ControlTypes' /\ MyInv' /\ FillInv'
    BY <1>35 DEF ExpireRow, FillInv, BootPC, HourlyPC, RequestPC, WorkerPC
  <2> QED
    BY <2>1, <2>2, <2>3
<1>36. ASSUME LoadAllocated
       PROVE  TypeInv'
  <2>1. db' \in Table
    BY <1>36 DEF LoadAllocated
  <2>2. DataTypes'
    BY <1>36 DEF LoadAllocated, DataTypes, Unkept, dbActive, dbAllocated, Snapshot,
        Timer, Mu!TypeOK, Table, Row
  <2>3. ControlTypes' /\ MyInv' /\ FillInv'
    BY <1>36 DEF LoadAllocated, FillInv, BootPC, HourlyPC, RequestPC, WorkerPC
  <2> QED
    BY <2>1, <2>2, <2>3
<1>37. ASSUME PurgeRow
       PROVE  TypeInv'
  <2>1. db' \in Table
    BY <1>37, TableOps DEF PurgeRow, Status
  <2>2. DataTypes'
    BY <1>37 DEF PurgeRow, DataTypes, Timer, Mu!TypeOK
  <2>3. ControlTypes' /\ MyInv' /\ FillInv'
    BY <1>37 DEF PurgeRow, FillInv, BootPC, HourlyPC, RequestPC, WorkerPC
  <2> QED
    BY <2>1, <2>2, <2>3
<1>38. ASSUME PreAllocateNext
       PROVE  TypeInv'
  <2>1. db' \in Table
    BY <1>38 DEF PreAllocateNext
  <2>2. DataTypes'
    BY <1>38 DEF PreAllocateNext, DataTypes, Timer, Mu!TypeOK
  <2>3. ControlTypes' /\ MyInv' /\ FillInv'
    BY <1>38 DEF PreAllocateNext, FillInv, BootPC, HourlyPC, RequestPC,
        WorkerPC, DataTypes
  <2> QED
    BY <2>1, <2>2, <2>3
<1>39. ASSUME NEW e \in todo, RestoreActive(e)
       PROVE  TypeInv'
  <2>1. db' \in Table
    BY <1>39 DEF RestoreActive
  <2>2. DataTypes'
    BY <1>39 DEF RestoreActive, DataTypes, AfterFunc, Timer, Mu!TypeOK
  <2>3. ControlTypes' /\ MyInv' /\ FillInv'
    BY <1>39 DEF RestoreActive, FillInv, BootPC, HourlyPC, RequestPC, WorkerPC,
        DataTypes
  <2> QED
    BY <2>1, <2>2, <2>3
<1>40. ASSUME NEW e \in todo, RestoreExpired(e)
       PROVE  TypeInv'
  <2>1. db' \in Table
    BY <1>40 DEF RestoreExpired
  <2>2. DataTypes'
    BY <1>40 DEF RestoreExpired, DataTypes, Stop, Stopped, Timer,
        Mu!TypeOK
  <2>3. ControlTypes' /\ MyInv' /\ FillInv'
    BY <1>40 DEF RestoreExpired, FillInv, BootPC, HourlyPC, RequestPC,
        WorkerPC, DataTypes
  <2> QED
    BY <2>1, <2>2, <2>3
<1>41. ASSUME NEW e \in todo, PurgeAllocated(e)
       PROVE  TypeInv'
  <2>1. db' \in Table
    BY <1>41 DEF PurgeAllocated
  <2>2. DataTypes'
    BY <1>41 DEF PurgeAllocated, DataTypes, Stop, Stopped, Timer,
        Mu!TypeOK
  <2>3. ControlTypes' /\ MyInv' /\ FillInv'
    BY <1>41 DEF PurgeAllocated, FillInv, BootPC, HourlyPC, RequestPC,
        WorkerPC, DataTypes
  <2> QED
    BY <2>1, <2>2, <2>3
<1>42. ASSUME NEW g \in Resyncers, ResyncWaits(g)
       PROVE  TypeInv'
  <2>1. db' \in Table
    BY <1>42 DEF ResyncWaits
  <2>2. DataTypes'
    BY <1>42 DEF ResyncWaits, DataTypes, Mu!Announce, Timer, Mu!TypeOK
  <2>3. ControlTypes' /\ MyInv' /\ FillInv'
    BY <1>42 DEF ResyncWaits, FillInv, BootPC, HourlyPC, RequestPC, WorkerPC,
        ResyncDue
  <2> QED
    BY <2>1, <2>2, <2>3
<1>43. ASSUME NEW g \in Resyncers, ResyncLocks(g)
       PROVE  TypeInv'
  <2>1. db' \in Table
    BY <1>43 DEF ResyncLocks
  <2>2. DataTypes'
    BY <1>43 DEF ResyncLocks, DataTypes, Mu!Acquire, Timer, Mu!TypeOK
  <2>3. ControlTypes' /\ MyInv' /\ FillInv'
    BY <1>43 DEF ResyncLocks, FillInv, BootPC, HourlyPC, RequestPC, WorkerPC
  <2> QED
    BY <2>1, <2>2, <2>3
<1>44. ASSUME NEW g \in Resyncers, ListInstances(g)
       PROVE  TypeInv'
  <2>1. db' \in Table
    BY <1>44 DEF ListInstances
  <2>2. DataTypes'
    BY <1>44 DEF ListInstances, DataTypes, Snapshot, Timer, Mu!TypeOK, Table,
        Row
  <2>3. ControlTypes' /\ MyInv' /\ FillInv'
    BY <1>44 DEF ListInstances, FillInv, BootPC, HourlyPC, RequestPC, WorkerPC
  <2> QED
    BY <2>1, <2>2, <2>3
<1>45. ASSUME NEW g \in Resyncers, NEW e \in todo, CheckInstance(g, e)
       PROVE  TypeInv'
  <2>1. db' \in Table
    BY <1>45 DEF CheckInstance
  <2>2. DataTypes'
    BY <1>45 DEF CheckInstance, DataTypes, Timer, Mu!TypeOK
  <2>3. ControlTypes' /\ MyInv' /\ FillInv'
    BY <1>45 DEF CheckInstance, FillInv, BootPC, HourlyPC, RequestPC, WorkerPC,
        DataTypes
  <2> QED
    BY <2>1, <2>2, <2>3
<1>46. ASSUME NEW g \in Resyncers, DropStops(g)
       PROVE  TypeInv'
  <2>1. db' \in Table
    BY <1>46 DEF DropStops
  <2>2. DataTypes'
    BY <1>46 DEF DropStops, DataTypes, Stop, Stopped, Timer,
        Mu!TypeOK
  <2>3. ControlTypes' /\ MyInv' /\ FillInv'
    BY <1>46 DEF DropStops, FillInv, BootPC, HourlyPC, RequestPC, WorkerPC
  <2> QED
    BY <2>1, <2>2, <2>3
<1>47. ASSUME NEW g \in Resyncers, DropDeletes(g)
       PROVE  TypeInv'
  <2>1. db' \in Table
    BY <1>47 DEF DropDeletes
  <2>2. DataTypes'
    BY <1>47 DEF DropDeletes, DataTypes, Delete, Deleted, Timer,
        Mu!TypeOK
  <2>3. ControlTypes' /\ MyInv' /\ FillInv'
    BY <1>47 DEF DropDeletes, FillInv, BootPC, HourlyPC, RequestPC, WorkerPC
  <2> QED
    BY <2>1, <2>2, <2>3
<1>48. ASSUME NEW g \in Resyncers, ResyncEnds(g)
       PROVE  TypeInv'
  <2>1. db' \in Table
    BY <1>48 DEF ResyncEnds, Resynced
  <2>2. DataTypes'
    BY <1>48 DEF ResyncEnds, DataTypes, Resynced, Mu!Unlock, Mu!TypeOK
  <2>3. ControlTypes' /\ MyInv' /\ FillInv'
    BY <1>48 DEF ResyncEnds, FillInv, BootPC, HourlyPC, RequestPC, WorkerPC,
        Resynced, DataTypes
  <2> QED
    BY <2>1, <2>2, <2>3
<1>49. ASSUME NEW g \in Resyncers, ResyncFails(g)
       PROVE  TypeInv'
  <2>1. db' \in Table
    BY <1>49 DEF ResyncFails, Resynced
  <2>2. DataTypes'
    BY <1>49 DEF ResyncFails, DataTypes, Resynced, Mu!Unlock, Mu!TypeOK
  <2>3. ControlTypes' /\ MyInv' /\ FillInv'
    BY <1>49 DEF ResyncFails, FillInv, BootPC, HourlyPC, RequestPC, WorkerPC,
        Resynced, DataTypes
  <2> QED
    BY <2>1, <2>2, <2>3
<1>50. ASSUME NEW i \in Inst, IncusCreates(i)
       PROVE  TypeInv'
  <2>1. db' \in Table
    BY <1>50 DEF IncusCreates
  <2>2. DataTypes'
    BY <1>50 DEF IncusCreates, DataTypes, Timer, Mu!TypeOK
  <2>3. ControlTypes' /\ MyInv' /\ FillInv'
    BY <1>50 DEF IncusCreates, FillInv, BootPC, HourlyPC, RequestPC, WorkerPC
  <2> QED
    BY <2>1, <2>2, <2>3
<1>51. ASSUME NEW i \in Inst, InfoFails(i)
       PROVE  TypeInv'
  <2>1. db' \in Table
    BY <1>51 DEF InfoFails
  <2>2. DataTypes'
    BY <1>51 DEF InfoFails, DataTypes, StopInOutage, Stopped, Timer,
        Mu!TypeOK
  <2>3. ControlTypes' /\ MyInv' /\ FillInv'
    BY <1>51 DEF InfoFails, FillInv, BootPC, HourlyPC, RequestPC, WorkerPC
  <2> QED
    BY <2>1, <2>2, <2>3
<1>52. ASSUME NEW i \in Inst, InfoDeletes(i)
       PROVE  TypeInv'
  <2>1. db' \in Table
    BY <1>52 DEF InfoDeletes
  <2>2. DataTypes'
    BY <1>52 DEF InfoDeletes, DataTypes, DeleteInOutage, Deleted, Timer, Mu!TypeOK
  <2>3. ControlTypes' /\ MyInv' /\ FillInv'
    BY <1>52 DEF InfoDeletes, FillInv, BootPC, HourlyPC, RequestPC, WorkerPC
  <2> QED
    BY <2>1, <2>2, <2>3
<1>53. ASSUME NEW i \in Inst, PowerOff(i)
       PROVE  TypeInv'
  <2>1. db' \in Table
    BY <1>53 DEF PowerOff
  <2>2. DataTypes'
    BY <1>53 DEF PowerOff, DataTypes, Timer, Mu!TypeOK
  <2>3. ControlTypes' /\ MyInv' /\ FillInv'
    BY <1>53 DEF PowerOff, FillInv, BootPC, HourlyPC, RequestPC, WorkerPC
  <2> QED
    BY <2>1, <2>2, <2>3
<1>54. ASSUME Tick
       PROVE  TypeInv'
  <2>1. db' \in Table
    BY <1>54, AgedTable DEF Tick
  <2>2. DataTypes'
    BY <1>54 DEF Tick, DataTypes, Timer, Mu!TypeOK, Table, Row, Sooner
  <2>3. ControlTypes' /\ MyInv' /\ FillInv'
    BY <1>54 DEF Tick, FillInv, BootPC, HourlyPC, RequestPC, WorkerPC
  <2> QED
    BY <2>1, <2>2, <2>3
<1>55. ASSUME Crash
       PROVE  TypeInv'
  <2>1. db' \in Table
    BY <1>55 DEF Crash
  <2>2. DataTypes'
    BY <1>55 DEF Crash, DataTypes, Mu!Free, Timer, Mu!TypeOK
  <2>3. ControlTypes' /\ MyInv' /\ FillInv'
    BY <1>55 DEF Crash, FillInv, BootPC, HourlyPC, RequestPC, WorkerPC
  <2> QED
    BY <2>1, <2>2, <2>3
<1>56. CASE UNCHANGED vars
  BY <1>56 DEF vars, FillInv, DataTypes, Mu!TypeOK
<1> QED
  BY <1>1, <1>2, <1>3, <1>4, <1>5, <1>6, <1>7, <1>8, <1>9, <1>10, <1>11, <1>12,
      <1>13, <1>14, <1>15, <1>16, <1>17, <1>18, <1>19, <1>20, <1>21, <1>22,
      <1>23, <1>24, <1>25, <1>26, <1>27, <1>28, <1>29, <1>30, <1>31, <1>32,
      <1>33, <1>34, <1>35, <1>36, <1>37, <1>38, <1>39, <1>40, <1>41, <1>42,
      <1>43, <1>44, <1>45, <1>46, <1>47, <1>48, <1>49, <1>50, <1>51, <1>52,
      <1>53, <1>54, <1>55, <1>56 DEF Next, Creation, Handler,
      Timers, Recovery, Resync, Environment

\* Every variable keeps its type.
THEOREM TypeCorrect == Spec => []TypeOK
<1>1. TypeInv => TypeOK
  BY DEF TypeInv
<1> QED
  BY InitTypes, TypeStep, <1>1, PTL DEF Spec
-----------------------------------------------------------------------------
(* Creations and resyncs exclude each other: muCreate does its work. *)

\* The lock is held exactly by those the program counters say hold it, and the
\* hourly loop is not running before Boot is past its own resync, so that there
\* is one writer at most.
ReadersInv == \A c \in Creators : c \in muCreate.readers <=> Creating(c)

WriterInv == /\ muCreate.writer = "held" <=> \E g \in Resyncers : Sweeping(g)
             /\ muCreate.writer = "waiting" <=> \E g \in Resyncers : pc[g] = "lock"
             /\ muCreate.writer = "held" => muCreate.readers = {}

OneResync == pc[Boot] \in {"down", "load", "restore", "halted", "expire", "purge",
                           "purging", "purgerow", "lock", "list", "sweep", "drop",
                           "dropping"} => pc[Hourly] = "off"

LockInv == ReadersInv /\ WriterInv /\ OneResync
-----------------------------------------------------------------------------
LEMMA InitLock == Init => LockInv
  BY ConstantsAssumption
  DEF Init, LockInv, ReadersInv, WriterInv, OneResync, Creating, Sweeping, Mu!Free,
      Goroutines, Creators, Resyncers

\* Every step keeps the lock and the program counters together.
LEMMA LockStep == TypeInv /\ LockInv /\ [Next]_vars => LockInv'
<1> SUFFICES ASSUME TypeInv, LockInv, [Next]_vars PROVE LockInv'
  OBVIOUS
<1> USE ConstantsAssumption
    DEF TypeInv, TypeOK, ControlTypes, DataTypes, Mu!TypeOK, LockInv, ReadersInv,
        WriterInv, OneResync, Creating, Sweeping, Go, GoWith, Goroutines, Creators,
        Resyncers, BootPC, HourlyPC, RequestPC, WorkerPC
<1>1. ASSUME NEW g \in Creators, CreateInstance(g)
      PROVE  LockInv'
  BY <1>1 DEF CreateInstance, Locks, Mu!RLock
<1>2. ASSUME NEW g \in Creators, CreateRefused(g)
      PROVE  LockInv'
  BY <1>2 DEF CreateRefused, AfterFailure
<1>3. ASSUME NEW g \in Creators, AwaitCreated(g)
      PROVE  LockInv'
  BY <1>3 DEF AwaitCreated, Unlocks, AfterFailure, Mu!RUnlock
<1>4. ASSUME NEW g \in Creators, AwaitLost(g)
      PROVE  LockInv'
  BY <1>4 DEF AwaitLost, Unlocks, AfterFailure, Mu!RUnlock
<1>5. ASSUME NEW g \in Creators, StartInstance(g)
      PROVE  LockInv'
  BY <1>5 DEF StartInstance
<1>6. ASSUME NEW g \in Creators, InstanceReady(g)
      PROVE  LockInv'
  BY <1>6 DEF InstanceReady, Unlocks, Mu!RUnlock
<1>7. ASSUME NEW g \in Creators, StartFails(g)
      PROVE  LockInv'
  BY <1>7 DEF StartFails
<1>8. ASSUME NEW g \in Creators, UndoCreation(g)
      PROVE  LockInv'
  BY <1>8 DEF UndoCreation, Unlocks, AfterFailure, Mu!RUnlock
<1>9. ASSUME NEW g \in Creators, RecordFails(g)
      PROVE  LockInv'
  BY <1>9 DEF RecordFails
<1>10. ASSUME NEW g \in Creators, Discard(g)
       PROVE  LockInv'
  BY <1>10 DEF Discard, Returns
<1>11. ASSUME NEW g \in Requests, CheckTotal(g)
       PROVE  LockInv'
  BY <1>11 DEF CheckTotal
<1>12. ASSUME NEW g \in Requests, CheckIP(g)
       PROVE  LockInv'
  BY <1>12 DEF CheckIP
<1>13. ASSUME NEW g \in Requests, SelectAllocated(g)
       PROVE  LockInv'
  BY <1>13 DEF SelectAllocated
<1>14. ASSUME NEW g \in Requests, ClaimAllocated(g)
       PROVE  LockInv'
  BY <1>14 DEF ClaimAllocated
<1>15. ASSUME NEW g \in Requests, ClaimFails(g)
       PROVE  LockInv'
  BY <1>15 DEF ClaimFails
<1>16. ASSUME NEW g \in Requests, ClaimedStopped(g)
       PROVE  LockInv'
  BY <1>16 DEF ClaimedStopped
<1>17. ASSUME NEW g \in Requests, StartClaimed(g)
       PROVE  LockInv'
  BY <1>17 DEF StartClaimed
<1>18. ASSUME NEW g \in Requests, ClaimedReady(g)
       PROVE  LockInv'
  BY <1>18 DEF ClaimedReady
<1>19. ASSUME NEW g \in Requests, ClaimedFails(g)
       PROVE  LockInv'
  BY <1>19 DEF ClaimedFails
<1>20. ASSUME NEW g \in Requests, RecordSession(g)
       PROVE  LockInv'
  BY <1>20 DEF RecordSession
<1>21. ASSUME NEW g \in Requests, Answer(g)
       PROVE  LockInv'
  BY <1>21 DEF Answer
<1>22. ASSUME NEW g \in Requests, Arrive(g)
       PROVE  LockInv'
  BY <1>22 DEF Arrive
<1>23. ASSUME NEW g \in Workers, WorkerStarts(g)
       PROVE  LockInv'
  BY <1>23 DEF WorkerStarts
<1>24. ASSUME NEW g \in Workers \cup {Boot}, RecordAllocated(g)
       PROVE  LockInv'
  BY <1>24 DEF RecordAllocated, Returns
<1>25. ASSUME NEW t \in timers, SessionTimerStops(t)
       PROVE  LockInv'
  BY <1>25 DEF SessionTimerStops
<1>26. ASSUME NEW t \in timers, SessionTimerDeletes(t)
       PROVE  LockInv'
  BY <1>26 DEF SessionTimerDeletes
<1>27. ASSUME NEW t \in timers, SessionTimerExpires(t)
       PROVE  LockInv'
  BY <1>27 DEF SessionTimerExpires
<1>28. ASSUME NEW t \in timers, PoolTimerChecks(t)
       PROVE  LockInv'
  BY <1>28 DEF PoolTimerChecks
<1>29. ASSUME NEW t \in timers, PoolTimerStops(t)
       PROVE  LockInv'
  BY <1>29 DEF PoolTimerStops
<1>30. ASSUME NEW t \in timers, PoolTimerDeletes(t)
       PROVE  LockInv'
  BY <1>30 DEF PoolTimerDeletes
<1>31. ASSUME NEW t \in timers, PoolTimerReplaces(t)
       PROVE  LockInv'
  BY <1>31 DEF PoolTimerReplaces
<1>32. ASSUME Connect
       PROVE  LockInv'
  BY <1>32 DEF Connect
<1>33. ASSUME LoadActive
       PROVE  LockInv'
  BY <1>33 DEF LoadActive
<1>34. ASSUME RecoveryDeletes
       PROVE  LockInv'
  BY <1>34 DEF RecoveryDeletes
<1>35. ASSUME ExpireRow
       PROVE  LockInv'
  BY <1>35 DEF ExpireRow
<1>36. ASSUME LoadAllocated
       PROVE  LockInv'
  BY <1>36 DEF LoadAllocated
<1>37. ASSUME PurgeRow
       PROVE  LockInv'
  BY <1>37 DEF PurgeRow
<1>38. ASSUME PreAllocateNext
       PROVE  LockInv'
  BY <1>38 DEF PreAllocateNext
<1>39. ASSUME NEW e \in todo, RestoreActive(e)
       PROVE  LockInv'
  BY <1>39 DEF RestoreActive
<1>40. ASSUME NEW e \in todo, RestoreExpired(e)
       PROVE  LockInv'
  BY <1>40 DEF RestoreExpired
<1>41. ASSUME NEW e \in todo, PurgeAllocated(e)
       PROVE  LockInv'
  BY <1>41 DEF PurgeAllocated
<1>42. ASSUME NEW g \in Resyncers, ResyncWaits(g)
       PROVE  LockInv'
  BY <1>42 DEF ResyncWaits, ResyncDue, Mu!Announce
<1>43. ASSUME NEW g \in Resyncers, ResyncLocks(g)
       PROVE  LockInv'
  BY <1>43 DEF ResyncLocks, Mu!Acquire
<1>44. ASSUME NEW g \in Resyncers, ListInstances(g)
       PROVE  LockInv'
  BY <1>44 DEF ListInstances
<1>45. ASSUME NEW g \in Resyncers, NEW e \in todo, CheckInstance(g, e)
       PROVE  LockInv'
  BY <1>45 DEF CheckInstance
<1>46. ASSUME NEW g \in Resyncers, DropStops(g)
       PROVE  LockInv'
  BY <1>46 DEF DropStops
<1>47. ASSUME NEW g \in Resyncers, DropDeletes(g)
       PROVE  LockInv'
  BY <1>47 DEF DropDeletes
<1>48. ASSUME NEW g \in Resyncers, ResyncEnds(g)
       PROVE  LockInv'
  BY <1>48 DEF ResyncEnds, Resynced, Mu!Unlock
<1>49. ASSUME NEW g \in Resyncers, ResyncFails(g)
       PROVE  LockInv'
  BY <1>49 DEF ResyncFails, Resynced, Mu!Unlock
<1>50. ASSUME NEW i \in Inst, IncusCreates(i)
       PROVE  LockInv'
  BY <1>50 DEF IncusCreates
<1>51. ASSUME NEW i \in Inst, InfoFails(i)
       PROVE  LockInv'
  BY <1>51 DEF InfoFails
<1>52. ASSUME NEW i \in Inst, InfoDeletes(i)
       PROVE  LockInv'
  BY <1>52 DEF InfoDeletes
<1>53. ASSUME NEW i \in Inst, PowerOff(i)
       PROVE  LockInv'
  BY <1>53 DEF PowerOff
<1>54. ASSUME Tick
       PROVE  LockInv'
  BY <1>54 DEF Tick
<1>55. ASSUME Crash
       PROVE  LockInv'
  BY <1>55 DEF Crash, Mu!Free
<1>56. CASE UNCHANGED vars
  BY <1>56 DEF vars
<1> QED
  BY <1>1, <1>2, <1>3, <1>4, <1>5, <1>6, <1>7, <1>8, <1>9, <1>10, <1>11, <1>12,
      <1>13, <1>14, <1>15, <1>16, <1>17, <1>18, <1>19, <1>20, <1>21, <1>22,
      <1>23, <1>24, <1>25, <1>26, <1>27, <1>28, <1>29, <1>30, <1>31, <1>32,
      <1>33, <1>34, <1>35, <1>36, <1>37, <1>38, <1>39, <1>40, <1>41, <1>42,
      <1>43, <1>44, <1>45, <1>46, <1>47, <1>48, <1>49, <1>50, <1>51, <1>52,
      <1>53, <1>54, <1>55, <1>56 DEF Next, Creation, Handler,
      Timers, Recovery, Resync, Environment

\* While a resync lists and deletes instances, no goroutine is between the first
\* and the last call of instanceCreate (the lock of session.go).
THEOREM ResyncExcludesCreation == Spec => []NoCreateDuringResync
<1>1. TypeInv /\ LockInv => NoCreateDuringResync
  BY DEF LockInv, ReadersInv, WriterInv, NoCreateDuringResync
<1> QED
  BY InitTypes, TypeStep, InitLock, LockStep, <1>1, PTL DEF Spec
=============================================================================
