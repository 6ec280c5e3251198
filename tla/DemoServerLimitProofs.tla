----------------------- MODULE DemoServerLimitProofs -----------------------
(***************************************************************************)
(* How far the limits can be overshot, for every value of the constants.   *)
(***************************************************************************)
EXTENDS DemoServerProofs, FiniteSetTheorems

\* A step that brings no row to "active", moves none to another client and lets
\* no handler past a check.
Quiet ==
    /\ \A i \in Inst : db'[i].status = "active" =>
          db[i].status = "active" /\ db'[i].ip = db[i].ip
    /\ \A r \in Requests :
          /\ r \in Admitted' => r \in Admitted
          /\ pc'[r] # "ip" /\ r \in Admitted' => pc[r] # "ip" /\ client'[r] = client[r]

Writes(r) == ClaimAllocated(r) \/ RecordSession(r)
-----------------------------------------------------------------------------
\* Only the two checks and the two writes of a handler matter to the limits.
LEMMA OnlyHandlers ==
    TypeInv /\ [Next]_vars =>
        Quiet \/ \E r \in Requests : CheckTotal(r) \/ CheckIP(r) \/ Writes(r)
<1> SUFFICES ASSUME TypeInv, [Next]_vars,
                    \A r \in Requests : ~ (CheckTotal(r) \/ CheckIP(r) \/ Writes(r))
             PROVE  Quiet
  OBVIOUS
<1> USE ConstantsAssumption
    DEF TypeInv, TypeOK, ControlTypes, DataTypes, MyInv, Holding, Quiet, Admitted,
        Go, GoWith, NoFault, Fault, Goroutines, Creators, Resyncers, Table, Row, handlers
<1>1. ASSUME NEW g \in Creators, CreateInstance(g)
      PROVE  Quiet
  BY <1>1 DEF CreateInstance, dbDelete, NoRow
<1>2. ASSUME NEW g \in Creators, CreateRefused(g)
      PROVE  Quiet
  BY <1>2 DEF CreateRefused, AfterFailure
<1>3. ASSUME NEW g \in Creators, AwaitCreated(g)
      PROVE  Quiet
  BY <1>3 DEF AwaitCreated, AfterFailure
<1>4. ASSUME NEW g \in Creators, AwaitLost(g)
      PROVE  Quiet
  BY <1>4 DEF AwaitLost, AfterFailure
<1>5. ASSUME NEW g \in Creators, StartInstance(g)
      PROVE  Quiet
  BY <1>5 DEF StartInstance
<1>6. ASSUME NEW g \in Creators, InstanceReady(g)
      PROVE  Quiet
  BY <1>6 DEF InstanceReady
<1>7. ASSUME NEW g \in Creators, StartFails(g)
      PROVE  Quiet
  BY <1>7 DEF StartFails
<1>8. ASSUME NEW g \in Creators, UndoCreation(g)
      PROVE  Quiet
  BY <1>8 DEF UndoCreation, AfterFailure
<1>9. ASSUME NEW g \in Creators, RecordFails(g)
      PROVE  Quiet
  BY <1>9 DEF RecordFails
<1>10. ASSUME NEW g \in Creators, Discard(g)
       PROVE  Quiet
  BY <1>10 DEF Discard, Returns
<1>11. ASSUME NEW g \in Requests, SelectAllocated(g)
       PROVE  Quiet
  BY <1>11 DEF SelectAllocated
<1>12. ASSUME NEW g \in Requests, ClaimFails(g)
       PROVE  Quiet
  BY <1>12 DEF ClaimFails
<1>13. ASSUME NEW g \in Requests, ClaimedStopped(g)
       PROVE  Quiet
  BY <1>13 DEF ClaimedStopped
<1>14. ASSUME NEW g \in Requests, StartClaimed(g)
       PROVE  Quiet
  BY <1>14 DEF StartClaimed
<1>15. ASSUME NEW g \in Requests, ClaimedReady(g)
       PROVE  Quiet
  BY <1>15 DEF ClaimedReady
<1>16. ASSUME NEW g \in Requests, ClaimedFails(g)
       PROVE  Quiet
  BY <1>16 DEF ClaimedFails
<1>17. ASSUME NEW g \in Requests, Answer(g)
       PROVE  Quiet
  BY <1>17 DEF Answer
<1>18. ASSUME NEW g \in Requests, Arrive(g)
       PROVE  Quiet
  BY <1>18 DEF Arrive
<1>19. ASSUME NEW g \in Workers, WorkerStarts(g)
       PROVE  Quiet
  BY <1>19 DEF WorkerStarts
<1>20. ASSUME NEW g \in Workers \cup {Boot}, RecordAllocated(g)
       PROVE  Quiet
  BY <1>20 DEF RecordAllocated, Returns, dbNew
<1>21. ASSUME NEW t \in timers, SessionTimerStops(t)
       PROVE  Quiet
  BY <1>21 DEF SessionTimerStops
<1>22. ASSUME NEW t \in timers, SessionTimerDeletes(t)
       PROVE  Quiet
  BY <1>22 DEF SessionTimerDeletes
<1>23. ASSUME NEW t \in timers, SessionTimerExpires(t)
       PROVE  Quiet
  BY <1>23 DEF SessionTimerExpires, dbExpire
<1>24. ASSUME NEW t \in timers, PoolTimerChecks(t)
       PROVE  Quiet
  BY <1>24 DEF PoolTimerChecks
<1>25. ASSUME NEW t \in timers, PoolTimerStops(t)
       PROVE  Quiet
  BY <1>25 DEF PoolTimerStops
<1>26. ASSUME NEW t \in timers, PoolTimerDeletes(t)
       PROVE  Quiet
  BY <1>26 DEF PoolTimerDeletes
<1>27. ASSUME NEW t \in timers, PoolTimerReplaces(t)
       PROVE  Quiet
  BY <1>27 DEF PoolTimerReplaces, dbDelete, NoRow
<1>28. ASSUME Connect
       PROVE  Quiet
  BY <1>28 DEF Connect
<1>29. ASSUME LoadActive
       PROVE  Quiet
  BY <1>29 DEF LoadActive, Snapshot
<1>30. ASSUME RecoveryDeletes
       PROVE  Quiet
  BY <1>30 DEF RecoveryDeletes
<1>31. ASSUME ExpireRow
       PROVE  Quiet
  BY <1>31 DEF ExpireRow, dbExpire
<1>32. ASSUME LoadAllocated
       PROVE  Quiet
  BY <1>32 DEF LoadAllocated, Snapshot
<1>33. ASSUME PurgeRow
       PROVE  Quiet
  BY <1>33 DEF PurgeRow, dbDelete, NoRow
<1>34. ASSUME PreAllocateNext
       PROVE  Quiet
  BY <1>34 DEF PreAllocateNext
<1>35. ASSUME NEW e \in todo, RestoreActive(e)
       PROVE  Quiet
  BY <1>35 DEF RestoreActive
<1>36. ASSUME NEW e \in todo, RestoreExpired(e)
       PROVE  Quiet
  BY <1>36 DEF RestoreExpired
<1>37. ASSUME NEW e \in todo, PurgeAllocated(e)
       PROVE  Quiet
  BY <1>37 DEF PurgeAllocated
<1>38. ASSUME NEW g \in Resyncers, ResyncWaits(g)
       PROVE  Quiet
  BY <1>38 DEF ResyncWaits
<1>39. ASSUME NEW g \in Resyncers, ResyncLocks(g)
       PROVE  Quiet
  BY <1>39 DEF ResyncLocks
<1>40. ASSUME NEW g \in Resyncers, ListInstances(g)
       PROVE  Quiet
  BY <1>40 DEF ListInstances, Snapshot
<1>41. ASSUME NEW g \in Resyncers, NEW e \in todo, CheckInstance(g, e)
       PROVE  Quiet
  BY <1>41 DEF CheckInstance
<1>42. ASSUME NEW g \in Resyncers, DropStops(g)
       PROVE  Quiet
  BY <1>42 DEF DropStops
<1>43. ASSUME NEW g \in Resyncers, DropDeletes(g)
       PROVE  Quiet
  BY <1>43 DEF DropDeletes
<1>44. ASSUME NEW g \in Resyncers, ResyncEnds(g)
       PROVE  Quiet
  BY <1>44 DEF ResyncEnds, Resynced
<1>45. ASSUME NEW g \in Resyncers, ResyncFails(g)
       PROVE  Quiet
  BY <1>45 DEF ResyncFails, Resynced
<1>46. ASSUME NEW i \in Inst, IncusCreates(i)
       PROVE  Quiet
  BY <1>46 DEF IncusCreates
<1>47. ASSUME NEW i \in Inst, InfoFails(i)
       PROVE  Quiet
  BY <1>47 DEF InfoFails
<1>48. ASSUME NEW i \in Inst, InfoDeletes(i)
       PROVE  Quiet
  BY <1>48 DEF InfoDeletes
<1>49. ASSUME NEW i \in Inst, PowerOff(i)
       PROVE  Quiet
  BY <1>49 DEF PowerOff
<1>50. ASSUME Tick
       PROVE  Quiet
  BY <1>50 DEF Tick, Aged
<1>51. ASSUME Crash
       PROVE  Quiet
  BY <1>51 DEF Crash
<1>52. CASE UNCHANGED vars
  BY <1>52 DEF vars
<1> QED
  BY <1>1, <1>2, <1>3, <1>4, <1>5, <1>6, <1>7, <1>8, <1>9, <1>10, <1>11, <1>12,
      <1>13, <1>14, <1>15, <1>16, <1>17, <1>18, <1>19, <1>20, <1>21, <1>22,
      <1>23, <1>24, <1>25, <1>26, <1>27, <1>28, <1>29, <1>30, <1>31, <1>32,
      <1>33, <1>34, <1>35, <1>36, <1>37, <1>38, <1>39, <1>40, <1>41, <1>42,
      <1>43, <1>44, <1>45, <1>46, <1>47, <1>48, <1>49, <1>50, <1>51, <1>52 DEF
      Next, Creation, Handler, Timers, Recovery, Resync, Environment, Writes
-----------------------------------------------------------------------------
\* A sum of two counts does not grow when both sets shrink, nor when one gains
\* an element that is paid for by the other.
LEMMA CountsShrink ==
    ASSUME NEW A, NEW B, IsFiniteSet(A), IsFiniteSet(B),
           NEW C \in SUBSET A, NEW D \in SUBSET B
    PROVE  /\ Cardinality(A) \in Nat /\ Cardinality(B) \in Nat
           /\ Cardinality(C) \in Nat /\ Cardinality(D) \in Nat
           /\ Cardinality(C) + Cardinality(D) =< Cardinality(A) + Cardinality(B)
<1>1. /\ Cardinality(C) =< Cardinality(A) /\ IsFiniteSet(C)
      /\ Cardinality(D) =< Cardinality(B) /\ IsFiniteSet(D)
  BY FS_Subset
<1> QED
  BY <1>1, FS_CardinalityType

LEMMA CountsSwap ==
    ASSUME NEW A, NEW B, IsFiniteSet(A), IsFiniteSet(B), NEW i, NEW r \in B,
           NEW C \in SUBSET (A \cup {i}), NEW D \in SUBSET (B \ {r})
    PROVE  /\ Cardinality(C) \in Nat /\ Cardinality(D) \in Nat
           /\ Cardinality(C) + Cardinality(D) =< Cardinality(A) + Cardinality(B)
<1>1. /\ IsFiniteSet(A \cup {i}) /\ Cardinality(A \cup {i}) =< Cardinality(A) + 1
      /\ IsFiniteSet(B \ {r}) /\ Cardinality(B \ {r}) = Cardinality(B) - 1
  BY FS_AddElement, FS_RemoveElement, FS_CardinalityType
<1>2. Cardinality(C) + Cardinality(D) =< Cardinality(A \cup {i}) + Cardinality(B \ {r})
  BY <1>1, CountsShrink
<1>3. /\ Cardinality(A) \in Nat /\ Cardinality(A \cup {i}) \in Nat
      /\ Cardinality(B) \in Nat /\ Cardinality(B \ {r}) \in Nat
  BY <1>1, FS_CardinalityType
<1>4. Cardinality(C) \in Nat /\ Cardinality(D) \in Nat
  BY <1>1, CountsShrink
<1> QED
  BY <1>1, <1>2, <1>3, <1>4

LEMMA Counted ==
    /\ IsFiniteSet(dbActive(db)) /\ IsFiniteSet(Admitted)
    /\ IsFiniteSet(dbActive(db)') /\ IsFiniteSet(Admitted')
    /\ Cardinality(Requests) \in Nat /\ LimitTotal \in Nat
<1>1. IsFiniteSet(Inst) /\ IsFiniteSet(Requests) /\ LimitTotal \in Nat
  BY ConstantsAssumption
<1>2. /\ dbActive(db) \in SUBSET Inst /\ Admitted \in SUBSET Requests
      /\ dbActive(db)' \in SUBSET Inst /\ Admitted' \in SUBSET Requests
  BY DEF dbActive, Admitted
<1> QED
  BY <1>1, <1>2, FS_Subset, FS_CardinalityType

LEMMA InitTotal == Init => TotalOvershoot
<1> SUFFICES ASSUME Init PROVE TotalOvershoot
  OBVIOUS
<1>1. dbActive(db) = {} /\ Admitted = {}
  BY ConstantsAssumption DEF Init, dbActive, NoRow, Admitted, Goroutines, Creators
<1>2. Cardinality(Requests) # 0 /\ Cardinality(Requests) \in Nat
  BY ConstantsAssumption, FS_EmptySet, FS_CardinalityType
<1>3. LimitTotal \in Nat
  BY ConstantsAssumption
<1> QED
  BY <1>1, <1>2, <1>3, FS_EmptySet DEF TotalOvershoot, dbActiveCount

\* Admission leaves room for one row, and the others that are admitted are at
\* most all the other handlers; a row that is written is paid for by the handler
\* that writes it, which is not admitted any more.
LEMMA TotalStep == TypeInv /\ TotalOvershoot /\ [Next]_vars => TotalOvershoot'
<1> SUFFICES ASSUME TypeInv, TotalOvershoot, [Next]_vars PROVE TotalOvershoot'
  OBVIOUS
<1> DEFINE Shrinks == dbActive(db)' \subseteq dbActive(db) /\ Admitted' \subseteq Admitted
<1>1. Shrinks => TotalOvershoot'
  BY Counted, CountsShrink DEF TotalOvershoot, dbActiveCount
<1>2. CASE Quiet
  <2>1. Shrinks
    BY <1>2 DEF Quiet, dbActive, Admitted
  <2> QED
    BY <1>1, <2>1
<1>3. ASSUME NEW r \in Requests, CheckTotal(r)
      PROVE  TotalOvershoot'
  <2>1. dbActive(db)' = dbActive(db)
    BY <1>3 DEF CheckTotal, dbActive
  <2>2. CASE Full
    <3>1. Admitted' \subseteq Admitted
      BY <1>3, <2>2
      DEF CheckTotal, Admitted, Go, NoFault, Fault, TypeInv, TypeOK, ControlTypes,
          Goroutines, Creators
    <3> QED
      BY <2>1, <3>1, <1>1
  <2>3. CASE ~ Full
    <3>1. Cardinality(Admitted') =< Cardinality(Requests)
      BY Counted, ConstantsAssumption, FS_Subset DEF Admitted
    <3>2. Cardinality(dbActive(db)) < LimitTotal
      BY <2>3, Counted, FS_CardinalityType DEF Full, dbActiveCount
    <3>3. Cardinality(dbActive(db)) \in Nat /\ Cardinality(Admitted') \in Nat
      BY Counted, FS_CardinalityType
    <3> QED
      BY <2>1, <3>1, <3>2, <3>3, Counted DEF TotalOvershoot, dbActiveCount
  <2> QED
    BY <2>2, <2>3
<1>4. ASSUME NEW r \in Requests, CheckIP(r)
      PROVE  TotalOvershoot'
  <2>1. Shrinks
    BY <1>4
    DEF CheckIP, Go, NoFault, Fault, Admitted, dbActive, TypeInv, TypeOK,
        ControlTypes, Goroutines, Creators
  <2> QED
    BY <1>1, <2>1
<1>5. ASSUME NEW r \in Requests, Writes(r)
      PROVE  TotalOvershoot'
  <2>1. dbActive(db)' \subseteq dbActive(db) \cup {my[r]}
    BY <1>5 DEF Writes, ClaimAllocated, RecordSession, dbClaim, dbNew, dbActive,
        TypeInv, TypeOK, Table, Row
  <2>2. r \in Admitted /\ Admitted' \subseteq Admitted \ {r}
    BY <1>5, ConstantsAssumption
    DEF Writes, ClaimAllocated, RecordSession, Go, Admitted, TypeInv, TypeOK,
        ControlTypes, Goroutines, Creators
  <2>3. /\ Cardinality(dbActive(db)') \in Nat /\ Cardinality(Admitted') \in Nat
        /\ Cardinality(dbActive(db)') + Cardinality(Admitted')
             =< Cardinality(dbActive(db)) + Cardinality(Admitted)
    BY <2>1, <2>2, Counted, CountsSwap
  <2>4. Cardinality(dbActive(db)) \in Nat /\ Cardinality(Admitted) \in Nat
    BY Counted, FS_CardinalityType
  <2> QED
    BY <2>3, <2>4, Counted DEF TotalOvershoot, dbActiveCount
<1> QED
  BY <1>2, <1>3, <1>4, <1>5, OnlyHandlers

\* With N handlers at work there are never N sessions more than the limit,
\* whatever the pool, the timers and restarts do meanwhile.
THEOREM TotalBounded == Spec => []TotalOvershoot
  BY InitTypes, TypeStep, InitTotal, TotalStep, PTL DEF Spec

\* So the page never announces more sessions than its maximum when requests are
\* served one at a time: what breaks WithinTotal takes two handlers.
THEOREM OneHandlerWithinTotal == Cardinality(Requests) = 1 => (Spec => []WithinTotal)
<1> SUFFICES ASSUME Cardinality(Requests) = 1 PROVE Spec => []WithinTotal
  OBVIOUS
<1>1. TypeInv /\ TotalOvershoot => WithinTotal
  <2> SUFFICES ASSUME TypeInv, TotalOvershoot PROVE WithinTotal
    OBVIOUS
  <2>1. Cardinality(dbActive(db)) \in Nat /\ Cardinality(Admitted) \in Nat
    BY Counted, FS_CardinalityType
  <2> QED
    BY <2>1, ConstantsAssumption DEF TotalOvershoot, WithinTotal, dbActiveCount
<1> QED
  BY <1>1, InitTypes, TypeStep, TotalBounded, PTL DEF Spec
-----------------------------------------------------------------------------
LEMMA CountedForIP ==
    ASSUME NEW a \in IP
    PROVE  /\ IsFiniteSet(dbActiveForIP(db, a)) /\ IsFiniteSet(AdmittedFor(a))
           /\ IsFiniteSet(dbActiveForIP(db, a)') /\ IsFiniteSet(AdmittedFor(a)')
           /\ Cardinality(Requests) \in Nat /\ LimitIP \in Nat
<1>1. IsFiniteSet(Inst) /\ IsFiniteSet(Requests) /\ LimitIP \in Nat
  BY ConstantsAssumption
<1>2. /\ dbActiveForIP(db, a) \in SUBSET Inst /\ AdmittedFor(a) \in SUBSET Requests
      /\ dbActiveForIP(db, a)' \in SUBSET Inst /\ AdmittedFor(a)' \in SUBSET Requests
  BY DEF dbActiveForIP, dbActive, AdmittedFor, Admitted
<1> QED
  BY <1>1, <1>2, FS_Subset, FS_CardinalityType

LEMMA InitIP == Init => IPOvershoot
<1> SUFFICES ASSUME Init, NEW a \in IP
             PROVE  dbActiveCountForIP(db, a) + Cardinality(AdmittedFor(a))
                      < LimitIP + Cardinality(Requests)
  BY DEF IPOvershoot
<1>1. dbActiveForIP(db, a) = {} /\ AdmittedFor(a) = {}
  BY ConstantsAssumption
  DEF Init, dbActiveForIP, dbActive, NoRow, AdmittedFor, Admitted, Goroutines, Creators
<1>2. Cardinality(Requests) # 0 /\ Cardinality(Requests) \in Nat
  BY ConstantsAssumption, FS_EmptySet, FS_CardinalityType
<1>3. LimitIP \in Nat
  BY ConstantsAssumption
<1> QED
  BY <1>1, <1>2, <1>3, FS_EmptySet DEF dbActiveCountForIP

\* The same argument, client by client: a row is paid for by a handler that serves
\* the client it is written for.
LEMMA IPStep == TypeInv /\ IPOvershoot /\ [Next]_vars => IPOvershoot'
<1> SUFFICES ASSUME TypeInv, [Next]_vars, LimitIP # 0, NEW a \in IP,
                    Cardinality(dbActiveForIP(db, a)) + Cardinality(AdmittedFor(a))
                      < LimitIP + Cardinality(Requests)
             PROVE  Cardinality(dbActiveForIP(db, a)') + Cardinality(AdmittedFor(a)')
                      < LimitIP + Cardinality(Requests)
  BY DEF IPOvershoot, dbActiveCountForIP
<1> DEFINE Kept == Cardinality(dbActiveForIP(db, a)') + Cardinality(AdmittedFor(a)')
                     < LimitIP + Cardinality(Requests)
<1> DEFINE Shrinks == /\ dbActiveForIP(db, a)' \subseteq dbActiveForIP(db, a)
                      /\ AdmittedFor(a)' \subseteq AdmittedFor(a)
<1>1. Shrinks => Kept
  BY CountedForIP, CountsShrink
<1>2. CASE Quiet
  <2>1. Shrinks
    BY <1>2 DEF Quiet, dbActiveForIP, dbActive, AdmittedFor, Admitted
  <2> QED
    BY <1>1, <2>1
<1>3. ASSUME NEW r \in Requests, CheckTotal(r)
      PROVE  Kept
  <2>1. Shrinks
    BY <1>3
    DEF CheckTotal, handlers, Go, NoFault, Fault, AdmittedFor, Admitted, dbActiveForIP,
        dbActive, TypeInv, TypeOK, ControlTypes, Goroutines, Creators
  <2> QED
    BY <1>1, <2>1
<1>4. ASSUME NEW r \in Requests, CheckIP(r)
      PROVE  Kept
  <2>1. dbActiveForIP(db, a)' = dbActiveForIP(db, a)
    BY <1>4 DEF CheckIP, dbActiveForIP, dbActive
  <2>2. CASE client[r] = a /\ pc'[r] = "select"
    <3>1. ~ QuotaReached(dbActiveCountForIP(db, a))
      BY <1>4, <2>2, ConstantsAssumption
      DEF CheckIP, Go, NoFault, Fault, QuotaReached, TypeInv, TypeOK, ControlTypes,
          Goroutines, Creators
    <3>2. Cardinality(dbActiveForIP(db, a)) < LimitIP
      BY <3>1, CountedForIP, FS_CardinalityType DEF QuotaReached, dbActiveCountForIP
    <3>3. Cardinality(AdmittedFor(a)') =< Cardinality(Requests)
      BY ConstantsAssumption, FS_Subset DEF AdmittedFor, Admitted
    <3>4. /\ Cardinality(dbActiveForIP(db, a)) \in Nat
          /\ Cardinality(AdmittedFor(a)') \in Nat
      BY CountedForIP, FS_CardinalityType
    <3> QED
      BY <2>1, <3>2, <3>3, <3>4, CountedForIP
  <2>3. CASE ~ (client[r] = a /\ pc'[r] = "select")
    <3>1. AdmittedFor(a)' \subseteq AdmittedFor(a)
      BY <1>4, <2>3
      DEF CheckIP, handlers, Go, NoFault, Fault, AdmittedFor, Admitted, TypeInv, TypeOK,
          ControlTypes, Goroutines, Creators
    <3> QED
      BY <1>1, <2>1, <3>1
  <2> QED
    BY <2>2, <2>3
<1>5. ASSUME NEW r \in Requests, Writes(r)
      PROVE  Kept
  <2>1. CASE client[r] = a
    <3>1. dbActiveForIP(db, a)' \subseteq dbActiveForIP(db, a) \cup {my[r]}
      BY <1>5
      DEF Writes, ClaimAllocated, RecordSession, dbClaim, dbNew, dbActiveForIP,
          dbActive, TypeInv, TypeOK, Table, Row
    <3>2. r \in AdmittedFor(a) /\ AdmittedFor(a)' \subseteq AdmittedFor(a) \ {r}
      BY <1>5, <2>1, ConstantsAssumption
      DEF Writes, ClaimAllocated, RecordSession, handlers, Go, AdmittedFor, Admitted, TypeInv,
          TypeOK, ControlTypes, Goroutines, Creators
    <3>3. /\ Cardinality(dbActiveForIP(db, a)') \in Nat
          /\ Cardinality(AdmittedFor(a)') \in Nat
          /\ Cardinality(dbActiveForIP(db, a)') + Cardinality(AdmittedFor(a)')
               =< Cardinality(dbActiveForIP(db, a)) + Cardinality(AdmittedFor(a))
      BY <3>1, <3>2, CountedForIP, CountsSwap
    <3>4. /\ Cardinality(dbActiveForIP(db, a)) \in Nat
          /\ Cardinality(AdmittedFor(a)) \in Nat
      BY CountedForIP, FS_CardinalityType
    <3> QED
      BY <3>3, <3>4, CountedForIP
  <2>2. CASE client[r] # a
    <3>1. Shrinks
      BY <1>5, <2>2, ConstantsAssumption
      DEF Writes, ClaimAllocated, RecordSession, handlers, Go, dbClaim, dbNew, dbActiveForIP,
          dbActive, AdmittedFor, Admitted, TypeInv, TypeOK, ControlTypes, Goroutines,
          Creators, Table, Row
    <3> QED
      BY <1>1, <3>1
  <2> QED
    BY <2>1, <2>2
<1> QED
  BY <1>2, <1>3, <1>4, <1>5, OnlyHandlers

\* The quota of one client is overshot by no more than that either.
THEOREM IPBounded == Spec => []IPOvershoot
  BY InitTypes, TypeStep, InitIP, IPStep, PTL DEF Spec
=============================================================================
