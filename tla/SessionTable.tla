---------------------------- MODULE SessionTable ----------------------------
(***************************************************************************)
(* The "sessions" table of db.go, one SQL statement per operator.  A table *)
(* is a function from instances to rows: an instance stands for the random *)
(* UUID of one session, hence for its row id and for its Incus instance    *)
(* name "tryit-<uuid>" as well.  The columns kept are those some statement *)
(* tests: status, request_ip and instance_expiry.  instance_expiry is held *)
(* as the seconds that remain, so that time needs no horizon; 0 stands for *)
(* every moment that has passed.                                           *)
(***************************************************************************)
EXTENDS Integers, FiniteSets

CONSTANTS Inst,     \* session UUIDs (and so row ids and Incus instance names)
          IP,       \* addresses of clients
          NoIP      \* the empty request_ip of a pre-allocated row

\* The three values of the status column (0, 1 and 2) and the absence of a row.
Status == {"none", "active", "expired", "allocated"}

Row == [status : Status, ip : IP \cup {NoIP}, expiry : Nat]

NoRow == [status |-> "none", ip |-> NoIP, expiry |-> 0]

Table == [Inst -> Row]

dbActive(t) == {i \in Inst : t[i].status = "active"}

dbAllocated(t) == {i \in Inst : t[i].status = "allocated"}

dbActiveForIP(t, a) == {i \in dbActive(t) : t[i].ip = a}

dbActiveCount(t) == Cardinality(dbActive(t))

dbActiveCountForIP(t, a) == Cardinality(dbActiveForIP(t, a))

dbShouldExist(t, i) == t[i].status \in {"active", "allocated"}

dbIsAllocated(t, i) == t[i].status = "allocated"

\* SELECT ... WHERE status=2 ORDER BY instance_expiry ASC LIMIT 1: the rows it
\* may return.  Rows already overdue compare equal here.
dbOldestAllocated(t) ==
    {i \in dbAllocated(t) : \A j \in dbAllocated(t) : t[i].expiry =< t[j].expiry}

\* INSERT.  LastInsertId identifies the row from then on.
dbNew(t, i, status, ip, expiry) ==
    [t EXCEPT ![i] = [status |-> status, ip |-> ip, expiry |-> expiry]]

\* UPDATE ... WHERE id=?: whatever the status of the row is by then, and to no
\* effect (and no error) when the row has gone.
dbClaim(t, i, ip, expiry) ==
    IF t[i].status = "none" THEN t ELSE dbNew(t, i, "active", ip, expiry)

\* Broken definitions: see DemoServer.
BrokenExpire(t, i) == t

dbExpire(t, i) ==
    IF t[i].status = "none" THEN t ELSE [t EXCEPT ![i].status = "expired"]

BrokenDelete(t, i) == t

dbDelete(t, i) == [t EXCEPT ![i] = NoRow]

\* time.Now() moves on: every remaining time shrinks, down to 0.
Sooner(n) == IF n = 0 THEN 0 ELSE n - 1

Aged(t) == [i \in Inst |-> [t[i] EXCEPT !.expiry = Sooner(@)]]
=============================================================================
