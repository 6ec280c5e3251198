------------------------------- MODULE RWLock -------------------------------
(***************************************************************************)
(* sync.RWMutex as session.go uses it for muCreate: any number of readers  *)
(* or one writer, and a writer that waits holds back the readers that come *)
(* after it.                                                               *)
(***************************************************************************)
CONSTANT Readers        \* goroutines that take the lock for reading
VARIABLE lock

Free == [readers |-> {}, writer |-> "free"]

TypeOK == lock \in [readers : SUBSET Readers, writer : {"free", "waiting", "held"}]

\* RLock returns only while no writer holds the lock or waits for it.
RLock(g) == /\ lock.writer = "free"
            /\ lock' = [lock EXCEPT !.readers = @ \cup {g}]

RUnlock(g) == lock' = [lock EXCEPT !.readers = @ \ {g}]

\* Lock first announces the writer, then waits until the readers have left.
Announce == /\ lock.writer = "free"
            /\ lock' = [lock EXCEPT !.writer = "waiting"]

Acquire == /\ lock.writer = "waiting"
           /\ lock.readers = {}
           /\ lock' = [lock EXCEPT !.writer = "held"]

Unlock == lock' = [lock EXCEPT !.writer = "free"]
=============================================================================
