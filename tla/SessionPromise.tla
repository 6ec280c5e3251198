--------------------------- MODULE SessionPromise ---------------------------
(***************************************************************************)
(* What README.md promises of a test instance, without saying how: it has  *)
(* an expiry, it is not ended before it, and it is ended after it.         *)
(***************************************************************************)
EXTENDS Naturals

CONSTANTS Session, Life
VARIABLES state, left

promise == <<state, left>>

Init == /\ state = [s \in Session |-> "none"]
        /\ left = [s \in Session |-> 0]

Open(s) == /\ state[s] = "none"
           /\ state' = [state EXCEPT ![s] = "open"]
           /\ left' = [left EXCEPT ![s] = Life]

Close(s) == /\ state[s] = "open"
            /\ left[s] = 0
            /\ state' = [state EXCEPT ![s] = "closed"]
            /\ UNCHANGED left

\* A name that ended may be used again.
Forget(s) == /\ state[s] = "closed"
             /\ state' = [state EXCEPT ![s] = "none"]
             /\ left' = [left EXCEPT ![s] = 0]

Tick == /\ left' = [s \in Session |-> IF left[s] = 0 THEN 0 ELSE left[s] - 1]
        /\ UNCHANGED state

Next == Tick \/ \E s \in Session : Open(s) \/ Close(s) \/ Forget(s)

Spec == /\ Init /\ [][Next]_promise
        /\ WF_promise(Tick)
        /\ \A s \in Session : WF_promise(Close(s))
=============================================================================
