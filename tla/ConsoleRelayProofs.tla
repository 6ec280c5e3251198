------------------------ MODULE ConsoleRelayProofs ------------------------
(***************************************************************************)
(* Proofs about ConsoleRelay for every length of the input and the output, *)
(* every size of a piece and every fault: what passes the four copies is   *)
(* in order and complete.                                                  *)
(***************************************************************************)
EXTENDS ConsoleRelay, TLAPS, SequenceTheorems

Char == Nat \ {0}

\* Strengthening of TypeOK: what is on its way is made of characters, so that no
\* end of a message is taken for one.
TypeInv == /\ TypeOK
           /\ inbox \in Seq(Seq(Char)) /\ reader \in Seq(Char) \cup {Nil}
           /\ entered \in Seq(Char) /\ screen \in Seq(Char)

\* s holds the characters from + 1, ..., to.
Run(s, from, to) ==
  from =< to /\ Len(s) = to - from /\ \A i \in 1 .. Len(s) : s[i] = from + i

\* Where the input is cut between the places it is held in: after what the command
\* has, after each copy, after the message being read, and after every message
\* that waits.
Message == IF reader = Nil THEN <<>> ELSE reader

\* The messages of q run from m[0] to t, each from where the last one ended.
Queued(q, m, t) ==
  /\ \A k \in 1 .. Len(q) : Run(q[k], m[k-1], m[k])
  /\ \A j, k \in 0 .. Len(q) : j =< k => m[j] =< m[k]
  /\ m[Len(q)] = t

Cut(a, b, c, m) ==
  /\ Run(entered, 0, a) /\ Run(held["stdin"], a, b) /\ Run(held["in"], b, c)
  /\ Run(Message, c, m[0]) /\ Queued(inbox, m, typed)

\* As long as the command has not ended nothing that was typed is lost.
InputCut ==
  \E a, b, c \in 0 .. typed, m \in [0 .. Len(inbox) -> 0 .. typed] : Cut(a, b, c, m)

InputInv == InputInOrder /\ (command # "over" => InputCut)

\* The same for the output, as long as it has somewhere to go.
OutputCut ==
  peer /\ conn => \E a, b \in 0 .. fetched :
    /\ Run(screen, 0, a) /\ Run(held["out"], a, b) /\ Run(held["stdout"], b, fetched)

\* Where the handler is, and what the end of stdout means to it.
HandlerInv ==
  /\ handler = "exec" => command = "none"
  /\ handler = "waited" => err \/ command = "over"
  /\ handler \in {"data", "returned"} => command = "over"
  /\ handler \notin {"returned", "failed"} => conn /\ piped
  /\ "stdout" \in ended /\ piped /\ command # "none" =>
       command = "over" /\ fetched = printed /\ held["stdout"] = <<>>

Pieces == Len(held["stdout"]) =< MaxPiece /\ Len(held["out"]) =< MaxPiece

OutputInv == OutputInOrder /\ OutputCut /\ HandlerInv /\ Pieces
-----------------------------------------------------------------------------
(* Runs of characters *)

LEMMA NumbersRun ==
  ASSUME NEW a \in Nat, NEW b \in Nat, a =< b
  PROVE  Numbers(a + 1, b) \in Seq(Char) /\ Run(Numbers(a + 1, b), a, b)
<1>1. Numbers(a + 1, b) = [i \in 1 .. b - a |-> a + i]
  BY DEF Numbers
<1>2. b - a \in Nat /\ \A i \in 1 .. b - a : a + i \in Char
  BY DEF Char
<1>3. [i \in 1 .. b - a |-> a + i] \in Seq(Char) /\ Len([i \in 1 .. b - a |-> a + i]) = b - a
  BY <1>2
<1> QED
  BY <1>1, <1>3 DEF Run

LEMMA RunIsNumbers ==
  ASSUME NEW s \in Seq(Char), NEW n \in Nat
  PROVE  Run(s, 0, n) <=> n = Len(s) /\ s = Numbers(1, n)
<1>1. Numbers(0 + 1, n) \in Seq(Char) /\ Run(Numbers(0 + 1, n), 0, n)
  BY NumbersRun, 0 \in Nat, 0 =< n
<1>2. Numbers(1, n) \in Seq(Char) /\ Run(Numbers(1, n), 0, n)
  BY <1>1, 0 + 1 = 1
<1>3. CASE n = Len(s) /\ s = Numbers(1, n)
  BY <1>2, <1>3
<1>4. CASE Run(s, 0, n)
  <2>1. Len(s) = n /\ Len(Numbers(1, n)) = n
    BY <1>2, <1>4 DEF Run
  <2>2. \A i \in 1 .. Len(s) : s[i] = Numbers(1, n)[i]
    BY <1>2, <1>4, <2>1 DEF Run
  <2>3. s = Numbers(1, n)
    BY <1>2, <2>1, <2>2, SeqEqual
  <2> QED
    BY <1>4, <2>1, <2>3
<1> QED
  BY <1>3, <1>4

LEMMA EmptyRun ==
  ASSUME NEW s \in Seq(Char), NEW a \in Nat, NEW b \in Nat
  PROVE  /\ Run(<<>>, a, b) <=> a = b
         /\ s = <<>> => (Run(s, a, b) <=> a = b)
  BY EmptySeq DEF Run

LEMMA RunLength ==
  ASSUME NEW s \in Seq(Char), NEW a \in Nat, NEW b \in Nat, Run(s, a, b)
  PROVE  b = a + Len(s) /\ a =< b /\ Len(s) \in Nat
  BY LenProperties DEF Run

LEMMA RunConcat ==
  ASSUME NEW s \in Seq(Char), NEW t \in Seq(Char),
         NEW a \in Nat, NEW b \in Nat, NEW c \in Nat, Run(s, a, b), Run(t, b, c)
  PROVE  s \o t \in Seq(Char) /\ Run(s \o t, a, c)
<1>1. /\ s \o t \in Seq(Char) /\ Len(s \o t) = Len(s) + Len(t)
      /\ \A i \in 1 .. Len(s) + Len(t) :
           (s \o t)[i] = IF i =< Len(s) THEN s[i] ELSE t[i - Len(s)]
  BY ConcatProperties
<1>2. Len(s) \in Nat /\ Len(t) \in Nat
  BY LenProperties
<1>3. Len(s) = b - a /\ Len(t) = c - b /\ a =< b /\ b =< c
  BY DEF Run
<1>4. ASSUME NEW i \in 1 .. Len(s \o t)
      PROVE  (s \o t)[i] = a + i
  <2>1. CASE i =< Len(s)
    BY <1>1, <1>2, <2>1 DEF Run
  <2>2. CASE i > Len(s)
    <3>1. i - Len(s) \in 1 .. Len(t)
      BY <1>1, <1>2, <2>2
    <3>2. t[i - Len(s)] = b + (i - Len(s))
      BY <3>1 DEF Run
    <3> QED
      BY <1>1, <1>2, <1>3, <2>2, <3>2
  <2> QED
    BY <1>1, <1>2, <2>1, <2>2
<1> QED
  BY <1>1, <1>2, <1>3, <1>4 DEF Run

LEMMA RunSplit ==
  ASSUME NEW s \in Seq(Char), NEW a \in Nat, NEW b \in Nat, Run(s, a, b),
         NEW n \in 1 .. Len(s)
  PROVE  /\ SubSeq(s, 1, n) \in Seq(Char) /\ SubSeq(s, n + 1, Len(s)) \in Seq(Char)
         /\ a + n =< b
         /\ Run(SubSeq(s, 1, n), a, a + n) /\ Run(SubSeq(s, n + 1, Len(s)), a + n, b)
<1>1. Len(s) \in Nat /\ n \in Nat /\ \A i \in 1 .. Len(s) : s[i] \in Char
  BY LenProperties
<1>2. /\ SubSeq(s, 1, n) \in Seq(Char) /\ Len(SubSeq(s, 1, n)) = n
      /\ \A i \in 1 .. n : SubSeq(s, 1, n)[i] = s[i]
  BY <1>1, SubSeqProperties
<1>3. /\ SubSeq(s, n + 1, Len(s)) \in Seq(Char)
      /\ Len(SubSeq(s, n + 1, Len(s))) = Len(s) - n
      /\ \A i \in 1 .. Len(s) - n : SubSeq(s, n + 1, Len(s))[i] = s[n + i]
  BY <1>1, SubSeqProperties
<1> QED
  BY <1>1, <1>2, <1>3 DEF Run
-----------------------------------------------------------------------------
(* Types *)

\* Nil is not a message, and a message has a first character.
LEMMA Messages ==
  /\ Nil \in Seq(Nat) /\ Nil \notin Seq(Char)
  /\ Seq(Char) \subseteq Seq(Nat) /\ Seq(Seq(Char)) \subseteq Seq(Seq(Nat))
  /\ <<>> \in Seq(Char)
<1>1. Char \subseteq Nat
  BY DEF Char
<1>2. Nil \in Seq(Nat) /\ Nil \notin Seq(Char)
  BY DEF Nil, Char
<1>3. Seq(Char) \subseteq Seq(Nat)
  BY <1>1, SeqMonotonic
<1>4. Seq(Seq(Char)) \subseteq Seq(Seq(Nat))
  BY <1>3, SeqMonotonic
<1> QED
  BY <1>2, <1>3, <1>4, EmptySeq

LEMMA InitTypes == Init => TypeInv
<1> SUFFICES ASSUME Init PROVE TypeInv
  OBVIOUS
<1>1. inbox \in Seq(Seq(Char)) /\ entered \in Seq(Char) /\ screen \in Seq(Char)
  BY EmptySeq DEF Init
<1>2. held \in [Copies -> Seq(Char)]
  BY EmptySeq DEF Init
<1>3. reader = Nil
  BY DEF Init
<1>4. /\ inbox \in Seq(Seq(Nat)) /\ reader \in Seq(Nat)
      /\ entered \in Seq(Nat) /\ screen \in Seq(Nat)
  BY <1>1, <1>3, Messages
<1>5. held \in [Copies -> Seq(Nat \ {0})]
  BY <1>2 DEF Char
<1>6. ended \subseteq Copies
  BY DEF Init, Copies
<1>7. typed = 0 /\ printed = 0 /\ fetched = 0 /\ handler = "exec" /\ command = "none"
  BY DEF Init
<1>8. /\ peer \in BOOLEAN /\ conn \in BOOLEAN /\ piped \in BOOLEAN
      /\ err \in BOOLEAN /\ control \in BOOLEAN
  BY Zenon DEF Init
<1> QED
  BY <1>1, <1>3, <1>4, <1>5, <1>6, <1>7, <1>8 DEF TypeInv, TypeOK

LEMMA TypeStep == TypeInv /\ [Next]_vars => TypeInv'
<1> SUFFICES ASSUME TypeInv, [Next]_vars PROVE TypeInv'
  OBVIOUS
<1> USE RelayAssumption DEF TypeInv, TypeOK, vars, browser, main, incus
<1>1. ASSUME Type PROVE TypeInv'
  <2>1. PICK n \in 0 .. MaxPiece : /\ inbox' = Append(inbox, Numbers(typed + 1, typed + n))
                                  /\ typed' = typed + n
    BY <1>1 DEF Type
  <2>2. Numbers(typed + 1, typed + n) \in Seq(Char)
    BY NumbersRun, typed + n \in Nat, typed =< typed + n
  <2>3. inbox' \in Seq(Seq(Char))
    BY <2>1, <2>2, AppendProperties
  <2> QED
    BY <1>1, <2>1, <2>3, Messages DEF Type
<1>2. ASSUME PeerGoes PROVE TypeInv'
  BY <1>2 DEF PeerGoes
<1>3. ASSUME Prints PROVE TypeInv'
  BY <1>3 DEF Prints
<1>4. ASSUME CommandEnds PROVE TypeInv'
  BY <1>4 DEF CommandEnds
<1>5. ASSUME InReads PROVE TypeInv'
  <2>1. ASSUME NextMessage PROVE TypeInv'
    <3>1. Head(inbox) \in Seq(Char) /\ Tail(inbox) \in Seq(Seq(Char))
      BY <2>1, HeadTailProperties DEF NextMessage
    <3> QED
      BY <1>5, <2>1, <3>1, Messages DEF InReads, NextMessage
  <2>2. ASSUME ReadPiece PROVE TypeInv'
    <3>1. reader \in Seq(Char) /\ UNCHANGED <<inbox, ended>>
      BY <2>2 DEF ReadPiece
    <3>2. CASE reader = <<>>
      BY <1>5, <2>2, <3>1, <3>2, Messages DEF InReads, ReadPiece
    <3>3. CASE reader # <<>>
      <4>1. PICK n \in 1 .. Len(reader) :
              /\ held' = [held EXCEPT !["in"] = SubSeq(reader, 1, n)]
              /\ reader' = SubSeq(reader, n + 1, Len(reader))
        BY <2>2, <3>3 DEF ReadPiece
      <4>2. Len(reader) \in Nat /\ \A i \in 1 .. Len(reader) : reader[i] \in Char
        BY <3>1, LenProperties
      <4>3. SubSeq(reader, 1, n) \in Seq(Char) /\ SubSeq(reader, n + 1, Len(reader)) \in Seq(Char)
        BY <4>2, SubSeqProperties
      <4> QED
        BY <1>5, <3>1, <4>1, <4>3, Messages DEF InReads, Char
    <3> QED
      BY <3>2, <3>3
  <2>3. ASSUME ReadFails PROVE TypeInv'
    BY <1>5, <2>3 DEF InReads, ReadFails, Copies
  <2> QED
    BY <1>5, <2>1, <2>2, <2>3 DEF InReads
<1>6. ASSUME InToStdin PROVE TypeInv'
  BY <1>6, Messages DEF InToStdin, Copies, Char
<1>7. ASSUME Enters PROVE TypeInv'
  <2>1. entered \o held["stdin"] \in Seq(Char)
    BY ConcatProperties DEF Copies, Char
  <2> QED
    BY <1>7, <2>1, Messages DEF Enters, Copies, Char
<1>8. ASSUME Fetches PROVE TypeInv'
  <2>1. CASE \E n \in fetched + 1 .. printed :
               /\ held' = [held EXCEPT !["stdout"] = Numbers(fetched + 1, n)]
               /\ fetched' = n /\ UNCHANGED ended
    <3>1. PICK n \in fetched + 1 .. printed :
            /\ held' = [held EXCEPT !["stdout"] = Numbers(fetched + 1, n)]
            /\ fetched' = n /\ UNCHANGED ended
      BY <2>1
    <3>2. fetched \in Nat /\ n \in Nat /\ fetched =< n
      OBVIOUS
    <3>3. Numbers(fetched + 1, n) \in Seq(Char)
      BY <3>2, NumbersRun
    <3> QED
      BY <1>8, <3>1, <3>3 DEF Fetches, Copies, Char
  <2>2. CASE ended' = ended \cup {"stdout"} /\ UNCHANGED <<held, fetched>>
    BY <1>8, <2>2 DEF Fetches, Copies
  <2> QED
    BY <1>8, <2>1, <2>2 DEF Fetches
<1>9. ASSUME StdoutToOut PROVE TypeInv'
  BY <1>9, Messages DEF StdoutToOut, Copies, Char
<1>10. ASSUME OutSends PROVE TypeInv'
  <2>1. screen \o held["out"] \in Seq(Char)
    BY ConcatProperties DEF Copies, Char
  <2> QED
    BY <1>10, <2>1, Messages DEF OutSends, Copies, Char
<1>11. ASSUME NEW g \in Copies, PipeClosed(g) PROVE TypeInv'
  BY <1>11 DEF PipeClosed, Copies
<1>12. ASSUME Exec PROVE TypeInv'
  BY <1>12 DEF Exec, Goes
<1>13. ASSUME Wait PROVE TypeInv'
  BY <1>13 DEF Wait, Goes
<1>14. ASSUME Checks PROVE TypeInv'
  BY <1>14 DEF Checks, Goes
<1>15. ASSUME Returns PROVE TypeInv'
  BY <1>15 DEF Returns, Goes, ClosePipes
<1>16. ASSUME ControlEnds PROVE TypeInv'
  BY <1>16 DEF ControlEnds
<1>17. CASE UNCHANGED vars
  BY <1>17
<1> QED
  BY <1>1, <1>2, <1>3, <1>4, <1>5, <1>6, <1>7, <1>8, <1>9, <1>10, <1>11, <1>12,
     <1>13, <1>14, <1>15, <1>16, <1>17 DEF Next, Copying, Main

\* Every variable keeps its type.
THEOREM TypeCorrect == Spec => []TypeOK
<1>1. TypeInv => TypeOK
  BY DEF TypeInv
<1> QED
  BY InitTypes, TypeStep, <1>1, PTL DEF Spec
-----------------------------------------------------------------------------
(* The input *)

LEMMA InitInput == Init => InputInv
<1> SUFFICES ASSUME Init PROVE InputInv
  OBVIOUS
<1>1. InputInOrder
  BY DEF Init, InputInOrder, Numbers
<1>2. Len(inbox) = 0 /\ typed = 0
  BY DEF Init
<1> DEFINE m == [k \in 0 .. 0 |-> 0]
<1>3. m \in [0 .. Len(inbox) -> 0 .. typed]
  BY <1>2
<1>4. Cut(0, 0, 0, m)
  <2>1. Run(<<>>, 0, 0)
    BY EmptyRun, Messages
  <2>2. entered = <<>> /\ held["stdin"] = <<>> /\ held["in"] = <<>> /\ Message = <<>>
    BY DEF Init, Message, Copies
  <2> QED
    BY <1>2, <2>1, <2>2 DEF Cut
<1> QED
  BY <1>1, <1>2, <1>3, <1>4 DEF InputInv, InputCut

\* Every cut lies before what has been typed, so what has entered was typed.
LEMMA CutInOrder ==
  ASSUME TypeInv, NEW a \in 0 .. typed, Run(entered, 0, a)
  PROVE  InputInOrder
  BY RunIsNumbers, a \in Nat DEF InputInOrder, TypeInv, TypeOK

\* A step that does not touch the input keeps it as it is cut.
LEMMA InputUntouched ==
  ASSUME InputInv, UNCHANGED <<inbox, typed, reader, entered, held["stdin"], held["in"]>>,
         command = "over" => command' = "over"
  PROVE  InputInv'
  BY DEF InputInv, InputCut, InputInOrder, Cut, Message

LEMMA QueueAppend ==
  ASSUME NEW q \in Seq(Seq(Char)), NEW t \in Nat, NEW u \in Nat, t =< u,
         NEW m \in [0 .. Len(q) -> 0 .. t], Queued(q, m, t),
         NEW s \in Seq(Char), Run(s, t, u)
  PROVE  \E n \in [0 .. Len(Append(q, s)) -> 0 .. u] :
           n[0] = m[0] /\ Queued(Append(q, s), n, u)
<1> DEFINE l == Len(q)
           n == [k \in 0 .. l + 1 |-> IF k = l + 1 THEN u ELSE m[k]]
           r == Append(q, s)
<1>1. /\ l \in Nat /\ Len(r) = l + 1 /\ r[l + 1] = s
      /\ \A k \in 1 .. l : r[k] = q[k]
  BY AppendProperties, LenProperties
<1>2. \A k \in 0 .. l : m[k] \in 0 .. t
  OBVIOUS
<1>3. n \in [0 .. l + 1 -> 0 .. u]
  BY <1>1, <1>2
<1>4. n[l + 1] = u /\ \A k \in 0 .. l : n[k] = m[k]
  BY <1>1
<1>5. m[l] = t
  BY DEF Queued
<1> HIDE DEF n, r
<1>6. ASSUME NEW k \in 1 .. l + 1
      PROVE  Run(r[k], n[k-1], n[k])
  <2>1. CASE k = l + 1
    <3>1. n[k-1] = t /\ n[k] = u /\ r[k] = s
      BY <1>1, <1>4, <1>5, <2>1
    <3> QED
      BY <3>1
  <2>2. CASE k \in 1 .. l
    <3>1. n[k-1] = m[k-1] /\ n[k] = m[k] /\ r[k] = q[k]
      BY <1>1, <1>4, <2>2
    <3> QED
      BY <2>2, <3>1 DEF Queued
  <2> QED
    BY <1>1, <2>1, <2>2
<1>7. ASSUME NEW j \in 0 .. l + 1, NEW k \in 0 .. l + 1, j =< k
      PROVE  n[j] =< n[k]
  <2>1. CASE k = l + 1
    <3>1. n[j] \in 0 .. u
      BY <1>3
    <3>2. n[k] = u
      BY <1>4, <2>1
    <3> QED
      BY <3>1, <3>2
  <2>2. CASE k \in 0 .. l
    <3>1. j \in 0 .. l /\ m[j] =< m[k]
      BY <1>1, <1>7, <2>2 DEF Queued
    <3> QED
      BY <1>4, <2>2, <3>1
  <2> QED
    BY <1>1, <2>1, <2>2
<1>8. Queued(r, n, u)
  BY <1>1, <1>4, <1>6, <1>7 DEF Queued
<1>9. n[0] = m[0]
  BY <1>1, <1>4
<1> QED
  BY <1>1, <1>3, <1>8, <1>9 DEF r

LEMMA QueueHead ==
  ASSUME NEW q \in Seq(Seq(Char)), NEW t \in Nat, q # <<>>,
         NEW m \in [0 .. Len(q) -> 0 .. t], Queued(q, m, t)
  PROVE  \E n \in [0 .. Len(Tail(q)) -> 0 .. t] :
           Run(Head(q), m[0], n[0]) /\ Queued(Tail(q), n, t)
<1> DEFINE l == Len(q) - 1
           n == [k \in 0 .. l |-> m[k + 1]]
           r == Tail(q)
<1>1. /\ l \in Nat /\ Len(q) = l + 1 /\ Len(r) = l /\ Head(q) = q[1]
      /\ \A k \in 1 .. l : r[k] = q[k + 1]
  BY HeadTailProperties, EmptySeq, LenProperties
<1>2. \A k \in 0 .. l : n[k] = m[k + 1] /\ n[k] \in 0 .. t
  BY <1>1
<1>3. n \in [0 .. l -> 0 .. t]
  BY <1>1, <1>2
<1> HIDE DEF n, r
<1>4. ASSUME NEW k \in 1 .. l
      PROVE  Run(r[k], n[k-1], n[k])
  <2>1. n[k-1] = m[k] /\ n[k] = m[k+1] /\ r[k] = q[k+1]
    BY <1>1, <1>2
  <2>2. k + 1 \in 1 .. Len(q) /\ (k + 1) - 1 = k
    BY <1>1
  <2> QED
    BY <2>1, <2>2 DEF Queued
<1>5. ASSUME NEW j \in 0 .. l, NEW k \in 0 .. l, j =< k
      PROVE  n[j] =< n[k]
  <2>1. j + 1 \in 0 .. Len(q) /\ k + 1 \in 0 .. Len(q) /\ j + 1 =< k + 1
    BY <1>1, <1>5
  <2> QED
    BY <1>2, <2>1 DEF Queued
<1>6. n[l] = t
  BY <1>1, <1>2 DEF Queued
<1>7. Run(Head(q), m[0], n[0])
  <2>1. 1 \in 1 .. Len(q) /\ 1 - 1 = 0 /\ n[0] = m[1]
    BY <1>1, <1>2
  <2> QED
    BY <1>1, <2>1 DEF Queued
<1>8. Queued(r, n, t)
  BY <1>1, <1>4, <1>5, <1>6 DEF Queued
<1> QED
  BY <1>1, <1>3, <1>7, <1>8 DEF r

LEMMA TypeInput ==
  ASSUME TypeInv, InputInv, Type
  PROVE  InputInv'
<1>1. PICK n \in 0 .. MaxPiece : /\ inbox' = Append(inbox, Numbers(typed + 1, typed + n))
                                /\ typed' = typed + n
  BY DEF Type
<1>2. UNCHANGED <<reader, entered, held, command>> /\ n \in Nat /\ typed \in Nat
      /\ inbox \in Seq(Seq(Char))
  BY RelayAssumption DEF Type, main, incus, TypeInv, TypeOK
<1>3. typed' \in Nat /\ typed =< typed'
  BY <1>1, <1>2
<1>4. InputInOrder'
  <2>1. Len(entered) \in Nat
    BY LenProperties DEF TypeInv
  <2> QED
    BY <1>2, <1>3, <2>1 DEF InputInv, InputInOrder
<1>5. ASSUME InputCut PROVE InputCut'
  <2>1. PICK a, b, c \in 0 .. typed, m \in [0 .. Len(inbox) -> 0 .. typed] : Cut(a, b, c, m)
    BY <1>5 DEF InputCut
  <2>2. Numbers(typed + 1, typed') \in Seq(Char) /\ Run(Numbers(typed + 1, typed'), typed, typed')
    BY <1>2, <1>3, NumbersRun
  <2>3. PICK n2 \in [0 .. Len(inbox') -> 0 .. typed'] :
          n2[0] = m[0] /\ Queued(inbox', n2, typed')
    BY <1>1, <1>2, <1>3, <2>1, <2>2, QueueAppend DEF Cut
  <2>4. Cut(a, b, c, n2)'
    BY <1>2, <2>1, <2>3 DEF Cut, Message
  <2>5. a \in 0 .. typed' /\ b \in 0 .. typed' /\ c \in 0 .. typed'
    BY <1>2, <1>3
  <2> QED
    BY <2>3, <2>4, <2>5 DEF InputCut
<1> QED
  BY <1>2, <1>4, <1>5 DEF InputInv

LEMMA NextMessageInput ==
  ASSUME TypeInv, InputInv, InReads, NextMessage
  PROVE  InputInv'
<1>1. /\ reader = Nil /\ inbox # <<>> /\ reader' = Head(inbox) /\ inbox' = Tail(inbox)
      /\ UNCHANGED <<entered, held, typed, command>>
  BY DEF InReads, NextMessage, incus
<1>2. typed \in Nat /\ inbox \in Seq(Seq(Char)) /\ reader' \in Seq(Char)
  BY <1>1, HeadTailProperties DEF TypeInv, TypeOK
<1>3. ASSUME InputCut PROVE InputCut'
  <2>1. PICK a, b, c \in 0 .. typed, m \in [0 .. Len(inbox) -> 0 .. typed] : Cut(a, b, c, m)
    BY <1>3 DEF InputCut
  <2>2. PICK n \in [0 .. Len(inbox') -> 0 .. typed] :
          Run(reader', m[0], n[0]) /\ Queued(inbox', n, typed)
    BY <1>1, <1>2, <2>1, QueueHead DEF Cut
  <2>3. m[0] = c
    <3>1. Run(<<>>, c, m[0])
      BY <1>1, <2>1 DEF Cut, Message
    <3>2. c \in Nat /\ m[0] \in Nat
      BY <1>2, LenProperties
    <3> QED
      BY <3>1, <3>2, EmptyRun, Messages
  <2>4. Message' = reader'
    BY <1>2, Messages DEF Message
  <2>5. Cut(a, b, c, n)'
    BY <1>1, <2>1, <2>2, <2>3, <2>4 DEF Cut
  <2> QED
    BY <1>1, <2>2, <2>5 DEF InputCut
<1> QED
  BY <1>1, <1>3 DEF InputInv, InputInOrder

LEMMA ReadPieceInput ==
  ASSUME TypeInv, InputInv, InReads, ReadPiece
  PROVE  InputInv'
<1>1. /\ reader \in Seq(Char) /\ Message = reader /\ held["in"] = <<>>
      /\ UNCHANGED <<entered, inbox, typed, command>>
      /\ typed \in Nat /\ held \in [Copies -> Seq(Char)] /\ inbox \in Seq(Seq(Char))
  BY DEF InReads, ReadPiece, Idle, incus, Message, TypeInv, TypeOK, Char
<1>2. ASSUME InputCut PROVE InputCut'
  <2>1. PICK a, b, c \in 0 .. typed, m \in [0 .. Len(inbox) -> 0 .. typed] : Cut(a, b, c, m)
    BY <1>2 DEF InputCut
  <2>2. CASE reader = <<>>
    <3>1. reader' = Nil /\ held' = held /\ Message' = Message
      BY <1>1, <2>2 DEF ReadPiece, Message
    <3> QED
      BY <1>1, <2>1, <3>1 DEF Cut, InputCut
  <2>3. CASE reader # <<>>
    <3>1. PICK n \in 1 .. Len(reader) :
            /\ held' = [held EXCEPT !["in"] = SubSeq(reader, 1, n)]
            /\ reader' = SubSeq(reader, n + 1, Len(reader))
      BY <2>3 DEF ReadPiece
    <3>2. c \in Nat /\ m[0] \in Nat /\ m[0] =< typed
      BY <1>1, LenProperties
    <3>3. b = c
      <4>1. Run(<<>>, b, c)
        BY <1>1, <2>1 DEF Cut
      <4>2. b \in Nat
        BY <1>1
      <4> QED
        BY <3>2, <4>1, <4>2, EmptyRun, Messages
    <3>4. Run(reader, c, m[0])
      BY <1>1, <2>1 DEF Cut
    <3>5. /\ c + n =< m[0] /\ reader' \in Seq(Char)
          /\ Run(SubSeq(reader, 1, n), c, c + n) /\ Run(reader', c + n, m[0])
      BY <1>1, <3>1, <3>2, <3>4, RunSplit
    <3>6. /\ held'["in"] = SubSeq(reader, 1, n) /\ held'["stdin"] = held["stdin"]
          /\ Message' = reader'
      BY <1>1, <3>1, <3>5, Messages DEF Copies, Message
    <3>7. Len(reader) \in Nat
      BY <1>1, LenProperties
    <3>8. c + n \in 0 .. typed
      BY <1>1, <3>2, <3>5, <3>7
    <3>9. Cut(a, b, c + n, m)'
      BY <1>1, <2>1, <3>3, <3>5, <3>6 DEF Cut
    <3> QED
      BY <1>1, <3>8, <3>9 DEF InputCut
  <2> QED
    BY <2>2, <2>3
<1> QED
  BY <1>1, <1>2 DEF InputInv, InputInOrder

LEMMA InToStdinInput ==
  ASSUME TypeInv, InputInv, InToStdin
  PROVE  InputInv'
<1>1. /\ held["stdin"] = <<>> /\ held'["in"] = <<>> /\ held'["stdin"] = held["in"]
      /\ UNCHANGED <<entered, inbox, typed, reader, command>> /\ typed \in Nat
  BY DEF InToStdin, Idle, incus, browser, TypeInv, TypeOK, Copies
<1>2. ASSUME InputCut PROVE InputCut'
  <2>1. PICK a, b, c \in 0 .. typed, m \in [0 .. Len(inbox) -> 0 .. typed] : Cut(a, b, c, m)
    BY <1>2 DEF InputCut
  <2>2. Run(<<>>, a, b) /\ a \in Nat /\ b \in Nat /\ c \in Nat
    BY <1>1, <2>1 DEF Cut
  <2>3. a = b /\ Run(<<>>, c, c)
    BY <2>2, EmptyRun, Messages
  <2>4. Cut(a, c, c, m)'
    BY <1>1, <2>1, <2>3 DEF Cut, Message
  <2> QED
    BY <1>1, <2>4 DEF InputCut
<1> QED
  BY <1>1, <1>2 DEF InputInv, InputInOrder

LEMMA EntersInput ==
  ASSUME TypeInv, TypeInv', InputInv, Enters
  PROVE  InputInv'
<1>1. /\ held'["in"] = held["in"] /\ held'["stdin"] = <<>>
      /\ UNCHANGED <<inbox, typed, reader, command>>
      /\ typed \in Nat /\ entered \in Seq(Char) /\ held["stdin"] \in Seq(Char)
  BY DEF Enters, browser, TypeInv, TypeOK, Copies, Char
<1>2. CASE command = "over"
  BY <1>1, <1>2 DEF Enters, InputInv, InputInOrder
<1>3. CASE command = "running" /\ entered' = entered \o held["stdin"]
  <2>1. PICK a, b, c \in 0 .. typed, m \in [0 .. Len(inbox) -> 0 .. typed] : Cut(a, b, c, m)
    BY <1>3 DEF InputInv, InputCut
  <2>2. a \in Nat /\ b \in Nat
    BY <1>1
  <2>3. Run(entered', 0, b) /\ Run(<<>>, b, b)
    BY <1>1, <1>3, <2>1, <2>2, RunConcat, EmptyRun, Messages DEF Cut
  <2>4. Cut(b, b, c, m)'
    BY <1>1, <2>1, <2>3 DEF Cut, Message
  <2>5. InputCut'
    BY <1>1, <2>4 DEF InputCut
  <2>6. InputInOrder'
    <3>1. b \in 0 .. typed'
      BY <1>1
    <3>2. Len(entered') = b /\ entered' = Numbers(1, b)
      BY <2>2, <2>3, RunIsNumbers DEF TypeInv
    <3> QED
      BY <3>1, <3>2 DEF InputInOrder
  <2> QED
    BY <2>5, <2>6 DEF InputInv
<1> QED
  BY <1>2, <1>3 DEF Enters

\* The command starts once, and what is over stays so.
LEMMA OverStays ==
  ASSUME HandlerInv, [Next]_vars, command = "over"
  PROVE  command' = "over"
  BY DEF HandlerInv, Next, vars, browser, main, incus, Copying, Main, Type, PeerGoes, Prints,
         CommandEnds, InReads, InToStdin, Enters, Fetches, StdoutToOut, OutSends,
         PipeClosed, Exec, Wait, Checks, Returns, ControlEnds, Goes

LEMMA InputStep == TypeInv /\ InputInv /\ HandlerInv /\ [Next]_vars => InputInv'
<1> SUFFICES ASSUME TypeInv, InputInv, HandlerInv, [Next]_vars PROVE InputInv'
  OBVIOUS
<1> DEFINE Same == UNCHANGED <<inbox, typed, reader, entered, held["stdin"], held["in"]>>
<1>1. ASSUME InReads PROVE InputInv'
  <2>1. ASSUME ReadFails PROVE Same
    BY <1>1, <2>1 DEF InReads, ReadFails, incus
  <2> QED
    BY <1>1, <2>1, InputUntouched, OverStays, NextMessageInput, ReadPieceInput DEF InReads
<1>2. ASSUME Fetches \/ StdoutToOut \/ OutSends PROVE Same
  BY <1>2 DEF Fetches, StdoutToOut, OutSends, browser, incus, TypeInv, TypeOK, Copies
<1>3. ASSUME NEW g \in Copies, PipeClosed(g) PROVE Same
  BY <1>3 DEF PipeClosed, browser, incus
<1>4. PeerGoes \/ Prints \/ CommandEnds => Same
  BY DEF PeerGoes, Prints, CommandEnds, browser, incus
<1>5. Main \/ ControlEnds \/ UNCHANGED vars => Same
  BY DEF Main, Exec, Wait, Checks, Returns, ControlEnds, browser, incus, vars
<1> QED
  BY <1>1, <1>2, <1>3, <1>4, <1>5, TypeInput, InToStdinInput, EntersInput, TypeStep,
     InputUntouched, OverStays DEF Next, Copying
-----------------------------------------------------------------------------
(* The handler *)

LEMMA InitHandler == Init => HandlerInv
  BY DEF Init, HandlerInv

LEMMA HandlerStep == TypeInv /\ HandlerInv /\ [Next]_vars => HandlerInv'
<1> SUFFICES ASSUME TypeInv, HandlerInv, [Next]_vars PROVE HandlerInv'
  OBVIOUS
<1> USE DEF TypeInv, TypeOK, HandlerInv, vars, browser, main, incus, Copies
<1>1. ASSUME InReads PROVE HandlerInv'
  BY <1>1 DEF InReads, NextMessage, ReadPiece, ReadFails
<1>2. ASSUME InToStdin \/ Enters \/ OutSends PROVE HandlerInv'
  BY <1>2 DEF InToStdin, Enters, OutSends
<1>3. ASSUME Fetches PROVE HandlerInv'
  BY <1>3 DEF Fetches, Idle
<1>4. ASSUME StdoutToOut PROVE HandlerInv'
  BY <1>4 DEF StdoutToOut, Holds
<1>5. ASSUME NEW g \in Copies, PipeClosed(g) PROVE HandlerInv'
  BY <1>5 DEF PipeClosed
<1>6. ASSUME PeerGoes \/ Prints \/ CommandEnds PROVE HandlerInv'
  BY <1>6 DEF PeerGoes, Prints, CommandEnds
<1>7. ASSUME Exec PROVE HandlerInv'
  BY <1>7 DEF Exec, Goes
<1>8. ASSUME Wait PROVE HandlerInv'
  BY <1>8 DEF Wait, Goes
<1>9. ASSUME Checks PROVE HandlerInv'
  BY <1>9 DEF Checks, Goes
<1>10. ASSUME Returns PROVE HandlerInv'
  BY <1>10 DEF Returns, Goes, ClosePipes
<1>11. ASSUME ControlEnds PROVE HandlerInv'
  BY <1>11 DEF ControlEnds
<1>12. CASE UNCHANGED vars
  BY <1>12
<1>13. ASSUME Type PROVE HandlerInv'
  <2>1. UNCHANGED <<main, incus, conn, piped, held, ended>>
    BY <1>13 DEF Type
  <2> QED
    BY <2>1
<1> QED
  BY <1>1, <1>2, <1>3, <1>4, <1>5, <1>6, <1>7, <1>8, <1>9, <1>10, <1>11, <1>12,
     <1>13 DEF Next, Copying, Main
-----------------------------------------------------------------------------
(* The output *)

LEMMA InitOutput == Init => OutputInv
<1> SUFFICES ASSUME Init PROVE OutputInv
  OBVIOUS
<1>1. Run(<<>>, 0, 0)
  BY EmptyRun, Messages
<1>2. /\ screen = <<>> /\ held["out"] = <<>> /\ held["stdout"] = <<>>
      /\ printed = 0 /\ fetched = 0 /\ handler = "exec"
  BY DEF Init, Copies
<1>3. OutputCut
  BY <1>1, <1>2 DEF OutputCut
<1>4. Pieces
  BY <1>2, RelayAssumption DEF Pieces
<1>5. OutputInOrder
  BY <1>2 DEF OutputInOrder, Numbers
<1> QED
  BY <1>3, <1>4, <1>5, InitHandler DEF OutputInv

\* A step that does not touch the output on its way, except that the browser or the
\* server may leave.
LEMMA OutputUntouched ==
  ASSUME TypeInv, TypeInv', OutputInv, HandlerInv',
         UNCHANGED <<screen, held["out"], held["stdout"], fetched>>,
         peer' => peer, conn' => conn, printed =< printed',
         handler' = "returned" => handler = "returned" /\ printed' = printed
  PROVE  OutputInv'
<1>1. /\ Len(screen) \in Nat /\ printed \in Nat /\ printed' \in Nat
  BY LenProperties DEF TypeInv, TypeOK
<1>2. OutputCut' /\ Pieces'
  BY DEF OutputInv, OutputCut, Pieces
<1>3. OutputInOrder'
  BY <1>1 DEF OutputInv, OutputInOrder
<1> QED
  BY <1>2, <1>3 DEF OutputInv

LEMMA FetchesOutput ==
  ASSUME TypeInv, OutputInv, HandlerInv', Fetches
  PROVE  OutputInv'
<1>1. /\ held["stdout"] = <<>> /\ UNCHANGED <<screen, peer, conn, printed, handler>>
      /\ fetched \in Nat /\ printed \in Nat
      /\ held \in [Copies -> Seq(Char)]
  BY DEF Fetches, Idle, browser, main, TypeInv, TypeOK, Char
<1>2. CASE \E n \in fetched + 1 .. printed :
             /\ n =< fetched + MaxPiece
             /\ held' = [held EXCEPT !["stdout"] = Numbers(fetched + 1, n)]
             /\ fetched' = n /\ UNCHANGED ended
  <2>1. PICK n \in fetched + 1 .. printed :
          /\ n =< fetched + MaxPiece
          /\ held' = [held EXCEPT !["stdout"] = Numbers(fetched + 1, n)]
          /\ fetched' = n
    BY <1>2
  <2>2. n \in Nat /\ fetched =< n
    BY <1>1
  <2>3. Numbers(fetched + 1, n) \in Seq(Char) /\ Run(Numbers(fetched + 1, n), fetched, n)
    BY <1>1, <2>2, NumbersRun
  <2>4. held'["out"] = held["out"] /\ held'["stdout"] = Numbers(fetched + 1, n)
    BY <1>1, <2>1 DEF Copies
  <2>5. OutputCut'
    <3>1. SUFFICES ASSUME peer, conn PROVE OutputCut'
      BY <1>1 DEF OutputCut
    <3>2. PICK a, b \in 0 .. fetched :
            Run(screen, 0, a) /\ Run(held["out"], a, b) /\ Run(<<>>, b, fetched)
      BY <1>1, <3>1 DEF OutputInv, OutputCut
    <3>3. b \in Nat /\ a \in 0 .. n /\ b \in 0 .. n
      BY <1>1, <2>2
    <3>4. b = fetched
      BY <1>1, <3>2, <3>3, EmptyRun, Messages
    <3> QED
      BY <1>1, <2>1, <2>3, <2>4, <3>2, <3>3, <3>4 DEF OutputCut
  <2>6. Pieces'
    <3>1. Len(held'["stdout"]) =< MaxPiece
      BY <1>1, <2>1, <2>2, <2>3, <2>4, RelayAssumption DEF Run
    <3> QED
      BY <2>4, <3>1 DEF OutputInv, Pieces
  <2> QED
    BY <1>1, <2>5, <2>6 DEF OutputInv, OutputInOrder
<1>3. CASE UNCHANGED <<held, fetched>>
  BY <1>1, <1>3 DEF OutputInv, OutputCut, Pieces, OutputInOrder
<1> QED
  BY <1>2, <1>3 DEF Fetches

LEMMA StdoutToOutOutput ==
  ASSUME TypeInv, OutputInv, HandlerInv', StdoutToOut
  PROVE  OutputInv'
<1>1. /\ held["out"] = <<>> /\ held'["out"] = held["stdout"] /\ held'["stdout"] = <<>>
      /\ UNCHANGED <<screen, peer, conn, printed, fetched, handler>>
      /\ fetched \in Nat
  BY DEF StdoutToOut, Idle, browser, main, incus, TypeInv, TypeOK, Copies
<1>2. OutputCut'
  <2>1. SUFFICES ASSUME peer, conn PROVE OutputCut'
    BY <1>1 DEF OutputCut
  <2>2. PICK a, b \in 0 .. fetched :
          Run(screen, 0, a) /\ Run(<<>>, a, b) /\ Run(held["stdout"], b, fetched)
    BY <1>1, <2>1 DEF OutputInv, OutputCut
  <2>3. a = b /\ Run(<<>>, fetched, fetched)
    BY <1>1, <2>2, EmptyRun, Messages, a \in Nat, b \in Nat
  <2> QED
    BY <1>1, <2>2, <2>3 DEF OutputCut
<1>3. Pieces'
  BY <1>1, Messages, EmptySeq, RelayAssumption DEF OutputInv, Pieces
<1> QED
  BY <1>1, <1>2, <1>3 DEF OutputInv, OutputInOrder

LEMMA OutSendsOutput ==
  ASSUME TypeInv, TypeInv', OutputInv, HandlerInv', OutSends
  PROVE  OutputInv'
<1>1. /\ held'["out"] = <<>> /\ held'["stdout"] = held["stdout"]
      /\ UNCHANGED <<peer, conn, printed, fetched, handler>>
      /\ fetched \in Nat /\ printed \in Nat /\ fetched =< printed
      /\ screen \in Seq(Char) /\ held["out"] \in Seq(Char)
  BY DEF OutSends, browser, main, incus, TypeInv, TypeOK, Copies, Char
<1>2. Pieces'
  BY <1>1, Messages, EmptySeq, RelayAssumption DEF OutputInv, Pieces
<1>3. CASE peer /\ conn
  <2>1. screen' = screen \o held["out"]
    BY <1>3 DEF OutSends
  <2>2. PICK a, b \in 0 .. fetched :
          Run(screen, 0, a) /\ Run(held["out"], a, b) /\ Run(held["stdout"], b, fetched)
    BY <1>3 DEF OutputInv, OutputCut
  <2>3. a \in Nat /\ b \in Nat
    BY <1>1
  <2>4. Run(screen', 0, b) /\ Run(<<>>, b, b)
    BY <1>1, <2>1, <2>2, <2>3, RunConcat, EmptyRun, Messages
  <2>5. OutputCut'
    BY <1>1, <2>2, <2>4 DEF OutputCut
  <2>6. Len(screen') = b /\ screen' = Numbers(1, b) /\ Len(screen) = a /\ a =< b
    <3>1. Len(screen') = b /\ screen' = Numbers(1, b)
      BY <2>3, <2>4, RunIsNumbers DEF TypeInv
    <3>2. Len(screen) = a /\ a =< b
      BY <2>2, <2>3 DEF Run
    <3> QED
      BY <3>1, <3>2
  <2>7. OutputInOrder'
    <3>1. Len(screen') =< printed'
      BY <1>1, <2>2, <2>6
    <3>2. handler = "returned" => Len(screen') + MaxPiece >= printed'
      BY <1>1, <1>3, <2>3, <2>6, RelayAssumption DEF OutputInv, OutputInOrder
    <3> QED
      BY <1>1, <2>6, <3>1, <3>2 DEF OutputInOrder
  <2> QED
    BY <1>2, <2>5, <2>7 DEF OutputInv
<1>4. CASE ~ (peer /\ conn)
  <2>1. screen' = screen
    BY <1>4 DEF OutSends
  <2> QED
    BY <1>1, <1>2, <1>4, <2>1 DEF OutputInv, OutputCut, OutputInOrder
<1> QED
  BY <1>3, <1>4

\* When the handler returns, all but the piece that "out" holds has been sent.
LEMMA ReturnsOutput ==
  ASSUME TypeInv, OutputInv, HandlerInv', Returns
  PROVE  OutputInv'
<1>1. /\ UNCHANGED <<screen, peer, printed, fetched, held>> /\ ~ conn'
      /\ fetched = printed /\ held["stdout"] = <<>> /\ conn
      /\ printed \in Nat /\ held["out"] \in Seq(Char) /\ screen \in Seq(Char)
  BY DEF Returns, Goes, DataDone, browser, incus, OutputInv, HandlerInv, TypeInv, TypeOK,
         Copies, Char
<1>2. ASSUME peer PROVE Len(screen) + MaxPiece >= printed
  <2>1. PICK a, b \in 0 .. fetched :
          Run(screen, 0, a) /\ Run(held["out"], a, b) /\ Run(<<>>, b, fetched)
    BY <1>1, <1>2 DEF OutputInv, OutputCut
  <2>2. a \in Nat /\ b \in Nat /\ b = fetched
    BY <1>1, <2>1, EmptyRun, Messages
  <2>3. Len(screen) = a /\ Len(held["out"]) = b - a
    BY <2>1, <2>2 DEF Run
  <2> QED
    BY <1>1, <2>2, <2>3, RelayAssumption DEF OutputInv, Pieces
<1> QED
  BY <1>1, <1>2 DEF OutputInv, OutputCut, Pieces, OutputInOrder

LEMMA OutputStep == TypeInv /\ OutputInv /\ [Next]_vars => OutputInv'
<1> SUFFICES ASSUME TypeInv, OutputInv, [Next]_vars PROVE OutputInv'
  OBVIOUS
<1>1. TypeInv' /\ HandlerInv'
  BY TypeStep, HandlerStep DEF OutputInv
<1> DEFINE Same == /\ UNCHANGED <<screen, held["out"], held["stdout"], fetched>>
                   /\ peer' => peer
                   /\ conn' => conn
                   /\ printed =< printed'
                   /\ handler' = "returned" => handler = "returned" /\ printed' = printed
<1> USE DEF TypeInv, TypeOK, vars, browser, main, incus, Copies
<1>2. Type \/ PeerGoes \/ CommandEnds \/ UNCHANGED vars => Same
  BY DEF Type, PeerGoes, CommandEnds
<1>3. Prints => Same
  BY DEF Prints, OutputInv, HandlerInv
<1>4. InReads => Same
  BY DEF InReads, NextMessage, ReadPiece, ReadFails
<1>5. InToStdin \/ Enters => Same
  BY DEF InToStdin, Enters
<1>6. ASSUME NEW g \in Copies, PipeClosed(g) PROVE Same
  BY <1>6 DEF PipeClosed
<1>7. Exec \/ Wait \/ Checks \/ ControlEnds => Same
  BY DEF Exec, Wait, Checks, ControlEnds, Goes
<1> QED
  BY <1>1, <1>2, <1>3, <1>4, <1>5, <1>6, <1>7, OutputUntouched, FetchesOutput,
     StdoutToOutOutput, OutSendsOutput, ReturnsOutput DEF Next, Copying, Main
-----------------------------------------------------------------------------
\* Whatever the browser puts in one message and however it is read in pieces
\* (wsWrapper.Read, rwc.go), Incus gets what was typed, in order, with nothing left
\* out and nothing twice.
THEOREM InputAlwaysInOrder == Spec => []InputInOrder
<1>1. InputInv => InputInOrder
  BY DEF InputInv
<1> QED
  BY InitTypes, TypeStep, InitInput, InputStep, InitHandler, HandlerStep, <1>1, PTL DEF Spec

\* The visitor sees what the command printed, in order, and all of it but at most
\* one piece once the handler has returned without an error (restConsoleHandler and
\* wsWrapper.Write).
THEOREM OutputAlwaysInOrder == Spec => []OutputInOrder
<1>1. OutputInv => OutputInOrder
  BY DEF OutputInv
<1> QED
  BY InitTypes, TypeStep, InitOutput, OutputStep, <1>1, PTL DEF Spec
===========================================================================
