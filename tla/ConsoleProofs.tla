--------------------------- MODULE ConsoleProofs ---------------------------
(***************************************************************************)
(* The consoles of a page, for any number of them.  The callbacks name the *)
(* globals; the invariant says when the globals are the callback's own.    *)
(* CurrentKept holds whatever is clicked, OwnKept until Reconnect is       *)
(* clicked while a connection is pending.                                  *)
(***************************************************************************)
EXTENDS Console, TLAPS

Live(n) == conn[n] \in {"connecting", "open"}

\* Sockets are made in order, and one that did not open yet is not attached.
InOrder ==
  /\ \A n \in Console : n > current <=> conn[n] = "unused"
  /\ \A n \in Console : conn[n] \in {"unused", "connecting"} => attached[n] = None
  /\ \A n \in hooked \cup disposed : n =< current

\* The button is there only when every socket that shows it has closed, and the
\* current terminal is on the page, with its own socket, while that is open.
CurrentKept ==
  /\ ClosesOwn
  /\ reconnect => \A n \in hooked : conn[n] = "closed"
  /\ current # None /\ conn[current] # "closed" => current \notin disposed
  /\ current # None /\ conn[current] = "open" => attached[current] = current

\* Without a hasty click only the current socket is live, every socket is joined
\* to its own terminal, and a terminal goes when its socket closes.
OwnKept ==
  \/ hasty
  \/ /\ \A n \in Console : n < current => conn[n] = "closed"
     /\ \A n \in Console : attached[n] \in {None, n}
     /\ \A n \in Console : conn[n] = "closed" /\ attached[n] # None => n \in disposed
     /\ \A n \in Console : conn[n] = "open" => n \in hooked
     /\ \/ current = None \/ reconnect
        \/ conn[current] = "open"
        \/ \A n \in Console : attached[n] = None

ConsoleInv == ConsoleTypeOK /\ InOrder /\ CurrentKept /\ OwnKept

USE ConsolesAssumption

LEMMA ConsoleInvInit == ConsoleInit => ConsoleInv
<1> SUFFICES ASSUME ConsoleInit PROVE ConsoleInv
  OBVIOUS
<1> USE DEF ConsoleInit, Console, None
<1>1. ConsoleTypeOK
  <2>1. 0 \in 0 .. MaxConsoles
    OBVIOUS
  <2>2. attached \in [Console -> 0 .. MaxConsoles] /\ current \in 0 .. MaxConsoles
    BY <2>1
  <2>3. conn \in [Console -> {"unused", "connecting", "open", "closed"}]
    OBVIOUS
  <2> QED BY <2>2, <2>3 DEF ConsoleTypeOK
<1>2. InOrder /\ CurrentKept
  BY DEF InOrder, CurrentKept, ClosesOwn
<1>3. OwnKept
  BY DEF OwnKept
<1> QED BY <1>1, <1>2, <1>3 DEF ConsoleInv

\* What setupConsole alone does, by the first setup or a click.
LEMMA SetupKeeps ==
  ASSUME ConsoleTypeOK, InOrder, CurrentKept, setupConsole, hasty' \in BOOLEAN,
         current = None \/ reconnect
  PROVE  ConsoleTypeOK' /\ InOrder' /\ CurrentKept'
<1>1. /\ current + 1 \in Console /\ current' = current + 1 /\ conn' = [conn EXCEPT ![current + 1] = "connecting"]
      /\ UNCHANGED <<attached, hooked, disposed, reconnect, ran>>
  BY DEF setupConsole, ConsoleTypeOK, Console
<1>2. ConsoleTypeOK'
  BY <1>1 DEF ConsoleTypeOK, Console
<1>3. \A n \in Console : conn'[n] = IF n = current + 1 THEN "connecting" ELSE conn[n]
  BY <1>1 DEF ConsoleTypeOK
<1>4. InOrder'
  <2>1. attached[current + 1] = None
    BY <1>1 DEF InOrder, ConsoleTypeOK, Console
  <2> QED BY <1>1, <1>3, <2>1 DEF InOrder, ConsoleTypeOK, Console
<1>5. current + 1 \notin hooked /\ current + 1 \notin disposed
  BY <1>1 DEF InOrder, ConsoleTypeOK, Console
<1>6. \A n \in hooked : conn[n] = "closed" /\ conn'[n] = "closed"
  BY <1>1, <1>3, <1>5 DEF CurrentKept, InOrder, ConsoleTypeOK, Console, None
<1>7. CurrentKept'
  BY <1>1, <1>3, <1>5, <1>6 DEF CurrentKept, ClosesOwn
<1> QED BY <1>2, <1>4, <1>7

LEMMA FirstSetupStep ==
  ASSUME ConsoleInv, FirstSetup
  PROVE  ConsoleInv'
<1>1. ConsoleTypeOK' /\ InOrder' /\ CurrentKept'
  BY SetupKeeps DEF ConsoleInv, FirstSetup, ConsoleTypeOK
<1>2. OwnKept'
  <2>1. /\ current = 0 /\ current' = 1 /\ conn' = [conn EXCEPT ![1] = "connecting"]
        /\ UNCHANGED <<attached, hooked, disposed, reconnect, hasty>>
    BY DEF FirstSetup, setupConsole, None
  <2>2. \A n \in Console : conn[n] = "unused" /\ attached[n] = None
    BY <2>1 DEF ConsoleInv, InOrder, Console
  <2>3. \A n \in Console : conn'[n] \in {"unused", "connecting"} /\ attached'[n] = None
    BY <2>1, <2>2 DEF ConsoleInv, ConsoleTypeOK
  <2> QED BY <2>1, <2>3 DEF OwnKept, Console, None
<1> QED BY <1>1, <1>2 DEF ConsoleInv

LEMMA ReconnectStep ==
  ASSUME ConsoleInv, ReconnectClick
  PROVE  ConsoleInv'
<1>1. ConsoleTypeOK' /\ InOrder' /\ CurrentKept'
  BY SetupKeeps DEF ConsoleInv, ReconnectClick, ConsoleTypeOK, Pending
<1>2. ASSUME ~ hasty'
      PROVE  OwnKept'
  <2>1. ~ hasty /\ ~ Pending /\ reconnect
    BY <1>2 DEF ReconnectClick
  <2>2. /\ current + 1 \in Console /\ current' = current + 1
        /\ conn' = [conn EXCEPT ![current + 1] = "connecting"]
        /\ UNCHANGED <<attached, hooked, disposed, reconnect>>
    BY DEF ReconnectClick, setupConsole, ConsoleInv, ConsoleTypeOK, Console
  <2>3. \A n \in Console : conn'[n] = IF n = current + 1 THEN "connecting" ELSE conn[n]
    BY <2>2 DEF ConsoleInv, ConsoleTypeOK
  <2>4. \A n \in Console : conn[n] \notin {"connecting", "open"}
    BY <2>1 DEF Pending, ConsoleInv, CurrentKept, OwnKept
  <2>5. \A n \in Console : n < current + 1 => conn'[n] = "closed"
    BY <2>2, <2>3, <2>4 DEF ConsoleInv, InOrder, ConsoleTypeOK, Console
  <2> QED BY <2>1, <2>2, <2>3, <2>5 DEF OwnKept, ConsoleInv
<1> QED BY <1>1, <1>2 DEF ConsoleInv, OwnKept

LEMMA OnOpenStep ==
  ASSUME ConsoleInv, NEW n \in Console, OnOpen(n)
  PROVE  ConsoleInv'
<1>1. /\ conn[n] = "connecting"
      /\ \A m \in Console : conn'[m] = IF m = n THEN "open" ELSE conn[m]
      /\ \A m \in Console : attached'[m] = IF m = n THEN current ELSE attached[m]
      /\ hooked' = hooked \cup {current} /\ reconnect' = FALSE
      /\ UNCHANGED <<current, disposed, hasty, ran>>
  BY DEF OnOpen, Attach, Hook, ConsoleInv, ConsoleTypeOK
<1>2. current \in Console /\ n =< current
  BY <1>1 DEF ConsoleInv, InOrder, ConsoleTypeOK, Console
<1>3. ConsoleTypeOK'
  BY <1>1, <1>2 DEF OnOpen, Attach, ConsoleInv, ConsoleTypeOK, Console
<1>4. InOrder'
  BY <1>1, <1>2 DEF ConsoleInv, InOrder, ConsoleTypeOK, Console
<1>5. CurrentKept'
  BY <1>1, <1>2 DEF ConsoleInv, CurrentKept, ClosesOwn, None, ConsoleTypeOK, Console
<1>6. ASSUME ~ hasty
      PROVE  OwnKept'
  <2>1. n = current
    BY <1>1, <1>2, <1>6 DEF ConsoleInv, OwnKept, ConsoleTypeOK, Console
  <2> QED BY <1>1, <1>6, <2>1 DEF ConsoleInv, OwnKept, ConsoleTypeOK, Console
<1> QED BY <1>1, <1>3, <1>4, <1>5, <1>6 DEF ConsoleInv, OwnKept

LEMMA OnCloseStep ==
  ASSUME ConsoleInv, NEW n \in Console, OnClose(n)
  PROVE  ConsoleInv'
<1>1. /\ conn[n] \in {"connecting", "open"}
      /\ \A m \in Console : conn'[m] = IF m = n THEN "closed" ELSE conn[m]
      /\ disposed' = Dispose(n) /\ reconnect' = (reconnect \/ n \in hooked)
      /\ UNCHANGED <<current, attached, hooked, hasty, ran>>
  BY DEF OnClose, ConsoleInv, ConsoleTypeOK
<1>2. current \in Console /\ n =< current
  BY <1>1 DEF ConsoleInv, InOrder, ConsoleTypeOK, Console
<1>3. n \in hooked => n = current
  BY <1>1 DEF ConsoleInv, CurrentKept, ClosesOwn
<1>4. ConsoleTypeOK'
  BY <1>1, <1>2 DEF OnClose, Dispose, ConsoleInv, ConsoleTypeOK
<1>5. InOrder'
  BY <1>1, <1>2 DEF ConsoleInv, InOrder, Dispose, ConsoleTypeOK, Console
<1>6. CurrentKept'
  <2>1. ClosesOwn'
    BY <1>1 DEF ConsoleInv, ConsoleTypeOK, CurrentKept, ClosesOwn
  <2>2. reconnect' => \A m \in hooked' : conn'[m] = "closed"
    <3>1. \A m \in hooked : m \in Console /\ conn[m] # "unused"
      BY DEF ConsoleInv, ConsoleTypeOK, InOrder, Console
    <3>2. CASE n \in hooked
      BY <1>1, <1>3, <3>1, <3>2 DEF ConsoleInv, ConsoleTypeOK, CurrentKept, ClosesOwn
    <3>3. CASE n \notin hooked
      BY <1>1, <3>1, <3>3 DEF ConsoleInv, CurrentKept
    <3> QED BY <3>2, <3>3
  <2>3. conn'[current] # "closed" => current \notin disposed'
    BY <1>1, <1>2, <1>3 DEF ConsoleInv, CurrentKept, Dispose, None, Console
  <2>4. conn'[current] = "open" => attached'[current] = current
    BY <1>1, <1>2 DEF ConsoleInv, CurrentKept, None, Console
  <2> QED BY <1>1, <2>1, <2>2, <2>3, <2>4 DEF CurrentKept
<1>7. ASSUME ~ hasty
      PROVE  OwnKept'
  <2>1. n = current
    BY <1>1, <1>2, <1>7 DEF ConsoleInv, OwnKept, ConsoleTypeOK, Console
  <2>2. CASE n \in hooked
    BY <1>1, <1>7, <2>1, <2>2 DEF ConsoleInv, OwnKept, Dispose
  <2>3. CASE n \notin hooked
    <3>1. conn[n] = "connecting" /\ attached[n] = None
      BY <1>1, <1>7, <2>3 DEF ConsoleInv, OwnKept, InOrder
    <3> QED BY <1>1, <1>7, <2>1, <2>3, <3>1 DEF ConsoleInv, OwnKept, Dispose
  <2> QED BY <2>2, <2>3
<1> QED BY <1>1, <1>4, <1>5, <1>6, <1>7 DEF ConsoleInv, OwnKept

LEMMA ConsoleInvStep ==
  ASSUME ConsoleInv, [ConsoleNext]_console
  PROVE  ConsoleInv'
<1>1. CASE RunClick
  <2>1. UNCHANGED <<current, conn, attached, hooked, disposed, reconnect, hasty>>
    BY <1>1 DEF RunClick
  <2>2. ran' \subseteq Console
    BY <1>1 DEF RunClick, ConsoleInv, ConsoleTypeOK, Console, None
  <2> QED BY <2>1, <2>2
       DEF ConsoleInv, ConsoleTypeOK, InOrder, CurrentKept, OwnKept, ClosesOwn
<1>2. CASE ConsoleGone
  <2>1. /\ current' = 0 /\ hooked' = {} /\ disposed' = {} /\ ran' = {}
        /\ conn' = [n \in Console |-> "unused"] /\ attached' = [n \in Console |-> None]
        /\ reconnect' = FALSE /\ hasty' = FALSE
    BY <1>2 DEF ConsoleGone, None
  <2>2. ConsoleTypeOK'
    <3>1. 0 \in 0 .. MaxConsoles
      OBVIOUS
    <3>2. attached' \in [Console -> 0 .. MaxConsoles] /\ current' \in 0 .. MaxConsoles
      BY <2>1, <3>1 DEF None
    <3>3. conn' \in [Console -> {"unused", "connecting", "open", "closed"}]
      BY <2>1
    <3> QED BY <2>1, <3>2, <3>3 DEF ConsoleTypeOK
  <2>3. InOrder' /\ CurrentKept'
    BY <2>1 DEF InOrder, CurrentKept, ClosesOwn, None, Console
  <2>4. OwnKept'
    BY <2>1 DEF OwnKept, Console, None
  <2> QED BY <2>2, <2>3, <2>4 DEF ConsoleInv
<1>3. CASE UNCHANGED console
  BY <1>3 DEF console, ConsoleInv, ConsoleTypeOK, InOrder, CurrentKept, OwnKept, ClosesOwn
<1> QED BY <1>1, <1>2, <1>3, FirstSetupStep, ReconnectStep, OnOpenStep, OnCloseStep
     DEF ConsoleNext

\* The invariant holds in every page.
THEOREM ConsoleInvAlways == ConsoleSpec => []ConsoleInv
BY ConsoleInvInit, ConsoleInvStep, PTL DEF ConsoleSpec

\* A socket closes the terminal made with it, whatever is clicked and whatever
\* the order in which connections open and close.
THEOREM AlwaysClosesOwn == ConsoleSpec => []ClosesOwn
<1>1. ConsoleInv => ClosesOwn
  BY DEF ConsoleInv, CurrentKept
<1> QED BY <1>1, ConsoleInvAlways, PTL

\* An example goes to a console whose output the visitor sees.
THEOREM CommandAlwaysSeen == ConsoleSpec => CommandSeen
<1>1. ConsoleInv /\ [ConsoleNext]_console =>
        [~ (ran' \subseteq ran) => attached[current] = current /\ current \notin disposed]_console
  <2> SUFFICES ASSUME ConsoleInv, ConsoleNext, ~ (ran' \subseteq ran)
               PROVE  attached[current] = current /\ current \notin disposed
    OBVIOUS
  <2>1. RunClick
    BY DEF ConsoleNext, FirstSetup, ReconnectClick, setupConsole, OnOpen, OnClose, ConsoleGone
  <2> QED BY <2>1 DEF RunClick, ConsoleInv, CurrentKept
<1> QED BY <1>1, ConsoleInvAlways, PTL DEF ConsoleSpec, CommandSeen

\* Without a hasty click no example is typed more than once: no two sockets are
\* joined to one terminal.
THEOREM AlwaysTypedOnce == ConsoleSpec => []TypedOnce
<1>1. ConsoleInv => TypedOnce
  BY DEF ConsoleInv, OwnKept, TypedOnce
<1> QED BY <1>1, ConsoleInvAlways, PTL

\* Nor is a terminal left behind, but one of a refused reconnection.
THEOREM AlwaysOneTerminal == ConsoleSpec => []OneTerminal
<1>1. ConsoleInv => OneTerminal
  BY DEF ConsoleInv, ConsoleTypeOK, OwnKept, OneTerminal, Console, None
<1> QED BY <1>1, ConsoleInvAlways, PTL

\* And there is always a console, on its way or open, or the button for another,
\* except after a first connection that was refused.
THEOREM AlwaysConsoleOrButton == ConsoleSpec => []ConsoleOrButton
<1>1. ConsoleInv => ConsoleOrButton
  BY DEF ConsoleInv, ConsoleTypeOK, OwnKept, ConsoleOrButton, Console, None
<1> QED BY <1>1, ConsoleInvAlways, PTL
=============================================================================
