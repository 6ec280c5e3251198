------------------------------ MODULE Console ------------------------------
(***************************************************************************)
(* The terminal of the session page (static/js/tryit.js).  Every call of   *)
(* setupConsole makes one Terminal and one WebSocket and puts them in the  *)
(* page's globals "term" and "sock"; both get the number of the call here. *)
(* The callbacks of a socket use the globals of the moment they run, so a  *)
(* callback of one socket can act on the terminal of another.  Sockets,    *)
(* terminals and their add-on are library code, modelled as they are used. *)
(***************************************************************************)
EXTENDS Naturals

CONSTANT MaxConsoles       \* bound on the calls of setupConsole in one page
ASSUME ConsolesAssumption == MaxConsoles \in Nat

Console == 1 .. MaxConsoles
None == 0

VARIABLES
  current,    \* the globals term and sock; None before the first setup
  conn,       \* readyState of each socket
  attached,   \* attached[n]: the terminal and socket joined when n opened
  hooked,     \* sockets that have an onclose callback
  disposed,   \* terminals that were taken off the page
  reconnect,  \* the Reconnect button is displayed
  hasty,      \* history: Reconnect was clicked while a connection was pending
  ran         \* history: sockets on which a click on an example was sent

console == <<current, conn, attached, hooked, disposed, reconnect, hasty, ran>>

ConsoleTypeOK ==
  /\ current \in 0 .. MaxConsoles
  /\ conn \in [Console -> {"unused", "connecting", "open", "closed"}]
  /\ attached \in [Console -> 0 .. MaxConsoles]
  /\ hooked \subseteq Console /\ disposed \subseteq Console
  /\ reconnect \in BOOLEAN /\ hasty \in BOOLEAN
  /\ ran \subseteq Console

\* A page that has just been loaded.
ConsoleInit ==
  /\ current = None
  /\ conn = [n \in Console |-> "unused"]
  /\ attached = [n \in Console |-> None]
  /\ hooked = {} /\ disposed = {} /\ ran = {}
  /\ reconnect = FALSE /\ hasty = FALSE

\* A page that is left takes its sockets, terminals and buttons with it.
ConsoleGone ==
  /\ current' = None
  /\ conn' = [n \in Console |-> "unused"]
  /\ attached' = [n \in Console |-> None]
  /\ hooked' = {} /\ disposed' = {} /\ ran' = {}
  /\ reconnect' = FALSE /\ hasty' = FALSE

setupConsole ==
  /\ current < MaxConsoles
  /\ current' = current + 1
  /\ conn' = [conn EXCEPT ![current + 1] = "connecting"]
  /\ UNCHANGED <<attached, hooked, disposed, reconnect, ran>>

Pending == \E n \in Console : conn[n] = "connecting"

\* The first console of the page.
FirstSetup == current = None /\ setupConsole /\ UNCHANGED hasty

ReconnectClick ==
  /\ reconnect
  /\ setupConsole
  /\ hasty' = (hasty \/ Pending)

\* Broken definitions: see DemoServer.
BrokenHook(n) == hooked
BrokenHookOwn(n) == hooked \cup {n}

\* sock.onclose = ...: the socket it is set on is the global one.
Hook(n) == hooked \cup {current}

BrokenAttach(n) == [attached EXCEPT ![n] = 1]

\* new AttachAddon(sock), term.loadAddon: likewise.
Attach(n) == [attached EXCEPT ![n] = current]

OnOpen(n) ==
  /\ conn[n] = "connecting"
  /\ conn' = [conn EXCEPT ![n] = "open"]
  /\ attached' = Attach(n)
  /\ hooked' = Hook(n)
  /\ reconnect' = FALSE
  /\ UNCHANGED <<current, disposed, hasty, ran>>

BrokenDispose(n) == disposed

Dispose(n) == IF n \in hooked THEN disposed \cup {current} ELSE disposed

\* The connection ends, or is refused before it was ever open.  The callback
\* runs where one was set.
OnClose(n) ==
  /\ conn[n] \in {"connecting", "open"}
  /\ conn' = [conn EXCEPT ![n] = "closed"]
  /\ disposed' = Dispose(n)
  /\ reconnect' = (reconnect \/ n \in hooked)
  /\ UNCHANGED <<current, attached, hooked, hasty, ran>>

\* A click on a line of the examples.  send() on a socket that is connecting
\* throws, on one that has closed it is ignored.
RunClick ==
  /\ current # None /\ conn[current] = "open"
  /\ ran' = ran \cup {current}
  /\ UNCHANGED <<current, conn, attached, hooked, disposed, reconnect, hasty>>

ConsoleNext ==
  \/ FirstSetup
  \/ ReconnectClick
  \/ \E n \in Console : OnOpen(n) \/ OnClose(n)
  \/ RunClick
  \/ ConsoleGone

ConsoleSpec == ConsoleInit /\ [][ConsoleNext]_console
-----------------------------------------------------------------------------
\* As long as Reconnect is not clicked while a connection is pending, what the
\* visitor types is sent once and what the shell prints is shown once: no
\* socket or terminal is joined twice, although every join is made through the
\* globals (tryit.js:82-83).
TypedOnce ==
  \/ hasty
  \/ \A m, n \in Console : m # n /\ attached[m] # None => attached[m] # attached[n]

\* The page always has a live console, one on its way, or a button to get one,
\* unless its first connection was refused (onclose is set by onopen only,
\* tryit.js:86) or a hasty click let a callback reach the wrong console.
ConsoleOrButton ==
  \/ current = None \/ reconnect \/ hasty
  \/ \E n \in Console : conn[n] \in {"connecting", "open"}
  \/ \A n \in Console : attached[n] = None

\* Two terminals are on the page together only when a reconnection was refused
\* and left its own behind (tryit.js:75, 87), or after a hasty click.
OneTerminal ==
  \/ hasty
  \/ \A m, n \in Console :
        m < n /\ n =< current /\ m \notin disposed => attached[m] = None

\* A callback that ends a console disposes of the terminal made with it and of
\* no other, though it names the global one (tryit.js:86-89): of the sockets
\* that have the callback only the current one can still close.  Hasty clicks
\* do not change that.
ClosesOwn == \A n \in hooked : conn[n] \in {"connecting", "open"} => n = current

\* An example is sent only to a console whose output is joined to the terminal
\* made with it and still on the page, whatever was clicked in whatever order
\* (tryit.js:144-152).
CommandSeen ==
  [][~ (ran' \subseteq ran) => attached[current] = current /\ current \notin disposed]_console
=============================================================================
