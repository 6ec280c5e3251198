---------------------------- MODULE ConsoleRelay ----------------------------
(***************************************************************************)
(* One console on the server: restConsoleHandler (api_session.go) after    *)
(* the upgrade, the websocket wrapper of rwc.go and the two pipes.  Four   *)
(* goroutines copy: "in" from the websocket to a pipe and "out" from a     *)
(* pipe to the websocket, both io.Copy; "stdin" and "stdout" between the   *)
(* pipes and Incus, both of the Incus client.  A pipe holds nothing: a     *)
(* write ends when a read has taken the data, or when the pipe is closed.  *)
(* The handler waits for the end of the command and closes the pipes.      *)
(*                                                                         *)
(* Characters are numbered in the order they are typed or printed.         *)
(***************************************************************************)
EXTENDS Naturals, Sequences

CONSTANTS MaxTyped, MaxPrinted,  \* bounds on the characters of one console
          MaxPiece,              \* most characters in one message or one read
          MaxInbox,              \* bound on the messages on their way
          Faults                 \* subset of {"exec", "wait", "gone"}

ASSUME RelayAssumption ==
  /\ MaxTyped \in Nat /\ MaxPrinted \in Nat /\ MaxPiece \in Nat /\ MaxInbox \in Nat
  /\ Faults \subseteq {"exec", "wait", "gone"}

VARIABLES
  inbox,      \* messages from the browser that were not read yet
  typed,      \* number of characters typed
  peer,       \* the browser has not gone
  conn,       \* the server has not closed the websocket
  reader,     \* wsWrapper.reader: what is left of a message, or Nil
  handler,    \* its next step, or "returned" or "failed"
  err,        \* the variable err of the handler holds an error
  control,    \* the control handler is at work
  piped,      \* neither inWrite nor outRead has been closed
  held,       \* what each copying goroutine has read and not written yet
  ended,      \* copying goroutines that have returned
  entered,    \* characters that reached Incus
  printed,    \* characters the command has printed
  fetched,    \* how many of them stdout has received
  screen,     \* characters the browser was sent
  command     \* "none", "running", "over"

browser == <<inbox, typed, peer>>
main == <<handler, err, control>>
incus == <<entered, printed, fetched, command>>
vars == <<browser, main, incus, conn, reader, piped, held, ended, screen>>

Copies == {"in", "out", "stdin", "stdout"}
Nil == <<0>>            \* no character: they are numbered from 1
Idle(g) == g \notin ended /\ held[g] = <<>>
Holds(g) == g \notin ended /\ held[g] # <<>>
Numbers(from, to) == [i \in 1 .. to - from + 1 |-> from + i - 1]

Init ==
  /\ inbox = <<>> /\ typed = 0 /\ peer = TRUE /\ conn = TRUE /\ reader = Nil
  /\ handler = "exec" /\ err = FALSE /\ control = FALSE /\ piped = TRUE
  /\ held = [g \in Copies |-> <<>>]
  /\ ended = {"stdin", "stdout"}       \* not started yet
  /\ entered = <<>> /\ printed = 0 /\ fetched = 0 /\ screen = <<>>
  /\ command = "none"
-----------------------------------------------------------------------------
\* The browser sends a message, which may be empty, or goes away.
Type ==
  /\ peer /\ conn
  /\ \E n \in 0 .. MaxPiece :
        /\ typed + n =< MaxTyped /\ Len(inbox) < MaxInbox
        /\ inbox' = Append(inbox, Numbers(typed + 1, typed + n))
        /\ typed' = typed + n
  /\ UNCHANGED <<peer, main, incus, conn, reader, piped, held, ended, screen>>

PeerGoes ==
  /\ "gone" \in Faults /\ peer
  /\ peer' = FALSE
  /\ UNCHANGED <<inbox, typed, main, incus, conn, reader, piped, held, ended, screen>>

\* The command and Incus.
Prints ==
  /\ command = "running" /\ printed < MaxPrinted
  /\ printed' = printed + 1
  /\ UNCHANGED <<browser, main, conn, reader, piped, held, ended, entered, fetched,
                 screen, command>>

CommandEnds ==
  /\ command = "running"
  /\ command' = "over"
  /\ UNCHANGED <<browser, main, conn, reader, piped, held, ended, entered, printed,
                 fetched, screen>>
-----------------------------------------------------------------------------
\* Broken definitions: see DemoServer.
BrokenNextMessage == /\ inbox # <<>>
                     /\ reader' = Head(inbox) /\ inbox' = Tail(inbox)
                     /\ UNCHANGED <<held, ended>>

\* wsWrapper.Read: a new message is taken when the last one was read to its end.
NextMessage == /\ reader = Nil /\ inbox # <<>>
               /\ reader' = Head(inbox) /\ inbox' = Tail(inbox)
               /\ UNCHANGED <<held, ended>>

BrokenReadPiece ==
  /\ IF reader = <<>> THEN reader' = Nil /\ UNCHANGED held
     ELSE /\ held' = [held EXCEPT !["in"] = reader]
          /\ reader' = <<>>
  /\ UNCHANGED <<inbox, ended>>

\* Part of the message is read; the end of the message is reported as nothing.
ReadPiece ==
  /\ reader # Nil
  /\ IF reader = <<>> THEN reader' = Nil /\ UNCHANGED held
     ELSE \E n \in 1 .. Len(reader) :
            /\ held' = [held EXCEPT !["in"] = SubSeq(reader, 1, n)]
            /\ reader' = SubSeq(reader, n + 1, Len(reader))
  /\ UNCHANGED <<inbox, ended>>

\* The browser has gone, or the handler has closed the connection: io.Copy ends
\* and closes nothing.
ReadFails ==
  /\ ~ (conn /\ peer)
  /\ ended' = ended \cup {"in"}
  /\ UNCHANGED <<inbox, reader, held>>

InReads ==
  /\ Idle("in")
  /\ NextMessage \/ ReadPiece \/ ReadFails
  /\ UNCHANGED <<typed, peer, main, incus, conn, piped, screen>>

\* "in" writes and "stdin" reads in one step: the pipe holds nothing.
InToStdin ==
  /\ Holds("in") /\ Idle("stdin") /\ piped
  /\ held' = [held EXCEPT !["in"] = <<>>, !["stdin"] = held["in"]]
  /\ UNCHANGED <<browser, main, incus, conn, reader, piped, ended, screen>>

\* To Incus.  When the command is over the write fails.
Enters ==
  /\ Holds("stdin")
  /\ held' = [held EXCEPT !["stdin"] = <<>>]
  /\ \/ /\ command = "running"
        /\ entered' = entered \o held["stdin"]
        /\ UNCHANGED ended
     \/ /\ command = "over"
        /\ ended' = ended \cup {"stdin"}
        /\ UNCHANGED entered
  /\ UNCHANGED <<browser, main, conn, reader, piped, printed, fetched, screen, command>>

\* From Incus; at the end of the output "stdout" ends and closes DataDone.
Fetches ==
  /\ Idle("stdout")
  /\ \/ \E n \in fetched + 1 .. printed :
          /\ n =< fetched + MaxPiece
          /\ held' = [held EXCEPT !["stdout"] = Numbers(fetched + 1, n)]
          /\ fetched' = n /\ UNCHANGED ended
     \/ /\ command = "over" /\ fetched = printed
        /\ ended' = ended \cup {"stdout"} /\ UNCHANGED <<held, fetched>>
  /\ UNCHANGED <<browser, main, conn, reader, piped, entered, printed, screen, command>>

StdoutToOut ==
  /\ Holds("stdout") /\ Idle("out") /\ piped
  /\ held' = [held EXCEPT !["stdout"] = <<>>, !["out"] = held["stdout"]]
  /\ UNCHANGED <<browser, main, incus, conn, reader, piped, ended, screen>>

\* wsWrapper.Write.  After the browser has gone a write may still succeed.
OutSends ==
  /\ Holds("out")
  /\ held' = [held EXCEPT !["out"] = <<>>]
  /\ \/ /\ conn
        /\ screen' = IF peer THEN screen \o held["out"] ELSE screen
        /\ UNCHANGED ended
     \/ /\ ~ (conn /\ peer)
        /\ ended' = ended \cup {"out"}
        /\ UNCHANGED screen
  /\ UNCHANGED <<browser, main, incus, conn, reader, piped>>

\* A goroutine at a pipe that was closed returns.
PipeClosed(g) ==
  /\ ~ piped /\ g \notin ended
  /\ IF g \in {"in", "stdout"} THEN Holds(g) ELSE Idle(g)
  /\ ended' = ended \cup {g}
  /\ UNCHANGED <<browser, main, incus, conn, reader, piped, held, screen>>
-----------------------------------------------------------------------------
Goes(from, to) == handler = from /\ handler' = to

\* ExecInstance: the command starts, with the two copies and the control handler
\* of its own; or it fails and none does.
Exec ==
  /\ Goes("exec", "started")
  /\ \/ /\ err' = FALSE /\ control' = TRUE /\ command' = "running"
        /\ ended' = ended \ {"stdin", "stdout"}
     \/ /\ "exec" \in Faults
        /\ err' = TRUE
        /\ UNCHANGED <<control, command, ended>>
  /\ UNCHANGED <<browser, conn, reader, piped, held, entered, printed, fetched, screen>>

\* op.Wait(), which may fail at any time.
Wait ==
  /\ Goes("wait", "waited")
  /\ \/ command = "over" /\ err' = FALSE
     \/ "wait" \in Faults /\ err' = TRUE
  /\ UNCHANGED <<browser, incus, control, conn, reader, piped, held, ended, screen>>

\* The control handler reads until its connection is closed.  Its "err" is the
\* one of the handler, which may be about to look at it.
ControlEnds ==
  /\ control /\ command = "over"
  /\ control' = FALSE /\ err' = TRUE
  /\ UNCHANGED <<browser, incus, handler, conn, reader, piped, held, ended, screen>>

\* if err != nil { return }: the deferred call closes the websocket, nothing
\* closes the pipes.
Checks ==
  /\ handler \in {"started", "waited"}
  /\ \/ err /\ handler' = "failed" /\ conn' = FALSE
     \/ /\ ~ err /\ UNCHANGED conn
        /\ Goes("started", "wait") \/ Goes("waited", "data")
  /\ UNCHANGED <<browser, incus, err, control, reader, piped, held, ended, screen>>

BrokenClosePipes == UNCHANGED piped

ClosePipes == piped' = FALSE

BrokenDataDone == TRUE
BrokenDataDoneBoth == {"stdout", "in"} \subseteq ended

DataDone == "stdout" \in ended

Returns ==
  /\ Goes("data", "returned") /\ DataDone
  /\ ClosePipes /\ conn' = FALSE
  /\ UNCHANGED <<browser, incus, err, control, reader, held, ended, screen>>

Copying == \/ InReads \/ InToStdin \/ Enters \/ Fetches \/ StdoutToOut \/ OutSends
           \/ \E g \in Copies : PipeClosed(g)

Main == Exec \/ Wait \/ Checks \/ Returns

Next == Type \/ PeerGoes \/ Prints \/ CommandEnds \/ Copying \/ Main \/ ControlEnds

Spec == Init /\ [][Next]_vars

\* Every goroutine that can proceed does; the command may run for ever.
FairSpec ==
  /\ Spec
  /\ WF_vars(InReads) /\ WF_vars(InToStdin) /\ WF_vars(Enters) /\ WF_vars(Fetches)
  /\ WF_vars(StdoutToOut) /\ WF_vars(OutSends) /\ WF_vars(Main)
  /\ \A g \in Copies : WF_vars(PipeClosed(g))
-----------------------------------------------------------------------------
TypeOK ==
  /\ inbox \in Seq(Seq(Nat)) /\ reader \in Seq(Nat)
  /\ typed \in Nat /\ printed \in Nat /\ fetched \in 0 .. printed
  /\ peer \in BOOLEAN /\ conn \in BOOLEAN /\ piped \in BOOLEAN
  /\ handler \in {"exec", "started", "wait", "waited", "data", "returned", "failed"}
  /\ err \in BOOLEAN /\ control \in BOOLEAN
  /\ held \in [Copies -> Seq(Nat \ {0})] /\ ended \subseteq Copies
  /\ entered \in Seq(Nat) /\ screen \in Seq(Nat)
  /\ command \in {"none", "running", "over"}

\* Whatever the browser puts in one message and however it is read in pieces
\* (rwc.go:43-54), the command gets what was typed, in order, with nothing left
\* out and nothing twice.
InputInOrder == entered = Numbers(1, Len(entered)) /\ Len(entered) =< typed

\* The visitor sees what was printed, in order, and as long as the page stays
\* open and the handler sees no error, all of it but at most one read: the
\* handler may close the websocket (api_session.go:338-342) when the last piece
\* has left the pipe and was not sent yet.
OutputInOrder ==
  /\ screen = Numbers(1, Len(screen)) /\ Len(screen) =< printed
  /\ handler = "returned" /\ peer => Len(screen) + MaxPiece >= printed

\* When the command is over the handler returns, unless the browser was gone and
\* a write to it failed while more output waited: then stdout stays blocked in
\* its pipe, DataDone is never closed and the handler waits for ever
\* (api_session.go:338).
HandlerReturns ==
  command = "over" ~>
    handler \in {"returned", "failed"} \/ ("out" \in ended /\ Holds("stdout"))

\* A handler that waited for all the output leaves no goroutine behind.
NothingLeft == handler = "returned" ~> ended = Copies
=============================================================================
