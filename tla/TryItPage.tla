----------------------------- MODULE TryItPage -----------------------------
(***************************************************************************)
(* One browser page of static/js/tryit.js and the handlers it talks to.    *)
(* The page is loaded, reloaded and navigates; it asks for the status and  *)
(* the terms, or for the session its address names; it starts a session    *)
(* and follows the progress documents of the answer; it shows the session, *)
(* its clock and its console (module Console) until the clock is at 0.     *)
(* The server is here what the page sees of it: sessions that live as      *)
(* SessionPromise says, and the terms of a configuration that is reloaded  *)
(* while handlers read it.                                                 *)
(*                                                                         *)
(* JavaScript runs one callback at a time, so a callback is one action.    *)
(* Between two of them anything may happen: the server answers, text of    *)
(* the response arrives, time passes, the visitor clicks.                  *)
(***************************************************************************)
EXTENDS Console, Integers, Sequences, FiniteSets

CONSTANTS
  Session, Life,   \* of SessionPromise
  Address,         \* the query strings the page may be opened with
  Skews,           \* how far the clock of the browser may be ahead
  LimitTotal,      \* limits.total
  MaxEdits,        \* bound on the edits of config.yaml
  MaxUpdates,      \* bound on the progress documents of one start
  MaxReloads,      \* bound on the reloads by the visitor
  Faults           \* subset of FaultKinds that may happen

FaultKinds == {"drop", "chunks", "config", "maintenance"}

VARIABLES
  state, left,                        \* of SessionPromise
  terms, termsHash,                   \* config.Server: the number of an edit
  maintenance, reloading,             \* ... and parseConfig is at work
  agreed,                             \* history: terms of each session
  address,                            \* window.location.search
  tryit_console, tryit_terms, tryit_terms_hash,
  shown,                              \* panels that are displayed
  clock, skew, leaving,               \* seconds left; a navigation is due
  ajax,                               \* the page's request
  docs, got, last,                    \* response of a start: see below
  reloads

server == <<state, left, terms, termsHash, maintenance, reloading, agreed>>
page == <<address, tryit_console, tryit_terms, tryit_terms_hash, shown, clock, leaving>>
response == <<docs, got, last>>
vars == <<server, page, ajax, response, console, skew, reloads>>

Server == INSTANCE SessionPromise

Missing == <<>>                       \* the empty id
NoClock == -1
Fault(kind) == kind \in Faults

SessionPanels == {"info", "feedback", "console", "examples"}
Refusals == {"invalid", "full", "quota", "banned", "unknown"}
Panels == SessionPanels \cup (Refusals \ {"invalid"}) \cup
  {"status", "maintenance", "online", "unreachable", "terms", "start", "accept",
   "progress", "error", "missing"}

ASSUME PageAssumption ==  \* a session is named by a UUID
  /\ Life \in Nat /\ Skews \subseteq Int
  /\ Session \cap (Refusals \cup {"progress", "/"}) = {}

\* A field of a query string is a name and the pieces of its value: a value may
\* end in a slash, which getUrlParameter takes off.  The first field of the name
\* counts.
getUrlParameter(query, name) ==
  LET named == {i \in DOMAIN query : query[i].name = name}
      value == query[CHOOSE i \in named : \A j \in named : i =< j].value
  IN IF named = {} \/ value = <<>> THEN Missing
     ELSE IF value[Len(value)] = "/" THEN SubSeq(value, 1, Len(value) - 1) ELSE value

Query(id) == <<[name |-> "id", value |-> id]>>

\* The page has one request at a time, for the status, the terms, a session or a
\* start.  "hash" is the parameter of a start or comes, as the other two, from
\* the answer.
Request(op) == [op |-> op, stage |-> "sent", down |-> FALSE, hash |-> 0, text |-> 0]
Stage(op, stage) == ajax.op = op /\ ajax.stage = stage
Proceeds(stage) == ajax' = [ajax EXCEPT !.stage = stage]
Done == Proceeds("done")
Shows(new, old) == shown' = (shown \ old) \cup new
-----------------------------------------------------------------------------
\* A document is loaded: the globals are new, and the first request is sent.
Loaded(query) ==
  /\ address' = query
  /\ tryit_console' = getUrlParameter(query, "id")
  /\ tryit_terms' = 0 /\ tryit_terms_hash' = 0
  /\ shown' = {"accept"}
  /\ clock' = NoClock /\ leaving' = FALSE
  /\ ajax' = Request(IF tryit_console' = Missing THEN "status" ELSE "info")
  /\ docs' = <<>> /\ got' = 0 /\ last' = <<0, 0>>

Init ==
  /\ Server!Init
  /\ terms = 1 /\ termsHash = 1 /\ maintenance = FALSE /\ reloading = FALSE
  /\ agreed = [s \in Session |-> <<0, 0>>]
  /\ address \in Address
  /\ tryit_console = getUrlParameter(address, "id")
  /\ tryit_terms = 0 /\ tryit_terms_hash = 0
  /\ shown = {"accept"}
  /\ clock = NoClock /\ leaving = FALSE
  /\ skew \in Skews
  /\ ajax = Request(IF tryit_console = Missing THEN "status" ELSE "info")
  /\ docs = <<>> /\ got = 0 /\ last = <<0, 0>>
  /\ reloads = 0
  /\ ConsoleInit

\* The visitor reloads the page.
Reload ==
  /\ reloads < MaxReloads /\ reloads' = reloads + 1
  /\ Loaded(address) /\ ConsoleGone
  /\ UNCHANGED <<server, skew>>

\* window.location.href = original_url takes effect: the address without query.
Leave ==
  /\ leaving
  /\ Loaded(<<>>) /\ ConsoleGone
  /\ UNCHANGED <<server, skew, reloads>>

\* "Start over", which the error panels but the banned one have.
GoBack ==
  /\ "error" \in shown /\ "banned" \notin shown /\ ~ leaving
  /\ leaving' = TRUE
  /\ UNCHANGED <<server, address, tryit_console, tryit_terms, tryit_terms_hash, shown,
                 clock, ajax, response, console, skew, reloads>>
-----------------------------------------------------------------------------
\* The handlers, as far as the page can tell.
ServerStep == UNCHANGED <<page, response, console, skew, reloads>>
Quiet == UNCHANGED server /\ ServerStep

\* restStatusHandler: the sessions are counted, and when the server is full the
\* next expiry is asked for in a second query, which fails when no session is
\* active any more; a failed query is reported as maintenance.
Active == {s \in Session : state[s] = "open"}

CountSessions ==
  /\ Stage("status", "sent")
  /\ ajax' = IF Cardinality(Active) >= LimitTotal
             THEN [ajax EXCEPT !.stage = "read"]
             ELSE [ajax EXCEPT !.stage = "answered", !.down = maintenance]
  /\ Quiet

NextExpire ==
  /\ Stage("status", "read")
  /\ ajax' = [ajax EXCEPT !.stage = "answered", !.down = maintenance \/ Active = {}]
  /\ Quiet

\* Broken definitions: see DemoServer.
BrokenReadField(n) ==
  IF n = 2 THEN [ajax EXCEPT !.hash = termsHash] ELSE [ajax EXCEPT !.text = terms]

\* restTermsHandler reads the hash first, the text after it.
ReadField(n) ==
  IF n = 1 THEN [ajax EXCEPT !.hash = termsHash] ELSE [ajax EXCEPT !.text = terms]

ReadHash ==
  /\ Stage("terms", "sent")
  /\ ajax' = [ReadField(1) EXCEPT !.stage = "read"]
  /\ Quiet

ReadTerms ==
  /\ Stage("terms", "read")
  /\ ajax' = [ReadField(2) EXCEPT !.stage = "answered"]
  /\ Quiet

\* restInfoHandler: a session is found whether or not it has ended.
AnswerInfo ==
  /\ Stage("info", "sent") /\ ~ maintenance
  /\ \E s \in Session : tryit_console = <<s>> /\ state[s] # "none"
  /\ Proceeds("answered")
  /\ Quiet

InfoNotFound ==
  /\ Stage("info", "sent")
  /\ \/ maintenance
     \/ \A s \in Session : tryit_console = <<s>> => state[s] = "none"
  /\ Proceeds("failed")
  /\ Quiet

\* One JSON document is encoded and flushed.
Writes(doc) == docs' = Append(docs, doc) /\ UNCHANGED <<got, last>>

StartInMaintenance ==
  /\ Stage("start", "sent") /\ maintenance
  /\ Proceeds("failed")
  /\ Quiet

StartRefused ==
  /\ Stage("start", "sent") /\ ~ maintenance
  /\ \E code \in Refusals \ {"unknown"} :
        /\ (code = "invalid") = (ajax.hash # termsHash)
        /\ Writes(code)
  /\ Proceeds("answered")
  /\ UNCHANGED <<server, page, console, skew, reloads>>

StartAccepted ==
  /\ Stage("start", "sent") /\ ~ maintenance
  /\ ajax.hash = termsHash
  /\ Proceeds("creating")
  /\ Quiet

StatusUpdate ==
  /\ Stage("start", "creating")
  /\ Len(docs) < MaxUpdates
  /\ Writes("progress")
  /\ UNCHANGED <<server, page, ajax, console, skew, reloads>>

StartFails ==
  /\ Stage("start", "creating")
  /\ Writes("unknown")
  /\ Proceeds("answered")
  /\ UNCHANGED <<server, page, console, skew, reloads>>

StartSucceeds(s) ==
  /\ Stage("start", "creating")
  /\ Server!Open(s)
  /\ agreed' = [agreed EXCEPT ![s] = <<tryit_terms, ajax.hash>>]
  /\ Writes(s)
  /\ Proceeds("answered")
  /\ UNCHANGED <<terms, termsHash, maintenance, reloading, page, console, skew, reloads>>

\* Somebody else's session, or one this page was promised before it was left.
OtherOpens(s) ==
  /\ Server!Open(s)
  /\ UNCHANGED <<terms, termsHash, maintenance, reloading, agreed, ajax>>
  /\ ServerStep

Close(s) ==
  /\ Server!Close(s)
  /\ UNCHANGED <<terms, termsHash, maintenance, reloading, agreed, ajax>>
  /\ ServerStep

\* parseConfig rewrites the fields of the configuration in use.
Unmarshal ==
  /\ ~ reloading /\ terms =< MaxEdits
  /\ terms' = terms + 1
  /\ maintenance' \in IF Fault("maintenance") THEN BOOLEAN ELSE {FALSE}
  /\ reloading' = TRUE
  /\ UNCHANGED <<state, left, termsHash, agreed, ajax>>
  /\ ServerStep

Rehash ==
  /\ reloading /\ reloading' = FALSE
  /\ termsHash' = terms
  /\ UNCHANGED <<state, left, terms, maintenance, agreed, ajax>>
  /\ ServerStep

\* A key of the wrong type: Unmarshal has set the others, and returns an error.
WrongType ==
  /\ Fault("config")
  /\ reloading /\ reloading' = FALSE
  /\ UNCHANGED <<state, left, terms, termsHash, maintenance, agreed, ajax>>
  /\ ServerStep
-----------------------------------------------------------------------------
\* The connection of a request is lost before the answer is complete.
ConnectionLost ==
  /\ Fault("drop")
  /\ ajax.stage \in {"sent", "read", "creating", "answered"}
  /\ Proceeds("failed")
  /\ Quiet

\* The text of a start is the documents written one after the other, each two
\* units long here, so that one may arrive in two pieces or two in one.  "got"
\* units have arrived; "last" is the piece of the last progress event, as the
\* units before and after it: last_response, and last[2] is last_response_len.
Text == 2 * Len(docs)

\* Documents arrive one by one, each before the next, unless chunks are faulty.
TextArrives ==
  /\ ajax.op = "start" /\ ajax.stage \in {"creating", "answered"}
  /\ \E n \in got + 1 .. Text :
        /\ Fault("chunks") \/ (got = last[2] /\ n = got + 2)
        /\ got' = n
  /\ UNCHANGED <<server, page, ajax, docs, last, console, skew, reloads>>

\* onprogress: runs when there is text it has not seen, and in any case before
\* the request completes.
OnProgress ==
  /\ ajax.op = "start" /\ ajax.stage \in {"creating", "answered"}
  /\ got > last[2]
  /\ last' = <<last[2], got>>
  /\ UNCHANGED <<server, page, ajax, docs, got, console, skew, reloads>>

\* $.parseJSON takes one document, no more and no less.
OneDocument(piece) == piece[1] % 2 = 0 /\ piece[2] = piece[1] + 2

BrokenparseJSON(piece) == docs[1]

parseJSON(piece) == docs[piece[2] \div 2]

\* The response is complete and every piece of it was seen.
Complete == Stage("start", "answered") /\ got = Text /\ last[2] = got
-----------------------------------------------------------------------------
\* The callbacks of the page.
Kept == <<server, response, skew, reloads>>

OnStatus ==
  /\ Stage("status", "answered")
  /\ \/ /\ ajax.down
        /\ Shows({"maintenance", "status"}, {})
        /\ Done
     \/ /\ ~ ajax.down
        /\ Shows({"online", "status"}, {})
        /\ ajax' = Request("terms")
  /\ UNCHANGED <<Kept, address, tryit_console, tryit_terms, tryit_terms_hash, clock,
                 leaving, console>>

\* There is no error callback: a page whose request for the terms fails shows
\* neither them nor the button.
OnTerms ==
  /\ Stage("terms", "answered")
  /\ tryit_terms_hash' = ajax.hash /\ tryit_terms' = ajax.text
  /\ Shows({"terms", "start"}, {})
  /\ Done
  /\ UNCHANGED <<Kept, address, tryit_console, clock, leaving, console>>

NoStatus == /\ Stage("status", "failed")
            /\ Shows({"unreachable", "status"}, {})

NoInfo == /\ Stage("info", "failed")
          /\ Shows({"missing", "error"}, {"start"})

OnError ==
  /\ NoStatus \/ NoInfo
  /\ Done
  /\ UNCHANGED <<Kept, address, tryit_console, tryit_terms, tryit_terms_hash, clock,
                 leaving, console>>

\* The seconds left by the clock of the browser, never below 0.  Of a session
\* that has ended the model does not know for how long, so a browser that is
\* behind may find any time left up to its delay.
Ahead == IF skew > 0 THEN skew ELSE 0
Behind == IF skew < 0 THEN -skew ELSE 0

BrokenTimeRemaining(s) == {Life}

getTimeRemaining(s) ==
  IF left[s] = 0 THEN 0 .. Behind
  ELSE {IF left[s] > skew THEN left[s] - skew ELSE 0}

initializeClock(id) ==
  /\ IF \E s \in Session : id = <<s>>
     THEN clock' \in getTimeRemaining(id[1])
     ELSE clock' = NoClock
  /\ leaving' = (leaving \/ clock' = 0)

\* The session page, with the id it was given in its address.
ShowSession(id) ==
  /\ initializeClock(id)
  /\ Shows(SessionPanels, {"status", "start"})
  /\ tryit_console' = id
  /\ address' = Query(id)
  /\ FirstSetup
  /\ Done
  /\ UNCHANGED <<Kept, tryit_terms, tryit_terms_hash>>

OnInfo ==
  /\ Stage("info", "answered")
  /\ ShowSession(tryit_console)

\* A click on the accept button.
Accept ==
  /\ {"start", "accept"} \subseteq shown
  /\ Shows({"progress"}, {"terms", "accept"})
  /\ ajax' = [Request("start") EXCEPT !.hash = tryit_terms_hash]
  /\ docs' = <<>> /\ got' = 0 /\ last' = <<0, 0>>
  /\ UNCHANGED <<server, address, tryit_console, tryit_terms, tryit_terms_hash, clock,
                 leaving, console, skew, reloads>>

BrokenReloadsOn(code) == FALSE
BrokenNoPanel(code) == UNCHANGED shown
BrokenRefuse(code) == Shows({code, "error"}, {})

ReloadsOn(code) == code = "invalid"
Refuse(code) == Shows({code, "error"}, {"start"})

\* The callback of a start that succeeded.  It takes the last piece for the
\* last document.
OnRefusal ==
  /\ Complete /\ OneDocument(last)
  /\ LET code == parseJSON(last) IN
       /\ code \in Refusals
       /\ IF ReloadsOn(code) THEN leaving' = TRUE /\ UNCHANGED shown
                            ELSE Refuse(code) /\ UNCHANGED leaving
  /\ Done
  /\ UNCHANGED <<Kept, address, tryit_console, tryit_terms, tryit_terms_hash, clock,
                 console>>

OnStarted ==
  /\ Complete /\ OneDocument(last)
  /\ parseJSON(last) \notin Refusals
  /\ ShowSession(<<parseJSON(last)>>)

\* parseJSON throws: the callback ends there.
OnGarbled ==
  /\ Complete /\ ~ OneDocument(last)
  /\ Done
  /\ UNCHANGED <<Kept, page, console>>

BrokenUpdateClock ==
  /\ clock < 0 /\ clock # NoClock /\ ~ leaving
  /\ leaving' = TRUE
  /\ UNCHANGED <<Kept, address, tryit_console, tryit_terms, tryit_terms_hash, shown,
                 clock, ajax, console>>

\* The interval of the clock, on which the first call has already acted.
UpdateClock ==
  /\ clock = 0 /\ ~ leaving
  /\ leaving' = TRUE
  /\ UNCHANGED <<Kept, address, tryit_console, tryit_terms, tryit_terms_hash, shown,
                 clock, ajax, console>>

Tick ==
  /\ Server!Tick
  /\ clock' = IF clock > 0 THEN clock - 1 ELSE clock
  /\ UNCHANGED <<terms, termsHash, maintenance, reloading, agreed, ajax, response,
                 console, skew, reloads, address, tryit_console, tryit_terms,
                 tryit_terms_hash, shown, leaving>>

\* restConsoleHandler serves active sessions only.
ConsoleStep ==
  /\ \/ ReconnectClick \/ RunClick
     \/ \E n \in Console :
          \/ OnOpen(n) /\ \E s \in Session : tryit_console = <<s>> /\ state[s] = "open"
          \/ OnClose(n)
  /\ UNCHANGED <<server, page, ajax, response, skew, reloads>>
-----------------------------------------------------------------------------
Handler == \/ CountSessions \/ NextExpire \/ ReadHash \/ ReadTerms \/ AnswerInfo \/ InfoNotFound
           \/ StartInMaintenance \/ StartRefused \/ StartAccepted \/ StatusUpdate
           \/ StartFails \/ \E s \in Session : StartSucceeds(s)

Callback == \/ OnStatus \/ OnTerms \/ OnError \/ OnInfo \/ OnProgress
            \/ OnRefusal \/ OnStarted \/ OnGarbled \/ UpdateClock \/ Leave

Configure == Unmarshal \/ Rehash \/ WrongType

Next == \/ Handler \/ Callback \/ TextArrives \/ ConnectionLost
        \/ Configure \/ ConsoleStep \/ Tick
        \/ Accept \/ GoBack \/ Reload
        \/ \E s \in Session : OtherOpens(s) \/ Close(s)

Spec == Init /\ [][Next]_vars

\* Handlers answer, text arrives, the browser runs its callbacks and timers, a
\* reload of the configuration ends, time passes.
FairSpec ==
  /\ Spec
  /\ WF_vars(Handler) /\ WF_vars(TextArrives) /\ WF_vars(Callback)
  /\ WF_vars(Rehash) /\ WF_vars(Tick)
-----------------------------------------------------------------------------
ServerTypeOK ==
  /\ state \in [Session -> {"none", "open", "closed"}]
  /\ left \in [Session -> 0 .. Life]
  /\ terms \in Nat /\ termsHash \in Nat
  /\ maintenance \in BOOLEAN /\ reloading \in BOOLEAN
  /\ agreed \in [Session -> Nat \X Nat]

PageTypeOK ==
  /\ tryit_terms \in Nat /\ tryit_terms_hash \in Nat
  /\ shown \subseteq Panels
  /\ clock \in Nat \cup {NoClock} /\ leaving \in BOOLEAN
  /\ skew \in Skews

RequestTypeOK ==
  ajax \in [op : {"status", "terms", "info", "start"},
            stage : {"sent", "read", "creating", "answered", "failed", "done"},
            down : BOOLEAN, hash : Nat, text : Nat]

ResponseTypeOK ==
  /\ docs \in Seq(Session \cup Refusals \cup {"progress"})
  /\ got \in 0 .. Text /\ last \in (0 .. got) \X (0 .. got)

TypeOK == ServerTypeOK /\ PageTypeOK /\ RequestTypeOK /\ ResponseTypeOK /\ ConsoleTypeOK

\* What is shown as a session is one the server has opened, never a progress
\* document or a refusal taken for one, and the address of the page leads back
\* to it, whatever address the page was opened with (tryit.js:204-231, 284-327).
SessionShown ==
  "info" \in shown =>
    /\ \E s \in Session : tryit_console = <<s>> /\ state[s] # "none"
    /\ getUrlParameter(address, "id") = tryit_console

\* The page stays at "Requesting a new instance" with nothing on its way only
\* when the request failed or its last piece was not one document
\* (tryit.js:283-284): no refusal and no progress document leaves it there.
SpinnerExcused ==
  {"start", "progress"} \subseteq shown /\ ~ leaving =>
    /\ ajax.op = "start"
    /\ ajax.stage = "done" => ~ OneDocument(last)

\* The terms recorded with a session are never newer than those its visitor was
\* shown: the handler reads the hash first and the text after it, the reload
\* writes them the other way round (api_terms.go:19-20, main.go:44-64).
TermsNotNewer == \A s \in Session : agreed[s][2] =< agreed[s][1]

\* The clock on the page and the life of the session differ by no more than the
\* clocks of browser and server do (tryit.js:36-45, 315): the page neither
\* leaves a session that has more time left nor stays longer than that.
ClockWithinSkew ==
  \A s \in Session : "info" \in shown /\ tryit_console = <<s>> =>
    left[s] - Ahead =< clock /\ clock =< left[s] + Behind

\* An accepted start comes to a session, an error panel, a reload of the start
\* page, or one of the two dead ends that SpinnerExcused names.
StartSettles ==
  "progress" \in shown ~>
    \/ "progress" \notin shown \/ leaving
    \/ "info" \in shown \/ "error" \in shown
    \/ ajax.stage = "failed" \/ (ajax.stage = "done" /\ ~ OneDocument(last))

\* Every session page is left, by its clock at the latest, however far the
\* clock of the browser is off and whatever happens to its console.
SessionLeft == "info" \in shown ~> "info" \notin shown
=============================================================================
