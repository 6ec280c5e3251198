-------------------------- MODULE TryItPageProofs --------------------------
(***************************************************************************)
(* The page of TryItPage, for any number of sessions, consoles, reloads    *)
(* and edits, any clock and every fault.                                   *)
(***************************************************************************)
EXTENDS TryItPage, ConsoleProofs

USE PageAssumption

\* The terms: what an answer has and what the page shows is never older than
\* the hash that goes with it.
HashInv ==
  /\ termsHash =< terms
  /\ ajax.op = "terms" /\ ajax.stage \in {"read", "answered"} => ajax.hash =< terms
  /\ ajax.op = "terms" /\ ajax.stage = "answered" => ajax.hash =< ajax.text
  /\ ajax.op = "start" => ajax.hash = tryit_terms_hash
  /\ tryit_terms_hash =< tryit_terms
  /\ TermsNotNewer

\* The last document of a complete start is a refusal or a session.
Known == {s \in Session : state[s] # "none"}

DocsInv ==
  Stage("start", "answered") =>
    docs # <<>> /\ docs[Len(docs)] \in Refusals \cup Known

\* What is or is about to be shown is a session.
ShownInv ==
  /\ Stage("info", "answered") => \E s \in Known : tryit_console = <<s>>
  /\ "info" \in shown => \E s \in Known : tryit_console = <<s>>

\* The address of a session page is the one ShowSession gave it.
AddressInv == "info" \in shown => address = Query(tryit_console)

SpinInv ==
  /\ "progress" \in shown => ajax.op = "start"
  /\ SpinnerExcused

PageTypes == ServerTypeOK /\ PageTypeOK /\ RequestTypeOK /\ ResponseTypeOK

PageInv == /\ PageTypes /\ HashInv /\ DocsInv /\ ShownInv /\ AddressInv
           /\ ClockWithinSkew /\ SpinInv
-----------------------------------------------------------------------------
\* The steps of the page are steps of its consoles or leave them alone.
THEOREM PageRunsConsole == Spec => ConsoleSpec
<1>1. Init => ConsoleInit
  BY DEF Init
<1>2. [Next]_vars => [ConsoleNext]_console
  <2> SUFFICES ASSUME Next PROVE [ConsoleNext]_console
    BY DEF vars, console
  <2>1. CASE Handler
    BY <2>1 DEF Handler, CountSessions, NextExpire, ReadHash, ReadTerms, AnswerInfo,
                InfoNotFound, StartInMaintenance, StartRefused, StartAccepted, StatusUpdate,
                StartFails, StartSucceeds, Quiet, ServerStep
  <2>2. CASE Callback
    BY <2>2 DEF Callback, OnStatus, OnTerms, OnError, NoStatus, NoInfo, OnInfo,
        OnProgress, OnRefusal,
                OnStarted, OnGarbled, UpdateClock, Leave, ShowSession, ConsoleNext
  <2>3. CASE TextArrives \/ ConnectionLost \/ Configure \/ Tick \/ Accept \/ GoBack
    BY <2>3 DEF TextArrives, ConnectionLost, Configure, Unmarshal, Rehash, WrongType, Tick,
                Accept, GoBack, Quiet, ServerStep
  <2>4. CASE ConsoleStep \/ Reload
    BY <2>4 DEF ConsoleStep, Reload, ConsoleNext
  <2>5. CASE \E s \in Session : OtherOpens(s) \/ Close(s)
    BY <2>5 DEF OtherOpens, Close, ServerStep
  <2> QED BY <2>1, <2>2, <2>3, <2>4, <2>5 DEF Next
<1> QED BY <1>1, <1>2, PTL DEF Spec, ConsoleSpec

\* So what is proved of consoles holds in every page.
THEOREM PageConsoles ==
  Spec => [](ClosesOwn /\ TypedOnce /\ OneTerminal /\ ConsoleOrButton) /\ CommandSeen
BY PageRunsConsole, AlwaysClosesOwn, AlwaysTypedOnce, AlwaysOneTerminal,
   AlwaysConsoleOrButton, CommandAlwaysSeen, PTL
-----------------------------------------------------------------------------
\* What a loaded document is.
LEMMA LoadedPage ==
  ASSUME NEW query, Loaded(query)
  PROVE  /\ tryit_terms' = 0 /\ tryit_terms_hash' = 0
         /\ shown' = {"accept"} /\ clock' = NoClock /\ leaving' = FALSE
         /\ docs' = <<>> /\ got' = 0 /\ last' = <<0, 0>>
         /\ \E op \in {"status", "info"} : ajax' = Request(op)
BY DEF Loaded

Stages == {"sent", "read", "creating", "answered", "failed", "done"}

LEMMA RequestTyped ==
  ASSUME NEW op \in {"status", "terms", "info", "start"}
  PROVE  /\ Request(op).op = op /\ Request(op).stage = "sent"
         /\ Request(op).hash = 0
         /\ ajax' = Request(op) => RequestTypeOK'
<1>1. Request(op).op = op /\ Request(op).stage = "sent" /\ Request(op).hash = 0
  BY DEF Request
<1>2. Request(op) \in [op : {"status", "terms", "info", "start"}, stage : Stages,
                      down : BOOLEAN, hash : Nat, text : Nat]
  BY DEF Request, Stages
<1> QED BY <1>1, <1>2 DEF RequestTypeOK, Stages

\* Most steps give the request another stage.
LEMMA Proceeded ==
  ASSUME RequestTypeOK, NEW stage \in Stages, Proceeds(stage)
  PROVE  /\ RequestTypeOK'
         /\ ajax'.stage = stage /\ ajax'.op = ajax.op
         /\ ajax'.hash = ajax.hash /\ ajax'.text = ajax.text
BY DEF Proceeds, RequestTypeOK, Stages

\* What the handlers, the browser and the visitor do to the page's request.
LEMMA RequestTypes ==
  ASSUME PageTypes, Next
  PROVE  RequestTypeOK'
<1> USE DEF PageTypes, Quiet, ServerStep, Stages, Done
<1>1. CASE CountSessions \/ NextExpire
  <2>1. PICK stage \in Stages, down \in BOOLEAN :
          ajax' = [ajax EXCEPT !.stage = stage, !.down = down]
    <3>1. ServerTypeOK /\ RequestTypeOK
      OBVIOUS
    <3>2. ajax.down \in BOOLEAN /\ maintenance \in BOOLEAN
      BY <3>1 DEF ServerTypeOK, RequestTypeOK
    <3>3. [ajax EXCEPT !.stage = "read"] = [ajax EXCEPT !.stage = "read", !.down = ajax.down]
      BY <3>1 DEF RequestTypeOK
    <3>4. CASE CountSessions
      BY <3>2, <3>3, <3>4 DEF CountSessions
    <3>5. CASE NextExpire
      BY <3>2, <3>5 DEF NextExpire
    <3> QED BY <1>1, <3>4, <3>5
  <2> QED BY <2>1 DEF RequestTypeOK
<1>2. CASE ReadHash \/ ReadTerms
  BY <1>2 DEF ReadHash, ReadTerms, ReadField, RequestTypeOK, ServerTypeOK
<1>3. CASE \E stage \in Stages : Proceeds(stage)
  BY <1>3, Proceeded
<1>4. CASE \E op \in {"status", "terms", "info", "start"} : ajax' = Request(op)
  BY <1>4, RequestTyped
<1>5. CASE Accept
  <2>1. Request("start") \in [op : {"status", "terms", "info", "start"}, stage : Stages,
                              down : BOOLEAN, hash : Nat, text : Nat]
    BY DEF Request
  <2> QED BY <1>5, <2>1 DEF Accept, RequestTypeOK, PageTypeOK
<1>6. CASE UNCHANGED ajax
  BY <1>6 DEF RequestTypeOK
<1>7. \/ \E stage \in Stages : Proceeds(stage)
      \/ \E op \in {"status", "terms", "info", "start"} : ajax' = Request(op)
      \/ UNCHANGED ajax
      \/ Accept \/ CountSessions \/ NextExpire \/ ReadHash \/ ReadTerms
  <2>1. CASE Handler
    BY <2>1 DEF Handler, AnswerInfo, InfoNotFound, StartInMaintenance, StartRefused,
                StartAccepted, StatusUpdate, StartFails, StartSucceeds
  <2>2. CASE Callback
    BY <2>2, LoadedPage DEF Callback, OnStatus, OnTerms, OnError, NoStatus, NoInfo,
        OnInfo, OnProgress,
       OnRefusal, OnStarted, OnGarbled, UpdateClock, Leave, ShowSession, page
  <2>3. CASE TextArrives \/ ConnectionLost \/ Configure \/ Tick \/ GoBack \/ ConsoleStep
    BY <2>3 DEF TextArrives, ConnectionLost, Configure, Unmarshal, Rehash, WrongType, Tick,
                GoBack, ConsoleStep
  <2>4. CASE Reload
    BY <2>4, LoadedPage DEF Reload
  <2>5. CASE \E s \in Session : OtherOpens(s) \/ Close(s)
    BY <2>5 DEF OtherOpens, Close
  <2> QED BY <2>1, <2>2, <2>3, <2>4, <2>5 DEF Next
<1> QED BY <1>1, <1>2, <1>3, <1>4, <1>5, <1>6, <1>7

\* Which steps change what the model knows of the server.
ServerChanges ==
  \/ Configure \/ Tick
  \/ \E s \in Session : StartSucceeds(s) \/ OtherOpens(s) \/ Close(s)

LEMMA ServerChange == ASSUME Next PROVE UNCHANGED server \/ ServerChanges
<1>1. CASE Handler
  BY <1>1 DEF Handler, CountSessions, NextExpire, ReadHash, ReadTerms, AnswerInfo,
     InfoNotFound, StartInMaintenance, StartRefused, StartAccepted, StatusUpdate,
     StartFails, Quiet, ServerChanges
<1>2. CASE Callback
  BY <1>2 DEF Callback, OnStatus, OnTerms, OnError, NoStatus, NoInfo, OnInfo,
      OnProgress, OnRefusal,
     OnStarted, OnGarbled, UpdateClock, Leave, ShowSession, Kept
<1>3. CASE TextArrives \/ ConnectionLost \/ Accept \/ GoBack \/ ConsoleStep \/ Reload
  BY <1>3 DEF TextArrives, ConnectionLost, Accept, GoBack, ConsoleStep, Reload, Quiet
<1> QED BY <1>1, <1>2, <1>3 DEF Next, ServerChanges

LEMMA ServerTypes ==
  ASSUME PageTypes, Next
  PROVE  ServerTypeOK'
<1> USE DEF PageTypes, ServerTypeOK
<1>1. CASE UNCHANGED server
  BY <1>1 DEF server
<1>2. ASSUME NEW s \in Session, Server!Open(s)
      PROVE  /\ state' \in [Session -> {"none", "open", "closed"}]
             /\ left' \in [Session -> 0 .. Life]
  BY <1>2 DEF Server!Open
<1>3. ASSUME NEW s \in Session, StartSucceeds(s)
      PROVE  ServerTypeOK'
  <2>1. agreed' \in [Session -> Nat \X Nat]
    BY <1>3 DEF StartSucceeds, PageTypeOK, RequestTypeOK
  <2> QED BY <1>2, <1>3, <2>1 DEF StartSucceeds
<1>4. ASSUME NEW s \in Session, OtherOpens(s)
      PROVE  ServerTypeOK'
  BY <1>2, <1>4 DEF OtherOpens
<1>5. ASSUME NEW s \in Session, Close(s)
      PROVE  ServerTypeOK'
  BY <1>5 DEF Close, Server!Close
<1>6. CASE Configure
  <2>1. CASE Unmarshal
    <3>1. maintenance' \in BOOLEAN
      BY <2>1 DEF Unmarshal
    <3>2. terms' \in Nat
      BY <2>1 DEF Unmarshal
    <3> QED BY <2>1, <3>1, <3>2 DEF Unmarshal
  <2>2. CASE Rehash \/ WrongType
    BY <2>2 DEF Rehash, WrongType
  <2> QED BY <1>6, <2>1, <2>2 DEF Configure
<1>7. CASE Tick
  <2>1. \A n \in 0 .. Life : (IF n = 0 THEN 0 ELSE n - 1) \in 0 .. Life
    OBVIOUS
  <2>2. left' \in [Session -> 0 .. Life]
    BY <1>7, <2>1 DEF Tick, Server!Tick
  <2> QED BY <1>7, <2>2 DEF Tick, Server!Tick
<1> QED BY <1>1, <1>3, <1>4, <1>5, <1>6, <1>7, ServerChange DEF ServerChanges

\* A panel is named by what it says.
LEMMA PanelNames ==
  /\ SessionPanels \subseteq Panels /\ Refusals \ {"invalid"} \subseteq Panels
  /\ {"status", "maintenance", "online", "unreachable", "terms", "start", "accept",
      "progress", "error", "missing"} \subseteq Panels
BY DEF Panels

LEMMA ClockTyped ==
  ASSUME ServerTypeOK, PageTypeOK, NEW s \in Session
  PROVE  getTimeRemaining(s) \subseteq Nat
<1>1. left[s] \in Nat /\ skew \in Int
  BY DEF ServerTypeOK, PageTypeOK
<1>2. Behind \in Nat
  BY <1>1 DEF Behind
<1> QED BY <1>1, <1>2 DEF getTimeRemaining

LEMMA ViewTypes ==
  ASSUME PageTypes, Next
  PROVE  PageTypeOK'
<1> USE DEF PageTypes, Kept
<1>1. CASE UNCHANGED <<page, skew>>
  BY <1>1 DEF PageTypeOK, page
<1>2. CASE OnStatus \/ OnError \/ Accept
  BY <1>2, PanelNames DEF OnStatus, OnError, NoStatus, NoInfo, Accept, Shows, PageTypeOK
<1>3. CASE OnTerms
  BY <1>3, PanelNames DEF OnTerms, Shows, PageTypeOK, RequestTypeOK
<1>4. CASE OnRefusal
  BY <1>4, PanelNames DEF OnRefusal, ReloadsOn, Refuse, Shows, PageTypeOK
<1>5. ASSUME NEW id, ShowSession(id)
      PROVE  PageTypeOK'
  <2>1. clock' \in Nat \cup {NoClock} /\ leaving' \in BOOLEAN
    BY <1>5, ClockTyped DEF ShowSession, initializeClock, PageTypeOK
  <2>2. shown' \subseteq Panels
    BY <1>5, PanelNames DEF ShowSession, Shows, PageTypeOK
  <2> QED BY <1>5, <2>1, <2>2 DEF ShowSession, PageTypeOK
<1>6. CASE UpdateClock \/ GoBack
  BY <1>6 DEF UpdateClock, GoBack, PageTypeOK
<1>7. CASE Tick
  <2>1. clock' \in Nat \cup {NoClock}
    BY <1>7 DEF Tick, PageTypeOK, NoClock
  <2> QED BY <1>7, <2>1 DEF Tick, PageTypeOK
<1>8. CASE Leave \/ Reload
  <2>1. PICK query : Loaded(query)
    BY <1>8 DEF Leave, Reload
  <2>2. skew' = skew
    BY <1>8 DEF Leave, Reload
  <2>3. shown' \subseteq Panels
    BY <2>1, LoadedPage, PanelNames
  <2>4. tryit_terms' = 0 /\ tryit_terms_hash' = 0 /\ clock' = NoClock /\ leaving' = FALSE
    BY <2>1, LoadedPage
  <2> QED BY <2>2, <2>3, <2>4 DEF PageTypeOK
<1>9. CASE Handler
  BY <1>1, <1>9 DEF Handler, CountSessions, NextExpire, ReadHash, ReadTerms, AnswerInfo,
     InfoNotFound, StartInMaintenance, StartRefused, StartAccepted, StatusUpdate,
     StartFails, StartSucceeds, Quiet, ServerStep
<1>10. CASE TextArrives \/ ConnectionLost \/ Configure \/ ConsoleStep \/ OnProgress \/ OnGarbled
  BY <1>1, <1>10 DEF TextArrives, ConnectionLost, Configure, Unmarshal, Rehash, WrongType,
     ConsoleStep, OnProgress, OnGarbled, Quiet, ServerStep
<1>11. CASE \E s \in Session : OtherOpens(s) \/ Close(s)
  BY <1>1, <1>11 DEF OtherOpens, Close, ServerStep
<1> QED BY <1>2, <1>3, <1>4, <1>5, <1>6, <1>7, <1>8, <1>9, <1>10, <1>11
     DEF Next, Callback, OnInfo, OnStarted

LEMMA ResponseTypes ==
  ASSUME PageTypes, Next
  PROVE  ResponseTypeOK'
<1> USE DEF PageTypes, Kept
<1>1. CASE UNCHANGED response
  BY <1>1 DEF ResponseTypeOK, response, Text
<1>2. ASSUME NEW doc \in Session \cup Refusals \cup {"progress"}, Writes(doc)
      PROVE  ResponseTypeOK'
  <2> HIDE DEF Refusals
  <2>1. /\ docs' \in Seq(Session \cup Refusals \cup {"progress"})
        /\ Len(docs) \in Nat /\ Len(docs') = Len(docs) + 1
    BY <1>2 DEF Writes, ResponseTypeOK
  <2>2. got' \in 0 .. Text'
    BY <1>2, <2>1 DEF Writes, Text, ResponseTypeOK
  <2> QED BY <1>2, <2>1, <2>2 DEF Writes, ResponseTypeOK
<1>3. CASE docs' = <<>> /\ got' = 0 /\ last' = <<0, 0>>
  <2>1. Len(docs') = 0
    BY <1>3
  <2> QED BY <1>3, <2>1 DEF ResponseTypeOK, Text
<1>4. CASE TextArrives
  <2>1. Text \in Nat
    BY DEF ResponseTypeOK, Text
  <2> QED BY <1>4, <2>1 DEF TextArrives, ResponseTypeOK, Text
<1>5. CASE OnProgress
  BY <1>5 DEF OnProgress, ResponseTypeOK, Text
<1>6. CASE Handler
  <2>1. "unknown" \in Refusals
    BY DEF Refusals
  <2> QED BY <1>1, <1>2, <1>6, <2>1 DEF Handler, CountSessions, NextExpire, ReadHash, ReadTerms,
     AnswerInfo, InfoNotFound, StartInMaintenance, StartRefused, StartAccepted, StatusUpdate,
     StartFails, StartSucceeds, Quiet, ServerStep
<1>7. CASE OnStatus \/ OnTerms \/ OnError \/ OnRefusal \/ OnGarbled \/ UpdateClock
  BY <1>1, <1>7 DEF OnStatus, OnTerms, OnError, NoStatus, NoInfo, OnRefusal, OnGarbled,
      UpdateClock
<1>8. CASE OnInfo \/ OnStarted
  BY <1>1, <1>8 DEF OnInfo, OnStarted, ShowSession
<1>9. CASE Leave \/ Reload \/ Accept
  BY <1>3, <1>9, LoadedPage DEF Leave, Reload, Accept
<1>10. CASE ConnectionLost \/ Configure \/ ConsoleStep \/ Tick \/ GoBack
  BY <1>1, <1>10 DEF ConnectionLost, Configure, Unmarshal, Rehash, WrongType, ConsoleStep,
     Tick, GoBack, Quiet, ServerStep
<1>11. CASE \E s \in Session : OtherOpens(s) \/ Close(s)
  BY <1>1, <1>11 DEF OtherOpens, Close, ServerStep
<1> QED BY <1>4, <1>5, <1>6, <1>7, <1>8, <1>9, <1>10, <1>11 DEF Next, Callback
-----------------------------------------------------------------------------
\* A session that was opened is known for ever.
LEMMA KnownGrows == ASSUME PageTypes, Next PROVE Known \subseteq Known'
<1> USE DEF PageTypes, ServerTypeOK, Known
<1>1. CASE UNCHANGED server
  BY <1>1 DEF server
<1>2. CASE Configure \/ Tick
  BY <1>2 DEF Configure, Unmarshal, Rehash, WrongType, Tick, Server!Tick
<1>3. ASSUME NEW s \in Session, StartSucceeds(s) \/ OtherOpens(s) \/ Close(s)
      PROVE  Known \subseteq Known'
  BY <1>3 DEF StartSucceeds, OtherOpens, Close, Server!Open, Server!Close
<1> QED BY <1>1, <1>2, <1>3, ServerChange DEF ServerChanges

LEMMA HashStep ==
  ASSUME PageInv, Next
  PROVE  HashInv'
<1> USE DEF PageInv, PageTypes, Kept, Quiet, ServerStep
<1>0. /\ terms \in Nat /\ termsHash \in Nat /\ tryit_terms \in Nat /\ tryit_terms_hash \in Nat
      /\ ajax.hash \in Nat /\ ajax.text \in Nat
      /\ agreed \in [Session -> Nat \X Nat]
  BY DEF ServerTypeOK, PageTypeOK, RequestTypeOK
<1>1. CASE UNCHANGED <<ajax, tryit_terms, tryit_terms_hash, terms, termsHash, agreed>>
  BY <1>1 DEF HashInv, TermsNotNewer
\* The request goes on, but not to an answer with the terms.
<1>2. ASSUME NEW stage \in Stages, Proceeds(stage), ajax.op # "terms" \/ stage \in {"failed", "done"},
             UNCHANGED <<tryit_terms, tryit_terms_hash, terms, termsHash, agreed>>
      PROVE  HashInv'
  BY <1>2, Proceeded DEF HashInv, TermsNotNewer
<1>3. CASE CountSessions \/ NextExpire
  <2>1. ajax'.op = "status" /\ UNCHANGED <<tryit_terms, tryit_terms_hash, terms, termsHash, agreed>>
    BY <1>3 DEF CountSessions, NextExpire, Stage, RequestTypeOK, server, page
  <2> QED BY <2>1 DEF HashInv, TermsNotNewer
<1>4. CASE ReadHash
  <2>1. /\ ajax'.op = "terms" /\ ajax'.stage = "read" /\ ajax'.hash = termsHash
        /\ UNCHANGED <<tryit_terms, tryit_terms_hash, terms, termsHash, agreed>>
    BY <1>4 DEF ReadHash, ReadField, Stage, RequestTypeOK, server, page
  <2> QED BY <2>1 DEF HashInv, TermsNotNewer
<1>5. CASE ReadTerms
  <2>1. /\ ajax'.op = "terms" /\ ajax'.hash = ajax.hash /\ ajax'.text = terms
        /\ ajax.op = "terms" /\ ajax.stage = "read"
        /\ UNCHANGED <<tryit_terms, tryit_terms_hash, terms, termsHash, agreed>>
    BY <1>5 DEF ReadTerms, ReadField, Stage, RequestTypeOK, server, page
  <2> QED BY <2>1 DEF HashInv, TermsNotNewer
<1>6. CASE AnswerInfo \/ InfoNotFound \/ StartInMaintenance \/ StartRefused \/ StartAccepted
           \/ StartFails \/ ConnectionLost
  BY <1>2, <1>6 DEF AnswerInfo, InfoNotFound, StartInMaintenance, StartRefused, StartAccepted,
     StartFails, ConnectionLost, Stage, Stages, server, page
<1>7. ASSUME NEW s \in Session, StartSucceeds(s)
      PROVE  HashInv'
  <2>1. /\ ajax.op = "start" /\ Proceeds("answered") /\ "answered" \in Stages
        /\ agreed' = [agreed EXCEPT ![s] = <<tryit_terms, ajax.hash>>]
        /\ UNCHANGED <<terms, termsHash, tryit_terms, tryit_terms_hash>>
    BY <1>7 DEF StartSucceeds, Stage, page, Stages
  <2>2. ajax'.op = "start" /\ ajax'.hash = ajax.hash
    BY <2>1, Proceeded
  <2>3. \A t \in Session : agreed'[t][2] =< agreed'[t][1]
    BY <1>0, <2>1 DEF HashInv, TermsNotNewer
  <2> QED BY <2>1, <2>2, <2>3 DEF HashInv, TermsNotNewer
<1>8. CASE OnStatus
  <2>1. CASE ajax.down
    BY <1>2, <1>8, <2>1 DEF OnStatus, Done, Stages, server
  <2>2. CASE ~ ajax.down
    <3>1. ajax' = Request("terms") /\ UNCHANGED <<tryit_terms, tryit_terms_hash, terms, termsHash, agreed>>
      BY <1>8, <2>2 DEF OnStatus, server
    <3>2. ajax'.op = "terms" /\ ajax'.stage = "sent"
      BY <3>1, RequestTyped
    <3> QED BY <3>1, <3>2 DEF HashInv, TermsNotNewer
  <2> QED BY <2>1, <2>2
<1>9. CASE OnTerms
  <2>1. /\ ajax.op = "terms" /\ ajax.stage = "answered" /\ Proceeds("done") /\ "done" \in Stages
        /\ tryit_terms_hash' = ajax.hash /\ tryit_terms' = ajax.text
        /\ UNCHANGED <<terms, termsHash, agreed>>
    BY <1>9 DEF OnTerms, Done, Stage, Stages, server
  <2>2. ajax'.op = "terms" /\ ajax'.stage = "done"
    BY <2>1, Proceeded
  <2> QED BY <2>1, <2>2 DEF HashInv, TermsNotNewer
<1>10. CASE OnError \/ OnRefusal \/ OnGarbled
  BY <1>2, <1>10 DEF OnError, NoStatus, NoInfo, OnRefusal, OnGarbled, Done, Stages,
      server, page
<1>11. CASE OnInfo \/ OnStarted
  BY <1>2, <1>11 DEF OnInfo, OnStarted, ShowSession, Done, Stages, server, page
<1>12. CASE Leave \/ Reload
  <2>1. /\ \E op \in {"status", "info"} : ajax' = Request(op)
        /\ tryit_terms' = 0 /\ tryit_terms_hash' = 0
        /\ UNCHANGED <<terms, termsHash, agreed>>
    BY <1>12, LoadedPage DEF Leave, Reload, server
  <2>2. ajax'.op \in {"status", "info"}
    BY <2>1, RequestTyped
  <2> QED BY <2>1, <2>2 DEF HashInv, TermsNotNewer
<1>13. CASE Accept
  <2>1. /\ ajax'.op = "start" /\ ajax'.hash = tryit_terms_hash
        /\ UNCHANGED <<tryit_terms, tryit_terms_hash, terms, termsHash, agreed>>
    BY <1>13 DEF Accept, Request, server
  <2> QED BY <2>1 DEF HashInv, TermsNotNewer
<1>14. CASE Configure
  <2>1. /\ terms' >= terms /\ terms' \in Nat /\ termsHash' =< terms'
        /\ UNCHANGED <<ajax, tryit_terms, tryit_terms_hash, agreed>>
    <3>1. CASE Unmarshal
      <4>1. terms' = terms + 1 /\ termsHash' = termsHash
            /\ UNCHANGED <<ajax, tryit_terms, tryit_terms_hash, agreed>>
        BY <3>1 DEF Unmarshal, page
      <4> QED BY <1>0, <4>1 DEF HashInv
    <3>2. CASE Rehash \/ WrongType
      BY <1>0, <3>2 DEF Rehash, WrongType, page, HashInv
    <3> QED BY <1>14, <3>1, <3>2 DEF Configure
  <2> QED BY <1>0, <2>1 DEF HashInv, TermsNotNewer
<1>15. CASE \/ StatusUpdate \/ OnProgress \/ UpdateClock \/ TextArrives \/ ConsoleStep \/ Tick
            \/ GoBack \/ \E s \in Session : OtherOpens(s) \/ Close(s)
  BY <1>1, <1>15 DEF StatusUpdate, OnProgress, UpdateClock, TextArrives, ConsoleStep, Tick,
     GoBack, OtherOpens, Close, server, page
<1> QED BY <1>3, <1>4, <1>5, <1>6, <1>7, <1>8, <1>9, <1>10, <1>11, <1>12, <1>13, <1>14, <1>15
     DEF Next, Handler, Callback

LEMMA DocsStep ==
  ASSUME PageInv, Next
  PROVE  DocsInv'
<1> USE DEF PageInv, PageTypes, Kept, Quiet, ServerStep
<1>1. CASE UNCHANGED <<ajax, docs>>
  BY <1>1, KnownGrows DEF DocsInv, Stage
<1>2. CASE ajax'.op # "start" \/ ajax'.stage # "answered"
  BY <1>2 DEF DocsInv, Stage
\* The last document is written and the handler returns.
<1>3. ASSUME NEW doc \in Refusals \cup Known', Writes(doc)
      PROVE  DocsInv'
  <2>1. docs' # <<>> /\ docs'[Len(docs')] = doc
    BY <1>3 DEF Writes, ResponseTypeOK
  <2> QED BY <1>3, <2>1 DEF DocsInv
<1>4. ASSUME NEW stage \in Stages, Proceeds(stage), ajax.op # "start" \/ stage # "answered"
      PROVE  DocsInv'
  BY <1>2, <1>4, Proceeded
<1>5. ASSUME NEW s \in Session, StartSucceeds(s)
      PROVE  DocsInv'
  <2>1. state'[s] # "none"
    BY <1>5 DEF StartSucceeds, Server!Open, ServerTypeOK
  <2> QED BY <1>3, <1>5, <2>1 DEF StartSucceeds, Known
<1>6. CASE StartRefused \/ StartFails
  <2>1. "unknown" \in Refusals
    BY DEF Refusals
  <2> QED BY <1>3, <1>6, <2>1 DEF StartRefused, StartFails
<1>7. CASE CountSessions \/ NextExpire \/ ReadHash \/ ReadTerms
  <2>1. ajax'.op # "start"
    BY <1>7 DEF CountSessions, NextExpire, ReadHash, ReadTerms, ReadField, Stage, RequestTypeOK
  <2> QED BY <1>2, <2>1
<1>8. CASE AnswerInfo \/ InfoNotFound \/ StartInMaintenance \/ StartAccepted \/ ConnectionLost
  BY <1>4, <1>8 DEF AnswerInfo, InfoNotFound, StartInMaintenance, StartAccepted,
     ConnectionLost, Stage, Stages
<1>9. CASE StatusUpdate
  BY <1>2, <1>9 DEF StatusUpdate, Stage
<1>10. CASE OnStatus \/ OnTerms \/ OnError \/ OnRefusal \/ OnGarbled \/ OnInfo \/ OnStarted
  <2>1. Done \/ ajax' = Request("terms")
    BY <1>10 DEF OnStatus, OnTerms, OnError, NoStatus, NoInfo, OnRefusal, OnGarbled,
        OnInfo, OnStarted, ShowSession
  <2>2. CASE Done
    BY <1>4, <2>2 DEF Done, Stages
  <2>3. CASE ajax' = Request("terms")
    BY <1>2, <2>3, RequestTyped
  <2> QED BY <2>1, <2>2, <2>3
<1>11. CASE Leave \/ Reload
  <2>1. \E op \in {"status", "info"} : ajax' = Request(op)
    BY <1>11, LoadedPage DEF Leave, Reload
  <2> QED BY <1>2, <2>1, RequestTyped
<1>12. CASE Accept
  <2>1. ajax'.stage = "sent"
    BY <1>12 DEF Accept, Request
  <2> QED BY <1>2, <2>1
<1>13. CASE \/ OnProgress \/ UpdateClock \/ TextArrives \/ ConsoleStep \/ Tick \/ Configure
            \/ GoBack \/ \E s \in Session : OtherOpens(s) \/ Close(s)
  BY <1>1, <1>13 DEF OnProgress, UpdateClock, TextArrives, ConsoleStep, Tick, Configure,
     Unmarshal, Rehash, WrongType, GoBack, OtherOpens, Close, response
<1> QED BY <1>5, <1>6, <1>7, <1>8, <1>9, <1>10, <1>11, <1>12, <1>13 DEF Next, Handler, Callback

\* The clock of the browser stays as far off as it is.
LEMMA SkewConstant == ASSUME Next PROVE skew' = skew /\ Ahead' = Ahead /\ Behind' = Behind
<1>1. CASE Handler
  BY <1>1 DEF Handler, CountSessions, NextExpire, ReadHash, ReadTerms, AnswerInfo,
     InfoNotFound, StartInMaintenance, StartRefused, StartAccepted, StatusUpdate,
     StartFails, StartSucceeds, Quiet, ServerStep, Ahead, Behind
<1>2. CASE Callback
  BY <1>2 DEF Callback, OnStatus, OnTerms, OnError, NoStatus, NoInfo, OnInfo,
      OnProgress, OnRefusal, OnStarted,
     OnGarbled, UpdateClock, Leave, ShowSession, Kept, Ahead, Behind
<1>3. CASE \/ TextArrives \/ ConnectionLost \/ Configure \/ ConsoleStep \/ Tick \/ Accept
           \/ GoBack \/ Reload \/ \E s \in Session : OtherOpens(s) \/ Close(s)
  BY <1>3 DEF TextArrives, ConnectionLost, Configure, Unmarshal, Rehash, WrongType,
     ConsoleStep, Tick, Accept, GoBack, Reload, OtherOpens, Close, Quiet, ServerStep, Ahead, Behind
<1> QED BY <1>1, <1>2, <1>3 DEF Next

\* The last piece of a complete start is its last document: a session by now
\* unless it is a refusal.
LEMMA LastDocument ==
  ASSUME PageInv, Complete
  PROVE  parseJSON(last) \in Refusals \cup Known
<1>1. /\ docs # <<>> /\ docs[Len(docs)] \in Refusals \cup Known
      /\ Len(docs) \in Nat
  BY DEF PageInv, DocsInv, Complete, PageTypes, ResponseTypeOK
<1>2. last[2] = 2 * Len(docs)
  BY DEF Complete, Text
<1>3. last[2] \div 2 = Len(docs)
  BY <1>1, <1>2
<1> QED BY <1>1, <1>3 DEF parseJSON

\* What the clock shows when it is set up.
LEMMA ClockStarts ==
  ASSUME PageTypes, NEW s \in Session, NEW c \in getTimeRemaining(s)
  PROVE  left[s] - Ahead =< c /\ c =< left[s] + Behind
<1>1. left[s] \in Nat /\ skew \in Int
  BY DEF PageTypes, ServerTypeOK, PageTypeOK
<1>2. /\ Ahead \in Nat /\ Behind \in Nat /\ skew =< Ahead /\ - skew =< Behind
      /\ Ahead = IF skew > 0 THEN skew ELSE 0
  BY <1>1 DEF Ahead, Behind
<1>3. CASE left[s] = 0
  <2>1. c \in 0 .. Behind
    BY <1>3 DEF getTimeRemaining
  <2> QED BY <1>2, <1>3, <2>1
<1>4. CASE left[s] # 0
  <2>1. c = IF left[s] > skew THEN left[s] - skew ELSE 0
    BY <1>4 DEF getTimeRemaining
  <2> QED BY <1>1, <1>2, <1>4, <2>1
<1> QED BY <1>3, <1>4

LEMMA ShowsKnown ==
  ASSUME PageInv, Next, NEW s \in Known, ShowSession(<<s>>)
  PROVE  ShownInv' /\ ClockWithinSkew'
<1> USE DEF PageInv, PageTypes, Kept
<1>1. s \in Session /\ s \in Known'
  BY KnownGrows DEF Known
<1>2. /\ tryit_console' = <<s>> /\ ajax' = [ajax EXCEPT !.stage = "done"]
      /\ UNCHANGED <<left, skew>>
  BY DEF ShowSession, Done, Proceeds, server
<1>3. ajax'.stage = "done"
  BY <1>2 DEF RequestTypeOK
<1>4. clock' \in getTimeRemaining(s)
  BY <1>1 DEF ShowSession, initializeClock
<1>5. left[s] - Ahead =< clock' /\ clock' =< left[s] + Behind
  BY <1>1, <1>4, ClockStarts
<1>6. \A t \in Session : <<t>> = <<s>> => t = s
  OBVIOUS
<1> QED BY <1>1, <1>2, <1>3, <1>5, <1>6, SkewConstant DEF ShownInv, Stage, ClockWithinSkew

LEMMA ShownStep ==
  ASSUME PageInv, Next
  PROVE  ShownInv' /\ ClockWithinSkew'
<1> USE DEF PageInv, PageTypes, Kept, Quiet, ServerStep
<1>0. \A s \in Known : s \in Known'
  BY KnownGrows
\* A step that keeps session, clock and, of the sessions that may be shown, the
\* time left.
<1>1. ASSUME UNCHANGED <<tryit_console, clock>>, "info" \in shown' => "info" \in shown,
             \A s \in Known : left'[s] = left[s],
             Stage("info", "answered")' => Stage("info", "answered")
                \/ \E s \in Known : tryit_console = <<s>>
      PROVE  ShownInv' /\ ClockWithinSkew'
  <2>1. ShownInv'
    BY <1>0, <1>1 DEF ShownInv
  <2>2. ASSUME NEW s \in Session, "info" \in shown, tryit_console = <<s>>
        PROVE  s \in Known
    BY <2>2 DEF ShownInv
  <2>3. ClockWithinSkew'
    BY <1>1, <2>2, SkewConstant DEF ClockWithinSkew
  <2> QED BY <2>1, <2>3
<1>2. ASSUME NEW stage \in Stages, Proceeds(stage), stage # "answered" \/ ajax.op # "info"
      PROVE  ~ Stage("info", "answered")'
  BY <1>2, Proceeded DEF Stage
<1>3. CASE CountSessions \/ NextExpire \/ ReadHash \/ ReadTerms
  <2>1. ajax'.op # "info"
    BY <1>3 DEF CountSessions, NextExpire, ReadHash, ReadTerms, ReadField, Stage, RequestTypeOK
  <2>2. UNCHANGED <<tryit_console, clock, shown, left>>
    BY <1>3 DEF CountSessions, NextExpire, ReadHash, ReadTerms, page, server
  <2> QED BY <1>1, <2>1, <2>2 DEF Stage
<1>4. CASE AnswerInfo
  <2>1. \E s \in Known : tryit_console = <<s>>
    BY <1>4 DEF AnswerInfo, Known
  <2>2. UNCHANGED <<tryit_console, clock, shown, left>>
    BY <1>4 DEF AnswerInfo, page, server
  <2> QED BY <1>1, <2>1, <2>2
<1>5. CASE InfoNotFound \/ StartInMaintenance \/ StartRefused \/ StartAccepted \/ StartFails
           \/ ConnectionLost
  <2>1. UNCHANGED <<tryit_console, clock, shown, left>>
    BY <1>5 DEF InfoNotFound, StartInMaintenance, StartRefused, StartAccepted, StartFails,
       ConnectionLost, page, server
  <2>2. ~ Stage("info", "answered")'
    BY <1>2, <1>5 DEF InfoNotFound, StartInMaintenance, StartRefused, StartAccepted, StartFails,
       ConnectionLost, Stage, Stages
  <2> QED BY <1>1, <2>1, <2>2
<1>6. ASSUME NEW s \in Session, Server!Open(s)
      PROVE  \A t \in Known : left'[t] = left[t]
  BY <1>6 DEF Server!Open, Known, ServerTypeOK
<1>7. ASSUME NEW s \in Session, StartSucceeds(s)
      PROVE  ShownInv' /\ ClockWithinSkew'
  <2>1. UNCHANGED <<tryit_console, clock, shown>> /\ Server!Open(s)
    BY <1>7 DEF StartSucceeds, page
  <2>2. ~ Stage("info", "answered")'
    BY <1>2, <1>7 DEF StartSucceeds, Stage, Stages
  <2> QED BY <1>1, <1>6, <2>1, <2>2
<1>8. ASSUME NEW s \in Session, OtherOpens(s) \/ Close(s)
      PROVE  ShownInv' /\ ClockWithinSkew'
  <2>1. UNCHANGED <<tryit_console, clock, shown, ajax>>
    BY <1>8 DEF OtherOpens, Close, page
  <2>2. \A t \in Known : left'[t] = left[t]
    BY <1>6, <1>8 DEF OtherOpens, Close, Server!Close
  <2> QED BY <1>1, <2>1, <2>2 DEF Stage
<1>9. CASE \/ StatusUpdate \/ OnProgress \/ UpdateClock \/ TextArrives \/ ConsoleStep
           \/ Configure \/ GoBack
  BY <1>1, <1>9 DEF StatusUpdate, OnProgress, UpdateClock, TextArrives, ConsoleStep, Configure,
     Unmarshal, Rehash, WrongType, GoBack, page, server, Stage
<1>10. CASE OnStatus \/ OnTerms \/ OnError \/ OnRefusal \/ OnGarbled
  <2>1. UNCHANGED <<tryit_console, clock, left>>
    BY <1>10 DEF OnStatus, OnTerms, OnError, NoStatus, NoInfo, OnRefusal, OnGarbled,
        page, server
  <2>2. "info" \in shown' => "info" \in shown
    BY <1>10 DEF OnStatus, OnTerms, OnError, NoStatus, NoInfo, OnRefusal, OnGarbled,
        Shows, Refuse, Refusals, page
  <2>3. ~ Stage("info", "answered")'
    <3>1. Done \/ ajax' = Request("terms")
      BY <1>10 DEF OnStatus, OnTerms, OnError, NoStatus, NoInfo, OnRefusal, OnGarbled
    <3>2. CASE Done
      BY <1>2, <3>2 DEF Done, Stages
    <3>3. CASE ajax' = Request("terms")
      BY <3>3, RequestTyped DEF Stage
    <3> QED BY <3>1, <3>2, <3>3
  <2> QED BY <1>1, <2>1, <2>2, <2>3
<1>11. CASE OnInfo
  <2>1. PICK s \in Known : tryit_console = <<s>>
    BY <1>11 DEF OnInfo, ShownInv
  <2> QED BY <1>11, <2>1, ShowsKnown DEF OnInfo
<1>12. CASE OnStarted
  BY <1>12, LastDocument, ShowsKnown DEF OnStarted
<1>13. CASE Leave \/ Reload
  <2>1. shown' = {"accept"} /\ \E op \in {"status", "info"} : ajax' = Request(op)
    BY <1>13, LoadedPage DEF Leave, Reload
  <2>2. ajax'.stage = "sent"
    BY <2>1, RequestTyped
  <2> QED BY <2>1, <2>2 DEF ShownInv, Stage, ClockWithinSkew
<1>14. CASE Accept
  <2>1. /\ UNCHANGED <<tryit_console, clock, left>> /\ ajax'.stage = "sent"
        /\ "info" \in shown' => "info" \in shown
    BY <1>14 DEF Accept, Request, Shows, server
  <2> QED BY <1>1, <2>1 DEF Stage
<1>15. CASE Tick
  <2>1. /\ UNCHANGED <<tryit_console, shown, ajax>>
        /\ clock' = IF clock > 0 THEN clock - 1 ELSE clock
        /\ \A s \in Session : left'[s] = IF left[s] = 0 THEN 0 ELSE left[s] - 1
    BY <1>15 DEF Tick, Server!Tick
  <2>2. ShownInv'
    BY <1>0, <2>1 DEF ShownInv, Stage
  <2>3. ASSUME NEW s \in Session, "info" \in shown', tryit_console' = <<s>>
        PROVE  left'[s] - Ahead' =< clock' /\ clock' =< left'[s] + Behind'
    <3>1. left[s] - Ahead =< clock /\ clock =< left[s] + Behind
      BY <2>1, <2>3 DEF ClockWithinSkew
    <3>2. /\ left[s] \in Nat /\ clock \in Int /\ clock >= -1 /\ skew \in Int
      BY DEF ServerTypeOK, PageTypeOK, NoClock
    <3>3. Ahead \in Nat /\ Behind \in Nat
      BY <3>2 DEF Ahead, Behind
    <3>4. left'[s] = (IF left[s] = 0 THEN 0 ELSE left[s] - 1)
          /\ clock' = IF clock > 0 THEN clock - 1 ELSE clock
      BY <2>1
    <3>5. Ahead' = Ahead /\ Behind' = Behind
      BY SkewConstant
    <3> QED BY <3>1, <3>2, <3>3, <3>4, <3>5
  <2> QED BY <2>2, <2>3 DEF ClockWithinSkew
<1> QED BY <1>3, <1>4, <1>5, <1>7, <1>8, <1>9, <1>10, <1>11, <1>12, <1>13, <1>14, <1>15
     DEF Next, Handler, Callback

LEMMA SpinStep ==
  ASSUME PageInv, Next
  PROVE  SpinInv'
<1> USE DEF PageInv, PageTypes, Kept, Quiet, ServerStep
<1>1. CASE "progress" \notin shown'
  BY <1>1 DEF SpinInv, SpinnerExcused
<1>2. CASE ajax'.op = "start" /\ ajax'.stage # "done"
  BY <1>2 DEF SpinInv, SpinnerExcused
<1>3. CASE ajax'.op = "start" /\ (leaving' \/ "start" \notin shown')
  BY <1>3 DEF SpinInv, SpinnerExcused
\* A request that is not for a start finds no spinner.
<1>4. ASSUME ajax.op # "start", "progress" \in shown' => "progress" \in shown
      PROVE  SpinInv'
  BY <1>1, <1>4 DEF SpinInv
<1>5. ASSUME NEW stage \in Stages, stage # "done", Proceeds(stage),
             "progress" \in shown' => "progress" \in shown
      PROVE  SpinInv'
  BY <1>2, <1>4, <1>5, Proceeded
<1>6. CASE UNCHANGED <<shown, leaving, ajax, last>>
  BY <1>6 DEF SpinInv, SpinnerExcused, OneDocument
<1>7. CASE CountSessions \/ NextExpire \/ ReadHash \/ ReadTerms
  BY <1>4, <1>7 DEF CountSessions, NextExpire, ReadHash, ReadTerms, Stage, page
<1>8. CASE AnswerInfo \/ InfoNotFound \/ StartInMaintenance \/ StartRefused \/ StartAccepted
           \/ StartFails \/ ConnectionLost \/ \E s \in Session : StartSucceeds(s)
  BY <1>5, <1>8 DEF AnswerInfo, InfoNotFound, StartInMaintenance, StartRefused, StartAccepted,
     StartFails, StartSucceeds, ConnectionLost, Stages, page
<1>9. CASE StatusUpdate \/ TextArrives \/ OnProgress
  <2>1. ajax' = ajax /\ ajax.op = "start" /\ ajax.stage # "done"
    BY <1>9 DEF StatusUpdate, TextArrives, OnProgress, Stage
  <2> QED BY <1>2, <2>1
<1>10. CASE OnStatus \/ OnTerms \/ OnError
  <2>1. ajax.op # "start"
    BY <1>10 DEF OnStatus, OnTerms, OnError, NoStatus, NoInfo, Stage
  <2>2. "progress" \in shown' => "progress" \in shown
    BY <1>10 DEF OnStatus, OnTerms, OnError, NoStatus, NoInfo, Shows
  <2> QED BY <1>4, <2>1, <2>2
<1>11. CASE OnRefusal
  <2>1. ajax.op = "start" /\ Proceeds("done") /\ "done" \in Stages
    BY <1>11 DEF OnRefusal, Complete, Stage, Done, Stages
  <2>2. leaving' \/ "start" \notin shown'
    BY <1>11 DEF OnRefusal, ReloadsOn, Refuse, Shows, Refusals
  <2> QED BY <1>3, <2>1, <2>2, Proceeded
<1>12. CASE OnGarbled
  <2>1. ajax.op = "start" /\ Proceeds("done") /\ "done" \in Stages
    BY <1>12 DEF OnGarbled, Complete, Stage, Done, Stages
  <2>2. ajax'.op = "start" /\ ~ OneDocument(last')
    BY <1>12, <2>1, Proceeded DEF OnGarbled, response, OneDocument
  <2> QED BY <2>2 DEF SpinInv, SpinnerExcused
<1>13. ASSUME NEW id, ShowSession(id)
       PROVE  SpinInv'
  <2>1. Proceeds("done") /\ "done" \in Stages /\ "start" \notin shown'
    BY <1>13 DEF ShowSession, Done, Stages, Shows, SessionPanels
  <2>2. "progress" \in shown' => "progress" \in shown
    BY <1>13 DEF ShowSession, Shows, SessionPanels
  <2> QED BY <1>3, <1>4, <2>1, <2>2, Proceeded
<1>14. CASE UpdateClock \/ GoBack
  <2>1. leaving' /\ UNCHANGED <<shown, ajax>>
    BY <1>14 DEF UpdateClock, GoBack
  <2> QED BY <1>3, <1>4, <2>1
<1>15. CASE Leave \/ Reload
  <2>1. shown' = {"accept"}
    BY <1>15, LoadedPage DEF Leave, Reload
  <2> QED BY <1>1, <2>1
<1>16. CASE Accept
  <2>1. ajax'.op = "start" /\ ajax'.stage = "sent"
    BY <1>16 DEF Accept, Request
  <2> QED BY <1>2, <2>1
<1>17. CASE ConsoleStep \/ Tick \/ Configure \/ \E s \in Session : OtherOpens(s) \/ Close(s)
  BY <1>6, <1>17 DEF ConsoleStep, Tick, Configure, Unmarshal, Rehash, WrongType, OtherOpens,
     Close, page, response
<1> QED BY <1>7, <1>8, <1>9, <1>10, <1>11, <1>12, <1>13, <1>14, <1>15, <1>16, <1>17
     DEF Next, Handler, Callback, OnInfo, OnStarted

LEMMA AddressStep ==
  ASSUME PageInv, Next
  PROVE  AddressInv'
<1> USE DEF PageInv, Kept, Quiet, ServerStep
<1>1. ASSUME UNCHANGED <<address, tryit_console>>, "info" \in shown' => "info" \in shown
      PROVE  AddressInv'
  BY <1>1 DEF AddressInv, Query
<1>2. ASSUME NEW id, ShowSession(id)
      PROVE  AddressInv'
  BY <1>2 DEF ShowSession, AddressInv
<1>3. CASE Leave \/ Reload
  <2>1. shown' = {"accept"}
    BY <1>3, LoadedPage DEF Leave, Reload
  <2> QED BY <2>1 DEF AddressInv
<1>4. CASE OnStatus \/ OnTerms \/ OnError \/ OnRefusal \/ Accept
  BY <1>1, <1>4 DEF OnStatus, OnTerms, OnError, NoStatus, NoInfo, OnRefusal, Accept,
      Shows, Refuse, Refusals
<1>5. CASE UNCHANGED <<address, tryit_console, shown>>
  BY <1>1, <1>5
<1>6. CASE Handler
  BY <1>5, <1>6 DEF Handler, CountSessions, NextExpire, ReadHash, ReadTerms, AnswerInfo,
     InfoNotFound, StartInMaintenance, StartRefused, StartAccepted, StatusUpdate,
     StartFails, StartSucceeds, page
<1>7. CASE OnProgress \/ OnGarbled \/ UpdateClock
  BY <1>5, <1>7 DEF OnProgress, OnGarbled, UpdateClock, page
<1>8. CASE TextArrives \/ ConnectionLost \/ Configure \/ ConsoleStep \/ Tick \/ GoBack
  BY <1>5, <1>8 DEF TextArrives, ConnectionLost, Configure, Unmarshal, Rehash, WrongType,
     ConsoleStep, Tick, GoBack, page
<1>9. CASE \E s \in Session : OtherOpens(s) \/ Close(s)
  BY <1>5, <1>9 DEF OtherOpens, Close, page
<1> QED BY <1>2, <1>3, <1>4, <1>6, <1>7, <1>8, <1>9 DEF Next, Callback, OnInfo, OnStarted

LEMMA PageInvInit == Init => PageInv
<1> SUFFICES ASSUME Init PROVE PageInv
  OBVIOUS
<1>1. PICK op \in {"status", "info"} : ajax = Request(op)
  BY DEF Init
<1>2. ajax.op = op /\ ajax.stage = "sent" /\ RequestTypeOK
  <2>1. Request(op) \in [op : {"status", "terms", "info", "start"},
            stage : {"sent", "read", "creating", "answered", "failed", "done"},
            down : BOOLEAN, hash : Nat, text : Nat]
    BY DEF Request
  <2> QED BY <1>1, <2>1 DEF Request, RequestTypeOK
<1>3. ServerTypeOK
  <2>1. 0 \in 0 .. Life /\ <<0, 0>> \in Nat \X Nat
    OBVIOUS
  <2>2. /\ state \in [Session -> {"none", "open", "closed"}]
        /\ left \in [Session -> 0 .. Life] /\ agreed \in [Session -> Nat \X Nat]
    BY <2>1 DEF Init, Server!Init
  <2> QED BY <2>2 DEF Init, ServerTypeOK
<1>4. PageTypeOK
  BY PanelNames DEF Init, PageTypeOK
<1>5. ResponseTypeOK
  BY DEF Init, ResponseTypeOK, Text
<1>6. HashInv
  BY <1>2 DEF Init, HashInv, TermsNotNewer
<1>7. DocsInv /\ ShownInv /\ AddressInv /\ ClockWithinSkew /\ SpinInv
  BY <1>2 DEF Init, DocsInv, ShownInv, AddressInv, ClockWithinSkew, SpinInv, SpinnerExcused, Stage
<1> QED BY <1>2, <1>3, <1>4, <1>5, <1>6, <1>7 DEF PageInv, PageTypes

LEMMA PageInvStutter == ASSUME PageInv, UNCHANGED vars PROVE PageInv'
<1> USE DEF PageInv, PageTypes, vars, server, page, response
<1>1. PageTypes'
  BY DEF ServerTypeOK, PageTypeOK, RequestTypeOK, ResponseTypeOK, Text
<1>2. HashInv' /\ DocsInv' /\ ShownInv' /\ AddressInv'
  BY DEF HashInv, TermsNotNewer, DocsInv, ShownInv, AddressInv, Query, Stage, Known
<1>3. ClockWithinSkew' /\ SpinInv'
  BY DEF ClockWithinSkew, Ahead, Behind, SpinInv, SpinnerExcused, OneDocument
<1> QED BY <1>1, <1>2, <1>3

\* The invariant of the page.
THEOREM PageInvAlways == Spec => []PageInv
<1>1. PageInv /\ [Next]_vars => PageInv'
  BY ServerTypes, ViewTypes, RequestTypes, ResponseTypes, HashStep, DocsStep, ShownStep,
     AddressStep, SpinStep, PageInvStutter DEF PageInv, PageTypes
<1> QED BY PageInvInit, <1>1, PTL DEF Spec

\* Every variable of page, server and consoles keeps its type.
THEOREM PageTypeCorrect == Spec => []TypeOK
<1>1. PageInv /\ ConsoleInv => TypeOK
  BY DEF PageInv, PageTypes, ConsoleInv, TypeOK
<1> QED BY <1>1, PageInvAlways, PageRunsConsole, ConsoleInvAlways, PTL

\* An address that names one session leads to it.
LEMMA QueryNames ==
  ASSUME NEW s, s # "/"
  PROVE  getUrlParameter(Query(<<s>>), "id") = <<s>>
<1> DEFINE query == Query(<<s>>)
           named == {i \in DOMAIN query : query[i].name = "id"}
<1>1. DOMAIN query = {1} /\ query[1].name = "id" /\ query[1].value = <<s>>
  BY DEF Query
<1>2. named = {1}
  BY <1>1
<1>3. (CHOOSE i \in named : \A j \in named : i =< j) = 1
  BY <1>2
<1>4. <<s>> # <<>> /\ Len(<<s>>) = 1 /\ <<s>>[1] = s
  OBVIOUS
<1> QED BY <1>1, <1>2, <1>3, <1>4 DEF getUrlParameter

\* What is shown as a session is one the server has opened, and the address of
\* the page leads back to it.
THEOREM AlwaysSessionShown == Spec => []SessionShown
<1>1. PageInv => SessionShown
  <2> SUFFICES ASSUME PageInv, "info" \in shown
               PROVE  /\ \E s \in Session : tryit_console = <<s>> /\ state[s] # "none"
                      /\ getUrlParameter(address, "id") = tryit_console
    BY DEF SessionShown
  <2>1. PICK s \in Session : tryit_console = <<s>> /\ state[s] # "none"
    BY DEF PageInv, ShownInv, Known
  <2>2. s # "/"
    OBVIOUS
  <2>3. address = Query(<<s>>)
    BY <2>1 DEF PageInv, AddressInv
  <2> QED BY <2>1, <2>2, <2>3, QueryNames
<1> QED BY <1>1, PageInvAlways, PTL

\* However many times the configuration is reloaded under its readers, no
\* session is recorded with terms newer than its visitor was shown.
THEOREM TermsNeverNewer == Spec => []TermsNotNewer
<1>1. PageInv => TermsNotNewer
  BY DEF PageInv, HashInv
<1> QED BY <1>1, PageInvAlways, PTL

\* The clock on the page is never further off than the clocks are.
THEOREM ClockAlwaysWithinSkew == Spec => []ClockWithinSkew
<1>1. PageInv => ClockWithinSkew
  BY DEF PageInv
<1> QED BY <1>1, PageInvAlways, PTL

\* The page hangs at its progress panel for one of two reasons only.
THEOREM SpinnerAlwaysExcused == Spec => []SpinnerExcused
<1>1. PageInv => SpinnerExcused
  BY DEF PageInv, SpinInv
<1> QED BY <1>1, PageInvAlways, PTL
=============================================================================
