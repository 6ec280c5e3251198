------------------------------ MODULE Feedback ------------------------------
(***************************************************************************)
(* The feedback on one session: the form of static/js/tryit.js, the        *)
(* handler of api_feedback.go, the table of db.go and the mail.  A post is *)
(* one submission: a page shows the form until it is submitted, but other  *)
(* pages of the session, or the same one reloaded, show it again.  The     *)
(* page has no callback for the answer, so posts overlap freely.           *)
(***************************************************************************)
EXTENDS Integers, Sequences

CONSTANTS Post,       \* submissions
          Faults      \* subset of {"lost", "db"}

\* The page sends 0 to 5 stars and a checkbox of 0 or 1; the handler decodes any
\* integer, of which the mail tells the signs apart.
Form == [rating : {-1, 0, 1}, email : BOOLEAN, use : {-1, 0, 1}, message : BOOLEAN]

VARIABLES
  pc,        \* where each post is
  window,    \* now is not past expiry + timeout, and feedback is enabled
  rows,      \* rows of the feedback table for the session, by the post they hold
  mails,     \* sent mails: the post, and whether the address is in it
  latest,    \* history: the post written last, <<>> before the first
  overlap    \* history: two posts found no row before either wrote one

vars == <<pc, window, rows, mails, latest, overlap>>

Steps == {"form", "sent", "checked", "insert", "update", "mail", "done"}

Init ==
  /\ pc = [p \in Post |-> "form"]
  /\ window = TRUE
  /\ rows = <<>> /\ mails = {} /\ latest = <<>> /\ overlap = FALSE

Goes(p, step) == pc' = [pc EXCEPT ![p] = step]

\* The panel is hidden whatever becomes of the request.
Submit(p) ==
  /\ pc[p] = "form"
  /\ Goes(p, "sent")
  /\ UNCHANGED <<window, rows, mails, latest, overlap>>

Lost(p) ==
  /\ "lost" \in Faults /\ pc[p] = "sent"
  /\ Goes(p, "done")
  /\ UNCHANGED <<window, rows, mails, latest, overlap>>

Check(p) ==
  /\ pc[p] = "sent"
  /\ Goes(p, IF window THEN "checked" ELSE "done")
  /\ UNCHANGED <<window, rows, mails, latest, overlap>>

WindowEnds ==
  /\ window /\ window' = FALSE
  /\ UNCHANGED <<pc, rows, mails, latest, overlap>>

Inserting == {p \in Post : pc[p] = "insert"}

\* Broken definitions: see DemoServer.
BrokenLook(p) ==
  /\ pc[p] = "checked"
  /\ Goes(p, "insert")
  /\ UNCHANGED <<window, rows, mails, latest, overlap>>

\* dbRecordFeedback reads the row of the session, to insert one or change it.
Look(p) ==
  /\ pc[p] = "checked"
  /\ Goes(p, IF rows = <<>> THEN "insert" ELSE "update")
  /\ overlap' = (overlap \/ (rows = <<>> /\ Inserting # {}))
  /\ UNCHANGED <<window, rows, mails, latest>>

Insert(p) ==
  /\ pc[p] = "insert"
  /\ rows' = Append(rows, p)
  /\ latest' = <<p>>
  /\ Goes(p, "mail")
  /\ UNCHANGED <<window, mails, overlap>>

\* UPDATE ... WHERE session_id=?
Updated(p) == [i \in 1 .. Len(rows) |-> p]

Update(p) ==
  /\ pc[p] = "update"
  /\ rows' = Updated(p)
  /\ latest' = <<p>>
  /\ Goes(p, "mail")
  /\ UNCHANGED <<window, mails, overlap>>

DatabaseFails(p) ==
  /\ "db" \in Faults /\ pc[p] \in {"checked", "insert", "update"}
  /\ Goes(p, "done")
  /\ UNCHANGED <<window, rows, mails, latest, overlap>>

\* emailFeedback: what has nothing to say is not sent, and the address is only
\* in the mail with the consent of its owner.  The two tests differ on a negative
\* number: it is something to say, and then it is left out.
SaysNothing(f) == (~ f.email \/ f.use = 0) /\ f.rating = 0 /\ ~ f.message

BrokenWholeForm(f) == f

MailOf(f) == [rating |-> f.rating > 0, email |-> f.use > 0 /\ f.email, message |-> f.message]

\* Nothing looks at what a post holds before its mail, so it is chosen here.
Mail(p) ==
  /\ pc[p] = "mail"
  /\ \E f \in Form :
       mails' = IF SaysNothing(f) THEN mails ELSE mails \cup {<<p, MailOf(f)>>}
  /\ Goes(p, "done")
  /\ UNCHANGED <<window, rows, latest, overlap>>

Next == \/ WindowEnds
        \/ \E p \in Post : \/ Submit(p) \/ Lost(p) \/ Check(p) \/ Look(p) \/ Insert(p)
                           \/ Update(p) \/ DatabaseFails(p) \/ Mail(p)

Spec == Init /\ [][Next]_vars

BrokenGetFeedback == rows[1]

\* dbGetFeedback keeps the last row it is given.
dbGetFeedback == rows[Len(rows)]
-----------------------------------------------------------------------------
TypeOK ==
  /\ pc \in [Post -> Steps]
  /\ window \in BOOLEAN /\ overlap \in BOOLEAN
  /\ rows \in Seq(Post) /\ latest \in Seq(Post)
  /\ mails \subseteq Post \X [rating : BOOLEAN, email : BOOLEAN, message : BOOLEAN]

\* Whatever posts overlap and however many rows they make, the feedback that is
\* read is the one written last (db.go:212-214, 254, 271).
LastWriteRead == rows # <<>> => dbGetFeedback = latest[1]

\* A session gets a second row only when two posts look for the first before
\* either has inserted it (db.go:247-255).
OneRow == Len(rows) =< 1 \/ overlap
=============================================================================
