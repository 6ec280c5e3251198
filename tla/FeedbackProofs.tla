--------------------------- MODULE FeedbackProofs ---------------------------
(***************************************************************************)
(* The feedback table of Feedback, for any number of posts.                *)
(***************************************************************************)
EXTENDS Feedback, SequenceTheorems, TLAPS

\* Without an overlap the table has one row or none, and while it has none at
\* most one post is about to insert.
Alone ==
  \/ overlap
  \/ rows = <<>> /\ \A p, q \in Inserting : p = q
  \/ Len(rows) = 1 /\ Inserting = {}

Inv == TypeOK /\ Alone /\ LastWriteRead

LEMMA MailTyped ==
  ASSUME NEW f \in Form
  PROVE  MailOf(f) \in [rating : BOOLEAN, email : BOOLEAN, message : BOOLEAN]
BY DEF MailOf, Form

\* An UPDATE keeps the number of the rows and makes all of them the same.
LEMMA UpdatedRows ==
  ASSUME NEW p \in Post, rows \in Seq(Post)
  PROVE  /\ Updated(p) \in Seq(Post)
         /\ Len(Updated(p)) = Len(rows)
         /\ \A i \in 1 .. Len(rows) : Updated(p)[i] = p
<1>1. Len(rows) \in Nat
  BY LenProperties
<1>2. Updated(p) \in [1 .. Len(rows) -> Post]
  BY DEF Updated
<1>3. Updated(p) \in Seq(Post)
  BY <1>1, <1>2, SeqDef
<1>4. DOMAIN Updated(p) = 1 .. Len(rows) /\ DOMAIN Updated(p) = 1 .. Len(Updated(p))
  BY <1>2, <1>3, LenProperties
<1>5. Len(Updated(p)) \in Nat
  BY <1>3, LenProperties
<1> QED BY <1>1, <1>3, <1>4, <1>5 DEF Updated

LEMMA TypeStep ==
  ASSUME Inv, [Next]_vars
  PROVE  TypeOK'
<1> USE DEF Inv
<1>1. ASSUME NEW p \in Post, \/ Submit(p) \/ Lost(p) \/ Check(p) \/ Look(p) \/ DatabaseFails(p)
      PROVE  TypeOK'
  BY <1>1 DEF TypeOK, Steps, Submit, Lost, Check, Look, DatabaseFails, Goes
<1>2. ASSUME NEW p \in Post, Insert(p)
      PROVE  TypeOK'
  BY <1>2 DEF TypeOK, Steps, Insert, Goes
<1>3. ASSUME NEW p \in Post, Update(p)
      PROVE  TypeOK'
  BY <1>3, UpdatedRows DEF TypeOK, Steps, Update, Goes
<1>4. ASSUME NEW p \in Post, Mail(p)
      PROVE  TypeOK'
  <2>1. \A f \in Form : <<p, MailOf(f)>> \in
          Post \X [rating : BOOLEAN, email : BOOLEAN, message : BOOLEAN]
    BY MailTyped
  <2> QED BY <1>4, <2>1 DEF TypeOK, Steps, Mail, Goes
<1>5. CASE WindowEnds
  BY <1>5 DEF TypeOK, WindowEnds
<1>6. CASE UNCHANGED vars
  BY <1>6 DEF TypeOK, vars
<1> QED BY <1>1, <1>2, <1>3, <1>4, <1>5, <1>6 DEF Next

LEMMA AloneStep ==
  ASSUME Inv, [Next]_vars
  PROVE  Alone'
<1> USE DEF Inv
<1>1. ASSUME NEW p \in Post,
             Submit(p) \/ Lost(p) \/ Check(p) \/ DatabaseFails(p) \/ Mail(p)
      PROVE  Alone'
  <2>1. UNCHANGED <<rows, overlap>> /\ Inserting' \subseteq Inserting
    BY <1>1 DEF TypeOK, Inserting, Submit, Lost, Check, DatabaseFails, Mail, Goes
  <2> QED BY <2>1 DEF Alone
<1>2. ASSUME NEW p \in Post, Look(p), rows = <<>>
      PROVE  Alone'
  <2>1. Inserting' = Inserting \cup {p} /\ rows' = <<>>
    BY <1>2 DEF TypeOK, Inserting, Look, Goes
  <2>2. overlap' = (overlap \/ Inserting # {})
    BY <1>2 DEF Look
  <2> QED BY <2>1, <2>2 DEF Alone
<1>3. ASSUME NEW p \in Post, Look(p), rows # <<>>
      PROVE  Alone'
  <2>1. Inserting' = Inserting /\ rows' = rows
    BY <1>3 DEF TypeOK, Inserting, Look, Goes
  <2>2. overlap => overlap'
    BY <1>3 DEF Look
  <2> QED BY <1>3, <2>1, <2>2 DEF Alone
<1>4. ASSUME NEW p \in Post, Insert(p)
      PROVE  Alone'
  <2>1. p \in Inserting /\ Inserting' = Inserting \ {p}
    BY <1>4 DEF TypeOK, Inserting, Insert, Goes
  <2>2. rows' = Append(rows, p) /\ overlap' = overlap
    BY <1>4 DEF Insert
  <2>3. rows = <<>> => Len(rows') = 1
    BY <2>2
  <2> QED BY <2>1, <2>2, <2>3 DEF Alone
<1>5. ASSUME NEW p \in Post, Update(p)
      PROVE  Alone'
  <2>1. Inserting' = Inserting /\ overlap' = overlap
    BY <1>5 DEF TypeOK, Inserting, Update, Goes
  <2>2. rows' \in Seq(Post) /\ Len(rows') = Len(rows)
    BY <1>5, UpdatedRows DEF TypeOK, Update
  <2>3. rows = <<>> => rows' = <<>>
    BY <2>2, EmptySeq
  <2> QED BY <2>1, <2>2, <2>3 DEF Alone
<1>6. CASE WindowEnds
  BY <1>6 DEF Alone, Inserting, WindowEnds
<1>7. CASE UNCHANGED vars
  BY <1>7 DEF Alone, Inserting, vars
<1> QED BY <1>1, <1>2, <1>3, <1>4, <1>5, <1>6, <1>7 DEF Next

LEMMA LastWriteStep ==
  ASSUME Inv, [Next]_vars
  PROVE  LastWriteRead'
<1> USE DEF Inv, LastWriteRead, dbGetFeedback
<1>1. ASSUME NEW p \in Post,
             \/ Submit(p) \/ Lost(p) \/ Check(p) \/ Look(p) \/ DatabaseFails(p) \/ Mail(p)
      PROVE  LastWriteRead'
  BY <1>1 DEF Submit, Lost, Check, Look, DatabaseFails, Mail
<1>2. ASSUME NEW p \in Post, Insert(p)
      PROVE  LastWriteRead'
  <2>1. rows' = Append(rows, p) /\ latest' = <<p>>
    BY <1>2 DEF Insert
  <2>2. Len(rows') = Len(rows) + 1 /\ rows'[Len(rows) + 1] = p
    BY <2>1 DEF TypeOK
  <2> QED BY <2>1, <2>2
<1>3. ASSUME NEW p \in Post, Update(p)
      PROVE  LastWriteRead'
  <2>1. rows' = Updated(p) /\ latest' = <<p>>
    BY <1>3 DEF Update
  <2>2. rows' \in Seq(Post) /\ Len(rows') = Len(rows)
        /\ \A i \in 1 .. Len(rows) : rows'[i] = p
    BY <2>1, UpdatedRows DEF TypeOK
  <2>3. rows' # <<>> => Len(rows') \in 1 .. Len(rows)
    BY <2>2, EmptySeq
  <2> QED BY <2>1, <2>2, <2>3
<1>4. CASE WindowEnds
  BY <1>4 DEF WindowEnds
<1>5. CASE UNCHANGED vars
  BY <1>5 DEF vars
<1> QED BY <1>1, <1>2, <1>3, <1>4, <1>5 DEF Next

LEMMA InvAlways == Spec => []Inv
<1>1. Init => Inv
  <2> SUFFICES ASSUME Init PROVE Inv
    OBVIOUS
  <2>1. TypeOK
    BY EmptySeq DEF Init, TypeOK, Steps
  <2>2. Alone
    BY DEF Init, Alone, Inserting
  <2>3. LastWriteRead
    BY DEF Init, LastWriteRead
  <2> QED BY <2>1, <2>2, <2>3 DEF Inv
<1>2. Inv /\ [Next]_vars => Inv'
  BY TypeStep, AloneStep, LastWriteStep DEF Inv
<1> QED BY <1>1, <1>2, PTL DEF Spec

\* Every variable keeps its type.
THEOREM TypeCorrect == Spec => []TypeOK
BY InvAlways, PTL DEF Inv

\* However many posts overlap, the row that is read is the one written last.
THEOREM LastWriteAlwaysRead == Spec => []LastWriteRead
BY InvAlways, PTL DEF Inv

\* A second row takes two posts that looked before either had inserted.
THEOREM SecondRowNeedsOverlap == Spec => []OneRow
<1>1. rows = <<>> \/ Len(rows) = 1 => Len(rows) =< 1
  <2>1. rows = <<>> => Len(rows) = 0
    OBVIOUS
  <2>2. \A n \in {0, 1} : n =< 1
    OBVIOUS
  <2> QED BY <2>1, <2>2
<1>2. Inv => OneRow
  BY <1>1 DEF Inv, Alone, OneRow
<1> QED BY <1>2, InvAlways, PTL
=============================================================================
