---------------------------- MODULE Reviews_proofs ----------------------------
(***************************************************************************)
(* The theorems about Reviews: what is published, which link works and how *)
(* often the sweeps ask, for any requests, texts, reasons and bounds.      *)
(***************************************************************************)
EXTENDS Reviews, FiniteSetTheorems, TLAPS

\* A request holds a new link until it has dealt with the mail.
InHand == \A r \in Request : /\ link[r] # 0 <=> at[r] = "mail"
                             /\ at[r] = "mail" => row.made

\* A row that was read exists: rows are not deleted.
CopyMade ==
  \A r \in Request : /\ copy[r].made => row.made
                     /\ at[r] \in {"submit", "moderate"} => copy[r].made

\* A submission goes by a copy that has no answer, and such a row has none.
CopyBlank ==
  \A r \in Request : at[r] = "submit" =>
    ~copy[r].submitted /\ copy[r].text = NoText /\ ~copy[r].consent

Unanswered == ~row.submitted => row.text = NoText /\ ~row.consent

\* Published or not.
ConsentGiven == row.consent => doubled \/ row.text \in consented

\* A link that is no longer the row's had its mail under way when the row got
\* its own.
TokenSent ==
  /\ row.made => row.token # 0
  /\ newest # 0 => row.made
  /\ NewestMailWorks
  /\ \A r \in Request : at[r] = "mail" => link[r] = row.token \/ crossed

\* Every sweep under way has at most one mail to send.
SweepsOnce ==
  /\ Cardinality(sweeping) <= rivals
  /\ IF row.made THEN asked + Cardinality(sweeping) <= rivals ELSE asked = 0

IInv == /\ TypeOK
        /\ InHand /\ CopyMade /\ CopyBlank
        /\ Unanswered /\ ConsentGiven /\ DecisionIsWhole
        /\ TokenSent /\ SweepsOnce

-----------------------------------------------------------------------------
(* Rows and copies *)

LEMMA BlankTyped == Blank \in Row
BY BoundAssumption DEF Blank, Row

\* submitReview writes over whatever the row is by then.
LEMMA SaveAnswer ==
  ASSUME NEW now \in Row, NEW read \in Row, NEW f \in Form,
         ~read.submitted, read.text = NoText, ~read.consent,
         NEW written,
         written = Save(now, read, [text |-> f.text, consent |-> f.consent,
                                    submitted |-> TRUE])
  PROVE  /\ written \in Row
         /\ written.made = now.made /\ written.token = now.token
         /\ written.text = f.text /\ written.submitted
         /\ written.consent => f.consent \/ now.consent
         /\ written.moderated = now.moderated
         /\ written.published = now.published /\ written.reason = now.reason
  BY TextAssumption DEF Save, Row, Form

\* So does moderateReview.
LEMMA SaveDecision ==
  ASSUME NEW now \in Row, NEW read \in Row,
         NEW p \in BOOLEAN, NEW why \in Reason \cup {NoReason},
         NEW written,
         written = Save(now, read, [published |-> p, moderated |-> TRUE,
                                    reason |-> why])
  PROVE  /\ written \in Row
         /\ written.made = now.made /\ written.token = now.token
         /\ written.text = now.text /\ written.submitted = now.submitted
         /\ written.consent = now.consent
         /\ (now.published = read.published) => written.published = p
         /\ (now.reason = read.reason) => written.reason = why
  BY DEF Save, Row

\* A new invitation, and its expiry.
LEMMA Reissued ==
  ASSUME NEW now \in Row, NEW n \in 0..MaxTokens
  PROVE  LET new == [now EXCEPT !.token = n, !.expired = FALSE]
         IN  /\ new \in Row /\ new.made = now.made /\ new.token = n
             /\ new.submitted = now.submitted /\ new.text = now.text
             /\ new.consent = now.consent /\ new.moderated = now.moderated
             /\ new.published = now.published /\ new.reason = now.reason
  BY DEF Row

LEMMA Expired ==
  ASSUME NEW now \in Row
  PROVE  LET new == [now EXCEPT !.expired = TRUE]
         IN  /\ new \in Row /\ new.made = now.made /\ new.token = now.token
             /\ new.submitted = now.submitted /\ new.text = now.text
             /\ new.consent = now.consent /\ new.moderated = now.moderated
             /\ new.published = now.published /\ new.reason = now.reason
  BY DEF Row

LEMMA Created ==
  ASSUME NEW n \in 0..MaxTokens
  PROVE  LET new == [Blank EXCEPT !.made = TRUE, !.token = n]
         IN  /\ new \in Row /\ new.made /\ new.token = n
             /\ ~new.submitted /\ new.text = NoText /\ ~new.consent
             /\ ~new.moderated
<1>1. ASSUME NEW old \in Row
      PROVE  LET new == [old EXCEPT !.made = TRUE, !.token = n]
             IN  /\ new \in Row /\ new.made /\ new.token = n
                 /\ new.submitted = old.submitted /\ new.text = old.text
                 /\ new.consent = old.consent /\ new.moderated = old.moderated
  BY DEF Row
<1>2. /\ ~Blank.submitted /\ Blank.text = NoText /\ ~Blank.consent
      /\ ~Blank.moderated
  BY DEF Blank
<1> QED  BY <1>1, <1>2, BlankTyped

-----------------------------------------------------------------------------
(* The requests' own variables *)

RequestTyped == /\ at \in [Request -> Step] /\ copy \in [Request -> Row]
                /\ link \in [Request -> 0..minted] /\ sweeping \subseteq Sweep

Alone(r) == \A q \in Request \ {r} : /\ at'[q] = at[q] /\ copy'[q] = copy[q]
                                     /\ link'[q] = link[q]

LEMMA DoneTyped ==
  ASSUME TypeOK, NEW r \in Request, Done(r), minted' = minted
  PROVE  /\ RequestTyped' /\ Alone(r) /\ at'[r] = "idle" /\ link'[r] = 0
         /\ ~copy'[r].made /\ sweeping' = sweeping \ {r}
<1>1. ~Blank.made  BY DEF Blank
<1>2. 0 \in 0..minted  BY BoundAssumption DEF TypeOK
<1> QED
  BY <1>1, <1>2, BlankTyped DEF TypeOK, Done, RequestTyped, Alone, Step

LEMMA ReadTyped ==
  ASSUME TypeOK, NEW r \in Request, NEW there \in Step, Read(r, there),
         minted' = minted, link' = link, sweeping' = sweeping
  PROVE  /\ RequestTyped' /\ Alone(r) /\ at'[r] = there
         /\ copy'[r].made = row.made
         /\ there = "submit" => /\ copy'[r].submitted = row.submitted
                                /\ copy'[r].text = row.text
                                /\ copy'[r].consent = row.consent
<1> DEFINE text == IF there = "submit" THEN row.text ELSE NoText
           seen == IF there = "issue" THEN [Blank EXCEPT !.made = row.made]
                   ELSE [row EXCEPT !.token = 0, !.expired = FALSE,
                                    !.text = text]
<1>1. /\ seen \in Row /\ seen.made = row.made
      /\ there = "submit" => /\ seen.submitted = row.submitted
                             /\ seen.text = row.text /\ seen.consent = row.consent
  <2>1. /\ row \in Row /\ row.made \in BOOLEAN /\ 0 \in 0..MaxTokens
        /\ text \in Text \cup {NoText}
    BY BoundAssumption DEF TypeOK, Row
  <2>2. ASSUME NEW old \in Row, NEW b \in BOOLEAN
        PROVE  LET new == [old EXCEPT !.made = b]
               IN  new \in Row /\ new.made = b
    BY DEF Row
  <2>3. CASE there = "issue"  BY <2>1, <2>2, <2>3, BlankTyped
  <2>4. ASSUME NEW old \in Row, NEW t \in Text \cup {NoText}
        PROVE  LET new == [old EXCEPT !.token = 0, !.expired = FALSE, !.text = t]
               IN  /\ new \in Row /\ new.made = old.made
                   /\ new.submitted = old.submitted
                   /\ new.text = t /\ new.consent = old.consent
    BY <2>1 DEF Row
  <2>5. CASE there # "issue"
    <3>1. there = "submit" => text = row.text  OBVIOUS
    <3> HIDE DEF text
    <3> QED  BY <2>1, <2>4, <2>5, <3>1
  <2> QED  BY <2>3, <2>5
<1>2. /\ at' = [at EXCEPT ![r] = there] /\ copy' = [copy EXCEPT ![r] = seen]
  BY DEF Read
<1> HIDE DEF seen
<1> QED  BY <1>1, <1>2 DEF TypeOK, RequestTyped, Alone

-----------------------------------------------------------------------------
(* How many sweeps are under way *)

LEMMA Counting ==
  ASSUME TypeOK
  PROVE  /\ Cardinality(sweeping) \in Nat
         /\ \A gone : /\ Cardinality(sweeping \ gone) \in Nat
                      /\ Cardinality(sweeping \ gone) <= Cardinality(sweeping)
         /\ \A s : /\ Cardinality(sweeping \cup {s}) \in Nat
                   /\ s \in sweeping =>
                        Cardinality(sweeping \ {s}) = Cardinality(sweeping) - 1
<1>1. IsFiniteSet(sweeping)
  <2>1. sweeping \in SUBSET Sweep  BY DEF TypeOK
  <2> QED  BY <2>1, SweepAssumption, FS_Subset
<1>2. Cardinality(sweeping) \in Nat  BY <1>1, FS_CardinalityType
<1>3. ASSUME NEW gone
      PROVE  /\ Cardinality(sweeping \ gone) \in Nat
             /\ Cardinality(sweeping \ gone) <= Cardinality(sweeping)
  <2>1. sweeping \ gone \in SUBSET sweeping  OBVIOUS
  <2>2. IsFiniteSet(sweeping \ gone)  BY <1>1, <2>1, FS_Subset
  <2> QED  BY <1>1, <2>1, <2>2, FS_Subset, FS_CardinalityType
<1>4. ASSUME NEW s
      PROVE  /\ Cardinality(sweeping \cup {s}) \in Nat
             /\ s \in sweeping =>
                  Cardinality(sweeping \ {s}) = Cardinality(sweeping) - 1
  <2>1. IsFiniteSet(sweeping \cup {s})  BY <1>1, FS_AddElement
  <2> QED  BY <1>1, <2>1, FS_CardinalityType, FS_RemoveElement
<1> QED  BY <1>2, <1>3, <1>4

\* Sweeps that end, or die, ask no more.
LEMMA SweepsEnd ==
  ASSUME TypeOK, SweepsOnce, NEW gone, sweeping' = sweeping \ gone,
         row'.made = row.made, asked' = asked, rivals' = rivals
  PROVE  SweepsOnce'
<1>1. /\ Cardinality(sweeping) \in Nat /\ Cardinality(sweeping') \in Nat
      /\ Cardinality(sweeping') <= Cardinality(sweeping)
  BY Counting
<1> QED  BY <1>1 DEF SweepsOnce, TypeOK

-----------------------------------------------------------------------------
(* Steps that do not write the row *)

LEMMA AsideKeeps ==
  ASSUME IInv, NEW r \in Request, Alone(r), TypeOK',
         UNCHANGED <<row, consented, doubled, contested, crossed>>,
         link'[r] = 0, at'[r] # "mail",
         copy'[r].made => row.made,
         at'[r] \in {"submit", "moderate"} => copy'[r].made,
         at'[r] = "submit" => /\ ~copy'[r].submitted /\ copy'[r].text = NoText
                              /\ ~copy'[r].consent,
         unsent \subseteq unsent',
         newest' = newest \/ (newest' = link[r] /\ at[r] = "mail"),
         link[r] # 0 => link[r] \in unsent' \/ newest' = link[r],
         SweepsOnce'
  PROVE  IInv'
<1> USE DEF IInv
<1>1. InHand'  BY DEF InHand, Alone
<1>2. CopyMade'  BY DEF CopyMade, Alone
<1>3. CopyBlank'  BY DEF CopyBlank, Alone
<1>4. Unanswered' /\ ConsentGiven' /\ DecisionIsWhole'
  BY DEF Unanswered, ConsentGiven, DecisionIsWhole
<1>5. TokenSent'
  <2>1. (newest' # 0 => row.made) /\ (row.made => row.token # 0)
    BY DEF TokenSent, InHand
  <2>2. \A q \in Request : at'[q] = "mail" => link'[q] = row.token \/ crossed
    BY DEF TokenSent, Alone
  <2>3. ASSUME newest' # 0, row.token \notin unsent', row.token # newest', ~crossed
        PROVE  \E q \in Request : link'[q] = row.token
    <3>1. newest' = newest  BY <2>3 DEF TokenSent
    <3>2. row.token # 0  BY <2>1, <2>3
    <3>3. PICK q \in Request : link[q] = row.token
      BY <2>3, <3>1 DEF TokenSent, NewestMailWorks, OnItsWay
    <3>4. q # r  BY <2>3, <3>2, <3>3
    <3> QED  BY <3>3, <3>4 DEF Alone
  <2> QED  BY <2>1, <2>2, <2>3 DEF TokenSent, NewestMailWorks, OnItsWay
<1> QED  BY <1>1, <1>2, <1>3, <1>4, <1>5

\* The reads: by an admin, by the borrower's link, by a moderator.
LEMMA ReadingKeeps ==
  ASSUME IInv, NEW r \in Request,
         SendReviewInvitation(r) \/ GetByToken(r) \/ FindByPk(r)
  PROVE  IInv' /\ row' = row
<1> USE DEF IInv
<1>1. /\ at[r] = "idle"
      /\ UNCHANGED <<row, age, minted, mailVars, sweeping, link, historyVars>>
  BY DEF SendReviewInvitation, GetByToken, FindByPk
<1>3. PICK step \in {"issue", "submit", "moderate"} :
        /\ Read(r, step)
        /\ step = "submit" => ~row.submitted /\ row.token \in mailed
        /\ step = "moderate" => row.submitted
  BY DEF SendReviewInvitation, GetByToken, FindByPk
<1>4. /\ RequestTyped' /\ Alone(r) /\ at'[r] = step
      /\ copy'[r].made = row.made
      /\ step = "submit" => /\ copy'[r].submitted = row.submitted
                            /\ copy'[r].text = row.text
                            /\ copy'[r].consent = row.consent
  BY <1>1, <1>3, ReadTyped DEF Step
<1>5. TypeOK'
  BY <1>1, <1>4 DEF TypeOK, RequestTyped, mailVars, historyVars
<1>6. step # "issue" => row.made
  <2>1. ~Blank.submitted /\ Blank.token = 0 /\ 0 \notin mailed
    BY BoundAssumption DEF Blank, TypeOK
  <2> QED  BY <1>3, <2>1 DEF TypeOK
<1>7. link[r] = 0 /\ link'[r] = 0  BY <1>1 DEF InHand
<1>8. SweepsOnce'  BY <1>1 DEF SweepsOnce, mailVars, historyVars
<1>9. UNCHANGED <<row, consented, doubled, contested, crossed, newest, unsent>>
  BY <1>1 DEF mailVars, historyVars
<1>10. step = "submit" => /\ ~copy'[r].submitted /\ copy'[r].text = NoText
                          /\ ~copy'[r].consent
  BY <1>3, <1>4 DEF Unanswered
<1> QED  BY <1>4, <1>5, <1>6, <1>7, <1>8, <1>9, <1>10, AsideKeeps

\* The sweeps' reads.
LEMMA SweepKeeps ==
  ASSUME IInv, NEW s \in Request,
         (s \in Sweep /\ SendDueReviewRequests(s)) \/ Reread(s)
  PROVE  IInv' /\ row' = row
<1> USE DEF IInv
<1>1. /\ UNCHANGED <<row, age, minted, mailVars, consented, doubled, contested,
                     crossed, deaths>>
      /\ at[s] \in {"idle", "find"}
  BY DEF SendDueReviewRequests, TakeUp, Reread, historyVars
<1>2. link[s] = 0  BY <1>1 DEF InHand
<1>3. CASE s \in Sweep /\ SendDueReviewRequests(s)
  <2>1. /\ RequestTyped' /\ Alone(s) /\ at'[s] = "find"
        /\ UNCHANGED <<copy, link>>
        /\ sweeping' = sweeping \cup {s}
        /\ ~row.made
    BY <1>1, <1>3
    DEF SendDueReviewRequests, TakeUp, TypeOK, RequestTyped, Alone, Step
  <2>2. /\ Cardinality(sweeping') \in Nat
        /\ rivals' = IF Cardinality(sweeping') > rivals
                     THEN Cardinality(sweeping') ELSE rivals
    BY <1>3, <2>1, Counting DEF SendDueReviewRequests, TakeUp
  <2>3. TypeOK' /\ rivals' \in Nat /\ Cardinality(sweeping') <= rivals'
    BY <1>1, <2>1, <2>2 DEF TypeOK, RequestTyped, mailVars
  <2>4. SweepsOnce'  BY <1>1, <2>1, <2>3 DEF SweepsOnce, mailVars
  <2>5. /\ copy'[s].made => row.made
        /\ link'[s] = 0
        /\ UNCHANGED <<newest, unsent>>
    BY <1>1, <1>2, <2>1 DEF CopyMade, mailVars
  <2> QED  BY <1>1, <1>2, <2>1, <2>3, <2>4, <2>5, AsideKeeps
<1>4. CASE Reread(s)
  <2>1. /\ RequestTyped' /\ Alone(s) /\ link'[s] = 0
        /\ at'[s] = "idle" \/ at'[s] = "issue"
        /\ copy'[s].made => row.made
        /\ \E gone : sweeping' = sweeping \ gone
    <3>1. CASE Done(s)  BY <1>1, <3>1, DoneTyped
    <3>2. CASE Read(s, "issue") /\ UNCHANGED <<sweeping, link>>
      <4>1. sweeping' = sweeping \ {}  BY <3>2
      <4> QED  BY <1>1, <1>2, <3>2, <4>1, ReadTyped DEF Step
    <3> QED  BY <1>4, <3>1, <3>2 DEF Reread
  <2>2. UNCHANGED <<asked, newest, unsent, rivals>>
    BY <1>1, <1>4 DEF Reread, mailVars, historyVars
  <2>3. TypeOK'  BY <1>1, <2>1, <2>2 DEF TypeOK, RequestTyped, mailVars
  <2>4. SweepsOnce'  BY <1>1, <2>1, <2>2, SweepsEnd
  <2>5. at'[s] \notin {"submit", "moderate", "mail"}  BY <2>1
  <2> QED  BY <1>1, <1>2, <2>1, <2>2, <2>3, <2>4, <2>5, AsideKeeps
<1> QED  BY <1>3, <1>4

\* The end of an invitation: refused, mailed, or not mailed.
LEMMA MailKeeps ==
  ASSUME IInv, NEW r \in Request,
         CreateRefused(r) \/ SendReviewInvitationEmail(r) \/ MailDoesNotGo(r)
  PROVE  IInv' /\ row' = row
<1> USE DEF IInv
<1>1. /\ Done(r) /\ at[r] \in {"issue", "mail"}
      /\ UNCHANGED <<row, age, minted, historyVars>>
  BY DEF CreateRefused, SendReviewInvitationEmail, MailDoesNotGo
<1>2. /\ RequestTyped' /\ Alone(r) /\ at'[r] = "idle" /\ link'[r] = 0
      /\ ~copy'[r].made /\ sweeping' = sweeping \ {r}
  BY <1>1, DoneTyped
<1>3. at[r] = "mail" => link[r] \in 1..minted
  <2>1. link[r] \in 0..minted /\ minted \in Nat
    BY BoundAssumption DEF TypeOK
  <2> QED  BY <2>1 DEF InHand
<1>4. /\ mailed \subseteq mailed' /\ mailed' \subseteq 1..minted
      /\ unsent \subseteq unsent' /\ unsent' \subseteq 1..minted
      /\ newest' \in mailed' \cup {0}
      /\ newest' = newest \/ (newest' = link[r] /\ at[r] = "mail")
      /\ link[r] # 0 => link[r] \in unsent' \/ newest' = link[r]
  BY <1>3 DEF CreateRefused, SendReviewInvitationEmail, MailDoesNotGo,
              mailVars, TypeOK, InHand
<1>5. \/ asked' = asked
      \/ asked' = asked + 1 /\ r \in sweeping /\ at[r] = "mail"
  BY DEF CreateRefused, SendReviewInvitationEmail, MailDoesNotGo, mailVars
<1>6. TypeOK'  BY <1>1, <1>2, <1>4, <1>5 DEF TypeOK, RequestTyped, historyVars
<1>7. SweepsOnce'
  <2>1. CASE asked' = asked
    BY <1>1, <1>2, <2>1, SweepsEnd DEF historyVars
  <2>2. CASE asked' = asked + 1 /\ r \in sweeping /\ at[r] = "mail"
    <3>1. row.made  BY <2>2 DEF InHand
    <3>2. /\ Cardinality(sweeping) \in Nat
          /\ Cardinality(sweeping') = Cardinality(sweeping) - 1
      BY <1>2, <2>2, Counting
    <3> QED
      BY <1>1, <2>2, <3>1, <3>2 DEF SweepsOnce, historyVars, TypeOK
  <2> QED  BY <1>5, <2>1, <2>2
<1>8. UNCHANGED <<row, consented, doubled, contested, crossed>>
  BY <1>1 DEF historyVars
<1> QED  BY <1>2, <1>4, <1>6, <1>7, <1>8, AsideKeeps

-----------------------------------------------------------------------------
(* Steps that write the row *)

\* A new link: of a row that was there, or with the row.
LEMMA IssueKeeps ==
  ASSUME IInv, NEW r \in Request, IssueForApplication(r)
  PROVE  /\ IInv'
         /\ row.submitted => row'.text = row.text /\ row'.consent = row.consent
<1> USE DEF IInv
<1> DEFINE n == minted + 1
<1>1. /\ at[r] = "issue" /\ n \in 1..MaxTokens /\ minted' = n /\ minted \in Nat
      /\ link' = [link EXCEPT ![r] = n]
      /\ copy' = [copy EXCEPT ![r] = Blank] /\ at' = [at EXCEPT ![r] = "mail"]
      /\ crossed' = \E q \in Request : at[q] = "mail"
      /\ UNCHANGED <<age, mailVars, sweeping, consented, doubled, contested,
                     rivals, deaths>>
  BY BoundAssumption DEF IssueForApplication, NewLink, TypeOK
<1>2. /\ RequestTyped' /\ Alone(r) /\ at'[r] = "mail" /\ link'[r] = n
      /\ ~copy'[r].made
  <2>1. ~Blank.made  BY DEF Blank
  <2>2. 0..minted \subseteq 0..n /\ n \in 0..n  BY <1>1
  <2> HIDE DEF n
  <2> QED  BY <1>1, <2>1, <2>2, BlankTyped DEF TypeOK, RequestTyped, Alone, Step
<1>3. /\ row' \in Row /\ row'.made /\ row'.token = n
      /\ \/ /\ row.made
            /\ row'.submitted = row.submitted /\ row'.text = row.text
            /\ row'.consent = row.consent /\ row'.moderated = row.moderated
            /\ row'.published = row.published /\ row'.reason = row.reason
         \/ /\ ~row.made
            /\ ~row'.submitted /\ row'.text = NoText /\ ~row'.consent
            /\ ~row'.moderated
  <2>1. row \in Row /\ n \in 0..MaxTokens  BY <1>1 DEF TypeOK
  <2>2. CASE copy[r].made /\ row' = [row EXCEPT !.token = n, !.expired = FALSE]
    <3>1. row.made  BY <2>2 DEF CopyMade
    <3> HIDE DEF n
    <3> QED  BY <2>1, <2>2, <3>1, Reissued
  <2>3. CASE ~row.made /\ row' = [Blank EXCEPT !.made = TRUE, !.token = n]
    <3> HIDE DEF n
    <3> QED  BY <2>1, <2>3, Created
  <2> QED  BY <2>2, <2>3 DEF IssueForApplication, StoreLink, Replaced
<1>4. TypeOK'
  <2>1. 1..minted \subseteq 1..minted'  BY <1>1
  <2>2. minted' \in 0..MaxTokens  BY <1>1
  <2> HIDE DEF n
  <2>3. crossed' \in BOOLEAN  BY <1>1
  <2> QED
    BY <1>1, <1>2, <1>3, <2>1, <2>2, <2>3 DEF TypeOK, RequestTyped, mailVars
<1>5. n # 0  BY <1>1
<1> HIDE DEF n
<1>6. InHand'  BY <1>2, <1>3, <1>5 DEF InHand, Alone
<1>7. CopyMade' /\ CopyBlank'  BY <1>2, <1>3 DEF CopyMade, CopyBlank, Alone
<1>8. Unanswered' /\ ConsentGiven' /\ DecisionIsWhole'
  BY <1>1, <1>3 DEF Unanswered, ConsentGiven, DecisionIsWhole
<1>9. TokenSent'
  <2>1. \A q \in Request : at'[q] = "mail" => link'[q] = row'.token \/ crossed'
    BY <1>1, <1>2, <1>3 DEF Alone
  <2>2. NewestMailWorks'
    BY <1>2, <1>3 DEF NewestMailWorks, OnItsWay
  <2> QED  BY <1>3, <1>5, <2>1, <2>2 DEF TokenSent
<1>10. SweepsOnce'
  <2>1. Cardinality(sweeping) \in Nat  BY Counting
  <2> QED  BY <1>1, <1>3, <2>1 DEF SweepsOnce, mailVars, TypeOK
<1>11. row.submitted => row.made
  <2>1. ~Blank.submitted  BY DEF Blank
  <2> QED  BY <2>1 DEF TypeOK
<1> QED  BY <1>3, <1>4, <1>6, <1>7, <1>8, <1>9, <1>10, <1>11

\* An answer or a decision, whose writes keep the link and the row.
LEMMA WritesKeep ==
  ASSUME IInv, NEW r \in Request, Done(r), at[r] \in {"submit", "moderate"},
         UNCHANGED <<age, minted, mailVars, crossed, rivals, deaths>>,
         row' \in Row, row'.made = row.made, row'.token = row.token,
         consented' \subseteq Text, doubled' \in BOOLEAN, contested' \in BOOLEAN
  PROVE  TypeOK' /\ InHand' /\ CopyMade' /\ CopyBlank' /\ TokenSent' /\ SweepsOnce'
<1> USE DEF IInv
<1>1. /\ RequestTyped' /\ Alone(r) /\ at'[r] = "idle" /\ link'[r] = 0
      /\ ~copy'[r].made /\ sweeping' = sweeping \ {r}
  BY DoneTyped
<1>2. row.made  BY DEF CopyMade
<1>3. link[r] = 0  BY DEF InHand
<1>4. TypeOK'  BY <1>1, <1>2 DEF TypeOK, RequestTyped, mailVars
<1>5. InHand' /\ CopyMade' /\ CopyBlank'
  BY <1>1, <1>2 DEF InHand, CopyMade, CopyBlank, Alone
<1>6. TokenSent'
  <2>1. \A q \in Request : /\ link'[q] = link[q]
                           /\ at'[q] = "mail" => at[q] = "mail"
    BY <1>1, <1>3 DEF Alone
  <2> QED  BY <2>1 DEF TokenSent, NewestMailWorks, OnItsWay, mailVars
<1>7. SweepsOnce'  BY <1>1, SweepsEnd DEF mailVars
<1> QED  BY <1>4, <1>5, <1>6, <1>7

\* The copy of a submission has no answer: if the row has one by now, another
\* submission ran, and that is recorded.
LEMMA SubmitKeeps ==
  ASSUME IInv, NEW r \in Request, SubmitReview(r)
  PROVE  /\ IInv'
         /\ row.submitted => \/ row'.text = row.text /\ row'.consent = row.consent
                             \/ doubled'
<1> USE DEF IInv
<1>0. /\ at[r] = "submit" /\ Done(r)
      /\ doubled' = (doubled \/ (row.submitted /\ ~copy[r].submitted))
      /\ UNCHANGED <<age, minted, mailVars, contested, crossed, rivals, deaths>>
  BY DEF SubmitReview
<1>1. PICK f \in Form :
        /\ row' = Save(row, copy[r], [text |-> f.text, consent |-> f.consent,
                                      submitted |-> TRUE])
        /\ consented' = consented \cup (IF f.consent THEN {f.text} ELSE {})
  BY DEF SubmitReview
<1>2. ~copy[r].submitted /\ copy[r].text = NoText /\ ~copy[r].consent
  BY <1>0 DEF CopyBlank
<1>3. row \in Row /\ copy[r] \in Row /\ f.text \in Text
  BY DEF TypeOK, Form
<1>4. /\ row' \in Row
      /\ row'.made = row.made /\ row'.token = row.token
      /\ row'.text = f.text /\ row'.submitted
      /\ row'.consent => f.consent \/ row.consent
      /\ row'.moderated = row.moderated
      /\ row'.published = row.published /\ row'.reason = row.reason
  BY <1>1, <1>2, <1>3, SaveAnswer
<1>5. consented' \subseteq Text /\ doubled' \in BOOLEAN /\ contested' \in BOOLEAN
  BY <1>0, <1>1, <1>3 DEF TypeOK
<1>6. TypeOK' /\ InHand' /\ CopyMade' /\ CopyBlank' /\ TokenSent' /\ SweepsOnce'
  BY <1>0, <1>4, <1>5, WritesKeep
<1>7. Unanswered' /\ DecisionIsWhole'
  BY <1>0, <1>4 DEF Unanswered, DecisionIsWhole
<1>8. ConsentGiven'
  <2>1. CASE row.submitted  BY <1>0, <1>2, <2>1 DEF ConsentGiven
  <2>2. CASE ~row.submitted
    BY <1>0, <1>1, <1>4, <2>2 DEF ConsentGiven, Unanswered
  <2> QED  BY <2>1, <2>2
<1> QED  BY <1>0, <1>2, <1>6, <1>7, <1>8

\* A decision on a row nobody has decided since it was read is whole.
LEMMA ModerateKeeps ==
  ASSUME IInv, NEW r \in Request, ModerateReview(r)
  PROVE  /\ IInv'
         /\ row.submitted => row'.text = row.text /\ row'.consent = row.consent
<1> USE DEF IInv
<1>1. PICK p \in BOOLEAN, why \in Reason \cup {NoReason} :
        /\ p <=> why = NoReason
        /\ Decided(r, p, why)
  BY ReasonAssumption DEF ModerateReview
<1>2. /\ row' = Save(row, copy[r], [published |-> p, moderated |-> TRUE,
                                    reason |-> why])
      /\ contested' = (contested \/ ~SeesDecision(r))
      /\ Done(r) /\ at[r] = "moderate"
      /\ UNCHANGED <<age, minted, mailVars, consented, doubled, crossed, rivals,
                     deaths>>
  BY <1>1 DEF Decided, ModerateReview
<1>3. row \in Row /\ copy[r] \in Row  BY DEF TypeOK
<1>4. /\ row' \in Row
      /\ row'.made = row.made /\ row'.token = row.token
      /\ row'.text = row.text /\ row'.submitted = row.submitted
      /\ row'.consent = row.consent
      /\ SeesDecision(r) => row'.published = p /\ row'.reason = why
  <2>1. ASSUME NEW written,
               written = Save(row, copy[r], [published |-> p, moderated |-> TRUE,
                                             reason |-> why])
        PROVE  /\ written \in Row
               /\ written.made = row.made /\ written.token = row.token
               /\ written.text = row.text /\ written.submitted = row.submitted
               /\ written.consent = row.consent
               /\ (row.published = copy[r].published) => written.published = p
               /\ (row.reason = copy[r].reason) => written.reason = why
    BY <1>3, <2>1, SaveDecision
  <2>2. SeesDecision(r) => /\ row.published = copy[r].published
                          /\ row.reason = copy[r].reason
    BY DEF SeesDecision
  <2> QED  BY <1>2, <2>1, <2>2
<1>5. consented' \subseteq Text /\ doubled' \in BOOLEAN /\ contested' \in BOOLEAN
  BY <1>2 DEF TypeOK
<1>6. TypeOK' /\ InHand' /\ CopyMade' /\ CopyBlank' /\ TokenSent' /\ SweepsOnce'
  BY <1>2, <1>4, <1>5, WritesKeep
<1>7. Unanswered' /\ ConsentGiven'
  BY <1>2, <1>4 DEF Unanswered, ConsentGiven
<1>8. DecisionIsWhole'  BY <1>1, <1>2, <1>4 DEF DecisionIsWhole
<1> QED  BY <1>4, <1>6, <1>7, <1>8

-----------------------------------------------------------------------------
(* Time and faults *)

LEMMA TimeKeeps ==
  ASSUME IInv, DaysPass \/ WindowChanges \/ ThirtyDaysPass
  PROVE  /\ IInv'
         /\ row.submitted => row'.text = row.text /\ row'.consent = row.consent
<1> USE DEF IInv
<1>1. /\ age' \in {"new", "due", "crowded", "old"}
      /\ UNCHANGED <<minted, mailVars, requestVars, historyVars>>
  BY DEF DaysPass, WindowChanges, ThirtyDaysPass, TypeOK
<1>2. /\ row' \in Row /\ row'.made = row.made /\ row'.token = row.token
      /\ row'.submitted = row.submitted /\ row'.text = row.text
      /\ row'.consent = row.consent /\ row'.moderated = row.moderated
      /\ row'.published = row.published /\ row'.reason = row.reason
      /\ row' = row \/ row.made
  <2>1. CASE row' = row  BY <2>1 DEF TypeOK
  <2>2. CASE row.made /\ row' = [row EXCEPT !.expired = TRUE]
    BY <2>2, Expired DEF TypeOK
  <2> QED  BY <2>1, <2>2 DEF DaysPass, WindowChanges, ThirtyDaysPass
<1>3. TypeOK'  BY <1>1, <1>2 DEF TypeOK, requestVars, mailVars, historyVars
<1>4. InHand' /\ CopyMade' /\ CopyBlank'
  BY <1>1, <1>2 DEF InHand, CopyMade, CopyBlank, requestVars
<1>5. Unanswered' /\ ConsentGiven' /\ DecisionIsWhole'
  BY <1>1, <1>2 DEF Unanswered, ConsentGiven, DecisionIsWhole, historyVars
<1>6. TokenSent' /\ SweepsOnce'
  BY <1>1, <1>2 DEF TokenSent, NewestMailWorks, OnItsWay, SweepsOnce, requestVars,
                    mailVars, historyVars
<1> QED  BY <1>2, <1>3, <1>4, <1>5, <1>6

LEMMA DeathKeeps ==
  ASSUME IInv, ProcessDies
  PROVE  IInv' /\ row' = row
<1> USE DEF IInv
<1>0. /\ deaths' \in 0..MaxDeaths
      /\ UNCHANGED <<row, age, minted, mailed, newest, asked, consented, doubled,
                     contested, crossed, rivals>>
  BY BoundAssumption DEF ProcessDies, TypeOK
<1>1. PICK gone \in SUBSET Request :
        /\ unsent' = unsent \cup ({link[r] : r \in gone} \ {0})
        /\ sweeping' = sweeping \ gone
        /\ at'   = [r \in Request |-> IF r \in gone THEN "idle" ELSE at[r]]
        /\ copy' = [r \in Request |-> IF r \in gone THEN Blank ELSE copy[r]]
        /\ link' = [r \in Request |-> IF r \in gone THEN 0 ELSE link[r]]
  BY DEF ProcessDies
<1>2. TypeOK'
  <2>0. minted \in Nat /\ 0 \in 0..minted  BY BoundAssumption DEF TypeOK
  <2>1. unsent' \subseteq 1..minted
    <3>1. \A r \in Request : link[r] \in 0..minted  BY DEF TypeOK
    <3>2. \A r \in Request : link[r] # 0 => link[r] \in 1..minted  BY <2>0, <3>1
    <3> QED  BY <1>1, <3>2 DEF TypeOK
  <2> QED  BY <1>0, <1>1, <2>0, <2>1, BlankTyped DEF TypeOK, Step
<1>3. ~Blank.made  BY DEF Blank
<1>4. InHand' /\ CopyMade' /\ CopyBlank'
  BY <1>0, <1>1, <1>3 DEF InHand, CopyMade, CopyBlank
<1>5. Unanswered' /\ ConsentGiven' /\ DecisionIsWhole'
  BY <1>0 DEF Unanswered, ConsentGiven, DecisionIsWhole
<1>6. TokenSent'
  <2>1. \A q \in Request : at'[q] = "mail" => link'[q] = row.token \/ crossed
    BY <1>1 DEF TokenSent
  <2>2. ASSUME row.token # 0, OnItsWay(row.token)
        PROVE  OnItsWay(row.token)' \/ row.token \in unsent'
    BY <1>0, <1>1, <2>2 DEF OnItsWay
  <2> QED  BY <1>0, <1>1, <2>1, <2>2 DEF TokenSent, NewestMailWorks
<1>7. SweepsOnce'  BY <1>0, <1>1, SweepsEnd
<1> QED  BY <1>0, <1>2, <1>4, <1>5, <1>6, <1>7

-----------------------------------------------------------------------------
(* The theorems *)

LEMMA IInvInit == Init => IInv
<1> SUFFICES ASSUME Init  PROVE IInv  OBVIOUS
<1>1. /\ ~Blank.made /\ ~Blank.submitted /\ Blank.text = NoText
      /\ ~Blank.consent /\ ~Blank.moderated
  BY DEF Blank
<1>2. TypeOK
  <2>1. /\ row = Blank /\ minted = 0 /\ mailed = {} /\ unsent = {} /\ deaths = 0
        /\ link = [r \in Request |-> 0] /\ newest = 0 /\ sweeping = {}
    BY DEF Init
  <2>2. /\ minted \in 0..MaxTokens /\ deaths \in 0..MaxDeaths
        /\ link \in [Request -> 0..minted]
    BY <2>1, BoundAssumption
  <2>3. /\ at \in [Request -> Step] /\ copy \in [Request -> Row]
        /\ consented = {} /\ asked = 0 /\ rivals = 0
        /\ age = "new" /\ doubled = FALSE /\ contested = FALSE /\ crossed = FALSE
    BY BlankTyped DEF Init, Step
  <2> QED  BY <2>1, <2>2, <2>3, BlankTyped DEF TypeOK
<1>3. InHand /\ CopyMade /\ CopyBlank
  BY <1>1 DEF Init, InHand, CopyMade, CopyBlank
<1>4. Unanswered /\ ConsentGiven /\ DecisionIsWhole /\ TokenSent
  BY <1>1 DEF Init, Unanswered, ConsentGiven, DecisionIsWhole, TokenSent,
              NewestMailWorks
<1>5. SweepsOnce
  BY <1>1, FS_EmptySet DEF Init, SweepsOnce
<1> QED  BY <1>2, <1>3, <1>4, <1>5 DEF IInv

\* Every step keeps the invariant, and an answer that was given.
LEMMA StepKeeps ==
  ASSUME IInv, [Next]_vars
  PROVE  /\ IInv'
         /\ row.submitted => \/ row'.text = row.text /\ row'.consent = row.consent
                             \/ doubled'
<1>1. CASE UNCHANGED vars
  BY <1>1 DEF vars, requestVars, mailVars, historyVars, IInv, TypeOK, InHand,
              CopyMade, CopyBlank, Unanswered, ConsentGiven, DecisionIsWhole,
              TokenSent, NewestMailWorks, OnItsWay, SweepsOnce
<1>2. ASSUME NEW r \in Request,
             \/ SendReviewInvitation(r) \/ GetByToken(r) \/ FindByPk(r)
             \/ CreateRefused(r) \/ SendReviewInvitationEmail(r)
             \/ MailDoesNotGo(r)
      PROVE  IInv' /\ row' = row
  BY <1>2, ReadingKeeps, MailKeeps
<1>3. ASSUME NEW r \in Request,
             IssueForApplication(r) \/ SubmitReview(r) \/ ModerateReview(r)
      PROVE  /\ IInv'
             /\ row.submitted =>
                  \/ row'.text = row.text /\ row'.consent = row.consent
                  \/ doubled'
  BY <1>3, IssueKeeps, SubmitKeeps, ModerateKeeps
<1>4. ASSUME NEW s \in Sweep, SendDueReviewRequests(s) \/ Reread(s)
      PROVE  IInv' /\ row' = row
  BY <1>4, SweepKeeps DEF Request
<1>5. CASE ProcessDies  BY <1>5, DeathKeeps
<1>6. CASE DaysPass \/ WindowChanges \/ ThirtyDaysPass  BY <1>6, TimeKeeps
<1> QED  BY <1>1, <1>2, <1>3, <1>4, <1>5, <1>6 DEF Next, Invite

LEMMA Invariance == Spec => []IInv
BY IInvInit, StepKeeps, PTL DEF Spec

\* moderateReview: what can be published has the borrower's consent and one
\* whole decision, but for overlapping submissions and overlapping decisions.
THEOREM PublishedSound == Spec => []PublishedIsSound
<1>1. IInv => PublishedIsSound
  BY DEF IInv, PublishedIsSound, ShownWithConsent, Shown, ConsentGiven
<1> QED  BY <1>1, Invariance, PTL

\* issueForApplication: however admins and sweeps invite and whatever dies, the
\* newest mail holds the working link, unless the row's link is on its way or lost
\* or was stored while another's mail was on its way.
THEOREM NewestMail == Spec => []NewestMailWorks
<1>1. IInv => NewestMailWorks  BY DEF IInv, TokenSent
<1> QED  BY <1>1, Invariance, PTL

\* sendDueReviewRequests: for any number of instances, a borrower gets at most as
\* many requests as sweeps were under way at once.
THEOREM AskedPerSweep == Spec => []SweepsAskOnce
<1>1. IInv => SweepsAskOnce
  BY Counting DEF IInv, SweepsAskOnce, SweepsOnce, TypeOK
<1> QED  BY <1>1, Invariance, PTL

\* submitReview: an answer stays as it was given, but for a submission that had
\* begun before it.
THEOREM AnswerStays == Spec => ReviewIsOneShot
<1>1. IInv /\ [Next]_vars
        => [row.submitted => \/ row'.text = row.text /\ row'.consent = row.consent
                             \/ doubled']_vars
  BY StepKeeps
<1> QED  BY <1>1, Invariance, PTL DEF Spec, ReviewIsOneShot
=============================================================================
