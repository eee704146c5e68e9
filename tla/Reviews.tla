-------------------------------- MODULE Reviews --------------------------------
(***************************************************************************)
(* The review of one funded file: the invitation (by an admin, or by the   *)
(* daily sweep of ReviewRequestService), the borrower's submission through *)
(* the link, and its moderation (ReviewInvitationService).                 *)
(*                                                                         *)
(* One row holds all three.  Each handler reads it, decides, and writes    *)
(* the columns in which its values differ from what it read.               *)
(***************************************************************************)
EXTENDS Naturals, FiniteSets

CONSTANTS Caller,    \* the slots for admins' and borrowers' requests in flight
          Sweep,     \* and for runs of the daily sweep, one per instance
          Text,      \* what a borrower may submit: rating, words, name format
          Reason,    \* REVIEW_REJECTION_REASONS
          MaxTokens, \* bound: invitations sent
          MaxDeaths  \* bound: crashes of the process

NoReason == "none"
NoText   == "none"

ASSUME SweepAssumption == IsFiniteSet(Sweep)
ASSUME TextAssumption  == NoText \notin Text /\ Text # {}
ASSUME ReasonAssumption == NoReason \notin Reason
ASSUME BoundAssumption == MaxTokens \in Nat \ {0} /\ MaxDeaths \in Nat

VARIABLES
  row,       \* the row of review_invitations
  age,       \* days since funded_at: "new", "due" from the 7th, "old" after 45;
             \* "crowded" while more files than BATCH_LIMIT are due
  minted,    \* tokens minted, numbered from 1
  mailed,    \* tokens the borrower was sent
  newest,    \* the token in the last mail, 0 before the first
  at,        \* a request's next step
  sweeping,  \* the slots that run a sweep
  copy,      \* the row a request has read
  link,      \* the token a request has minted
  unsent,    \* history: tokens whose mail was withheld, refused or lost
  consented, \* history: the texts submitted with consent to publish them
  doubled,   \* history: a submission was written over another
  contested, \* history: a decision was written over one it had not seen
  crossed,   \* history: another link's mail was on its way when the row was
             \* given its token
  asked,     \* history: mails the sweeps have sent
  rivals,    \* history: the most sweeps that were under way at once
  deaths     \* history: crashes of the process

requestVars == <<at, sweeping, copy, link>>
mailVars    == <<mailed, newest, unsent, asked>>
historyVars == <<consented, doubled, contested, crossed, rivals, deaths>>
vars == <<row, age, minted, mailVars, requestVars, historyVars>>

Request == Caller \cup Sweep

\* expired: expires_at has passed.  submitted, moderated: the two dates are
\* set.
Row == [made : BOOLEAN, token : 0..MaxTokens, expired : BOOLEAN,
        submitted : BOOLEAN, text : Text \cup {NoText}, consent : BOOLEAN,
        moderated : BOOLEAN, published : BOOLEAN, reason : Reason \cup {NoReason}]

Blank == [made |-> FALSE, token |-> 0, expired |-> FALSE, submitted |-> FALSE,
          text |-> NoText, consent |-> FALSE, moderated |-> FALSE,
          published |-> FALSE, reason |-> NoReason]

Form == [text : Text, consent : BOOLEAN]

\* The changed columns of a copy, written over whatever the row is now.
Save(now, read, set) ==
  [c \in DOMAIN now |-> IF c \in DOMAIN set /\ set[c] # read[c]
                        THEN set[c] ELSE now[c]]

Done(r) == /\ at'   = [at EXCEPT ![r] = "idle"]
           /\ copy' = [copy EXCEPT ![r] = Blank]
           /\ link' = [link EXCEPT ![r] = 0]
           /\ sweeping' = sweeping \ {r}

\* A request keeps of the row what it goes on to use.
Read(r, there) ==
  /\ at'   = [at EXCEPT ![r] = there]
  /\ copy' = [copy EXCEPT ![r] =
                IF there = "issue" THEN [Blank EXCEPT !.made = row.made]
                ELSE [row EXCEPT !.token = 0, !.expired = FALSE,
                                 !.text = IF there = "submit" THEN @ ELSE NoText]]

-----------------------------------------------------------------------------
(* The invitation *)

\* sendReviewInvitation by an admin, issueForApplication's first read.
SendReviewInvitation(r) ==
  /\ r \in Caller
  /\ at[r] = "idle"
  /\ ~row.submitted
  /\ Read(r, "issue")
  /\ UNCHANGED <<row, age, minted, mailVars, sweeping, link, historyVars>>

\* A sweep takes the file up.
TakeUp(s) ==
  /\ at[s] = "idle"
  /\ at' = [at EXCEPT ![s] = "find"]
  /\ sweeping' = sweeping \cup {s}
  /\ LET n == Cardinality(sweeping')
     IN  rivals' = IF n > rivals THEN n ELSE rivals
  /\ UNCHANGED <<row, age, minted, mailVars, copy, link, consented, doubled,
                 contested, crossed, deaths>>

\* (Mutants: a file that has not answered is asked again; a file is due only
\* once it is too old.)
AskUntilSubmitted(s) == age \in {"due", "crowded"} /\ ~row.submitted /\ TakeUp(s)

AskTooLate(s) == age = "old" /\ ~row.made /\ TakeUp(s)

\* The file is due, among the BATCH_LIMIT the query returns, and was not
\* invited.  The query does not leave out the files that were, and has no order:
\* it need not return this one while the window is crowded.
SendDueReviewRequests(s) == age \in {"due", "crowded"} /\ ~row.made /\ TakeUp(s)

\* The sweep goes on to sendReviewInvitation, which reads for itself.
Reread(s) ==
  /\ at[s] = "find"
  /\ IF row.submitted THEN Done(s)
     ELSE Read(s, "issue") /\ UNCHANGED <<sweeping, link>>
  /\ UNCHANGED <<row, age, minted, mailVars, historyVars>>

NewLink(r, sent) ==
  /\ at[r] = "issue"
  /\ minted < MaxTokens
  /\ minted' = minted + 1
  /\ link' = [link EXCEPT ![r] = sent]
  /\ copy' = [copy EXCEPT ![r] = Blank]
  /\ at' = [at EXCEPT ![r] = "mail"]
  /\ crossed' = \E q \in Request : at[q] = "mail"
  /\ UNCHANGED <<age, mailVars, sweeping, consented, doubled, contested, rivals,
                 deaths>>

Replaced == [row EXCEPT !.token = minted + 1, !.expired = FALSE]

\* A row that was there is given a new token, date and expiry; otherwise one is
\* created, which the unique index on application_id refuses to the second.
StoreLink(r) ==
  \/ copy[r].made /\ row' = Replaced
  \/ /\ ~copy[r].made /\ ~row.made
     /\ row' = [Blank EXCEPT !.made = TRUE, !.token = minted + 1]

\* (Mutant: the mail gets the link that was there.)
IssueAndMailOld(r) ==
  /\ NewLink(r, IF copy[r].made THEN row.token ELSE minted + 1)
  /\ StoreLink(r)

IssueForApplication(r) == NewLink(r, minted + 1) /\ StoreLink(r)

CreateRefused(r) ==
  /\ at[r] = "issue"
  /\ ~copy[r].made /\ row.made
  /\ Done(r)
  /\ UNCHANGED <<row, age, minted, mailVars, historyVars>>

\* runAction: nothing on the application moves, the audit row cannot fail the
\* action, and the mail goes out.
SendReviewInvitationEmail(r) ==
  /\ at[r] = "mail"
  /\ mailed' = mailed \cup {link[r]}
  /\ newest' = link[r]
  /\ asked'  = IF r \in sweeping THEN asked + 1 ELSE asked
  /\ Done(r)
  /\ UNCHANGED <<row, age, minted, unsent, historyVars>>

\* Withheld by the admin (with a reason, or refused for want of one once the
\* new link is stored), suppressed, or refused by the mail server.
MailDoesNotGo(r) ==
  /\ at[r] = "mail"
  /\ unsent' = unsent \cup {link[r]}
  /\ Done(r)
  /\ UNCHANGED <<row, age, minted, mailed, newest, asked, historyVars>>

-----------------------------------------------------------------------------
(* The submission *)

\* getByToken: the link is the current one and has not expired.  Then the
\* application is read for the name.  (Mutant: no look at submitted_at.)
OpenAgain(r) ==
  /\ r \in Caller
  /\ at[r] = "idle"
  /\ row.token \in mailed /\ ~row.expired
  /\ Read(r, "submit")
  /\ UNCHANGED <<row, age, minted, mailVars, sweeping, link, historyVars>>

GetByToken(r) ==
  /\ r \in Caller
  /\ at[r] = "idle"
  /\ row.token \in mailed /\ ~row.expired
  /\ ~row.submitted
  /\ Read(r, "submit")
  /\ UNCHANGED <<row, age, minted, mailVars, sweeping, link, historyVars>>

\* (Mutant: consent is a column like the others, for a copy that had none.)
SubmitWithConsent(r) ==
  /\ at[r] = "submit"
  /\ \E f \in Form :
       /\ row' = Save(row, copy[r], [text |-> f.text, consent |-> TRUE,
                                     submitted |-> TRUE])
       /\ consented' = consented \cup (IF f.consent THEN {f.text} ELSE {})
  /\ doubled' = (doubled \/ (row.submitted /\ ~copy[r].submitted))
  /\ Done(r)
  /\ UNCHANGED <<age, minted, mailVars, contested, crossed, rivals, deaths>>

SubmitReview(r) ==
  /\ at[r] = "submit"
  /\ \E f \in Form :
       /\ row' = Save(row, copy[r], [text |-> f.text, consent |-> f.consent,
                                     submitted |-> TRUE])
       /\ consented' = consented \cup (IF f.consent THEN {f.text} ELSE {})
  /\ doubled' = (doubled \/ (row.submitted /\ ~copy[r].submitted))
  /\ Done(r)
  /\ UNCHANGED <<age, minted, mailVars, contested, crossed, rivals, deaths>>

-----------------------------------------------------------------------------
(* The moderation *)

FindByPk(r) ==
  /\ r \in Caller
  /\ at[r] = "idle"
  /\ row.submitted
  /\ Read(r, "moderate")
  /\ UNCHANGED <<row, age, minted, mailVars, sweeping, link, historyVars>>

SeesDecision(r) == \A c \in {"moderated", "published", "reason"} :
                     row[c] = copy[r][c]

\* Approved with the consent that was read, or rejected for a reason.  A
\* decision may be taken again.
Decided(r, published, reason) ==
  /\ row' = Save(row, copy[r], [published |-> published, moderated |-> TRUE,
                                reason |-> reason])
  /\ contested' = (contested \/ ~SeesDecision(r))
  /\ Done(r)
  /\ UNCHANGED <<age, minted, mailVars, consented, doubled, crossed,
                 rivals, deaths>>

ModerateReview(r) ==
  /\ at[r] = "moderate"
  /\ \/ copy[r].consent /\ Decided(r, TRUE, NoReason)
     \/ \E reason \in Reason : Decided(r, FALSE, reason)

-----------------------------------------------------------------------------
(* Time and faults *)

\* To the 7th day, and past the 45th.
DaysPass ==
  /\ \/ age = "new" /\ age' = "due"
     \/ age \in {"due", "crowded"} /\ age' = "old"
  /\ UNCHANGED <<row, minted, mailVars, requestVars, historyVars>>

\* REVIEW_TOKEN_TTL_DAYS after the last invitation.
ThirtyDaysPass ==
  /\ row.made /\ ~row.expired
  /\ row' = [row EXCEPT !.expired = TRUE]
  /\ UNCHANGED <<age, minted, mailVars, requestVars, historyVars>>

\* Other files are funded, or leave the window.
WindowChanges ==
  /\ \/ age = "due" /\ age' = "crowded"
     \/ age = "crowded" /\ age' = "due"
  /\ UNCHANGED <<row, minted, mailVars, requestVars, historyVars>>

\* One of the instances, with the requests it was working on.
ProcessDies ==
  /\ deaths < MaxDeaths
  /\ deaths' = deaths + 1
  /\ \E gone \in SUBSET {r \in Request : at[r] # "idle"} :
       /\ gone # {}
       /\ unsent' = unsent \cup ({link[r] : r \in gone} \ {0})
       /\ sweeping' = sweeping \ gone
       /\ at'   = [r \in Request |-> IF r \in gone THEN "idle" ELSE at[r]]
       /\ copy' = [r \in Request |-> IF r \in gone THEN Blank ELSE copy[r]]
       /\ link' = [r \in Request |-> IF r \in gone THEN 0 ELSE link[r]]
  /\ UNCHANGED <<row, age, minted, mailed, newest, asked, consented,
                 doubled, contested, crossed, rivals>>

-----------------------------------------------------------------------------
Init ==
  /\ row = Blank
  /\ age = "new"
  /\ minted = 0 /\ mailed = {} /\ newest = 0
  /\ at   = [r \in Request |-> "idle"]
  /\ sweeping = {}
  /\ copy = [r \in Request |-> Blank]
  /\ link = [r \in Request |-> 0]
  /\ unsent = {} /\ consented = {} /\ asked = 0 /\ rivals = 0
  /\ doubled = FALSE /\ contested = FALSE /\ crossed = FALSE /\ deaths = 0

Invite(r) == \/ IssueForApplication(r) \/ CreateRefused(r)
             \/ SendReviewInvitationEmail(r) \/ MailDoesNotGo(r)

Next == \/ \E r \in Request : \/ SendReviewInvitation(r) \/ Invite(r)
                              \/ GetByToken(r) \/ SubmitReview(r)
                              \/ FindByPk(r) \/ ModerateReview(r)
        \/ \E s \in Sweep : SendDueReviewRequests(s) \/ Reread(s)
        \/ DaysPass \/ ThirtyDaysPass \/ WindowChanges \/ ProcessDies

Spec == Init /\ [][Next]_vars

\* The sweeps run every day for the five weeks a file stays due, and their query
\* returns it unless the window is crowded; a step of theirs that stays possible
\* is taken.
FairSpec ==
  Spec /\ \A s \in Sweep : /\ WF_vars(age = "due" /\ SendDueReviewRequests(s))
                           /\ WF_vars(Reread(s) \/ Invite(s))

-----------------------------------------------------------------------------
Step == {"idle", "find", "issue", "mail", "submit", "moderate"}

\* Every variable has its type, and a row that does not exist is blank.
TypeOK ==
  /\ row \in Row /\ (~row.made => row = Blank)
  /\ age \in {"new", "due", "crowded", "old"}
  /\ minted \in 0..MaxTokens
  /\ mailed \subseteq 1..minted /\ unsent \subseteq 1..minted
  /\ newest \in mailed \cup {0}
  /\ at \in [Request -> Step] /\ sweeping \subseteq Sweep /\ copy \in [Request -> Row]
  /\ link \in [Request -> 0..minted]
  /\ consented \subseteq Text
  /\ doubled \in BOOLEAN /\ contested \in BOOLEAN /\ crossed \in BOOLEAN
  /\ asked \in Nat /\ rivals \in Nat /\ deaths \in 0..MaxDeaths

\* getPublishedReviews.
Shown == row.published /\ row.consent

\* moderateReview: what is on the public page was submitted by the borrower with
\* their consent to publish it, unless two submissions overlapped: the second
\* writes its words over the first but cannot take back its consent.
ShownWithConsent ==
  Shown => doubled \/ row.text \in consented

\* submitReview: a review is one-shot; once submitted it does not change, but by
\* a submission that had begun before.
ReviewIsOneShot ==
  [][row.submitted => \/ row'.text = row.text /\ row'.consent = row.consent
                      \/ doubled']_vars

\* moderateReview: a published review carries no rejection reason and a rejected
\* one does, unless a decision was taken on a row that another decision had
\* changed: the columns of the two then mix.
DecisionIsWhole ==
  row.moderated => \/ row.published <=> row.reason = NoReason
                   \/ contested

\* What the public page can show of a review is what the borrower and the
\* moderators decided.
PublishedIsSound == TypeOK /\ ShownWithConsent /\ DecisionIsWhole

OnItsWay(token) == \E r \in Request : link[r] = token

\* issueForApplication: the newest mail holds the working link, however admins
\* and sweeps invite, unless a newer link's mail has yet to go or does not, or
\* the link was stored while another's mail was on its way.
NewestMailWorks ==
  newest # 0 => \/ row.token = newest
                \/ OnItsWay(row.token) \/ row.token \in unsent
                \/ crossed

\* sendDueReviewRequests: whatever fails and whatever admins do, a borrower gets
\* at most as many requests from the sweep as there were instances sweeping at
\* the same time: one, if sweeps did not overlap.
SweepsAskOnce == asked <= rivals

\* sendDueReviewRequests: a file that is due is invited before it is too old for
\* it, if no more than BATCH_LIMIT files are due with it and the instances stay up
\* long enough.
DueFilesAreInvited ==
  [](age = "due" => <>(row.made \/ age # "due"))
=============================================================================
