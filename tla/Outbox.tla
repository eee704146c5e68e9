-------------------------------- MODULE Outbox ---------------------------------
(***************************************************************************)
(* What follows an admin's decision: the save, its audit row and the email *)
(* to the borrower (runAction, deliverBorrowerEmail, sendEmail), the       *)
(* resend of an email, the rows of email_log, the provider's webhooks and  *)
(* the suppression list.  One application, one address.                    *)
(*                                                                         *)
(* The decision itself is the business of ApplicationWorkflow, and the     *)
(* teardown of the reminders, which cannot fail an action, of DripQueue.   *)
(***************************************************************************)
EXTENDS Naturals, FiniteSets

CONSTANTS Sender,  \* requests and jobs: each sends one email, or withholds it
          Report,  \* webhooks and unsubscribes: each is one request
          Sends,   \* the template keys they use
          Choice,  \* what admins do about an action's email
          Told     \* what the reports say

\* statusConfig with its two aliases, LINK_BEARING_TEMPLATES, the drip TEMPLATES,
\* and the keys only the action that mints their link renders.
LINK_BEARING_TEMPLATES ==
  {"bank_verification_requested", "agreement_sent", "verification_deposit_sent"}
statusConfig ==
  LINK_BEARING_TEMPLATES \cup
  {"received", "pending_call", "in_review", "call_confirmed",
   "application_updated", "bank_verification_complete", "agreement_signed",
   "verification_deposit_confirmed", "underwriting", "approved", "funded",
   "declined", "withdrawn", "expired", "bank_verification_pending",
   "application_withdrawn"}
DRIP_TEMPLATES ==
  {"call_reminder_1", "call_reminder_2", "call_reminder_3",
   "bank_verification_1", "bank_verification_2", "bank_verification_3",
   "bank_verification_4", "bank_verification_5", "bank_verification_6"}
CUSTOM_EMAILS == {"documents_requested", "review_request"}

hasStatusTemplate(key) == key \in statusConfig \ LINK_BEARING_TEMPLATES
hasDripTemplate(key)   == key \in DRIP_TEMPLATES

\* normalizeEvent, with the hard bounces apart from the soft ones; "delivered"
\* and unknown names change nothing.
Event == {"hard_bounce", "soft_bounce", "complaint", "opened", "unsubscribe"}

\* An admin sends the action's email, edits it first, or withholds it with a
\* reason or without one; or sends an earlier one again.
AdminOption == {"send", "edited", "excused", "unexcused"}
Option == AdminOption \cup {"resend", "reminder"}

ASSUME ToldAssumption == Told \subseteq Event
ASSUME ChoiceAssumption == Choice \subseteq AdminOption
ASSUME SenderAssumption == IsFiniteSet(Sender)

VARIABLES
  suppression, \* the address's row: its reason, or "none"
  log,         \* the row each sender has in email_log
  given,       \* senders whose mail the mail server accepted
  audits,      \* rows of audit_log: a sender and what it records
  at,          \* a sender's next step
  job,         \* the sender's key, its options, what it found
  answer,      \* what the admin was told
  report,      \* what each report is doing
  failed,      \* history: senders that met a failing write, or died
  unknown,     \* history: senders whose mail was accepted without an answer
  barred,      \* history: senders that began with their mail suppressed
  heeded       \* history: what reports said that were carried out

mailVars == <<log, given, failed, unknown>>
adminVars == <<audits, at, job, answer, barred>>
reportVars == <<report, heeded>>
vars == <<suppression, mailVars, adminVars, reportVars>>

NoReport == [step |-> "idle", event |-> "none"]
NoJob == [key |-> "none", option |-> "send", saved |-> FALSE]

NoRow == [status |-> "none", sent |-> FALSE, events |-> {}]
Status == {"none", "queued", "sent", "failed", "cancelled", "bounced"}

\* Reminders and the request for a review are not: an unsubscribe stops them.
transactional(key) == ~hasDripTemplate(key) /\ key # "review_request"

\* The key in a sender's row.  The action that asks for a review has no key of
\* its own but the status, which a withheld mail is logged under.
RowKey(s) == IF job[s].key = "review_request" /\ job[s].option = "excused"
             THEN "funded" ELSE job[s].key

-----------------------------------------------------------------------------
(* The suppression list *)

suppresses_transactional(reason) == reason \in {"hard_bounce", "complaint"}

\* SuppressionService.check, for mail that is transactional or not.
Suppressed(isTransactional) ==
  /\ suppression # "none"
  /\ isTransactional => suppresses_transactional(suppression)

-----------------------------------------------------------------------------
(* An admin's request *)

Goes(s, to) == at' = [at EXCEPT ![s] = to]
Answers(s, what) == Goes(s, "over") /\ answer' = [answer EXCEPT ![s] = what]

Begin(s, key, option, to) ==
  /\ at[s] = "idle"
  /\ job' = [job EXCEPT ![s].key = key, ![s].option = option]
  /\ barred' = IF Suppressed(transactional(key)) THEN barred \cup {s}
               ELSE barred
  /\ Goes(s, to)
  /\ UNCHANGED <<suppression, mailVars, audits, answer, reportVars>>

\* An action, with a key of its own or the new status for one.
RunAction(s) == \E key \in Sends \ DRIP_TEMPLATES, option \in Choice :
                  Begin(s, key, option, "save")

\* sendDripEmail, for a job of DripQueue.
SendDripEmail(s) == \E key \in Sends \cap DRIP_TEMPLATES :
                      Begin(s, key, "reminder", "check")

\* resendEmail of a row of the log: a reminder or a status notice, not a mail
\* whose link only its action can mint.
ResendEmail(s) ==
  \E o \in Sender :
    /\ log[o].status # "none"
    /\ hasDripTemplate(RowKey(o)) \/ hasStatusTemplate(RowKey(o))
    /\ Begin(s, RowKey(o), "resend", "check")

\* application.save().
Save(s) ==
  /\ at[s] = "save"
  /\ \/ job' = [job EXCEPT ![s].saved = TRUE] /\ Goes(s, "audit")
        /\ UNCHANGED answer
     \/ Answers(s, "error") /\ UNCHANGED job
  /\ UNCHANGED <<suppression, mailVars, audits, barred, reportVars>>

\* AuditLogService.log: a row, or an alert in the server's log.
Audit(s, what) ==
  \/ audits' = audits \cup {<<s, what>>} /\ UNCHANGED failed
  \/ failed' = failed \cup {s} /\ UNCHANGED audits

\* Then the email: withheld, not configured, or to be sent.  (Mutant: only what
\* the borrower is told of is audited.)
EmailStep(s) ==
  IF job[s].option \in {"excused", "unexcused"} THEN "withhold"
  ELSE IF job[s].key \in statusConfig \cup CUSTOM_EMAILS THEN "check"
  ELSE "edited"

AuditSends(s) ==
  /\ at[s] = "audit"
  /\ IF job[s].option \in {"send", "edited"} THEN Audit(s, "action")
     ELSE UNCHANGED <<audits, failed>>
  /\ Goes(s, EmailStep(s))
  /\ UNCHANGED <<suppression, log, given, unknown, job, answer, barred, reportVars>>

AuditAction(s) ==
  /\ at[s] = "audit"
  /\ Audit(s, "action")
  /\ Goes(s, EmailStep(s))
  /\ UNCHANGED <<suppression, log, given, unknown, job, answer, barred, reportVars>>

\* recordSuppressedEmail: refused for want of a reason, although the action is
\* saved; otherwise audited and logged.
RefuseToWithhold(s) ==
  /\ at[s] = "withhold"
  /\ job[s].option = "unexcused"
  /\ Answers(s, "refused")
  /\ UNCHANGED <<suppression, mailVars, audits, job, barred, reportVars>>

Withhold(s) ==
  /\ at[s] = "withhold"
  /\ job[s].option = "excused"
  /\ Audit(s, "withheld")
  /\ Goes(s, "cancel")
  /\ UNCHANGED <<suppression, log, given, unknown, job, answer, barred, reportVars>>

-----------------------------------------------------------------------------
(* sendEmail *)

\* An action's own errors end in "send_failed"; the others pass them on.
Fails(s) == IF job[s].option \in {"resend", "reminder"} THEN Answers(s, "error")
            ELSE Answers(s, "not_sent")

\* (Mutant: transactional mail is never stopped.)
CheckRemindersOnly(s) ==
  /\ at[s] = "check"
  /\ Goes(s, IF suppression # "none" /\ ~transactional(job[s].key) THEN "cancel" ELSE "queue")
  /\ UNCHANGED <<suppression, mailVars, audits, job, answer, barred, reportVars>>

CheckSuppression(s) ==
  /\ at[s] = "check"
  /\ Goes(s, IF Suppressed(transactional(job[s].key)) THEN "cancel" ELSE "queue")
  /\ UNCHANGED <<suppression, mailVars, audits, job, answer, barred, reportVars>>

CheckFails(s) ==
  /\ at[s] = "check"
  /\ Fails(s)
  /\ UNCHANGED <<suppression, mailVars, audits, job, barred, reportVars>>

\* recordLog for a mail that is not sent: a row, and then its status, each of
\* which may fail and is not missed.  (Mutant: the status is left as created.)
LogWithheld(s, statuses) ==
  /\ at[s] = "cancel"
  /\ \E status \in statuses :
       /\ log' = [log EXCEPT ![s].status = status]
       /\ failed' = IF status = "cancelled" THEN failed ELSE failed \cup {s}
  /\ Goes(s, "edited")
  /\ UNCHANGED <<suppression, given, unknown, audits, job, answer, barred,
                 reportVars>>

LogAsQueued(s) ==
  /\ at[s] = "cancel"
  /\ log' = [log EXCEPT ![s].status = "queued"]
  /\ Goes(s, "edited")
  /\ UNCHANGED <<suppression, given, failed, unknown, audits, job, answer,
                 barred, reportVars>>

LogCancelled(s) == LogWithheld(s, {"cancelled", "queued", "none"})

\* recordLog for a mail that is.
LogQueued(s) ==
  /\ at[s] = "queue"
  /\ \/ log' = [log EXCEPT ![s].status = "queued"] /\ UNCHANGED failed
     \/ failed' = failed \cup {s} /\ UNCHANGED log
  /\ Goes(s, "smtp")
  /\ UNCHANGED <<suppression, given, unknown, audits, job, answer, barred,
                 reportVars>>

SendMail(s) ==
  /\ at[s] = "smtp"
  /\ given' = given \cup {s}
  /\ Goes(s, "mark")
  /\ UNCHANGED <<suppression, log, failed, unknown, audits, job, answer, barred,
                 reportVars>>

\* Refused, or accepted with the answer lost; the row's update may fail too.
SendMailFails(s) ==
  /\ at[s] = "smtp"
  /\ \/ UNCHANGED <<given, unknown>>
     \/ given' = given \cup {s} /\ unknown' = unknown \cup {s}
  /\ IF log[s].status = "none" THEN UNCHANGED <<log, failed>>
     ELSE \/ log' = [log EXCEPT ![s].status = "failed"] /\ UNCHANGED failed
          \/ failed' = failed \cup {s} /\ UNCHANGED log
  /\ Fails(s)
  /\ UNCHANGED <<suppression, audits, job, barred, reportVars>>

\* The row, if there is one, learns the provider's id, by which the webhooks
\* will find it.
MarkAsSent(s) ==
  /\ at[s] = "mark"
  /\ IF log[s].status = "none" THEN UNCHANGED <<log, failed>>
     ELSE \/ /\ log' = [log EXCEPT ![s].status = "sent", ![s].sent = TRUE]
             /\ UNCHANGED failed
          \/ failed' = failed \cup {s} /\ UNCHANGED log
  /\ Goes(s, "edited")
  /\ UNCHANGED <<suppression, given, unknown, audits, job, answer, barred,
                 reportVars>>

\* What the admin edited is audited, as is a resend, and the admin is told what
\* the send did.  (Mutant: that the borrower was emailed.)
Finish(s, sent) ==
  /\ at[s] = "edited"
  /\ IF job[s].option \in {"edited", "resend"} THEN Audit(s, job[s].option)
     ELSE UNCHANGED <<audits, failed>>
  /\ Answers(s, IF sent THEN "sent" ELSE "not_sent")
  /\ UNCHANGED <<suppression, log, given, unknown, job, barred, reportVars>>

FinishHappily(s) == Finish(s, job[s].option \notin {"excused", "unexcused"})

TellTheAdmin(s) == Finish(s, s \in given)

SenderDies(s) ==
  /\ at[s] \notin {"idle", "over"}
  /\ Goes(s, "over")
  /\ failed' = failed \cup {s}
  /\ UNCHANGED <<suppression, log, given, unknown, audits, job, answer, barred,
                 reportVars>>

-----------------------------------------------------------------------------
(* Webhooks and unsubscribes *)

\* A report that is done is forgotten, and another may come.
Forget(r) == report' = [report EXCEPT ![r] = NoReport]

Reports(r, event, step) == report' = [report EXCEPT ![r] = [step |-> step, event |-> event]]

Unsubscribe(r) ==
  /\ report[r].step = "idle"
  /\ "unsubscribe" \in Told
  /\ Reports(r, "unsubscribe", "suppress")
  /\ UNCHANGED <<suppression, mailVars, adminVars, heeded>>

\* handleWebhookEvent: without an id, or with one no row has, or has yet, no row
\* is found; without an address none is suppressed.
HandleWebhookEvent(r) ==
  /\ report[r].step = "idle"
  /\ \E event \in Told \ {"unsubscribe"}, addressed \in BOOLEAN,
        found \in {{}} \cup {{s} : s \in {o \in Sender : log[o].sent}} :
       /\ addressed \/ found # {}
       /\ log' = [s \in Sender |->
            IF s \notin found THEN log[s]
            ELSE [log[s] EXCEPT !.events = @ \cup {event},
                                !.status = IF event \in {"hard_bounce", "soft_bounce"}
                                           THEN "bounced" ELSE @]]
       /\ IF suppresses_transactional(event) /\ addressed
          THEN Reports(r, event, "suppress") ELSE UNCHANGED report
  /\ UNCHANGED <<suppression, given, failed, unknown, adminVars, heeded>>

\* suppress: the row is found or created, and one that is softer is upgraded.
\* (Mutant: the newest reason wins.)
CarriedOut(r) == Forget(r) /\ heeded' = heeded \cup {report[r].event}

SuppressNewest(r) ==
  /\ report[r].step = "suppress"
  /\ suppression' = report[r].event
  /\ CarriedOut(r)
  /\ UNCHANGED <<mailVars, adminVars>>

Suppress(r) ==
  /\ report[r].step = "suppress"
  /\ suppression' = IF suppression = "none" THEN report[r].event ELSE suppression
  /\ IF /\ suppresses_transactional(report[r].event)
        /\ ~suppresses_transactional(suppression')
     THEN Reports(r, report[r].event, "upgrade") /\ UNCHANGED heeded
     ELSE CarriedOut(r)
  /\ UNCHANGED <<mailVars, adminVars>>

Upgrade(r) ==
  /\ report[r].step = "upgrade"
  /\ suppression' = report[r].event
  /\ CarriedOut(r)
  /\ UNCHANGED <<mailVars, adminVars>>

\* A statement fails, or the process dies.  The webhook answers 200 all the same
\* and the provider does not repeat it.
ReportFails(r) ==
  /\ report[r].step # "idle"
  /\ Forget(r)
  /\ UNCHANGED <<suppression, mailVars, adminVars, heeded>>

-----------------------------------------------------------------------------
Init ==
  /\ suppression = "none"
  /\ log = [s \in Sender |-> NoRow]
  /\ given = {} /\ audits = {}
  /\ at = [s \in Sender |-> "idle"]
  /\ job = [s \in Sender |-> NoJob]
  /\ answer = [s \in Sender |-> "none"]
  /\ report = [r \in Report |-> NoReport]
  /\ failed = {} /\ unknown = {} /\ barred = {} /\ heeded = {}

SendEmail(s) == \/ CheckSuppression(s) \/ CheckFails(s) \/ LogCancelled(s)
                \/ LogQueued(s) \/ SendMail(s) \/ SendMailFails(s) \/ MarkAsSent(s)

Sending(s) == \/ RunAction(s) \/ SendDripEmail(s) \/ ResendEmail(s) \/ Save(s) \/ AuditAction(s)
              \/ RefuseToWithhold(s) \/ Withhold(s) \/ SendEmail(s)
              \/ TellTheAdmin(s) \/ SenderDies(s)

Reporting(r) == \/ Unsubscribe(r) \/ HandleWebhookEvent(r) \/ Suppress(r)
                \/ Upgrade(r) \/ ReportFails(r)

Next == (\E s \in Sender : Sending(s)) \/ (\E r \in Report : Reporting(r))

Spec == Init /\ [][Next]_vars

-----------------------------------------------------------------------------
Step == {"idle", "save", "audit", "withhold", "check", "cancel", "queue", "smtp",
         "mark", "edited", "over"}

\* Every variable has its type.
TypeOK ==
  /\ suppression \in {"none", "hard_bounce", "complaint", "unsubscribe"}
  /\ log \in [Sender -> [status : Status, sent : BOOLEAN, events : SUBSET Event]]
  /\ at \in [Sender -> Step]
  /\ \A s \in Sender : /\ job[s].key \in Sends \cup {"funded", "none"}
                       /\ job[s].option \in Option
  /\ given \cup failed \cup unknown \cup barred \subseteq Sender
  /\ audits \subseteq Sender \X {"action", "withheld", "edited", "resend"}
  /\ answer \in [Sender -> {"none", "sent", "not_sent", "refused", "error"}]
  /\ heeded \subseteq Event

\* sendEmail, markAsSent, handleWebhookEvent: a row of the log says what became
\* of the mail.  One that failed may have arrived when the answer was lost, and
\* one stays queued for good only when a write failed or the process died.
RowSaysWhatHappened ==
  \A s \in Sender :
    /\ log[s].status \in {"sent", "bounced"} => s \in given
    /\ log[s].status = "cancelled" => s \notin given
    /\ log[s].status = "failed"    => s \notin given \/ s \in unknown
    /\ log[s].status = "queued" /\ at[s] = "over" => s \in failed

\* SuppressionService.suppress: however reports overlap, a suppressed address
\* stays suppressed, and one that takes no mail at all is never softened.
SuppressionHardens ==
  [][/\ suppression # "none" => suppression' # "none"
     /\ suppresses_transactional(suppression) =>
          suppresses_transactional(suppression')]_suppression

\* handleProviderWebhook: after a hard bounce or a complaint that names the address
\* it takes no mail at all, whatever was reported before it, unless a write failed.
ReportsAreHeeded ==
  \A event \in heeded : /\ suppresses_transactional(event) => Suppressed(TRUE)
                        /\ event = "unsubscribe" => Suppressed(FALSE)

\* sendEmail: mail to an address that was suppressed for it when the request began
\* is never handed over.
BarredMailStays == barred \cap given = {}

\* The suppression list is written as the provider reports, and obeyed.
SuppressedIsLeftAlone == ReportsAreHeeded /\ BarredMailStays

\* runAction, deliverBorrowerEmail: an admin is told that the borrower was emailed
\* only if the mail was accepted, and that it was not only if it was not or the
\* mail server's answer was lost.
AnswerTellsMail ==
  \A s \in Sender :
    /\ answer[s] = "sent" => s \in given
    /\ answer[s] \in {"not_sent", "refused", "error"} =>
         s \notin given \/ s \in unknown

\* runAction: no mail announces a decision that was not saved.
MailFollowsSave ==
  \A s \in given : job[s].option \in {"resend", "reminder"} \/ job[s].saved

\* What the admin and the borrower are told of an action is true.
AnswersAreTrue == AnswerTellsMail /\ MailFollowsSave

\* runAction, recordSuppressedEmail: what an admin did is in the audit log when
\* the request ends: the action, a mail withheld, the edited copy of a mail that
\* went out, a resend; unless a write failed, the process died or the mail did.
WhatIsDoneIsAudited ==
  \A s \in Sender : at[s] = "over" /\ s \notin failed =>
    /\ job[s].saved => <<s, "action">> \in audits
    /\ job[s].saved /\ job[s].option = "excused" => <<s, "withheld">> \in audits
    /\ answer[s] = "sent" /\ job[s].option \in {"edited", "resend"} =>
         <<s, job[s].option>> \in audits

\* The counters of getDeliveryStats.
Sent == {s \in Sender : log[s].sent \/ log[s].status \in {"sent", "bounced"}}

With(status) == {s \in Sender : log[s].status = status}
Bounced == {s \in Sender : \/ log[s].status = "bounced"
                           \/ log[s].events \cap {"hard_bounce", "soft_bounce"} # {}}
Opened == {s \in Sender : "opened" \in log[s].events}

\* getDeliveryStats: every row is counted once as queued, sent, failed or
\* cancelled, and bounces and opens are of mail counted as sent.
StatsAddUp ==
  /\ Bounced \cup Opened \subseteq Sent
  /\ Cardinality(Sent) + Cardinality(With("queued")) + Cardinality(With("failed"))
       + Cardinality(With("cancelled"))
     = Cardinality({s \in Sender : log[s].status # "none"})

\* What email_log and its statistics say is what became of the mail.
RowsAreHonest == TypeOK /\ RowSaysWhatHappened /\ StatsAddUp
=============================================================================
