----------------------------- MODULE Outbox_proofs ------------------------------
(***************************************************************************)
(* The theorems about Outbox: for any senders, reports and template keys,  *)
(* whatever fails.                                                         *)
(***************************************************************************)
EXTENDS Outbox, FiniteSetTheorems, TLAPS

Job == [key : Sends \cup {"funded", "none"}, option : Option, saved : BOOLEAN]
LogRow == [status : Status, sent : BOOLEAN, events : SUBSET Event]
Reason == {"hard_bounce", "complaint", "unsubscribe"}
ReportState == [step : {"idle", "suppress", "upgrade"}, event : Event \cup {"none"}]
Answer == {"none", "sent", "not_sent", "refused", "error"}

Typed == /\ suppression \in Reason \cup {"none"}
         /\ log \in [Sender -> LogRow]
         /\ at \in [Sender -> Step]
         /\ job \in [Sender -> Job]
         /\ given \subseteq Sender /\ failed \subseteq Sender
         /\ unknown \subseteq Sender /\ barred \subseteq Sender
         /\ audits \subseteq Sender \X {"action", "withheld", "edited", "resend"}
         /\ answer \in [Sender -> Answer]
         /\ report \in [Report -> ReportState]
         /\ heeded \subseteq Event

\* A row's status goes with the step of its sender.
RowInv(s) ==
  /\ log[s].events # {} => log[s].sent
  /\ log[s].sent <=> log[s].status \in {"sent", "bounced"}
  /\ log[s].sent => s \in given /\ at[s] \in {"edited", "over"}
  /\ log[s].status = "cancelled" => s \notin given /\ at[s] \in {"edited", "over"}
  /\ log[s].status = "failed" => at[s] = "over" /\ (s \notin given \/ s \in unknown)
  /\ log[s].status = "queued" => at[s] \in {"smtp", "mark"} \/ s \in failed
  /\ log[s].status # "none" => at[s] \in {"smtp", "mark", "edited", "over"}

\* The mail is handed over at one step, and the admin is told at the last.
MailInv(s) ==
  /\ s \in given => at[s] \in {"mark", "edited", "over"}
  /\ s \in unknown => at[s] = "over"
  /\ at[s] = "mark" => s \in given
  /\ answer[s] # "none" => at[s] = "over"
  /\ answer[s] = "sent" => s \in given
  /\ answer[s] \in {"not_sent", "refused", "error"} => s \notin given \/ s \in unknown

\* An action goes on only when it is saved, and sends only what it means to.
JobInv(s) ==
  /\ job[s].saved => at[s] \notin {"idle", "save"}
  /\ at[s] \notin {"idle", "save", "over"} \/ s \in given =>
       job[s].saved \/ job[s].option \in {"resend", "reminder"}
  /\ at[s] \in {"check", "queue", "smtp", "mark"} =>
       job[s].option \notin {"excused", "unexcused"}

AuditInv(s) ==
  s \notin failed =>
    /\ job[s].saved /\ at[s] # "audit" => <<s, "action">> \in audits
    /\ job[s].saved /\ job[s].option = "excused"
         /\ at[s] \in {"cancel", "edited", "over"} => <<s, "withheld">> \in audits
    /\ answer[s] = "sent" /\ job[s].option \in {"edited", "resend"} =>
         <<s, job[s].option>> \in audits

\* Mail that was suppressed when its request began still is.
BarredInv(s) ==
  s \in barred => /\ at[s] \notin {"idle", "queue", "smtp", "mark"}
                  /\ s \notin given
                  /\ Suppressed(transactional(job[s].key))

SenderInv(s) == RowInv(s) /\ MailInv(s) /\ JobInv(s) /\ AuditInv(s) /\ BarredInv(s)

\* A report that is about to suppress has cause to.
ReportInv(r) ==
  /\ report[r].step \in {"suppress", "upgrade"} => report[r].event \in Reason
  /\ report[r].step = "upgrade" => suppresses_transactional(report[r].event)

IInv == /\ Typed
        /\ \A s \in Sender : SenderInv(s)
        /\ \A r \in Report : ReportInv(r)
        /\ ReportsAreHeeded

-----------------------------------------------------------------------------
(* What a step leaves alone *)

\* A sender's step touches nothing of another sender's.
Only(s) ==
  \A o \in Sender \ {s} :
    /\ log'[o] = log[o] /\ at'[o] = at[o] /\ job'[o] = job[o]
    /\ answer'[o] = answer[o]
    /\ o \in given' <=> o \in given
    /\ o \in failed' <=> o \in failed
    /\ o \in unknown' <=> o \in unknown
    /\ o \in barred' <=> o \in barred
    /\ \A what : <<o, what>> \in audits' <=> <<o, what>> \in audits

LEMMA SenderKeeps ==
  ASSUME NEW s \in Sender, SenderInv(s), suppression' = suppression,
         log'[s] = log[s], at'[s] = at[s], job'[s] = job[s],
         answer'[s] = answer[s],
         s \in given' <=> s \in given, s \in failed' <=> s \in failed,
         s \in unknown' <=> s \in unknown, s \in barred' <=> s \in barred,
         \A what : <<s, what>> \in audits' <=> <<s, what>> \in audits
  PROVE  SenderInv(s)'
<1>1. RowInv(s)'  BY DEF SenderInv, RowInv
<1>2. MailInv(s)'  BY DEF SenderInv, MailInv
<1>3. JobInv(s)'  BY DEF SenderInv, JobInv
<1>4. AuditInv(s)'  BY DEF SenderInv, AuditInv
<1>5. BarredInv(s)'
  BY DEF SenderInv, BarredInv, Suppressed, transactional
<1> QED  BY <1>1, <1>2, <1>3, <1>4, <1>5 DEF SenderInv

\* What remains to be shown of a sender's step.
LEMMA SenderMoves ==
  ASSUME IInv, NEW s \in Sender, Typed', Only(s), SenderInv(s)',
         UNCHANGED <<suppression, report, heeded>>
  PROVE  IInv'
<1>1. \A o \in Sender \ {s} : SenderInv(o)'
  BY SenderKeeps DEF IInv, Only
<1>2. \A r \in Report : ReportInv(r)'
  BY DEF IInv, ReportInv
<1>3. ReportsAreHeeded'  BY DEF IInv, ReportsAreHeeded, Suppressed
<1> QED  BY <1>1, <1>2, <1>3 DEF IInv

-----------------------------------------------------------------------------
(* A sender's steps *)

LEMMA BeginKeeps ==
  ASSUME IInv, NEW s \in Sender, NEW key \in Sends \cup {"funded"}, NEW option \in Option,
         NEW to \in {"save", "check"}, Begin(s, key, option, to),
         to = "check" => option \in {"resend", "reminder"}
  PROVE  IInv'
<1>1. Typed' /\ Only(s)
  BY DEF IInv, Typed, Only, Begin, Goes, mailVars, reportVars, Job, Step
<1>2. /\ at[s] = "idle" /\ at'[s] = to
      /\ job'[s] = [key |-> key, option |-> option, saved |-> job[s].saved]
      /\ log' = log /\ given' = given /\ failed' = failed /\ unknown' = unknown
      /\ audits' = audits /\ answer' = answer /\ suppression' = suppression
      /\ UNCHANGED <<report, heeded>>
      /\ s \in barred' => s \in barred \/ Suppressed(transactional(key))
  BY DEF IInv, Typed, Begin, Goes, mailVars, reportVars, Job
<1>3. SenderInv(s)  BY DEF IInv
<1>4. RowInv(s)'  BY <1>2, <1>3 DEF SenderInv, RowInv
<1>5. MailInv(s)'  BY <1>2, <1>3 DEF SenderInv, MailInv
<1>6. JobInv(s)'  BY <1>2, <1>3 DEF SenderInv, JobInv, MailInv
<1>7. AuditInv(s)'  BY <1>2, <1>3 DEF SenderInv, AuditInv, JobInv, MailInv
<1>8. BarredInv(s)'
  BY <1>2, <1>3 DEF SenderInv, BarredInv, MailInv, Suppressed, transactional
<1> QED
  BY <1>1, <1>2, <1>4, <1>5, <1>6, <1>7, <1>8, SenderMoves DEF SenderInv

LEMMA SaveKeeps ==
  ASSUME IInv, NEW s \in Sender, Save(s)
  PROVE  IInv'
<1>1. Typed' /\ Only(s)
  <2>1. CASE job' = [job EXCEPT ![s].saved = TRUE] /\ Goes(s, "audit")
             /\ answer' = answer
    <3>1. [job[s] EXCEPT !.saved = TRUE] \in Job  BY DEF IInv, Typed, Job
    <3>2. job' \in [Sender -> Job] /\ \A o \in Sender \ {s} : job'[o] = job[o]
      BY <2>1, <3>1 DEF IInv, Typed
    <3> QED
      BY <2>1, <3>2 DEF IInv, Typed, Only, Save, Goes, mailVars, reportVars, Step
  <2>2. CASE Answers(s, "error") /\ job' = job
    BY <2>2 DEF IInv, Typed, Only, Save, Goes, Answers, mailVars, reportVars,
                Step, Answer
  <2> QED  BY <2>1, <2>2 DEF Save
<1>2. /\ at[s] = "save" /\ log' = log
      /\ \/ /\ at'[s] = "audit" /\ answer'[s] = answer[s]
            /\ job'[s] = [job[s] EXCEPT !.saved = TRUE]
         \/ at'[s] = "over" /\ answer'[s] = "error" /\ job'[s] = job[s]
      /\ UNCHANGED <<given, failed, unknown, audits, barred>>
      /\ UNCHANGED <<suppression, report, heeded>>
  BY DEF IInv, Typed, Save, Goes, Answers, mailVars, reportVars
<1>3. SenderInv(s) /\ job[s] \in Job /\ log[s] \in LogRow  BY DEF IInv, Typed
<1>4. RowInv(s)'  BY <1>2, <1>3 DEF SenderInv, RowInv, MailInv, LogRow
<1>5. MailInv(s)'  BY <1>2, <1>3 DEF SenderInv, MailInv
<1>6. JobInv(s)'  BY <1>2, <1>3 DEF SenderInv, JobInv, MailInv, Job
<1>7. AuditInv(s)'  BY <1>2, <1>3 DEF SenderInv, AuditInv, JobInv, MailInv, Job
<1>8. BarredInv(s)'
  BY <1>2, <1>3 DEF SenderInv, BarredInv, MailInv, Suppressed, transactional, Job
<1> QED
  BY <1>1, <1>2, <1>4, <1>5, <1>6, <1>7, <1>8, SenderMoves DEF SenderInv

LEMMA AuditActionKeeps ==
  ASSUME IInv, NEW s \in Sender, AuditAction(s)
  PROVE  IInv'
<1>1. Typed' /\ Only(s)
  <2>1. EmailStep(s) \in {"withhold", "check", "edited"}  BY DEF EmailStep
  <2> QED
    BY <2>1 DEF IInv, Typed, Only, AuditAction, Audit, Goes, reportVars, Step
<1>2. /\ at[s] = "audit" /\ at'[s] \in {"withhold", "check", "edited"}
      /\ at'[s] = "check" => job[s].option \notin {"excused", "unexcused"}
      /\ job[s].option = "excused" => at'[s] = "withhold"
      /\ <<s, "action">> \in audits' \/ s \in failed'
      /\ failed \subseteq failed'
      /\ \A what : <<s, what>> \in audits => <<s, what>> \in audits'
      /\ UNCHANGED <<log, given, unknown, job, answer>>
      /\ UNCHANGED <<suppression, report, heeded, barred>>
  BY DEF IInv, Typed, AuditAction, Audit, Goes, EmailStep, reportVars
<1>3. SenderInv(s) /\ job[s] \in Job /\ log[s] \in LogRow  BY DEF IInv, Typed
<1>4. RowInv(s)'  BY <1>2, <1>3 DEF SenderInv, RowInv, MailInv, LogRow
<1>5. MailInv(s)'  BY <1>2, <1>3 DEF SenderInv, MailInv
<1>6. JobInv(s)'  BY <1>2, <1>3 DEF SenderInv, JobInv, MailInv, Job
<1>7. AuditInv(s)'  BY <1>2, <1>3 DEF SenderInv, AuditInv, JobInv, MailInv, Job
<1>8. BarredInv(s)'
  BY <1>2, <1>3 DEF SenderInv, BarredInv, MailInv, Suppressed, transactional, Job
<1> QED
  BY <1>1, <1>2, <1>4, <1>5, <1>6, <1>7, <1>8, SenderMoves DEF SenderInv

LEMMA RefuseKeeps ==
  ASSUME IInv, NEW s \in Sender, RefuseToWithhold(s)
  PROVE  IInv'
<1>1. Typed' /\ Only(s)
  BY DEF IInv, Typed, Only, RefuseToWithhold, Answers, Goes, mailVars, reportVars, Answer, Step
<1>2. /\ at[s] = "withhold" /\ at'[s] = "over" /\ job[s].option = "unexcused"
      /\ answer'[s] = "refused"
      /\ UNCHANGED <<log, given, failed, unknown, job, audits>>
      /\ UNCHANGED <<suppression, report, heeded, barred>>
  BY DEF IInv, Typed, RefuseToWithhold, Answers, Goes, mailVars, reportVars, Answer, Step
<1>3. SenderInv(s) /\ job[s] \in Job /\ log[s] \in LogRow  BY DEF IInv, Typed
<1>4. RowInv(s)'  BY <1>2, <1>3 DEF SenderInv, RowInv, MailInv, LogRow
<1>5. MailInv(s)'  BY <1>2, <1>3 DEF SenderInv, MailInv
<1>6. JobInv(s)'  BY <1>2, <1>3 DEF SenderInv, JobInv, MailInv, Job
<1>7. AuditInv(s)'  BY <1>2, <1>3 DEF SenderInv, AuditInv, JobInv, MailInv, Job
<1>8. BarredInv(s)'
  BY <1>2, <1>3 DEF SenderInv, BarredInv, MailInv, Suppressed, transactional, Job
<1> QED
  BY <1>1, <1>2, <1>4, <1>5, <1>6, <1>7, <1>8, SenderMoves DEF SenderInv

LEMMA WithholdKeeps ==
  ASSUME IInv, NEW s \in Sender, Withhold(s)
  PROVE  IInv'
<1>1. Typed' /\ Only(s)
  BY DEF IInv, Typed, Only, Withhold, Audit, Goes, reportVars, Step
<1>2. /\ at[s] = "withhold" /\ at'[s] = "cancel" /\ job[s].option = "excused"
      /\ <<s, "withheld">> \in audits' \/ s \in failed'
      /\ failed \subseteq failed'
      /\ \A what : <<s, what>> \in audits => <<s, what>> \in audits'
      /\ UNCHANGED <<log, given, unknown, job, answer>>
      /\ UNCHANGED <<suppression, report, heeded, barred>>
  BY DEF IInv, Typed, Withhold, Audit, Goes, reportVars, Step
<1>3. SenderInv(s) /\ job[s] \in Job /\ log[s] \in LogRow  BY DEF IInv, Typed
<1>4. RowInv(s)'  BY <1>2, <1>3 DEF SenderInv, RowInv, MailInv, LogRow
<1>5. MailInv(s)'  BY <1>2, <1>3 DEF SenderInv, MailInv
<1>6. JobInv(s)'  BY <1>2, <1>3 DEF SenderInv, JobInv, MailInv, Job
<1>7. AuditInv(s)'  BY <1>2, <1>3 DEF SenderInv, AuditInv, JobInv, MailInv, Job
<1>8. BarredInv(s)'
  BY <1>2, <1>3 DEF SenderInv, BarredInv, MailInv, Suppressed, transactional, Job
<1> QED
  BY <1>1, <1>2, <1>4, <1>5, <1>6, <1>7, <1>8, SenderMoves DEF SenderInv

LEMMA CheckKeeps ==
  ASSUME IInv, NEW s \in Sender, CheckSuppression(s)
  PROVE  IInv'
<1>1. Typed' /\ Only(s)
  BY DEF IInv, Typed, Only, CheckSuppression, Goes, mailVars, reportVars, Step
<1>2. /\ at[s] = "check"
      /\ at'[s] = IF Suppressed(transactional(job[s].key)) THEN "cancel" ELSE "queue"
      /\ UNCHANGED <<log, given, failed, unknown, job, answer, audits>>
      /\ UNCHANGED <<suppression, report, heeded, barred>>
  BY DEF IInv, Typed, CheckSuppression, Goes, mailVars, reportVars, Step
<1>3. SenderInv(s) /\ job[s] \in Job /\ log[s] \in LogRow  BY DEF IInv, Typed
<1>4. RowInv(s)'  BY <1>2, <1>3 DEF SenderInv, RowInv, MailInv, LogRow
<1>5. MailInv(s)'  BY <1>2, <1>3 DEF SenderInv, MailInv
<1>6. JobInv(s)'  BY <1>2, <1>3 DEF SenderInv, JobInv, MailInv, Job
<1>7. AuditInv(s)'  BY <1>2, <1>3 DEF SenderInv, AuditInv, JobInv, MailInv, Job
<1>8. BarredInv(s)'
  BY <1>2, <1>3 DEF SenderInv, BarredInv, MailInv, Suppressed, transactional, Job
<1> QED
  BY <1>1, <1>2, <1>4, <1>5, <1>6, <1>7, <1>8, SenderMoves DEF SenderInv

LEMMA CheckFailsKeeps ==
  ASSUME IInv, NEW s \in Sender, CheckFails(s)
  PROVE  IInv'
<1>1. Typed' /\ Only(s)
  BY DEF IInv, Typed, Only, CheckFails, Fails, Answers, Goes, mailVars, reportVars, Answer, Step
<1>2. /\ at[s] = "check" /\ at'[s] = "over"
      /\ answer'[s] \in {"error", "not_sent"}
      /\ UNCHANGED <<log, given, failed, unknown, job, audits>>
      /\ UNCHANGED <<suppression, report, heeded, barred>>
  BY DEF IInv, Typed, CheckFails, Fails, Answers, Goes, mailVars, reportVars, Answer, Step
<1>3. SenderInv(s) /\ job[s] \in Job /\ log[s] \in LogRow  BY DEF IInv, Typed
<1>4. RowInv(s)'  BY <1>2, <1>3 DEF SenderInv, RowInv, MailInv, LogRow
<1>5. MailInv(s)'  BY <1>2, <1>3 DEF SenderInv, MailInv
<1>6. JobInv(s)'  BY <1>2, <1>3 DEF SenderInv, JobInv, MailInv, Job
<1>7. AuditInv(s)'  BY <1>2, <1>3 DEF SenderInv, AuditInv, JobInv, MailInv, Job
<1>8. BarredInv(s)'
  BY <1>2, <1>3 DEF SenderInv, BarredInv, MailInv, Suppressed, transactional, Job
<1> QED
  BY <1>1, <1>2, <1>4, <1>5, <1>6, <1>7, <1>8, SenderMoves DEF SenderInv

LEMMA LogCancelledKeeps ==
  ASSUME IInv, NEW s \in Sender, LogCancelled(s)
  PROVE  IInv'
<1>1. Typed' /\ Only(s)
  <2>1. PICK status \in {"cancelled", "queued", "none"} :
          /\ log' = [log EXCEPT ![s].status = status]
          /\ failed' = IF status = "cancelled" THEN failed ELSE failed \cup {s}
    BY DEF LogCancelled, LogWithheld
  <2>2. log' \in [Sender -> LogRow] /\ \A o \in Sender \ {s} : log'[o] = log[o]
    BY <2>1 DEF IInv, Typed, LogRow, Status
  <2> QED
    BY <2>1, <2>2 DEF IInv, Typed, Only, LogCancelled, LogWithheld, Goes,
                      reportVars, Step
<1>2. /\ at[s] = "cancel" /\ at'[s] = "edited"
      /\ \E status \in {"cancelled", "queued", "none"} :
           /\ log'[s] = [log[s] EXCEPT !.status = status]
           /\ failed' = IF status = "cancelled" THEN failed ELSE failed \cup {s}
      /\ UNCHANGED <<given, unknown, job, answer, audits>>
      /\ UNCHANGED <<suppression, report, heeded, barred>>
  BY DEF IInv, Typed, LogCancelled, LogWithheld, Goes, reportVars
<1>3. SenderInv(s) /\ job[s] \in Job /\ log[s] \in LogRow  BY DEF IInv, Typed
<1>4. RowInv(s)'  BY <1>2, <1>3 DEF SenderInv, RowInv, MailInv, LogRow
<1>5. MailInv(s)'  BY <1>2, <1>3 DEF SenderInv, MailInv
<1>6. JobInv(s)'  BY <1>2, <1>3 DEF SenderInv, JobInv, MailInv, Job
<1>7. AuditInv(s)'  BY <1>2, <1>3 DEF SenderInv, AuditInv, JobInv, MailInv, Job
<1>8. BarredInv(s)'
  BY <1>2, <1>3 DEF SenderInv, BarredInv, MailInv, Suppressed, transactional, Job
<1> QED
  BY <1>1, <1>2, <1>4, <1>5, <1>6, <1>7, <1>8, SenderMoves DEF SenderInv

LEMMA LogQueuedKeeps ==
  ASSUME IInv, NEW s \in Sender, LogQueued(s)
  PROVE  IInv'
<1>1. Typed' /\ Only(s)
  <2>1. CASE log' = [log EXCEPT ![s].status = "queued"]
    <3>1. log' \in [Sender -> LogRow] /\ \A o \in Sender \ {s} : log'[o] = log[o]
      BY <2>1 DEF IInv, Typed, LogRow, Status
    <3> QED
      BY <2>1, <3>1 DEF IInv, Typed, Only, LogQueued, Goes, reportVars, Step
  <2>2. CASE log' = log
    BY <2>2 DEF IInv, Typed, Only, LogQueued, Goes, reportVars, Step
  <2> QED  BY <2>1, <2>2 DEF LogQueued
<1>2. /\ at[s] = "queue" /\ at'[s] = "smtp"
      /\ \/ log'[s] = [log[s] EXCEPT !.status = "queued"] /\ failed' = failed
         \/ failed' = failed \cup {s} /\ log' = log
      /\ UNCHANGED <<given, unknown, job, answer, audits>>
      /\ UNCHANGED <<suppression, report, heeded, barred>>
  BY DEF IInv, Typed, LogQueued, Goes, reportVars
<1>3. SenderInv(s) /\ job[s] \in Job /\ log[s] \in LogRow  BY DEF IInv, Typed
<1>4. RowInv(s)'  BY <1>2, <1>3 DEF SenderInv, RowInv, MailInv, LogRow
<1>5. MailInv(s)'  BY <1>2, <1>3 DEF SenderInv, MailInv
<1>6. JobInv(s)'  BY <1>2, <1>3 DEF SenderInv, JobInv, MailInv, Job
<1>7. AuditInv(s)'  BY <1>2, <1>3 DEF SenderInv, AuditInv, JobInv, MailInv, Job
<1>8. BarredInv(s)'
  BY <1>2, <1>3 DEF SenderInv, BarredInv, MailInv, Suppressed, transactional, Job
<1> QED
  BY <1>1, <1>2, <1>4, <1>5, <1>6, <1>7, <1>8, SenderMoves DEF SenderInv

LEMMA SendMailKeeps ==
  ASSUME IInv, NEW s \in Sender, SendMail(s)
  PROVE  IInv'
<1>1. Typed' /\ Only(s)
  BY DEF IInv, Typed, Only, SendMail, Goes, reportVars, Step
<1>2. /\ at[s] = "smtp" /\ at'[s] = "mark" /\ given' = given \cup {s}
      /\ UNCHANGED <<log, failed, unknown, job, answer, audits>>
      /\ UNCHANGED <<suppression, report, heeded, barred>>
  BY DEF IInv, Typed, SendMail, Goes, reportVars, Step
<1>3. SenderInv(s) /\ job[s] \in Job /\ log[s] \in LogRow  BY DEF IInv, Typed
<1>4. RowInv(s)'  BY <1>2, <1>3 DEF SenderInv, RowInv, MailInv, LogRow
<1>5. MailInv(s)'  BY <1>2, <1>3 DEF SenderInv, MailInv
<1>6. JobInv(s)'  BY <1>2, <1>3 DEF SenderInv, JobInv, MailInv, Job
<1>7. AuditInv(s)'  BY <1>2, <1>3 DEF SenderInv, AuditInv, JobInv, MailInv, Job
<1>8. BarredInv(s)'
  BY <1>2, <1>3 DEF SenderInv, BarredInv, MailInv, Suppressed, transactional, Job
<1> QED
  BY <1>1, <1>2, <1>4, <1>5, <1>6, <1>7, <1>8, SenderMoves DEF SenderInv

LEMMA SendMailFailsKeeps ==
  ASSUME IInv, NEW s \in Sender, SendMailFails(s)
  PROVE  IInv'
<1>1. Typed' /\ Only(s)
  <2>1. CASE log' = [log EXCEPT ![s].status = "failed"]
    <3>1. log' \in [Sender -> LogRow] /\ \A o \in Sender \ {s} : log'[o] = log[o]
      BY <2>1 DEF IInv, Typed, LogRow, Status
    <3> QED
      BY <2>1, <3>1 DEF IInv, Typed, Only, SendMailFails, Fails, Answers,
         Goes, reportVars, Step, Answer
  <2>2. CASE log' = log
    BY <2>2 DEF IInv, Typed, Only, SendMailFails, Fails, Answers,
         Goes, reportVars, Step, Answer
  <2> QED  BY <2>1, <2>2 DEF SendMailFails
<1>2. /\ at[s] = "smtp" /\ at'[s] = "over"
      /\ answer'[s] \in {"error", "not_sent"}
      /\ \/ given' = given /\ unknown' = unknown
         \/ given' = given \cup {s} /\ unknown' = unknown \cup {s}
      /\ \/ log' = log /\ failed' = failed /\ log[s].status = "none"
         \/ log' = log /\ failed' = failed \cup {s}
         \/ log'[s] = [log[s] EXCEPT !.status = "failed"] /\ failed' = failed
      /\ UNCHANGED <<job, audits>>
      /\ UNCHANGED <<suppression, report, heeded, barred>>
  BY DEF IInv, Typed, SendMailFails, Fails, Answers, Goes, reportVars
<1>3. SenderInv(s) /\ job[s] \in Job /\ log[s] \in LogRow  BY DEF IInv, Typed
<1>4. RowInv(s)'  BY <1>2, <1>3 DEF SenderInv, RowInv, MailInv, LogRow
<1>5. MailInv(s)'  BY <1>2, <1>3 DEF SenderInv, MailInv
<1>6. JobInv(s)'  BY <1>2, <1>3 DEF SenderInv, JobInv, MailInv, Job
<1>7. AuditInv(s)'  BY <1>2, <1>3 DEF SenderInv, AuditInv, JobInv, MailInv, Job
<1>8. BarredInv(s)'
  BY <1>2, <1>3 DEF SenderInv, BarredInv, MailInv, Suppressed, transactional, Job
<1> QED
  BY <1>1, <1>2, <1>4, <1>5, <1>6, <1>7, <1>8, SenderMoves DEF SenderInv

LEMMA MarkKeeps ==
  ASSUME IInv, NEW s \in Sender, MarkAsSent(s)
  PROVE  IInv'
<1>1. Typed' /\ Only(s)
  <2>1. CASE log' = [log EXCEPT ![s].status = "sent", ![s].sent = TRUE]
    <3>1. log' \in [Sender -> LogRow] /\ \A o \in Sender \ {s} : log'[o] = log[o]
      BY <2>1 DEF IInv, Typed, LogRow, Status
    <3> QED
      BY <2>1, <3>1 DEF IInv, Typed, Only, MarkAsSent, Goes, reportVars, Step
  <2>2. CASE log' = log
    BY <2>2 DEF IInv, Typed, Only, MarkAsSent, Goes, reportVars, Step
  <2> QED  BY <2>1, <2>2 DEF MarkAsSent
<1>2. /\ at[s] = "mark" /\ at'[s] = "edited"
      /\ \/ log' = log /\ failed' = failed /\ log[s].status = "none"
         \/ log' = log /\ failed' = failed \cup {s}
         \/ /\ log'[s] = [log[s] EXCEPT !.status = "sent", !.sent = TRUE]
            /\ failed' = failed
      /\ UNCHANGED <<given, unknown, job, answer, audits>>
      /\ UNCHANGED <<suppression, report, heeded, barred>>
  BY DEF IInv, Typed, MarkAsSent, Goes, reportVars
<1>3. SenderInv(s) /\ job[s] \in Job /\ log[s] \in LogRow  BY DEF IInv, Typed
<1>4. RowInv(s)'  BY <1>2, <1>3 DEF SenderInv, RowInv, MailInv, LogRow
<1>5. MailInv(s)'  BY <1>2, <1>3 DEF SenderInv, MailInv
<1>6. JobInv(s)'  BY <1>2, <1>3 DEF SenderInv, JobInv, MailInv, Job
<1>7. AuditInv(s)'  BY <1>2, <1>3 DEF SenderInv, AuditInv, JobInv, MailInv, Job
<1>8. BarredInv(s)'
  BY <1>2, <1>3 DEF SenderInv, BarredInv, MailInv, Suppressed, transactional, Job
<1> QED
  BY <1>1, <1>2, <1>4, <1>5, <1>6, <1>7, <1>8, SenderMoves DEF SenderInv

LEMMA TellKeeps ==
  ASSUME IInv, NEW s \in Sender, TellTheAdmin(s)
  PROVE  IInv'
<1>1. Typed' /\ Only(s)
  BY DEF IInv, Typed, Only, TellTheAdmin, Finish, Audit, Answers, Goes, reportVars, Step, Answer
<1>2. /\ at[s] = "edited" /\ at'[s] = "over"
      /\ answer'[s] = IF s \in given THEN "sent" ELSE "not_sent"
      /\ job[s].option \in {"edited", "resend"} =>
           <<s, job[s].option>> \in audits' \/ s \in failed'
      /\ failed \subseteq failed'
      /\ \A what : <<s, what>> \in audits => <<s, what>> \in audits'
      /\ UNCHANGED <<log, given, unknown, job>>
      /\ UNCHANGED <<suppression, report, heeded, barred>>
  BY DEF IInv, Typed, TellTheAdmin, Finish, Audit, Answers, Goes, reportVars, Step, Answer
<1>3. SenderInv(s) /\ job[s] \in Job /\ log[s] \in LogRow  BY DEF IInv, Typed
<1>4. RowInv(s)'  BY <1>2, <1>3 DEF SenderInv, RowInv, MailInv, LogRow
<1>5. MailInv(s)'  BY <1>2, <1>3 DEF SenderInv, MailInv
<1>6. JobInv(s)'  BY <1>2, <1>3 DEF SenderInv, JobInv, MailInv, Job
<1>7. AuditInv(s)'  BY <1>2, <1>3 DEF SenderInv, AuditInv, JobInv, MailInv, Job
<1>8. BarredInv(s)'
  BY <1>2, <1>3 DEF SenderInv, BarredInv, MailInv, Suppressed, transactional, Job
<1> QED
  BY <1>1, <1>2, <1>4, <1>5, <1>6, <1>7, <1>8, SenderMoves DEF SenderInv

LEMMA DiesKeeps ==
  ASSUME IInv, NEW s \in Sender, SenderDies(s)
  PROVE  IInv'
<1>1. Typed' /\ Only(s)
  BY DEF IInv, Typed, Only, SenderDies, Goes, reportVars, Step
<1>2. /\ at[s] \notin {"idle", "over"} /\ at'[s] = "over"
      /\ failed' = failed \cup {s}
      /\ UNCHANGED <<log, given, unknown, job, answer, audits>>
      /\ UNCHANGED <<suppression, report, heeded, barred>>
  BY DEF IInv, Typed, SenderDies, Goes, reportVars, Step
<1>3. SenderInv(s) /\ job[s] \in Job /\ log[s] \in LogRow  BY DEF IInv, Typed
<1>4. RowInv(s)'  BY <1>2, <1>3 DEF SenderInv, RowInv, MailInv, LogRow
<1>5. MailInv(s)'  BY <1>2, <1>3 DEF SenderInv, MailInv
<1>6. JobInv(s)'  BY <1>2, <1>3 DEF SenderInv, JobInv, MailInv, Job
<1>7. AuditInv(s)'  BY <1>2, <1>3 DEF SenderInv, AuditInv, JobInv, MailInv, Job
<1>8. BarredInv(s)'
  BY <1>2, <1>3 DEF SenderInv, BarredInv, MailInv, Suppressed, transactional, Job
<1> QED
  BY <1>1, <1>2, <1>4, <1>5, <1>6, <1>7, <1>8, SenderMoves DEF SenderInv

-----------------------------------------------------------------------------
(* Reports *)

\* A report's step leaves the requests alone but for the rows of the log, and
\* the other reports.
LEMMA ReportMoves ==
  ASSUME IInv, NEW r \in Report, Typed', ReportInv(r)',
         ReportsAreHeeded', \A o \in Report \ {r} : report'[o] = report[o],
         \A s \in Sender : RowInv(s)',
         \A t \in BOOLEAN : Suppressed(t) => Suppressed(t)',
         UNCHANGED <<given, failed, unknown, adminVars>>
  PROVE  IInv'
<1>1. \A o \in Report \ {r} : ReportInv(o)'  BY DEF IInv, ReportInv
<1>2. ASSUME NEW s \in Sender  PROVE SenderInv(s)'
  <2>1. SenderInv(s) /\ UNCHANGED <<given, failed, unknown, audits, at, job, answer, barred>>
    BY DEF IInv, adminVars
  <2>2. MailInv(s)'  BY <2>1 DEF SenderInv, MailInv
  <2>3. JobInv(s)'  BY <2>1 DEF SenderInv, JobInv
  <2>4. AuditInv(s)'  BY <2>1 DEF SenderInv, AuditInv
  <2>5. BarredInv(s)'
    <3>1. transactional(job[s].key) \in BOOLEAN /\ job'[s] = job[s]
      BY <2>1 DEF transactional, hasDripTemplate
    <3>2. ASSUME s \in barred  PROVE Suppressed(transactional(job[s].key))'
      <4>1. Suppressed(transactional(job[s].key))
        BY <2>1, <3>2 DEF SenderInv, BarredInv
      <4> QED  BY <3>1, <4>1 DEF Suppressed
    <3> QED  BY <2>1, <3>2 DEF SenderInv, BarredInv
  <2> QED  BY <2>2, <2>3, <2>4, <2>5 DEF SenderInv
<1> QED  BY <1>1, <1>2 DEF IInv

LEMMA RowsKeep ==
  ASSUME IInv, UNCHANGED <<log, given, failed, unknown, at>>
  PROVE  \A s \in Sender : RowInv(s)'
  BY DEF IInv, SenderInv, RowInv

LEMMA HeededKeep ==
  ASSUME IInv, heeded' = heeded, \A t \in BOOLEAN : Suppressed(t) => Suppressed(t)'
  PROVE  ReportsAreHeeded'
<1>1. \A event \in heeded : /\ suppresses_transactional(event) => Suppressed(TRUE)
                            /\ event = "unsubscribe" => Suppressed(FALSE)
  BY DEF IInv, ReportsAreHeeded
<1>2. Suppressed(TRUE) => Suppressed(TRUE)'  OBVIOUS
<1>3. Suppressed(FALSE) => Suppressed(FALSE)'  OBVIOUS
<1> QED  BY <1>1, <1>2, <1>3 DEF ReportsAreHeeded

\* What a report does next.
LEMMA ReportsKeeps ==
  ASSUME Typed, NEW r \in Report, NEW state \in ReportState,
         report' = [report EXCEPT ![r] = state]
  PROVE  /\ report' \in [Report -> ReportState]
         /\ report'[r] = state
         /\ \A o \in Report \ {r} : report'[o] = report[o]
  BY DEF Typed

LEMMA UnsubscribeKeeps ==
  ASSUME IInv, NEW r \in Report, Unsubscribe(r)
  PROVE  IInv'
<1> DEFINE state == [step |-> "suppress", event |-> "unsubscribe"]
<1>1. state \in ReportState  BY DEF ReportState, Event
<1>2. report' = [report EXCEPT ![r] = state]  BY DEF Unsubscribe, Reports
<1>3. /\ report' \in [Report -> ReportState] /\ report'[r] = state
      /\ \A o \in Report \ {r} : report'[o] = report[o]
  BY <1>1, <1>2, ReportsKeeps DEF IInv
<1>4. UNCHANGED <<suppression, mailVars, adminVars, heeded>>  BY DEF Unsubscribe
<1>5. Typed'  BY <1>3, <1>4 DEF IInv, Typed, mailVars, adminVars
<1>6. ReportInv(r)'  BY <1>3 DEF ReportInv, Reason
<1>7. \A s \in Sender : RowInv(s)'
  BY <1>4, RowsKeep DEF mailVars, adminVars
<1>8. \A t \in BOOLEAN : Suppressed(t) => Suppressed(t)'  BY <1>4 DEF Suppressed
<1>9. ReportsAreHeeded'  BY <1>4, <1>8, HeededKeep
<1> QED
  BY <1>3, <1>4, <1>5, <1>6, <1>7, <1>8, <1>9, ReportMoves DEF mailVars

LEMMA WebhookKeeps ==
  ASSUME IInv, NEW r \in Report, HandleWebhookEvent(r)
  PROVE  IInv'
<1>1. PICK event \in Told \ {"unsubscribe"}, addressed \in BOOLEAN,
           found \in {{}} \cup {{s} : s \in {o \in Sender : log[o].sent}} :
        /\ log' = [s \in Sender |->
             IF s \notin found THEN log[s]
             ELSE [log[s] EXCEPT !.events = @ \cup {event},
                                 !.status = IF event \in {"hard_bounce", "soft_bounce"}
                                            THEN "bounced" ELSE @]]
        /\ IF suppresses_transactional(event) /\ addressed
           THEN Reports(r, event, "suppress") ELSE UNCHANGED report
  BY DEF HandleWebhookEvent
<1>2. event \in Event  BY ToldAssumption
<1>3. UNCHANGED <<suppression, given, failed, unknown, adminVars, heeded>>
  BY DEF HandleWebhookEvent
<1>4. /\ report' \in [Report -> ReportState] /\ ReportInv(r)'
      /\ \A o \in Report \ {r} : report'[o] = report[o]
  <2>1. CASE suppresses_transactional(event) /\ addressed
    <3> DEFINE state == [step |-> "suppress", event |-> event]
    <3>1. state \in ReportState /\ event \in Reason
      BY <1>2, <2>1 DEF ReportState, suppresses_transactional, Reason
    <3>2. report' = [report EXCEPT ![r] = state]  BY <1>1, <2>1 DEF Reports
    <3>3. /\ report' \in [Report -> ReportState] /\ report'[r] = state
          /\ \A o \in Report \ {r} : report'[o] = report[o]
      BY <3>1, <3>2, ReportsKeeps DEF IInv
    <3> QED  BY <3>1, <3>3 DEF ReportInv
  <2>2. CASE ~(suppresses_transactional(event) /\ addressed)
    BY <1>1, <2>2 DEF IInv, Typed, ReportInv
  <2> QED  BY <2>1, <2>2
<1>5. ASSUME NEW s \in Sender
      PROVE  /\ log'[s] \in LogRow
             /\ \/ log'[s] = log[s]
                \/ /\ log[s].sent /\ log'[s].sent
                   /\ log'[s].status \in {log[s].status, "bounced"}
  <2>1. log[s] \in LogRow  BY DEF IInv, Typed
  <2>2. CASE s \notin found  BY <1>1, <2>1, <2>2
  <2>3. CASE s \in found
    <3>1. log[s].sent  BY <2>3
    <3>2. PICK status \in {log[s].status, "bounced"} :
            log'[s] = [log[s] EXCEPT !.events = @ \cup {event}, !.status = status]
      BY <1>1, <2>3
    <3>3. log[s].events \cup {event} \in SUBSET Event
      BY <1>2, <2>1 DEF LogRow
    <3> QED  BY <2>1, <3>1, <3>2, <3>3 DEF LogRow, Status
  <2> QED  BY <2>2, <2>3
<1>6. Typed'
  <2>1. log' = [s \in Sender |-> log'[s]]  BY <1>1
  <2>2. log' \in [Sender -> LogRow]  BY <1>5, <2>1
  <2> QED  BY <1>3, <1>4, <2>2 DEF IInv, Typed, adminVars
<1>7. ASSUME NEW s \in Sender  PROVE RowInv(s)'
  <2>1. RowInv(s) /\ log[s] \in LogRow  BY DEF IInv, SenderInv, Typed
  <2>2. CASE log'[s] = log[s]
    BY <1>3, <2>1, <2>2 DEF RowInv, adminVars
  <2>3. CASE log[s].sent /\ log'[s].sent
              /\ log'[s].status \in {log[s].status, "bounced"}
    BY <1>3, <2>1, <2>3 DEF RowInv, adminVars
  <2> QED  BY <1>5, <2>2, <2>3
<1>8. \A t \in BOOLEAN : Suppressed(t) => Suppressed(t)'  BY <1>3 DEF Suppressed
<1>9. ReportsAreHeeded'  BY <1>3, <1>8, HeededKeep
<1> QED  BY <1>3, <1>4, <1>6, <1>7, <1>8, <1>9, ReportMoves

\* The newest report is the one that decides, where it is the harder one.
LEMMA SuppressKeeps ==
  ASSUME IInv, NEW r \in Report, Suppress(r) \/ Upgrade(r)
  PROVE  /\ IInv'
         /\ suppression # "none" => suppression' # "none"
         /\ suppresses_transactional(suppression) =>
              suppresses_transactional(suppression')
<1> DEFINE event == report[r].event
<1>1. /\ event \in Reason /\ event \in Event /\ suppression \in Reason \cup {"none"}
      /\ report[r].step = "upgrade" => suppresses_transactional(event)
  BY DEF Suppress, Upgrade, IInv, ReportInv, Typed, Reason, Event
<1>2. UNCHANGED <<mailVars, adminVars>>  BY DEF Suppress, Upgrade
<1>3. \/ /\ suppression' = suppression /\ heeded' = heeded
         /\ suppresses_transactional(event)
         /\ report' = [report EXCEPT ![r] = [step |-> "upgrade", event |-> event]]
      \/ /\ report' = [report EXCEPT ![r] = NoReport]
         /\ heeded' = heeded \cup {event}
         /\ \/ /\ suppression' = event
               /\ suppression = "none" \/ suppresses_transactional(event)
            \/ /\ suppression' = suppression /\ suppression # "none"
               /\ \/ ~suppresses_transactional(event)
                  \/ suppresses_transactional(suppression)
  <2>1. CASE Suppress(r)
    BY <1>1, <2>1 DEF Suppress, CarriedOut, Forget, Reports, suppresses_transactional, Reason
  <2>2. CASE Upgrade(r)
    BY <1>1, <2>2 DEF Upgrade, CarriedOut, Forget
  <2> QED  BY <2>1, <2>2
<1>4. /\ report' \in [Report -> ReportState] /\ ReportInv(r)'
      /\ \A o \in Report \ {r} : report'[o] = report[o]
  <2>1. /\ NoReport \in ReportState
        /\ [step |-> "upgrade", event |-> event] \in ReportState
    BY <1>1 DEF NoReport, ReportState
  <2>2. \/ report' = [report EXCEPT ![r] = NoReport]
        \/ /\ report' = [report EXCEPT ![r] = [step |-> "upgrade", event |-> event]]
           /\ suppresses_transactional(event)
    BY <1>3
  <2>3. CASE report' = [report EXCEPT ![r] = NoReport]
    <3>1. /\ report' \in [Report -> ReportState] /\ report'[r] = NoReport
          /\ \A o \in Report \ {r} : report'[o] = report[o]
      BY <2>1, <2>3, ReportsKeeps DEF IInv
    <3> QED  BY <3>1 DEF ReportInv, NoReport
  <2>4. CASE /\ report' = [report EXCEPT ![r] = [step |-> "upgrade", event |-> event]]
             /\ suppresses_transactional(event)
    <3>1. /\ report' \in [Report -> ReportState]
          /\ report'[r] = [step |-> "upgrade", event |-> event]
          /\ \A o \in Report \ {r} : report'[o] = report[o]
      BY <2>1, <2>4, ReportsKeeps DEF IInv
    <3> QED  BY <1>1, <2>4, <3>1 DEF ReportInv
  <2> QED  BY <2>2, <2>3, <2>4
<1>5. heeded' \subseteq Event /\ suppression' \in Reason \cup {"none"}
  BY <1>1, <1>3 DEF IInv, Typed
<1>6. Typed'
  BY <1>2, <1>4, <1>5 DEF IInv, Typed, mailVars, adminVars
<1>7. /\ suppression # "none" => suppression' # "none"
      /\ suppresses_transactional(suppression) =>
           suppresses_transactional(suppression')
  BY <1>1, <1>3 DEF suppresses_transactional, Reason
<1>8. \A t \in BOOLEAN : Suppressed(t) => Suppressed(t)'
  BY <1>7 DEF Suppressed
<1>9. ReportsAreHeeded'
  <2>1. CASE heeded' = heeded  BY <1>8, <2>1, HeededKeep
  <2>2. CASE /\ heeded' = heeded \cup {event}
             /\ \/ /\ suppression' = event
                   /\ suppression = "none" \/ suppresses_transactional(event)
                \/ /\ suppression' = suppression /\ suppression # "none"
                   /\ \/ ~suppresses_transactional(event)
                      \/ suppresses_transactional(suppression)
    <3>1. /\ suppresses_transactional(event) => Suppressed(TRUE)'
          /\ event = "unsubscribe" => Suppressed(FALSE)'
      BY <1>1, <2>2 DEF Suppressed, suppresses_transactional, Reason
    <3>2. \A e \in heeded : /\ suppresses_transactional(e) => Suppressed(TRUE)'
                            /\ e = "unsubscribe" => Suppressed(FALSE)'
      BY <1>8 DEF IInv, ReportsAreHeeded
    <3> QED  BY <2>2, <3>1, <3>2 DEF ReportsAreHeeded
  <2> QED  BY <1>3, <2>1, <2>2
<1>10. \A s \in Sender : RowInv(s)'
  BY <1>2, RowsKeep DEF mailVars, adminVars
<1> QED
  BY <1>2, <1>4, <1>6, <1>7, <1>8, <1>9, <1>10, ReportMoves DEF mailVars

LEMMA ReportFailsKeeps ==
  ASSUME IInv, NEW r \in Report, ReportFails(r)
  PROVE  IInv'
<1>1. /\ report' \in [Report -> ReportState] /\ report'[r] = NoReport
      /\ \A o \in Report \ {r} : report'[o] = report[o]
  <2>1. NoReport \in ReportState  BY DEF NoReport, ReportState
  <2> QED  BY <2>1, ReportsKeeps DEF IInv, ReportFails, Forget
<1>2. UNCHANGED <<suppression, mailVars, adminVars, heeded>>  BY DEF ReportFails
<1>3. Typed'  BY <1>1, <1>2 DEF IInv, Typed, mailVars, adminVars
<1>4. ReportInv(r)'  BY <1>1 DEF ReportInv, NoReport
<1>5. \A s \in Sender : RowInv(s)'
  BY <1>2, RowsKeep DEF mailVars, adminVars
<1>6. \A t \in BOOLEAN : Suppressed(t) => Suppressed(t)'  BY <1>2 DEF Suppressed
<1>7. ReportsAreHeeded'  BY <1>2, <1>6, HeededKeep
<1> QED
  BY <1>1, <1>2, <1>3, <1>4, <1>5, <1>6, <1>7, ReportMoves DEF mailVars

-----------------------------------------------------------------------------
(* The invariant *)

LEMMA InitHolds == Init => IInv
<1> SUFFICES ASSUME Init PROVE IInv  OBVIOUS
<1>1. NoJob \in Job /\ NoRow \in LogRow
  BY DEF NoJob, Job, Option, AdminOption, NoRow, LogRow, Status
<1>2. NoReport \in ReportState  BY DEF NoReport, ReportState
<1>3. Typed  BY <1>1, <1>2 DEF Init, Typed, Step, Answer
<1>4. ASSUME NEW s \in Sender  PROVE SenderInv(s)
  BY DEF Init, SenderInv, RowInv, MailInv, JobInv, AuditInv, BarredInv, NoJob,
         NoRow
<1>5. ASSUME NEW r \in Report  PROVE ReportInv(r)
  BY DEF Init, ReportInv, NoReport
<1>6. ReportsAreHeeded  BY DEF Init, ReportsAreHeeded
<1> QED  BY <1>3, <1>4, <1>5, <1>6 DEF IInv

LEMMA StepKeeps ==
  ASSUME IInv, [Next]_vars
  PROVE  IInv'
<1>1. ASSUME NEW s \in Sender, Sending(s)  PROVE IInv'
  <2>1. CASE RunAction(s)
    <3>1. PICK key \in Sends, option \in Choice : Begin(s, key, option, "save")
      BY <2>1 DEF RunAction
    <3> QED  BY <3>1, ChoiceAssumption, BeginKeeps DEF Option
  <2>2. CASE SendDripEmail(s)
    <3>1. PICK key \in Sends : Begin(s, key, "reminder", "check")
      BY <2>2 DEF SendDripEmail
    <3> QED  BY <3>1, BeginKeeps DEF Option
  <2>3. CASE ResendEmail(s)
    <3>1. PICK o \in Sender :
            /\ hasDripTemplate(RowKey(o)) \/ hasStatusTemplate(RowKey(o))
            /\ Begin(s, RowKey(o), "resend", "check")
      BY <2>3 DEF ResendEmail
    <3>2. RowKey(o) \in Sends \cup {"funded"}
      <4>1. RowKey(o) \in Sends \cup {"funded", "none"}
        BY DEF IInv, Typed, Job, RowKey
      <4> QED
        BY <3>1, <4>1 DEF hasDripTemplate, hasStatusTemplate, DRIP_TEMPLATES,
                          statusConfig, LINK_BEARING_TEMPLATES
    <3> QED  BY <3>1, <3>2, BeginKeeps DEF Option
  <2>4. CASE SendEmail(s)
    BY <2>4, CheckKeeps, CheckFailsKeeps, LogCancelledKeeps, LogQueuedKeeps,
       SendMailKeeps, SendMailFailsKeeps, MarkKeeps DEF SendEmail
  <2> QED
    BY <1>1, <2>1, <2>2, <2>3, <2>4, SaveKeeps, AuditActionKeeps, RefuseKeeps,
       WithholdKeeps, TellKeeps, DiesKeeps DEF Sending
<1>2. ASSUME NEW r \in Report, Reporting(r)  PROVE IInv'
  BY <1>2, UnsubscribeKeeps, WebhookKeeps, SuppressKeeps, ReportFailsKeeps DEF Reporting
<1>3. CASE UNCHANGED vars
  <2>1. Typed'
    BY <1>3 DEF IInv, Typed, vars, mailVars, adminVars, reportVars
  <2>2. \A s \in Sender : SenderInv(s)'
    BY <1>3, SenderKeeps DEF IInv, vars, mailVars, adminVars, reportVars
  <2>3. \A r \in Report : ReportInv(r)'
    BY <1>3 DEF IInv, ReportInv, vars, reportVars
  <2>4. ReportsAreHeeded'
    BY <1>3 DEF IInv, ReportsAreHeeded, Suppressed, vars, reportVars
  <2> QED  BY <2>1, <2>2, <2>3, <2>4 DEF IInv
<1> QED  BY <1>1, <1>2, <1>3 DEF Next

LEMMA Invariance == Spec => []IInv
<1>1. Init => IInv  BY InitHolds
<1>2. IInv /\ [Next]_vars => IInv'  BY StepKeeps
<1> QED  BY <1>1, <1>2, PTL DEF Spec

-----------------------------------------------------------------------------
(* The theorems *)

\* SuppressionService.suppress: no report, and nothing else, softens what is
\* suppressed.
THEOREM Hardens == Spec => SuppressionHardens
<1>1. ASSUME IInv, [Next]_vars
      PROVE  [/\ suppression # "none" => suppression' # "none"
              /\ suppresses_transactional(suppression) =>
                   suppresses_transactional(suppression')]_suppression
  <2>1. ASSUME NEW s \in Sender, Sending(s)  PROVE suppression' = suppression
    BY <2>1 DEF Sending, RunAction, SendDripEmail, ResendEmail, Begin, Save,
       AuditAction, RefuseToWithhold, Withhold, SendEmail, CheckSuppression,
       CheckFails, LogCancelled, LogWithheld, LogQueued, SendMail,
       SendMailFails, MarkAsSent, TellTheAdmin, Finish, SenderDies
  <2>2. ASSUME NEW r \in Report, Unsubscribe(r) \/ HandleWebhookEvent(r)
                                   \/ ReportFails(r)
        PROVE  suppression' = suppression
    BY <2>2 DEF Unsubscribe, HandleWebhookEvent, ReportFails
  <2> QED
    BY <1>1, <2>1, <2>2, SuppressKeeps DEF Next, Reporting, vars
<1> QED  BY <1>1, Invariance, PTL DEF Spec, SuppressionHardens

\* handleProviderWebhook, sendEmail: what was reported of an address is heeded by
\* the list, and the list by the mails.
THEOREM Heeded == Spec => []SuppressedIsLeftAlone
<1>1. IInv => SuppressedIsLeftAlone
  <2> SUFFICES ASSUME IInv PROVE SuppressedIsLeftAlone  OBVIOUS
  <2>1. ReportsAreHeeded  BY DEF IInv
  <2>2. BarredMailStays  BY DEF IInv, Typed, SenderInv, BarredInv, BarredMailStays
  <2> QED  BY <2>1, <2>2 DEF SuppressedIsLeftAlone
<1> QED  BY <1>1, Invariance, PTL

\* runAction: what the admin is told of the mail is true, and what the borrower is
\* told was decided was saved.
THEOREM Truthful == Spec => []AnswersAreTrue
<1>1. IInv => AnswersAreTrue
  BY DEF IInv, Typed, SenderInv, MailInv, JobInv, AnswersAreTrue,
         AnswerTellsMail, MailFollowsSave
<1> QED  BY <1>1, Invariance, PTL

\* runAction, recordSuppressedEmail: nothing an admin did is missing in the audit
\* log when the request has ended, but for a write that failed.
THEOREM Audited == Spec => []WhatIsDoneIsAudited
<1>1. IInv => WhatIsDoneIsAudited
  BY DEF IInv, SenderInv, AuditInv, WhatIsDoneIsAudited
<1> QED  BY <1>1, Invariance, PTL

\* What the counters of getDeliveryStats count, apart.
LEMMA CountersApart ==
  ASSUME IInv
  PROVE  StatsAddUp
<1> DEFINE Q == With("queued")  F == With("failed")  C == With("cancelled")
           All == {s \in Sender : log[s].status # "none"}
<1>1. \A s \in Sender : /\ RowInv(s) /\ log[s] \in LogRow
                        /\ log[s].status \in Status
  BY DEF IInv, SenderInv, Typed, LogRow
<1>2. Bounced \cup Opened \subseteq Sent
  BY <1>1 DEF Bounced, Opened, Sent, RowInv
<1>3. /\ Sent \cap Q = {} /\ (Sent \cup Q) \cap F = {}
      /\ ((Sent \cup Q) \cup F) \cap C = {}
      /\ ((Sent \cup Q) \cup F) \cup C = All
  BY <1>1 DEF Sent, With, RowInv, Status
<1>4. /\ Sent \subseteq Sender /\ Q \subseteq Sender
      /\ F \subseteq Sender /\ C \subseteq Sender
  BY DEF Sent, With
<1> HIDE DEF Q, F, C, All
<1>5. ASSUME NEW S, NEW T, S \subseteq Sender, T \subseteq Sender, S \cap T = {}
      PROVE  /\ Cardinality(S) \in Nat /\ Cardinality(T) \in Nat
             /\ Cardinality(S \cup T) = Cardinality(S) + Cardinality(T)
  <2>1. IsFiniteSet(S) /\ IsFiniteSet(T)  BY <1>5, SenderAssumption, FS_Subset
  <2>2. Cardinality(S) \in Nat /\ Cardinality(T) \in Nat
    BY <2>1, FS_CardinalityType
  <2>3. /\ Cardinality(S \cap T) = 0
        /\ Cardinality(S \cup T)
             = Cardinality(S) + Cardinality(T) - Cardinality(S \cap T)
    BY <1>5, <2>1, FS_EmptySet, FS_Union
  <2> QED  BY <2>2, <2>3
<1>6. /\ Cardinality(Sent \cup Q) = Cardinality(Sent) + Cardinality(Q)
      /\ Cardinality((Sent \cup Q) \cup F)
           = Cardinality(Sent \cup Q) + Cardinality(F)
      /\ Cardinality(All)
           = Cardinality((Sent \cup Q) \cup F) + Cardinality(C)
  <2>1. /\ Sent \cup Q \subseteq Sender
        /\ (Sent \cup Q) \cup F \subseteq Sender
    BY <1>4
  <2> QED  BY <1>3, <1>4, <1>5, <2>1
<1>7. Cardinality(Sent) + Cardinality(Q) + Cardinality(F) + Cardinality(C)
        = Cardinality(All)
  BY <1>6
<1> QED  BY <1>2, <1>7 DEF StatsAddUp, Q, F, C, All

\* sendEmail, handleWebhookEvent, getDeliveryStats: a row of email_log says what
\* became of its mail, and the statistics count every row once.
THEOREM RowsTrue == Spec => []RowsAreHonest
<1>1. IInv => RowsAreHonest
  <2> SUFFICES ASSUME IInv PROVE RowsAreHonest  OBVIOUS
  <2>1. TypeOK
    BY DEF IInv, Typed, TypeOK, Job, LogRow, Reason, Answer
  <2>2. RowSaysWhatHappened
    BY DEF IInv, SenderInv, RowInv, RowSaysWhatHappened
  <2> QED  BY <2>1, <2>2, CountersApart DEF RowsAreHonest
<1> QED  BY <1>1, Invariance, PTL
=============================================================================
