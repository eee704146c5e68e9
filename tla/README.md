# Verification of the Ryer Loans backend

TLA+ models of the loan-application backend under `src/` (NestJS, Sequelize on
PostgreSQL, BullMQ on Redis), the TLC runs that check them, and TLAPS proofs of
the properties that matter most. The reference is the code; paths below are
relative to the repository.

## 1. The system

One PostgreSQL row per loan application. Four kinds of actor work on it at the
same time: admins pressing buttons, the borrower following one-time links, cron
jobs, and the drip-email worker. A NestJS process serves them from one event
loop: every `await` is a point where another handler may run, and with more than
one instance even that order is gone. No handler takes a row lock or checks a
version, and only intake uses a transaction.

| Component | State it keeps | Operations | Talks to |
|---|---|---|---|
| Status machine (`applications/application-status.machine.ts`) | none; the transition table | `canTransition`, `assertTransition`, `isTerminal` | workflow, expiry, tracker |
| Application workflow (`services/application-workflow.service.ts`, `application-detail.service.ts`) | `applications` row | one handler per admin button or borrower callback, all through `runAction` | links, drip, email, audit |
| Expiry sweep (`application-expiry.service.ts`) | the same row | hourly: close live files untouched for 45 days | drip, email |
| Borrower links (`borrower-action-token.service.ts`) | `borrower_action_tokens` | `issue`, `verify`, `consume`, `release`, `revokeOutstanding` | issued by workflow, drip, tracker; redeemed by borrower actions |
| Borrower actions (`borrower-action.service.ts`, `plaid/`) | attempt counter on the row | verify bank, sign, confirm deposit | links, workflow, Plaid |
| Status tracker (`application-status.service.ts`) | `blocked_attempts` as a throttle | look up a file, open two of the links | links |
| Intake (`application-intake.service.ts`) | inserts the row | blocking rules, duplicate flag, insert | drip, email |
| Drip (`queue/drip/`, `email-sequence/`) | `email_sequences` rows and BullMQ jobs | plan, enqueue, send, cancel | links, email, suppression |
| Admin sessions (`auth/`, `admin-users/`) | `admin_users`, `admin_sessions` | sign-in with TOTP, lockout, refresh rotation, revocation | guards |
| Reviews (`review-invitation/`, `review-request.service.ts`) | `review_invitations` | invite, submit, moderate, day-7 sweep | workflow, email |
| Documents (`documents/`) | `document_requests`, `documents`, object storage | request, upload, scan verdict | workflow |
| Email and suppression (`email/`, `email-log/`) | `email_log`, `email_suppressions` | pre-send gate, webhook, unsubscribe | everybody |
| Audit log (`audit-log/`) | `audit_log`, append-only | `log`, which never fails its caller | every action |
| Access control (`common/roles/`, `common/guards/`) | none; the role matrix | `roleCan`, the guards | sessions |
| Dashboard, search, validators, crypto | none | | |

What is hard about it: read-check-save handlers without locks; a link that is
read by one statement and claimed by another while issuers revoke and insert;
handlers that commit half of their work before the next await; jobs that are
retried after they have already sent; sweeps that race with people.

What makes each component correct:

- the row: no stage is reached but from an earlier one; what a status obliges
  the lender to record is recorded; a payout never exceeds an offer; what decides a
  file says so in its status and its decision; an abandoned file is closed;
- the links: one request per link, at most one move of the file per link, an
  attempt limit that parallel guesses cannot escape by much, superseded links
  that stay dead;
- the drip: next to nothing is sent once a sequence is called off, every step
  ends in one final state, its row tells what the borrower got, and nobody gets
  the same reminder without end;
- the sessions: a revoked session stays revoked, a token that was exchanged is
  never accepted again, rights follow the account, and the lockout is outrun by no
  more than the requests that overlap;
- intake: one live file per person, look-alikes flagged, every committed file
  confirmed and followed up, no connection lost to a submission that succeeds;
- the schedule: reminders keep their distance, the night and the Sunday free,
  whatever pushes them around;
- reviews: one review per file, none published without consent, the newest mail
  holds the link that works, every due file is asked, once per sweep at most;
- documents: every row has an object, and what was found infected stays deleted;
- the emails: the log and the admin's screen say what happened, a suppressed
  address is left alone, an action is on record.

## 2. Modules

| Module | What it is |
|---|---|
| `StatusMachine` | the statuses, the transition table and its predicates, as data |
| `LoanLifecycle` | abstract specification: what the status column of one row promises |
| `ApplicationWorkflow` | one application row under concurrent handlers and the expiry sweep |
| `ApplicationWorkflow_proofs` | its theorems |
| `OneTimeLink` | abstract specification: what a link promises to the file it acts on |
| `BorrowerLinks` | the token rows of one application and purpose, issuers and visitors |
| `BorrowerLinks_proofs` | its theorems |
| `DripQueue` | the drip reminders of one application: rows, jobs, intake, handlers, workers |
| `DripQueue_proofs` | its theorems |
| `AdminSessions` | one admin account, its sessions and refresh tokens, and the changes a super admin makes to it |
| `RefreshFamily` | abstract specification: what sessions promise to whoever holds a refresh token |
| `AdminSessions_proofs` | its theorems |
| `DripSchedule` | pure: time zones, the slots of the reminders and the rules that move them |
| `Intake` | submissions and tracker lookups over the rules, the transaction, the pool and the schedule |
| `Intake_proofs` | the theorems about `Intake` and `DripSchedule` |
| `Reviews` | the invitation, submission and moderation of one file's review, and the daily sweep |
| `Reviews_proofs` | its theorems |
| `Documents` | the document requests of one application, uploads, object storage, verdicts, downloads |
| `Documents_proofs` | its theorems |
| `Outbox` | what follows an action: save, audit row, email, log row; webhooks and the suppression list |
| `Outbox_proofs` | its theorems |
| `MC...` | operation sets, instants and symmetry for TLC |

### ApplicationWorkflow

`row` is the application row reduced to the columns the properties speak of:
`status`, `decision`, `amount_requested`, `funded_amount`, and `stamps`, the set
of columns that go from NULL to a value and are never cleared (bank_verified,
approved terms, reason codes, deposit amounts and so on). A handler is a read
with its guards (`Begin` and the action named after the method), and a save.
`snap[h]` is what it loaded, `next[h]` what it is about to save.

The save is modelled as Sequelize's: an UPDATE of the columns whose value
differs from the loaded one, over whatever the row holds by then (`Merge`).
`recordBankVerified` (for a file that skipped a state) and
`confirmVerificationDeposit` save twice; the first save is `EarlySave`. A
restart or a failed statement drops a handler between any two steps (`Crash`).

A borrower callback reads the row twice, in `BorrowerActionService` and in the
workflow service; here the two reads are one step (both guards are conjuncts),
while `BorrowerLinks` keeps them apart. `updated_at` is the boolean `untouched`:
45 days are far longer than any handler, so `FortyFiveDaysPass` only happens
while none runs.

Mapped operations: `updateStatus`, `markAsCalledIn`, `sendBankVerification`,
`recordBankVerified`, `requestDocuments`, `editApplication`,
`sendLoanAgreement`, `recordAgreementSigned`, `sendVerificationDeposit`,
`confirmVerificationDeposit`, `approve`, `decline`, `fund`, `withdraw`, and the
sweep. Left out because they write no column the model has: `assignAgent`,
`reveal`, notes; `sendReviewInvitation` and `resendEmail` are in `Reviews` and
`Outbox`.

### BorrowerLinks

The token rows are four sets of links (`created`, `revoked`, `consumed`,
`expired`). An issuer revokes with one statement, inserts with the next, and
saves and emails afterwards. A visitor reads the link, claims it with the
conditional UPDATE, loads the file, and then acts, misses, or hands the link
back. `stage` is the file as seen from the one purpose the run is about;
`FileMovesOn` stands for every other handler. `Purpose` selects bank
verification (with Plaid between the two reads of the link), agreement
signature, or deposit confirmation (with the attempt counter).

### DripQueue

`step[s]` is the `email_sequences` row of a step, `job[s]` and `tries[s]` its
BullMQ job. Intake plans (`Persist`, then `Enqueue`: all rows before the first
job). A handler saves the row and tears down the sequences its new status has no
use for (`Move`, then `CancelRows`, one UPDATE per sequence, then `RemoveJob`
one by one); `markAsCalledIn` and `recordBankVerified` name sequences of their
own, and two handlers save a status on the way (`EarlySave`). A worker goes from
await to await: it reads the file (`Read`), asks the suppression list and
decides (`Check`), and then cancels the step, or issues the link and asks the
list again (`Prepare`), sends (`Deliver`) and writes the row (`Record`,
`Withhold`). A failure inside the try block goes through `Failing`, one outside
it (`Breaks`) retries without touching the row.

A job that runs is under its worker's lock, which BullMQ renews; when the worker
died, or is alive but could not renew it, the job is taken for stalled and handed
out once more (`Stall`, `WorkerDies`, `LockLapses`). A live worker does not know
and goes on, with the file it read and the attempts it counted when it began
(`made`): two workers then run one step, and what the first one reports of the
job at its end the queue refuses (`lapsed`, `Refused`). Whether Redis is out of
reach or the event loop was busy is the same to the model.

Handlers work on copies without a lock, so a save may start from any status the file
has ever held (`been`); a file may go back, and a sequence be on again. The address
is part of the file, because an edit may change it to one that is not suppressed,
while a worker still writes to the old one. What can fail is a parameter (`Faults`):
a mail is refused or its answer is lost, a statement, a Redis call, the process, the
lock of a job. `late` counts the mails of a sequence since it was last called off.
`mishap` collects the steps that met a fault of their own other than a refused mail,
or were torn down before intake had planned them: what no row can tell about them is
said by the properties of the others.

When a step is due is not modelled: a waiting job may run at any moment, or wait
through any number of other steps, and the properties hold for every schedule.
An admin may send a reminder again by hand (`resendEmail`, in `Outbox`), outside
the queue; `mails` counts what the queue sends.

### AdminSessions

`account` is the row of `admin_users` reduced to what sign-in looks at: active,
role, failed attempts, the lock (none, set and still ahead), whether TOTP is
enrolled. `row[s]` is a row of `admin_sessions`: made, revoked, too old, and the
numbers of its current and previous refresh token. A request goes from await to
await with a copy of what it read (`user`, `copy`, `token`), and a write changes the
columns that differ from the copy (`Save`). Sign-in is `Login`, the password compare
(`PasswordMatches`, or `RegisterFailedAttempt`), enrolment, `VerifyMfa` and the
session's rows; a refresh is `ConsumeRefreshToken`, `Refresh` (which reads the
account again) and `RotateRefreshToken`, or `DetectReuse` and the revocation of
everything; a guarded request is `CanActivate`, `RolesGuard` and what the account
may do. What an administrator changes is written first, and the sessions are revoked
by a statement of its own (`RevokeAllForUser`). Nothing says that a request goes on,
which stands for one that dies. `spent` are the tokens that were exchanged, `misses`
the wrong passwords tried since the count was last cleared and the writes of the
count that went over one they had not seen (`Overtaken`), `overlapped` the sessions
whose sign-in ran across a change of the account. What a request has no more use for
it forgets (`Leave`). `RefreshFamily` is the view from outside: a session opens,
accepts ever newer tokens, expires, is revoked.

### DripSchedule and Intake

`DripSchedule` has no variables: minutes since a Sunday, UTC, offsets of the
zones (standard time), the table from states and ZIP prefixes to zones, the ideal
slots of both sequences (`Ideal`), and `buildDripSchedule` with its rounds
(`Rounds`), as a recursive function over the number of rounds. What a plan must
obey stands next to it.

`Intake` composes it with the requests of anonymous visitors. A submission asks
the three blocking rules one statement at a time (`AssertNotBlocked`), looks for
look-alikes, takes a connection, inserts, commits, confirms and plans. An insert
that fails keeps its connection, as the code does (`persist` has no rollback);
the answer of a commit may be lost; a request may wait for a connection in vain;
the process may die and its connections with it. A blocked submission and a
failed lookup are rows of one table, and the throttle of the tracker counts only
the latter. `with` is, for each file, the ones its submission could not see.
`CloseFile` and `NinetyDaysSinceSubmission` stand for the staff and for time.

### Reviews

The row of `review_invitations` holds the link (a number), the submission and
the decision. Admins and the daily sweeps mint a link and then mail it
(`IssueForApplication`, `SendReviewInvitationEmail`). Each instance runs the cron
for itself, so there is a set of sweeps: one finds the file without an invitation
(`SendDueReviewRequests`) and then calls `sendReviewInvitation`, which reads the
row once more (`Reread`) and re-issues what it finds. The query takes
`BATCH_LIMIT` files in no order and does not leave out those already invited, so
while more are in the window (`age = "crowded"`) it may or may not return this
one. The borrower reads the row
by the link and writes the review onto it; a moderator reads it by id and writes
the decision. Each write changes the columns that differ from the copy. The
unique index refuses the second of two rows (`CreateRefused`). `doubled` and
`contested` say that two submissions, or two decisions, overlapped, `crossed` that
the link on the row was stored while another link's mail was on its way, and
`rivals` how many sweeps were under way at once.

### Documents

`documents[k]` and `bucket[k]` are the row and the object of a storage key. An
upload checks the type against the bytes, counts the files of the request, puts
the object, and inserts the row; each call may fail, lose its answer, or be the
last one before the process dies. A verdict reads the row, purges the object
when it is infected, and writes the columns that changed. `lost` and `torn` are
the keys at which a fault took one of the two away: what remains must agree.
`recordScanResult` has no caller in the repository; it is modelled as the seam
for a scanner it is documented to be.

### Outbox

Each sender is one admin action, one re-send or one reminder with the email it
sends. An action saves, writes its audit row (which may fail silently), and
sends, withholds with a reason or is refused for want of one. `sendEmail` asks
the suppression list, writes the log row, hands the mail over and writes the
message id; any of these may fail. Reminders and the request for a review are the
mails an unsubscribe stops (`transactional`). Webhook events and unsubscribes
arrive in any order and number, also before the message id of a mail is in the
log; an event may lack the id, and then updates no row, or the address, and then
suppresses nobody (`HandleWebhookEvent`); what a report that was carried out said
is in `heeded`. The keys of `statusConfig`, the drip templates and the ones that
carry a link decide what can be sent again, and the request for a review, which
passes no key, is logged under the status when it is withheld (`RowKey`).

## 3. Runs

| Run | Checks | Bounds |
|---|---|---|
| `workflow_concurrent` | `TypeOK`, `NoStageSkipped`, `FundedWentThroughPipeline`, `FundedWithinOffer` | 2 overlapping requests, 2 amounts; every handler with a step of its own (no generic status change, no sweep) |
| `workflow_sweep` | `ObligationsRecorded`, `AbandonedFileCloses` | all operations; 1 request against the sweep, 1 amount, fairness |
| `workflow_serial` | `DecisionAgrees`, `FollowsLifecycle` | all operations, 2 amounts, handlers that do not overlap |
| `links_deposit` | `TypeOK`, `OneHolder`, `GuessesBounded`, `SupersededUnlessReturned` | 3 links, 1 issuer, 2 visitors, limit 1, restarts |
| `links_bank` | `LinksAreOneTime` | 2 links, 2 overlapping issuers, 2 visitors, restarts |
| `drip_faults` | `TypeOK`, `LateMailsBounded`, `CopiesBounded` | 1 step, 2 workers, 2 addresses, 2 statuses, 3 attempts (the code's); refused mails, lost answers, restarts, locks that lapse |
| `drip_settles` | `RowTellsMail`, `EveryStepSettles` | 1 step, 1 worker, 3 attempts (the code's), 4 statuses; failing mails, statements and Redis calls; fairness |
| `admin_sessions` | `RightsAreCurrent`, `SessionsAreSound`, `GuessesAreBounded`, `FollowsRefreshFamily` | 1 session, 2 overlapping requests, 2 attempts before the lock, 3 refresh tokens, 2 revoking changes, roles super admin and agent |
| `intake` | `IntakeRulesHold`, `OnlyFailedInsertsLeak`, `LookupsBounded`, `SchedulesHold`, `FollowedUp` | 2 requests, 2 people in 2 zones who share 2 signals, 2 files, 2 connections, 1 failed lookup allowed; 4 instants of submission, 56 for the rules alone |
| `reviews` | `PublishedIsSound`, `NewestMailWorks`, `SweepsAskOnce`, `ReviewIsOneShot`, `DueFilesAreInvited` | 2 slots for requests and 2 for sweeps, one of them shared; 2 texts, 1 reason, 2 links, 1 crash; fairness of the sweeps |
| `documents` | `RowsAndObjectsAgree`, `FilesBounded`, `DeletedForGood` | 1 request with 2 checklist items, 2 uploads, 2 verdicts, 1 download, 3 keys, a ceiling of 1 file; a true type, its sibling, and one that is refused |
| `outbox` | `RowsAreHonest`, `SuppressedIsLeftAlone`, `AnswersAreTrue`, `WhatIsDoneIsAudited`, `SuppressionHardens` | 2 senders, 2 reports at a time, any number one after the other; a status notice, a reminder, the request for a review; an email edited, withheld with and without a reason; a hard bounce, an open, an unsubscribe |

Two requests are enough for the lost updates a row without a lock allows: one that
read early and one that moves the row underneath it; a third only repeats the
pattern. Two amounts give an amount below and above the approved one. Two links are
the superseded and the newest; the third is for a link that is superseded twice.
`MaxAttempts` is 1 instead of 10 so that the limit is reached. Two workers on one
step are what it takes to send two late mails, the bound of `LateMailsBounded`;
three attempts and a stall send four copies of one reminder, the bound of
`CopiesBounded`, which the run reaches; two addresses switch a sequence off and on
again. One step is enough for both runs, since steps share nothing but the file; its
four statuses are one on each side of every rule and a terminal one, and both
handlers with sequences of their own run. `InUse` bounds a run to the operations on
the path it is about; two requests with the generic status change as well are left
to the proofs, which cover every operation.

The sessions do not touch each other but through the account, so one is enough; two
requests make every overlap of two handlers. `GuessesAreBounded` counts the requests
that were overtaken and so needs no number of requests of its own; `LookupsBounded`
is the bound two requests can reach. Three tokens are a rotation and a replay after
it. A ceiling of one file and one failed lookup, instead of 20 and 5, make the
limits bite at once; two files are what a rule compares. Two links in `reviews` are
the two of a pair of invitations that overlap, or of one that supersedes the other;
its slots make two sweeps, two admins, or one of each. `SchedulesHold` evaluates
every plan of the instants given with up to two further emails on their way (139000
plans); one round less than enough is the mutant it is checked with. A hard bounce
and an unsubscribe are the two kinds of report the list tells apart; sending an
email as it stands is editing it less the audit row of the edit.

What the code does and its comments, messages or tests say otherwise. TLC finds
each when the sentence is checked as an invariant or action property; none is an
expectation of a run, and the properties above are what does hold.

- "States that have come to rest and can no longer move"
  (`application-status.machine.ts`): a request that read the file before another
  closed it saves its own status over the terminal one
  (`application-workflow.service.ts:1082`);
- "the approval is the authority for the disbursement"
  (`application-workflow.service.ts`): `fund` compares with `amount_requested`,
  which `editApplication` changes in every status, so an edit after the approval
  raises what may be funded; `FundedWithinOffer` is what remains true;
- "the newest email always holds the working link"
  (`borrower-action-token.service.ts`): of two overlapping issuers the one that
  emails last may carry the link the other one revoked;
- "the superseded link stops working the moment a new one is sent": the claim of
  `consume` asks for `consumed_at` only, so a link revoked between its read and
  its claim is still used, once;
- "used by the reconciliation sweep" (`email-sequence.service.ts:146`): there is
  no such sweep, and a step whose job was never added, or that was torn down
  while intake was planning it, stays scheduled for ever;
- the cooldown of a declined borrower is said to be measured from the decision
  (`application-intake.service.ts:147`), but the query filters on `created_at`: a
  file declined 90 days after it arrived blocks nobody;
- `decline` only asks the table, whose universal exits contain declined, so it is
  open from every live status, while `application-workflow.service.ts:773` says
  "Declinable from `underwriting` only" (`Decline`);
- "they are written together by the admin actions", of status and decision
  (`application-dashboard.service.ts:132`): a generic status change to withdrawn
  (`application-workflow.service.ts:144`) and the expiry close a file and leave the
  decision as it was, NULL or approved, so such a file is not among those withdrawn
  by decision (`DecisionAgrees` is what remains true);
- a save that changes no column does not move `updated_at`, so an action such as
  a re-sent agreement does not stop the sweep, while
  `application-expiry.service.ts:37` says "any admin or borrower action resets
  the clock" (`ChangesColumn`);
- a statement of the drip worker outside its try block that fails on the last
  attempt leaves the row scheduled without a job (`Breaks`), like
  a step without a reconciliation;
- `updateStatus` sends a file into `verification_deposit_sent` without amounts
  (`SendVerificationDeposit` is the only action that stamps them), which
  `borrower-action.service.ts:180` takes for a file older than the column;
- `PlaidController.exchange` consumes the link only after Plaid has answered: a
  link superseded meanwhile makes `consume` refuse, and the verification Plaid
  granted is not recorded (`Consume` from `"exchanged"`), which
  `application-workflow.service.ts:305` calls "the worse failure";
- `GuessesBounded` is the exact bound: with two links in use at once one guess
  more than `MAX_DEPOSIT_ATTEMPTS` goes through;
- a stale rotation or a stale first refresh token writes a refresh hash onto a
  revoked row, while `session.service.ts:166` says revoked rows carry none; the
  row stays refused by its `revoked_at` (`FollowsRefreshFamily`, in which a revoked
  session accepts nothing);
- one refresh token exchanged twice at once gives two answers, and which of the
  two tokens works is the later write's: no replay is detected
  (`ConsumeRefreshToken`);
- "Account lock after 5 failed attempts" (`auth.service.ts:30`): wrong passwords
  that overlap write over each other's count and can lower it or lift a lock, and
  nothing limits how many requests overlap. `GuessesAreBounded` is what remains
  true: the lock comes after `MAX_FAILED_ATTEMPTS` where no request was overtaken,
  and each one that was buys fewer than as many again. An `unlock` that read the
  account before it was locked leaves the lock standing;
- "revokes all other sessions" (`auth.controller.ts:163`): the one that changes
  its password is revoked too; a restart between a change of the account and
  `revokeAllForUser` leaves its sessions alive;
- `payoff_recorded_at` has no writer, so a funded file blocks its borrower for
  ever and the rule about paid-off loans is never reached (`Blocks`);
- `persist` never rolls back, and the retry of a unique id inside the aborted
  transaction cannot succeed (`InsertFails`), while
  `application-intake.service.ts:311` is written to make it;
- the sweep asks for files without an invitation row and creates the row before
  it sends: a mail that fails or is suppressed is never retried; withholding
  without a reason is refused after the old link was superseded (`Reviews`);
- "the newest email always holds the working link"
  (`review-invitations.service.ts:106`): of two re-sends that overlap the one that
  mails last may be the one that stored its link first (`crossed` in
  `NewestMailWorks`);
- "Idempotency comes from the invitation row" (`review-request.service.ts:36`):
  the sweeps of two instances can both find none, and the second re-issues the
  invitation of the first and mails it too (`SweepsAskOnce` counts the sweeps);
- the sweep "has no backlog to clear" (`review-request.service.ts:22`): its query
  is limited to 200 files, unordered, and does not leave out the ones already
  invited, so with more than 200 files funded within the window a due one may never
  be asked (`"crowded"` in `DueFilesAreInvited`);
- a withheld invitation is logged under the status, `funded`, so sending that row
  of the log again announces the disbursement a second time, which
  `application-workflow.service.ts:905` is written to avoid (`RowKey`,
  `ResendEmail`);
- two decisions that overlap can publish a review with a rejection reason, and a
  submission that overlaps another keeps the consent of one with the words of
  the other (`contested` and `doubled`);
- "a row that outlives its object is a download button that 500s"
  (`storage.service.ts:84`): an insert whose answer is lost has its object
  removed under the row it made, and an infected object is purged before its row
  says so (`torn`);
- the webhook answers 200 when the write of the log row fails, and the
  suppression behind it is skipped (`ReportFails`); a bounce that overtakes
  `markAsSent` is not in the log, and one that does not name the address suppresses
  nobody although its message id names the mail;
- a stalled job is not only a dead worker's: one whose lock lapsed is handed to a
  second worker while the first still sends, and the borrower gets the reminder of
  one step twice (`LockLapses`, within `CopiesBounded`);
- `bank_verification_pending` is an alias of a template that carries a link but
  not in `LINK_BEARING_TEMPLATES`, so a generic status change sends that notice
  without its button, and it is offered for a re-send (`hasStatusTemplate`),
  which `email.service.ts:141` rules out.

Fairness. `workflow_sweep` assumes that the scheduler keeps starting sweeps (`WF` of
`SelectInactive`; a cron expression fires every hour whatever the last run did) and
a sweep is not interrupted at its save every hour for ever (`SF` of its save).
`drip_settles` assumes that intake and a handler that have begun go on to their next
await (`WF`; an event loop does not drop a continuation, and a restart is a fault of
its own), and that a worker takes a job that waits and goes on with it (`WF`;
BullMQ's worker loop, delays and backoffs are finite). `reviews` assumes that the
daily sweep runs again while a file stays due (`WF` of its query; five weeks are 35
runs) and goes on with a file it has found (`WF` of its continuation); a crash is a
fault of its own and bounded. Of the sweep's query it is assumed that it returns the
file unless the window is crowded (`WF` of `age = "due" /\
SendDueReviewRequests(s)`), which is what a limit of 200 without an order promises.
Nothing is assumed of admins or borrowers.

## 4. Proofs

For every set of requests, amounts, links, issuers, visitors, steps, workers,
sessions, people, uploads and senders, and every time, zone and set of other
mails:

| Theorem | Statement |
|---|---|
| `TypeCorrect` (three modules) | `Spec => []TypeOK` |
| `StagesInOrder` | `Spec => []NoStageSkipped` |
| `FundedInOrder` | `Spec => []FundedWentThroughPipeline` |
| `ObligationsMet` | `Spec => []ObligationsRecorded` |
| `PayoutWithinOffer` | `Spec => []FundedWithinOffer` |
| `DecisionConsistent` | `SerialSpec => []DecisionAgrees` |
| `ImplementsLifecycle` | `SerialSpec => FollowsLifecycle` |
| `AtMostOneHolder` | `Spec => []OneHolder` |
| `GuessesNeedLinks` | `Spec => []GuessesBounded` |
| `ImplementsOneTimeLink` | `Spec => LinksAreOneTime` |
| `RulesAgree` | what is torn down for a status is what is not sent in it |
| `CopiesFew` | `Spec => []CopiesBounded` |
| `LateMails` | `Spec => []LateMailsBounded` |
| `NewestOpens` | one issuer: `Spec => []SupersededUnlessReturned` |
| `RowsTell` | `Spec => []RowTellsMail` |
| `SessionsSound` | `Spec => []SessionsAreSound` |
| `RevocationHolds` | `Spec => RevokedForGood` |
| `ImplementsRefreshFamily` | `Spec => FollowsRefreshFamily` |
| `RightsCurrent` | `Spec => []RightsAreCurrent` |
| `GuessesFew` | `Spec => []GuessesAreBounded`, for any number of parallel requests |
| `RulesHold` | `Spec => []IntakeRulesHold` |
| `Leaks` | `Spec => []OnlyFailedInsertsLeak` |
| `LookupsFew` | `Spec => []LookupsBounded` |
| `FollowUps` | `Spec => FollowedUp` |
| `RestIsRules` | a round changes nothing exactly when the plan keeps the four rules of the schedule |
| `PlansFollowTheGrid` | a plan has the nine reminders of the grid, none early, two hours apart |
| `TwoMailsSettle` | with any two mails besides the confirmation, from any minute and in any zone, the rounds come to rest and the plan keeps every rule, its steps in order |
| `PlansOnGrid` | `Spec => []PlanOnGrid`: what `startSequences` plans has the grid's reminders and keeps every rule, for the zone found for the address |
| `SchedulesKept` | `Spec => []SchedulesHold`, where the table finds the zone of each address |
| `PublishedSound` | `Spec => []PublishedIsSound` |
| `NewestMail` | `Spec => []NewestMailWorks` |
| `AskedPerSweep` | `Spec => []SweepsAskOnce`, for any number of instances |
| `AnswerStays` | `Spec => ReviewIsOneShot` |
| `RowsAndObjects` | `Spec => []RowsAndObjectsAgree` |
| `DeletionIsFinal` | `Spec => DeletedForGood` |
| `FilesFew` | `Spec => []FilesBounded` |
| `Hardens` | `Spec => SuppressionHardens` |
| `Heeded` | `Spec => []SuppressedIsLeftAlone` |
| `Truthful` | `Spec => []AnswersAreTrue` |
| `Audited` | `Spec => []WhatIsDoneIsAudited` |
| `RowsTrue` | `Spec => []RowsAreHonest` |

The workflow argument. None of the properties is inductive: a save writes a
status that was checked against a row that no longer exists. `IInv` therefore
says of each handler what its stale copy still guarantees: the status it loaded
was held by the row once (`visited` only grows), what it is about to save is a
legal hop from there, carries the columns that status obliges, and stays within
an amount that was on offer. A merge of a stale copy into the row keeps all of
that, since stamps are never cleared. `FundedInOrder` follows from
`NoStageSkipped` alone, by walking the transition table backwards. For handlers
that do not overlap `SerialInv` adds that the copy is the row.

The link argument. `IInv` is: whatever a request holds past its claim is
consumed, and no two requests hold the same link. The guess bound needs a
stronger `GuessInv`: attempts so far plus the requests about to increment are at
most `MaxAttempts - 1` plus the number of links, because a request counts
against the limit only while it holds a link nobody else holds. The refinement
maps a consumed link to "open" while some request holds it and to "spent"
afterwards. `NewestOpens` is for one issuer, as the run is: between its revoke
and its insert nothing is open but what was handed back, and with two issuers
the second one's revoke may come between.

The drip argument. `CopiesFew` rests on who holds the lock of a job (`LockInv`): at
most one worker does, the job is then active and the worker has counted the attempts
the row counts; a worker whose lock lapsed can change nothing of the job, and a step
intake has still to enqueue was never added. `CopiesInv` then adds up, for each
step, the mails that went out, the workers on their way to one, with a lock or
without, and `Left`, the attempts and the stall the job has yet: together never more
than `Attempts + 1`. A worker that takes the job turns one that is left into one on
its way, a send turns that into a mail, a retry has used an attempt up, and a stall,
dead or live worker alike, the one stall. `LateMails` counts ahead: `MaySend(key)`
are the workers whose attempt may still end in a mail, because they are past the
check or will pass it on the copy they read. While a sequence is called off nobody
enters that set, since whoever reads the file now will not pass; a late mail takes
its worker out of it. So `late[key] + |MaySend(key)|` never exceeds the number of
workers (`LateInv`), whatever is retried. That the count starts again when a stale
save or an edit turns the sequence on is why no assumption on overlapping handlers
is needed. `LateMailsBounded` and `EveryStepSettles` go by the code's rules; that
neither rule set forgets a status the other has is `RulesAgree`, a fact about the
two alone. `RowsTell` needs what a step looks like while it is in a worker's hands:
not sent, one mail exactly between the send and the write of the row, and never
unplanned, because all rows are written before the first job is added.

The session argument (`AdminSessions_proofs`). A request writes a token it has
just minted, which is larger than any before: a row's current token, the one in a
request's copy and every one that was exchanged are at most what was minted for
the session (`minted`). So a token that was exchanged is never current again,
whichever of two rotations writes last. `revoked` stays
because a write carries only the columns that differ from its copy, and none of
the writes of a session row has `revoked_at` going back to NULL. The refinement
maps a row to "unopened", "open", "expired" or "revoked" and to the token it
answers to, which is none unless it is open. `CreateSession` opens; a minted token
written to an open row renews, and written to a row that has ended meanwhile it
is a stutter, hash and all; the conditional statement of `revokeAllForUser`
revokes exactly the rows that are not revoked yet, and `revoke` of a stale copy
one of them or none.

`RightsCurrent` is not inductive as it stands, because a role is read long before
the token that carries it is signed. `RightsInv` says of every role on its way
into a token, and of every role in one, that the account is active and has it
(`Holds`) or that it is `Excused`: the session is dead, its sign-in ran across a
change, or the revocation is still to come. A change of the role or a deactivation
is also the start of a revocation, so it excuses
everything at once; `RevokeAllForUser` takes the excuse away and leaves no session
alive. A session made by a request that read the account in an earlier `epoch` is
`overlapped`.

`GuessesFew` is a matter of adding up, for any limit and any number of requests.
`Rank` says how far the row is on its way to a lock: the counter, or `MaxFailed` when
it is locked. A wrong password counted from a copy that is as the row is moves the
rank up by one; a request that writes over what it has
not seen, be it a wrong password, a right one or an `unlock`, sets it back by fewer
than `MaxFailed` and is counted as overtaken. Guesses are counted anew once the
lock has passed or the counter is cleared. So the wrong passwords are at most
`MaxFailed` for each overtaken request and the rank (`Counted`), and the rank is below
`MaxFailed` until the account is locked. `Unread` is the rest: no comparison has read
a lock that is ahead, because `login` refuses it.

The intake argument (`Intake_proofs`). A rule that has let a form through says
nothing of files committed later, and those are in `newer`. `IInv` therefore has,
for a request between its first rule and its commit, what each rule passed still
says of every file it could see (`RulesPassed`, `FlagTells`): past the first rule
such a file is declined or closed, and can only grow older. At the commit this
becomes the invariant of the pair of files. Connections are counted: those out are
the requests inside a transaction and the inserts that failed, and no other step
takes one without giving it back. `LookupInv` counts the lookups on record and the
requests past the check, each of which was below the limit when it was counted.

The schedule argument, in the same module. Quiet hours, the shift off a Sunday and
the distance to other mails only move a reminder forward; sorting is a permutation
of nine; spreading sets each reminder two hours after the one before, at least. So
each round keeps the reminders, moves none back and ends two hours apart
(`RoundsMove`), whatever the number of rounds, which is induction along the eight
rounds there are. A round that changes nothing has found nothing to move, which is
what the rules say, and the other way round (`RestIsRules`): the loop of
`buildDripSchedule`, which stops at the first round without a change, never stops
on a plan that breaks a rule, unless the eight rounds run out.

They do not run out, with two mails besides the confirmation at any time whatever
(`TwoMailsSettle`). The times of a reminder from round to round are a trail of
integers, counted from the midnight before the submission (`Trails`). A round
pushes each reminder out of the night, the Sunday and the way of the mails and
then holds it two hours behind the one before it (`Pushed`, `Following`), so the
nine trails are determined one after the other (`TimetableExists`). A day's three
reminders start at ten, half past two and six. From what comes before them, the
late first reminder or the day before, it follows that no reminder is pushed past
the next, that nothing moves in the seventh round, and where the last of the day
comes to rest (`OneDay`): by eight the next morning; by ten, with both mails behind
it; or by noon, when one mail went by the evening and the other goes that morning
(`Arrives`). The last day is the same with the Sunday rule, which moves the last
reminders on by a day when theirs is a Sunday or they are pushed into one
(`LastDay`, `LastDayOrSunday`). Since pushed times
are in order, the sort of the first round puts the slots in the order of the
clock and the later ones change nothing, but that the first bank reminder of a
submission in the evening and the first call-in may be pushed to the same minute,
where the sort keeps them as the grid has them (`ByTime`, `ByTime2`). So
the code's rounds are the timetable's (`FirstRoundOnTime`, `NextRoundOnTime`), the
seventh changes nothing, and `RestIsRules` says what that means
(`SettlesInSixRounds`). `PlansOnGrid` is then the invariant of the planned
reminders, and `SchedulesKept` reads it on the borrower's own clock.

The review argument (`Reviews_proofs`). A borrower's copy of the row is
unanswered while the form is in hand, so unless two submissions overlapped the
row it writes onto is unanswered too, and the words and the consent are of one
form. A request that is about to mail has the link of the row, unless a link was
stored while another's mail was on its way (`TokenSent`), and a link that was minted
is in a request's hands until it is mailed or known not to be. For `AskedPerSweep` the
mails of the sweeps and the sweeps still under way are, once there is a row, at most
the most that ever overlapped (`SweepsOnce`): from then on no sweep takes the file up,
and each that did has one mail to send.

The document argument (`Documents_proofs`). A storage key belongs to one upload
until its row is made, so the object and the row under a key have one author; a
key at which a call failed with its effect done is in `lost` or `torn`, and
verdicts touch only rows that exist. For the ceiling, the files of a request
and the uploads counted for it and still to come are together at most
`MAX_FILES_PER_REQUEST - 1` and the number of uploads (`RoomInv`): each of them
was below the ceiling when it was counted, and an insert moves one from the
second to the first.

The outbox argument (`Outbox_proofs`). `SenderInv` says of each sender, by its
next step, what its row, its mail and its audit rows are; a step of one sender
touches nothing of another's, and a report only rows that carry a message id.
Each report suppresses before it counts as carried out (`heeded`).
That suppression only hardens makes a mail that was barred at the beginning
barred at the check.

The assumptions are the named ones of the modules: the sweep is not a request of
`ApplicationWorkflow`, amounts and limits are positive, `NoLink`, `NoKey`,
`NoSession`, `NoText` and `NoReason` are values of their own, workers, sweeps,
senders, uploads and keys are finitely many, there is a role, a person and a text at
least, instants are natural numbers and the zones of addresses are among those of
the table, the two sequences have no step in common, `Reached`, `Faults`, `Told`,
`Choice` and `Granted` name what exists. `SchedulesKept` has one hypothesis more:
that `resolveTimezone` finds the zone each person of the model really lives in, as
it does for the addresses of the run; for an address the table is wrong about the
rules hold by the clock the table gives it, and by no other (`PlansOnGrid`, which
has no such hypothesis). The invariants were checked by TLC before they were proved.

Model-checked only: `AbandonedFileCloses`, `EveryStepSettles` and
`DueFilesAreInvited`, because liveness under fairness is out of the prover's
reach. Every safety property of a run is a theorem. Of a schedule with more than
two further mails known ahead it is not claimed that the rounds come to rest;
what holds of it is `PlansFollowTheGrid` and `RestIsRules`.

## 5. Plan

1. Compositions: the links with the drip worker that issues them.
2. The change of clocks in `DripSchedule`.

## 6. Not modelled

- The rendering of emails, the dashboard and the search: they read and format.
- The validators, the encryption of fields, the masking of personal data and the
  unsubscribe signature: pure functions on strings.
- State availability: a table with a flag and a cap, read in one statement.
- Routing, request shapes and wiring; what a guard asks of a request is in
  `AdminSessions`.
- `assignAgent`, `addNote` and `reveal`, which append or write columns nothing
  else reads; `AdminUsersService.create`, whose row nobody has yet;
  `purgeExpired`, `getDuePendingSteps` and `SuppressionService.remove`, which
  have no caller.
