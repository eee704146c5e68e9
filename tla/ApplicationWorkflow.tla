------------------------- MODULE ApplicationWorkflow -------------------------
(***************************************************************************)
(* One application row and the handlers that work on it at the same time:  *)
(* admin buttons and borrower callbacks (ApplicationWorkflowService, the   *)
(* edit of ApplicationDetailService) and the hourly expiry sweep.          *)
(*                                                                         *)
(* A handler is a read of the row (findOrFail or the sweep's findAll), its *)
(* guards, some awaits, and a save.  Nothing locks the row in between and  *)
(* the save is an UPDATE ... WHERE id of the columns whose value differs   *)
(* from the one the handler loaded, so the row a handler writes to need    *)
(* not be the one it checked.                                              *)
(***************************************************************************)
EXTENDS StatusMachine, Naturals

CONSTANTS Request,   \* concurrent admin and borrower requests
          Sweep,     \* the expiry cron job
          Amount,    \* loan amounts, in whole dollars
          InUse      \* the operations that occur: all of them, or fewer to
                     \* bound a run

ASSUME RequestAssumption == Sweep \notin Request
ASSUME AmountAssumption == Amount # {} /\ Amount \subseteq Nat \ {0}

VARIABLES
  row,         \* the application row
  untouched,   \* its updated_at is older than the 45-day cutoff
  pc,          \* what each handler does next
  op,          \* which operation it serves
  snap,        \* the column values it loaded (Sequelize's previous values)
  next,        \* the column values it is about to save
  visited,     \* history: every status the row has held
  offered,     \* history: every amount the row has held while approved
  withdrew     \* history: the withdraw action has been saved

rowVars     == <<row, untouched>>
handlerVars == <<pc, op, snap, next>>
historyVars == <<visited, offered, withdrew>>
vars == <<rowVars, handlerVars, historyVars>>

Handler == Request \cup {Sweep}

PRE_VERIFICATION_STATUSES == {"pending_call", "in_review"}

\* Reached only through their own action, never by a generic status change.
\* (Mutant: approve is forgotten.)
DedicatedWithoutApprove == {"declined", "funded"}

DEDICATED_ACTION_STATUSES == {"declined", "approved", "funded"}

\* Columns that go from NULL to a value and are never cleared again.
Stamp == {"bank_verified", "agreement_sent_at", "micro_deposit_amounts",
          "micro_deposit_confirmed_at", "approved_terms", "decline_reasons"}

Decision == {"none", "approved", "declined", "withdrawn"}

Row == [status : Status, decision : Decision, amount_requested : Amount,
        funded_amount : Amount \cup {0}, stamps : SUBSET Stamp]

Operation == {"none", "updateStatus", "markAsCalledIn", "sendBankVerification",
              "recordBankVerified", "requestDocuments", "editApplication",
              "sendLoanAgreement", "recordAgreementSigned",
              "sendVerificationDeposit", "confirmVerificationDeposit",
              "approve", "decline", "fund", "withdraw", "expire"}

\* What the variables of a handler at rest hold.
Blank == [status |-> "received", decision |-> "none",
          amount_requested |-> CHOOSE a \in Amount : TRUE,
          funded_amount |-> 0, stamps |-> {}]

-----------------------------------------------------------------------------
(* Reading the row and checking it *)

\* A handler has read the row and its guards passed: it remembers what it
\* read, and n is what it will save.  Two operations save one status on the
\* way to another.
Begin(h, o, n) ==
  /\ pc[h] = "idle"
  /\ o \in InUse
  /\ pc'   = [pc EXCEPT ![h] =
                 IF \/ o = "confirmVerificationDeposit"
                    \/ o = "recordBankVerified"
                       /\ row.status # "bank_verification_pending"
                 THEN "early_save" ELSE "run_action"]
  /\ op'   = [op   EXCEPT ![h] = o]
  /\ snap' = [snap EXCEPT ![h] = row]
  /\ next' = [next EXCEPT ![h] = n]
  /\ UNCHANGED <<rowVars, historyVars>>

UpdateStatus(r) ==
  \E to \in Status \ DEDICATED_ACTION_STATUSES :
    /\ canTransition(row.status, to)
    /\ Begin(r, "updateStatus", [row EXCEPT !.status = to])

\* (Mutant: the flag is written where the status belongs.)
MarkAsCalledInAsStatus(r) ==
  /\ row.status = "pending_call"
  /\ Begin(r, "markAsCalledIn", [row EXCEPT !.status = "called_in"])

MarkAsCalledIn(r) ==
  /\ row.status = "pending_call"
  /\ Begin(r, "markAsCalledIn",
           [row EXCEPT !.status = "bank_verification_pending"])

SendBankVerification(r) ==
  /\ "bank_verified" \notin row.stamps
  /\ ~isTerminal(row.status)
  /\ Begin(r, "sendBankVerification",
           [row EXCEPT !.status = IF @ \in PRE_VERIFICATION_STATUSES
                                  THEN "bank_verification_pending" ELSE @])

\* BorrowerActionService answers a file that is already verified itself.
RecordBankVerified(r) ==
  /\ "bank_verified" \notin row.stamps
  /\ row.status \in PRE_VERIFICATION_STATUSES \cup {"bank_verification_pending"}
  /\ Begin(r, "recordBankVerified",
           [row EXCEPT !.status = "bank_verification_complete",
                       !.stamps = @ \cup {"bank_verified"}])

RequestDocuments(r) == Begin(r, "requestDocuments", row)

\* Corrects the amount, or (when a is the current one) some other column.
EditApplication(r) ==
  \E a \in Amount :
    Begin(r, "editApplication", [row EXCEPT !.amount_requested = a])

SendLoanAgreement(r) ==
  /\ row.status \in {"bank_verification_complete", "agreement_sent"}
  /\ Begin(r, "sendLoanAgreement",
           [row EXCEPT !.status = "agreement_sent",
                       !.stamps = @ \cup {"agreement_sent_at"}])

RecordAgreementSigned(r) ==
  /\ row.status = "agreement_sent"
  /\ Begin(r, "recordAgreementSigned", [row EXCEPT !.status = "agreement_signed"])

SendVerificationDeposit(r) ==
  /\ row.status = "agreement_signed"
  /\ Begin(r, "sendVerificationDeposit",
           [row EXCEPT !.status = "verification_deposit_sent",
                       !.stamps = @ \cup {"micro_deposit_amounts"}])

\* BorrowerActionService lets only a file with recorded amounts, and not one
\* that is already confirmed, through.
ConfirmVerificationDeposit(r) ==
  /\ row.status = "verification_deposit_sent"
  /\ "micro_deposit_confirmed_at" \notin row.stamps
  /\ "micro_deposit_amounts" \in row.stamps
  /\ Begin(r, "confirmVerificationDeposit",
           [row EXCEPT !.status = "underwriting",
                       !.stamps = @ \cup {"micro_deposit_confirmed_at"}])

\* (Mutant: no requireStatus.)
ApproveAnyLive(r) ==
  \E a \in Amount :
    /\ ~isTerminal(row.status)
    /\ Begin(r, "approve", [row EXCEPT !.status = "approved",
                                       !.decision = "approved",
                                       !.amount_requested = a,
                                       !.stamps = @ \cup {"approved_terms"}])

\* The terms include the amount: the current one unless a counter-offer names
\* another.
Approve(r) ==
  \E a \in Amount :
    /\ row.status = "underwriting"
    /\ Begin(r, "approve", [row EXCEPT !.status = "approved",
                                       !.decision = "approved",
                                       !.amount_requested = a,
                                       !.stamps = @ \cup {"approved_terms"}])

Decline(r) ==
  /\ canTransition(row.status, "declined")
  /\ Begin(r, "decline", [row EXCEPT !.status = "declined",
                                     !.decision = "declined",
                                     !.stamps = @ \cup {"decline_reasons"}])

\* (Mutant: the amount is not compared with the approved one.)
FundAnyAmount(r) ==
  \E f \in Amount :
    /\ row.status = "approved"
    /\ Begin(r, "fund", [row EXCEPT !.status = "funded", !.funded_amount = f])

Fund(r) ==
  \E f \in Amount :
    /\ row.status = "approved"
    /\ f <= row.amount_requested
    /\ Begin(r, "fund", [row EXCEPT !.status = "funded", !.funded_amount = f])

\* (Mutant: only a paid-out file is refused.)
WithdrawUnlessFunded(r) ==
  /\ row.status # "funded"
  /\ Begin(r, "withdraw", [row EXCEPT !.status = "withdrawn",
                                      !.decision = "withdrawn"])

\* (Mutant: the decision column is forgotten.)
WithdrawStatusOnly(r) ==
  /\ ~isTerminal(row.status)
  /\ Begin(r, "withdraw", [row EXCEPT !.status = "withdrawn"])

Withdraw(r) ==
  /\ ~isTerminal(row.status)
  /\ Begin(r, "withdraw", [row EXCEPT !.status = "withdrawn",
                                      !.decision = "withdrawn"])

\* (Mutant: an approved file is taken for one that has come to rest.)
SelectInactiveUnlessApproved ==
  /\ ~isTerminal(row.status)
  /\ row.status # "approved"
  /\ untouched
  /\ Begin(Sweep, "expire", [row EXCEPT !.status = "expired"])

\* The sweep picks the row into its batch.
SelectInactive ==
  /\ ~isTerminal(row.status)
  /\ untouched
  /\ Begin(Sweep, "expire", [row EXCEPT !.status = "expired"])

-----------------------------------------------------------------------------
(* Writing it back *)

\* The row after handler h saves the values v: the columns v changed from
\* what h loaded, over whatever the row holds by now.
Merge(h, v) ==
  [status |-> IF v.status # snap[h].status THEN v.status ELSE row.status,
   decision |-> IF v.decision # snap[h].decision
                THEN v.decision ELSE row.decision,
   amount_requested |-> IF v.amount_requested # snap[h].amount_requested
                        THEN v.amount_requested ELSE row.amount_requested,
   funded_amount |-> IF v.funded_amount # snap[h].funded_amount
                     THEN v.funded_amount ELSE row.funded_amount,
   stamps |-> row.stamps \cup v.stamps]

\* A save with no changed column writes nothing and leaves updated_at alone.
\* documents_requested_at, and the column of an edit, always change.
ChangesColumn(h, v) ==
  v # snap[h] \/ op[h] \in {"requestDocuments", "editApplication"}

Save(h, v) ==
  /\ row' = Merge(h, v)
  /\ untouched' = (untouched /\ ~ChangesColumn(h, v))
  /\ visited' = visited \cup {row'.status}
  /\ offered' = IF row'.status = "approved"
                THEN offered \cup {row'.amount_requested} ELSE offered
  /\ withdrew' = (withdrew \/ op[h] = "withdraw")

Rest(h) ==
  /\ pc'   = [pc   EXCEPT ![h] = "idle"]
  /\ op'   = [op   EXCEPT ![h] = "none"]
  /\ snap' = [snap EXCEPT ![h] = Blank]
  /\ next' = [next EXCEPT ![h] = Blank]

\* (Mutant: a Plaid success jumps over bank_verification_pending.)
EarlyValuesNoWalk(h) ==
  IF op[h] = "recordBankVerified"
  THEN snap[h]
  ELSE [snap[h] EXCEPT !.status = "verification_deposit_confirmed",
                       !.stamps = @ \cup {"micro_deposit_confirmed_at"}]

\* The status a two-step operation commits before its own.
EarlyValues(h) ==
  IF op[h] = "recordBankVerified"
  THEN [snap[h] EXCEPT !.status = "bank_verification_pending"]
  ELSE [snap[h] EXCEPT !.status = "verification_deposit_confirmed",
                       !.stamps = @ \cup {"micro_deposit_confirmed_at"}]

EarlySave(h) ==
  /\ pc[h] = "early_save"
  /\ Save(h, EarlyValues(h))
  /\ pc'   = [pc EXCEPT ![h] = "run_action"]
  /\ snap' = [snap EXCEPT ![h] = EarlyValues(h)]
  /\ UNCHANGED <<op, next>>

\* apply and save; the audit row, the drip cancellations and the email that
\* follow read the handler's own copy and change nothing in this row.
RunAction(h) ==
  /\ pc[h] = "run_action"
  /\ Save(h, next[h])
  /\ Rest(h)

\* The server restarts, or a statement fails, under a handler.
Crash(h) ==
  /\ pc[h] # "idle"
  /\ Rest(h)
  /\ UNCHANGED <<rowVars, historyVars>>

\* Far longer than any handler runs; only the sweep looks at the clock.
FortyFiveDaysPass ==
  /\ "expire" \in InUse
  /\ \A h \in Handler : pc[h] = "idle"
  /\ untouched' = TRUE
  /\ UNCHANGED <<row, handlerVars, historyVars>>

-----------------------------------------------------------------------------

\* Intake writes a new row straight to pending_call.
Init ==
  /\ \E a \in Amount :
       row = [status |-> "pending_call", decision |-> "none",
              amount_requested |-> a, funded_amount |-> 0, stamps |-> {}]
  /\ untouched = FALSE
  /\ pc = [h \in Handler |-> "idle"]
  /\ op = [h \in Handler |-> "none"]
  /\ snap = [h \in Handler |-> Blank]
  /\ next = [h \in Handler |-> Blank]
  /\ visited = {"pending_call"}
  /\ offered = {}
  /\ withdrew = FALSE

\* What an admin or the borrower may ask for.
Ask(r) ==
  \/ UpdateStatus(r)
  \/ MarkAsCalledIn(r)
  \/ SendBankVerification(r)
  \/ RecordBankVerified(r)
  \/ RequestDocuments(r)
  \/ EditApplication(r)
  \/ SendLoanAgreement(r)
  \/ RecordAgreementSigned(r)
  \/ SendVerificationDeposit(r)
  \/ ConfirmVerificationDeposit(r)
  \/ Approve(r)
  \/ Decline(r)
  \/ Fund(r)
  \/ Withdraw(r)

Next ==
  \/ \E r \in Request : Ask(r)
  \/ SelectInactive
  \/ \E h \in Handler : EarlySave(h) \/ RunAction(h) \/ Crash(h)
  \/ FortyFiveDaysPass

Spec == Init /\ [][Next]_vars

\* The same handlers when no two of them overlap.
Alone == \A h1, h2 \in Handler :
           pc[h1] # "idle" /\ pc[h2] # "idle" => h1 = h2

SerialSpec == Init /\ [][Next /\ Alone']_vars

\* The scheduler keeps starting sweeps, and a sweep that is interrupted is
\* not interrupted at its save every hour for ever.
FairSpec == Spec /\ WF_vars(SelectInactive) /\ SF_vars(RunAction(Sweep))

-----------------------------------------------------------------------------
(* Properties *)

TypeOK ==
  /\ row \in Row
  /\ untouched \in BOOLEAN
  /\ pc \in [Handler -> {"idle", "early_save", "run_action"}]
  /\ op \in [Handler -> Operation]
  /\ snap \in [Handler -> Row]
  /\ next \in [Handler -> Row]
  /\ visited \subseteq Status
  /\ offered \subseteq Amount
  /\ withdrew \in BOOLEAN

\* However many handlers overwrite each other, no file reaches a stage it did
\* not get to from an earlier one: a funded file has been approved, an
\* approved one underwritten, and so on back to bank verification (the walk
\* recordBankVerified and confirmVerificationDeposit take care to make).
LedFrom(to) == \E from \in visited : canTransition(from, to)

NoStageSkipped ==
  /\ row.status \in visited
  /\ "pending_call" \in visited
  /\ \A to \in visited \ {"pending_call"} : LedFrom(to)

FundedWentThroughPipeline ==
  "funded" \in visited =>
    PIPELINE \ {"received", "pending_call", "in_review"} \subseteq visited

\* A file that was ever approved, declined or funded carries what that status
\* obliges the lender to record: terms, reason codes, the disbursed amount
\* (the comment on DEDICATED_ACTION_STATUSES).
ObligationsRecorded ==
  /\ "approved" \in visited => "approved_terms" \in row.stamps
  /\ "declined" \in visited => "decline_reasons" \in row.stamps
  /\ "funded" \in visited => row.funded_amount # 0

\* Money paid out never exceeds an amount the file held while approved, even
\* if the file was edited, withdrawn or re-approved under the fund handler.
FundedWithinOffer ==
  row.funded_amount # 0 => \E a \in offered : row.funded_amount <= a

\* What the decision column says of a file: what its status says, if that is a
\* decision; that it was withdrawn, exactly when the withdraw action was what
\* closed it; and of every other file, one closed by a generic status change or
\* by the sweep included, whether it was approved before.  Intake's cooldown
\* and the dashboard's counts read this column, every screen the status.  Needs
\* handlers that do not overlap.
DecisionAgrees ==
  /\ row.status = "declined" <=> row.decision = "declined"
  /\ row.status \in {"approved", "funded"} => row.decision = "approved"
  /\ withdrew <=> row.decision = "withdrawn"
  /\ withdrew => row.status = "withdrawn"
  /\ row.status # "declined" /\ ~withdrew =>
       row.decision = IF "approved" \in visited THEN "approved" ELSE "none"

\* With one handler at a time the status column is the status machine's.
Lifecycle == INSTANCE LoanLifecycle WITH status <- row.status
FollowsLifecycle == Lifecycle!Spec

\* A live file that is left alone is closed, or somebody touches it: the
\* sweep misses no status.
AbandonedFileCloses ==
  (untouched /\ ~isTerminal(row.status)) ~>
    ~(untouched /\ ~isTerminal(row.status))

=============================================================================
