---------------------- MODULE ApplicationWorkflow_proofs ----------------------
(***************************************************************************)
(* Proofs about ApplicationWorkflow for every set of requests and amounts. *)
(***************************************************************************)
EXTENDS ApplicationWorkflow, TLAPS

-----------------------------------------------------------------------------
(* Type correctness *)

\* The status table only leads to statuses.
LEMMA ForwardStatuses ==
  \A from \in Status : \A to : canTransition(from, to) => to \in Status
BY DEF canTransition, ALLOWED_TRANSITIONS, ForwardSteps, UNIVERSAL_EXITS,
       Status, PIPELINE, TERMINAL_STATUSES, isTerminal

LEMMA BlankIsRow == Blank \in Row
<1>1. \E a \in Amount : TRUE  BY AmountAssumption
<1>2. (CHOOSE a \in Amount : TRUE) \in Amount  BY <1>1
<1> QED  BY <1>2 DEF Blank, Row, Status, PIPELINE, Decision

\* Starting a handler keeps the types if what it means to save is a row.
LEMMA BeginTyped ==
  ASSUME TypeOK, NEW h \in Handler, NEW o \in Operation, NEW n \in Row,
         Begin(h, o, n)
  PROVE  TypeOK'
BY DEF TypeOK, Begin, rowVars, historyVars

\* Saving keeps the types of the row and of the history.
LEMMA SaveTyped ==
  ASSUME TypeOK, NEW h \in Handler, NEW v \in Row, Save(h, v)
  PROVE  /\ row' \in Row
         /\ untouched' \in BOOLEAN
         /\ visited' \subseteq Status
         /\ offered' \subseteq Amount
         /\ withdrew' \in BOOLEAN
<1>1. Merge(h, v) \in Row  BY DEF TypeOK, Merge, Row
<1>2. row' \in Row  BY <1>1 DEF Save
<1>3. withdrew' \in BOOLEAN  BY DEF Save
<1> QED  BY <1>2, <1>3 DEF TypeOK, Save, Row, ChangesColumn

\* The statuses, as one set.
LEMMA StatusValues ==
  Status = {"received", "pending_call", "in_review",
            "bank_verification_pending", "bank_verification_complete",
            "agreement_sent", "agreement_signed",
            "verification_deposit_sent", "verification_deposit_confirmed",
            "underwriting", "approved", "funded", "declined", "withdrawn",
            "expired"}
BY DEF Status, PIPELINE, TERMINAL_STATUSES

\* The hops of the table that an operation of its own takes.
LEMMA Hops ==
  /\ canTransition("pending_call", "bank_verification_pending")
  /\ canTransition("in_review", "bank_verification_pending")
  /\ canTransition("bank_verification_pending", "bank_verification_complete")
  /\ canTransition("bank_verification_complete", "agreement_sent")
  /\ canTransition("agreement_sent", "agreement_signed")
  /\ canTransition("agreement_signed", "verification_deposit_sent")
  /\ canTransition("verification_deposit_sent", "verification_deposit_confirmed")
  /\ canTransition("verification_deposit_confirmed", "underwriting")
  /\ canTransition("underwriting", "approved")
  /\ canTransition("approved", "funded")
  /\ \A from \in Status : ~isTerminal(from) =>
       canTransition(from, "withdrawn") /\ canTransition(from, "expired")
BY StatusValues DEF canTransition, ALLOWED_TRANSITIONS, ForwardSteps,
   UNIVERSAL_EXITS, isTerminal, TERMINAL_STATUSES

\* Nothing leads out of declined or withdrawn.
LEMMA ClosedIsFinal ==
  \A to : ~canTransition("declined", to) /\ ~canTransition("withdrawn", to)
BY StatusValues DEF canTransition, ALLOWED_TRANSITIONS, isTerminal, TERMINAL_STATUSES

-----------------------------------------------------------------------------
(* What a handler may save, seen from the row it has read *)

\* The status stays or takes one hop of the table.
Walk(from, to) == from = to \/ canTransition(from, to)

\* A decision status is written with what it obliges the lender to record.
Obliges(from, v) ==
  v.status # from =>
    /\ v.status = "approved" => "approved_terms" \in v.stamps
    /\ v.status = "declined" => "decline_reasons" \in v.stamps
    /\ v.status = "funded" => v.funded_amount # 0

\* A disbursement is within an amount from the set s.
WithinOffer(from, v, s) ==
  v.funded_amount # from.funded_amount =>
    v.funded_amount # 0 /\ \E a \in s : v.funded_amount <= a

\* The status an operation commits on its way, if it takes two steps.
ViaStatus(o) == IF o = "recordBankVerified" THEN "bank_verification_pending"
                ELSE "verification_deposit_confirmed"

TwoStep(o) == \/ o = "confirmVerificationDeposit"
              \/ o = "recordBankVerified" /\ row.status # "bank_verification_pending"

EverApproved == "approved" \in visited

\* The decision column of r is what it should be, for a file that has or has
\* not been approved, and that the withdraw action has or has not closed.
Agrees(r, approved, closed) ==
  /\ r.status = "declined" <=> r.decision = "declined"
  /\ r.status \in {"approved", "funded"} => r.decision = "approved"
  /\ closed <=> r.decision = "withdrawn"
  /\ closed => r.status = "withdrawn"
  /\ r.status # "declined" /\ ~closed =>
       r.decision = IF approved THEN "approved" ELSE "none"

\* It will be, once operation o has saved n.
WillAgree(o, n) == Agrees(n, EverApproved \/ n.status = "approved",
                          withdrew \/ o = "withdraw")

Lawful(o, n) ==
  /\ IF TwoStep(o)
     THEN /\ o \in {"recordBankVerified", "confirmVerificationDeposit"}
          /\ canTransition(row.status, ViaStatus(o))
          /\ canTransition(ViaStatus(o), n.status)
          /\ n.status \notin {"approved", "declined", "funded"}
     ELSE Walk(row.status, n.status) /\ Obliges(row.status, n)
  /\ WithinOffer(row, n, IF row.status = "approved"
                         THEN {row.amount_requested} ELSE {})
  /\ DecisionAgrees => WillAgree(o, n)

\* What an operation starts: a handler of its own, with a lawful row to save.
Started(r) ==
  \E o \in Operation \ {"none", "expire"}, n \in Row :
    Begin(r, o, n) /\ Lawful(o, n)

\* A status of the row is one of the fifteen, and the row has all its columns.
LEMMA RowColumns ==
  ASSUME TypeOK
  PROVE  /\ row.status \in Status /\ row.decision \in Decision
         /\ row.amount_requested \in Amount
         /\ row.funded_amount \in Amount \cup {0}
         /\ row.stamps \in SUBSET Stamp
         /\ row = [status |-> row.status, decision |-> row.decision,
                   amount_requested |-> row.amount_requested,
                   funded_amount |-> row.funded_amount, stamps |-> row.stamps]
BY DEF TypeOK, Row

\* Every operation starts its handler as Begin does, with a lawful row to save.
LEMMA AskBegins ==
  ASSUME TypeOK, NEW r \in Request, Ask(r)
  PROVE  Started(r)
<1> USE RowColumns DEF Operation
<1>1. CASE UpdateStatus(r)
  <2>1. PICK to \in Status \ DEDICATED_ACTION_STATUSES :
          /\ canTransition(row.status, to)
          /\ Begin(r, "updateStatus", [row EXCEPT !.status = to])
    BY <1>1 DEF UpdateStatus
  <2> DEFINE n == [row EXCEPT !.status = to]
  <2>2. n \in Row  BY DEF TypeOK, Row
  <2>3. Lawful("updateStatus", n)
    BY <2>1, ClosedIsFinal
    DEF Lawful, TwoStep, Walk, Obliges, WithinOffer, WillAgree, EverApproved,
        Agrees, DecisionAgrees, TypeOK, Row,
                DEDICATED_ACTION_STATUSES
  <2> QED  BY <2>1, <2>2, <2>3 DEF Started
<1>2. CASE MarkAsCalledIn(r)
  <2> DEFINE n == [row EXCEPT !.status = "bank_verification_pending"]
  <2>1. Begin(r, "markAsCalledIn", n)  BY <1>2 DEF MarkAsCalledIn
  <2>2. n \in Row
    BY <1>2, StatusValues DEF TypeOK, Row, Stamp, Decision
  <2>3. Lawful("markAsCalledIn", n)
    BY <1>2, <2>1, Hops, StatusValues, AmountAssumption
    DEF Lawful, TwoStep, ViaStatus, Walk, Obliges, WithinOffer, WillAgree, EverApproved,
        Agrees, DecisionAgrees, TypeOK,
        Row, MarkAsCalledIn
  <2> QED  BY <2>1, <2>2, <2>3 DEF Started
<1>3. CASE SendBankVerification(r)
  <2> DEFINE n == [row EXCEPT !.status = IF @ \in PRE_VERIFICATION_STATUSES
                                           THEN "bank_verification_pending"
                                           ELSE @]
  <2>1. Begin(r, "sendBankVerification", n)  BY <1>3 DEF SendBankVerification
  <2>2. n \in Row
    BY <1>3, StatusValues DEF TypeOK, Row, Stamp, Decision, PRE_VERIFICATION_STATUSES
  <2>3. Lawful("sendBankVerification", n)
    BY <1>3, <2>1, Hops, StatusValues, AmountAssumption
    DEF Lawful, TwoStep, ViaStatus, Walk, Obliges, WithinOffer, WillAgree, EverApproved,
        Agrees, DecisionAgrees, TypeOK,
        Row, SendBankVerification, PRE_VERIFICATION_STATUSES
  <2> QED  BY <2>1, <2>2, <2>3 DEF Started
<1>4. CASE RecordBankVerified(r)
  <2> DEFINE n == [row EXCEPT !.status = "bank_verification_complete",
                            !.stamps = @ \cup {"bank_verified"}]
  <2>1. Begin(r, "recordBankVerified", n)  BY <1>4 DEF RecordBankVerified
  <2>2. n \in Row
    BY <1>4, StatusValues DEF TypeOK, Row, Stamp, Decision, PRE_VERIFICATION_STATUSES
  <2>3. Lawful("recordBankVerified", n)
    BY <1>4, <2>1, Hops, StatusValues, AmountAssumption
    DEF Lawful, TwoStep, ViaStatus, Walk, Obliges, WithinOffer, WillAgree, EverApproved,
        Agrees, DecisionAgrees, TypeOK,
        Row, RecordBankVerified, PRE_VERIFICATION_STATUSES
  <2> QED  BY <2>1, <2>2, <2>3 DEF Started
<1>5. CASE RequestDocuments(r)
  <2> DEFINE n == row
  <2>1. Begin(r, "requestDocuments", n)  BY <1>5 DEF RequestDocuments
  <2>2. n \in Row
    BY <1>5, StatusValues DEF TypeOK, Row, Stamp, Decision
  <2>3. Lawful("requestDocuments", n)
    BY <1>5, <2>1, Hops, StatusValues, AmountAssumption
    DEF Lawful, TwoStep, ViaStatus, Walk, Obliges, WithinOffer, WillAgree, EverApproved,
        Agrees, DecisionAgrees, TypeOK,
        Row, RequestDocuments
  <2> QED  BY <2>1, <2>2, <2>3 DEF Started
<1>6. CASE EditApplication(r)
  <2>1. PICK a \in Amount :
          Begin(r, "editApplication", [row EXCEPT !.amount_requested = a])
    BY <1>6 DEF EditApplication
  <2> DEFINE n == [row EXCEPT !.amount_requested = a]
  <2>2. n \in Row
    BY <1>6, StatusValues DEF TypeOK, Row, Stamp, Decision
  <2>3. Lawful("editApplication", n)
    BY <1>6, <2>1, Hops, StatusValues, AmountAssumption
    DEF Lawful, TwoStep, ViaStatus, Walk, Obliges, WithinOffer, WillAgree, EverApproved,
        Agrees, DecisionAgrees, TypeOK,
        Row, EditApplication
  <2> QED  BY <2>1, <2>2, <2>3 DEF Started
<1>7. CASE SendLoanAgreement(r)
  <2> DEFINE n == [row EXCEPT !.status = "agreement_sent",
                            !.stamps = @ \cup {"agreement_sent_at"}]
  <2>1. Begin(r, "sendLoanAgreement", n)  BY <1>7 DEF SendLoanAgreement
  <2>2. n \in Row
    BY <1>7, StatusValues DEF TypeOK, Row, Stamp, Decision
  <2>3. Lawful("sendLoanAgreement", n)
    BY <1>7, <2>1, Hops, StatusValues, AmountAssumption
    DEF Lawful, TwoStep, ViaStatus, Walk, Obliges, WithinOffer, WillAgree, EverApproved,
        Agrees, DecisionAgrees, TypeOK,
        Row, SendLoanAgreement
  <2> QED  BY <2>1, <2>2, <2>3 DEF Started
<1>8. CASE RecordAgreementSigned(r)
  <2> DEFINE n == [row EXCEPT !.status = "agreement_signed"]
  <2>1. Begin(r, "recordAgreementSigned", n)  BY <1>8 DEF RecordAgreementSigned
  <2>2. n \in Row
    BY <1>8, StatusValues DEF TypeOK, Row, Stamp, Decision
  <2>3. Lawful("recordAgreementSigned", n)
    BY <1>8, <2>1, Hops, StatusValues, AmountAssumption
    DEF Lawful, TwoStep, ViaStatus, Walk, Obliges, WithinOffer, WillAgree, EverApproved,
        Agrees, DecisionAgrees, TypeOK,
        Row, RecordAgreementSigned
  <2> QED  BY <2>1, <2>2, <2>3 DEF Started
<1>9. CASE SendVerificationDeposit(r)
  <2> DEFINE n == [row EXCEPT !.status = "verification_deposit_sent",
                            !.stamps = @ \cup {"micro_deposit_amounts"}]
  <2>1. Begin(r, "sendVerificationDeposit", n)  BY <1>9 DEF SendVerificationDeposit
  <2>2. n \in Row
    BY <1>9, StatusValues DEF TypeOK, Row, Stamp, Decision
  <2>3. Lawful("sendVerificationDeposit", n)
    BY <1>9, <2>1, Hops, StatusValues, AmountAssumption
    DEF Lawful, TwoStep, ViaStatus, Walk, Obliges, WithinOffer, WillAgree, EverApproved,
        Agrees, DecisionAgrees, TypeOK,
        Row, SendVerificationDeposit
  <2> QED  BY <2>1, <2>2, <2>3 DEF Started
<1>10. CASE ConfirmVerificationDeposit(r)
  <2> DEFINE n == [row EXCEPT !.status = "underwriting",
                            !.stamps = @ \cup {"micro_deposit_confirmed_at"}]
  <2>1. Begin(r, "confirmVerificationDeposit", n)  BY <1>10 DEF ConfirmVerificationDeposit
  <2>2. n \in Row
    BY <1>10, StatusValues DEF TypeOK, Row, Stamp, Decision
  <2>3. Lawful("confirmVerificationDeposit", n)
    BY <1>10, <2>1, Hops, StatusValues, AmountAssumption
    DEF Lawful, TwoStep, ViaStatus, Walk, Obliges, WithinOffer, WillAgree, EverApproved,
        Agrees, DecisionAgrees, TypeOK,
        Row, ConfirmVerificationDeposit
  <2> QED  BY <2>1, <2>2, <2>3 DEF Started
<1>11. CASE Approve(r)
  <2>1. PICK a \in Amount :
          /\ row.status = "underwriting"
          /\ Begin(r, "approve", [row EXCEPT !.status = "approved",
                                             !.decision = "approved",
                                             !.amount_requested = a,
                                             !.stamps = @ \cup {"approved_terms"}])
    BY <1>11 DEF Approve
  <2> DEFINE n == [row EXCEPT !.status = "approved", !.decision = "approved",
                            !.amount_requested = a,
                            !.stamps = @ \cup {"approved_terms"}]
  <2>2. n \in Row
    BY <1>11, StatusValues DEF TypeOK, Row, Stamp, Decision
  <2>3. Lawful("approve", n)
    BY <1>11, <2>1, Hops, StatusValues, AmountAssumption
    DEF Lawful, TwoStep, ViaStatus, Walk, Obliges, WithinOffer, WillAgree, EverApproved,
        Agrees, DecisionAgrees, TypeOK,
        Row, Approve
  <2> QED  BY <2>1, <2>2, <2>3 DEF Started
<1>12. CASE Decline(r)
  <2> DEFINE n == [row EXCEPT !.status = "declined", !.decision = "declined",
                            !.stamps = @ \cup {"decline_reasons"}]
  <2>1. Begin(r, "decline", n)  BY <1>12 DEF Decline
  <2>2. n \in Row
    BY <1>12, StatusValues DEF TypeOK, Row, Stamp, Decision
  <2>3. Lawful("decline", n)
    BY <1>12, <2>1, Hops, StatusValues, AmountAssumption, ClosedIsFinal
    DEF Lawful, TwoStep, ViaStatus, Walk, Obliges, WithinOffer, WillAgree, EverApproved,
        Agrees, DecisionAgrees, TypeOK,
        Row, Decline
  <2> QED  BY <2>1, <2>2, <2>3 DEF Started
<1>13. CASE Fund(r)
  <2>1. PICK a \in Amount :
          /\ row.status = "approved"
          /\ a <= row.amount_requested
          /\ Begin(r, "fund", [row EXCEPT !.status = "funded", !.funded_amount = a])
    BY <1>13 DEF Fund
  <2> DEFINE n == [row EXCEPT !.status = "funded", !.funded_amount = a]
  <2>2. n \in Row
    BY <1>13, StatusValues DEF TypeOK, Row, Stamp, Decision
  <2>3. Lawful("fund", n)
    BY <1>13, <2>1, Hops, StatusValues, AmountAssumption
    DEF Lawful, TwoStep, ViaStatus, Walk, Obliges, WithinOffer, WillAgree, EverApproved,
        Agrees, DecisionAgrees, TypeOK,
        Row, Fund
  <2> QED  BY <2>1, <2>2, <2>3 DEF Started
<1>14. CASE Withdraw(r)
  <2> DEFINE n == [row EXCEPT !.status = "withdrawn", !.decision = "withdrawn"]
  <2>1. Begin(r, "withdraw", n)  BY <1>14 DEF Withdraw
  <2>2. n \in Row
    BY <1>14, StatusValues DEF TypeOK, Row, Stamp, Decision
  <2>3. Lawful("withdraw", n)
    BY <1>14, <2>1, Hops, StatusValues, AmountAssumption
    DEF Lawful, TwoStep, ViaStatus, Walk, Obliges, WithinOffer, WillAgree, EverApproved,
        Agrees, DecisionAgrees, TypeOK,
        Row, Withdraw
  <2> QED  BY <2>1, <2>2, <2>3 DEF Started
<1> QED
  BY <1>1, <1>2, <1>3, <1>4, <1>5, <1>6, <1>7, <1>8, <1>9, <1>10, <1>11,
     <1>12, <1>13, <1>14 DEF Ask

-----------------------------------------------------------------------------
(* The inductive invariant *)

\* What holds of the row and its history, with one fact more than is asked:
\* an approved row's amount is on offer.
RowInv ==
  /\ NoStageSkipped
  /\ ObligationsRecorded
  /\ FundedWithinOffer
  /\ row.status = "approved" => row.amount_requested \in offered

\* What holds of a handler under way.  Its copy of the row may be out of date
\* but the status in it was the row's once, so what it saves over it is still
\* led to from a visited status.
HandlerInv(h) ==
  pc[h] # "idle" =>
    /\ snap[h].status \in visited
    /\ snap[h].funded_amount # 0 => row.funded_amount # 0
    /\ WithinOffer(snap[h], next[h], offered)
    /\ pc[h] = "run_action" => /\ Walk(snap[h].status, next[h].status)
                               /\ Obliges(snap[h].status, next[h])
    /\ pc[h] = "early_save" =>
         /\ canTransition(snap[h].status, EarlyValues(h).status)
         /\ canTransition(EarlyValues(h).status, next[h].status)
         /\ next[h].status \notin {"approved", "declined", "funded"}
         /\ op[h] # "withdraw"

IInv == TypeOK /\ RowInv /\ \A h \in Handler : HandlerInv(h)

\* Nothing a handler relies on is taken back by a step that leaves it alone.
LEMMA OthersKeep ==
  ASSUME NEW h \in Handler, HandlerInv(h),
         pc'[h] = pc[h], op'[h] = op[h], snap'[h] = snap[h], next'[h] = next[h],
         visited \subseteq visited', offered \subseteq offered',
         row.funded_amount # 0 => row'.funded_amount # 0
  PROVE  HandlerInv(h)'
<1>1. EarlyValues(h)' = EarlyValues(h)  BY DEF EarlyValues
<1> QED  BY <1>1 DEF HandlerInv, WithinOffer, Walk, Obliges

LEMMA BeginKeeps ==
  ASSUME IInv, NEW h \in Handler, NEW o \in Operation, NEW n \in Row,
         Begin(h, o, n), Lawful(o, n)
  PROVE  IInv'
<1> USE DEF IInv
<1>1. TypeOK'  BY BeginTyped
<1>2. RowInv'
  BY DEF Begin, rowVars, historyVars, RowInv, NoStageSkipped, LedFrom,
         ObligationsRecorded, FundedWithinOffer
<1>3. ASSUME NEW g \in Handler PROVE HandlerInv(g)'
  <2>1. CASE g = h
    <3> USE <2>1
    <3>1. /\ snap'[h] = row /\ next'[h] = n /\ op'[h] = o
          /\ pc'[h] = IF TwoStep(o) THEN "early_save" ELSE "run_action"
      BY DEF Begin, TypeOK, TwoStep
    <3>2. UNCHANGED <<row, visited, offered>>
      BY DEF Begin, rowVars, historyVars
    <3>3. /\ row.status \in visited
          /\ row.status = "approved" => row.amount_requested \in offered
      BY DEF RowInv, NoStageSkipped
    <3>4. WithinOffer(row, n, offered)
      BY <3>3 DEF Lawful, WithinOffer
    <3>5. CASE TwoStep(o)
      <4>1. EarlyValues(h)'.status = ViaStatus(o)
        BY <3>1, <3>5 DEF EarlyValues, ViaStatus, Lawful, TypeOK, Row
      <4> QED
        BY <3>1, <3>2, <3>3, <3>4, <3>5, <4>1 DEF HandlerInv, Lawful, WithinOffer
    <3>6. CASE ~TwoStep(o)
      BY <3>1, <3>2, <3>3, <3>4, <3>6
      DEF HandlerInv, Lawful, WithinOffer, Walk, Obliges
    <3> QED  BY <3>5, <3>6
  <2>2. CASE g # h
    BY <2>2, OthersKeep DEF Begin, rowVars, historyVars, TypeOK
  <2> QED  BY <2>1, <2>2
<1> QED  BY <1>1, <1>2, <1>3

\* No status leads to itself.
LEMMA NoSelfHop == \A s \in Status : ~canTransition(s, s)
BY StatusValues DEF canTransition, ALLOWED_TRANSITIONS, ForwardSteps,
   UNIVERSAL_EXITS, isTerminal, TERMINAL_STATUSES

\* A save of values that follow from the handler's copy keeps the row in order.
LEMMA SaveKeeps ==
  ASSUME IInv, NEW h \in Handler, NEW v \in Row, Save(h, v), pc[h] # "idle",
         Walk(snap[h].status, v.status), Obliges(snap[h].status, v),
         WithinOffer(snap[h], v, offered)
  PROVE  /\ RowInv'
         /\ visited \subseteq visited'
         /\ offered \subseteq offered'
         /\ row.funded_amount # 0 => row'.funded_amount # 0
         /\ canTransition(snap[h].status, v.status) => v.status \in visited'
<1> USE DEF IInv
<1>1. /\ row' = Merge(h, v)
      /\ visited' = visited \cup {row'.status}
      /\ offered' = IF row'.status = "approved"
                    THEN offered \cup {row'.amount_requested} ELSE offered
  BY DEF Save
<1>2. /\ row'.status = IF v.status # snap[h].status THEN v.status ELSE row.status
      /\ row'.funded_amount = IF v.funded_amount # snap[h].funded_amount
                              THEN v.funded_amount ELSE row.funded_amount
      /\ row'.stamps = row.stamps \cup v.stamps
  BY <1>1 DEF Merge
<1>3. /\ snap[h].status \in visited
      /\ snap[h].funded_amount # 0 => row.funded_amount # 0
  BY DEF HandlerInv
<1>4. row.funded_amount # 0 => row'.funded_amount # 0
  BY <1>2 DEF WithinOffer
<1>5. NoStageSkipped'
  BY <1>1, <1>2, <1>3 DEF RowInv, NoStageSkipped, LedFrom, Walk
<1>6. ObligationsRecorded'
  BY <1>1, <1>2, <1>3, <1>4 DEF RowInv, ObligationsRecorded, NoStageSkipped, Obliges
<1>7. FundedWithinOffer'
  BY <1>1, <1>2 DEF RowInv, FundedWithinOffer, WithinOffer
<1>8. canTransition(snap[h].status, v.status) => v.status \in visited'
  BY <1>1, <1>2, NoSelfHop DEF TypeOK, Row
<1> QED  BY <1>1, <1>4, <1>5, <1>6, <1>7, <1>8 DEF RowInv

LEMMA InitHolds == Init => IInv
<1> SUFFICES ASSUME Init PROVE IInv  OBVIOUS
<1>1. TypeOK
  <2>1. row \in Row  BY StatusValues DEF Init, Row, Decision, Stamp
  <2>2. /\ snap \in [Handler -> Row] /\ next \in [Handler -> Row]
        /\ pc \in [Handler -> {"idle", "early_save", "run_action"}]
        /\ op \in [Handler -> Operation]
    BY BlankIsRow DEF Init, Operation
  <2>3. /\ visited \subseteq Status /\ offered \subseteq Amount
        /\ untouched \in BOOLEAN /\ withdrew \in BOOLEAN
    BY StatusValues DEF Init
  <2> QED  BY <2>1, <2>2, <2>3 DEF TypeOK
<1>2. RowInv
  BY DEF Init, RowInv, NoStageSkipped, LedFrom, ObligationsRecorded,
         FundedWithinOffer
<1>3. \A h \in Handler : HandlerInv(h)
  BY DEF Init, HandlerInv
<1> QED  BY <1>1, <1>2, <1>3 DEF IInv

LEMMA EarlySaveKeeps ==
  ASSUME IInv, NEW h \in Handler, EarlySave(h)
  PROVE  IInv'
<1> USE DEF IInv
<1> DEFINE v == EarlyValues(h)
<1>1. pc[h] = "early_save" /\ Save(h, v) /\ HandlerInv(h)
  BY DEF EarlySave
<1>2. /\ snap[h].status \in visited
      /\ canTransition(snap[h].status, v.status)
      /\ canTransition(v.status, next[h].status)
      /\ next[h].status \notin {"approved", "declined", "funded"}
      /\ WithinOffer(snap[h], next[h], offered)
  BY <1>1 DEF HandlerInv
<1>3. v \in Row
  BY StatusValues DEF EarlyValues, TypeOK, Row, Stamp
<1>4. /\ v.status \notin {"approved", "declined", "funded"}
      /\ v.funded_amount = snap[h].funded_amount
  BY DEF EarlyValues, TypeOK, Row
<1>5. /\ RowInv'
      /\ visited \subseteq visited' /\ offered \subseteq offered'
      /\ row.funded_amount # 0 => row'.funded_amount # 0
      /\ v.status \in visited'
  BY <1>1, <1>2, <1>3, <1>4, SaveKeeps DEF Walk, Obliges, WithinOffer
<1>6. TypeOK'
  BY <1>1, <1>3, SaveTyped DEF EarlySave, TypeOK
<1>7. ASSUME NEW g \in Handler PROVE HandlerInv(g)'
  <2>1. CASE g = h
    <3>1. pc'[h] = "run_action" /\ snap'[h] = v /\ next'[h] = next[h]
      BY DEF EarlySave, TypeOK
    <3>2. snap[h].funded_amount # 0 => row.funded_amount # 0
      BY <1>1 DEF HandlerInv
    <3> QED
      BY <1>2, <1>4, <1>5, <2>1, <3>1, <3>2
      DEF HandlerInv, Walk, Obliges, WithinOffer
  <2>2. CASE g # h
    BY <1>5, <2>2, OthersKeep DEF EarlySave, TypeOK
  <2> QED  BY <2>1, <2>2
<1> QED  BY <1>5, <1>6, <1>7

LEMMA RunActionKeeps ==
  ASSUME IInv, NEW h \in Handler, RunAction(h)
  PROVE  IInv'
<1> USE DEF IInv
<1>1. pc[h] = "run_action" /\ Save(h, next[h]) /\ HandlerInv(h) /\ Rest(h)
  BY DEF RunAction
<1>2. next[h] \in Row  BY DEF TypeOK
<1>3. /\ RowInv'
      /\ visited \subseteq visited' /\ offered \subseteq offered'
      /\ row.funded_amount # 0 => row'.funded_amount # 0
  BY <1>1, <1>2, SaveKeeps DEF HandlerInv
<1>4. TypeOK'
  BY <1>1, <1>2, SaveTyped, BlankIsRow DEF Rest, TypeOK, Operation
<1>5. ASSUME NEW g \in Handler PROVE HandlerInv(g)'
  <2>1. CASE g = h  BY <1>1, <2>1 DEF Rest, TypeOK, HandlerInv
  <2>2. CASE g # h  BY <1>1, <1>3, <2>2, OthersKeep DEF Rest, TypeOK
  <2> QED  BY <2>1, <2>2
<1> QED  BY <1>3, <1>4, <1>5

LEMMA CrashKeeps ==
  ASSUME IInv, NEW h \in Handler, Crash(h)
  PROVE  IInv'
<1> USE DEF IInv
<1>1. UNCHANGED <<row, untouched, visited, offered, withdrew>>
  BY DEF Crash, rowVars, historyVars
<1>2. TypeOK'
  BY <1>1, BlankIsRow DEF Crash, Rest, TypeOK, Operation
<1>3. RowInv'
  BY <1>1 DEF RowInv, NoStageSkipped, LedFrom, ObligationsRecorded,
              FundedWithinOffer
<1>4. ASSUME NEW g \in Handler PROVE HandlerInv(g)'
  <2>1. CASE g = h  BY <2>1 DEF Crash, Rest, TypeOK, HandlerInv
  <2>2. CASE g # h  BY <1>1, <2>2, OthersKeep DEF Crash, Rest, TypeOK
  <2> QED  BY <2>1, <2>2
<1> QED  BY <1>2, <1>3, <1>4

\* Time and stuttering touch nothing the invariant speaks of.
LEMMA IdleKeeps ==
  ASSUME IInv, UNCHANGED <<row, handlerVars, historyVars>>,
         untouched' \in BOOLEAN
  PROVE  IInv'
<1> USE DEF IInv, handlerVars, historyVars
<1>1. TypeOK'  BY DEF TypeOK
<1>2. RowInv'
  BY DEF RowInv, NoStageSkipped, LedFrom, ObligationsRecorded, FundedWithinOffer
<1>3. \A g \in Handler : HandlerInv(g)'  BY OthersKeep
<1> QED  BY <1>1, <1>2, <1>3

\* So does the sweep.
LEMMA SelectBegins ==
  ASSUME TypeOK, SelectInactive
  PROVE  \E n \in Row : Begin(Sweep, "expire", n) /\ Lawful("expire", n)
<1> DEFINE n == [row EXCEPT !.status = "expired"]
<1>1. Begin(Sweep, "expire", n)  BY DEF SelectInactive
<1>2. n \in Row  BY StatusValues DEF TypeOK, Row
<1>3. Lawful("expire", n)
  BY Hops, RowColumns
  DEF Lawful, TwoStep, Walk, Obliges, WithinOffer, WillAgree, EverApproved,
        Agrees, DecisionAgrees, TypeOK, Row,
      SelectInactive, isTerminal, TERMINAL_STATUSES
<1> QED  BY <1>1, <1>2, <1>3

LEMMA StepHolds == IInv /\ [Next]_vars => IInv'
<1> SUFFICES ASSUME IInv, [Next]_vars PROVE IInv'  OBVIOUS
<1>t. TypeOK  BY DEF IInv
<1>1. CASE \E r \in Request : Ask(r)
  <2>1. PICK r \in Request : Ask(r)  BY <1>1
  <2>2. PICK o \in Operation, n \in Row : Begin(r, o, n) /\ Lawful(o, n)
    BY <1>t, <2>1, AskBegins DEF Started
  <2> QED  BY <2>2, BeginKeeps DEF Handler
<1>2. CASE SelectInactive
  BY <1>t, <1>2, SelectBegins, BeginKeeps DEF Handler, Operation
<1>3. CASE \E h \in Handler : EarlySave(h) \/ RunAction(h) \/ Crash(h)
  BY <1>3, EarlySaveKeeps, RunActionKeeps, CrashKeeps
<1>4. CASE FortyFiveDaysPass
  BY <1>4, IdleKeeps DEF FortyFiveDaysPass
<1>5. CASE UNCHANGED vars
  BY <1>t, <1>5, IdleKeeps DEF vars, rowVars, handlerVars, historyVars, TypeOK
<1> QED  BY <1>1, <1>2, <1>3, <1>4, <1>5 DEF Next

LEMMA InvariantHolds == Spec => []IInv
BY InitHolds, StepHolds, PTL DEF Spec

-----------------------------------------------------------------------------
(* The theorems *)

\* Every variable keeps its type: whatever the handlers overwrite of each
\* other, the row holds a status of the machine and an amount of the form.
THEOREM TypeCorrect == Spec => []TypeOK
<1>1. IInv => TypeOK  BY DEF IInv
<1> QED  BY <1>1, InvariantHolds, PTL

\* With any number of overlapping handlers, no file reaches a stage that none
\* of its earlier statuses leads to.
THEOREM StagesInOrder == Spec => []NoStageSkipped
<1>1. IInv => NoStageSkipped  BY DEF IInv, RowInv
<1> QED  BY <1>1, InvariantHolds, PTL

\* A file ever approved, declined or funded carries the terms, the reasons or
\* the amount that status obliges the lender to record.
THEOREM ObligationsMet == Spec => []ObligationsRecorded
<1>1. IInv => ObligationsRecorded  BY DEF IInv, RowInv
<1> QED  BY <1>1, InvariantHolds, PTL

\* What is paid out never exceeds every amount the file held while approved.
THEOREM PayoutWithinOffer == Spec => []FundedWithinOffer
<1>1. IInv => FundedWithinOffer  BY DEF IInv, RowInv
<1> QED  BY <1>1, InvariantHolds, PTL

\* The only way into each stage from bank_verification_complete on.
LEMMA OnlyWayIn ==
  \A from \in Status :
    /\ canTransition(from, "funded") => from = "approved"
    /\ canTransition(from, "approved") => from = "underwriting"
    /\ canTransition(from, "underwriting") => from = "verification_deposit_confirmed"
    /\ canTransition(from, "verification_deposit_confirmed")
         => from = "verification_deposit_sent"
    /\ canTransition(from, "verification_deposit_sent") => from = "agreement_signed"
    /\ canTransition(from, "agreement_signed") => from = "agreement_sent"
    /\ canTransition(from, "agreement_sent") => from = "bank_verification_complete"
    /\ canTransition(from, "bank_verification_complete")
         => from = "bank_verification_pending"
BY StatusValues DEF canTransition, ALLOWED_TRANSITIONS, ForwardSteps,
   UNIVERSAL_EXITS, isTerminal, TERMINAL_STATUSES

\* A funded file has been through every stage of the pipeline: no overlap of
\* handlers pays out a file that was not verified, signed, underwritten and
\* approved.
THEOREM FundedInOrder == Spec => []FundedWentThroughPipeline
<1>1. TypeOK /\ NoStageSkipped => FundedWentThroughPipeline
  <2> SUFFICES ASSUME TypeOK, NoStageSkipped, "funded" \in visited
               PROVE  PIPELINE \ {"received", "pending_call", "in_review"}
                        \subseteq visited
    BY DEF FundedWentThroughPipeline
  <2>1. \A to \in visited \ {"pending_call"} :
          \E from \in Status : from \in visited /\ canTransition(from, to)
    BY DEF TypeOK, NoStageSkipped, LedFrom
  <2>2. "approved" \in visited  BY <2>1, OnlyWayIn
  <2>3. "underwriting" \in visited  BY <2>1, <2>2, OnlyWayIn
  <2>4. "verification_deposit_confirmed" \in visited  BY <2>1, <2>3, OnlyWayIn
  <2>5. "verification_deposit_sent" \in visited  BY <2>1, <2>4, OnlyWayIn
  <2>6. "agreement_signed" \in visited  BY <2>1, <2>5, OnlyWayIn
  <2>7. "agreement_sent" \in visited  BY <2>1, <2>6, OnlyWayIn
  <2>8. "bank_verification_complete" \in visited  BY <2>1, <2>7, OnlyWayIn
  <2>9. "bank_verification_pending" \in visited  BY <2>1, <2>8, OnlyWayIn
  <2> QED
    BY <2>2, <2>3, <2>4, <2>5, <2>6, <2>7, <2>8, <2>9 DEF PIPELINE
<1> QED  BY <1>1, TypeCorrect, StagesInOrder, PTL

-----------------------------------------------------------------------------
(* Handlers that do not overlap *)

\* The copy of the one handler under way is the row itself.
FreshCopy(h) == pc[h] # "idle" => snap[h] = row /\ WillAgree(op[h], next[h])

SerialInv == /\ IInv
             /\ Alone
             /\ DecisionAgrees
             /\ \A h \in Handler : FreshCopy(h)

\* Saving over the row one has read writes the status one means to.
LEMMA FreshSave ==
  ASSUME NEW h \in Handler, NEW v \in Row, Save(h, v), snap[h] = row
  PROVE  /\ row'.status = v.status
         /\ row'.decision = v.decision
         /\ row.stamps \subseteq v.stamps => row' = v
<1>1. row' = [status |-> IF v.status # row.status THEN v.status ELSE row.status,
              decision |-> IF v.decision # row.decision
                           THEN v.decision ELSE row.decision,
              amount_requested |-> IF v.amount_requested # row.amount_requested
                                   THEN v.amount_requested
                                   ELSE row.amount_requested,
              funded_amount |-> IF v.funded_amount # row.funded_amount
                                THEN v.funded_amount ELSE row.funded_amount,
              stamps |-> row.stamps \cup v.stamps]
  BY DEF Save, Merge
<1>2. row' = [status |-> v.status, decision |-> v.decision,
              amount_requested |-> v.amount_requested,
              funded_amount |-> v.funded_amount,
              stamps |-> row.stamps \cup v.stamps]
  BY <1>1
<1>3. v = [status |-> v.status, decision |-> v.decision,
           amount_requested |-> v.amount_requested,
           funded_amount |-> v.funded_amount, stamps |-> v.stamps]
  BY DEF Row
<1>4. row.stamps \subseteq v.stamps => row.stamps \cup v.stamps = v.stamps
  OBVIOUS
<1> QED  BY <1>2, <1>3, <1>4

\* One step of a lone handler: the status stays or takes a legal hop.
LEMMA SerialStep ==
  ASSUME SerialInv, Next, Alone'
  PROVE  /\ DecisionAgrees'
         /\ \A h \in Handler : FreshCopy(h)'
         /\ Walk(row.status, row'.status)
<1> USE DEF SerialInv
<1>t. TypeOK  BY DEF IInv
<1>b. ASSUME NEW h \in Handler, NEW o \in Operation, NEW n \in Row,
             Begin(h, o, n), Lawful(o, n)
      PROVE  /\ DecisionAgrees'
             /\ \A g \in Handler : FreshCopy(g)'
             /\ Walk(row.status, row'.status)
  <2>1. row' = row  BY <1>b DEF Begin, rowVars
  <2>2. /\ pc'[h] # "idle" /\ snap'[h] = row /\ next'[h] = n
        /\ op'[h] = o /\ WillAgree(o, n)
        /\ visited' = visited /\ withdrew' = withdrew
    BY <1>b, <1>t DEF Begin, TypeOK, Lawful, historyVars
  <2>3. \A g \in Handler : g # h => pc'[g] = "idle"  BY <2>2 DEF Alone
  <2> QED
    BY <2>1, <2>2, <2>3
    DEF DecisionAgrees, FreshCopy, Walk, WillAgree, EverApproved
<1>1. CASE \E r \in Request : Ask(r)
  <2>1. PICK r \in Request : Ask(r)  BY <1>1
  <2>2. PICK o \in Operation, n \in Row : Begin(r, o, n) /\ Lawful(o, n)
    BY <1>t, <2>1, AskBegins DEF Started
  <2> QED  BY <1>b, <2>2 DEF Handler
<1>2. CASE SelectInactive
  BY <1>b, <1>t, <1>2, SelectBegins DEF Handler, Operation
<1>3. ASSUME NEW h \in Handler, EarlySave(h)
      PROVE  /\ DecisionAgrees'
             /\ \A g \in Handler : FreshCopy(g)'
             /\ Walk(row.status, row'.status)
  <2> DEFINE v == EarlyValues(h)
  <2>1. /\ pc[h] = "early_save" /\ Save(h, v) /\ snap[h] = row
        /\ pc'[h] = "run_action" /\ snap'[h] = v /\ next'[h] = next[h]
        /\ op'[h] = op[h] /\ WillAgree(op[h], next[h])
    BY <1>t, <1>3 DEF EarlySave, TypeOK, FreshCopy
  <2>2. /\ v \in Row
        /\ row.stamps \subseteq v.stamps
        /\ v.decision = row.decision
        /\ v.status \notin {"approved", "declined", "funded"}
    BY <1>t, <2>1, StatusValues DEF EarlyValues, TypeOK, Row, Stamp
  <2>3. row' = v  BY <2>1, <2>2, FreshSave
  <2>4. canTransition(row.status, v.status)
    BY <2>1 DEF IInv, HandlerInv
  <2>5. row.status \notin {"declined", "withdrawn"}  BY <2>4, ClosedIsFinal
  <2>6. \A g \in Handler : g # h => pc'[g] = "idle"  BY <2>1 DEF Alone
  <2>7. /\ EverApproved' = EverApproved
        /\ withdrew' = (withdrew \/ op[h] = "withdraw")
    BY <2>1, <2>2, <2>3 DEF Save, EverApproved
  <2>8. op[h] # "withdraw"  BY <2>1 DEF IInv, HandlerInv
  <2>9. DecisionAgrees'
    BY <2>2, <2>3, <2>5, <2>7, <2>8 DEF DecisionAgrees, EverApproved
  <2>10. WillAgree(op[h], next[h])'
    BY <2>1, <2>7, <2>8 DEF WillAgree
  <2> QED  BY <2>1, <2>3, <2>4, <2>6, <2>9, <2>10 DEF FreshCopy, Walk
<1>4. ASSUME NEW h \in Handler, RunAction(h)
      PROVE  /\ DecisionAgrees'
             /\ \A g \in Handler : FreshCopy(g)'
             /\ Walk(row.status, row'.status)
  <2>1. /\ pc[h] = "run_action" /\ Save(h, next[h]) /\ snap[h] = row
        /\ pc'[h] = "idle" /\ next[h] \in Row
        /\ WillAgree(op[h], next[h]) /\ Walk(snap[h].status, next[h].status)
    BY <1>t, <1>4 DEF RunAction, Rest, TypeOK, FreshCopy, IInv, HandlerInv
  <2>2. row'.status = next[h].status /\ row'.decision = next[h].decision
    BY <2>1, FreshSave
  <2>3. \A g \in Handler : g # h => pc'[g] = "idle"
    BY <1>t, <1>4, <2>1 DEF Alone, RunAction, Rest, TypeOK
  <2>4. /\ EverApproved' = (EverApproved \/ next[h].status = "approved")
        /\ withdrew' = (withdrew \/ op[h] = "withdraw")
    BY <2>1, <2>2 DEF Save, EverApproved
  <2>5. DecisionAgrees'
    BY <2>1, <2>2, <2>4 DEF DecisionAgrees, WillAgree, Agrees, EverApproved
  <2> QED  BY <2>1, <2>2, <2>3, <2>5 DEF FreshCopy
<1>5. ASSUME NEW h \in Handler, Crash(h)
      PROVE  /\ DecisionAgrees'
             /\ \A g \in Handler : FreshCopy(g)'
             /\ Walk(row.status, row'.status)
  <2>1. UNCHANGED <<row, visited, withdrew>>
    BY <1>5 DEF Crash, rowVars, historyVars
  <2>2. \A g \in Handler : pc'[g] = "idle"
    BY <1>t, <1>5 DEF Alone, Crash, Rest, TypeOK
  <2> QED  BY <2>1, <2>2 DEF DecisionAgrees, FreshCopy, Walk
<1>6. CASE FortyFiveDaysPass
  <2>1. /\ UNCHANGED <<row, visited, withdrew, pc>>
        /\ \A g \in Handler : pc[g] = "idle"
    BY <1>6 DEF FortyFiveDaysPass, handlerVars, historyVars
  <2>2. DecisionAgrees'  BY <2>1 DEF DecisionAgrees
  <2>3. \A g \in Handler : FreshCopy(g)'  BY <2>1 DEF FreshCopy
  <2> QED  BY <2>1, <2>2, <2>3 DEF Walk
<1> QED  BY <1>1, <1>2, <1>3, <1>4, <1>5, <1>6 DEF Next

LEMMA SerialInvHolds == SerialSpec => []SerialInv
<1>1. ASSUME Init PROVE SerialInv
  <2>1. IInv  BY <1>1, InitHolds
  <2>2. \A h \in Handler : pc[h] = "idle"  BY <1>1 DEF Init
  <2>3. Alone /\ \A h \in Handler : FreshCopy(h)
    BY <2>2 DEF Alone, FreshCopy
  <2>4. /\ row.status = "pending_call" /\ row.decision = "none"
        /\ ~withdrew /\ "approved" \notin visited
    BY <1>1 DEF Init
  <2>5. DecisionAgrees  BY <2>4 DEF DecisionAgrees
  <2> QED  BY <2>1, <2>3, <2>5 DEF SerialInv
<1>2. SerialInv /\ [Next /\ Alone']_vars => SerialInv'
  <2> SUFFICES ASSUME SerialInv, [Next /\ Alone']_vars PROVE SerialInv'
    OBVIOUS
  <2>1. IInv'  BY StepHolds DEF SerialInv
  <2>2. CASE Next /\ Alone'
    BY <2>1, <2>2, SerialStep DEF SerialInv
  <2>3. CASE UNCHANGED vars
    <3>1. UNCHANGED <<row, pc, op, snap, next, visited, withdrew>>
      BY <2>3 DEF vars, rowVars, handlerVars, historyVars
    <3>2. DecisionAgrees'  BY <3>1 DEF SerialInv, DecisionAgrees
    <3>3. Alone'  BY <3>1 DEF SerialInv, Alone
    <3>4. \A g \in Handler : FreshCopy(g)'
      BY <3>1 DEF SerialInv, FreshCopy, WillAgree, EverApproved
    <3> QED  BY <2>1, <3>2, <3>3, <3>4 DEF SerialInv
  <2> QED  BY <2>2, <2>3
<1> QED  BY <1>1, <1>2, PTL DEF SerialSpec

\* When handlers do not overlap, the decision column is the status's decision,
\* "withdrawn" exactly after the withdraw action, and otherwise tells whether
\* the file was approved: no handler that decides forgets one of the columns.
THEOREM DecisionConsistent == SerialSpec => []DecisionAgrees
<1>1. SerialInv => DecisionAgrees  BY DEF SerialInv
<1> QED  BY <1>1, SerialInvHolds, PTL

\* When handlers do not overlap, the row implements the status machine: every
\* change of the status column is one hop of ALLOWED_TRANSITIONS, so a file
\* at rest stays there.
THEOREM ImplementsLifecycle == SerialSpec => FollowsLifecycle
<1>1. Init => Lifecycle!Init  BY DEF Init, Lifecycle!Init
<1>2. SerialInv /\ [Next /\ Alone']_vars => [Lifecycle!Next]_(row.status)
  <2> SUFFICES ASSUME SerialInv, Next, Alone'
               PROVE  [Lifecycle!Next]_(row.status)
    BY DEF vars, rowVars
  <2>1. Walk(row.status, row'.status)  BY SerialStep
  <2>2. row.status \in Status  BY DEF SerialInv, IInv, TypeOK, Row
  <2>3. CASE row'.status = row.status  BY <2>3
  <2>4. CASE row'.status # row.status
    <3>1. canTransition(row.status, row'.status)  BY <2>1, <2>4 DEF Walk
    <3>2. row'.status \in Status  BY <2>2, <3>1, ForwardStatuses
    <3>3. Lifecycle!canTransition(row.status, row'.status)
      BY <3>1
      DEF canTransition, ALLOWED_TRANSITIONS, ForwardSteps, UNIVERSAL_EXITS,
          isTerminal, TERMINAL_STATUSES, Status, PIPELINE,
          Lifecycle!canTransition, Lifecycle!ALLOWED_TRANSITIONS,
          Lifecycle!ForwardSteps, Lifecycle!UNIVERSAL_EXITS,
          Lifecycle!isTerminal, Lifecycle!TERMINAL_STATUSES,
          Lifecycle!Status, Lifecycle!PIPELINE
    <3> QED
      BY <3>2, <3>3
      DEF Lifecycle!Next, Lifecycle!Move, Lifecycle!Status, Lifecycle!PIPELINE,
          Lifecycle!TERMINAL_STATUSES, Status, PIPELINE, TERMINAL_STATUSES
  <2> QED  BY <2>3, <2>4
<1> QED
  BY <1>1, <1>2, SerialInvHolds, PTL
  DEF SerialSpec, FollowsLifecycle, Lifecycle!Spec

=============================================================================
