---------------------------- MODULE StatusMachine ----------------------------
(***************************************************************************)
(* The status machine of a loan application, as data: the statuses, the    *)
(* table of allowed transitions and the predicates every other part of the *)
(* backend asks of it (src/src/applications/application-status.machine.ts).*)
(***************************************************************************)

TERMINAL_STATUSES == {"declined", "funded", "withdrawn", "expired"}

\* The ladder without its exits, from intake to disbursement.
PIPELINE == {"received", "pending_call", "in_review",
             "bank_verification_pending", "bank_verification_complete",
             "agreement_sent", "agreement_signed",
             "verification_deposit_sent", "verification_deposit_confirmed",
             "underwriting", "approved", "funded"}

Status == PIPELINE \cup TERMINAL_STATUSES

isTerminal(status) == status \in TERMINAL_STATUSES

\* Exits open from every live status.
UNIVERSAL_EXITS == {"withdrawn", "expired", "declined"}

\* Each live status' own forward steps.
ForwardSteps ==
  [received                       |-> {"pending_call"},
   pending_call                   |-> {"in_review", "bank_verification_pending"},
   in_review                      |-> {"bank_verification_pending"},
   bank_verification_pending      |-> {"bank_verification_complete"},
   bank_verification_complete     |-> {"agreement_sent"},
   agreement_sent                 |-> {"agreement_signed"},
   agreement_signed               |-> {"verification_deposit_sent"},
   verification_deposit_sent      |-> {"verification_deposit_confirmed"},
   verification_deposit_confirmed |-> {"underwriting"},
   underwriting                   |-> {"approved", "declined"},
   approved                       |-> {"funded"}]

ALLOWED_TRANSITIONS ==
  [from \in Status |-> IF isTerminal(from) THEN {}
                       ELSE ForwardSteps[from] \cup UNIVERSAL_EXITS]

\* assertTransition also refuses from = to, which no row of the table holds.
canTransition(from, to) == to \in ALLOWED_TRANSITIONS[from]

=============================================================================
