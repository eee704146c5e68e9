---------------------------- MODULE BorrowerLinks ----------------------------
(***************************************************************************)
(* The one-time links of one application and one purpose: the requests and *)
(* jobs that issue them (BorrowerActionTokenService.issue and its callers) *)
(* and the borrower's requests that redeem them (BorrowerActionService,    *)
(* PlaidController).                                                       *)
(*                                                                         *)
(* A token row is read by one statement and claimed by another; issuing    *)
(* revokes with one statement and inserts with the next.  Between any two  *)
(* of them the other requests run.                                         *)
(***************************************************************************)
EXTENDS Naturals, FiniteSets

CONSTANTS Link, NoLink,
          Issuer,       \* admin buttons, tracker clicks and drip jobs
          Visitor,      \* the borrower's requests: tabs, devices, retries
          Purpose,      \* what the links are for
          MaxAttempts,  \* MAX_DEPOSIT_ATTEMPTS
          Restarts      \* whether the server may restart under a request

ASSUME PurposeAssumption ==
  Purpose \in {"bank_verification", "agreement_signature",
               "deposit_confirmation"}
ASSUME LinkAssumption == NoLink \notin Link
ASSUME AttemptsAssumption == MaxAttempts \in Nat \ {0}

VARIABLES
  created, revoked, consumed, expired,  \* the token rows, by column
  stage,      \* where the file is, as seen from this purpose
  attempts,   \* micro_deposit_attempts
  ipc, read, mine,   \* an issuer: its next step, the file it read, its link
  vpc, held,         \* a visitor: its next step, the link it presents
  given,      \* the links the borrower has been given
  newest,     \* history: the link created last
  returned,   \* history: links handed back at least once
  acts        \* history: how often each link has moved the file

tokenVars   == <<created, revoked, consumed, expired>>
fileVars    == <<stage, attempts>>
issuerVars  == <<ipc, read, mine>>
visitorVars == <<vpc, held>>
mailVars    == <<given, newest>>
vars == <<tokenVars, fileVars, issuerVars, visitorVars, mailVars,
          returned, acts>>

\* "before": the link may be sent, the step not yet taken.  "no_amounts": the
\* deposit status was set by hand.  "done": already taken, on record.
Stage == {"before", "no_amounts", "awaiting", "done_by_hand", "done",
          "elsewhere"}

\* Not revoked, not consumed, not expired (rejectionReason is null).
Live == created \ (revoked \cup consumed \cup expired)

-----------------------------------------------------------------------------
(* Issuing *)

\* Where a file must be for somebody to issue a link: re-sending a drip email
\* mints a bank link for any file; the agreement is sent or re-sent by an
\* admin; the deposit's first link goes out with it, later ones through the
\* tracker.
IssuableFrom ==
  [bank_verification    |-> Stage,
   agreement_signature  |-> {"before", "awaiting"},
   deposit_confirmation |-> {"before", "no_amounts", "awaiting"}]

Start(i) ==
  /\ ipc[i] = "idle"
  /\ stage \in IssuableFrom[Purpose]
  /\ ipc'  = [ipc EXCEPT ![i] = "revoke"]
  /\ read' = [read EXCEPT ![i] = [stage |-> stage, attempts |-> attempts]]
  /\ UNCHANGED <<tokenVars, fileVars, mine, visitorVars, mailVars, returned, acts>>

\* (Mutant: only links older than the newest are revoked.)
RevokeOlder(i) ==
  /\ ipc[i] = "revoke"
  /\ revoked' = revoked \cup (created \ (consumed \cup {newest}))
  /\ ipc' = [ipc EXCEPT ![i] = "create"]
  /\ UNCHANGED <<created, consumed, expired, fileVars, read, mine, visitorVars,
                 mailVars, returned, acts>>

RevokeOutstanding(i) ==
  /\ ipc[i] = "revoke"
  /\ revoked' = revoked \cup (created \ consumed)
  /\ ipc' = [ipc EXCEPT ![i] = "create"]
  /\ UNCHANGED <<created, consumed, expired, fileVars, read, mine, visitorVars,
                 mailVars, returned, acts>>

Create(i) ==
  /\ ipc[i] = "create"
  /\ \E l \in Link \ created :
       /\ created' = created \cup {l}
       /\ mine' = [mine EXCEPT ![i] = l]
       /\ newest' = l
  /\ ipc' = [ipc EXCEPT ![i] = "deliver"]
  /\ UNCHANGED <<revoked, consumed, expired, fileVars, read, visitorVars,
                 given, returned, acts>>

\* Where saving the action that issued the link leaves the file.  The save
\* compares with what the issuer read, so it may undo a later move; a bank
\* link's issuer writes a status only if it read an earlier one.
SavedStages(i) ==
  IF stage = "done" /\ Purpose # "agreement_signature" THEN {"done"}
  ELSE IF read[i].stage = "before" THEN {"awaiting"}
  ELSE IF Purpose = "bank_verification" /\ read[i].stage = "awaiting"
  THEN {stage, "awaiting"}
  ELSE {stage}

\* The email may be withheld by the admin, suppressed or fail.
Deliver(i) ==
  /\ ipc[i] = "deliver"
  /\ stage' \in SavedStages(i)
  /\ attempts' = IF /\ Purpose = "deposit_confirmation"
                    /\ read[i].stage = "before"
                    /\ read[i].attempts # 0
                 THEN 0 ELSE attempts
  /\ given' \in {given, given \cup {mine[i]}}
  /\ ipc'  = [ipc EXCEPT ![i] = "idle"]
  /\ read' = [read EXCEPT ![i] = [stage |-> "before", attempts |-> 0]]
  /\ mine' = [mine EXCEPT ![i] = NoLink]
  /\ UNCHANGED <<tokenVars, visitorVars, newest, returned, acts>>

-----------------------------------------------------------------------------
(* Redeeming *)

Goto(v, there) == vpc' = [vpc EXCEPT ![v] = there]

Leave(v) == /\ vpc'  = [vpc EXCEPT ![v] = "idle"]
            /\ held' = [held EXCEPT ![v] = NoLink]

\* verify, so that the borrower can open Plaid.
CreateLinkToken(v) ==
  /\ Purpose = "bank_verification"
  /\ vpc[v] = "idle"
  /\ \E l \in given \cap Live : held' = [held EXCEPT ![v] = l]
  /\ Goto(v, "at_plaid")
  /\ UNCHANGED <<tokenVars, fileVars, issuerVars, mailVars, returned, acts>>

\* verify again, then exchange the public token with Plaid; either may refuse.
Exchange(v) ==
  /\ vpc[v] = "at_plaid"
  /\ \/ held[v] \in Live /\ Goto(v, "exchanged") /\ UNCHANGED held
     \/ Leave(v)
  /\ UNCHANGED <<tokenVars, fileVars, issuerVars, mailVars, returned, acts>>

\* consume, first half: findOne and rejectionReason.
Consume(v) ==
  /\ \/ /\ vpc[v] = "idle"
        /\ \E l \in given \cap Live : held' = [held EXCEPT ![v] = l]
        /\ Goto(v, "claim")
     \/ /\ vpc[v] = "exchanged"
        /\ IF held[v] \in Live THEN Goto(v, "claim") /\ UNCHANGED held
                               ELSE Leave(v)
  /\ UNCHANGED <<tokenVars, fileVars, issuerVars, mailVars, returned, acts>>

\* (Mutant: the UPDATE does not ask for consumed_at NULL.)
ClaimAnyway(v) ==
  /\ vpc[v] = "claim"
  /\ consumed' = consumed \cup {held[v]}
  /\ Goto(v, "claimed")
  /\ UNCHANGED <<created, revoked, expired, fileVars, issuerVars, held,
                 mailVars, returned, acts>>

\* consume, second half: UPDATE ... WHERE consumed_at IS NULL.
Claim(v) ==
  /\ vpc[v] = "claim"
  /\ \/ /\ held[v] \notin consumed
        /\ consumed' = consumed \cup {held[v]}
        /\ Goto(v, "claimed")
        /\ UNCHANGED held
     \/ /\ held[v] \in consumed
        /\ Leave(v)
        /\ UNCHANGED consumed
  /\ UNCHANGED <<created, revoked, expired, fileVars, issuerVars, mailVars,
                 returned, acts>>

AlreadyDone == stage = "done" \/ stage = "done_by_hand"

\* (Mutant: the attempt limit is not looked at.)
LoadUnlimited(v) ==
  /\ vpc[v] = "claimed"
  /\ \/ AlreadyDone /\ Leave(v)
     \/ ~AlreadyDone /\ UNCHANGED held /\ \E there \in {"acting", "missed"} : Goto(v, there)
  /\ UNCHANGED <<tokenVars, fileVars, issuerVars, mailVars, returned, acts>>

\* load, and what each entry point makes of the file: success if already
\* done; for the bank link anything else goes on to the workflow service, for
\* the others a file not awaiting the step gets the link back, and the deposit
\* is guessed right or wrong while attempts last.
Load(v) ==
  /\ vpc[v] = "claimed"
  /\ \/ AlreadyDone /\ Leave(v)
     \/ /\ ~AlreadyDone
        /\ UNCHANGED held
        /\ IF Purpose = "bank_verification" THEN Goto(v, "acting")
           ELSE IF stage # "awaiting" THEN Goto(v, "hand_back")
           ELSE IF Purpose = "agreement_signature" THEN Goto(v, "acting")
           ELSE /\ attempts < MaxAttempts
                /\ \E there \in {"acting", "missed"} : Goto(v, there)
     \/ /\ ~AlreadyDone
        /\ Purpose = "deposit_confirmation"
        /\ stage = "awaiting"
        /\ attempts >= MaxAttempts
        /\ Leave(v)
  /\ UNCHANGED <<tokenVars, fileVars, issuerVars, mailVars, returned, acts>>

\* A wrong guess: an atomic increment.
Increment(v) ==
  /\ vpc[v] = "missed"
  /\ attempts' = attempts + 1
  /\ Goto(v, "hand_back")
  /\ UNCHANGED <<tokenVars, stage, issuerVars, held, mailVars, returned, acts>>

Release(v) ==
  /\ vpc[v] = "hand_back"
  /\ consumed' = consumed \ {held[v]}
  /\ returned' = returned \cup {held[v]}
  /\ Leave(v)
  /\ UNCHANGED <<created, revoked, expired, fileVars, issuerVars, mailVars, acts>>

\* The workflow service reads the file once more; if it has moved it throws,
\* and the link stays spent.
Reread(v) ==
  /\ vpc[v] = "acting"
  /\ \/ stage = "awaiting" /\ Goto(v, "saving") /\ UNCHANGED held
     \/ stage # "awaiting" /\ Leave(v)
  /\ UNCHANGED <<tokenVars, fileVars, issuerVars, mailVars, returned, acts>>

\* (Mutant: the flag gets a value of its own.)
SaveVerified(v) ==
  /\ vpc[v] = "saving"
  /\ stage' = "verified"
  /\ acts' = [acts EXCEPT ![held[v]] = @ + 1]
  /\ Leave(v)
  /\ UNCHANGED <<tokenVars, attempts, issuerVars, mailVars, returned>>

\* (Mutant: the link is released after every outcome.)
SaveAndRelease(v) ==
  /\ vpc[v] = "saving"
  /\ stage' = "done"
  /\ acts' = [acts EXCEPT ![held[v]] = @ + 1]
  /\ consumed' = consumed \ {held[v]}
  /\ Leave(v)
  /\ UNCHANGED <<created, revoked, expired, attempts, issuerVars, mailVars, returned>>

\* recordBankVerified, recordAgreementSigned, confirmVerificationDeposit.
Save(v) ==
  /\ vpc[v] = "saving"
  /\ stage' = "done"
  /\ acts' = [acts EXCEPT ![held[v]] = @ + 1]
  /\ Leave(v)
  /\ UNCHANGED <<tokenVars, attempts, issuerVars, mailVars, returned>>

-----------------------------------------------------------------------------
(* The rest of the system *)

ThirtyDaysPass(l) ==
  /\ l \in created
  /\ expired' = expired \cup {l}
  /\ UNCHANGED <<created, revoked, consumed, fileVars, issuerVars, visitorVars,
                 mailVars, returned, acts>>

\* Every other handler of the application, as far as this purpose can tell.
MovesByOthers ==
  [bank_verification    |-> {<<"awaiting", "elsewhere">>},
   agreement_signature  |-> {<<"before", "awaiting">>, <<"awaiting", "done">>}
                            \cup {"before", "awaiting", "done"} \X {"elsewhere"},
   deposit_confirmation |-> {<<"before", "no_amounts">>,
                             <<"no_amounts", "done_by_hand">>,
                             <<"awaiting", "done_by_hand">>}
                            \cup {"before", "no_amounts", "awaiting",
                                  "done_by_hand"} \X {"elsewhere"}]

FileMovesOn ==
  /\ \E to \in Stage : /\ <<stage, to>> \in MovesByOthers[Purpose]
                     /\ stage' = to
  /\ UNCHANGED <<tokenVars, attempts, issuerVars, visitorVars, mailVars,
                 returned, acts>>

\* The server restarts under a request: what it committed stays.
IssuerDies(i) ==
  /\ Restarts
  /\ ipc[i] # "idle"
  /\ ipc'  = [ipc EXCEPT ![i] = "idle"]
  /\ read' = [read EXCEPT ![i] = [stage |-> "before", attempts |-> 0]]
  /\ mine' = [mine EXCEPT ![i] = NoLink]
  /\ UNCHANGED <<tokenVars, fileVars, visitorVars, mailVars, returned, acts>>

VisitorDies(v) ==
  /\ Restarts
  /\ vpc[v] # "idle"
  /\ Leave(v)
  /\ UNCHANGED <<tokenVars, fileVars, issuerVars, mailVars, returned, acts>>

-----------------------------------------------------------------------------

Init ==
  /\ created = {} /\ revoked = {} /\ consumed = {} /\ expired = {}
  /\ stage = IF Purpose = "bank_verification" THEN "awaiting" ELSE "before"
  /\ attempts = 0
  /\ ipc = [i \in Issuer |-> "idle"]
  /\ read = [i \in Issuer |-> [stage |-> "before", attempts |-> 0]]
  /\ mine = [i \in Issuer |-> NoLink]
  /\ vpc = [v \in Visitor |-> "idle"]
  /\ held = [v \in Visitor |-> NoLink]
  /\ given = {} /\ newest = NoLink
  /\ returned = {}
  /\ acts = [l \in Link |-> 0]

Issuing(i) ==
  Start(i) \/ RevokeOutstanding(i) \/ Create(i) \/ Deliver(i) \/ IssuerDies(i)

Redeeming(v) ==
  \/ CreateLinkToken(v) \/ Exchange(v) \/ Consume(v) \/ Claim(v) \/ Load(v)
  \/ Increment(v) \/ Release(v) \/ Reread(v) \/ Save(v) \/ VisitorDies(v)

Next ==
  \/ \E i \in Issuer : Issuing(i)
  \/ \E v \in Visitor : Redeeming(v)
  \/ \E l \in Link : ThirtyDaysPass(l)
  \/ FileMovesOn

Spec == Init /\ [][Next]_vars

-----------------------------------------------------------------------------
(* Properties *)

VisitorStep == {"idle", "at_plaid", "exchanged", "claim", "claimed", "missed",
                "hand_back", "acting", "saving"}

TypeOK ==
  /\ created \subseteq Link
  /\ revoked \subseteq created
  /\ consumed \subseteq created
  /\ expired \subseteq created
  /\ stage \in Stage
  /\ attempts \in Nat
  /\ ipc \in [Issuer -> {"idle", "revoke", "create", "deliver"}]
  /\ read \in [Issuer -> [stage : Stage, attempts : Nat]]
  /\ mine \in [Issuer -> created \cup {NoLink}]
  /\ \A i \in Issuer : ipc[i] = "deliver" => mine[i] # NoLink
  /\ vpc \in [Visitor -> VisitorStep]
  /\ held \in [Visitor -> created \cup {NoLink}]
  /\ \A v \in Visitor : held[v] = NoLink <=> vpc[v] = "idle"
  /\ given \subseteq created
  /\ newest \in created \cup {NoLink}
  /\ returned \subseteq created
  /\ acts \in [Link -> Nat]

\* Requests past their claim, which act on the link's authority.
Holds(v, l) ==
  /\ held[v] = l
  /\ vpc[v] \in {"claimed", "missed", "hand_back", "acting", "saving"}

\* A link is in one request's hands at a time, although it can be handed back
\* and claimed again: of two simultaneous submissions only one proceeds (the
\* conditional UPDATE in consume).
OneHolder ==
  \A l \in Link : \A v, w \in Visitor : Holds(v, l) /\ Holds(w, l) => v = w

\* Every further guess past the limit needs a further link in use at the same
\* time: on one link the borrower gets MaxAttempts and no more, however many
\* tabs submit it (the attempt count is read before it is incremented).
GuessesBounded ==
  created # {} => attempts < MaxAttempts + Cardinality(created)

\* While issuers do not overlap, the links that still open are the newest one
\* and such as a request held, and gave back, while newer ones were issued.
SupersededUnlessReturned == Live \subseteq {newest} \cup returned

\* Seen from the file, the token rows are one-time links.
LinkState(l) == IF l \notin consumed THEN "unused"
                ELSE IF \E v \in Visitor : Holds(v, l) THEN "open"
                ELSE "spent"

OneTime == INSTANCE OneTimeLink
             WITH state <- [l \in Link |-> LinkState(l)], uses <- acts

LinksAreOneTime == OneTime!Spec

=============================================================================
