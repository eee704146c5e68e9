----------------------------- MODULE OneTimeLink -----------------------------
(***************************************************************************)
(* What the links emailed to a borrower promise to the file they act on: a *)
(* link opens for one request at a time, that request either hands it back *)
(* untouched or uses it up, and a used-up link never opens again, so each  *)
(* link moves the file at most once.                                       *)
(***************************************************************************)
EXTENDS Naturals

CONSTANT Link

VARIABLES state,  \* of each link: "unused", "open" or "spent"
          uses    \* how often the file was moved on its authority

Init == /\ state = [l \in Link |-> "unused"]
        /\ uses = [l \in Link |-> 0]

Open(l) == /\ state[l] = "unused"
           /\ state' = [state EXCEPT ![l] = "open"]
           /\ UNCHANGED uses

HandBack(l) == /\ state[l] = "open"
               /\ state' = [state EXCEPT ![l] = "unused"]
               /\ UNCHANGED uses

\* Spent with the file moved, or spent for nothing.
Spend(l) == /\ state[l] = "open"
            /\ state' = [state EXCEPT ![l] = "spent"]
            /\ \/ uses' = [uses EXCEPT ![l] = @ + 1]
               \/ UNCHANGED uses

Next == \E l \in Link : Open(l) \/ HandBack(l) \/ Spend(l)

Spec == Init /\ [][Next]_<<state, uses>>
=============================================================================
