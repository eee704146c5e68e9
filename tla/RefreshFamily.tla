---------------------------- MODULE RefreshFamily ----------------------------
(***************************************************************************)
(* What the sessions of an admin promise to whoever holds a refresh token: *)
(* a session is opened once, accepts one token at a time and, when it      *)
(* changes, a newer one than any it accepted before; a session that is     *)
(* past its time accepts none, and a revoked one is revoked for good.      *)
(***************************************************************************)
EXTENDS Naturals

CONSTANT Session

VARIABLES phase,   \* of each session: "unopened", "open", "expired" or
           \* "revoked"
          accepts  \* the number of the token it accepts, 0 for none

Init == /\ phase = [s \in Session |-> "unopened"]
        /\ accepts = [s \in Session |-> 0]

Open(s) == /\ phase[s] = "unopened"
           /\ phase' = [phase EXCEPT ![s] = "open"]
           /\ UNCHANGED accepts

Renew(s) == /\ phase[s] = "open"
            /\ accepts'[s] > accepts[s]
            /\ accepts' = [accepts EXCEPT ![s] = accepts'[s]]
            /\ UNCHANGED phase

Expire(s) == /\ phase[s] = "open"
             /\ phase' = [phase EXCEPT ![s] = "expired"]
             /\ accepts' = [accepts EXCEPT ![s] = 0]

\* One session, or all of an account at once.
Revoke(S) ==
  /\ \A s \in S : phase[s] \in {"open", "expired"}
  /\ phase' = [s \in Session |-> IF s \in S THEN "revoked" ELSE phase[s]]
  /\ accepts' = [s \in Session |-> IF s \in S THEN 0 ELSE accepts[s]]

Next == \/ \E S \in SUBSET Session : Revoke(S)
        \/ \E s \in Session : Open(s) \/ Renew(s) \/ Expire(s)

Spec == Init /\ [][Next]_<<phase, accepts>>
=============================================================================
