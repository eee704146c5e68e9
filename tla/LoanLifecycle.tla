---------------------------- MODULE LoanLifecycle ----------------------------
(***************************************************************************)
(* What the status column of one application promises to everything that   *)
(* reads it: it starts where intake puts it and then only ever takes hops  *)
(* the status machine allows, so it never leaves a terminal status.        *)
(***************************************************************************)
EXTENDS StatusMachine

VARIABLE status

Init == status = "pending_call"

Move(to) == /\ canTransition(status, to)
            /\ status' = to

Next == \E to \in Status : Move(to)

Spec == Init /\ [][Next]_status
=============================================================================
