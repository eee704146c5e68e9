------------------------------- MODULE MCOutbox --------------------------------
(* Outbox for TLC: senders are alike, and reports are.                        *)
EXTENDS Outbox, TLC

Symmetry == Permutations(Sender) \cup Permutations(Report)
================================================================================
