CONSTANTS
  Link = {l1, l2, l3}
  NoLink = none
  Issuer = {i1}
  Visitor = {v1, v2}
  Purpose = "deposit_confirmation"
  MaxAttempts = 1
  Restarts = TRUE
SPECIFICATION Spec
SYMMETRY Symmetry
CHECK_DEADLOCK FALSE
INVARIANTS TypeOK OneHolder GuessesBounded SupersededUnlessReturned
