CONSTANTS
  Link = {l1, l2}
  NoLink = none
  Issuer = {i1, i2}
  Visitor = {v1, v2}
  Purpose = "bank_verification"
  MaxAttempts = 1
  Restarts = TRUE
SPECIFICATION Spec
SYMMETRY Symmetry
CHECK_DEADLOCK FALSE
PROPERTIES LinksAreOneTime
