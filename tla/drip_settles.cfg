CONSTANTS
  CallStep = {}
  BankStep = {b1}
  NoStep = none
  NoFile = nofile
  Address = {a1}
  Worker = {w1}
  Mover = {m1}
  Attempts = 3
  Reached = {"pending_call", "bank_verification_pending", "bank_verification_complete", "withdrawn"}
  Faults = {"smtp","database","redis"}
SPECIFICATION FairSpec
CHECK_DEADLOCK FALSE
INVARIANTS RowTellsMail
PROPERTIES EveryStepSettles
