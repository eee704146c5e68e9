CONSTANTS
  CallStep = {}
  BankStep = {b1}
  NoStep = none
  NoFile = nofile
  Address = {a1, a2}
  Worker = {w1, w2}
  Mover = {m1}
  Attempts = 3
  Reached = {"pending_call", "withdrawn"}
  Faults = {"smtp","restart","stall"}
SPECIFICATION Spec
SYMMETRY Symmetry
CHECK_DEADLOCK FALSE
INVARIANTS TypeOK LateMailsBounded CopiesBounded
