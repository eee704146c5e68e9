CONSTANTS
  Request = {r1}
  Sweep = sweep
  Amount = {1}
  InUse <- Everything
SPECIFICATION FairSpec
INVARIANTS ObligationsRecorded
PROPERTIES AbandonedFileCloses
