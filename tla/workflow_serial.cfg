CONSTANTS
  Request = {r1}
  Sweep = sweep
  Amount = {1, 2}
  InUse <- Everything
SPECIFICATION SerialSpec
INVARIANTS DecisionAgrees
PROPERTIES FollowsLifecycle
