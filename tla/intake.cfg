CONSTANTS
  Request = {r1, r2}
  miami = miami
  pensacola = pensacola
  Person = {miami, pensacola}
  Home <- HomeDef
  Instant <- InstantDef
  Anytime <- AnytimeDef
  Later <- LaterDef
  Shared = 2
  MaxFiles = 2
  PoolSize = 2
  LOOKUP_ATTEMPT_LIMIT = 1
SPECIFICATION Spec
SYMMETRY Symmetry
CHECK_DEADLOCK FALSE
INVARIANTS IntakeRulesHold OnlyFailedInsertsLeak LookupsBounded SchedulesHold
PROPERTY FollowedUp
