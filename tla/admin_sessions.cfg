CONSTANTS
  Session = {s1}
  Request = {r1, r2}
  NoSession = nosession
  Granted = {"super_admin", "agent"}
  MaxFailed = 2
  MaxTokens = 3
  MaxChanges = 2
SPECIFICATION Spec
SYMMETRY Symmetry
CHECK_DEADLOCK FALSE
INVARIANTS RightsAreCurrent SessionsAreSound GuessesAreBounded
PROPERTY FollowsRefreshFamily
