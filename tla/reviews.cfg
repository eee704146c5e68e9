CONSTANTS
  Caller = {r, x}
  Sweep = {x, s}
  Text = {a, b}
  Reason = {profanity}
  MaxTokens = 2
  MaxDeaths = 1
SPECIFICATION FairSpec
CHECK_DEADLOCK FALSE
INVARIANTS PublishedIsSound NewestMailWorks SweepsAskOnce
PROPERTIES ReviewIsOneShot DueFilesAreInvited
