CONSTANTS
  Sender = {s1, s2}
  Report = {r1, r2}
  Sends = {"declined", "call_reminder_1", "review_request"}
  Choice = {"edited", "excused", "unexcused"}
  Told = {"hard_bounce", "opened", "unsubscribe"}
SPECIFICATION Spec
CHECK_DEADLOCK FALSE
SYMMETRY Symmetry
INVARIANTS RowsAreHonest SuppressedIsLeftAlone AnswersAreTrue WhatIsDoneIsAudited
PROPERTIES SuppressionHardens
