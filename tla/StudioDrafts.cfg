SPECIFICATION Spec
CONSTANTS
  Records = {r1, r2}
  Intents = {i1}
  Limit = 2
  MaxEdits = 2
  Overlapping = TRUE
  None = none
INVARIANT DraftsSurvive
CHECK_DEADLOCK FALSE
