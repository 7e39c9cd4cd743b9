SPECIFICATION Spec
CONSTANTS
  Clicks = {c1, c2}
  Cap = 4
  AtOnce = 1
INVARIANTS Told Inv
PROPERTIES AttemptSpec Answered FreeAgain
CHECK_DEADLOCK FALSE
