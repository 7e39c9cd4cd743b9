SPECIFICATION MCSpec
CONSTANTS
  Accounts = {"a"}
  Names = {"n"}
  Slots = {s1, s2}
  MaxOps = 2
INVARIANTS KickNotLost AtMostOneRun ExitClean ConnectedHonest SessionSaved Inv
PROPERTIES WindsDown ChangeReachesLoop QuitEnds
CHECK_DEADLOCK FALSE
