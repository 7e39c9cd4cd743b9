SPECIFICATION LoadedSpec
CONSTANTS
  Accounts = {"a"}
  Names = {"n"}
  Slots = {s1, s2}
  MaxOps = 2
INVARIANT DisconnectForgets
CHECK_DEADLOCK FALSE
