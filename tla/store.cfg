SPECIFICATION MCSpec
CONSTANTS
  Names = {"n"}
  Slugs = {"default"}
  Handlers = {"h1", "h2"}
  Writers = {"h1", "h2", "session"}
  Kinds = 2
  MaxOps = 2
  MaxFaults = 1
  MaxMade = 3
INVARIANTS FileCurrent FlagMirrors OneHelper ServesExisting Inv
PROPERTIES FileSpec
CHECK_DEADLOCK FALSE
