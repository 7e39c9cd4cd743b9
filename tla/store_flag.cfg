SPECIFICATION MCSpec
CONSTANTS
  Names = {"n"}
  Slugs = {"default"}
  Handlers = {"h1"}
  Writers = {"h1", "session"}
  Kinds = 1
  MaxOps = 2
  MaxFaults = 1
  MaxMade = 2
INVARIANT MirrorsRegistry
CHECK_DEADLOCK FALSE
