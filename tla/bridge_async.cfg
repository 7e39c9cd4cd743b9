SPECIFICATION AsyncSpec
CONSTANTS
  Top = 1
  HelperLevels = {0, 6, 10, 20}
  HelperFlags = {0, 1, 2}
  Window = 1
  EventCap = 2
  AudioCap = 0
  MaxChanges = 2
  MaxFaults = 1
INVARIANTS Inv AgreeUnlessBlind
CHECK_DEADLOCK FALSE
