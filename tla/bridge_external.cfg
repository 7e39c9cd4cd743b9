SPECIFICATION LanSpec
CONSTANTS
  Top = 1
  HelperLevels = {0, 10}
  HelperFlags = {0, 1}
  Window = 1
  EventCap = 3
  AudioCap = 1
  MaxChanges = 3
  MaxFaults = 0
PROPERTY ExternalFlowsThrough
CHECK_DEADLOCK FALSE
