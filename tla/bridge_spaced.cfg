SPECIFICATION SpacedSpec
CONSTANTS
  Top = 1
  HelperLevels = {0, 6, 10, 20}
  HelperFlags = {0, 1, 2}
  Window = 2
  EventCap = 2
  AudioCap = 1
  MaxChanges = 0
  MaxFaults = 0
INVARIANTS QuietAgree SpacedInv
PROPERTIES MirrorSpec Settles EchoesTold
