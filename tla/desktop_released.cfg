SPECIFICATION MCSpec
CONSTANTS
  Devices = {"speakers"}
  Watchers = {"w1", "w2"}
  Readers = {"loop", "ticker", "main"}
  MaxEvents = 1
INVARIANT NoUseAfterRelease
