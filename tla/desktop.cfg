SPECIFICATION MCSpec
CONSTANTS
  Devices = {"speakers", "headset"}
  Watchers = {"w1", "w2"}
  Readers = {"loop", "ticker", "main"}
  MaxEvents = 3
INVARIANTS Inv Balanced SafeUse OneDevice
PROPERTIES Recovers TrayFresh
