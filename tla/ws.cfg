SPECIFICATION Spec
CONSTANTS
  Ids = {i1, i2}
  EventCap = 2
CHECK_DEADLOCK FALSE
INVARIANTS Inv Healthy NoOrphan StreamCloses NoLeak EntryOwed
PROPERTIES ClientSpec
