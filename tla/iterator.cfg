CONSTANTS
  Keys = {k1}
  Fields = {bytes}
  Half = 4
  Nil = Nil
  MaxEntries = 2
  MaxCounted = 2
  MaxDay = 0
  Retention = 1
  Faults = {"iter"}
  MaxBoots = 1
SPECIFICATION Spec
INVARIANTS
  ReportedFlushIsComplete
CHECK_DEADLOCK FALSE
