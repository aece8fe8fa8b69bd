CONSTANTS
  Keys = {k1, k2}
  Fields = {bytes}
  Half = 2
  Nil = Nil
  MaxEntries = 2
  MaxCounted = 1
  MaxDay = 0
  Retention = 1
  Faults = {"db", "race"}
  MaxBoots = 1
SPECIFICATION FairSpec
INVARIANTS
  ReportedFlushIsComplete
PROPERTIES
  NeverStallsSilently
  StopTerminates
CHECK_DEADLOCK FALSE
