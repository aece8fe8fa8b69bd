CONSTANTS
  Keys = {k1}
  Fields = {bytes}
  Half = 4
  Nil = Nil
  MaxEntries = 2
  MaxCounted = 3
  MaxDay = 0
  Retention = 1
  Faults = {"crash"}
  MaxBoots = 2
SPECIFICATION FairSpec
PROPERTIES
  NegativeDeltaResynchronises
CHECK_DEADLOCK FALSE
