CONSTANTS
  Keys = {k1}
  Fields = {bytes}
  Half = 4
  Nil = Nil
  MaxEntries = 2
  MaxCounted = 2
  MaxDay = 1
  Retention = 1
  Faults = {}
  MaxBoots = 1
SPECIFICATION Spec
INVARIANTS
  NeverOvercounts
CHECK_DEADLOCK FALSE
