CONSTANTS
  Keys = {k1}
  Fields = {bytes, packets}
  Half = 2
  Nil = Nil
  MaxEntries = 2
  MaxCounted = 2
  MaxDay = 1
  Retention = 0
  Faults = {"db", "crash"}
  MaxBoots = 2
SPECIFICATION Spec
INVARIANTS
  TypeOK
  CheckpointMatchesDaily
  TotalsCoverDaily
  FlushesNeverOverlap
  AccountingInv
  RowsWithinTraffic
PROPERTIES
  CheckpointDateNeverGoesBack
  RetentionHonoured
  ImplementsLedger
CHECK_DEADLOCK FALSE
