CONSTANTS
  Keys <- MCKeys
  Fields = {bytes}
  Half = 2
  Nil = Nil
  MaxDay = 2
  Retention = 1
  MaxTotal = 1
  Seven = 2
  Thirty = 3
  MonthLen = 2
  DefaultLimit = 2
  MaxLimit = 3
  Limits = {0, 3}
  Offsets <- MCOffsets
  IfaceFilters = {Nil, 2}
  MacFilters = {Nil, 0, 1}
SPECIFICATION QuerySpec
INVARIANTS
  QueryTypeOK
  AllPagesMissNothing
PROPERTIES
  WindowHoldsItsDay
  AllCoversEveryWindow
CHECK_DEADLOCK FALSE
