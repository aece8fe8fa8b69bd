CONSTANTS
  Ifaces = {eth0, eth1}
  DefaultFlushInterval = 3
  DefaultHousekeepingInterval = 1
  Files <- MCFiles
  Loads = {"real"}
  Nil = Nil
  MaxFlush = 2
SPECIFICATION HealthSpec
INVARIANTS
  AllowPartialHonoured
CHECK_DEADLOCK FALSE
