CONSTANTS
  Ifaces = {eth0, eth1}
  DefaultFlushInterval = 3
  DefaultHousekeepingInterval = 1
  Files <- MCFiles
  Loads = {"real", "mock", "error"}
  Nil = Nil
  MaxFlush = 2
SPECIFICATION HealthSpec
SYMMETRY Symmetry
INVARIANTS
  HealthTypeOK
  StrictMeansComplete
  RunningCountsSomething
  NoLinkLeaks
  FreshUnlessFailing
  HealthyAnswersAreTrue
PROPERTIES
  HealthyBoundsLoss
CHECK_DEADLOCK FALSE
