CONSTANTS
  MaxBoot = 3
  MaxAttempts = 2
  MaxFaults = 2
SPECIFICATION FairSpec
INVARIANTS ReportsAreTrue
PROPERTIES OneNativeInput MarkedIsSettled
CHECK_DEADLOCK FALSE
