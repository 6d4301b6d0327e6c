\* A retained reply must not be invoked, with receiver wake.
CONSTANTS
  MaxAttempts = 2
  Messages <- OneInvoke
  Workers = {w1}
  Kind <- KindOf
  Slot <- OneSlot
  Awaited = {"m1"}
  IngressRecovery = FALSE
  IngressStorage = FALSE
  WakeEnabled = TRUE
  MaxCrashes = 0
  MaxSessionLosses = 0
SPECIFICATION Spec
INVARIANTS RetainedNeverInvoked
CHECK_DEADLOCK FALSE
