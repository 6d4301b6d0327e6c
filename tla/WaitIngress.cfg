\* Reply waits with durable ingress reservations; every sent message is settled.
CONSTANTS
  MaxAttempts = 2
  Messages <- OneInvoke
  Workers = {w1}
  Kind <- KindOf
  Slot <- OneSlot
  Awaited = {"m1"}
  IngressRecovery = TRUE
  IngressStorage = TRUE
  WakeEnabled = FALSE
  MaxCrashes = 1
  MaxSessionLosses = 0
SPECIFICATION FairSpec
INVARIANTS RetainedNeverInvoked MarkedOnlyReadBack
PROPERTIES ReservationHolds EventuallySettled
CHECK_DEADLOCK FALSE
