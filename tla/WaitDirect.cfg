\* Reply waits without the ingress table, and receiver wake.
CONSTANTS
  MaxAttempts = 2
  Messages <- WithAttachment
  Workers = {w1}
  Kind <- KindOf
  Slot <- OneSlot
  Awaited = {"m1", "att"}
  IngressRecovery = FALSE
  IngressStorage = FALSE
  WakeEnabled = TRUE
  MaxCrashes = 1
  MaxSessionLosses = 0
SPECIFICATION Spec
INVARIANTS DeliveredHasEvidence
CHECK_DEADLOCK FALSE
