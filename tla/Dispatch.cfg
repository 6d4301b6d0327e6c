\* Two messages race for one Agent slot; one call goes on without its locks.
CONSTANTS
  MaxAttempts = 1
  Messages <- TwoInvoke
  Workers = {w1, w2}
  Kind <- KindOf
  Slot <- OneSlot
  Awaited = {}
  IngressRecovery = FALSE
  IngressStorage = FALSE
  WakeEnabled = FALSE
  MaxCrashes = 0
  MaxSessionLosses = 1
SPECIFICATION Spec
SYMMETRY WorkerSymmetry
INVARIANTS TypeOK EvidenceIsReal
PROPERTIES AtMostOneCall
CHECK_DEADLOCK FALSE
