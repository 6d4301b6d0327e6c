CONSTANTS
  Threads = {t1, t2}
  Operations = {o1, o2}
  Data = {x, y}
  Nothing = Nothing
  MaxLeases = 2
  MaxEffects = 1
  Ttl = 1
SPECIFICATION Spec
SYMMETRY Symmetry
INVARIANTS PointerIsTrue ExecutionIsRecorded OneStaleStep
PROPERTIES OneEffectAtATime ReplacementsInOrder
CHECK_DEADLOCK FALSE
