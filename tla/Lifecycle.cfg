CONSTANTS
  Ops = {o1, o2}
  Executors = {x1}
  Nobody = Nobody
  Kinds = {"prepare", "resume", "rebind"}
  MaxEpoch = 2
  MaxFaults = 2
SPECIFICATION Spec
SYMMETRY Symmetry
INVARIANTS OneEffect OneSession ReportsAreTrue
CHECK_DEADLOCK FALSE
