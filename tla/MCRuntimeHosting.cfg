SPECIFICATION Spec
CONSTANTS
  state = state
  Planes = {state}
  MaxAcquires = 1
  MaxBreaks = 2
INVARIANTS
    DataOwned
PROPERTIES
    NoOrphanProcess
CHECK_DEADLOCK FALSE
