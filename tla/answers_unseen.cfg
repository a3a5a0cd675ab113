CONSTANTS
  MaxTs = 4
  Limit = 1
  Pages = 2
  Turns = 3
  Faults = {}
CHECK_DEADLOCK FALSE
SPECIFICATION Spec
INVARIANTS
  OwnMessagesCovered
