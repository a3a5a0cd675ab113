CONSTANTS
  Event = {}
  Interaction = {i1}
  Push = {p1}
  MaxTicks = 1
SPECIFICATION Spec
INVARIANTS
  AcceptedIsFinished
