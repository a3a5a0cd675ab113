CONSTANTS
  Event = {e1}
  Interaction = {i1}
  Push = {p1}
  MaxTicks = 2
SPECIFICATION FairSpec
INVARIANTS
  TypeOK
  DrainedWorkIsDone
PROPERTIES
  ShutdownEnds
  EveryRequestAnswered
