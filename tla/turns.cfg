CONSTANTS
  MaxTs = 4
  Limit = 1
  Pages = 2
  Turns = 3
  Faults = {"images", "cursor", "replies", "agent", "post"}
CHECK_DEADLOCK FALSE
SPECIFICATION FairSpec
INVARIANTS
  TypeOK
  TurnsSerialized
  EntryIsLast
  NeverInjectedAgain
  StrangersReachAgent
PROPERTIES
  ImplementsThreadMemory
  TurnsEnd
