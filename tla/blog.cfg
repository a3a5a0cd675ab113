CONSTANTS
  Command = {k1}
  Select = {s1}
  Apply = {a1, a2}
  Discard = {x1}
  Task = {a1, a2}
  Name = {n1}
  NoTask = none
  MaxTasks = 1
  Interval = 1
  MaxDuration = 1
  MaxUses = 2
  Ttl = 1
  Faults = {"service", "patch", "lost", "notice"}
SPECIFICATION FairSpec
INVARIANTS
  TypeOK
  PatchesWithinLimit
  PatchesSerialized
  NamesAreLive
PROPERTIES
  WatchEnds
  ApplyingIsTransient
