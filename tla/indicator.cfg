CONSTANTS
  TaskId = {t1}
  Push = {p1, p2}
  Reconciler = rec
  NoTask = none
  Turn = {u1}
  SendReplies = {"working"}
  Endings = {"completed"}
  MaxRounds = 1
  Faults = {}
SPECIFICATION Spec
INVARIANTS
  IndicatorCleared
