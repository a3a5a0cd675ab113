CONSTANTS
  TaskId = {t1}
  Push = {}
  Reconciler = rec
  NoTask = none
  Turn = {u1}
  SendReplies = {"working"}
  Endings = {"failed"}
  MaxRounds = 0
  Faults = {"post"}
SPECIFICATION FairSpec
PROPERTIES
  FailedIsAnswered
