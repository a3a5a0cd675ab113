CONSTANTS
  TaskId = {t1}
  Push = {p1}
  Reconciler = rec
  NoTask = none
  Turn = {u1}
  SendReplies = {"submitted"}
  Endings = {"completed", "failed"}
  MaxRounds = 1
  Faults = {"post", "purge"}
SPECIFICATION FairSpec
PROPERTIES
  DecidedIsAnswered
