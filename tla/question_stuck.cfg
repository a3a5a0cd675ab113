CONSTANTS
  TaskId = {t1}
  Push = {}
  Reconciler = rec
  NoTask = none
  Turn = {u1, u2}
  SendReplies = {"working"}
  Endings = {"completed"}
  MaxRounds = 2
  Faults = {"post"}
SPECIFICATION FairSpec
PROPERTIES
  QuestionReachesSlack
