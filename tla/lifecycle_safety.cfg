CONSTANTS
  TaskId = {t1}
  Push = {p1}
  Reconciler = rec
  NoTask = none
  Turn = {u1, u2}
  SendReplies = {"working", "input-required"}
  Endings = {"completed", "failed"}
  MaxRounds = 1
  Faults = {"db", "poll", "post", "send", "crash", "purge"}
SPECIFICATION Spec
SYMMETRY ActorSymmetry
INVARIANTS
  TypeOK
  SettlementElection
  AnsweredOnce
  AnswerMatchesRow
  SettledAccounted
  RespondedMeansAnswered
  AnswersAreTrue
PROPERTIES
  ImplementsTaskAnswer
  OutcomeIsFinal
