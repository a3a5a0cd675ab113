CONSTANTS
  Mention = {}
  Attachment = {m2}
  Direct = {}
  Plain = {m3}
  Delivery = {d1, d2}
  NoEvent = none
  Faults = {"ack", "crash", "gate", "record", "activity", "lookup", "rollback", "run", "mark", "post", "unmark", "notice"}
CHECK_DEADLOCK FALSE
SPECIFICATION FairSpec
INVARIANTS
  TypeOK
  OneRunPerEvent
  OneResponse
  AnsweredStaysMarked
  AnsweredThreadsListen
  MarkNeverSwallows
PROPERTIES
  NoNoticeAfterResponse
  ImplementsTaskAnswer
  NobodyIgnored
