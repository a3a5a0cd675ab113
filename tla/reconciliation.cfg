CONSTANTS
  r1 = r1
  r2 = r2
  r3 = r3
  g1 = g1
  g2 = g2
  Row = {r1, r2}
  Agent = {g1, g2}
  AgentOf <- MCAgentOf
  Limit = 1
  Ttl = 1
  Faults = {"db", "post", "card", "poll"}
SPECIFICATION FairSpec
INVARIANTS
  TypeOK
  HandlesAreFresh
PROPERTIES
  NobodyOvertakes
  BacklogReached
