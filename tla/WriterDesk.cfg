SPECIFICATION FairSpec
CONSTANTS
  None = None
  Agent = Agent
  t1 = t1
  t2 = t2
  Texts = {t1, t2}
  Requests = {r1, r2}
  Keys = {k1, k2}
  Commands <- MCCommands
  Generated = {t2}
  MaxVersion = 2
  MaxCrashes = 1
CHECK_DEADLOCK FALSE
INVARIANTS
  AcceptedIsStored
  LinearHistory
PROPERTIES
  ImplementsIdempotentCommands
  EveryRequestAnswered
