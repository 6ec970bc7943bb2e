\* Two ordered groups, a command and a queue group; errors may stop the bus.
SPECIFICATION FairSpec
CONSTANTS
  o1 = o1  o2 = o2  c1 = c1  q1 = q1
  Ordered = {o1, o2}
  Commands = {c1}
  Queries = {}
  Queues = {q1}
  HasPolicy = TRUE
  MaxPublished = 2
CHECK_DEADLOCK FALSE
INVARIANTS TypeOK CatchUpFirst DoneMeansStopped ErrorIsReported
PROPERTIES ConnectReturns StopCompletes
