SPECIFICATION FairSpec
CONSTANTS
  s1 = s1
  s2 = s2
  g1 = g1
  t1 = t1
  Sessions = {s1, s2}
  Groups = {g1}
  GroupOf <- OneGroup
  Types = {t1}
  Wants <- OneWants
  TypeOf <- ThreeEvents
  Undecodable = {2}
  Handlers = {h1, h2}
  Retries <- AllRetries
  Prefetch = 2
  MaxFaults = 2
CHECK_DEADLOCK FALSE
INVARIANTS TypeOK AckedIsHandled ExhaustedIsReported
PROPERTIES EscalatedIsFinal EventuallyServed
