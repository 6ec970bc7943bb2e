SPECIFICATION FairSpec
CONSTANTS
  a = a
  c1 = c1
  c2 = c2
  c3 = c3
  e1 = e1
  e2 = e2
  e3 = e3
  Workers = {s1, s2}
  Commands = {c1, c2, c3}
  Aggregates = {a}
  Events = {e1, e2, e3}
  AggOf <- OneAggregate
  Outcome <- Outcomes
  Idempotent = {c2}
  Undecodable = {c3}
  MaxStream = 0
  Option = 0
  DefaultRetries = 2
  MaxRequests = 2
  MaxFaults = 1
CHECK_DEADLOCK FALSE
INVARIANTS TypeOK OkIsDurable AtMostOnce
PROPERTY NothingIsStuck
