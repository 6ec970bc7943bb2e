\* The README on failing snapshots.
SPECIFICATION Spec
CONSTANTS
  w1 = w1  w2 = w2  a1 = a1  a2 = a2
  open = open  pay = pay  note = note
  o1 = o1  p1 = p1  p2 = p2  n1 = n1  x = x
  Workers = {w1, w2}
  Commands = {open, pay}
  Aggregates = {a1}
  Events = {o1, p1, p2, x}
  AggOf <- Two
  Outcome <- TwoOutcome
  Idempotent = {open, pay}
  Foreign = {}
  MaxStream = 2
  SnapshotEvery = 2
  MaxAttempts = 1
  MaxLate = 0
  Replicated = FALSE
  Deadlines = {}
SYMMETRY Perms
INVARIANT SnapshotFailureKeepsEvents
