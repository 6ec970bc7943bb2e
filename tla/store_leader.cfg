\* Two aggregates in one stream and a publisher without version checks.
SPECIFICATION Spec
CONSTANTS
  w1 = w1  w2 = w2  a1 = a1  a2 = a2
  open = open  pay = pay  note = note
  o1 = o1  p1 = p1  p2 = p2  n1 = n1  x = x
  Workers = {w1, w2}
  Commands = {pay, note}
  Aggregates = {a1, a2}
  Events = {p1, p2, n1, x}
  AggOf <- TwoAggs
  Outcome <- TwoAggsOutcome
  Idempotent = {pay}
  Foreign = {x}
  MaxStream = 2
  SnapshotEvery = 2
  MaxAttempts = 2
  MaxLate = 1
  Replicated = FALSE
  Deadlines = {}
SYMMETRY Perms
INVARIANTS ExactlyOnce AckedIsDurable LoadIsFresh ConflictHasCause
PROPERTIES ImplementsAggregateLog SnapshotCadence
