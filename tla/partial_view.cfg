SPECIFICATION Spec
CONSTANTS
  Types = {"created", "renamed"}
  Views <- MCViews
  Known <- MCKnown
  Writers = {"full", "partial"}
  SnapshotEvery = 2
  MaxStream = 4
  MaxCrashes = 1
CHECK_DEADLOCK FALSE
INVARIANT LoadsDeclared
