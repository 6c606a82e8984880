SPECIFICATION Retried
CONSTANTS
  None = None
  Keys = {k1}
  Bodies = {b1, b2}
  Results = {x1}
  Issues = {i1}
  Actors = {p1}
  ActiveIds = {a1}
  RevocationIds = {a1, v1}
  Runs = {w1, w2}
  MaxRecords = 4
  MaxCrashes = 2
INVARIANTS
  ScanExact
  BindingsHold
PROPERTIES
  ImplementsRecordLog
  UnfinishedCompletes
