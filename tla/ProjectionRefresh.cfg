SPECIFICATION Spec
CONSTANTS
  Refreshes = {f1, f2}
  SourceCount = 2
  MaxAttempts = 2
  MaxRetries = 1
  MaxWrites = 1
  MaxCrashes = 1
  Journalled <- Second
  Unverified = Unverified
  None = None
  Cut = Cut
  Torn = Torn
SYMMETRY Symmetric
INVARIANTS
  SnapshotIsAMoment
  FreshIsCurrent
