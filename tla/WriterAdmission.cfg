SPECIFICATION AdmissionSpec
CONSTANTS
  None = None
  MaxVersion = 2
  MaxCrashes = 1
  Decisions = {d1, d2}
  Issues = {i1}
  Actors = {a1, a2}
  Runs = {w1}
  AuthorizationIds = {h1}
  Lifetime = 2
  MaxTime = 4
SYMMETRY Symmetry
INVARIANTS
  WriterKeepsItsContract
  OldContractNeedsHuman
  OnlyDriftBlocks
