SPECIFICATION FairSpec
CONSTANTS
  None = None
  MaxVersion = 3
  MaxCrashes = 1
  Decisions = {d1, d2, d3}
  Issues = {i1}
  Actors = {a1, a2}
INVARIANTS
  PointerTargetActive
  ActiveAheadIsJournalled
  JournalTellsTheTruth
  RevisionFilesAgree
PROPERTIES
  ImplementsCurrentContract
  SwitchCompletes
