SPECIFICATION TableSpec
CONSTANTS
    Cases <- MCCases
    FirstChapter = 5
    LastChapter = 6
    MaxOmitted = 2
    Dimensions <- MCDimensions
    Retrieved = 4
    Minimum = 3
CHECK_DEADLOCK FALSE
INVARIANTS
  ReviewedMigrationHolds
  DispositionAvailable
  FinishedChapterPassed
  StoredFormsReadAgain
  ReadyIsGrounded
  ApprovalsCover
  GateIsDecided
  SnapshotIsTrue
  ContextIsAdmitted
