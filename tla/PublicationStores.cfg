SPECIFICATION Spec
CONSTANTS
    Plans <- MCPlans
    Votes = {v}
    Bodies = {1, 4}
    Policy <- MCPolicy
    Times = {t1, t2}
    Manifests <- MCManifests
    Checkpoints = {c}
    Outputs = {o}
    MaxRecords = 3
    MaxCrashes = 2
    MaxBusy = 1
    NoFile = NoFile
    None = None
CHECK_DEADLOCK FALSE
PROPERTIES
  ImplementsPublicationLog
  SupersededForGood
