SPECIFICATION Spec
CONSTANTS
    w1 = w1
    w2 = w2
    Workers = {w1, w2}
    Chapters = {"c1"}
    Artifacts = {"a1", "a2"}
    Plans = {"p", "q"}
    Texts = {"t"}
    Expectations = {"e"}
    Fields = {"f"}
    NotApplicable = {}
    Metadata = {"m"}
    NoEvidence = NoEvidence
    Bare <- MCBare
    Payloads <- MCPayloads
    Evidence <- MCEvidence
    Foundations <- MCFoundations
    MaxBegin = 2
    MaxClient = 2
    MaxCrashes = 1
SYMMETRY WorkerSymmetry
CHECK_DEADLOCK FALSE
INVARIANTS
  EvidenceRecoverable
  StateComesLast
PROPERTIES
  FulfilledOnEvidence
