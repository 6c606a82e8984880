SPECIFICATION MemorySpec
CONSTANTS
    Items <- MCItems
    Contents <- MCContents
    Subjects <- MCSubjects
    FileOf <- MCFileOf
    ByPriority <- MCByPriority
    Additive <- MCAdditive
    Beginnings <- MCBeginnings
    Users = {u, v}
    Size <- MCSize
    MaxChars = 15
    MaxVersion = 2
    MaxOperations = 2
SYMMETRY MCSymmetry
INVARIANTS
    SnapshotsAreCurrent
    SnapshotsRestOnDecisions
    ContextFits
CHECK_DEADLOCK FALSE
