SPECIFICATION Spec
CONSTANTS
    Frozen = {f}
    Migrated = {a, b}
    Texts = {t1, t2}
    Groupings = {g1, g2}
    MaxEdits = 4
    MaxCrashes = 1
    None = None
SYMMETRY Alike
CHECK_DEADLOCK FALSE
INVARIANTS
  ArchiveFaithful
PROPERTIES
  EditionSurvives
