SPECIFICATION RetriedSpec
CONSTANTS
  None = None
  MaxVersion = 2
  MaxCrashes = 1
  Decisions = {d1, d2}
  Issues = {i1}
  Actors = {a1, a2}
PROPERTY PreparedRevisionRecovers
