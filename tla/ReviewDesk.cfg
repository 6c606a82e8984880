SPECIFICATION Spec
CONSTANTS
  r1 = r1
  r2 = r2
  r3 = r3
  review1 = review1
  review2 = review2
  lost = lost
  soft = soft
  hard = hard
  Requests = {r1, r2, r3}
  Keys = {k1, k2}
  Senders = {s1}
  Results = {review1, review2, lost}
  Stored <- MCStored
  Version <- MCVersion
  Issues = {soft, hard}
  Raised <- MCRaised
  High = {hard}
  Words = {w1}
  Times = {1, 2}
  MaxMoves = 1
  MaxCrashes = 1
  None = None
SYMMETRY Symmetric
INVARIANTS
  ReceiptsAreBacked
  EventsAgree
