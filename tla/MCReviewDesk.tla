----------------------------- MODULE MCReviewDesk -----------------------------
(* The review of version 1 and that of version 2 have an issue that can be accepted;   *)
(* version 2 has one that cannot, and a third review was never stored.                 *)
EXTENDS ReviewDesk, TLC

CONSTANTS r1, r2, r3, review1, review2, lost, soft, hard

MCVersion == review1 :> 1 @@ review2 :> 2 @@ lost :> 2
MCRaised == review1 :> {soft} @@ review2 :> {soft, hard} @@ lost :> {soft}
MCStored == {review1, review2}
Symmetric == Permutations(Requests) \union Permutations(Keys)
==============================================================================
