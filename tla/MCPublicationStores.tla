-------------------------- MODULE MCPublicationStores --------------------------
(***************************************************************************)
(* One migration with two plans, the first of which is blocked, one voter, *)
(* a short chapter and one whose length needs no disposition, one verified *)
(* and one approved manifest and a second verified one.                    *)
(***************************************************************************)
EXTENDS PublicationStores

MCPlans == {[id |-> 1, migration |-> "m", blocking |-> FALSE],
            [id |-> 2, migration |-> "m", blocking |-> TRUE]}
MCPolicy == [short_min |-> 2, target_min |-> 3, target_max |-> 4, soft_max |-> 5,
             hard_max |-> 6, hook_window |-> 2]
MCManifests == {[id |-> 1, status |-> "verified"], [id |-> 2, status |-> "verified"],
                [id |-> 3, status |-> "approved"]}
==============================================================================
