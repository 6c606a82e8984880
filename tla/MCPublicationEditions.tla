------------------------- MODULE MCPublicationEditions -------------------------
(***************************************************************************)
(* One frozen and two migrated chapters.  Texts, groupings and migrated    *)
(* chapters are alike.                                                     *)
(***************************************************************************)
EXTENDS PublicationEditions, TLC

Alike == Permutations(Texts) \union Permutations(Groupings) \union Permutations(Migrated)
==============================================================================
