------------------------- MODULE MCWriterAdmission -------------------------
(* Symmetry for model checking WriterAdmission. *)
EXTENDS WriterAdmission, TLC

\* No definition singles out a text, an actor or a run.
Symmetry == Permutations(Decisions) \union Permutations(Actors) \union Permutations(Runs)
=============================================================================
