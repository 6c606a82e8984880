------------------------------- MODULE CaseTable -------------------------------
(***************************************************************************)
(* Pure rules are checked on a table of cases: a behaviour draws one.      *)
(***************************************************************************)
CONSTANT Cases
VARIABLE case

NoCase == [about |-> "nothing"]

About(kind) == case.about = kind

TableInit == case = NoCase
Draw == case = NoCase /\ \E i \in DOMAIN Cases : case' \in Cases[i]
TableSpec == TableInit /\ [][Draw]_case
==============================================================================
