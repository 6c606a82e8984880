------------------------------ MODULE RecordLog ------------------------------
(***************************************************************************)
(* What the contract record store promises: a log of records that only     *)
(* grows, where an identity is never reused for something else and a       *)
(* record that binds another one is only added once that one is there.     *)
(***************************************************************************)
CONSTANTS Records,         \* the records that may be saved
          SameId(_, _),    \* two records have the same identity
          Binds(_, _)      \* a record is bound to records of a set

VARIABLE log               \* the records saved so far

Init == log = {}

\* A record is added unless its identity is taken or its binding is missing.
Add(r) ==
    /\ \A s \in log : ~SameId(r, s)
    /\ Binds(r, log)
    /\ log' = log \union {r}

Next == \E r \in Records : Add(r)

Spec == Init /\ [][Next]_log
==============================================================================
