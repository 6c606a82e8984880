------------------------------ MODULE AuthorityLogs ------------------------------
(***************************************************************************)
(* The small append-only logs of Phase E.  Each append takes the project's *)
(* lock, reads the whole log and writes one record, so an append is one    *)
(* step here; a process may die inside it, and then the log is left as one *)
(* of CrashedAppends.  The stores write in different orders and read       *)
(* different files, which decides whether the log can be read afterwards:  *)
(*                                                                         *)
(*   engagement        domains/reader_engagement_store.py: a journal that  *)
(*                     is never redone blocks every later read             *)
(*   readiness         domains/production_readiness_store.py               *)
(*   execution         domains/writer_execution_authority_store.py: line,  *)
(*                     then head; a head behind the lines blocks           *)
(*   state             domains/state_change_approval.py: the same, and the *)
(*                     next line is chained to the head, not to the lines  *)
(*   runs              domains/chapter_run_checkpoint_store.py: the head   *)
(*                     is written and never read                           *)
(*   quality, compact  domains/web_novel_quality_store.py,                 *)
(*                     domains/contract_fulfillment_reviewer.py: no head   *)
(***************************************************************************)
EXTENDS Naturals, Sequences

VARIABLE log    \* for each store its records, the count in its head, whether a read fails

Stores == {"engagement", "readiness", "execution", "state", "runs", "quality", "compact"}
Headed == {"readiness", "execution", "state"}
NoRecords == [recs |-> <<>>, head |-> 0, broken |-> FALSE]

Readable(s) == ~log[s].broken
Records(s) == {log[s].recs[i] : i \in DOMAIN log[s].recs}

\* The log with one more record.  A state record is chained to the head.
Appended(s, r) ==
    [recs |-> Append(log[s].recs, r), head |-> Len(log[s].recs) + 1,
     broken |-> s = "state" /\ log[s].head # Len(log[s].recs)]

\* What an append leaves that was cut short: a line cut in two or, for engagement, a journal;
\* the whole line; and, where there never was a head, the whole line without one.  The state
\* log is written anew as a whole: cut short at once it is empty, which only a head would show.
CrashedAppends(s, r) ==
    {[log[s] EXCEPT !.broken = TRUE]}
    \union (IF s = "engagement" THEN {} ELSE {Appended(s, r)})
    \union (IF s \in Headed /\ log[s].head = 0
            THEN {[Appended(s, r) EXCEPT !.head = 0]} ELSE {})
    \union (IF s = "state" /\ log[s].head = 0 THEN {[log[s] EXCEPT !.recs = <<>>]} ELSE {})

Write(s, r) == log' = [log EXCEPT ![s] = Appended(s, r)]
WriteTorn(s, r) == \E l \in CrashedAppends(s, r) : log' = [log EXCEPT ![s] = l]

LogsOK == /\ DOMAIN log = Stores
          /\ \A s \in Stores : log[s].head <= Len(log[s].recs) /\ log[s].broken \in BOOLEAN
================================================================================
