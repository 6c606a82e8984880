--------------------------- MODULE FulfillmentEvidence ---------------------------
(***************************************************************************)
(* The evidence that a chapter fulfilled its contract                      *)
(* (domains/contract_fulfillment_store.py), and what follows from it       *)
(* (domains/contract_fulfillment.py).  The store redoes from its journal:  *)
(* a write is a journal, the records, the head and the removal of the      *)
(* journal, each a rename that either happened or did not.                 *)
(***************************************************************************)
EXTENDS Naturals, Sequences

CONSTANTS Fields,         \* the leaves of the frozen contract
          NotApplicable,  \* those with a reason instead of a value
          Metadata,       \* the fields that are checked against the artifact's metadata
          NoEvidence

VARIABLE evidence   \* the files: records.jsonl, head.json (the count), journal.json

\* A record: id, contract, field, role, good (the asserted value is the contract's),
\* artifact (what it was read from), supersedes.
EvidenceInit == evidence = [recs |-> <<>>, head |-> 0, journal |-> NoEvidence]

EvidenceIn(e) == {e.recs[i] : i \in DOMAIN e.recs}
SameId(e, r) == {x \in EvidenceIn(e) : x.id = r.id}

\* _validate_supersedes
SupersedesExisting(e, r) ==
    r.supersedes = NoEvidence
    \/ \E x \in EvidenceIn(e) : x.id = r.supersedes /\ x.contract = r.contract

\* Whether _recover_locked accepts the files.
Acceptable(e) ==
    IF e.journal = NoEvidence THEN e.head = Len(e.recs)
    ELSE IF SameId(e, e.journal.record) = {}
         THEN /\ e.journal.sequence = e.head + 1 /\ e.head = Len(e.recs)
              /\ SupersedesExisting(e, e.journal.record)
         ELSE /\ SameId(e, e.journal.record) = {e.journal.record}
              /\ e.journal.sequence = Len(e.recs)

WithRecord(e) == [e EXCEPT !.recs = Append(@, e.journal.record)]
WithHead(e) == [e EXCEPT !.head = Len(e.recs)]
WithoutJournal(e) == [e EXCEPT !.journal = NoEvidence]

\* Mutant: the head is brought up to date before the records are written.
HeadFirst(e) == [e EXCEPT !.head = Len(e.recs) + 1]

\* Mutant: redo writes the head before the records.
RedoStatesHeadFirst(e) ==
    IF e.journal = NoEvidence THEN <<e>>
    ELSE LET r == IF SameId(e, e.journal.record) = {} THEN WithRecord(e) ELSE e
         IN <<e, HeadFirst(e), WithHead(r), WithoutJournal(WithHead(r))>>

\* The states the files pass through when the journal is redone, the first one included.
RedoStates(e) ==
    IF e.journal = NoEvidence THEN <<e>>
    ELSE LET r == IF SameId(e, e.journal.record) = {} THEN WithRecord(e) ELSE e
         IN <<e, r, WithHead(r), WithoutJournal(WithHead(r))>>

Redone(e) == LET s == RedoStates(e) IN s[Len(s)]

\* append: the states of the files from the one that was found to the one that is left.
Journalled(e, r) == [e EXCEPT !.journal = [record |-> r, sequence |-> Len(e.recs) + 1]]
AppendStates(e, r) ==
    LET found == Redone(e) IN
    RedoStates(e) \o
    (IF SameId(found, r) = {} /\ SupersedesExisting(found, r)
     THEN RedoStates(Journalled(found, r)) ELSE <<>>)

\* append returns the record, or raises: another record has the id, or supersedes nothing.
Takes(e, r) ==
    IF SameId(Redone(e), r) = {} THEN SupersedesExisting(Redone(e), r)
    ELSE SameId(Redone(e), r) = {r}

\* Mutant: what was superseded still counts.
AllRecords(e, contract) == {r \in EvidenceIn(Redone(e)) : r.contract = contract}

\* records_for, active_records
ActiveRecords(e, contract) ==
    LET of == {r \in EvidenceIn(Redone(e)) : r.contract = contract}
    IN {r \in of : ~ \E x \in of : x.supersedes = r.id}

------------------------------------------------------------------------------
(* ContractFulfillmentEvaluator.evaluate.  The intent is frozen in the       *)
(* contract; the other roles have to be in the records.                      *)

Stale(records) == {r \in records : r.field \notin Fields \union Metadata \/ ~r.good}
RolesNeeded(f) == IF f \in NotApplicable THEN {"verification"} ELSE {"verification", "realization"}
RolesOf(records, f) == {r.role : r \in {x \in records : x.field = f}}

\* A metadata field is realized by a verification that was read where the metadata was read, if
\* the metadata is what the contract asks for.
MetadataRealized(records, f, metadata) ==
    /\ metadata.matches
    /\ \E r \in records : r.field = f /\ r.role = "verification" /\ r.artifact = metadata.source

Evaluate(records, metadata) ==
    IF Stale(records) # {} THEN "stale"
    ELSE IF /\ \A f \in Fields : RolesNeeded(f) \subseteq RolesOf(records, f)
            /\ \A f \in Metadata : /\ "verification" \in RolesOf(records, f)
                                   /\ \/ "realization" \in RolesOf(records, f)
                                      \/ MetadataRealized(records, f, metadata)
         THEN "fulfilled" ELSE "incomplete"
================================================================================
