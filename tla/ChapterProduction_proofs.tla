------------------------ MODULE ChapterProduction_proofs ------------------------
(***************************************************************************)
(* Proofs about ChapterProduction for any number of processes, runs,       *)
(* chapters, other owners' records and crashes: the files of the evidence  *)
(* are never left where the next append cannot go on, a run is one chain   *)
(* of legal checkpoints, a review is recorded before the checkpoint that   *)
(* refers to it, a run is completed only on good evidence, and the state   *)
(* of a chapter comes last, after a run that was completed.                *)
(*                                                                         *)
(* The argument: what a process remembers of a run was true when it read   *)
(* it and stays true or is found out, because a checkpoint is only taken   *)
(* next to the last one of its chapter, and a final one has no next.       *)
(***************************************************************************)
EXTENDS ChapterProduction, SequenceTheorems, TLAPS

------------------------------------------------------------------------------
(* The files of the evidence: typed, such as a recovery accepts, an id once, *)
(* and what a record supersedes is there and of its contract.                *)

EvidenceType == [recs : Seq(Evidence), head : Nat,
                 journal : {NoEvidence} \union [record : Evidence, sequence : Nat]]
IdsOnce(recs) == \A i, j \in DOMAIN recs : recs[i].id = recs[j].id => i = j
SupersededThere(recs) ==
    \A i \in DOMAIN recs :
        \/ recs[i].supersedes = NoEvidence
        \/ \E k \in DOMAIN recs : recs[k].id = recs[i].supersedes /\ recs[k].contract = recs[i].contract

EvidenceStands(e) ==
    /\ e \in EvidenceType /\ Acceptable(e)
    /\ IdsOnce(e.recs) /\ SupersededThere(e.recs)

\* The records of e are the first ones of f.
Follows(e, f) ==
    /\ e \in EvidenceType /\ f \in EvidenceType
    /\ Len(e.recs) <= Len(f.recs)
    /\ \A i \in DOMAIN e.recs : f.recs[i] = e.recs[i]

LEMMA FollowsFacts ==
  /\ \A e \in EvidenceType : Follows(e, e)
  /\ \A e, f, g : Follows(e, f) /\ Follows(f, g) => Follows(e, g)
  <1>1. \A e \in EvidenceType : Len(e.recs) \in Nat /\ DOMAIN e.recs = 1..Len(e.recs)
    <2> TAKE e \in EvidenceType
    <2> QED BY LenProperties DEF EvidenceType
  <1>2. \A e \in EvidenceType : Follows(e, e)
    BY <1>1 DEF Follows
  <1>3. ASSUME NEW e, NEW f, NEW g, Follows(e, f), Follows(f, g)
        PROVE  Follows(e, g)
    <2>1. /\ Len(e.recs) \in Nat /\ Len(f.recs) \in Nat /\ Len(g.recs) \in Nat
          /\ DOMAIN e.recs = 1..Len(e.recs) /\ DOMAIN f.recs = 1..Len(f.recs)
          /\ e \in EvidenceType /\ g \in EvidenceType
      BY <1>1, <1>3 DEF Follows
    <2>2. Len(e.recs) <= Len(f.recs) /\ Len(f.recs) <= Len(g.recs)
      BY <1>3 DEF Follows
    <2>3. Len(e.recs) <= Len(g.recs) /\ \A i \in DOMAIN e.recs : i \in DOMAIN f.recs
      BY <2>1, <2>2
    <2>4. \A i \in DOMAIN e.recs : g.recs[i] = e.recs[i]
      BY <2>3, <1>3 DEF Follows
    <2> QED BY <2>1, <2>3, <2>4 DEF Follows
  <1> QED BY <1>2, <1>3

\* A record that was appended.
LEMMA RecordAppended ==
  ASSUME NEW recs \in Seq(Evidence), NEW r \in Evidence
  PROVE  /\ Append(recs, r) \in Seq(Evidence)
         /\ Len(recs) \in Nat /\ Len(Append(recs, r)) = Len(recs) + 1
         /\ DOMAIN recs = 1..Len(recs) /\ DOMAIN Append(recs, r) = 1..Len(recs) + 1
         /\ Append(recs, r)[Len(recs) + 1] = r
         /\ \A i \in DOMAIN recs : Append(recs, r)[i] = recs[i]
  <1>1. /\ Append(recs, r) \in Seq(Evidence) /\ Len(Append(recs, r)) = Len(recs) + 1
        /\ \A i \in 1..Len(recs) : Append(recs, r)[i] = recs[i]
        /\ Append(recs, r)[Len(recs) + 1] = r
    BY AppendProperties
  <1>2. Len(recs) \in Nat /\ DOMAIN recs = 1..Len(recs)
    BY LenProperties
  <1>3. DOMAIN Append(recs, r) = 1..Len(Append(recs, r))
    BY <1>1, LenProperties
  <1> QED BY <1>1, <1>2, <1>3

\* What redoing writes, field by field.
LEMMA EvidenceFields ==
  ASSUME NEW e \in EvidenceType
  PROVE  /\ WithRecord(e) = [recs |-> Append(e.recs, e.journal.record), head |-> e.head, journal |-> e.journal]
         /\ WithHead(e) = [recs |-> e.recs, head |-> Len(e.recs), journal |-> e.journal]
         /\ WithoutJournal(e) = [recs |-> e.recs, head |-> e.head, journal |-> NoEvidence]
         /\ \A r : Journalled(e, r) = [recs |-> e.recs, head |-> e.head,
                                     journal |-> [record |-> r, sequence |-> Len(e.recs) + 1]]
  <1>1. e = [recs |-> e.recs, head |-> e.head, journal |-> e.journal]
    BY DEF EvidenceType
  <1>2. WithRecord(e) = [recs |-> Append(e.recs, e.journal.record), head |-> e.head, journal |-> e.journal]
    BY ONLY <1>1 DEF WithRecord
  <1>3. WithHead(e) = [recs |-> e.recs, head |-> Len(e.recs), journal |-> e.journal]
    BY ONLY <1>1 DEF WithHead
  <1>4. WithoutJournal(e) = [recs |-> e.recs, head |-> e.head, journal |-> NoEvidence]
    BY ONLY <1>1 DEF WithoutJournal
  <1>5. ASSUME NEW r
        PROVE  Journalled(e, r) = [recs |-> e.recs, head |-> e.head,
                                   journal |-> [record |-> r, sequence |-> Len(e.recs) + 1]]
    BY ONLY <1>1 DEF Journalled
  <1> QED BY <1>2, <1>3, <1>4, <1>5

\* Redoing a journal: the records are written,
LEMMA RedoWritesRecord ==
  ASSUME ProductionAssumption, NEW e, EvidenceStands(e),
         e.journal # NoEvidence, SameId(e, e.journal.record) = {}
  PROVE  /\ EvidenceStands(WithRecord(e)) /\ Follows(e, WithRecord(e))
         /\ WithRecord(e).journal = e.journal
         /\ SameId(WithRecord(e), e.journal.record) # {}
  <1> DEFINE r == e.journal.record
             n == Len(e.recs)
             f == WithRecord(e)
  <1>1. /\ e \in EvidenceType /\ e.recs \in Seq(Evidence) /\ e.head \in Nat
        /\ e.journal \in [record : Evidence, sequence : Nat] /\ r \in Evidence
    BY DEF EvidenceStands, EvidenceType
  <1>2. f = [recs |-> Append(e.recs, r), head |-> e.head, journal |-> e.journal]
    BY <1>1, EvidenceFields
  <1> HIDE DEF f
  <1>3. /\ f.recs \in Seq(Evidence)
        /\ n \in Nat /\ Len(f.recs) = n + 1
        /\ DOMAIN e.recs = 1..n /\ DOMAIN f.recs = 1..n + 1
        /\ f.recs[n + 1] = r
        /\ \A i \in DOMAIN e.recs : f.recs[i] = e.recs[i]
    BY <1>1, <1>2, RecordAppended
  <1> HIDE DEF n, r
  <1>4. f \in EvidenceType /\ f.journal = e.journal /\ f.head = e.head /\ f.journal.record = r
    BY <1>1, <1>2, <1>3 DEF EvidenceType, r
  <1>5. \A i \in DOMAIN e.recs : e.recs[i].id # r.id
    BY DEF SameId, EvidenceIn, r
  <1>6. \A i \in DOMAIN f.recs : i \in DOMAIN e.recs \/ i = n + 1
    BY <1>3
  <1>7. IdsOnce(f.recs)
    <2>1. \A i, k \in DOMAIN e.recs : e.recs[i].id = e.recs[k].id => i = k
      BY DEF EvidenceStands, IdsOnce
    <2>2. \A i \in DOMAIN e.recs : f.recs[i] = e.recs[i] /\ i # n + 1
      BY <1>3
    <2> QED BY <1>3, <1>5, <1>6, <2>1, <2>2 DEF IdsOnce
  <1>8. /\ e.journal.sequence = e.head + 1 /\ e.head = n /\ SupersedesExisting(e, r)
    BY DEF EvidenceStands, Acceptable, n, r
  <1>9. SupersededThere(f.recs)
    <2>1. \A i \in DOMAIN e.recs : i \in DOMAIN f.recs /\ f.recs[i] = e.recs[i]
      BY <1>3
    <2>2. \A i \in DOMAIN e.recs :
            \/ f.recs[i].supersedes = NoEvidence
            \/ \E k \in DOMAIN f.recs : f.recs[k].id = f.recs[i].supersedes /\ f.recs[k].contract = f.recs[i].contract
      BY <2>1 DEF EvidenceStands, SupersededThere
    <2>3. \/ r.supersedes = NoEvidence
          \/ \E k \in DOMAIN f.recs : f.recs[k].id = r.supersedes /\ f.recs[k].contract = r.contract
      <3>1. \A x \in EvidenceIn(e) : \E k \in DOMAIN f.recs : f.recs[k] = x
        BY <2>1 DEF EvidenceIn
      <3> QED BY <1>8, <3>1 DEF SupersedesExisting
    <2> QED BY <1>3, <1>6, <2>2, <2>3 DEF SupersededThere
  <1>10. SameId(f, r) = {r}
    <2>1. n + 1 \in DOMAIN f.recs
      BY <1>3
    <2> QED BY <2>1, <1>3, <1>5, <1>6 DEF SameId, EvidenceIn
  <1>11. Acceptable(f)
    BY <1>3, <1>4, <1>8, <1>10 DEF Acceptable
  <1>12. Follows(e, f)
    BY <1>1, <1>3, <1>4 DEF Follows
  <1> QED BY <1>4, <1>7, <1>9, <1>10, <1>11, <1>12 DEF EvidenceStands, f, r

\* the head, and the journal is removed.
LEMMA RedoEnds ==
  ASSUME ProductionAssumption, NEW e, EvidenceStands(e),
         e.journal # NoEvidence, SameId(e, e.journal.record) # {}
  PROVE  /\ EvidenceStands(WithHead(e)) /\ Follows(e, WithHead(e))
         /\ EvidenceStands(WithoutJournal(WithHead(e))) /\ Follows(e, WithoutJournal(WithHead(e)))
         /\ WithoutJournal(WithHead(e)).journal = NoEvidence
  <1>1. /\ e \in EvidenceType /\ e.recs \in Seq(Evidence) /\ Len(e.recs) \in Nat
        /\ DOMAIN e.recs = 1..Len(e.recs)
    BY LenProperties DEF EvidenceStands, EvidenceType
  <1>2. /\ WithHead(e) = [recs |-> e.recs, head |-> Len(e.recs), journal |-> e.journal]
        /\ WithoutJournal(WithHead(e)) = [recs |-> e.recs, head |-> Len(e.recs), journal |-> NoEvidence]
    <2>1. WithHead(e) = [recs |-> e.recs, head |-> Len(e.recs), journal |-> e.journal]
      BY <1>1, EvidenceFields
    <2>2. WithHead(e) \in EvidenceType
      BY <1>1, <2>1 DEF EvidenceType
    <2>3. WithoutJournal(WithHead(e)) = [recs |-> WithHead(e).recs, head |-> WithHead(e).head, journal |-> NoEvidence]
      BY <2>2, EvidenceFields
    <2> QED BY <2>1, <2>3
  <1>3. WithHead(e) \in EvidenceType /\ WithoutJournal(WithHead(e)) \in EvidenceType
    BY <1>1, <1>2 DEF EvidenceType
  <1>4. Acceptable(WithHead(e))
    <2>1. SameId(WithHead(e), e.journal.record) = SameId(e, e.journal.record)
      BY <1>2 DEF SameId, EvidenceIn
    <2> QED BY <1>2, <2>1 DEF Acceptable, EvidenceStands
  <1>5. Acceptable(WithoutJournal(WithHead(e)))
    BY <1>2 DEF Acceptable
  <1>6. \A f \in {WithHead(e), WithoutJournal(WithHead(e))} : Follows(e, f)
    BY <1>1, <1>2, <1>3 DEF Follows
  <1> QED BY <1>2, <1>3, <1>4, <1>5, <1>6 DEF EvidenceStands

\* Wherever redoing stops, the files stand; where it ends, there is no journal.
LEMMA RedoStands ==
  ASSUME ProductionAssumption, NEW e, EvidenceStands(e)
  PROVE  /\ \A i \in DOMAIN RedoStates(e) :
              EvidenceStands(RedoStates(e)[i]) /\ Follows(e, RedoStates(e)[i])
         /\ EvidenceStands(Redone(e)) /\ Follows(e, Redone(e)) /\ Redone(e).journal = NoEvidence
         /\ RedoStates(e) \in Seq(EvidenceType) /\ Len(RedoStates(e)) \in Nat \ {0}
  <1>0. e \in EvidenceType /\ Follows(e, e)
    BY FollowsFacts DEF EvidenceStands
  <1>1. CASE e.journal = NoEvidence
    <2>1. RedoStates(e) = <<e>> /\ Redone(e) = e
      BY <1>1 DEF RedoStates, Redone
    <2> QED BY <1>0, <1>1, <2>1
  <1>2. CASE e.journal # NoEvidence
    <2> DEFINE r == IF SameId(e, e.journal.record) = {} THEN WithRecord(e) ELSE e
    <2>1. EvidenceStands(r) /\ Follows(e, r) /\ r.journal = e.journal /\ SameId(r, e.journal.record) # {}
      BY <1>0, <1>2, RedoWritesRecord
    <2>2. /\ RedoStates(e) = <<e, r, WithHead(r), WithoutJournal(WithHead(r))>>
          /\ Redone(e) = WithoutJournal(WithHead(r))
      BY <1>2 DEF RedoStates, Redone
    <2> HIDE DEF r
    <2>3. /\ EvidenceStands(WithHead(r)) /\ Follows(r, WithHead(r))
          /\ EvidenceStands(WithoutJournal(WithHead(r))) /\ Follows(r, WithoutJournal(WithHead(r)))
          /\ WithoutJournal(WithHead(r)).journal = NoEvidence
      BY <1>2, <2>1, RedoEnds
    <2>4. Follows(e, WithHead(r)) /\ Follows(e, WithoutJournal(WithHead(r)))
      BY <2>1, <2>3, FollowsFacts
    <2> HIDE DEF EvidenceStands
    <2>5. \A f \in {e, r, WithHead(r), WithoutJournal(WithHead(r))} : EvidenceStands(f) /\ Follows(e, f) /\ f \in EvidenceType
      BY <1>0, <2>1, <2>3, <2>4 DEF EvidenceStands
    <2>6. \A i \in DOMAIN RedoStates(e) : RedoStates(e)[i] \in {e, r, WithHead(r), WithoutJournal(WithHead(r))}
      BY <2>2
    <2>7. RedoStates(e) \in Seq(EvidenceType) /\ Len(RedoStates(e)) = 4
      BY <2>2, <2>5
    <2> QED BY <2>2, <2>3, <2>4, <2>5, <2>6, <2>7
  <1> QED BY <1>1, <1>2

\* A journal that is written over files without one.
LEMMA JournalStands ==
  ASSUME ProductionAssumption, NEW e, EvidenceStands(e), e.journal = NoEvidence,
         NEW r \in Evidence, SameId(e, r) = {}, SupersedesExisting(e, r)
  PROVE  EvidenceStands(Journalled(e, r)) /\ Follows(e, Journalled(e, r))
  <1> DEFINE f == Journalled(e, r)
  <1>1. e \in EvidenceType /\ e.recs \in Seq(Evidence) /\ Len(e.recs) \in Nat
    BY LenProperties DEF EvidenceStands, EvidenceType
  <1>2. f = [recs |-> e.recs, head |-> e.head, journal |-> [record |-> r, sequence |-> Len(e.recs) + 1]]
    BY <1>1, EvidenceFields
  <1>3. e.head = Len(e.recs)
    BY DEF EvidenceStands, Acceptable
  <1> HIDE DEF f
  <1>4. f.journal \in [record : Evidence, sequence : Nat] /\ f.journal # NoEvidence
    BY <1>1, <1>2 DEF ProductionAssumption
  <1>5. f \in EvidenceType
    BY <1>1, <1>2, <1>4 DEF EvidenceType
  <1>6. SameId(f, r) = {} /\ SupersedesExisting(f, r)
    BY <1>2 DEF SameId, SupersedesExisting, EvidenceIn
  <1>7. Acceptable(f)
    BY <1>2, <1>3, <1>4, <1>6 DEF Acceptable
  <1>8. Follows(e, f)
    BY <1>1, <1>2, <1>5 DEF Follows
  <1> QED BY <1>2, <1>5, <1>7, <1>8 DEF EvidenceStands, f

\* Wherever an append stops, and where it ends, the files stand.
LEMMA AppendStands ==
  ASSUME ProductionAssumption, NEW e, EvidenceStands(e), NEW r \in Evidence
  PROVE  /\ \A i \in DOMAIN AppendStates(e, r) :
              EvidenceStands(AppendStates(e, r)[i]) /\ Follows(e, AppendStates(e, r)[i])
         /\ Len(AppendStates(e, r)) \in DOMAIN AppendStates(e, r)
  <1> DEFINE found == Redone(e)
             new == IF SameId(found, r) = {} /\ SupersedesExisting(found, r)
                    THEN RedoStates(Journalled(found, r)) ELSE <<>>
  <1>1. /\ \A i \in DOMAIN RedoStates(e) :
              EvidenceStands(RedoStates(e)[i]) /\ Follows(e, RedoStates(e)[i])
        /\ EvidenceStands(found) /\ Follows(e, found) /\ found.journal = NoEvidence
        /\ RedoStates(e) \in Seq(EvidenceType) /\ Len(RedoStates(e)) \in Nat \ {0}
    BY RedoStands
  <1>2. AppendStates(e, r) = RedoStates(e) \o new
    BY DEF AppendStates
  <1> HIDE DEF found
  <1>3. /\ \A i \in DOMAIN new : EvidenceStands(new[i]) /\ Follows(e, new[i])
        /\ new \in Seq(EvidenceType)
    <2>1. CASE SameId(found, r) = {} /\ SupersedesExisting(found, r)
      <3> DEFINE f == Journalled(found, r)
      <3>1. EvidenceStands(f) /\ Follows(found, f)
        BY <1>1, <2>1, JournalStands
      <3> HIDE DEF f
      <3>2. /\ \A i \in DOMAIN RedoStates(f) : EvidenceStands(RedoStates(f)[i]) /\ Follows(f, RedoStates(f)[i])
            /\ RedoStates(f) \in Seq(EvidenceType)
        BY <3>1, RedoStands
      <3>3. Follows(e, f)
        BY <1>1, <3>1, FollowsFacts
      <3>4. \A i \in DOMAIN RedoStates(f) : Follows(e, RedoStates(f)[i])
        BY <3>2, <3>3, FollowsFacts
      <3>5. new = RedoStates(f)
        BY <2>1 DEF f
      <3> QED BY <3>2, <3>4, <3>5
    <2>2. CASE ~(SameId(found, r) = {} /\ SupersedesExisting(found, r))
      BY <2>2
    <2> QED BY <2>1, <2>2
  <1> HIDE DEF new
  <1> DEFINE old == RedoStates(e)
             all == old \o new
  <1>4. /\ Len(old) \in Nat \ {0} /\ Len(new) \in Nat
        /\ DOMAIN old = 1..Len(old) /\ DOMAIN new = 1..Len(new)
    BY <1>1, <1>3, LenProperties
  <1>5. /\ all \in Seq(EvidenceType) /\ Len(all) = Len(old) + Len(new)
        /\ \A i \in 1..Len(old) + Len(new) : all[i] = IF i <= Len(old) THEN old[i] ELSE new[i - Len(old)]
    BY <1>1, <1>3, ConcatProperties
  <1>6. DOMAIN all = 1..Len(all)
    BY <1>5, LenProperties
  <1> HIDE DEF old, all
  <1>7. Len(all) \in DOMAIN all
    BY <1>4, <1>5, <1>6
  <1>8. ASSUME NEW i \in DOMAIN all
        PROVE  EvidenceStands(all[i]) /\ Follows(e, all[i])
    <2>1. CASE i <= Len(old)
      <3>1. i \in DOMAIN old /\ all[i] = old[i]
        BY <1>4, <1>5, <1>6, <2>1
      <3> QED BY <3>1, <1>1 DEF old
    <2>2. CASE ~(i <= Len(old))
      <3>1. i - Len(old) \in DOMAIN new /\ all[i] = new[i - Len(old)]
        BY <1>4, <1>5, <1>6, <2>2
      <3> QED BY <3>1, <1>3
    <2> QED BY <2>1, <2>2
  <1> QED BY <1>2, <1>7, <1>8 DEF all, old

\* The first n records settle what of a contract is in force in them.
InForceOf(recs, n, c) ==
    {recs[i] : i \in {j \in 1..n : recs[j].contract = c /\ \A k \in 1..n : recs[k].supersedes # recs[j].id}}

LEMMA InForceLasts ==
  ASSUME NEW e, NEW f, Follows(e, f), NEW n \in 0..Len(e.recs), NEW c
  PROVE  InForceOf(f.recs, n, c) = InForceOf(e.recs, n, c) /\ n \in 0..Len(f.recs)
  <1>1. Len(e.recs) \in Nat /\ Len(f.recs) \in Nat /\ DOMAIN e.recs = 1..Len(e.recs)
    BY LenProperties DEF Follows, EvidenceType
  <1>2. \A i \in 1..n : f.recs[i] = e.recs[i]
    <2>1. \A i \in 1..n : i \in DOMAIN e.recs
      BY <1>1
    <2> QED BY <2>1 DEF Follows
  <1>3. n \in 0..Len(f.recs)
    BY <1>1 DEF Follows
  <1> QED BY <1>2, <1>3 DEF InForceOf

\* Without a journal the records that active_records returns are those in force.
LEMMA ActiveIsInForce ==
  ASSUME ProductionAssumption, NEW e, EvidenceStands(e), NEW c
  PROVE  ActiveRecords(e, c) = InForceOf(Redone(e).recs, Len(Redone(e).recs), c)
  <1> DEFINE d == Redone(e)
             recs == d.recs
             n == Len(recs)
             of == {r \in EvidenceIn(d) : r.contract = c}
  <1>1. EvidenceStands(d)
    BY RedoStands
  <1>2. ActiveRecords(e, c) = {r \in of : ~ \E x \in of : x.supersedes = r.id}
    BY DEF ActiveRecords
  <1> HIDE DEF d
  <1>3. recs \in Seq(Evidence) /\ DOMAIN recs = 1..n /\ \A i \in 1..n : recs[i] \in Evidence
    BY <1>1, LenProperties, ElementOfSeq DEF EvidenceStands, EvidenceType
  <1>4. /\ \A i, j \in 1..n : recs[i].id = recs[j].id => i = j
        /\ \A i \in 1..n : \/ recs[i].supersedes = NoEvidence
                           \/ \E k \in 1..n : recs[k].id = recs[i].supersedes /\ recs[k].contract = recs[i].contract
    BY <1>1, <1>3 DEF EvidenceStands, IdsOnce, SupersededThere
  <1>5. \A i \in 1..n : recs[i].id # NoEvidence
    BY <1>3 DEF ProductionAssumption
  <1>6. EvidenceIn(d) = {recs[i] : i \in 1..n}
    BY <1>3 DEF EvidenceIn
  <1> HIDE DEF recs, n
  <1>7. \A i \in 1..n : (\E k \in 1..n : recs[k].supersedes = recs[i].id) <=>
                       (\E k \in 1..n : recs[k].contract = recs[i].contract /\ recs[k].supersedes = recs[i].id)
    <2>1. ASSUME NEW i \in 1..n, NEW k \in 1..n, recs[k].supersedes = recs[i].id
          PROVE  recs[k].contract = recs[i].contract
      <3>1. PICK m \in 1..n : recs[m].id = recs[k].supersedes /\ recs[m].contract = recs[k].contract
        BY <1>4, <1>5, <2>1
      <3>2. m = i
        BY <1>4, <2>1, <3>1
      <3> QED BY <3>1, <3>2
    <2> QED BY <2>1
  <1>8. \A r : r \in {x \in of : ~ \E y \in of : y.supersedes = x.id} <=> r \in InForceOf(recs, n, c)
    <2>1. \A r : r \in of <=> \E i \in 1..n : r = recs[i] /\ recs[i].contract = c
      BY <1>6
    <2> HIDE DEF of
    <2>2. \A i \in 1..n : recs[i].contract = c =>
            ((\E y \in of : y.supersedes = recs[i].id) <=> \E k \in 1..n : recs[k].supersedes = recs[i].id)
      BY <2>1, <1>7
    <2>3. \A r : r \in InForceOf(recs, n, c) <=>
            \E i \in 1..n : /\ r = recs[i] /\ recs[i].contract = c
                           /\ ~ \E k \in 1..n : recs[k].supersedes = recs[i].id
      BY DEF InForceOf
    <2> QED BY <2>1, <2>2, <2>3
  <1> QED BY <1>2, <1>8 DEF recs, n, d

------------------------------------------------------------------------------
(* The logs: every step leaves each as it was, or with more records.         *)

IsLog(q) == q \in Seq({q[i] : i \in DOMAIN q})
LogStands(l) == l = [recs |-> l.recs, head |-> l.head, broken |-> l.broken] /\ IsLog(l.recs)
Logs == log = [s \in Stores |-> log[s]] /\ \A s \in Stores : LogStands(log[s])

\* What a step does to the logs: only that of the states, written anew as a whole, may lose
\* its records.
Grows == \A s \in Stores \ {"state"} : Records(s) \subseteq Records(s)'
Untouched(s) == log'[s] = log[s]
MayAppend(s, r) ==
    /\ Logs' /\ Grows
    /\ \A t \in Stores \ {s} : Untouched(t)
    /\ \/ log'[s].recs \in {log[s].recs, Append(log[s].recs, r)}
       \/ s = "state" /\ log'[s].recs = <<>>

LEMMA LogAppended ==
  ASSUME NEW q, IsLog(q), NEW r
  PROVE  /\ IsLog(Append(q, r))
         /\ Len(q) \in Nat /\ DOMAIN q = 1..Len(q) /\ DOMAIN Append(q, r) = 1..Len(q) + 1
         /\ Append(q, r)[Len(q) + 1] = r /\ \A i \in 1..Len(q) : Append(q, r)[i] = q[i]
  <1> DEFINE S == {q[i] : i \in DOMAIN q}
             T == S \union {r}
             p == Append(q, r)
  <1>1. q \in Seq(S)
    BY DEF IsLog
  <1> HIDE DEF S
  <1>2. q \in Seq(T) /\ r \in T
    BY <1>1, SeqMonotonic
  <1> HIDE DEF T
  <1>3. /\ p \in Seq(T) /\ Len(p) = Len(q) + 1
        /\ p[Len(q) + 1] = r /\ \A i \in 1..Len(q) : p[i] = q[i]
    BY <1>2, AppendProperties
  <1>4. Len(q) \in Nat /\ DOMAIN q = 1..Len(q) /\ DOMAIN p = 1..Len(p)
    BY <1>2, <1>3, LenProperties
  <1> HIDE DEF p
  <1>5. T = {p[i] : i \in DOMAIN p}
    <2>1. \A i \in DOMAIN p : i \in DOMAIN q \/ i = Len(q) + 1
      BY <1>3, <1>4
    <2>2. Len(q) + 1 \in DOMAIN p /\ \A i \in DOMAIN q : i \in DOMAIN p
      BY <1>3, <1>4
    <2>3. \A x : x \in T <=> x = r \/ \E i \in DOMAIN q : x = q[i]
      BY DEF S, T
    <2>4. \A x : x \in T <=> \E i \in DOMAIN p : x = p[i]
      BY <1>3, <1>4, <2>1, <2>2, <2>3
    <2> QED BY <2>4
  <1>6. IsLog(p)
    BY <1>3, <1>5 DEF IsLog
  <1> QED BY <1>3, <1>4, <1>6 DEF p

\* A step that writes one log, or none.
LEMMA LogWritten ==
  ASSUME Logs, NEW s \in Stores, NEW l, log' = [log EXCEPT ![s] = l], LogStands(l),
         \/ s = "state"
         \/ {log[s].recs[i] : i \in DOMAIN log[s].recs} \subseteq {l.recs[i] : i \in DOMAIN l.recs}
  PROVE  Logs' /\ Grows /\ (\A t \in Stores \ {s} : Untouched(t)) /\ log'[s] = l
  <1>1. log'[s] = l /\ \A t \in Stores \ {s} : log'[t] = log[t]
    BY DEF Logs
  <1>2. log' = [t \in Stores |-> log'[t]]
    BY DEF Logs
  <1>3. \A t \in Stores : LogStands(log'[t])
    BY <1>1 DEF Logs
  <1>4. Grows
    BY <1>1 DEF Grows, Records
  <1> QED BY <1>1, <1>2, <1>3, <1>4 DEF Logs, Untouched

LEMMA NothingWritten ==
  ASSUME Logs, UNCHANGED log
  PROVE  Logs' /\ Grows /\ \A s \in Stores : Untouched(s)
  BY DEF Logs, Grows, Records, Untouched

LEMMA Writing ==
  ASSUME Logs, NEW s \in Stores, NEW r, Write(s, r) \/ WriteTorn(s, r)
  PROVE  MayAppend(s, r) /\ (Write(s, r) => log'[s].recs = Append(log[s].recs, r))
  <1> DEFINE q == log[s].recs
  <1>1. LogStands(log[s]) /\ IsLog(q)
    BY DEF Logs, LogStands
  <1>2. /\ IsLog(Append(q, r))
        /\ {q[i] : i \in DOMAIN q} \subseteq {Append(q, r)[i] : i \in DOMAIN Append(q, r)}
    <2>1. /\ IsLog(Append(q, r)) /\ \A i \in 1..Len(q) : Append(q, r)[i] = q[i]
          /\ Len(q) \in Nat /\ DOMAIN q = 1..Len(q) /\ DOMAIN Append(q, r) = 1..Len(q) + 1
      BY <1>1, LogAppended
    <2>2. \A i \in DOMAIN q : i \in DOMAIN Append(q, r) /\ Append(q, r)[i] = q[i]
      BY <2>1
    <2> QED BY <2>1, <2>2
  <1>3. ASSUME NEW l, log' = [log EXCEPT ![s] = l], l.recs \in {q, Append(q, r)},
               l = [recs |-> l.recs, head |-> l.head, broken |-> l.broken]
        PROVE  MayAppend(s, r) /\ log'[s].recs = l.recs
    <2>1. LogStands(l) /\ {q[i] : i \in DOMAIN q} \subseteq {l.recs[i] : i \in DOMAIN l.recs}
      BY <1>1, <1>2, <1>3 DEF LogStands
    <2>2. Logs' /\ Grows /\ (\A t \in Stores \ {s} : Untouched(t)) /\ log'[s] = l
      BY <1>3, <2>1, LogWritten
    <2> QED BY <1>3, <2>2 DEF MayAppend
  <1>4. /\ Appended(s, r).recs = Append(q, r)
        /\ Appended(s, r) = [recs |-> Appended(s, r).recs, head |-> Appended(s, r).head,
                             broken |-> Appended(s, r).broken]
    BY DEF Appended
  <1>5. CASE Write(s, r)
    BY <1>3, <1>4, <1>5 DEF Write
  <1>6. CASE ~Write(s, r)
    <2>1. PICK l \in CrashedAppends(s, r) : log' = [log EXCEPT ![s] = l]
      BY <1>6 DEF WriteTorn
    <2>2. \/ l = Appended(s, r) \/ l = [log[s] EXCEPT !.broken = TRUE]
          \/ l = [Appended(s, r) EXCEPT !.head = 0]
          \/ s = "state" /\ l = [log[s] EXCEPT !.recs = <<>>]
      BY <2>1 DEF CrashedAppends
    <2>4. CASE s = "state" /\ l = [log[s] EXCEPT !.recs = <<>>]
      <3>1. l = [recs |-> <<>>, head |-> log[s].head, broken |-> log[s].broken]
        BY <1>1, <2>4 DEF LogStands
      <3>2. LogStands(l) /\ l.recs = <<>>
        BY <3>1 DEF LogStands, IsLog
      <3>3. Logs' /\ Grows /\ (\A t \in Stores \ {s} : Untouched(t)) /\ log'[s] = l
        BY <2>1, <2>4, <3>2, LogWritten
      <3> QED BY <1>6, <2>4, <3>2, <3>3 DEF MayAppend
    <2>5. CASE ~(s = "state" /\ l = [log[s] EXCEPT !.recs = <<>>])
      <3>1. CASE l = Appended(s, r)
        BY <1>3, <1>4, <1>6, <2>1, <3>1
      <3>2. CASE l = [log[s] EXCEPT !.broken = TRUE]
        <4>1. l = [recs |-> q, head |-> log[s].head, broken |-> TRUE]
          BY <1>1, <3>2 DEF LogStands
        <4> QED BY <1>3, <1>6, <2>1, <4>1
      <3>3. CASE l = [Appended(s, r) EXCEPT !.head = 0]
        <4>1. l = [recs |-> Append(q, r), head |-> 0, broken |-> Appended(s, r).broken]
          BY <1>4, <3>3
        <4> QED BY <1>3, <1>6, <2>1, <4>1
      <3> QED BY <2>2, <2>5, <3>1, <3>2, <3>3
    <2> QED BY <2>4, <2>5
  <1> QED BY <1>5, <1>6

\* What it adds is the record it was given.
LEMMA OnlyAdded ==
  ASSUME Logs, NEW s \in Stores, NEW r, Write(s, r) \/ WriteTorn(s, r)
  PROVE  \A x \in Records(s)' : x \in Records(s) \/ x = r
  <1> DEFINE q == log[s].recs
  <1>1. /\ IsLog(q)
        /\ log'[s].recs = q \/ log'[s].recs = Append(q, r) \/ log'[s].recs = <<>>
    BY Writing DEF MayAppend, Logs, LogStands
  <1>2. CASE log'[s].recs = q
    BY <1>2 DEF Records
  <1>3. CASE log'[s].recs = <<>>
    BY <1>3 DEF Records
  <1>4. CASE log'[s].recs = Append(q, r)
    <2>1. /\ Len(q) \in Nat /\ DOMAIN q = 1..Len(q) /\ DOMAIN Append(q, r) = 1..Len(q) + 1
          /\ Append(q, r)[Len(q) + 1] = r /\ \A i \in 1..Len(q) : Append(q, r)[i] = q[i]
      BY <1>1, LogAppended
    <2>2. \A i \in DOMAIN Append(q, r) : i \in DOMAIN q \/ i = Len(q) + 1
      BY <2>1
    <2> QED BY <1>4, <2>1, <2>2 DEF Records
  <1> QED BY <1>1, <1>2, <1>3, <1>4

\* Two records that are appended at once.
LEMMA TwoAppended ==
  ASSUME NEW S, NEW q \in Seq(S), NEW u \in Seq(S), Len(u) = 2
  PROVE  /\ q \o u \in Seq(S)
         /\ Len(q) \in Nat /\ DOMAIN q = 1..Len(q) /\ DOMAIN (q \o u) = 1..Len(q) + 2
         /\ \A i \in DOMAIN q : (q \o u)[i] = q[i]
         /\ (q \o u)[Len(q) + 1] = u[1] /\ (q \o u)[Len(q) + 2] = u[2]
  <1> DEFINE n == Len(q)
             p == q \o u
  <1>1. /\ p \in Seq(S) /\ Len(p) = n + Len(u)
        /\ \A i \in 1..n + Len(u) : p[i] = IF i <= n THEN q[i] ELSE u[i - n]
    BY ConcatProperties
  <1>2. n \in Nat /\ DOMAIN q = 1..n /\ DOMAIN p = 1..Len(p)
    BY <1>1, LenProperties
  <1> HIDE DEF n, p
  <1>3. /\ \A k \in 1..2 : n + k \in 1..n + 2 /\ ~(n + k <= n) /\ n + k - n = k
        /\ \A i \in 1..n : i \in 1..n + 2 /\ i <= n
    BY <1>2
  <1>4. Len(p) = n + 2 /\ \A i \in 1..n + 2 : p[i] = IF i <= n THEN q[i] ELSE u[i - n]
    BY <1>1
  <1>5. \A k \in 1..2, m \in 1..n + 2 : m = n + k => p[m] = u[k]
    <2> TAKE k \in 1..2, m \in 1..n + 2
    <2> HAVE m = n + k
    <2>1. ~(m <= n) /\ m - n = k
      BY <1>2
    <2>2. p[m] = u[m - n]
      BY <1>4, <2>1
    <2> QED BY <2>1, <2>2
  <1>6. p[n + 1] = u[1] /\ p[n + 2] = u[2]
    BY <1>3, <1>5
  <1>7. \A i \in 1..n : p[i] = q[i]
    BY <1>3, <1>4
  <1> QED BY <1>1, <1>2, <1>4, <1>6, <1>7 DEF n, p

\* The owners beside the runs write neither a checkpoint nor a state.
LEMMA ClientsWriteElsewhere ==
  ASSUME Logs, ClientStep
  PROVE  Logs' /\ Grows /\ Untouched("runs") /\ Untouched("state")
  <1> DEFINE Goal == Logs' /\ Grows /\ Untouched("runs") /\ Untouched("state")
             Others == Stores \ {"runs", "state"}
  <1> SUFFICES Goal
    OBVIOUS
  <1>1. /\ {"engagement", "readiness", "execution", "quality"} \subseteq Others
        /\ Others \subseteq Stores /\ {"runs", "state"} \subseteq Stores
    BY DEF Stores
  <1>2. ASSUME NEW s \in Others, NEW r, Client(s, r)
        PROVE  Goal
    <2>1. Write(s, r) \/ WriteTorn(s, r)
      BY <1>2 DEF Client, OrCrash
    <2>2. MayAppend(s, r)
      BY <1>1, <2>1, Writing
    <2> QED BY <1>1, <2>2 DEF MayAppend
  <1>3. ASSUME NEW e, MaterializeTransition(e)
        PROVE  Goal
    <2> DEFINE eng == log["engagement"]
               q == eng.recs
               dec == Item("expectation_decision", <<e>>, [previous |-> Len(eng.recs)])
    <2>0. "engagement" \in Others /\ LogStands(eng) /\ IsLog(q)
      BY <1>1 DEF Logs, LogStands
    <2>1. CASE WriteTorn("engagement", dec)
      BY <1>1, <2>1, Writing DEF MayAppend
    <2>2. CASE \E torn \in BOOLEAN :
                 log' = [log EXCEPT !["engagement"] = [Appended("engagement", dec) EXCEPT !.broken = torn]]
      <3>1. PICK torn \in BOOLEAN :
                 log' = [log EXCEPT !["engagement"] = [Appended("engagement", dec) EXCEPT !.broken = torn]]
        BY <2>2
      <3> DEFINE l == [Appended("engagement", dec) EXCEPT !.broken = torn]
      <3>2. l = [recs |-> Append(q, dec), head |-> Len(q) + 1, broken |-> torn]
        <4> DEFINE a == Appended("engagement", dec)
        <4>1. a = [recs |-> Append(q, dec), head |-> Len(q) + 1, broken |-> a.broken]
          BY DEF Appended
        <4> HIDE DEF a, dec
        <4> QED BY <4>1 DEF a
      <3> HIDE DEF l, dec
      <3>3. /\ IsLog(l.recs) /\ \A i \in 1..Len(q) : l.recs[i] = q[i]
            /\ Len(q) \in Nat /\ DOMAIN q = 1..Len(q) /\ DOMAIN l.recs = 1..Len(q) + 1
        BY <2>0, <3>2, LogAppended
      <3>4. \A i \in DOMAIN q : i \in DOMAIN l.recs /\ l.recs[i] = q[i]
        BY <3>3
      <3>5. LogStands(l) /\ {q[i] : i \in DOMAIN q} \subseteq {l.recs[i] : i \in DOMAIN l.recs}
        BY <3>2, <3>3, <3>4 DEF LogStands
      <3>6. Logs' /\ Grows /\ \A t \in Stores \ {"engagement"} : Untouched(t)
        BY <1>1, <3>1, <3>5, LogWritten DEF l
      <3> QED BY <1>1, <3>6
    <2>3. CASE \E tr : log' = [log EXCEPT !["engagement"] = [eng EXCEPT !.recs = @ \o <<dec, tr>>, !.head = @ + 2]]
      <3>1. PICK tr : log' = [log EXCEPT !["engagement"] = [eng EXCEPT !.recs = @ \o <<dec, tr>>, !.head = @ + 2]]
        BY <2>3
      <3> DEFINE l == [eng EXCEPT !.recs = @ \o <<dec, tr>>, !.head = @ + 2]
                 S == {q[i] : i \in DOMAIN q} \union {dec, tr}
                 pair == <<dec, tr>>
                 p == q \o pair
      <3>2. l = [recs |-> p, head |-> eng.head + 2, broken |-> eng.broken]
        <4>1. eng = [recs |-> q, head |-> eng.head, broken |-> eng.broken]
          BY <2>0 DEF LogStands
        <4>2. l = [eng EXCEPT !.recs = p, !.head = eng.head + 2]
          OBVIOUS
        <4> HIDE DEF dec, p, l, eng
        <4> QED BY <4>1, <4>2
      <3> HIDE DEF l, dec
      <3>3. /\ q \in Seq(S) /\ pair \in Seq(S)
            /\ Len(pair) = 2 /\ pair[1] = dec /\ pair[2] = tr
        BY <2>0, SeqMonotonic DEF IsLog
      <3>4. S = {q[i] : i \in DOMAIN q} \union {dec, tr}
        OBVIOUS
      <3> HIDE DEF S, pair
      <3>5. /\ p \in Seq(S)
            /\ Len(q) \in Nat /\ DOMAIN q = 1..Len(q) /\ DOMAIN p = 1..Len(q) + 2
            /\ \A i \in DOMAIN q : p[i] = q[i]
            /\ p[Len(q) + 1] = dec /\ p[Len(q) + 2] = tr
        <4> HIDE DEF q
        <4> QED BY <3>3, TwoAppended
      <3> HIDE DEF p
      <3>6. /\ \A i \in DOMAIN q : i \in DOMAIN p
            /\ Len(q) + 1 \in DOMAIN p /\ Len(q) + 2 \in DOMAIN p
            /\ \A i \in DOMAIN p : i \in DOMAIN q \/ i = Len(q) + 1 \/ i = Len(q) + 2
        BY <3>5
      <3>7. \A i \in DOMAIN q : i \in DOMAIN p /\ p[i] = q[i]
        BY <3>5, <3>6
      <3>8. S = {p[i] : i \in DOMAIN p}
        <4>1. \A x : x \in S <=> x = dec \/ x = tr \/ \E i \in DOMAIN q : x = q[i]
          BY <3>4
        <4>2. \A x : x \in S <=> \E i \in DOMAIN p : x = p[i]
          BY <3>5, <3>6, <4>1
        <4> QED BY <4>2
      <3>9. LogStands(l) /\ {q[i] : i \in DOMAIN q} \subseteq {l.recs[i] : i \in DOMAIN l.recs}
        <4>1. IsLog(p)
          BY <3>5, <3>8 DEF IsLog
        <4>2. l.recs = p /\ LogStands(l)
          BY <3>2, <4>1 DEF LogStands
        <4> QED BY <3>7, <4>2
      <3>10. Logs' /\ Grows /\ \A t \in Stores \ {"engagement"} : Untouched(t)
        BY <1>1, <3>1, <3>9, LogWritten DEF l
      <3> QED BY <1>1, <3>10
    <2> HIDE DEF Goal
    <2> QED BY <1>3, <2>1, <2>2, <2>3 DEF MaterializeTransition
  <1>4. ASSUME UNCHANGED log
        PROVE  Goal
    BY <1>1, <1>4, NothingWritten
  <1> HIDE DEF Goal
  <1>5. CASE \E p \in Plans, t \in Texts : ProposePlan(p, t) \/ DecidePlan(p, t) \/ ActivatePlan(p, t)
    BY <1>1, <1>2, <1>5 DEF ProposePlan, DecidePlan, ActivatePlan
  <1>6. CASE \E c \in Chapters : ReviewOpening(c) \/ AppendReconciliation(c)
    BY <1>1, <1>2, <1>6 DEF ReviewOpening, AppendReconciliation
  <1>7. CASE \E e \in Expectations, f \in {"absent", "open"}, t \in {"open", "paid"} : ProposeTransition(e, f, t)
    BY <1>1, <1>2, <1>7 DEF ProposeTransition
  <1>8. CASE PersistAudit
    BY <1>1, <1>2, <1>8 DEF PersistAudit
  <1>9. CASE \E a \in OfType("readiness", "audit") : ApproveAudit(a)
    BY <1>1, <1>2, <1>9 DEF ApproveAudit
  <1>10. CASE \E c \in Chapters, q \in Texts : AppendIntent(c, q) \/ AppendReceipt(c, q)
    BY <1>1, <1>2, <1>10 DEF AppendIntent, AppendReceipt
  <1>11. CASE \E c \in Chapters, a \in Artifacts : AppendQuality(c, a)
    BY <1>1, <1>2, <1>11 DEF AppendQuality
  <1>12. CASE \E r \in Evidence : AppendEvidence(r)
    BY <1>4, <1>12 DEF AppendEvidence
  <1>13. CASE \E e \in Expectations : MaterializeTransition(e)
    BY <1>3, <1>13
  <1>14. Goal
    BY <1>5, <1>6, <1>7, <1>8, <1>9, <1>10, <1>11, <1>12, <1>13 DEF ClientStep
  <1> QED BY <1>14 DEF Goal

------------------------------------------------------------------------------
(* The checkpoints of a chapter: there is a last one, they are a chain, and  *)
(* a final one is the last; a run that was completed stays completed.        *)

Final == {"fulfillment_recorded", "fulfillment_incomplete"}
Ended(c) == Started(c) /\ Current(c).state = "fulfillment_recorded"

\* Of the checkpoints of a chapter before a place there is a last one.
LastThere ==
    \A c \in Chapters, n \in Nat :
        LET before == {k \in Scoped(c) : k < n}
        IN before = {} \/ \E i \in before : \A k \in before : k <= i
CheckpointsTyped ==
    \A x \in Records("runs") : x.chapter \in Chapters /\ x.seq \in Nat \ {0}
FinalIsLast ==
    LET recs == log["runs"].recs IN
    \A i, k \in DOMAIN recs : recs[i].chapter = recs[k].chapter /\ k < i => recs[k].state \notin Final

RunsStand == LastThere /\ CheckpointsTyped /\ FinalIsLast /\ RunsAreChains

\* A checkpoint that may be taken: the first, or one next to the last.
NextTo(cur, item) ==
    /\ item.seq = cur.seq + 1 /\ item.prev = <<cur.state, cur.refs>>
    /\ cur.state \in DOMAIN NextStates /\ item.state \in NextStates[cur.state]
MayTake(item) ==
    /\ item.chapter \in Chapters
    /\ IF Started(item.chapter) THEN NextTo(Current(item.chapter), item) ELSE item = Initial(item.chapter)

LEMMA StatesFacts ==
  /\ Final \cap DOMAIN NextStates = {}
  /\ "readiness_approved" \in NextStates["awaiting_readiness_approval"]
  /\ "director_proposed" \in NextStates["readiness_approved"]
  /\ "engagement_reviewed" \in NextStates["director_proposed"]
  /\ Final \subseteq NextStates["engagement_reviewed"]
  /\ {"awaiting_readiness_approval", "readiness_approved", "director_proposed", "engagement_reviewed"}
        \subseteq DOMAIN NextStates
  BY DEF NextStates, Final

\* The places of the log of the runs are numbers.
LEMMA RunsIndexed ==
  ASSUME Logs
  PROVE  LET recs == log["runs"].recs IN
         /\ IsLog(recs) /\ Len(recs) \in Nat /\ DOMAIN recs = 1..Len(recs)
         /\ \A c : Scoped(c) \subseteq 1..Len(recs)
  <1>1. IsLog(log["runs"].recs)
    BY DEF Logs, LogStands, Stores
  <1>2. Len(log["runs"].recs) \in Nat /\ DOMAIN log["runs"].recs = 1..Len(log["runs"].recs)
    BY <1>1, LenProperties DEF IsLog
  <1> QED BY <1>1, <1>2 DEF Scoped

LEMMA LastIsMax ==
  ASSUME NEW S \in SUBSET Nat, NEW i \in S, \A k \in S : k <= i
  PROVE  Max(S) = i
  <1>1. \A x \in S : (\A y \in S : x >= y) <=> x = i
    OBVIOUS
  <1>2. Max(S) \in S /\ \A y \in S : Max(S) >= y
    BY DEF Max
  <1> QED BY <1>1, <1>2

LEMMA CurrentIsLast ==
  ASSUME Logs, RunsStand, NEW c \in Chapters, Started(c)
  PROVE  LET recs == log["runs"].recs
             m == Max(Scoped(c))
         IN /\ m \in Scoped(c) /\ m \in DOMAIN recs /\ Current(c) = recs[m]
            /\ \A k \in Scoped(c) : k <= m
            /\ Current(c).chapter = c /\ Current(c) \in Records("runs")
  <1>1. PICK i \in Scoped(c) : \A k \in Scoped(c) : k <= i
    <2> DEFINE n == Len(log["runs"].recs) + 1
               before == {k \in Scoped(c) : k < n}
    <2>1. n \in Nat /\ \A k \in Scoped(c) : k < n
      BY RunsIndexed
    <2>2. before = Scoped(c) /\ Scoped(c) # {}
      BY <2>1 DEF Started
    <2>3. before = {} \/ \E i \in before : \A k \in before : k <= i
      BY <2>1 DEF RunsStand, LastThere
    <2> QED BY <2>2, <2>3
  <1>2. Scoped(c) \in SUBSET Nat
    BY RunsIndexed
  <1>3. Max(Scoped(c)) = i
    BY <1>1, <1>2, LastIsMax
  <1>4. i \in DOMAIN log["runs"].recs /\ log["runs"].recs[i].chapter = c
    BY DEF Scoped
  <1> QED BY <1>1, <1>3, <1>4 DEF Current, Records

\* A final checkpoint in the log is the current one of its chapter.
LEMMA FinalIsCurrent ==
  ASSUME Logs, RunsStand, NEW item \in Records("runs"), item.state \in Final
  PROVE  item.chapter \in Chapters /\ Started(item.chapter) /\ Current(item.chapter) = item
  <1> DEFINE recs == log["runs"].recs
             c == item.chapter
             m == Max(Scoped(c))
  <1>1. PICK k \in DOMAIN recs : recs[k] = item
    BY DEF Records
  <1>2. c \in Chapters /\ k \in Scoped(c) /\ Started(c)
    BY <1>1 DEF RunsStand, CheckpointsTyped, Scoped, Started
  <1>3. m \in Scoped(c) /\ m \in DOMAIN recs /\ k <= m /\ Current(c) = recs[m] /\ Current(c).chapter = c
    BY <1>2, CurrentIsLast
  <1>4. m \in Nat /\ k \in Nat
    BY <1>1, <1>3, RunsIndexed
  <1>5. ~(k < m)
    BY <1>1, <1>3 DEF RunsStand, FinalIsLast
  <1>6. k = m
    BY <1>3, <1>4, <1>5
  <1> QED BY <1>1, <1>2, <1>3, <1>6

\* Chapters stay started, and ended.
RunsGoOn == \A c \in Chapters : (Started(c) => Started(c)') /\ (Ended(c) => Ended(c)')

LEMMA RunsKept ==
  ASSUME RunsStand, log'["runs"].recs = log["runs"].recs
  PROVE  RunsStand' /\ RunsGoOn
  <1>1. \A c : Scoped(c)' = Scoped(c)
    BY DEF Scoped
  <1>2. /\ \A c : (Started(c)' <=> Started(c)) /\ Current(c)' = Current(c)
        /\ Records("runs")' = Records("runs")
    BY <1>1 DEF Started, Current, Records
  <1>3. RunsGoOn
    BY <1>2 DEF RunsGoOn, Ended
  <1>4. LastThere' /\ CheckpointsTyped' /\ FinalIsLast'
    BY <1>1, <1>2 DEF RunsStand, LastThere, CheckpointsTyped, FinalIsLast
  <1>5. RunsAreChains'
    BY <1>1 DEF RunsStand, RunsAreChains
  <1> QED BY <1>3, <1>4, <1>5 DEF RunsStand

LEMMA RunTaken ==
  ASSUME Logs, RunsStand, NEW item, MayTake(item), Logs',
         log'["runs"].recs = Append(log["runs"].recs, item)
  PROVE  /\ RunsStand' /\ RunsGoOn
         /\ Started(item.chapter)' /\ Current(item.chapter)' = item /\ item \in Records("runs")'
  <1> DEFINE q == log["runs"].recs
             p == log'["runs"].recs
             n == Len(q)
             new == item.chapter
             cur == Current(new)
             SOf(r, c) == {i \in DOMAIN r : r[i].chapter = c}
  <1>1. /\ n \in Nat /\ DOMAIN q = 1..n /\ DOMAIN p = 1..n + 1
        /\ p[n + 1] = item /\ \A i \in 1..n : p[i] = q[i]
    BY LogAppended, RunsIndexed
  <1>2. /\ \A i \in DOMAIN q : i \in DOMAIN p /\ p[i] = q[i] /\ i < n + 1 /\ i # n + 1
        /\ n + 1 \in DOMAIN p /\ p[n + 1] = item /\ \A i \in DOMAIN p : i \in DOMAIN q \/ i = n + 1
        /\ n + 1 \in Nat /\ \A i \in DOMAIN p : i \in Nat /\ i <= n + 1
    BY <1>1
  <1>3. \A c : Scoped(c) = SOf(q, c)
    BY DEF Scoped
  <1>4. \A c : Scoped(c)' = SOf(p, c)
    BY DEF Scoped
  <1> HIDE DEF n, p, q
  <1>5. \A c : c # new => Scoped(c)' = Scoped(c)
    BY <1>2, <1>3, <1>4
  <1>6. n + 1 \in Scoped(new)' /\ Scoped(new)' = Scoped(new) \union {n + 1}
    BY <1>2, <1>3, <1>4
  <1>7. Current(new)' = item /\ Started(new)'
    <2>1. Max(Scoped(new)') = n + 1
      <3>1. \A k \in Scoped(new)' : k \in Nat /\ k <= n + 1
        BY <1>2, <1>4
      <3> QED BY <1>6, <3>1, LastIsMax
    <2>2. Current(new)' = p[n + 1]
      BY <2>1 DEF Current, p
    <2> QED BY <1>2, <1>6, <2>2, <1>1 DEF Started
  <1>8. \A c \in Chapters : Started(c) =>
          /\ Max(Scoped(c)) \in DOMAIN q /\ Max(Scoped(c)) \in Scoped(c) /\ Current(c) = q[Max(Scoped(c))]
          /\ \A k \in Scoped(c) : k <= Max(Scoped(c))
    BY CurrentIsLast DEF q
  <1>9. \A c \in Chapters : Started(c) /\ c # new => Started(c)' /\ Current(c)' = Current(c)
    <2> TAKE c \in Chapters
    <2> HAVE Started(c) /\ c # new
    <2>1. Scoped(c)' = Scoped(c)
      BY <1>5
    <2>2. Current(c)' = p[Max(Scoped(c))]
      BY <2>1 DEF Current, p
    <2> QED BY <1>2, <1>8, <2>1, <2>2 DEF Started
  <1>10. Started(new) => cur.state \notin Final
    BY StatesFacts DEF MayTake, NextTo
  <1>11. RunsGoOn
    BY <1>7, <1>9, <1>10 DEF RunsGoOn, Ended, Final
  <1>12. LastThere'
    <2> SUFFICES ASSUME NEW c \in Chapters, NEW m \in Nat
                 PROVE  LET before == {k \in SOf(p, c) : k < m}
                        IN before = {} \/ \E i \in before : \A k \in before : k <= i
      BY <1>4 DEF LastThere
    <2> DEFINE before == {k \in SOf(p, c) : k < m}
               was == {k \in SOf(q, c) : k < m}
    <2>1. CASE n + 1 \in before
      BY <1>2, <2>1
    <2>2. CASE n + 1 \notin before
      <3>1. before = was
        BY <1>2, <2>2
      <3>2. was = {} \/ \E i \in was : \A k \in was : k <= i
        BY <1>3 DEF RunsStand, LastThere
      <3> QED BY <3>1, <3>2
    <2> QED BY <2>1, <2>2
  <1>13. item.chapter \in Chapters /\ item.seq \in Nat \ {0}
    <2>1. CASE Started(new)
      <3>1. item.seq = cur.seq + 1 /\ cur \in Records("runs") /\ new \in Chapters
        BY <2>1, CurrentIsLast DEF MayTake, NextTo
      <3>2. cur.seq \in Nat
        BY <3>1 DEF RunsStand, CheckpointsTyped
      <3> QED BY <3>1, <3>2
    <2>2. CASE ~Started(new)
      BY <2>2 DEF MayTake, Initial
    <2> QED BY <2>1, <2>2
  <1>14. CheckpointsTyped'
    <2>1. \A i \in DOMAIN q : q[i].chapter \in Chapters /\ q[i].seq \in Nat \ {0}
      BY DEF RunsStand, CheckpointsTyped, Records, q
    <2>2. \A i \in DOMAIN p : p[i].chapter \in Chapters /\ p[i].seq \in Nat \ {0}
      BY <1>1, <1>2, <1>13, <2>1
    <2> QED BY <2>2 DEF CheckpointsTyped, Records, p
  <1>15. FinalIsLast'
    <2>1. \A i, k \in DOMAIN q : q[i].chapter = q[k].chapter /\ k < i => q[k].state \notin Final
      BY DEF RunsStand, FinalIsLast, q
    <2>2. ASSUME NEW k \in DOMAIN q, q[k].chapter = new
          PROVE  q[k].state \notin Final
      <3>1. k \in Scoped(new) /\ new \in Chapters /\ Started(new)
        BY <1>3, <1>13, <2>2 DEF Started
      <3> DEFINE m == Max(Scoped(new))
      <3>2. m \in DOMAIN q /\ q[m].chapter = new /\ cur = q[m] /\ k <= m
        BY <1>3, <1>8, <3>1
      <3>3. q[m].state \notin Final
        BY <1>10, <3>1, <3>2
      <3>4. k \in Nat /\ m \in Nat
        BY <1>2, <3>2
      <3> HIDE DEF m
      <3>5. k < m \/ k = m
        BY <3>2, <3>4
      <3> QED BY <2>1, <2>2, <3>2, <3>3, <3>5
    <2>3. \A i, k \in DOMAIN p : p[i].chapter = p[k].chapter /\ k < i => p[k].state \notin Final
      <3> SUFFICES ASSUME NEW i \in DOMAIN p, NEW k \in DOMAIN p, p[i].chapter = p[k].chapter, k < i
                   PROVE  p[k].state \notin Final
        OBVIOUS
      <3>1. k \in DOMAIN q
        <4>1. i \in Nat /\ k \in Nat /\ i <= n + 1 /\ n + 1 \in Nat
          BY <1>2
        <4>2. k # n + 1
          BY <4>1
        <4> QED BY <1>2, <4>2
      <3> QED BY <1>1, <1>2, <2>1, <2>2, <3>1
    <2> QED BY <2>3 DEF FinalIsLast, p
  <1>16. RunsAreChains'
    <2> DEFINE Chained(r, i, earlier) ==
                 IF earlier = {} THEN r[i] = Initial(r[i].chapter)
                 ELSE LET b == r[Max(earlier)] IN
                      /\ r[i].seq = b.seq + 1 /\ r[i].prev = <<b.state, b.refs>>
                      /\ b.state \in DOMAIN NextStates /\ r[i].state \in NextStates[b.state]
               Before(i) == {k \in SOf(q, q[i].chapter) : k < i}
               BeforeNow(i) == {k \in SOf(p, p[i].chapter) : k < i}
    <2>1. \A i \in DOMAIN q : Chained(q, i, {k \in Scoped(q[i].chapter) : k < i})
      BY DEF RunsStand, RunsAreChains, q
    <2>2. \A i \in DOMAIN q : Chained(q, i, Before(i))
      <3>1. \A i \in DOMAIN q : {k \in Scoped(q[i].chapter) : k < i} = Before(i)
        BY <1>3
      <3> QED BY <2>1, <3>1
    <2>3. ASSUME NEW i \in DOMAIN q
          PROVE  Chained(p, i, BeforeNow(i))
      <3>1. BeforeNow(i) = Before(i)
        <4>1. i \in DOMAIN p /\ p[i] = q[i] /\ i \in Nat /\ i < n + 1 /\ ~(n + 1 < i)
          BY <1>2
        <4>2. \A k \in DOMAIN p : k < i => k \in DOMAIN q
          BY <1>2, <4>1
        <4> QED BY <1>2, <4>1, <4>2
      <3>2. p[i] = q[i] /\ \A k \in Before(i) : p[k] = q[k]
        BY <1>2
      <3>3. Before(i) # {} => Max(Before(i)) \in Before(i)
        <4>0. /\ Before(i) = {k \in Scoped(q[i].chapter) : k < i} /\ Before(i) \in SUBSET Nat
              /\ i \in Nat /\ q[i].chapter \in Chapters
          BY <1>2, <1>3 DEF RunsStand, CheckpointsTyped, Records, q
        <4>1. Before(i) # {} => \E m \in Before(i) : \A k \in Before(i) : k <= m
          BY <4>0 DEF RunsStand, LastThere
        <4> QED BY <4>0, <4>1, LastIsMax
      <3> QED BY <2>2, <3>1, <3>2, <3>3
    <2>4. Chained(p, n + 1, BeforeNow(n + 1))
      <3>1. BeforeNow(n + 1) = Scoped(new)
        <4>1. ~(n + 1 < n + 1)
          BY <1>2
        <4> QED BY <1>1, <1>2, <1>3, <4>1
      <3>2. p[n + 1] = item
        BY <1>1
      <3>3. CASE Started(new)
        <4>1. Max(Scoped(new)) \in DOMAIN q /\ cur = q[Max(Scoped(new))] /\ NextTo(cur, item)
          BY <1>8, <1>13, <3>3 DEF MayTake
        <4>2. p[Max(Scoped(new))] = cur
          BY <1>2, <4>1
        <4> QED BY <3>1, <3>2, <3>3, <4>1, <4>2 DEF Started, NextTo
      <3>4. CASE ~Started(new)
        BY <3>1, <3>2, <3>4 DEF MayTake, Started
      <3> QED BY <3>3, <3>4
    <2> HIDE DEF Chained, BeforeNow
    <2>5. \A i \in DOMAIN p : Chained(p, i, BeforeNow(i))
      BY <1>2, <2>3, <2>4
    <2> QED BY <2>5, <1>4 DEF RunsAreChains, p, Chained, BeforeNow
  <1>17. item \in Records("runs")'
    BY <1>1, <1>2 DEF Records, p
  <1> QED BY <1>7, <1>11, <1>12, <1>14, <1>15, <1>16, <1>17 DEF RunsStand

------------------------------------------------------------------------------
(* What a process knows of its chapter.                                      *)

\* What FulfilledOnEvidence asks for, of any process and step.
Supported(c) ==
    \E n \in 0..Len(evidence.recs) :
        LET f == InForce(n, c) IN
        /\ \A r \in f : r.good
        /\ \A l \in Fields : \A role \in RolesNeeded(l) : \E r \in f : r.field = l /\ r.role = role
        /\ \A m \in Metadata : \E r \in f : r.field = m /\ r.role = "verification"

StartedOnes == {c \in Chapters : Started(c)}
EndedOnes == {c \in Chapters : Ended(c)}
SupportedOnes == {c \in Chapters : Supported(c)}
EngagementRecords == Records("engagement")

ReviewIn(j) == Item("engagement_review", <<j.chapter>>, [plan |-> j.found.refs[1], artifact |-> j.artifact])

JobFields == {"call", "at", "chapter", "artifact", "payload", "found"}

\* A job, given the chapters that are started, those whose run was completed, those that are
\* supported, and what is recorded.
JobStands(j, started, ended, supported, records) ==
    /\ "at" \in DOMAIN j
    /\ j.at # "idle" =>
          /\ JobFields \subseteq DOMAIN j /\ j.chapter \in Chapters
          /\ j.call = "run_chapter" => j.payload = Bare
    /\ j.at \notin {"idle", "start", "create", "review", "fulfil"} => j.chapter \in started
    /\ j.at \in {"record", "reviewed"} =>
          j.found.chapter = j.chapter /\ j.found.state = "director_proposed"
    /\ j.at \in {"evidence", "evaluate", "complete", "incomplete"} =>
          j.found.chapter = j.chapter /\ j.found.state = "engagement_reviewed"
    /\ j.at = "reviewed" => ReviewIn(j) \in records
    /\ j.at = "complete" /\ j.payload.checked => j.chapter \in supported
    /\ j.at = "incomplete" => j.call # "run_chapter"
    /\ j.at \in {"approve", "materialize"} => j.chapter \in ended

Jobs ==
    /\ pc = [w \in Workers |-> pc[w]]
    /\ \A w \in Workers : JobStands(pc[w], StartedOnes, EndedOnes, SupportedOnes, EngagementRecords)

EvidenceOK == EvidenceStands(evidence)
Rest == Logs /\ EvidenceOK /\ RunsStand /\ ReviewedIsRecorded /\ StateComesLast
IInv == Rest /\ Jobs

\* What a step does to what the processes know: nothing of it is lost.
Onward ==
    /\ StartedOnes \subseteq StartedOnes' /\ EndedOnes \subseteq EndedOnes'
    /\ SupportedOnes \subseteq SupportedOnes' /\ EngagementRecords \subseteq EngagementRecords'

JobNow(j) == JobStands(j, StartedOnes, EndedOnes, SupportedOnes, EngagementRecords)

LEMMA JobLasts ==
  ASSUME NEW j, NEW S, NEW E, NEW P, NEW R, NEW S2, NEW E2, NEW P2, NEW R2,
         S \subseteq S2, E \subseteq E2, P \subseteq P2, R \subseteq R2,
         JobStands(j, S, E, P, R)
  PROVE  JobStands(j, S2, E2, P2, R2)
  BY DEF JobStands

LEMMA IdleStands ==
  ASSUME NEW S, NEW E, NEW P, NEW R
  PROVE  JobStands(Idle, S, E, P, R)
  BY DEF JobStands, Idle

\* One process moves on.
LEMMA JobMoves ==
  ASSUME Jobs, Onward, NEW w \in Workers, NEW x, pc' = [pc EXCEPT ![w] = x],
         JobStands(x, StartedOnes', EndedOnes', SupportedOnes', EngagementRecords')
  PROVE  Jobs'
  <1> DEFINE S == StartedOnes
             E == EndedOnes
             P == SupportedOnes
             R == EngagementRecords
  <1>1. pc' = [v \in Workers |-> pc'[v]] /\ pc'[w] = x /\ \A v \in Workers \ {w} : pc'[v] = pc[v]
    BY DEF Jobs
  <1>2. \A v \in Workers : JobStands(pc'[v], S', E', P', R')
    <2> TAKE v \in Workers
    <2>1. CASE v = w
      BY <1>1, <2>1
    <2>2. CASE v # w
      <3>1. JobStands(pc[v], S, E, P, R)
        BY DEF Jobs
      <3>2. JobStands(pc[v], S', E', P', R')
        BY <3>1, JobLasts DEF Onward
      <3> QED BY <1>1, <2>2, <3>2
    <2> QED BY <2>1, <2>2
  <1> QED BY <1>1, <1>2 DEF Jobs, JobStands, ReviewIn

LEMMA JobsStay ==
  ASSUME Jobs, Onward, pc' = pc
  PROVE  Jobs'
  <1>1. \A v \in Workers : JobStands(pc'[v], StartedOnes', EndedOnes', SupportedOnes', EngagementRecords')
    BY JobLasts DEF Jobs, Onward
  <1>2. pc' = [v \in Workers |-> pc'[v]]
    BY DEF Jobs
  <1> QED BY <1>1, <1>2 DEF Jobs, JobStands, ReviewIn

LEMMA EvidenceNow ==
  ASSUME EvidenceStands(evidence')
  PROVE  EvidenceOK'
  BY DEF EvidenceOK, EvidenceStands, Acceptable, SameId, EvidenceIn, SupersedesExisting, IdsOnce, SupersededThere

LEMMA SupportLasts ==
  ASSUME Follows(evidence, evidence'), NEW c, Supported(c)
  PROVE  Supported(c)'
  <1>1. \A n, d : /\ InForce(n, d) = InForceOf(evidence.recs, n, d)
                 /\ InForce(n, d)' = InForceOf(evidence'.recs, n, d)
    BY DEF InForce, InForceOf
  <1>2. PICK n \in 0..Len(evidence.recs) :
          /\ \A r \in InForce(n, c) : r.good
          /\ \A x \in Fields : \A role \in RolesNeeded(x) : \E r \in InForce(n, c) : r.field = x /\ r.role = role
          /\ \A x \in Metadata : \E r \in InForce(n, c) : r.field = x /\ r.role = "verification"
    BY DEF Supported
  <1>3. InForce(n, c)' = InForce(n, c) /\ n \in 0..Len(evidence'.recs)
    BY <1>1, InForceLasts
  <1> QED BY <1>2, <1>3 DEF Supported

\* What was known stays so.
LEMMA GoesOnward ==
  ASSUME RunsGoOn, Grows, Follows(evidence, evidence')
  PROVE  Onward
  <1>1. StartedOnes \subseteq StartedOnes' /\ EndedOnes \subseteq EndedOnes'
    BY DEF RunsGoOn, StartedOnes, EndedOnes
  <1>2. EngagementRecords \subseteq EngagementRecords'
    BY DEF Grows, Stores, EngagementRecords
  <1>3. SupportedOnes \subseteq SupportedOnes'
    BY SupportLasts DEF SupportedOnes
  <1> QED BY <1>1, <1>2, <1>3 DEF Onward

\* A step that writes no checkpoint and no state.
LEMMA RestStays ==
  ASSUME Rest, Logs', Grows, Untouched("runs"), Untouched("state"),
         EvidenceStands(evidence'), Follows(evidence, evidence')
  PROVE  Rest' /\ Onward
  <1>1. RunsStand' /\ RunsGoOn
    BY RunsKept DEF Rest, Untouched
  <1>2. Onward
    BY <1>1, GoesOnward
  <1>3. Records("runs")' = Records("runs") /\ Records("state")' = Records("state")
    BY DEF Records, Untouched
  <1>4. ReviewedIsRecorded'
    BY <1>2, <1>3 DEF Rest, ReviewedIsRecorded, Onward, EngagementRecords
  <1>5. StateComesLast'
    <2>1. \A x \in Records("state") : \E c \in Chapters : x.id = <<c>> /\ c \in EndedOnes
      BY DEF Rest, StateComesLast, EndedOnes, Ended
    <2>2. \A x \in Records("state")' : \E c \in Chapters : x.id = <<c>> /\ c \in EndedOnes'
      BY <1>2, <1>3, <2>1 DEF Onward
    <2> QED BY <2>2 DEF StateComesLast, EndedOnes, Ended
  <1>6. EvidenceOK'
    BY EvidenceNow
  <1> QED BY <1>1, <1>2, <1>4, <1>5, <1>6 DEF Rest

LEMMA NothingChanges ==
  ASSUME Rest, UNCHANGED <<log, evidence>>
  PROVE  Rest' /\ Onward
  <1>1. Logs' /\ Grows /\ Untouched("runs") /\ Untouched("state")
    BY NothingWritten DEF Rest, Stores
  <1>2. EvidenceStands(evidence') /\ Follows(evidence, evidence')
    BY FollowsFacts DEF Rest, EvidenceOK, EvidenceStands
  <1> QED BY <1>1, <1>2, RestStays

------------------------------------------------------------------------------
(* A checkpoint that append takes is the first one or next to the last.      *)

LEMMA InitialFits ==
  ASSUME Rest, NEW c \in Chapters, ~Known(Initial(c)), ~Conflicts(Initial(c))
  PROVE  MayTake(Initial(c))
  <1>1. Initial(c).chapter = c /\ Initial(c).seq = 1
    BY DEF Initial
  <1>2. CASE Started(c)
    <2>1. 1 = Current(c).seq + 1
      BY <1>1, <1>2 DEF Conflicts
    <2>2. Current(c).seq \in Nat \ {0}
      BY <1>2, CurrentIsLast DEF Rest, RunsStand, CheckpointsTyped
    <2> QED BY <2>1, <2>2
  <1>3. CASE ~Started(c)
    BY <1>1, <1>3 DEF MayTake
  <1> QED BY <1>2, <1>3

LEMMA AdvanceFits ==
  ASSUME Rest, NEW cur, NEW state, NEW refs, cur.chapter \in StartedOnes,
         cur.state \in DOMAIN NextStates, state \in NextStates[cur.state],
         ~Known(Advance(cur, state, refs)), ~Conflicts(Advance(cur, state, refs))
  PROVE  MayTake(Advance(cur, state, refs))
  <1> DEFINE item == Advance(cur, state, refs)
             last == Current(cur.chapter)
  <1>1. /\ item.chapter = cur.chapter /\ item.state = state /\ item.prev = <<cur.state, cur.refs>>
        /\ cur.chapter \in Chapters /\ Started(cur.chapter)
    BY DEF Advance, StartedOnes
  <1> HIDE DEF item
  <1>2. item.seq = last.seq + 1 /\ item.prev = <<last.state, last.refs>>
    BY <1>1 DEF Conflicts, item
  <1>3. cur.state = last.state
    BY <1>1, <1>2
  <1>4. MayTake(item)
    BY <1>1, <1>2, <1>3 DEF MayTake, NextTo
  <1> QED BY <1>4 DEF item

\* Of a review that a checkpoint refers to.
ReviewThere(item) ==
    item.state = "engagement_reviewed" =>
        /\ Item("engagement_review", <<item.chapter>>, item.refs[1]) \in Records("engagement")
        /\ item.refs[1].plan = item.prev[2][1]

\* Taken, whether or not the process lives on.
LEMMA CheckpointWritten ==
  ASSUME Rest, NEW item, MayTake(item), ReviewThere(item),
         Write("runs", item) \/ WriteTorn("runs", item), UNCHANGED evidence
  PROVE  /\ Rest' /\ Onward
         /\ Write("runs", item) =>
               item.chapter \in StartedOnes' /\ (item.state = "fulfillment_recorded" => item.chapter \in EndedOnes')
  <1> DEFINE q == log["runs"].recs
  <1>0. {"runs", "state", "engagement"} \subseteq Stores /\ item.chapter \in Chapters /\ Logs /\ RunsStand
    BY DEF Stores, MayTake, Rest
  <1>1. MayAppend("runs", item) /\ (Write("runs", item) => log'["runs"].recs = Append(q, item))
    BY <1>0, Writing
  <1>2. /\ Logs' /\ Grows /\ Untouched("state") /\ Untouched("engagement")
        /\ log'["runs"].recs \in {q, Append(q, item)}
    BY <1>0, <1>1 DEF MayAppend
  <1>3. log'["runs"].recs = Append(q, item) =>
          /\ RunsStand' /\ RunsGoOn
          /\ Started(item.chapter)' /\ Current(item.chapter)' = item
    BY <1>0, <1>2, RunTaken
  <1>4. log'["runs"].recs = q => RunsStand' /\ RunsGoOn
    BY <1>0, RunsKept
  <1>5. RunsStand' /\ RunsGoOn
    BY <1>2, <1>3, <1>4
  <1>6. EvidenceStands(evidence') /\ Follows(evidence, evidence')
    BY FollowsFacts DEF Rest, EvidenceOK, EvidenceStands
  <1>7. Onward /\ EvidenceOK'
    BY <1>2, <1>5, <1>6, GoesOnward, EvidenceNow
  <1>8. \A x \in Records("runs")' : x \in Records("runs") \/ x = item
    BY <1>0, OnlyAdded
  <1>9. ReviewedIsRecorded'
    <2>1. Records("engagement")' = Records("engagement")
      BY <1>2 DEF Records, Untouched
    <2> QED BY <1>8, <2>1 DEF Rest, ReviewedIsRecorded, ReviewThere
  <1>10. StateComesLast'
    <2>1. \A x \in Records("state") : \E c \in Chapters : x.id = <<c>> /\ c \in EndedOnes
      BY DEF Rest, StateComesLast, EndedOnes, Ended
    <2>2. Records("state")' = Records("state")
      BY <1>2 DEF Records, Untouched
    <2>3. \A x \in Records("state")' : \E c \in Chapters : x.id = <<c>> /\ c \in EndedOnes'
      BY <1>7, <2>1, <2>2 DEF Onward
    <2> QED BY <2>3 DEF StateComesLast, EndedOnes, Ended
  <1>11. Write("runs", item) =>
           item.chapter \in StartedOnes' /\ (item.state = "fulfillment_recorded" => item.chapter \in EndedOnes')
    BY <1>0, <1>1, <1>3 DEF StartedOnes, EndedOnes, Ended
  <1> QED BY <1>2, <1>5, <1>7, <1>9, <1>10, <1>11 DEF Rest

LEMMA CheckpointTaken ==
  ASSUME Rest, NEW w \in Workers, NEW item, NEW next, Checkpoint(w, item, next),
         item.chapter \in Chapters, ~Known(item) /\ ~Conflicts(item) => MayTake(item),
         ReviewThere(item)
  PROVE  /\ Rest' /\ Onward
         /\ \/ pc' = [pc EXCEPT ![w] = Idle]
            \/ /\ pc' = [pc EXCEPT ![w] = next] /\ item.chapter \in StartedOnes'
               /\ item.state = "fulfillment_recorded" => item.chapter \in EndedOnes'
  <1>0. UNCHANGED evidence
    BY DEF Checkpoint
  <1>1. CASE Known(item) /\ Goto(w, next) /\ UNCHANGED log
    <2>1. Rest' /\ Onward
      BY <1>0, <1>1, NothingChanges
    <2>2. item \in Records("runs")
      BY <1>1 DEF Known
    <2>3. item.chapter \in StartedOnes
      BY <2>2 DEF StartedOnes, Started, Scoped, Records
    <2>4. item.state = "fulfillment_recorded" => item.chapter \in EndedOnes
      BY <2>2, FinalIsCurrent DEF Rest, EndedOnes, Ended, Final
    <2> QED BY <1>1, <2>1, <2>3, <2>4 DEF Goto, Onward
  <1>2. CASE Return(w) /\ UNCHANGED log
    BY <1>0, <1>2, NothingChanges DEF Return, Goto
  <1>3. CASE ~Known(item) /\ ~Conflicts(item) /\ Write("runs", item) /\ Goto(w, next)
    BY <1>0, <1>3, CheckpointWritten DEF Goto
  <1>4. CASE ~Known(item) /\ ~Conflicts(item) /\ WriteTorn("runs", item) /\ Return(w)
    BY <1>0, <1>4, CheckpointWritten DEF Goto, Return
  <1> QED BY <1>1, <1>2, <1>3, <1>4 DEF Checkpoint

------------------------------------------------------------------------------
(* The steps                                                                 *)

\* What every job has.
LEMMA JobHas ==
  ASSUME IInv, NEW w \in Workers, pc[w].at # "idle"
  PROVE  /\ JobStands(pc[w], StartedOnes, EndedOnes, SupportedOnes, EngagementRecords)
         /\ JobFields \subseteq DOMAIN pc[w] /\ pc[w].chapter \in Chapters
         /\ pc[w].call = "run_chapter" => pc[w].payload = Bare
         /\ pc[w].at \notin {"start", "create", "review", "fulfil"} => pc[w].chapter \in StartedOnes
  BY DEF IInv, Jobs, JobStands

\* A job that goes on with what it has.
LEMMA FieldsKept ==
  ASSUME NEW j, NEW a, JobFields \subseteq DOMAIN j
  PROVE  LET x == [j EXCEPT !.at = a] IN
         /\ JobFields \subseteq DOMAIN x /\ x.at = a /\ x.call = j.call /\ x.chapter = j.chapter
         /\ x.artifact = j.artifact /\ x.payload = j.payload /\ x.found = j.found
  BY DEF JobFields

LEMMA PlainStands ==
  ASSUME NEW j, NEW S, NEW E, NEW P, NEW R, JobStands(j, S, E, P, R), j.at # "idle",
         NEW a \in {"create", "audit", "ready"}, a # "create" => j.chapter \in S
  PROVE  JobStands([j EXCEPT !.at = a], S, E, P, R)
  <1> DEFINE x == [j EXCEPT !.at = a]
  <1>1. /\ JobFields \subseteq DOMAIN j /\ j.chapter \in Chapters
        /\ j.call = "run_chapter" => j.payload = Bare
    BY DEF JobStands
  <1>2. /\ JobFields \subseteq DOMAIN x /\ x.at = a /\ x.chapter = j.chapter
        /\ x.call = j.call /\ x.payload = j.payload
    BY <1>1, FieldsKept
  <1> HIDE DEF x
  <1>3. JobStands(x, S, E, P, R)
    BY <1>1, <1>2 DEF JobStands, JobFields
  <1> QED BY <1>3 DEF x

\* A job that goes on with what it found, and a call that is over unless run_chapter made it.
LEMMA HeldStands ==
  ASSUME NEW w, NEW x, NEW S, NEW E, NEW P, NEW R,
         NEW a \in {"project", "propose", "review", "fulfil", "approve"},
         pc[w].chapter \in Chapters, pc[w].call = "run_chapter" => pc[w].payload = Bare,
         a \notin {"review", "fulfil"} => pc[w].chapter \in S,
         a = "approve" => pc[w].chapter \in E
  PROVE  JobStands(Holding(w, a, x), S, E, P, R) /\ JobStands(After(w, a), S, E, P, R)
  <1>1. \A y : JobStands(Holding(w, a, y), S, E, P, R)
    <2> TAKE y
    <2> DEFINE j == Holding(w, a, y)
    <2>1. /\ JobFields \subseteq DOMAIN j /\ j.at = a /\ j.chapter = pc[w].chapter
          /\ j.call = pc[w].call /\ j.payload = pc[w].payload
      BY DEF Holding, JobFields
    <2> HIDE DEF j
    <2>2. JobStands(j, S, E, P, R)
      BY <2>1 DEF JobStands, JobFields
    <2> QED BY <2>2 DEF j
  <1>2. JobStands(Idle, S, E, P, R)
    BY IdleStands
  <1> QED BY <1>1, <1>2 DEF After, Job

\* Only the job changes.
LEMMA JobOnly ==
  ASSUME IInv, NEW w \in Workers, NEW x, UNCHANGED <<log, evidence>>, pc' = [pc EXCEPT ![w] = x],
         JobStands(x, StartedOnes, EndedOnes, SupportedOnes, EngagementRecords)
  PROVE  IInv'
  <1>1. Rest' /\ Onward
    BY NothingChanges DEF IInv
  <1>2. JobStands(x, StartedOnes', EndedOnes', SupportedOnes', EngagementRecords')
    BY <1>1, JobLasts DEF Onward
  <1>3. Jobs'
    BY <1>1, <1>2, JobMoves DEF IInv
  <1> QED BY <1>1, <1>3 DEF IInv

LEMMA ReturnKeeps ==
  ASSUME IInv, NEW w \in Workers, UNCHANGED <<log, evidence>>, Return(w)
  PROVE  IInv'
  BY JobOnly, IdleStands DEF Return, Goto

\* A move that keeps the job, to where nothing but the chapter has to be known.
LEMMA PlainMove ==
  ASSUME IInv, NEW w \in Workers, UNCHANGED <<log, evidence>>, pc[w].at # "idle",
         NEW a \in {"create", "audit", "ready"}, At(w, a),
         a # "create" => pc[w].chapter \in StartedOnes
  PROVE  IInv'
  <1>1. JobStands(pc[w], StartedOnes, EndedOnes, SupportedOnes, EngagementRecords)
    BY DEF IInv, Jobs
  <1>2. JobStands([pc[w] EXCEPT !.at = a], StartedOnes, EndedOnes, SupportedOnes, EngagementRecords)
    BY <1>1, PlainStands
  <1> QED BY <1>2, JobOnly DEF At, Goto

LEMMA ViewedKeeps ==
  ASSUME IInv, NEW w \in Workers, UNCHANGED <<log, evidence>>, pc[w].at # "idle", NEW state, Viewed(w, state)
  PROVE  IInv'
  <1> DEFINE a == IF state = "director_proposed" THEN "review" ELSE "fulfil"
  <1>1. pc' = [pc EXCEPT ![w] = After(w, a)] /\ a \in {"review", "fulfil"}
    BY DEF Viewed, Goto
  <1> HIDE DEF a
  <1>2. JobStands(After(w, a), StartedOnes, EndedOnes, SupportedOnes, EngagementRecords)
    BY <1>1, JobHas, HeldStands
  <1> QED BY <1>1, <1>2, JobOnly

LEMMA ReadStartKeeps ==
  ASSUME IInv, NEW w \in Workers, ReadStart(w)
  PROVE  IInv'
  <1> DEFINE c == pc[w].chapter
  <1>1. UNCHANGED <<log, evidence>> /\ pc[w].at # "idle"
    BY DEF ReadStart, Step
  <1>2. c \in Chapters
    BY <1>1, JobHas
  <1>3. CASE Return(w)
    BY <1>1, <1>3, ReturnKeeps
  <1>4. CASE At(w, "create")
    BY <1>1, <1>4, PlainMove
  <1>5. CASE Started(c) /\ At(w, "audit")
    BY <1>1, <1>2, <1>5, PlainMove DEF StartedOnes
  <1>6. CASE Viewed(w, Current(c).state)
    BY <1>1, <1>6, ViewedKeeps
  <1> QED BY <1>3, <1>4, <1>5, <1>6 DEF ReadStart

LEMMA AuditKeeps ==
  ASSUME IInv, NEW w \in Workers, Audit(w)
  PROVE  IInv'
  <1>1. UNCHANGED <<log, evidence>> /\ pc[w].at = "audit"
    BY DEF Audit, Step
  <1>2. pc[w].chapter \in StartedOnes
    BY <1>1, JobHas
  <1>3. CASE At(w, "ready")
    BY <1>1, <1>2, <1>3, PlainMove
  <1>4. CASE Viewed(w, "awaiting_readiness_approval")
    BY <1>1, <1>4, ViewedKeeps
  <1> QED BY <1>3, <1>4 DEF Audit

LEMMA ProjectKeeps ==
  ASSUME IInv, NEW w \in Workers, Project(w)
  PROVE  IInv'
  <1>1. UNCHANGED <<log, evidence>> /\ pc[w].at = "project"
    BY DEF Project, Step
  <1>2. pc[w].chapter \in StartedOnes
    BY <1>1, JobHas
  <1>3. ASSUME NEW b, Goto(w, Holding(w, "propose", b))
        PROVE  IInv'
    <2>1. JobStands(Holding(w, "propose", b), StartedOnes, EndedOnes, SupportedOnes, EngagementRecords)
      BY <1>1, <1>2, JobHas, HeldStands
    <2> QED BY <1>1, <1>3, <2>1, JobOnly DEF Goto
  <1>4. CASE Return(w)
    BY <1>1, <1>4, ReturnKeeps
  <1> QED BY <1>3, <1>4 DEF Project

\* What ReadReview and ReadFulfilment go on with is the last checkpoint of the chapter.
LEMMA CurrentHeld ==
  ASSUME IInv, NEW w \in Workers, pc[w].at # "idle", Started(pc[w].chapter),
         NEW a \in {"record", "evidence"},
         Current(pc[w].chapter).state = IF a = "record" THEN "director_proposed" ELSE "engagement_reviewed"
  PROVE  JobStands(Holding(w, a, Current(pc[w].chapter)),
                   StartedOnes, EndedOnes, SupportedOnes, EngagementRecords)
  <1> DEFINE c == pc[w].chapter
             j == Holding(w, a, Current(c))
  <1>1. c \in Chapters /\ c \in StartedOnes /\ (pc[w].call = "run_chapter" => pc[w].payload = Bare)
    BY JobHas DEF StartedOnes
  <1>2. Current(c).chapter = c
    BY <1>1, CurrentIsLast DEF IInv, Rest
  <1>3. /\ JobFields \subseteq DOMAIN j /\ j.at = a /\ j.chapter = c /\ j.found = Current(c)
        /\ j.call = pc[w].call /\ j.payload = pc[w].payload
    BY DEF Holding, JobFields
  <1> HIDE DEF j
  <1>4. JobStands(j, StartedOnes, EndedOnes, SupportedOnes, EngagementRecords)
    BY <1>1, <1>2, <1>3 DEF JobStands, JobFields
  <1> QED BY <1>4 DEF j

LEMMA ReadReviewKeeps ==
  ASSUME IInv, NEW w \in Workers, ReadReview(w)
  PROVE  IInv'
  <1> DEFINE c == pc[w].chapter
             x == Holding(w, "record", Current(c))
  <1>1. UNCHANGED <<log, evidence>> /\ pc[w].at = "review"
    BY DEF ReadReview, Step
  <1>2. CASE Started(c) /\ Current(c).state = "director_proposed" /\ Goto(w, x)
    <2>1. JobStands(x, StartedOnes, EndedOnes, SupportedOnes, EngagementRecords)
      BY <1>1, <1>2, CurrentHeld
    <2> QED BY <1>1, <1>2, <2>1, JobOnly DEF Goto
  <1>3. CASE Return(w)
    BY <1>1, <1>3, ReturnKeeps
  <1> QED BY <1>2, <1>3 DEF ReadReview

LEMMA ReadFulfilmentKeeps ==
  ASSUME IInv, NEW w \in Workers, ReadFulfilment(w)
  PROVE  IInv'
  <1> DEFINE c == pc[w].chapter
             x == Holding(w, "evidence", Current(c))
  <1>1. UNCHANGED <<log, evidence>> /\ pc[w].at = "fulfil"
    BY DEF ReadFulfilment, Step
  <1>2. CASE Started(c) /\ Current(c).state = "fulfillment_recorded" /\ Goto(w, After(w, "approve"))
    <2>1. c \in StartedOnes /\ c \in EndedOnes
      BY <1>1, <1>2, JobHas DEF StartedOnes, EndedOnes, Ended
    <2>2. JobStands(After(w, "approve"), StartedOnes, EndedOnes, SupportedOnes, EngagementRecords)
      BY <1>1, <2>1, JobHas, HeldStands
    <2> QED BY <1>1, <1>2, <2>2, JobOnly DEF Goto
  <1>3. CASE Started(c) /\ Current(c).state = "engagement_reviewed" /\ Goto(w, x)
    <2>1. JobStands(x, StartedOnes, EndedOnes, SupportedOnes, EngagementRecords)
      BY <1>1, <1>3, CurrentHeld
    <2> QED BY <1>1, <1>3, <2>1, JobOnly DEF Goto
  <1>4. CASE Return(w)
    BY <1>1, <1>4, ReturnKeeps
  <1> QED BY <1>2, <1>3, <1>4 DEF ReadFulfilment

\* Every call starts with nothing known of its chapter.
LEMMA BeginKeeps ==
  ASSUME IInv, NEW w \in Workers, NEW c \in Chapters, NEW a, NEW p,
         \/ RunChapter(w, c, a) \/ StartRun(w, c, a) \/ RecordReview(w, c, a)
         \/ RecordFulfilment(w, c, a, p)
  PROVE  IInv'
  <1>1. PICK call, at, payload :
          /\ Begin(w, call, at, c, a, payload)
          /\ at \in {"start", "review", "fulfil"} /\ (call = "run_chapter" => payload = Bare)
    <2>1. CASE RunChapter(w, c, a)
      BY <2>1 DEF RunChapter
    <2>2. CASE StartRun(w, c, a)
      BY <2>2 DEF StartRun
    <2>3. CASE RecordReview(w, c, a)
      BY <2>3 DEF RecordReview
    <2>4. CASE RecordFulfilment(w, c, a, p)
      BY <2>4 DEF RecordFulfilment
    <2> QED BY <2>1, <2>2, <2>3, <2>4
  <1> DEFINE x == [call |-> call, at |-> at, chapter |-> c, artifact |-> a, payload |-> payload, found |-> <<>>]
  <1>2. JobStands(x, StartedOnes, EndedOnes, SupportedOnes, EngagementRecords)
    BY <1>1 DEF JobStands, JobFields
  <1>3. UNCHANGED <<log, evidence>> /\ pc' = [pc EXCEPT ![w] = x]
    BY <1>1 DEF Begin, Goto
  <1> QED BY <1>2, <1>3, JobOnly

LEMMA RaiseKeeps ==
  ASSUME IInv, NEW w \in Workers, Raise(w) \/ Crash(w)
  PROVE  IInv'
  BY ReturnKeeps DEF Raise, Crash

\* A checkpoint, and where the operation goes on: what must be known there is what the
\* checkpoint says.
LEMMA CheckpointKeeps ==
  ASSUME IInv, NEW w \in Workers, NEW item, NEW next, Checkpoint(w, item, next),
         item.chapter \in Chapters, ~Known(item) /\ ~Conflicts(item) => MayTake(item),
         ReviewThere(item),
         \A S, E, P, R : item.chapter \in S /\ (item.state = "fulfillment_recorded" => item.chapter \in E)
                        => JobStands(next, S, E, P, R)
  PROVE  IInv'
  <1>1. /\ Rest' /\ Onward
        /\ \/ pc' = [pc EXCEPT ![w] = Idle]
           \/ /\ pc' = [pc EXCEPT ![w] = next] /\ item.chapter \in StartedOnes'
              /\ item.state = "fulfillment_recorded" => item.chapter \in EndedOnes'
    BY CheckpointTaken DEF IInv
  <1>2. CASE pc' = [pc EXCEPT ![w] = Idle]
    BY <1>1, <1>2, JobMoves, IdleStands DEF IInv
  <1>3. CASE /\ pc' = [pc EXCEPT ![w] = next] /\ item.chapter \in StartedOnes'
             /\ item.state = "fulfillment_recorded" => item.chapter \in EndedOnes'
    <2>1. JobStands(next, StartedOnes', EndedOnes', SupportedOnes', EngagementRecords')
      BY <1>3
    <2> QED BY <1>1, <1>3, <2>1, JobMoves DEF IInv
  <1> QED BY <1>1, <1>2, <1>3

LEMMA CreateRunKeeps ==
  ASSUME IInv, NEW w \in Workers, CreateRun(w)
  PROVE  IInv'
  <1> DEFINE c == pc[w].chapter
             next == [pc[w] EXCEPT !.at = "audit"]
             item == Initial(c)
  <1>1. /\ pc[w].at = "create" /\ c \in Chapters
        /\ JobStands(pc[w], StartedOnes, EndedOnes, SupportedOnes, EngagementRecords)
    BY JobHas DEF CreateRun
  <1>2. \A S, E, P, R : c \in S => JobStands(next, S, E, P, R)
    <2> DEFINE j == pc[w]
    <2>1. JobFields \subseteq DOMAIN j /\ (j.call = "run_chapter" => j.payload = Bare)
      BY <1>1, JobHas
    <2>2. /\ JobFields \subseteq DOMAIN next /\ next.at = "audit" /\ next.chapter = c
          /\ next.call = j.call /\ next.payload = j.payload
      BY <2>1, FieldsKept
    <2> HIDE DEF next
    <2> QED BY <1>1, <2>1, <2>2 DEF JobStands, JobFields
  <1>3. item.chapter = c /\ item.state = "awaiting_readiness_approval"
    BY DEF Initial
  <1>4. ~Known(item) /\ ~Conflicts(item) => MayTake(item)
    BY <1>1, InitialFits DEF IInv
  <1>5. Checkpoint(w, item, next)
    BY DEF CreateRun
  <1> HIDE DEF next, item
  <1>6. ReviewThere(item)
    BY <1>3 DEF ReviewThere
  <1>7. \A S, E, P, R : item.chapter \in S => JobStands(next, S, E, P, R)
    BY <1>2, <1>3
  <1> QED BY <1>1, <1>3, <1>4, <1>5, <1>6, <1>7, CheckpointKeeps

LEMMA ApproveReadinessKeeps ==
  ASSUME IInv, NEW w \in Workers, ApproveReadiness(w)
  PROVE  IInv'
  <1> DEFINE c == pc[w].chapter
             next == After(w, "project")
             item == Ready(c)
  <1>1. pc[w].at = "ready" /\ c \in Chapters /\ c \in StartedOnes
    BY JobHas DEF ApproveReadiness
  <1>2. item.chapter = c /\ item.state = "readiness_approved"
    BY DEF Ready, Advance, Initial
  <1>3. ~Known(item) /\ ~Conflicts(item) => MayTake(item)
    <2>1. Initial(c).chapter = c /\ Initial(c).state = "awaiting_readiness_approval"
      BY DEF Initial
    <2> QED BY <1>1, <2>1, StatesFacts, AdvanceFits DEF IInv, Ready
  <1>4. Checkpoint(w, item, next)
    BY DEF ApproveReadiness
  <1>5. \A S, E, P, R : item.chapter \in S => JobStands(next, S, E, P, R)
    BY <1>1, <1>2, JobHas, HeldStands
  <1> HIDE DEF next, item
  <1>6. ReviewThere(item)
    BY <1>2 DEF ReviewThere
  <1> QED BY <1>1, <1>2, <1>3, <1>4, <1>5, <1>6, CheckpointKeeps

LEMMA ProposeDirectionKeeps ==
  ASSUME IInv, NEW w \in Workers, ProposeDirection(w)
  PROVE  IInv'
  <1> DEFINE c == pc[w].chapter
             next == Job(w, "review")
             item == Advance(Ready(c), "director_proposed", <<pc[w].found>>)
  <1>1. pc[w].at = "propose" /\ c \in Chapters /\ c \in StartedOnes
    BY JobHas DEF ProposeDirection
  <1>2. item.chapter = c /\ item.state = "director_proposed"
    BY DEF Ready, Advance, Initial
  <1>3. ~Known(item) /\ ~Conflicts(item) => MayTake(item)
    <2>1. Ready(c).chapter = c /\ Ready(c).state = "readiness_approved"
      BY DEF Ready, Advance, Initial
    <2> QED BY <1>1, <2>1, StatesFacts, AdvanceFits DEF IInv
  <1>4. Checkpoint(w, item, next)
    BY DEF ProposeDirection
  <1>5. \A S, E, P, R : item.chapter \in S => JobStands(next, S, E, P, R)
    BY <1>1, <1>2, JobHas, HeldStands DEF Job
  <1> HIDE DEF next, item
  <1>6. ReviewThere(item)
    BY <1>2 DEF ReviewThere
  <1> QED BY <1>1, <1>2, <1>3, <1>4, <1>5, <1>6, CheckpointKeeps

LEMMA CheckpointReviewKeeps ==
  ASSUME IInv, NEW w \in Workers, CheckpointReview(w)
  PROVE  IInv'
  <1> DEFINE c == pc[w].chapter
             cur == pc[w].found
             next == After(w, "fulfil")
             item == Advance(cur, "engagement_reviewed", <<ReviewOf(w).body>>)
  <1>1. /\ pc[w].at = "reviewed" /\ c \in Chapters /\ c \in StartedOnes
        /\ cur.chapter = c /\ cur.state = "director_proposed"
        /\ ReviewIn(pc[w]) \in EngagementRecords
    BY JobHas DEF CheckpointReview, JobStands
  <1>2. /\ item.chapter = c /\ item.state = "engagement_reviewed"
        /\ item.prev = <<cur.state, cur.refs>> /\ item.refs = <<ReviewOf(w).body>>
    BY <1>1 DEF Advance
  <1>3. ~Known(item) /\ ~Conflicts(item) => MayTake(item)
    BY <1>1, StatesFacts, AdvanceFits DEF IInv
  <1>4. Checkpoint(w, item, next)
    BY DEF CheckpointReview
  <1>5. \A S, E, P, R : item.chapter \in S => JobStands(next, S, E, P, R)
    BY <1>1, <1>2, JobHas, HeldStands
  <1> HIDE DEF next, item
  <1>6. ReviewThere(item)
    <2>1. ReviewOf(w).body = [plan |-> cur.refs[1], artifact |-> pc[w].artifact]
      BY DEF ReviewOf, Item
    <2>2. item.refs[1].plan = cur.refs[1] /\ item.prev[2][1] = cur.refs[1]
      BY <1>2, <2>1
    <2>3. Item("engagement_review", <<c>>, item.refs[1]) = ReviewIn(pc[w])
      BY <1>2, <2>1 DEF ReviewIn
    <2> QED BY <1>1, <1>2, <2>2, <2>3 DEF ReviewThere, EngagementRecords
  <1> QED BY <1>1, <1>2, <1>3, <1>4, <1>5, <1>6, CheckpointKeeps

\* The end of a run.  What ended incomplete is nobody's to go on with: run_chapter is never there.
LEMMA CompleteKeeps ==
  ASSUME IInv, NEW w \in Workers, Complete(w) \/ Incomplete(w)
  PROVE  IInv'
  <1> DEFINE c == pc[w].chapter
             cur == pc[w].found
             next == After(w, "approve")
  <1>1. PICK state, refs :
          /\ state \in Final /\ Checkpoint(w, Advance(cur, state, refs), next)
          /\ state # "fulfillment_recorded" => pc[w].at = "incomplete"
    BY DEF Complete, Incomplete, Completed, Final
  <1> DEFINE item == Advance(cur, state, refs)
  <1>2. /\ pc[w].at \in {"complete", "incomplete"}
        /\ c \in Chapters /\ c \in StartedOnes /\ cur.chapter = c /\ cur.state = "engagement_reviewed"
        /\ pc[w].at = "incomplete" => pc[w].call # "run_chapter"
    BY JobHas DEF Complete, Incomplete, JobStands
  <1>3. item.chapter = c /\ item.state = state /\ state \in Final
    BY <1>1, <1>2 DEF Advance
  <1>4. ~Known(item) /\ ~Conflicts(item) => MayTake(item)
    <2>1. cur.state \in DOMAIN NextStates /\ state \in NextStates[cur.state]
      BY <1>2, <1>3, StatesFacts
    <2> QED BY <1>2, <2>1, AdvanceFits DEF IInv
  <1>5. \A S, E, P, R : item.chapter \in S /\ (item.state = "fulfillment_recorded" => item.chapter \in E)
                       => JobStands(next, S, E, P, R)
    <2> SUFFICES ASSUME NEW S, NEW E, NEW P, NEW R, c \in S, state = "fulfillment_recorded" => c \in E
                 PROVE  JobStands(next, S, E, P, R)
      BY <1>3
    <2>1. CASE state = "fulfillment_recorded"
      BY <1>2, <2>1, JobHas, HeldStands
    <2>2. CASE state # "fulfillment_recorded"
      BY <1>1, <1>2, <2>2, IdleStands DEF After
    <2> QED BY <2>1, <2>2
  <1> HIDE DEF next, item
  <1>6. ReviewThere(item)
    BY <1>3 DEF ReviewThere, Final
  <1>7. Checkpoint(w, item, next)
    BY <1>1 DEF next, item
  <1> QED BY <1>2, <1>3, <1>4, <1>5, <1>6, <1>7, CheckpointKeeps

\* A step that writes a log other than those of the runs and of the states.
LEMMA OtherWritten ==
  ASSUME Rest, NEW s \in Stores \ {"runs", "state"}, NEW r, UNCHANGED evidence,
         Write(s, r) \/ WriteTorn(s, r)
  PROVE  Rest' /\ Onward /\ (Write(s, r) => r \in Records(s)')
  <1>1. MayAppend(s, r) /\ (Write(s, r) => log'[s].recs = Append(log[s].recs, r))
    BY Writing DEF Rest
  <1>2. Logs' /\ Grows /\ Untouched("runs") /\ Untouched("state")
    BY <1>1 DEF MayAppend, Stores
  <1>3. EvidenceStands(evidence') /\ Follows(evidence, evidence')
    BY FollowsFacts DEF Rest, EvidenceOK, EvidenceStands
  <1>4. Rest' /\ Onward
    BY <1>2, <1>3, RestStays
  <1>5. Write(s, r) => r \in Records(s)'
    <2> HAVE Write(s, r)
    <2> DEFINE q == log[s].recs
    <2>1. IsLog(q)
      BY DEF Rest, Logs, LogStands
    <2>2. Len(q) \in Nat /\ DOMAIN Append(q, r) = 1..Len(q) + 1 /\ Append(q, r)[Len(q) + 1] = r
      BY <2>1, LogAppended
    <2>3. Len(q) + 1 \in DOMAIN Append(q, r)
      BY <2>2
    <2> QED BY <1>1, <2>2, <2>3 DEF Records
  <1> QED BY <1>4, <1>5

LEMMA AppendReviewKeeps ==
  ASSUME IInv, NEW w \in Workers, AppendReview(w)
  PROVE  IInv'
  <1> DEFINE r == ReviewOf(w)
             x == [pc[w] EXCEPT !.at = "reviewed"]
  <1>1. UNCHANGED evidence /\ pc[w].at = "record"
    BY DEF AppendReview
  <1>2. /\ JobFields \subseteq DOMAIN pc[w] /\ pc[w].chapter \in Chapters /\ pc[w].chapter \in StartedOnes
        /\ pc[w].call = "run_chapter" => pc[w].payload = Bare
        /\ pc[w].found.chapter = pc[w].chapter /\ pc[w].found.state = "director_proposed"
    BY <1>1, JobHas DEF JobStands
  <1>3. /\ JobFields \subseteq DOMAIN x /\ x.at = "reviewed" /\ x.call = pc[w].call
        /\ x.chapter = pc[w].chapter /\ x.payload = pc[w].payload
        /\ x.found = pc[w].found /\ x.artifact = pc[w].artifact
    BY <1>2, FieldsKept
  <1> HIDE DEF x
  <1>4. ReviewIn(x) = r
    BY <1>3 DEF ReviewIn, ReviewOf
  <1>5. \A S, E, P, R : pc[w].chapter \in S /\ r \in R => JobStands(x, S, E, P, R)
    BY <1>2, <1>3, <1>4 DEF JobStands, JobFields
  <1>6. CASE UNCHANGED log /\ Return(w)
    BY <1>1, <1>6, ReturnKeeps
  <1>7. CASE r \in Records("engagement") /\ UNCHANGED log /\ At(w, "reviewed")
    <2>1. JobStands(x, StartedOnes, EndedOnes, SupportedOnes, EngagementRecords)
      BY <1>2, <1>5, <1>7 DEF EngagementRecords
    <2> QED BY <1>1, <1>7, <2>1, JobOnly DEF At, Goto, x
  <1>8. CASE Write("engagement", r) /\ At(w, "reviewed")
    <2>1. Rest' /\ Onward /\ r \in Records("engagement")'
      BY <1>1, <1>8, OtherWritten DEF Stores, IInv
    <2>2. JobStands(x, StartedOnes', EndedOnes', SupportedOnes', EngagementRecords')
      BY <1>2, <1>5, <2>1 DEF Onward, EngagementRecords
    <2>3. pc' = [pc EXCEPT ![w] = x]
      BY <1>8 DEF At, Goto, x
    <2> QED BY <2>1, <2>2, <2>3, JobMoves DEF IInv
  <1>9. CASE WriteTorn("engagement", r) /\ Return(w)
    <2>1. Rest' /\ Onward
      BY <1>1, <1>9, OtherWritten DEF Stores, IInv
    <2> QED BY <1>9, <2>1, JobMoves, IdleStands DEF IInv, Return, Goto
  <1> QED BY <1>6, <1>7, <1>8, <1>9 DEF AppendReview

\* From the evidence to its evaluation.
LEMMA EvaluateStands ==
  ASSUME NEW j, NEW S, NEW E, NEW P, NEW R, JobStands(j, S, E, P, R), j.at = "evidence"
  PROVE  JobStands([j EXCEPT !.at = "evaluate"], S, E, P, R)
  <1> DEFINE x == [j EXCEPT !.at = "evaluate"]
  <1>1. JobFields \subseteq DOMAIN j
    BY DEF JobStands
  <1>2. /\ JobFields \subseteq DOMAIN x /\ x.at = "evaluate" /\ x.chapter = j.chapter /\ x.found = j.found
        /\ x.call = j.call /\ x.payload = j.payload
    BY <1>1, FieldsKept
  <1> HIDE DEF x
  <1>3. JobStands(x, S, E, P, R)
    BY <1>1, <1>2 DEF JobStands, JobFields
  <1> QED BY <1>3 DEF x

LEMMA AppendCompactKeeps ==
  ASSUME IInv, NEW w \in Workers, AppendCompact(w)
  PROVE  IInv'
  <1> DEFINE r == [contract |-> pc[w].chapter, artifact |-> pc[w].artifact]
             x == [pc[w] EXCEPT !.at = "evaluate"]
  <1>1. UNCHANGED evidence /\ pc[w].at = "evidence"
    BY DEF AppendCompact
  <1>2. JobStands(x, StartedOnes, EndedOnes, SupportedOnes, EngagementRecords)
    BY <1>1, EvaluateStands DEF IInv, Jobs
  <1> HIDE DEF x, r
  <1>3. CASE UNCHANGED log /\ Return(w)
    BY <1>1, <1>3, ReturnKeeps
  <1>4. CASE UNCHANGED log /\ At(w, "evaluate")
    BY <1>1, <1>2, <1>4, JobOnly DEF At, Goto, x
  <1>5. CASE Write("compact", r) /\ At(w, "evaluate")
    <2>1. Rest' /\ Onward
      BY <1>1, <1>5, OtherWritten DEF Stores, IInv
    <2>2. JobStands(x, StartedOnes', EndedOnes', SupportedOnes', EngagementRecords')
      BY <1>2, <2>1, JobLasts DEF Onward
    <2>3. pc' = [pc EXCEPT ![w] = x]
      BY <1>5 DEF At, Goto, x
    <2> QED BY <2>1, <2>2, <2>3, JobMoves DEF IInv
  <1>6. CASE WriteTorn("compact", r) /\ Return(w)
    <2>1. Rest' /\ Onward
      BY <1>1, <1>6, OtherWritten DEF Stores, IInv
    <2> QED BY <1>6, <2>1, JobMoves, IdleStands DEF IInv, Return, Goto
  <1> QED BY <1>3, <1>4, <1>5, <1>6 DEF AppendCompact, r

LEMMA AppendedAllKeeps ==
  ASSUME IInv, NEW w \in Workers, AppendedAll(w)
  PROVE  IInv'
  <1>1. UNCHANGED <<log, evidence>> /\ pc[w].at = "evidence" /\ At(w, "evaluate")
    BY DEF AppendedAll, Step
  <1>2. JobStands([pc[w] EXCEPT !.at = "evaluate"], StartedOnes, EndedOnes, SupportedOnes, EngagementRecords)
    BY <1>1, JobHas, EvaluateStands
  <1> QED BY <1>1, <1>2, JobOnly DEF At, Goto

\* The evidence goes on, and the logs stay.
LEMMA EvidenceOnward ==
  ASSUME Rest, UNCHANGED log, EvidenceStands(evidence'), Follows(evidence, evidence')
  PROVE  Rest' /\ Onward
  <1>1. Logs' /\ Grows /\ Untouched("runs") /\ Untouched("state")
    BY NothingWritten DEF Rest, Stores
  <1> QED BY <1>1, RestStays

LEMMA AppendRecordKeeps ==
  ASSUME ProductionAssumption, IInv, NEW w \in Workers, NEW r \in Evidence, AppendRecord(w, r)
  PROVE  IInv'
  <1> DEFINE states == AppendStates(evidence, r)
             j == pc[w]
             next == [j EXCEPT !.payload.records = @ \ {r}]
  <1>1. UNCHANGED log /\ j.at = "evidence" /\ r \in j.payload.records
    BY DEF AppendRecord
  <1>2. JobStands(j, StartedOnes, EndedOnes, SupportedOnes, EngagementRecords)
    BY <1>1, JobHas
  <1>3. JobStands(next, StartedOnes, EndedOnes, SupportedOnes, EngagementRecords)
    <2>1. JobFields \subseteq DOMAIN j /\ j.call # "run_chapter"
      BY <1>1, <1>2 DEF JobStands, ProductionAssumption
    <2>2. /\ JobFields \subseteq DOMAIN next
          /\ next.at = j.at /\ next.call = j.call /\ next.chapter = j.chapter /\ next.found = j.found
      BY <2>1 DEF JobFields
    <2> HIDE DEF next, j
    <2> QED BY <1>1, <1>2, <2>1, <2>2 DEF JobStands, JobFields
  <1> HIDE DEF next
  <1>4. /\ \A i \in DOMAIN states : EvidenceStands(states[i]) /\ Follows(evidence, states[i])
        /\ Len(states) \in DOMAIN states
    BY AppendStands DEF IInv, Rest, EvidenceOK
  <1> HIDE DEF states
  <1>5. CASE UNCHANGED evidence /\ Return(w)
    BY <1>1, <1>5, ReturnKeeps
  <1>6. CASE evidence' = states[Len(states)] /\ Goto(w, next)
    <2>1. Rest' /\ Onward
      BY <1>1, <1>4, <1>6, EvidenceOnward DEF IInv
    <2>2. JobStands(next, StartedOnes', EndedOnes', SupportedOnes', EngagementRecords')
      BY <1>3, <2>1, JobLasts DEF Onward
    <2> QED BY <1>6, <2>1, <2>2, JobMoves DEF IInv, Goto
  <1>7. CASE (\E i \in DOMAIN states : evidence' = states[i]) /\ Return(w)
    <2>1. Rest' /\ Onward
      BY <1>1, <1>4, <1>7, EvidenceOnward DEF IInv
    <2> QED BY <1>7, <2>1, JobMoves, IdleStands DEF IInv, Return, Goto
  <1> QED BY <1>5, <1>6, <1>7 DEF AppendRecord, states, next

\* An operation is told that the contract is fulfilled only on the evidence in force.
LEMMA FulfilledIsSupported ==
  ASSUME ProductionAssumption, EvidenceStands(evidence), evidence' = Redone(evidence), NEW c, NEW a,
         Evaluate(ActiveRecords(evidence, c), a) = "fulfilled"
  PROVE  Supported(c)'
  <1> DEFINE f == ActiveRecords(evidence, c)
  <1>1. PICK n \in 0..Len(evidence'.recs) : f = InForceOf(evidence'.recs, n, c)
    <2>1. EvidenceStands(evidence')
      BY RedoStands
    <2>2. Len(evidence'.recs) \in Nat
      BY <2>1, LenProperties DEF EvidenceStands, EvidenceType
    <2>3. Len(evidence'.recs) \in 0..Len(evidence'.recs)
      BY <2>2
    <2> QED BY <2>3, ActiveIsInForce
  <1>2. InForce(n, c)' = InForceOf(evidence'.recs, n, c)
    BY DEF InForce, InForceOf
  <1> HIDE DEF f
  <1>3. Evaluate(f, a) = "fulfilled"
    BY DEF f
  <1>4. /\ Stale(f) = {}
        /\ \A x \in Fields : RolesNeeded(x) \subseteq RolesOf(f, x)
        /\ \A x \in Metadata : "verification" \in RolesOf(f, x)
    BY <1>3 DEF Evaluate
  <1>5. /\ \A r \in f : r.good
        /\ \A x \in Fields : \A role \in RolesNeeded(x) : \E r \in f : r.field = x /\ r.role = role
        /\ \A x \in Metadata : \E r \in f : r.field = x /\ r.role = "verification"
    BY <1>4 DEF Stale, RolesOf
  <1> QED BY <1>1, <1>2, <1>5 DEF Supported

LEMMA EvaluateEvidenceKeeps ==
  ASSUME ProductionAssumption, IInv, NEW w \in Workers, EvaluateEvidence(w)
  PROVE  IInv'
  <1> DEFINE j == pc[w]
             c == j.chapter
             result == Evaluate(ActiveRecords(evidence, c), j.payload.metadata)
             complete == IF j.payload.checked THEN result = "fulfilled" ELSE j.payload.claimed
             a == IF complete THEN "complete" ELSE "incomplete"
             x == [j EXCEPT !.at = a]
  <1>1. j.at = "evaluate" /\ UNCHANGED log
    BY DEF EvaluateEvidence
  <1>2. /\ JobFields \subseteq DOMAIN j /\ c \in Chapters /\ c \in StartedOnes
        /\ j.call = "run_chapter" => j.payload = Bare
        /\ j.found.chapter = c /\ j.found.state = "engagement_reviewed"
    BY <1>1, JobHas DEF JobStands
  <1>3. EvidenceStands(evidence) /\ Acceptable(evidence)
    BY DEF IInv, Rest, EvidenceOK, EvidenceStands
  <1>4. /\ evidence' = evidence \/ evidence' = Redone(evidence)
        /\ \/ Return(w)
           \/ At(w, a) /\ (j.payload.checked => evidence' = Redone(evidence))
    BY <1>3 DEF EvaluateEvidence
  <1>5. EvidenceStands(evidence') /\ Follows(evidence, evidence')
    <2>1. CASE evidence' = evidence
      BY <1>3, <2>1, FollowsFacts DEF EvidenceStands
    <2>2. CASE evidence' = Redone(evidence)
      BY <1>3, <2>2, RedoStands
    <2> QED BY <1>4, <2>1, <2>2
  <1>6. Rest' /\ Onward
    BY <1>1, <1>5, EvidenceOnward DEF IInv
  <1>7. CASE Return(w)
    BY <1>6, <1>7, JobMoves, IdleStands DEF IInv, Return, Goto
  <1>8. CASE At(w, a) /\ (j.payload.checked => evidence' = Redone(evidence))
    <2>1. a = "complete" /\ j.payload.checked => c \in SupportedOnes'
      <3> HAVE a = "complete" /\ j.payload.checked
      <3>1. PICK d : d = c
        OBVIOUS
      <3>2. Evaluate(ActiveRecords(evidence, d), j.payload.metadata) = "fulfilled"
        BY <3>1
      <3>3. Supported(d)'
        BY <1>3, <1>8, <3>2, FulfilledIsSupported
      <3>4. d \in SupportedOnes'
        BY <1>2, <3>1, <3>3 DEF SupportedOnes
      <3> QED BY <3>1, <3>4
    <2>2. a \in {"complete", "incomplete"}
      OBVIOUS
    <2>3. a = "incomplete" => j.call # "run_chapter"
      BY <1>2 DEF ProductionAssumption
    <2>4. pc' = [pc EXCEPT ![w] = x]
      BY <1>8 DEF At, Goto
    <2> HIDE DEF a
    <2>5. /\ JobFields \subseteq DOMAIN x /\ x.at = a /\ x.chapter = c
          /\ x.call = j.call /\ x.found = j.found /\ x.payload = j.payload
      BY <1>2, FieldsKept
    <2>6. c \in StartedOnes'
      BY <1>2, <1>6 DEF Onward
    <2> HIDE DEF x
    <2>7. JobStands(x, StartedOnes', EndedOnes', SupportedOnes', EngagementRecords')
      BY <1>2, <2>1, <2>2, <2>3, <2>5, <2>6 DEF JobStands, JobFields
    <2> QED BY <1>6, <2>4, <2>7, JobMoves DEF IInv
  <1> QED BY <1>4, <1>7, <1>8

\* A record of the state is written for a chapter that has ended.
LEMMA StateWritten ==
  ASSUME Rest, NEW c \in EndedOnes, NEW r, r.id = <<c>>, UNCHANGED evidence,
         Write("state", r) \/ WriteTorn("state", r)
  PROVE  Rest' /\ Onward
  <1> DEFINE q == log["state"].recs
  <1>0. {"runs", "state", "engagement"} \subseteq Stores /\ Logs /\ IsLog(q) /\ c \in Chapters
    BY DEF Stores, Rest, Logs, LogStands, EndedOnes
  <1>1. MayAppend("state", r)
    BY <1>0, Writing
  <1>2. Logs' /\ Grows /\ Untouched("runs") /\ Untouched("engagement")
    BY <1>0, <1>1 DEF MayAppend, Stores
  <1>3. RunsStand' /\ RunsGoOn
    BY <1>2, RunsKept DEF Rest, Untouched
  <1>4. EvidenceStands(evidence') /\ Follows(evidence, evidence')
    BY FollowsFacts DEF Rest, EvidenceOK, EvidenceStands
  <1>5. Onward /\ EvidenceOK'
    BY <1>2, <1>3, <1>4, GoesOnward, EvidenceNow
  <1>6. ReviewedIsRecorded'
    <2>1. Records("runs")' = Records("runs") /\ Records("engagement")' = Records("engagement")
      BY <1>2 DEF Records, Untouched
    <2> QED BY <2>1 DEF Rest, ReviewedIsRecorded
  <1>7. \A x \in Records("state")' : x \in Records("state") \/ x = r
    BY <1>0, OnlyAdded
  <1>8. StateComesLast'
    <2>1. \A x \in Records("state") : \E d \in Chapters : x.id = <<d>> /\ d \in EndedOnes
      BY DEF Rest, StateComesLast, EndedOnes, Ended
    <2>2. \A x \in Records("state")' : \E d \in Chapters : x.id = <<d>> /\ d \in EndedOnes'
      BY <1>0, <1>5, <1>7, <2>1 DEF Onward
    <2> QED BY <2>2 DEF StateComesLast, EndedOnes, Ended
  <1> QED BY <1>2, <1>3, <1>5, <1>6, <1>8 DEF Rest

LEMMA AppendStateKeeps ==
  ASSUME IInv, NEW w \in Workers, NEW r, NEW next, AppendState(w, r, next),
         NEW c \in EndedOnes, r.id = <<c>>,
         JobStands(next, StartedOnes, EndedOnes, SupportedOnes, EngagementRecords)
  PROVE  IInv'
  <1>1. UNCHANGED evidence
    BY DEF AppendState
  <1>2. CASE UNCHANGED log /\ Return(w)
    BY <1>1, <1>2, ReturnKeeps
  <1>3. CASE UNCHANGED log /\ Goto(w, next)
    BY <1>1, <1>3, JobOnly DEF Goto
  <1>4. CASE Write("state", r) /\ Goto(w, next)
    <2>1. Rest' /\ Onward
      BY <1>1, <1>4, StateWritten DEF IInv
    <2>2. JobStands(next, StartedOnes', EndedOnes', SupportedOnes', EngagementRecords')
      BY <2>1, JobLasts DEF Onward
    <2> QED BY <1>4, <2>1, <2>2, JobMoves DEF IInv, Goto
  <1>5. CASE WriteTorn("state", r) /\ Return(w)
    <2>1. Rest' /\ Onward
      BY <1>1, <1>5, StateWritten DEF IInv
    <2> QED BY <1>5, <2>1, JobMoves, IdleStands DEF IInv, Return, Goto
  <1> QED BY <1>2, <1>3, <1>4, <1>5 DEF AppendState

LEMMA ApproveStateKeeps ==
  ASSUME IInv, NEW w \in Workers, ApproveState(w)
  PROVE  IInv'
  <1> DEFINE r == Item("decision", <<pc[w].chapter>>, [state |-> pc[w].artifact])
             x == [pc[w] EXCEPT !.at = "materialize"]
  <1>1. pc[w].at = "approve" /\ AppendState(w, r, x)
    BY DEF ApproveState
  <1>2. /\ JobFields \subseteq DOMAIN pc[w] /\ pc[w].chapter \in Chapters
        /\ pc[w].chapter \in StartedOnes /\ pc[w].chapter \in EndedOnes
        /\ pc[w].call = "run_chapter" => pc[w].payload = Bare
    BY <1>1, JobHas DEF JobStands
  <1>3. /\ JobFields \subseteq DOMAIN x /\ x.at = "materialize" /\ x.chapter = pc[w].chapter
        /\ x.call = pc[w].call /\ x.payload = pc[w].payload
    BY <1>2, FieldsKept
  <1>4. r.id = <<pc[w].chapter>>
    BY DEF Item
  <1> HIDE DEF x, r
  <1>5. JobStands(x, StartedOnes, EndedOnes, SupportedOnes, EngagementRecords)
    BY <1>2, <1>3 DEF JobStands, JobFields
  <1> QED BY <1>1, <1>2, <1>4, <1>5, AppendStateKeeps

LEMMA MaterializeKeeps ==
  ASSUME IInv, NEW w \in Workers, Materialize(w)
  PROVE  IInv'
  <1> DEFINE r == Item("materialization", <<pc[w].chapter>>, [state |-> pc[w].artifact])
  <1>1. pc[w].at = "materialize"
    BY DEF Materialize
  <1>2. pc[w].chapter \in EndedOnes /\ r.id = <<pc[w].chapter>>
    BY <1>1 DEF IInv, Jobs, JobStands, Item
  <1> HIDE DEF r
  <1>3. CASE AppendState(w, r, Idle)
    BY <1>2, <1>3, IdleStands, AppendStateKeeps
  <1>4. CASE Return(w) /\ UNCHANGED <<log, evidence>>
    BY <1>4, ReturnKeeps
  <1> QED BY <1>3, <1>4 DEF Materialize, r

LEMMA ClientsKeep ==
  ASSUME ProductionAssumption, IInv, ClientStep
  PROVE  IInv'
  <1>1. Logs' /\ Grows /\ Untouched("runs") /\ Untouched("state")
    BY ClientsWriteElsewhere DEF IInv, Rest
  <1>2. pc' = pc
    BY DEF ClientStep, Client, ProposePlan, DecidePlan, ActivatePlan, ReviewOpening, AppendReconciliation,
           ProposeTransition, MaterializeTransition, PersistAudit, ApproveAudit, AppendIntent, AppendReceipt,
           AppendQuality, AppendEvidence
  <1>3. EvidenceStands(evidence') /\ Follows(evidence, evidence')
    <2>1. EvidenceStands(evidence)
      BY DEF IInv, Rest, EvidenceOK
    <2>2. ASSUME UNCHANGED evidence
          PROVE  EvidenceStands(evidence') /\ Follows(evidence, evidence')
      BY <2>1, <2>2, FollowsFacts DEF EvidenceStands
    <2>3. ASSUME NEW r \in Evidence, AppendEvidence(r)
          PROVE  EvidenceStands(evidence') /\ Follows(evidence, evidence')
      BY <2>1, <2>3, AppendStands DEF AppendEvidence
    <2>4. UNCHANGED evidence \/ \E r \in Evidence : AppendEvidence(r)
      BY DEF ClientStep, Client, ProposePlan, DecidePlan, ActivatePlan, ReviewOpening, AppendReconciliation,
             ProposeTransition, MaterializeTransition, PersistAudit, ApproveAudit, AppendIntent, AppendReceipt,
             AppendQuality
    <2> QED BY <2>2, <2>3, <2>4
  <1>4. Rest' /\ Onward
    BY <1>1, <1>3, RestStays DEF IInv
  <1> QED BY <1>2, <1>4, JobsStay DEF IInv

------------------------------------------------------------------------------
(* The invariant                                                             *)

LEMMA InitStands ==
  ASSUME ProductionAssumption, Init
  PROVE  IInv
  <1>1. PICK f \in Foundations :
          log = [s \in Stores |-> IF s \in DOMAIN f
                                 THEN [NoRecords EXCEPT !.recs = f[s], !.head = Len(f[s])]
                                 ELSE NoRecords]
    BY DEF Init
  <1>2. \A s \in Stores : LogStands(log[s])
    <2> TAKE s \in Stores
    <2>1. CASE s \in DOMAIN f
      <3>1. log[s] = [recs |-> f[s], head |-> Len(f[s]), broken |-> FALSE]
        BY <1>1, <2>1 DEF NoRecords
      <3>2. IsLog(f[s])
        BY <2>1 DEF ProductionAssumption, IsLog
      <3> QED BY <3>1, <3>2 DEF LogStands
    <2>2. CASE s \notin DOMAIN f
      <3>1. log[s] = [recs |-> <<>>, head |-> 0, broken |-> FALSE]
        BY <1>1, <2>2 DEF NoRecords
      <3>2. IsLog(<<>>)
        BY DEF IsLog
      <3> QED BY <3>1, <3>2 DEF LogStands
    <2> QED BY <2>1, <2>2
  <1>3. Logs
    BY <1>1, <1>2 DEF Logs
  <1>4. log["runs"].recs = <<>> /\ log["state"].recs = <<>>
    BY <1>1 DEF ProductionAssumption, Stores, NoRecords
  <1>5. /\ Records("runs") = {} /\ Records("state") = {}
        /\ DOMAIN log["runs"].recs = {} /\ \A c : Scoped(c) = {}
    BY <1>4 DEF Records, Scoped
  <1>6. RunsStand /\ ReviewedIsRecorded /\ StateComesLast
    BY <1>5 DEF RunsStand, LastThere, CheckpointsTyped, FinalIsLast, RunsAreChains, ReviewedIsRecorded, StateComesLast
  <1>7. EvidenceOK
    <2>1. evidence = [recs |-> <<>>, head |-> 0, journal |-> NoEvidence]
      BY DEF Init, EvidenceInit
    <2>2. evidence \in EvidenceType
      BY <2>1, EmptySeq DEF EvidenceType
    <2>3. Acceptable(evidence) /\ IdsOnce(evidence.recs) /\ SupersededThere(evidence.recs)
      BY <2>1, EmptySeq DEF Acceptable, IdsOnce, SupersededThere
    <2> QED BY <2>2, <2>3 DEF EvidenceOK, EvidenceStands
  <1>8. Jobs
    BY IdleStands DEF Init, Jobs
  <1> QED BY <1>3, <1>6, <1>7, <1>8 DEF IInv, Rest

LEMMA NextStands ==
  ASSUME ProductionAssumption, IInv, [Next]_vars
  PROVE  IInv'
  <1>1. ASSUME NEW w \in Workers, WorkerStep(w)
        PROVE  IInv'
    BY <1>1, ReadStartKeeps, CreateRunKeeps, AuditKeeps, ApproveReadinessKeeps, ProjectKeeps,
       ProposeDirectionKeeps, ReadReviewKeeps, AppendReviewKeeps, CheckpointReviewKeeps,
       ReadFulfilmentKeeps, AppendCompactKeeps, AppendRecordKeeps, AppendedAllKeeps, EvaluateEvidenceKeeps,
       CompleteKeeps, ApproveStateKeeps, MaterializeKeeps, RaiseKeeps DEF WorkerStep
  <1>2. ASSUME NEW w \in Workers, Crash(w)
        PROVE  IInv'
    BY <1>2, RaiseKeeps
  <1>3. ASSUME NEW w \in Workers, NEW c \in Chapters, NEW a \in Artifacts,
               \/ RunChapter(w, c, a) \/ StartRun(w, c, a) \/ RecordReview(w, c, a)
               \/ \E p \in Payloads : RecordFulfilment(w, c, a, p)
        PROVE  IInv'
    BY <1>3, BeginKeeps
  <1>4. CASE ClientStep
    BY <1>4, ClientsKeep
  <1>5. CASE UNCHANGED vars
    <2>1. UNCHANGED <<log, evidence>> /\ pc' = pc
      BY <1>5 DEF vars
    <2>2. Rest' /\ Onward
      BY <2>1, NothingChanges DEF IInv
    <2> QED BY <2>1, <2>2, JobsStay DEF IInv
  <1> QED BY <1>1, <1>2, <1>3, <1>4, <1>5 DEF Next

\* The inductive invariant: the logs, the evidence and the runs stand, a review and a state
\* were recorded after what they rest on, and what each process knows still is so.
THEOREM ProductionInvariant == Spec => []IInv
  <1>1. Init => IInv
    BY InitStands, ProductionAssumption
  <1>2. IInv /\ [Next]_vars => IInv'
    BY NextStands, ProductionAssumption
  <1> QED BY <1>1, <1>2, PTL DEF Spec

\* Wherever an append or a recovery of the evidence dies, the next one accepts the files
\* (contract_fulfillment_store.py:73).
THEOREM EvidenceAlwaysRecoverable == Spec => []EvidenceRecoverable
  <1>1. IInv => EvidenceRecoverable
    BY DEF IInv, Rest, EvidenceOK, EvidenceStands, EvidenceRecoverable
  <1> QED BY <1>1, ProductionInvariant, PTL

\* The state of a chapter is approved only for a run that was completed, never for one that ended
\* incomplete, whatever crashes and whichever process goes on or ended it
\* (chapter_production_composition.py:19; phase-e design 2026-08-22, lines 376, 478).
THEOREM StateAlwaysLast == Spec => []StateComesLast
  <1>1. IInv => StateComesLast
    BY DEF IInv, Rest
  <1> QED BY <1>1, ProductionInvariant, PTL

\* A run is one chain of legal checkpoints, however many processes write it
\* (chapter_run_checkpoint_store.py:10).
THEOREM RunsAlwaysChains == Spec => []RunsAreChains
  <1>1. IInv => RunsAreChains
    BY DEF IInv, Rest, RunsStand
  <1> QED BY <1>1, ProductionInvariant, PTL

\* A checkpoint of a review refers to a review that is recorded, of the projection the run was
\* directed by (chapter_production_orchestrator.py:46).
THEOREM ReviewsAlwaysRecorded == Spec => []ReviewedIsRecorded
  <1>1. IInv => ReviewedIsRecorded
    BY DEF IInv, Rest
  <1> QED BY <1>1, ProductionInvariant, PTL

------------------------------------------------------------------------------
(* Who completes a run.                                                      *)

\* A step adds to the runs what only a completing worker writes, or nothing completed.
RunsAdded ==
    \A x \in Records("runs")' \ Records("runs") : x.state = "fulfillment_recorded" =>
        \E w \in Workers : pc[w].at = "complete" /\ x = Completed(w)

LEMMA RunsUntouched ==
  ASSUME log'["runs"] = log["runs"]
  PROVE  RunsAdded
  BY DEF RunsAdded, Records

LEMMA OthersAdd ==
  ASSUME Logs, NEW s \in Stores \ {"runs"}, NEW r, Write(s, r) \/ WriteTorn(s, r)
  PROVE  RunsAdded
  <1>1. Untouched("runs")
    BY Writing DEF MayAppend, Stores
  <1> QED BY <1>1, RunsUntouched DEF Untouched

LEMMA CheckpointAdds ==
  ASSUME Logs, NEW w, NEW item, NEW next, Checkpoint(w, item, next),
         item.state = "fulfillment_recorded" =>
             \E v \in Workers : pc[v].at = "complete" /\ item = Completed(v)
  PROVE  RunsAdded
  <1>1. CASE UNCHANGED log
    BY <1>1, RunsUntouched
  <1>2. CASE Write("runs", item) \/ WriteTorn("runs", item)
    <2>1. \A x \in Records("runs")' : x \in Records("runs") \/ x = item
      BY <1>2, OnlyAdded DEF Stores
    <2> QED BY <2>1 DEF RunsAdded
  <1> QED BY <1>1, <1>2 DEF Checkpoint

LEMMA WorkersAdd ==
  ASSUME Logs, NEW w \in Workers, WorkerStep(w)
  PROVE  RunsAdded
  <1>1. CASE \/ ReadStart(w) \/ Audit(w) \/ Project(w) \/ ReadReview(w) \/ ReadFulfilment(w) \/ AppendedAll(w)
             \/ EvaluateEvidence(w) \/ Raise(w) \/ \E r \in Evidence : AppendRecord(w, r)
    <2>1. UNCHANGED log
      BY <1>1 DEF ReadStart, Audit, Project, ReadReview, ReadFulfilment, AppendedAll, EvaluateEvidence, Raise,
                  AppendRecord
    <2> QED BY <2>1, RunsUntouched
  <1>2. CASE CreateRun(w) \/ ApproveReadiness(w) \/ ProposeDirection(w) \/ CheckpointReview(w) \/ Incomplete(w)
    <2>1. PICK item, next : Checkpoint(w, item, next) /\ item.state # "fulfillment_recorded"
      BY <1>2 DEF CreateRun, ApproveReadiness, ProposeDirection, CheckpointReview, Incomplete,
                  Ready, Advance, Initial
    <2> QED BY <2>1, CheckpointAdds
  <1>3. CASE Complete(w)
    BY <1>3, CheckpointAdds DEF Complete
  <1>4. CASE AppendReview(w)
    <2>1. UNCHANGED log \/ Write("engagement", ReviewOf(w)) \/ WriteTorn("engagement", ReviewOf(w))
      BY <1>4 DEF AppendReview
    <2> QED BY <2>1, RunsUntouched, OthersAdd DEF Stores
  <1>5. CASE AppendCompact(w)
    <2>1. PICK r : UNCHANGED log \/ Write("compact", r) \/ WriteTorn("compact", r)
      BY <1>5 DEF AppendCompact
    <2> QED BY <2>1, RunsUntouched, OthersAdd DEF Stores
  <1>6. CASE ApproveState(w) \/ Materialize(w)
    <2>1. PICK r : UNCHANGED log \/ Write("state", r) \/ WriteTorn("state", r)
      BY <1>6 DEF ApproveState, Materialize, AppendState
    <2> QED BY <2>1, RunsUntouched, OthersAdd DEF Stores
  <1> QED BY <1>1, <1>2, <1>3, <1>4, <1>5, <1>6 DEF WorkerStep

LEMMA StepsAdd ==
  ASSUME IInv, [Next]_vars
  PROVE  RunsAdded
  <1>1. Logs
    BY DEF IInv, Rest
  <1>2. CASE UNCHANGED log
    BY <1>2, RunsUntouched
  <1>3. CASE \E w \in Workers : WorkerStep(w)
    BY <1>1, <1>3, WorkersAdd
  <1>4. CASE ClientStep
    BY <1>1, <1>4, ClientsWriteElsewhere, RunsUntouched DEF Untouched
  <1> QED BY <1>2, <1>3, <1>4 DEF Next, vars, Crash, RunChapter, StartRun, RecordReview, RecordFulfilment, Begin

\* Whoever completes a run against its contract had, at some moment, good evidence in force for
\* every leaf and every metadata field, and a run is completed by nobody else
\* (chapter_production_orchestrator.py:84).
THEOREM FulfilledAlwaysOnEvidence == Spec => FulfilledOnEvidence
  <1> DEFINE CompletesSupported ==
                 \A x \in Records("runs")' \ Records("runs") : x.state = "fulfillment_recorded" =>
                     \E w \in Workers :
                         /\ pc[w].at = "complete" /\ x = Completed(w)
                         /\ pc[w].payload.checked => Supported(pc[w].chapter)
  <1>1. IInv /\ [Next]_vars => CompletesSupported
    <2>1. ASSUME IInv, NEW w \in Workers, pc[w].at = "complete", pc[w].payload.checked
          PROVE  Supported(pc[w].chapter)
      BY <2>1 DEF IInv, Jobs, JobStands, SupportedOnes
    <2> QED BY <2>1, StepsAdd DEF RunsAdded
  <1>2. Spec => [][CompletesSupported]_vars
    BY <1>1, ProductionInvariant, PTL DEF Spec
  <1> QED BY <1>2 DEF FulfilledOnEvidence, Supported

------------------------------------------------------------------------------
(* Expectations: a decision and its transition are appended by one call.     *)

\* A record that neither decides nor is a transition; a decision that is made for the head
\* of q, of an expectation on which nobody decided; and the transition that follows it.
Unrelated(r) == r.type \notin {"expectation_decision", "expectation_transition"}
DecisionFor(q, r) ==
    /\ r.type = "expectation_decision" /\ r.body.previous = Len(q)
    /\ \A i \in DOMAIN q : q[i].type = "expectation_decision" => q[i].id # r.id
CompletedBy(r, t) == t.type = "expectation_transition" /\ t.id = r.id

Engagement == log["engagement"].recs
EngagementKept == Engagement' = Engagement
EngagementGrows ==
    \/ EngagementKept
    \/ \E r : Engagement' = Append(Engagement, r) /\ (Unrelated(r) \/ DecisionFor(Engagement, r))
    \/ \E r, t : Engagement' = Engagement \o <<r, t>> /\ DecisionFor(Engagement, r) /\ CompletedBy(r, t)

\* An append of one record keeps every decision where it was.
LEMMA OneFollows ==
  ASSUME NEW q, IsLog(q), DecidedFirst(q), NEW r, Unrelated(r) \/ DecisionFor(q, r)
  PROVE  DecidedFirst(Append(q, r))
  <1> DEFINE n == Len(q)
             p == Append(q, r)
  <1>1. /\ n \in Nat /\ DOMAIN q = 1..n /\ DOMAIN p = 1..n + 1
        /\ p[n + 1] = r /\ \A i \in 1..n : p[i] = q[i]
    BY LogAppended
  <1> HIDE DEF n, p
  <1> SUFFICES ASSUME NEW i \in DOMAIN p, p[i].type = "expectation_transition"
               PROVE  /\ i > 1 /\ p[i - 1].type = "expectation_decision"
                      /\ p[i - 1].id = p[i].id /\ p[i - 1].body.previous = i - 2
                      /\ \A j \in DOMAIN p :
                            p[j].type = "expectation_decision" /\ p[j].id = p[i].id => j = i - 1
    BY DEF DecidedFirst, p
  <1>2. r.type # "expectation_transition"
    BY DEF Unrelated, DecisionFor
  <1>3. i \in 1..n /\ p[i] = q[i] /\ q[i].type = "expectation_transition"
    BY <1>1, <1>2
  <1>4. /\ i > 1 /\ q[i - 1].type = "expectation_decision"
        /\ q[i - 1].id = q[i].id /\ q[i - 1].body.previous = i - 2
        /\ \A j \in DOMAIN q : q[j].type = "expectation_decision" /\ q[j].id = q[i].id => j = i - 1
    BY <1>1, <1>3 DEF DecidedFirst
  <1>5. i - 1 \in 1..n /\ p[i - 1] = q[i - 1]
    BY <1>1, <1>3, <1>4
  <1>6. r.type = "expectation_decision" => r.id # q[i].id
    BY <1>1, <1>4, <1>5 DEF Unrelated, DecisionFor
  <1>7. ASSUME NEW j \in DOMAIN p, p[j].type = "expectation_decision", p[j].id = p[i].id
        PROVE  j = i - 1
    <2>1. j \in 1..n /\ p[j] = q[j]
      BY <1>1, <1>3, <1>6, <1>7
    <2> QED BY <1>1, <1>3, <1>4, <1>7, <2>1
  <1> QED BY <1>3, <1>4, <1>5, <1>7

\* So does an append of a decision with its transition, which completes it.
LEMMA TwoFollow ==
  ASSUME NEW q, IsLog(q), DecidedFirst(q), NEW r, NEW t, DecisionFor(q, r), CompletedBy(r, t)
  PROVE  DecidedFirst(q \o <<r, t>>)
  <1> DEFINE n == Len(q)
             pair == <<r, t>>
             S == {q[i] : i \in DOMAIN q} \union {r, t}
             p == q \o pair
  <1>1. q \in Seq(S) /\ pair \in Seq(S) /\ Len(pair) = 2 /\ pair[1] = r /\ pair[2] = t
    BY SeqMonotonic DEF IsLog
  <1> HIDE DEF S, pair
  <1>2. /\ n \in Nat /\ DOMAIN q = 1..n /\ DOMAIN p = 1..n + 2
        /\ \A i \in DOMAIN q : p[i] = q[i]
        /\ p[n + 1] = r /\ p[n + 2] = t
    BY <1>1, TwoAppended
  <1>3. DecisionFor(q, r) /\ r.body.previous = n
    BY DEF DecisionFor, n
  <1> HIDE DEF n, p
  <1>4. \A i \in DOMAIN q : q[i].type = "expectation_decision" => q[i].id # r.id
    BY <1>3 DEF DecisionFor
  <1> SUFFICES ASSUME NEW i \in DOMAIN p, p[i].type = "expectation_transition"
               PROVE  /\ i > 1 /\ p[i - 1].type = "expectation_decision"
                      /\ p[i - 1].id = p[i].id /\ p[i - 1].body.previous = i - 2
                      /\ \A j \in DOMAIN p :
                            p[j].type = "expectation_decision" /\ p[j].id = p[i].id => j = i - 1
    BY DEF DecidedFirst, p, pair
  <1>5. \A j \in DOMAIN p : j \in 1..n \/ j = n + 1 \/ j = n + 2
    BY <1>2
  <1>6. r.type = "expectation_decision" /\ t.type = "expectation_transition" /\ t.id = r.id
    BY <1>3 DEF DecisionFor, CompletedBy
  <1>7. CASE i \in 1..n
    <2>1. p[i] = q[i] /\ q[i].type = "expectation_transition"
      BY <1>2, <1>7
    <2>2. /\ i > 1 /\ q[i - 1].type = "expectation_decision"
          /\ q[i - 1].id = q[i].id /\ q[i - 1].body.previous = i - 2
          /\ \A j \in DOMAIN q : q[j].type = "expectation_decision" /\ q[j].id = q[i].id => j = i - 1
      BY <1>2, <1>7, <2>1 DEF DecidedFirst
    <2>3. i - 1 \in 1..n /\ p[i - 1] = q[i - 1]
      BY <1>2, <1>7, <2>2
    <2>4. r.id # q[i].id
      BY <1>2, <1>4, <2>2, <2>3
    <2>5. ASSUME NEW j \in DOMAIN p, p[j].type = "expectation_decision", p[j].id = p[i].id
          PROVE  j = i - 1
      <3>1. j \in 1..n /\ p[j] = q[j]
        BY <1>2, <1>5, <1>6, <2>1, <2>4, <2>5
      <3> QED BY <1>2, <2>1, <2>2, <2>5, <3>1
    <2> QED BY <2>1, <2>2, <2>3, <2>5
  <1>8. CASE i = n + 2
    <2>1. i > 1 /\ i - 1 = n + 1 /\ i - 2 = n
      BY <1>2, <1>8
    <2>2. p[i - 1] = r /\ p[i] = t
      BY <1>2, <1>8, <2>1
    <2>3. ASSUME NEW j \in DOMAIN p, p[j].type = "expectation_decision", p[j].id = p[i].id
          PROVE  j = i - 1
      <3>1. CASE j \in 1..n
        BY <1>2, <1>4, <1>6, <2>2, <2>3, <3>1
      <3>2. CASE j = n + 2
        BY <1>2, <1>6, <2>3, <3>2
      <3> QED BY <1>5, <2>1, <3>1, <3>2
    <2> QED BY <1>3, <1>6, <2>1, <2>2, <2>3
  <1>9. i # n + 1
    BY <1>2, <1>6
  <1> QED BY <1>5, <1>7, <1>8, <1>9

LEMMA EngagementFollows ==
  ASSUME Logs, TransitionsFollowDecisions, EngagementGrows
  PROVE  TransitionsFollowDecisions'
  <1> DEFINE q == Engagement
  <1>1. IsLog(q) /\ DecidedFirst(q)
    BY DEF Logs, LogStands, Stores, TransitionsFollowDecisions, Engagement
  <1>2. TransitionsFollowDecisions' <=> DecidedFirst(Engagement')
    BY DEF TransitionsFollowDecisions, Engagement
  <1>3. CASE EngagementKept
    BY <1>1, <1>2, <1>3 DEF EngagementKept
  <1>4. ASSUME NEW r, Engagement' = Append(q, r), Unrelated(r) \/ DecisionFor(q, r)
        PROVE  DecidedFirst(Engagement')
    <2>1. DecidedFirst(Append(q, r))
      BY <1>1, <1>4, OneFollows
    <2> QED BY <1>4, <2>1
  <1>5. ASSUME NEW r, NEW t, Engagement' = q \o <<r, t>>, DecisionFor(q, r), CompletedBy(r, t)
        PROVE  DecidedFirst(Engagement')
    <2>1. DecidedFirst(q \o <<r, t>>)
      BY <1>1, <1>5, TwoFollow
    <2> QED BY <1>5, <2>1
  <1> QED BY <1>2, <1>3, <1>4, <1>5 DEF EngagementGrows

\* Who writes another log, or an unrelated record, leaves the rule alone.
LEMMA ElsewhereGrows ==
  ASSUME Logs, NEW s \in Stores, NEW r, Write(s, r) \/ WriteTorn(s, r),
         s # "engagement" \/ Unrelated(r)
  PROVE  EngagementGrows
  <1>1. MayAppend(s, r) /\ "engagement" \in Stores
    BY Writing DEF Stores
  <1>2. CASE s # "engagement"
    BY <1>1, <1>2 DEF MayAppend, Untouched, EngagementGrows, EngagementKept, Engagement
  <1>3. CASE s = "engagement"
    BY <1>1, <1>3 DEF MayAppend, EngagementGrows, EngagementKept, Engagement
  <1> QED BY <1>2, <1>3

LEMMA CheckpointElsewhere ==
  ASSUME Logs, NEW w, NEW item, NEW next, Checkpoint(w, item, next)
  PROVE  EngagementGrows
  <1>1. CASE UNCHANGED log
    BY <1>1 DEF EngagementGrows, EngagementKept, Engagement
  <1>2. CASE Write("runs", item) \/ WriteTorn("runs", item)
    BY <1>2, ElsewhereGrows DEF Stores
  <1> QED BY <1>1, <1>2 DEF Checkpoint

LEMMA StateElsewhere ==
  ASSUME Logs, NEW w, NEW r, NEW next, AppendState(w, r, next)
  PROVE  EngagementGrows
  <1>1. CASE UNCHANGED log
    BY <1>1 DEF EngagementGrows, EngagementKept, Engagement
  <1>2. CASE Write("state", r) \/ WriteTorn("state", r)
    BY <1>2, ElsewhereGrows DEF Stores
  <1> QED BY <1>1, <1>2 DEF AppendState

\* A worker writes at most a review among these records.
LEMMA WorkersGrow ==
  ASSUME Logs, NEW w \in Workers, WorkerStep(w)
  PROVE  EngagementGrows
  <1>1. ASSUME UNCHANGED log
        PROVE  EngagementGrows
    BY <1>1 DEF EngagementGrows, EngagementKept, Engagement
  <1>2. ASSUME NEW item, NEW next, Checkpoint(w, item, next)
        PROVE  EngagementGrows
    BY <1>2, CheckpointElsewhere
  <1>3. CASE \/ ReadStart(w) \/ Audit(w) \/ Project(w) \/ ReadReview(w) \/ ReadFulfilment(w) \/ AppendedAll(w)
             \/ EvaluateEvidence(w) \/ Raise(w) \/ \E r \in Evidence : AppendRecord(w, r)
    BY <1>1, <1>3 DEF ReadStart, Audit, Project, ReadReview, ReadFulfilment, AppendedAll, EvaluateEvidence, Raise,
                      AppendRecord
  <1>4. CASE CreateRun(w) \/ ApproveReadiness(w) \/ ProposeDirection(w) \/ CheckpointReview(w)
             \/ Complete(w) \/ Incomplete(w)
    BY <1>2, <1>4 DEF CreateRun, ApproveReadiness, ProposeDirection, CheckpointReview, Complete, Incomplete
  <1>5. CASE AppendReview(w)
    <2>1. Unrelated(ReviewOf(w)) /\ "engagement" \in Stores
      BY DEF Unrelated, ReviewOf, Item, Stores
    <2>2. UNCHANGED log \/ Write("engagement", ReviewOf(w)) \/ WriteTorn("engagement", ReviewOf(w))
      BY <1>5 DEF AppendReview
    <2> QED BY <1>1, <2>1, <2>2, ElsewhereGrows
  <1>6. CASE AppendCompact(w)
    <2>1. PICK r : UNCHANGED log \/ Write("compact", r) \/ WriteTorn("compact", r)
      BY <1>6 DEF AppendCompact
    <2>2. "compact" \in Stores /\ "compact" # "engagement"
      BY DEF Stores
    <2> QED BY <1>1, <2>1, <2>2, ElsewhereGrows
  <1>7. CASE ApproveState(w)
    BY <1>7, StateElsewhere DEF ApproveState
  <1>8. CASE Materialize(w)
    BY <1>1, <1>8, StateElsewhere DEF Materialize
  <1> QED BY <1>3, <1>4, <1>5, <1>6, <1>7, <1>8 DEF WorkerStep

\* The call that decides writes its decision for the head it found, and the transition with it
\* or, when it dies, not at all.
LEMMA DecisionsGrow ==
  ASSUME Logs, NEW e, MaterializeTransition(e)
  PROVE  EngagementGrows
  <1> DEFINE eng == log["engagement"]
             q == Engagement
             dec == Item("expectation_decision", <<e>>, [previous |-> Len(eng.recs)])
  <1>1. LogStands(eng) /\ IsLog(q) /\ "engagement" \in Stores /\ eng.recs = q
    BY DEF Logs, LogStands, Stores, Engagement
  <1>2. SameKey("engagement", dec) = {}
    BY DEF MaterializeTransition
  <1>3. DecisionFor(q, dec)
    <2>1. dec.type = "expectation_decision" /\ dec.id = <<e>> /\ dec.body.previous = Len(q)
      BY DEF Item, Engagement
    <2>2. \A i \in DOMAIN q : ~(q[i].type = dec.type /\ q[i].id = dec.id)
      BY <1>2 DEF SameKey, Records, Engagement
    <2> HIDE DEF dec
    <2> QED BY <2>1, <2>2 DEF DecisionFor
  <1>4. CASE WriteTorn("engagement", dec)
    <2>1. Engagement' \in {q, Append(q, dec)}
      BY <1>1, <1>4, Writing DEF MayAppend, Engagement
    <2> HIDE DEF dec
    <2> QED BY <1>3, <2>1 DEF EngagementGrows, EngagementKept
  <1>5. CASE \E torn \in BOOLEAN :
                log' = [log EXCEPT !["engagement"] = [Appended("engagement", dec) EXCEPT !.broken = torn]]
    <2>1. PICK torn \in BOOLEAN :
                log' = [log EXCEPT !["engagement"] = [Appended("engagement", dec) EXCEPT !.broken = torn]]
      BY <1>5
    <2> DEFINE a == Appended("engagement", dec)
    <2>2. a = [recs |-> Append(q, dec), head |-> a.head, broken |-> a.broken]
      BY DEF Appended, Engagement
    <2>3. "engagement" \in DOMAIN log
      BY <1>1 DEF Logs
    <2> HIDE DEF a, dec
    <2>4. log'["engagement"] = [a EXCEPT !.broken = torn]
      BY <2>1, <2>3 DEF a
    <2>5. Engagement' = Append(q, dec)
      BY <2>2, <2>4 DEF Engagement
    <2> QED BY <1>3, <2>5 DEF EngagementGrows
  <1>6. ASSUME NEW x,
               log' = [log EXCEPT !["engagement"] =
                         [eng EXCEPT !.recs = @ \o <<dec, Item("expectation_transition", <<e>>, [candidate |-> x.body])>>,
                                     !.head = @ + 2]]
        PROVE  EngagementGrows
    <2> DEFINE tr == Item("expectation_transition", <<e>>, [candidate |-> x.body])
               p == q \o <<dec, tr>>
    <2>1. CompletedBy(dec, tr)
      BY DEF CompletedBy, Item
    <2>2. "engagement" \in DOMAIN log
      BY <1>1 DEF Logs
    <2> HIDE DEF dec, tr
    <2>3. log'["engagement"] = [eng EXCEPT !.recs = p, !.head = eng.head + 2]
      BY <1>1, <1>6, <2>2 DEF tr
    <2>4. eng = [recs |-> eng.recs, head |-> eng.head, broken |-> eng.broken]
      BY <1>1 DEF LogStands
    <2> HIDE DEF eng
    <2>5. log'["engagement"].recs = p
      <3> HIDE DEF p
      <3> QED BY <2>3, <2>4
    <2>6. Engagement' = q \o <<dec, tr>>
      BY <2>5 DEF Engagement
    <2> HIDE DEF q, p
    <2> QED BY <1>3, <2>1, <2>6 DEF EngagementGrows, q
  <1> HIDE DEF q
  <1>7. \/ WriteTorn("engagement", dec)
        \/ \E torn \in BOOLEAN :
              log' = [log EXCEPT !["engagement"] = [Appended("engagement", dec) EXCEPT !.broken = torn]]
        \/ \E x : log' = [log EXCEPT !["engagement"] =
                            [eng EXCEPT !.recs = @ \o <<dec, Item("expectation_transition", <<e>>, [candidate |-> x.body])>>,
                                        !.head = @ + 2]]
    BY DEF MaterializeTransition
  <1> QED BY <1>4, <1>5, <1>6, <1>7

\* The other owners write plans, decisions on plans, candidates and checkpoints of openings.
LEMMA ClientsGrow ==
  ASSUME Logs, ClientStep
  PROVE  EngagementGrows
  <1>1. ASSUME NEW s \in Stores, NEW r, Client(s, r), s # "engagement" \/ Unrelated(r)
        PROVE  EngagementGrows
    <2>1. Write(s, r) \/ WriteTorn(s, r)
      BY <1>1 DEF Client, OrCrash
    <2> QED BY <1>1, <2>1, ElsewhereGrows
  <1>2. {"engagement", "readiness", "execution", "quality"} \subseteq Stores
    BY DEF Stores
  <1>3. \A id, body :
          /\ Unrelated(Item("plan", id, body)) /\ Unrelated(Item("plan_decision", id, body))
          /\ Unrelated(Item("plan_activation", id, body)) /\ Unrelated(Item("opening_checkpoint", id, body))
          /\ Unrelated(Item("expectation_candidate", id, body))
    BY DEF Unrelated, Item
  <1>5. CASE \E p \in Plans, t \in Texts : ProposePlan(p, t) \/ DecidePlan(p, t) \/ ActivatePlan(p, t)
    BY <1>1, <1>2, <1>3, <1>5 DEF ProposePlan, DecidePlan, ActivatePlan
  <1>6. CASE \E c \in Chapters : ReviewOpening(c) \/ AppendReconciliation(c)
    BY <1>1, <1>2, <1>3, <1>6 DEF ReviewOpening, AppendReconciliation
  <1>7. CASE \E e \in Expectations, f \in {"absent", "open"}, t \in {"open", "paid"} : ProposeTransition(e, f, t)
    BY <1>1, <1>2, <1>3, <1>7 DEF ProposeTransition
  <1>8. CASE PersistAudit \/ \E a \in OfType("readiness", "audit") : ApproveAudit(a)
    BY <1>1, <1>2, <1>8 DEF PersistAudit, ApproveAudit
  <1>10. CASE \E c \in Chapters, q \in Texts : AppendIntent(c, q) \/ AppendReceipt(c, q)
    BY <1>1, <1>2, <1>10 DEF AppendIntent, AppendReceipt
  <1>11. CASE \E c \in Chapters, a \in Artifacts : AppendQuality(c, a)
    BY <1>1, <1>2, <1>11 DEF AppendQuality
  <1>12. CASE \E r \in Evidence : AppendEvidence(r)
    BY <1>12 DEF AppendEvidence, EngagementGrows, EngagementKept, Engagement
  <1>13. CASE \E e \in Expectations : MaterializeTransition(e)
    BY <1>13, DecisionsGrow
  <1> QED BY <1>5, <1>6, <1>7, <1>8, <1>10, <1>11, <1>12, <1>13 DEF ClientStep

\* An expectation has one transition, right after the decision that names the head it was made
\* for, whoever appends in between and wherever the call dies (reader_engagement_store.py:168).
THEOREM TransitionsAlwaysDecided == Spec => []TransitionsFollowDecisions
  <1>1. Init => TransitionsFollowDecisions
    <2> SUFFICES ASSUME Init PROVE DecidedFirst(log["engagement"].recs)
      BY DEF TransitionsFollowDecisions
    <2>1. PICK f \in Foundations :
            log = [s \in Stores |-> IF s \in DOMAIN f
                                    THEN [NoRecords EXCEPT !.recs = f[s], !.head = Len(f[s])]
                                    ELSE NoRecords]
      BY DEF Init
    <2>2. CASE "engagement" \in DOMAIN f
      <3>1. log["engagement"].recs = f["engagement"]
        BY <2>1, <2>2 DEF Stores, NoRecords
      <3> QED BY <2>2, <3>1, ProductionAssumption DEF ProductionAssumption
    <2>3. CASE "engagement" \notin DOMAIN f
      <3>1. log["engagement"].recs = <<>>
        BY <2>1, <2>3 DEF Stores, NoRecords
      <3> QED BY <3>1 DEF DecidedFirst
    <2> QED BY <2>2, <2>3
  <1>2. IInv /\ TransitionsFollowDecisions /\ [Next]_vars => TransitionsFollowDecisions'
    <2> SUFFICES ASSUME IInv, TransitionsFollowDecisions, [Next]_vars
                 PROVE  TransitionsFollowDecisions'
      OBVIOUS
    <2>1. Logs
      BY DEF IInv, Rest
    <2>2. EngagementGrows
      <3>1. CASE UNCHANGED log
        BY <3>1 DEF EngagementGrows, EngagementKept, Engagement
      <3>2. CASE \E w \in Workers : WorkerStep(w)
        BY <2>1, <3>2, WorkersGrow
      <3>3. CASE ClientStep
        BY <2>1, <3>3, ClientsGrow
      <3> QED BY <3>1, <3>2, <3>3 DEF Next, vars, Crash, RunChapter, StartRun, RecordReview, RecordFulfilment, Begin
    <2> QED BY <2>1, <2>2, EngagementFollows
  <1> QED BY <1>1, <1>2, ProductionInvariant, PTL DEF Spec
================================================================================
