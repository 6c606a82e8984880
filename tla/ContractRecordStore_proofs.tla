---------------------- MODULE ContractRecordStore_proofs ----------------------
(***************************************************************************)
(* Proofs about the contract record store for every set of records and any *)
(* number of failures: what a save returned stays and stays readable, what *)
(* a record is bound to is committed, and the store implements a log.      *)
(*                                                                         *)
(* The argument rests on one order: nothing is saved before every journal  *)
(* that was found is committed.  So at most one journal is unfinished, what *)
(* it was checked against does not change until it is committed, and files *)
(* and committed journals are the same when the next record is checked.    *)
(*                                                                         *)
(* Then the promises of the pure rules (RuleProperties), for any case: the *)
(* names and hashes of the records in that store, the forms in which a     *)
(* contract is read, preflight, revision, approval, gate and publication;  *)
(* and of the writes of a continuation run (ContinuationRules), of which a *)
(* run may die behind any.  A behaviour of the table draws one case, so    *)
(* each theorem is a fact about the rule; what is recursive in a rule (a   *)
(* row of sequences) is reasoned about by its least counterexample.        *)
(***************************************************************************)
EXTENDS ContractRecordStore, RuleProperties, ContinuationRules, FiniteSetTheorems, SequenceTheorems, NaturalsInduction,
        WellFoundedInduction, TLAPS

(***************************************************************************)
(* The inductive invariant                                                 *)
(***************************************************************************)

JobKnown == pc \in {"validate", "write", "commit"} => job \in Records

\* A file has its journal, and is there when the journal says so.
FilesJournalled == Committed \subseteq files /\ files \subseteq Journalled

\* The one unfinished journal is the job's, once the store is recovered.
Unfinished ==
    /\ OneUnfinished
    /\ pc = "validate" => Prepared = {}
    /\ pc \in {"write", "commit"} => Prepared = {job}
    /\ pc = "commit" => job \in files

\* An id says one thing, and one authorization has it.
IdsApart ==
    \A r, s \in Journalled :
        /\ SameId(r, s) => r = s
        /\ r \in Authorizations /\ s \in Authorizations /\ r.id = s.id => r = s

\* What an unfinished save was checked against is still what is committed.
PreparedBound == \A r \in Prepared : Binds(r, Committed)

IInv ==
    /\ TypeOK /\ JobKnown /\ FilesJournalled /\ Unfinished /\ IdsApart
    /\ BoundToCommitted /\ PreparedBound
    /\ returned \subseteq Committed

(***************************************************************************)
(* Lemmas about bindings and journals                                      *)
(***************************************************************************)

\* A revocation that is bound has the authorization that it takes back.
LEMMA RevocationHasTarget ==
    ASSUME NEW r, NEW present, RevocationBound(r, present)
    PROVE  \E s \in present \intersect Authorizations : s.id = r.supersedes /\ s.run = r.run
<1>1. RevocationTargets(r, present) # {}
  BY FS_EmptySet DEF RevocationBound
<1>2. PICK s \in RevocationTargets(r, present) : TRUE
  BY <1>1
<1> QED
  BY <1>2 DEF RevocationBound, RevocationTargets

\* Where authorizations have ids of their own, one of them is enough.
LEMMA TargetBinds ==
    ASSUME NEW r, NEW present, NEW s \in present \intersect Authorizations, s.id = r.supersedes, s.run = r.run,
           \A t \in present \intersect Authorizations : t.id = s.id => t = s
    PROVE  RevocationBound(r, present)
<1>1. RevocationTargets(r, present) = {s}
  BY DEF RevocationTargets
<1>2. Cardinality({s}) = 1
  BY FS_Singleton
<1> QED
  BY <1>1, <1>2 DEF RevocationBound

LEMMA Journals ==
    ASSUME TypeOK
    PROVE  /\ Prepared \subseteq Records /\ Committed \subseteq Records
           /\ Journalled = Prepared \union Committed
           /\ Prepared \intersect Committed = {}
BY DEF TypeOK, Prepared, Committed, Journalled

LEMMA JournalPrepared ==
    ASSUME TypeOK, NEW r \in Records, r \notin Committed, journal' = [journal EXCEPT ![r] = "prepared"]
    PROVE  /\ Prepared' = Prepared \union {r} /\ Committed' = Committed /\ Journalled' = Journalled \union {r}
           /\ journal' \in [Records -> {"none", "prepared", "committed"}]
BY DEF TypeOK, Prepared, Committed, Journalled

LEMMA JournalCommitted ==
    ASSUME TypeOK, NEW r \in Records, journal' = [journal EXCEPT ![r] = "committed"]
    PROVE  /\ Prepared' = Prepared \ {r} /\ Committed' = Committed \union {r} /\ Journalled' = Journalled \union {r}
           /\ journal' \in [Records -> {"none", "prepared", "committed"}]
BY DEF TypeOK, Prepared, Committed, Journalled

LEMMA JournalsStay ==
    ASSUME UNCHANGED journal
    PROVE  Prepared' = Prepared /\ Committed' = Committed /\ Journalled' = Journalled
BY DEF Prepared, Committed, Journalled

\* A recovered store has no file without its committed journal.
LEMMA RecoveredFiles ==
    ASSUME IInv, Prepared = {}
    PROVE  files = Committed /\ Journalled = Committed
BY Journals DEF IInv, FilesJournalled

\* What is bound stays bound when more is committed.
LEMMA BoundStays ==
    ASSUME IInv, Committed \subseteq Committed', NEW r \in Journalled
    PROVE  /\ r \in Dispositions => r.review \in Committed' /\ r.issue \in r.review.issues
           /\ r \in Revocations =>
                 \E s \in Committed' \intersect Authorizations : s.id = r.supersedes /\ s.run = r.run
BY DEF IInv, BoundToCommitted

(***************************************************************************)
(* Steps                                                                   *)
(***************************************************************************)

\* The steps that write nothing.
LEMMA NothingWritten ==
    ASSUME IInv, UNCHANGED <<journal, files>>,
           returned' = returned \/ (\E r \in Committed : returned' = returned \union {r}),
           job' \in Records \union {None}, crashes' \in 0..MaxCrashes,
           \/ pc' \in {"idle", "recover"}
           \/ pc' = "validate" /\ job' \in Records /\ Prepared = {}
    PROVE  IInv'
<1>1. Prepared' = Prepared /\ Committed' = Committed /\ Journalled' = Journalled
  BY JournalsStay
<1>2. TypeOK'
  BY Journals DEF IInv, TypeOK, Steps
<1>3. JobKnown' /\ FilesJournalled' /\ Unfinished'
  BY <1>1 DEF IInv, JobKnown, FilesJournalled, Unfinished, OneUnfinished
<1>4. IdsApart'
  BY <1>1 DEF IInv, IdsApart
<1>5. BoundToCommitted' /\ PreparedBound'
  BY <1>1 DEF IInv, BoundToCommitted, PreparedBound
<1>6. returned' \subseteq Committed'
  BY <1>1 DEF IInv
<1> QED
  BY <1>2, <1>3, <1>4, <1>5, <1>6 DEF IInv

\* The file of a prepared journal is published, by a save or a recovery.
LEMMA FilePublished ==
    ASSUME IInv, NEW r \in Prepared, UNCHANGED <<journal, returned, job, crashes>>, files' = files \union {r},
           \/ pc' = "recover_commit"
           \/ pc = "write" /\ pc' = "commit" /\ r = job
    PROVE  IInv'
<1>1. Prepared' = Prepared /\ Committed' = Committed /\ Journalled' = Journalled
  BY JournalsStay
<1>2. TypeOK'
  BY Journals DEF IInv, TypeOK, Steps
<1>3. FilesJournalled'
  BY <1>1, Journals DEF IInv, FilesJournalled
<1>4. JobKnown' /\ Unfinished'
  BY <1>1 DEF IInv, JobKnown, Unfinished, OneUnfinished
<1>5. IdsApart'
  BY <1>1 DEF IInv, IdsApart
<1>6. BoundToCommitted' /\ PreparedBound' /\ returned' \subseteq Committed'
  BY <1>1 DEF IInv, BoundToCommitted, PreparedBound
<1> QED
  BY <1>2, <1>3, <1>4, <1>5, <1>6 DEF IInv

\* The one unfinished journal is committed, by a save or a recovery.
LEMMA JournalFinished ==
    ASSUME IInv, NEW r \in Prepared \intersect files, journal' = [journal EXCEPT ![r] = "committed"],
           UNCHANGED <<files, crashes>>,
           returned' \in {returned, returned \union {r}},
           job' \in {job, None}, pc' \in {"recover", "idle"}
    PROVE  IInv'
<1>1. /\ Prepared' = {} /\ Committed' = Committed \union {r} /\ Journalled' = Journalled
      /\ r \in Records /\ r \in Journalled
      /\ journal' \in [Records -> {"none", "prepared", "committed"}]
  <2>1. TypeOK /\ r \in Records /\ r \in Journalled
    BY Journals DEF IInv
  <2>2. Prepared = {r}
    BY DEF IInv, Unfinished, OneUnfinished
  <2>3. /\ Prepared' = Prepared \ {r} /\ Committed' = Committed \union {r} /\ Journalled' = Journalled \union {r}
        /\ journal' \in [Records -> {"none", "prepared", "committed"}]
    BY <2>1, JournalCommitted
  <2> QED
    BY <2>1, <2>2, <2>3
<1>2. TypeOK'
  BY <1>1 DEF IInv, TypeOK, Steps
<1>3. FilesJournalled'
  BY <1>1 DEF IInv, FilesJournalled
<1>4. JobKnown' /\ Unfinished'
  BY <1>1 DEF JobKnown, Unfinished, OneUnfinished
<1>5. IdsApart'
  BY <1>1 DEF IInv, IdsApart
<1>6. BoundToCommitted'
  BY <1>1, BoundStays DEF BoundToCommitted
<1>7. PreparedBound' /\ returned' \subseteq Committed'
  BY <1>1 DEF IInv, PreparedBound
<1> QED
  BY <1>2, <1>3, <1>4, <1>5, <1>6, <1>7 DEF IInv

\* A save starts: its journal is the first thing on disk.
LEMMA PrepareStep ==
    ASSUME IInv, PrepareJournal
    PROVE  IInv'
<1>1. /\ pc = "validate" /\ ~SaveRefused(job) /\ job \notin files
      /\ journal' = [journal EXCEPT ![job] = "prepared"] /\ pc' = "write"
      /\ UNCHANGED <<files, returned, job, crashes>>
  BY DEF PrepareJournal, Goto
<1>2. Prepared = {} /\ job \in Records /\ files = Committed /\ Journalled = Committed
  BY <1>1, RecoveredFiles DEF IInv, JobKnown, Unfinished
<1>3. /\ Prepared' = {job} /\ Committed' = Committed /\ Journalled' = Committed \union {job}
      /\ journal' \in [Records -> {"none", "prepared", "committed"}]
  BY <1>1, <1>2, JournalPrepared DEF IInv
<1>4. Binds(job, Committed)
  BY <1>1, <1>2 DEF SaveRefused
<1>5. \A s \in Committed : ~SameId(job, s)
  BY <1>1, <1>2 DEF SaveRefused, Existing
<1>6. TypeOK'
  BY <1>1, <1>3 DEF IInv, TypeOK, Steps
<1>7. JobKnown' /\ FilesJournalled' /\ Unfinished'
  BY <1>1, <1>2, <1>3 DEF IInv, JobKnown, FilesJournalled, Unfinished, OneUnfinished
<1>8. IdsApart'
  <2>1. \A s \in Committed : ~SameId(s, job)
    BY <1>5 DEF SameId
  <2>2. job \in Authorizations => \A s \in Committed \intersect Authorizations : s.id # job.id
    BY <1>1, <1>2, <1>4 DEF Binds, IdUnused, Continuations
  <2>3. \A r, s \in Committed : /\ SameId(r, s) => r = s
                                /\ r \in Authorizations /\ s \in Authorizations /\ r.id = s.id => r = s
    BY <1>2 DEF IInv, IdsApart
  <2> QED
    BY <1>3, <1>5, <2>1, <2>2, <2>3 DEF IdsApart
<1>9. BoundToCommitted'
  <2>1. job \in Dispositions => job.review \in Committed /\ job.issue \in job.review.issues
    BY <1>4 DEF Binds, DispositionBound
  <2>2. job \in Revocations => \E s \in Committed \intersect Authorizations : s.id = job.supersedes /\ s.run = job.run
    BY <1>4, RevocationHasTarget DEF Binds
  <2> QED
    BY <1>2, <1>3, <2>1, <2>2, BoundStays DEF BoundToCommitted
<1>10. PreparedBound' /\ returned' \subseteq Committed'
  BY <1>1, <1>3, <1>4 DEF IInv, PreparedBound
<1> QED
  BY <1>6, <1>7, <1>8, <1>9, <1>10 DEF IInv

(***************************************************************************)
(* The invariant                                                           *)
(***************************************************************************)

LEMMA InitIInv == Init => IInv
<1> SUFFICES ASSUME Init PROVE IInv
  OBVIOUS
<1>1. Prepared = {} /\ Committed = {} /\ Journalled = {}
  BY DEF Init, Prepared, Committed, Journalled
<1>2. TypeOK
  BY RecordsAssumption DEF Init, TypeOK
<1> QED
  BY <1>1, <1>2 DEF Init, IInv, JobKnown, FilesJournalled, Unfinished, OneUnfinished, IdsApart,
                    BoundToCommitted, PreparedBound

LEMMA StepIInv == IInv /\ [Next]_vars => IInv'
<1> SUFFICES ASSUME IInv, [Next]_vars PROVE IInv'
  OBVIOUS
<1>1. job \in Records \union {None} /\ crashes \in 0..MaxCrashes
  BY DEF IInv, TypeOK
<1>2. CASE BeginRead
  BY <1>1, <1>2, NothingWritten DEF BeginRead
<1>3. ASSUME NEW r \in Records, BeginSave(r)
      PROVE  IInv'
  BY <1>1, <1>3, NothingWritten DEF BeginSave
<1>4. ASSUME NEW r \in Records, RecoverFile(r)
      PROVE  IInv'
  BY <1>4, FilePublished DEF RecoverFile, Goto
<1>5. CASE RecoverCommit
  BY <1>5, JournalFinished DEF RecoverCommit, Goto
<1>6. CASE RecoverFails \/ Refuse
  BY <1>1, <1>6, NothingWritten DEF RecoverFails, Refuse, Return
<1>7. CASE RecoverDone
  BY <1>1, <1>7, NothingWritten DEF RecoverDone, Recovered, Return, Goto
<1>8. CASE ReturnExisting
  <2>1. job \in Committed
    BY <1>8, RecoveredFiles DEF ReturnExisting, IInv, Unfinished
  <2> QED
    BY <1>1, <1>8, <2>1, NothingWritten DEF ReturnExisting, Return
<1>9. CASE PrepareJournal
  BY <1>9, PrepareStep
<1>10. CASE WriteRecord
  <2>1. job \in Prepared
    BY <1>10 DEF WriteRecord, IInv, Unfinished
  <2> QED
    BY <1>10, <2>1, FilePublished DEF WriteRecord, Goto
<1>11. CASE CommitJournal
  <2>1. job \in Prepared \intersect files
    BY <1>11 DEF CommitJournal, IInv, Unfinished
  <2> QED
    BY <1>11, <2>1, JournalFinished DEF CommitJournal, Return
<1>12. CASE Crash
  <2>1. crashes' \in 0..MaxCrashes
    BY <1>1, <1>12, RecordsAssumption DEF Crash
  <2> QED
    BY <1>12, <2>1, NothingWritten DEF Crash, Return
<1>13. CASE UNCHANGED vars
  <2>1. Prepared' = Prepared /\ Committed' = Committed /\ Journalled' = Journalled
    BY <1>13, JournalsStay DEF vars
  <2> QED
    BY <1>13, <2>1 DEF vars, IInv, TypeOK, JobKnown, FilesJournalled, Unfinished, OneUnfinished, IdsApart,
                       BoundToCommitted, PreparedBound
<1> QED
  BY <1>2, <1>3, <1>4, <1>5, <1>6, <1>7, <1>8, <1>9, <1>10, <1>11, <1>12, <1>13 DEF Next, Continue

\* The store never leaves its invariant: one save at most is unfinished, files and journals
\* agree, and an id never says two things.
THEOREM StoreInvariant == Spec => []IInv
BY InitIInv, StepIInv, PTL DEF Spec

\* The journals, the files, what was returned and the operation in progress keep their types.
THEOREM StoreTyped == Spec => []TypeOK
<1>1. IInv => TypeOK
  BY DEF IInv
<1> QED
  BY <1>1, StoreInvariant, PTL

(***************************************************************************)
(* Safety                                                                  *)
(***************************************************************************)

\* A finder that does not recover first sees exactly the committed records of a type, or fails.
THEOREM ScanAlwaysExact == Spec => []ScanExact
<1>1. ASSUME IInv, NEW kind, ~ScanFails(kind)
      PROVE  Scan(kind) = Committed \intersect kind
  <2>1. \A r \in files \intersect kind : r \in Records /\ journal[r] = "committed"
    BY <1>1 DEF ScanFails, Readable, IInv, TypeOK
  <2>2. files \intersect kind \subseteq Committed
    BY <2>1 DEF Committed
  <2> QED
    BY <1>1, <2>2 DEF IInv, FilesJournalled, Scan
<1>2. IInv => ScanExact
  BY <1>1 DEF ScanExact
<1> QED
  BY <1>2, StoreInvariant, PTL

\* Among what is there no other authorization has the id that a revocation takes back.
LEMMA OneTarget ==
    ASSUME IInv, NEW s \in files \intersect Authorizations, NEW t \in files \intersect Authorizations, s.id = t.id
    PROVE  s = t
BY DEF IInv, FilesJournalled, IdsApart

\* What a record refers to is committed before it, and what a returned revocation takes back
\* is not found again, for any run.
THEOREM BindingsAlwaysHold == Spec => []BindingsHold
<1>1. ASSUME IInv, NEW r \in returned \intersect Revocations, NEW run \in Runs,
             NEW s \in FoundAuthorization(r.supersedes, run)
      PROVE  FALSE
  <2>1. r \in files /\ r \in Journalled
    BY <1>1 DEF IInv, FilesJournalled
  <2>2. PICK t \in Committed \intersect Authorizations : t.id = r.supersedes /\ t.run = r.run
    BY <1>1, <2>1 DEF IInv, BoundToCommitted
  <2>3. s \in files \intersect Authorizations /\ s.id = r.supersedes /\ s.run = run
    BY <1>1 DEF FoundAuthorization, Scan
  <2>4. s = t
    BY <1>1, <2>2, <2>3, OneTarget DEF IInv, FilesJournalled
  <2> QED
    BY <1>1, <2>1, <2>2, <2>3, <2>4 DEF FoundAuthorization, Scan
<1>2. IInv => BindingsHold
  BY <1>1 DEF IInv, BindingsHold, RevocationEffective
<1> QED
  BY <1>2, StoreInvariant, PTL

\* Whatever is journalled is bound among the files, but for an authorization's id.
LEMMA FilesBind ==
    ASSUME IInv, NEW r \in Journalled
    PROVE  /\ r \in Dispositions => DispositionBound(r, files)
           /\ r \in Revocations => RevocationBound(r, files)
<1>1. r \in Dispositions => r.review \in files /\ r.issue \in r.review.issues
  BY DEF IInv, BoundToCommitted, FilesJournalled
<1>2. ASSUME r \in Revocations
      PROVE  RevocationBound(r, files)
  <2>1. PICK s \in files \intersect Authorizations : s.id = r.supersedes /\ s.run = r.run
    BY <1>2 DEF IInv, BoundToCommitted, FilesJournalled
  <2> QED
    BY <2>1, OneTarget, TargetBinds
<1> QED
  BY <1>1, <1>2 DEF DispositionBound

\* A record whose id a save returned stays there and committed whatever fails later, and is
\* readable as soon as no save is unfinished.
THEOREM ReturnedAlwaysSurvives == Spec => []ReturnedSurvives
<1>1. ASSUME IInv, NEW r \in returned
      PROVE  r \in files /\ r \in Committed /\ (Prepared = {} => Readable(r))
  <2>1. r \in Committed /\ r \in files /\ r \in Journalled
    BY <1>1 DEF IInv, FilesJournalled
  <2>2. ASSUME Prepared = {}
        PROVE  Readable(r)
    BY <1>1, <2>1, <2>2, FilesBind, RecoveredFiles DEF Readable, Committed
  <2> QED
    BY <2>1, <2>2
<1>2. IInv => ReturnedSurvives
  BY <1>1 DEF ReturnedSurvives
<1> QED
  BY <1>2, StoreInvariant, PTL

\* A recovery rejects nothing that a save accepted, whatever failed in between, but an
\* authorization whose id a revocation took.
THEOREM RejectedOnlyOnTakenId == Spec => []RejectedOnlyIfIdTaken
<1>1. ASSUME IInv, NEW r \in Journalled, RecoveryRejects(r)
      PROVE  r \in Authorizations /\ IdTaken(r)
  <2>1. ~\E s \in files : SameId(r, s) /\ s # r
    BY <1>1 DEF IInv, FilesJournalled, IdsApart
  <2>2. ~(r \notin files /\ journal[r] = "committed")
    BY <1>1 DEF IInv, FilesJournalled, Committed, Journalled
  <2>3. ~Binds(r, files)
    BY <1>1, <2>1, <2>2 DEF RecoveryRejects
  <2>4. r \in Authorizations /\ ~IdUnused(r, files)
    BY <1>1, <2>3, FilesBind DEF Binds
  <2>5. PICK s \in files \intersect Continuations : s.id = r.id /\ s # r
    BY <2>4 DEF IdUnused
  <2>6. s \notin Authorizations /\ s \in Journalled
    BY <1>1, <2>4, <2>5 DEF IInv, FilesJournalled, IdsApart
  <2> QED
    BY <2>4, <2>5, <2>6 DEF IdTaken, Continuations
<1>2. IInv => RejectedOnlyIfIdTaken
  BY <1>1 DEF RejectedOnlyIfIdTaken
<1> QED
  BY <1>2, StoreInvariant, PTL

(***************************************************************************)
(* The store implements a log                                              *)
(***************************************************************************)

\* A journal that is committed adds its record to the log.
LEMMA CommitAdds ==
    ASSUME IInv, NEW r \in Prepared, journal' = [journal EXCEPT ![r] = "committed"]
    PROVE  Log!Next
<1>1. Committed' = Committed \union {r} /\ r \in Records /\ r \in Journalled /\ r \notin Committed
  BY Journals, JournalCommitted DEF IInv
<1>2. Binds(r, Committed)
  BY DEF IInv, PreparedBound
<1>3. \A s \in Committed : ~SameId(r, s)
  BY <1>1, Journals DEF IInv, IdsApart
<1>4. Log!Add(r)
  BY <1>1, <1>2, <1>3 DEF Log!Add
<1> QED
  BY <1>1, <1>4 DEF Log!Next

\* Every write but the commit of a journal leaves the log as it is.
LEMMA StepAdds == IInv /\ [Next]_vars => [Log!Next]_Committed
<1> SUFFICES ASSUME IInv, [Next]_vars PROVE [Log!Next]_Committed
  OBVIOUS
<1>1. CASE journal' = journal
  BY <1>1, JournalsStay
<1>2. CASE RecoverCommit
  BY <1>2, CommitAdds DEF RecoverCommit
<1>3. CASE CommitJournal
  <2>1. job \in Prepared
    BY <1>3 DEF CommitJournal, IInv, Unfinished
  <2> QED
    BY <1>3, <2>1, CommitAdds DEF CommitJournal
<1>4. CASE PrepareJournal
  <2>1. job \in Records /\ job \notin Committed
    BY <1>4 DEF PrepareJournal, IInv, JobKnown, FilesJournalled
  <2>2. Committed' = Committed
    BY <1>4, <2>1, JournalPrepared DEF PrepareJournal, IInv
  <2> QED
    BY <2>2
<1> QED
  BY <1>1, <1>2, <1>3, <1>4
     DEF Next, Continue, BeginRead, BeginSave, RecoverFile, RecoverFails, RecoverDone, Refuse, ReturnExisting,
         WriteRecord, Crash, vars

\* The committed records are a log that only grows, in which an identity is never reused for
\* something else and a record comes after what it is bound to.
THEOREM StoreImplementsLog == Spec => ImplementsRecordLog
<1>1. Init => Log!Init
  BY DEF Init, Log!Init, Committed
<1> QED
  BY <1>1, StepAdds, StoreInvariant, PTL DEF Spec, ImplementsRecordLog, Log!Spec

\* A set of natural numbers that is not empty has a least element.
LEMMA LeastNumber ==
  ASSUME NEW T, T \subseteq Nat, T # {}
  PROVE  \E n \in T : \A m \in T : n <= m
  <1> DEFINE R == {ss \in Nat \X Nat : ss[1] < ss[2]}
  <1>1. IsWellFoundedOn(R, Nat)
    BY NatLessThanWellFounded DEF OpToRel
  <1>2. \A x, y \in Nat : x < y => <<x, y>> \in R
    OBVIOUS
  <1> HIDE DEF R
  <1>3. PICK x \in T : \A y \in T : ~(<<y, x>> \in R)
    BY <1>1, WFMin
  <1>4. ASSUME NEW y \in T PROVE x <= y
    <2>1. x \in Nat /\ y \in Nat
      OBVIOUS
    <2>2. ~(y < x)
      BY <1>2, <1>3, <2>1
    <2> QED BY <2>1, <2>2
  <1> QED BY <1>4

\* What goes wrong at some number goes wrong first at a number of which each earlier one is right.
LEMMA FirstFailure ==
  ASSUME NEW Bad, Bad \subseteq Nat, Bad # {}, 0 \notin Bad
  PROVE  \E k \in Bad : k \in Nat /\ k # 0 /\ k - 1 \in Nat /\ k - 1 \notin Bad
  <1>1. PICK k \in Bad : \A m \in Bad : k <= m
    BY LeastNumber
  <1>2. k \in Nat /\ k # 0
    OBVIOUS
  <1>3. k - 1 \in Nat /\ ~(k <= k - 1)
    BY <1>2
  <1>4. k - 1 \notin Bad
    BY <1>1, <1>3
  <1> QED BY <1>2, <1>3, <1>4

------------------------------------------------------------------------------
(* Sequences of sequences in a row *)

FlattenStep(f, ss, i) == IF i = 1 THEN ss[i] ELSE f[i - 1] \o ss[i]
Flattens(f, S, ss, k) == f \in [1 .. k -> Seq(S)] /\ \A i \in 1 .. k : f[i] = FlattenStep(f, ss, i)

\* The rows of which FlattenSeq takes the last are there: what is defined by recursion exists.
LEMMA FlattenThere ==
  ASSUME NEW S, NEW ss \in Seq(Seq(S))
  PROVE  \E g : Flattens(g, S, ss, Len(ss))
  <1> DEFINE n == Len(ss)
             Bad == {k \in 0 .. n : ~ \E g : Flattens(g, S, ss, k)}
  <1>1. n \in Nat /\ \A i \in 1 .. n : ss[i] \in Seq(S)
    OBVIOUS
  <1> HIDE DEF n
  <1>2. Bad = {}
    <2> SUFFICES ASSUME Bad # {} PROVE FALSE
      OBVIOUS
    <2>1. 0 \notin Bad
      <3>1. Flattens([i \in {} |-> <<>>], S, ss, 0)
        BY DEF Flattens
      <3> QED BY <3>1
    <2>2. PICK k \in Bad : k \in Nat /\ k # 0 /\ k - 1 \in Nat /\ k - 1 \notin Bad
      <3>1. Bad \subseteq Nat
        OBVIOUS
      <3> HIDE DEF Bad
      <3> QED BY <2>1, <3>1, FirstFailure
    <2>3. k \in 1 .. n /\ k - 1 \in 0 .. n
      BY <2>2, <1>1
    <2>4. PICK g : Flattens(g, S, ss, k - 1)
      BY <2>2, <2>3
    <2> DEFINE new == IF k = 1 THEN ss[k] ELSE g[k - 1] \o ss[k]
               h == [i \in 1 .. k |-> IF i = k THEN new ELSE g[i]]
    <2>5. \A i \in 1 .. k : i # k => i \in 1 .. k - 1
      BY <2>2
    <2>6. new \in Seq(S)
      <3>1. ss[k] \in Seq(S)
        BY <1>1, <2>3
      <3>2. CASE k # 1
        <4>1. k - 1 \in 1 .. k - 1
          BY <2>2, <3>2
        <4>2. g[k - 1] \in Seq(S)
          BY <2>4, <4>1 DEF Flattens
        <4>3. g[k - 1] \o ss[k] \in Seq(S)
          BY <3>1, <4>2
        <4> QED BY <3>2, <4>3
      <3> QED BY <3>1, <3>2
    <2> HIDE DEF new
    <2>7. h \in [1 .. k -> Seq(S)]
      <3>1. \A i \in 1 .. k : (IF i = k THEN new ELSE g[i]) \in Seq(S)
        BY <2>4, <2>5, <2>6 DEF Flattens
      <3> QED BY <3>1
    <2>8. ASSUME NEW i \in 1 .. k PROVE h[i] = FlattenStep(h, ss, i)
      <3>1. i # 1 => i - 1 \in 1 .. k /\ i - 1 # k
        BY <2>2
      <3>2. i # 1 => h[i - 1] = g[i - 1]
        BY <3>1
      <3>3. CASE i = k
        BY <3>2, <3>3 DEF new, FlattenStep
      <3>4. CASE i # k
        <4>1. h[i] = g[i] /\ g[i] = FlattenStep(g, ss, i)
          BY <2>4, <2>5, <3>4 DEF Flattens
        <4> HIDE DEF h
        <4> QED BY <3>2, <4>1 DEF FlattenStep
      <3> QED BY <3>3, <3>4
    <2>9. Flattens(h, S, ss, k)
      <3> HIDE DEF h
      <3> QED BY <2>7, <2>8 DEF Flattens
    <2> QED BY <2>2, <2>9
  <1>3. n \in 0 .. n
    BY <1>1
  <1> QED BY <1>2, <1>3 DEF n

\* FlattenSeq takes the last of these rows.
LEMMA FlattenFolds ==
  ASSUME NEW S, NEW ss \in Seq(Seq(S)), Len(ss) # 0
  PROVE  \E f : Flattens(f, S, ss, Len(ss)) /\ FlattenSeq(ss) = f[Len(ss)]
  <1> DEFINE n == Len(ss)
             Is(h) == h = [i \in 1 .. n |-> FlattenStep(h, ss, i)]
             f == CHOOSE h : Is(h)
  <1>1. PICK g : Flattens(g, S, ss, n)
    BY FlattenThere
  <1>2. Is(g)
    <2>1. g = [i \in 1 .. n |-> g[i]]
      BY <1>1 DEF Flattens
    <2> QED BY <1>1, <2>1 DEF Flattens
  <1>3. Is(f)
    BY <1>2
  <1>4. FlattenSeq(ss) = f[n]
    BY DEF FlattenSeq, FlattenStep
  <1>5. n \in Nat /\ \A i \in 1 .. n : ss[i] \in Seq(S)
    OBVIOUS
  <1> HIDE DEF f, n
  <1>6. \A i \in 1 .. n : f[i] = FlattenStep(f, ss, i)
    BY <1>3
  <1> DEFINE Bad == {i \in 1 .. n : f[i] \notin Seq(S)}
  <1>7. Bad = {}
    <2> SUFFICES ASSUME Bad # {} PROVE FALSE
      OBVIOUS
    <2>1. PICK k \in Bad : k \in Nat /\ k # 0 /\ k - 1 \in Nat /\ k - 1 \notin Bad
      <3>1. Bad \subseteq Nat /\ 0 \notin Bad
        OBVIOUS
      <3> HIDE DEF Bad
      <3> QED BY <3>1, FirstFailure
    <2>2. k \in 1 .. n /\ f[k] \notin Seq(S) /\ ss[k] \in Seq(S)
      BY <1>5
    <2>3. k # 1 => f[k - 1] \in Seq(S)
      BY <2>1, <2>2, <1>5
    <2>4. CASE k = 1
      BY <2>2, <2>4, <1>6 DEF FlattenStep
    <2>5. CASE k # 1
      <3>1. f[k - 1] \o ss[k] \in Seq(S)
        BY <2>2, <2>3, <2>5
      <3> QED BY <2>2, <2>5, <3>1, <1>6 DEF FlattenStep
    <2> QED BY <2>4, <2>5
  <1>8. Flattens(f, S, ss, n)
    <2>1. f = [i \in 1 .. n |-> f[i]]
      BY <1>3, <1>6
    <2> QED BY <1>6, <1>7, <2>1 DEF Flattens
  <1> QED BY <1>4, <1>8 DEF n

\* Where the elements of two sequences are in their concatenation.
LEMMA TwoInARow ==
  ASSUME NEW S, NEW a \in Seq(S), NEW b \in Seq(S)
  PROVE  /\ Len(a \o b) = Len(a) + Len(b)
         /\ \A m \in 1 .. Len(a) : m \in 1 .. Len(a \o b) /\ (a \o b)[m] = a[m]
         /\ \A m \in 1 .. Len(b) : Len(a) + m \in 1 .. Len(a \o b) /\ (a \o b)[Len(a) + m] = b[m]
  OBVIOUS

\* Where each of the sequences begins in the row: behind off[i] elements.
Offsets(off, ss, row) ==
    /\ off \in [1 .. Len(ss) + 1 -> Nat] /\ off[1] = 0 /\ off[Len(ss) + 1] = Len(row)
    /\ \A i \in 1 .. Len(ss) : off[i + 1] = off[i] + Len(ss[i])
    /\ \A i \in 1 .. Len(ss) : \A j \in 1 .. Len(ss[i]) :
          off[i] + j \in 1 .. Len(row) /\ row[off[i] + j] = ss[i][j]

\* What FlattenSeq gives: the sequences in a row, each where the ones before it end.
LEMMA FlattenRows ==
  ASSUME NEW S, NEW ss \in Seq(Seq(S))
  PROVE  FlattenSeq(ss) \in Seq(S) /\ \E off : Offsets(off, ss, FlattenSeq(ss))
  <1> DEFINE n == Len(ss)
  <1>1. n \in Nat /\ \A i \in 1 .. n : ss[i] \in Seq(S) /\ Len(ss[i]) \in Nat
    OBVIOUS
  <1>2. CASE n = 0
    <2>1. FlattenSeq(ss) = ss /\ ss = <<>>
      BY <1>2 DEF FlattenSeq
    <2>2. Offsets([i \in 1 .. 1 |-> 0], ss, ss)
      BY <2>1 DEF Offsets
    <2> QED BY <2>1, <2>2
  <1>3. CASE n # 0
    <2>1. PICK f : Flattens(f, S, ss, n) /\ FlattenSeq(ss) = f[n]
      BY <1>3, FlattenFolds
    <2> DEFINE off == [i \in 1 .. n + 1 |-> IF i = 1 THEN 0 ELSE Len(f[i - 1])]
               Right(k) == \A i \in 1 .. k : \A j \in 1 .. Len(ss[i]) :
                              off[i] + j \in 1 .. Len(f[k]) /\ f[k][off[i] + j] = ss[i][j]
               Bad == {k \in 1 .. n : ~Right(k)}
    <2> HIDE DEF n
    <2>2. \A i \in 1 .. n : f[i] \in Seq(S) /\ Len(f[i]) \in Nat /\ f[i] = FlattenStep(f, ss, i)
      BY <2>1 DEF Flattens
    <2>3. off \in [1 .. n + 1 -> Nat] /\ off[1] = 0 /\ off[n + 1] = Len(f[n])
      <3>1. \A i \in 1 .. n + 1 : (IF i = 1 THEN 0 ELSE Len(f[i - 1])) \in Nat
        <4>1. \A i \in 1 .. n + 1 : i # 1 => i - 1 \in 1 .. n
          BY <1>1
        <4> QED BY <2>2, <4>1
      <3>2. 1 \in 1 .. n + 1 /\ n + 1 \in 1 .. n + 1 /\ n + 1 # 1 /\ (n + 1) - 1 = n
        BY <1>1, <1>3
      <3> QED BY <3>1, <3>2
    <2>4. ASSUME NEW i \in 1 .. n PROVE off[i + 1] = off[i] + Len(ss[i]) /\ off[i + 1] = Len(f[i])
      <3>1. i + 1 \in 1 .. n + 1 /\ i + 1 # 1 /\ (i + 1) - 1 = i /\ i \in 1 .. n + 1
        BY <1>1
      <3>2. off[i + 1] = Len(f[i])
        BY <3>1
      <3>3. CASE i = 1
        BY <2>2, <2>3, <3>2, <3>3, <1>1 DEF FlattenStep
      <3>4. CASE i # 1
        <4>1. i - 1 \in 1 .. n
          BY <3>4, <1>1
        <4>2. off[i] = Len(f[i - 1])
          BY <3>1, <3>4
        <4>3. f[i] = f[i - 1] \o ss[i]
          BY <2>2, <3>4 DEF FlattenStep
        <4>4. Len(f[i]) = Len(f[i - 1]) + Len(ss[i])
          BY <4>1, <4>3, <2>2, <1>1
        <4> HIDE DEF off
        <4> QED BY <3>2, <4>2, <4>4
      <3> QED BY <3>2, <3>3, <3>4
    <2> HIDE DEF off
    <2>5. Bad = {}
      <3> SUFFICES ASSUME Bad # {} PROVE FALSE
        OBVIOUS
      <3>1. PICK k \in Bad : k \in Nat /\ k # 0 /\ k - 1 \in Nat /\ k - 1 \notin Bad
        <4>1. Bad \subseteq Nat /\ 0 \notin Bad
          BY <1>1
        <4> HIDE DEF Bad
        <4> QED BY <4>1, FirstFailure
      <3>2. k \in 1 .. n /\ ~Right(k)
        OBVIOUS
      <3>3. k # 1 => k - 1 \in 1 .. n /\ Right(k - 1)
        <4>1. k # 1 => k - 1 \in 1 .. n
          BY <3>1, <3>2, <1>1
        <4> QED BY <4>1, <3>1
      <3> HIDE DEF Bad
      <3>4. ASSUME NEW i \in 1 .. k, NEW j \in 1 .. Len(ss[i])
            PROVE  off[i] + j \in 1 .. Len(f[k]) /\ f[k][off[i] + j] = ss[i][j]
        <4>1. i \in 1 .. n /\ off[i] \in Nat /\ ss[i] \in Seq(S) /\ j \in Nat
          <5>1. i \in 1 .. n /\ i \in 1 .. n + 1
            BY <3>2, <1>1
          <5>2. off[i] \in Nat
            BY <5>1, <2>3
          <5>3. ss[i] \in Seq(S) /\ Len(ss[i]) \in Nat
            BY <5>1, <1>1
          <5> QED BY <5>1, <5>2, <5>3
        <4>2. CASE k = 1
          <5>1. f[k] = ss[1] /\ i = 1
            BY <4>2, <3>2, <2>2 DEF FlattenStep
          <5> QED BY <5>1, <4>1, <2>3
        <4>3. CASE k # 1
          <5>1. f[k] = f[k - 1] \o ss[k] /\ f[k - 1] \in Seq(S) /\ ss[k] \in Seq(S)
            BY <4>3, <3>2, <3>3, <2>2, <1>1 DEF FlattenStep
          <5>2. CASE i # k
            <6>1. i \in 1 .. k - 1
              BY <5>2, <3>2, <1>1
            <6>2. off[i] + j \in 1 .. Len(f[k - 1]) /\ f[k - 1][off[i] + j] = ss[i][j]
              BY <6>1, <3>3, <4>3
            <6> DEFINE a == f[k - 1] b == ss[k] m == off[i] + j
            <6>3. a \in Seq(S) /\ b \in Seq(S) /\ m \in 1 .. Len(a) /\ f[k] = a \o b /\ a[m] = ss[i][j]
              BY <5>1, <6>2
            <6> HIDE DEF a, b, m
            <6>4. m \in 1 .. Len(a \o b) /\ (a \o b)[m] = a[m]
              BY <6>3, TwoInARow
            <6> QED BY <6>3, <6>4 DEF m
          <5>3. CASE i = k
            <6>1. off[i] = Len(f[k - 1])
              <7>1. (k - 1) + 1 = k
                BY <3>1
              <7> QED BY <7>1, <5>3, <3>3, <4>3, <2>4
            <6>2. j \in 1 .. Len(ss[k])
              BY <5>3
            <6> DEFINE a == f[k - 1] b == ss[k]
            <6>3. /\ a \in Seq(S) /\ b \in Seq(S) /\ j \in 1 .. Len(b) /\ f[k] = a \o b
                  /\ b[j] = ss[i][j] /\ off[i] = Len(a)
              BY <5>1, <5>3, <6>1, <6>2
            <6> HIDE DEF a, b
            <6>4. Len(a) + j \in 1 .. Len(a \o b) /\ (a \o b)[Len(a) + j] = b[j]
              <7>1. a \in Seq(S) /\ b \in Seq(S) /\ j \in 1 .. Len(b)
                BY <6>3
              <7> QED BY ONLY <7>1, SMT
            <6> QED BY <6>3, <6>4
          <5> QED BY <5>2, <5>3
        <4> QED BY <4>2, <4>3
      <3> QED BY <3>2, <3>4
    <2>6. n \in 1 .. n
      BY <1>1, <1>3
    <2>7. Right(n)
      BY <2>5, <2>6
    <2>8. Offsets(off, ss, f[n])
      BY <2>3, <2>4, <2>7 DEF Offsets, n
    <2> QED BY <2>1, <2>2, <2>6, <2>8
  <1> QED BY <1>2, <1>3
------------------------------------------------------------------------------
(* Lists of fragments *)

\* A list has a length, and its elements are its range.
LEMMA ListHasLength ==
  ASSUME NEW s, IsList(s)
  PROVE  Len(s) \in Nat /\ DOMAIN s = 1 .. Len(s) /\ \A i \in DOMAIN s : s[i] \in Range(s)
  BY DEF IsList, Range

\* A list is one of any set that has its elements.
LEMMA WiderList ==
  ASSUME NEW s, IsList(s), NEW S, \A i \in DOMAIN s : s[i] \in S
  PROVE  s \in Seq(S)
  <1>1. Len(s) \in Nat /\ DOMAIN s = 1 .. Len(s)
    BY ListHasLength
  <1>2. s = [i \in 1 .. Len(s) |-> s[i]]
    BY <1>1 DEF IsList
  <1> QED BY <1>1, <1>2

\* A function on the positions of a list is a list of the same length.
LEMMA MappedList ==
  ASSUME NEW s, IsList(s), NEW t, DOMAIN t = DOMAIN s, t = [i \in DOMAIN s |-> t[i]]
  PROVE  IsList(t) /\ Len(t) = Len(s)
  <1>1. Len(s) \in Nat /\ DOMAIN s = 1 .. Len(s)
    BY ListHasLength
  <1>2. \A i \in 1 .. Len(s) : t[i] \in Range(t)
    BY <1>1 DEF Range
  <1> DEFINE T == Range(t) n == Len(s)
  <1> HIDE DEF T, n
  <1>3. n \in Nat /\ t = [i \in 1 .. n |-> t[i]] /\ \A i \in 1 .. n : t[i] \in T
    BY <1>1, <1>2 DEF n, T
  <1>4. t \in Seq(T) /\ Len(t) = n
    BY <1>3
  <1> QED BY <1>4 DEF IsList, T, n

\* Lists of fragments in a row are a list of fragments.
LEMMA FragmentsInARow ==
  ASSUME NEW rows, IsList(rows), \A i \in DOMAIN rows : IsFragments(rows[i])
  PROVE  IsFragments(FlattenSeq(rows)) /\ \E off : Offsets(off, rows, FlattenSeq(rows))
  <1> DEFINE S == {f \in UNION {Range(rows[i]) : i \in DOMAIN rows} : f.chapter \in Int /\ f.ordinal \in Int}
  <1>1. \A i \in DOMAIN rows : \A j \in DOMAIN rows[i] : rows[i][j] \in S
    BY DEF IsFragments, Range
  <1> HIDE DEF S
  <1>2. \A i \in DOMAIN rows : rows[i] \in Seq(S)
    <2> TAKE i \in DOMAIN rows
    <2> DEFINE r == rows[i]
    <2>1. IsList(r) /\ \A j \in DOMAIN r : r[j] \in S
      BY <1>1 DEF IsFragments
    <2> HIDE DEF r
    <2>2. r \in Seq(S)
      BY <2>1, WiderList
    <2> QED BY <2>2 DEF r
  <1>3. rows \in Seq(Seq(S))
    <2> DEFINE T == Seq(S)
    <2> HIDE DEF T
    <2>1. rows \in Seq(T)
      BY <1>2, WiderList DEF T
    <2> QED BY <2>1 DEF T
  <1>4. FlattenSeq(rows) \in Seq(S) /\ \E off : Offsets(off, rows, FlattenSeq(rows))
    BY <1>3, FlattenRows
  <1> DEFINE row == FlattenSeq(rows)
  <1>5. row \in Seq(S)
    BY <1>4
  <1> HIDE DEF row
  <1>6. \A i \in DOMAIN row : row[i] \in S
    BY <1>5
  <1>7. IsList(row)
    <2> DEFINE T == Range(row)
    <2>1. \A i \in 1 .. Len(row) : row[i] \in T
      BY <1>5 DEF Range
    <2> HIDE DEF T
    <2>2. row \in Seq(T)
      <3>1. Len(row) \in Nat /\ row = [i \in 1 .. Len(row) |-> row[i]]
        BY <1>5
      <3> QED BY <2>1, <3>1
    <2> QED BY <2>2 DEF T, IsList
  <1>8. \A f \in S : f.chapter \in Int /\ f.ordinal \in Int
    BY DEF S
  <1>9. IsFragments(row)
    BY <1>6, <1>7, <1>8 DEF IsFragments
  <1> QED BY <1>4, <1>9 DEF row

\* A later sequence begins behind an earlier one.
LEMMA OffsetsGrow ==
  ASSUME NEW off, NEW rows, NEW row, IsList(rows), Offsets(off, rows, row),
         \A k \in DOMAIN rows : Len(rows[k]) \in Nat,
         NEW i \in DOMAIN rows, NEW j \in DOMAIN rows, i < j
  PROVE  off[i] + Len(rows[i]) <= off[j]
  <1> DEFINE n == Len(rows)
             Bad == {k \in 1 .. n : i < k /\ ~(off[i] + Len(rows[i]) <= off[k])}
  <1>1. n \in Nat /\ DOMAIN rows = 1 .. n
    BY ListHasLength
  <1>2. off \in [1 .. n + 1 -> Nat] /\ \A k \in 1 .. n : off[k + 1] = off[k] + Len(rows[k])
    BY DEF Offsets
  <1> HIDE DEF n
  <1>3. Bad = {}
    <2> SUFFICES ASSUME Bad # {} PROVE FALSE
      OBVIOUS
    <2>1. PICK k \in Bad : k \in Nat /\ k # 0 /\ k - 1 \in Nat /\ k - 1 \notin Bad
      <3>1. Bad \subseteq Nat /\ 0 \notin Bad
        BY <1>1
      <3> HIDE DEF Bad
      <3> QED BY <3>1, FirstFailure
    <2>2. k \in 1 .. n /\ i < k /\ ~(off[i] + Len(rows[i]) <= off[k])
      OBVIOUS
    <2>3. k - 1 \in 1 .. n /\ (k - 1) + 1 = k /\ i \in 1 .. n
      BY <2>1, <2>2, <1>1
    <2>4. off[k] = off[k - 1] + Len(rows[k - 1]) /\ off[k - 1] \in Nat /\ off[i] \in Nat /\ off[k] \in Nat
      <3>1. \A m \in 1 .. n : m \in 1 .. n + 1
        BY <1>1
      <3>2. \A m \in 1 .. n : off[m] \in Nat
        BY <1>2, <3>1
      <3>3. off[(k - 1) + 1] = off[k - 1] + Len(rows[k - 1])
        BY <1>2, <2>3
      <3> QED BY <2>2, <2>3, <3>2, <3>3
    <2>5. Len(rows[k - 1]) \in Nat /\ Len(rows[i]) \in Nat
      BY <2>3, <1>1
    <2>6. CASE k - 1 = i
      BY <2>2, <2>4, <2>5, <2>6
    <2>7. CASE k - 1 # i
      <3>1. i < k - 1
        BY <2>2, <2>3, <2>7
      <3>2. off[i] + Len(rows[i]) <= off[k - 1]
        BY <2>1, <2>3, <3>1
      <3> QED BY <2>2, <2>4, <2>5, <3>2
    <2> QED BY <2>6, <2>7
  <1> QED BY <1>1, <1>3

------------------------------------------------------------------------------
(* The rules: a behaviour of the table draws one case *)

\* No case, or one of the table.
Drawn == case = NoCase \/ \E i \in DOMAIN Cases : case \in Cases[i]

\* The case that a behaviour of the table is about is one of the table.
LEMMA CaseIsDrawn == TableSpec => []Drawn
  <1>1. TableInit => Drawn
    BY DEF TableInit, Drawn
  <1>2. Drawn /\ [Draw]_case => Drawn'
    BY DEF Drawn, Draw
  <1>3. QED
    BY <1>1, <1>2, PTL DEF TableSpec

------------------------------------------------------------------------------
(* The length policy *)

\* Of a chapter of any length under any valid policy: the review (review_publication_chapter) asks
\* for a disposition exactly where the store (append_decision) takes one, and is satisfied by it.
THEOREM DispositionsAreAvailable == TableSpec => []DispositionAvailable
  <1>1. Drawn => DispositionAvailable
    <2> SUFFICES ASSUME Drawn, case.about = "length" PROVE ReviewAgreesWithStore(case.count, case.policy)
      BY DEF DispositionAvailable, About
    <2>1. LengthTyped(case)
      BY CasesAssumption DEF Drawn, NoCase
    <2> QED BY <2>1 DEF LengthTyped, ReviewAgreesWithStore, Interval, LengthIssue, Warnings, ValidPolicy
  <1>2. QED
    BY <1>1, CaseIsDrawn, PTL

------------------------------------------------------------------------------
(* The preflight *)

\* A reference without an issue names a source that stands and says what is expected of it.
LEMMA SourceStands ==
  ASSUME NEW ref, NEW path, NEW sources, NEW expected, expected # No,
         RefIssue(ref, path, sources, expected, TRUE) = No,
         Edition(ref.edition), \A s \in DOMAIN sources : Edition(sources[s].edition)
  PROVE  /\ ref.path = path /\ ref.source \in DOMAIN sources
         /\ sources[ref.source].edition = ref.edition
         /\ At(sources[ref.source].values, path) = expected
  <1> DEFINE source == sources[ref.source]
  <1>1. /\ ref.path = path /\ ref.source \in DOMAIN sources
        /\ source.edition[1] = ref.edition[1] /\ source.edition[2] = ref.edition[2]
        /\ ~ValueMismatch(ref, source, expected)
    BY DEF RefIssue, No
  <1>2. source.edition = ref.edition
    BY <1>1 DEF Edition
  <1> QED BY <1>1, <1>2 DEF ValueMismatch

\* What the preflight lets through is grounded in the sources it was shown.
LEMMA PreflightGrounds ==
  ASSUME NEW c, NEW sources, NEW analysis, PreflightReady(c, sources, analysis),
         \A path \in DOMAIN c.bindings : \A ref \in c.bindings[path] : Edition(ref.edition),
         \A s \in DOMAIN sources : Edition(sources[s].edition)
  PROVE  /\ \A path \in DOMAIN c.causal :
              \E ref \in RefsAt(c, path) :
                 /\ ref.role = "intent" /\ ref.source \in DOMAIN sources
                 /\ LET source == sources[ref.source] IN
                    /\ source.edition = ref.edition
                    /\ At(source.values, path) = c.causal[path]
         /\ \A r \in c.candidates : r.impact = "yes" => \E path \in r.inputs : At(c.causal, path) = r.value
         /\ \A r \in c.candidates : r.impact # "undetermined"
  <1> DEFINE required == RequiredRoles(c)
  <1>1. ASSUME NEW path \in DOMAIN c.causal
        PROVE  \E ref \in RefsAt(c, path) :
                 /\ ref.role = "intent" /\ ref.source \in DOMAIN sources
                 /\ LET source == sources[ref.source] IN
                    /\ source.edition = ref.edition
                    /\ At(source.values, path) = c.causal[path]
    <2>1. path \in DOMAIN required /\ required[path] = Role("intent", c.causal[path])
      BY DEF RequiredRoles
    <2>2. required[path].role = "intent" /\ required[path].value = c.causal[path]
      BY <2>1 DEF Role
    <2> HIDE DEF required
    <2>3. /\ {ref \in RefsAt(c, path) : ref.role = "intent"} # {}
          /\ \A ref \in RefsAt(c, path) : RefIssue(ref, path, sources, c.causal[path], TRUE) = No
      BY <2>1, <2>2 DEF PreflightReady, EvidenceIssues, required
    <2>4. PICK ref \in RefsAt(c, path) : ref.role = "intent"
      BY <2>3
    <2>5. c.causal[path] # No
      BY DEF PreflightReady, Complete
    <2>6. Edition(ref.edition)
      BY <2>4 DEF RefsAt
    <2>7. RefIssue(ref, path, sources, c.causal[path], TRUE) = No
      BY <2>3, <2>4
    <2> DEFINE expected == c.causal[path]
    <2>8. expected # No /\ RefIssue(ref, path, sources, expected, TRUE) = No
      BY <2>5, <2>7
    <2> HIDE DEF expected
    <2>9. /\ ref.source \in DOMAIN sources
          /\ sources[ref.source].edition = ref.edition
          /\ At(sources[ref.source].values, path) = expected
      BY <2>6, <2>8, SourceStands
    <2> QED BY <2>4, <2>9 DEF expected
  <1>2. ASSUME NEW r \in c.candidates PROVE Resolved(c, r)
    BY DEF PreflightReady, CausalityAccepted, CausalIssues
  <1>3. ASSUME NEW r \in c.candidates, r.impact = "yes"
        PROVE  \E path \in r.inputs : At(c.causal, path) = r.value
    BY <1>2, <1>3 DEF Resolved, FormallyIncluded, CanReadField, At
  <1>4. \A r \in c.candidates : r.impact # "undetermined"
    BY <1>2 DEF Resolved
  <1> QED BY <1>1, <1>3, <1>4

\* Whatever contract, sources and analysis: a contract that ContractPreflightValidator finds ready
\* has each causal value from the current edition of a source, and no candidate is undetermined.
THEOREM ReadyContractsAreGrounded == TableSpec => []ReadyIsGrounded
  <1>1. Drawn => ReadyIsGrounded
    <2> SUFFICES ASSUME Drawn, case.about = "preflight", PreflightReady(case.contract, case.sources, case.analysis)
                 PROVE  ReadyIsGrounded
      BY DEF ReadyIsGrounded, About
    <2>1. PreflightTyped(case)
      BY CasesAssumption DEF Drawn, NoCase
    <2> DEFINE c == case.contract sources == case.sources analysis == case.analysis
    <2>2. /\ \A path \in DOMAIN c.bindings : \A ref \in c.bindings[path] : Edition(ref.edition)
          /\ \A s \in DOMAIN sources : Edition(sources[s].edition)
      BY <2>1 DEF PreflightTyped
    <2>3. PreflightReady(c, sources, analysis)
      OBVIOUS
    <2> HIDE DEF c, sources, analysis
    <2>4. /\ \A path \in DOMAIN c.causal :
              \E ref \in RefsAt(c, path) :
                 /\ ref.role = "intent" /\ ref.source \in DOMAIN sources
                 /\ LET source == sources[ref.source] IN
                    /\ source.edition = ref.edition
                    /\ At(source.values, path) = c.causal[path]
          /\ \A r \in c.candidates : r.impact = "yes" => \E path \in r.inputs : At(c.causal, path) = r.value
          /\ \A r \in c.candidates : r.impact # "undetermined"
      BY <2>2, <2>3, PreflightGrounds
    <2> QED BY <2>4 DEF ReadyIsGrounded, c, sources, analysis
  <1>2. QED
    BY <1>1, CaseIsDrawn, PTL
------------------------------------------------------------------------------
(* Revisions and approvals *)

\* A path at which two contracts differ is one of the changes between them.
LEMMA ChangeIsNamed ==
  ASSUME NEW current, NEW replacement, NEW path \in CanonicalPaths(current, replacement),
         \A d \in {current, replacement} : \A p \in DOMAIN Leaves(d) : Leaves(d)[p] # Missing,
         ~ /\ path \in DOMAIN Leaves(current) /\ path \in DOMAIN Leaves(replacement)
           /\ Leaves(current)[path] = Leaves(replacement)[path]
  PROVE  Change(path, Leaves(current), Leaves(replacement)) \in Diff(current, replacement)
  <1> DEFINE old == Leaves(current) new == Leaves(replacement) c == Change(path, old, new)
  <1>1. path \in DOMAIN old \union DOMAIN new
    BY DEF CanonicalPaths
  <1>2. /\ path \in DOMAIN old => old[path] # Missing
        /\ path \in DOMAIN new => new[path] # Missing
    OBVIOUS
  <1>3. ~(path \in DOMAIN old /\ path \in DOMAIN new /\ old[path] = new[path])
    OBVIOUS
  <1> HIDE DEF old, new
  <1>4. c.old # c.new
    BY <1>1, <1>2, <1>3 DEF Change
  <1> HIDE DEF c
  <1>5. c \in {Change(p, old, new) : p \in DOMAIN old \union DOMAIN new}
    BY <1>1 DEF c
  <1> QED BY <1>4, <1>5 DEF Diff, c, old, new

\* A change is what the two contracts have at its path.
LEMMA ChangesArePaths ==
  ASSUME NEW current, NEW replacement, NEW c \in Diff(current, replacement)
  PROVE  c = Change(c.path, Leaves(current), Leaves(replacement))
  BY DEF Diff, Change

\* A revision request that is verified names a path that changed, counts it as affected, and has
\* the outline change it needs.
LEMMA RevisionNames ==
  ASSUME NEW r, NEW current, NEW replacement, NEW impact, NEW requests,
         Verify(r, current, replacement, impact, requests),
         \A d \in {current, replacement} : \A p \in DOMAIN Leaves(d) : Leaves(d)[p] # Missing,
         NEW path \in CanonicalPaths(current, replacement),
         ~ /\ path \in DOMAIN Leaves(current) /\ path \in DOMAIN Leaves(replacement)
           /\ Leaves(current)[path] = Leaves(replacement)[path]
  PROVE  /\ path \in PathsOf(r.changes) /\ path \in r.impact
         /\ Major(path) => \E q \in requests :
               /\ q.status = "approved"
               /\ q.old = (IF path \in DOMAIN Leaves(current) THEN Leaves(current)[path] ELSE Missing)
               /\ q.new = (IF path \in DOMAIN Leaves(replacement) THEN Leaves(replacement)[path] ELSE Missing)
         /\ \A item \in SpecialItems \ {"post_freeze_revision"} :
               Covers(item, path) => item \in RequiredRevisionApprovals(r)
  <1> DEFINE changes == Diff(current, replacement)
             references == ApprovedReferences(changes, current.chapter, requests)
             change == Change(path, Leaves(current), Leaves(replacement))
  <1>1. /\ r.changes = changes /\ MajorCovered(changes, references)
        /\ PathsOf(changes) \subseteq r.impact
    BY DEF Verify, Request
  <1>2. change \in changes
    BY ChangeIsNamed
  <1>3. /\ change.path = path
        /\ change.old = (IF path \in DOMAIN Leaves(current) THEN Leaves(current)[path] ELSE Missing)
        /\ change.new = (IF path \in DOMAIN Leaves(replacement) THEN Leaves(replacement)[path] ELSE Missing)
    BY DEF Change
  <1>4. \A c \in changes : c.path = path => c = change
    BY ChangesArePaths
  <1> HIDE DEF changes, change
  <1>5. path \in PathsOf(changes)
    BY <1>2, <1>3 DEF PathsOf
  <1>6. ASSUME Major(path)
        PROVE  \E q \in requests : q.status = "approved" /\ q.old = change.old /\ q.new = change.new
    <2>1. PICK x \in references : path \in x.covered
      BY <1>2, <1>3, <1>1, <1>6 DEF MajorCovered
    <2> DEFINE covered(q) == PathsOf({c \in changes : Major(c.path) /\ c.old = q.old /\ c.new = q.new})
               approved == {q \in requests : q.status = "approved" /\ current.chapter \in q.chapters /\ covered(q) # {}}
    <2>2. PICK q \in approved : x = [id |-> q.id, request |-> q, covered |-> covered(q)]
      <3>1. x \in {[id |-> q.id, request |-> q, covered |-> covered(q)] : q \in approved}
        BY <2>1 DEF ApprovedReferences
      <3> HIDE DEF covered, approved
      <3> QED BY <3>1
    <2>3. PICK c \in changes : c.path = path /\ c.old = q.old /\ c.new = q.new
      <3>1. path \in covered(q)
        BY <2>1, <2>2
      <3> QED BY <3>1 DEF PathsOf
    <2> QED BY <2>2, <2>3, <1>4
  <1>7. ASSUME NEW item \in SpecialItems \ {"post_freeze_revision"}, Covers(item, path)
        PROVE  item \in RequiredRevisionApprovals(r)
    BY <1>1, <1>5, <1>7 DEF RequiredRevisionApprovals, TouchedItems
  <1> QED BY <1>1, <1>3, <1>5, <1>6, <1>7

\* An accepted record that approves the whole contract approves each item that is required.
LEMMA FullApproves ==
  ASSUME NEW record, NEW d, NEW context, RecordValid(record), ApprovalAccepted(record, d, context),
         record.items["full_contract"].status = "approved",
         \A item \in ApprovalItems : record.items[item].status \in {"approved", "rejected", "not_applicable"},
         NEW item \in RequiredItems(d, context)
  PROVE  record.items[item].status = "approved"
  <1>1. item \in ApprovalItems
    BY DEF RequiredItems, ApprovalItems, SpecialItems
  <1>2. CASE item # "full_contract"
    <2>1. item \in SpecialItems /\ "full_contract" \in ApprovalItems
      BY <1>1, <1>2 DEF ApprovalItems
    <2>2. record.items[item].status # "rejected"
      BY <2>1, <1>1 DEF RecordValid, NoConflict
    <2>3. record.items[item].status # "not_applicable"
      BY <1>2 DEF ApprovalAccepted
    <2> QED BY <1>1, <2>2, <2>3
  <1>3. QED
    BY <1>2

\* Whatever contract, revision request and approval record: no leaf of a contract changes without
\* being named and approved again, and no required item is passed over by a full approval.
THEOREM ApprovalsCoverEverything == TableSpec => []ApprovalsCover
  <1>1. Drawn => RevisionNamesEveryChange
    <2> SUFFICES ASSUME Drawn, case.about = "revision",
                        Verify(case.claimed, case.current, case.replacement, case.impact, case.requests)
                 PROVE  RevisionNamesEveryChange
      BY DEF RevisionNamesEveryChange, About
    <2> DEFINE current == case.current replacement == case.replacement
               claimed == case.claimed impact == case.impact requests == case.requests
    <2>1. RevisionTyped(case)
      BY CasesAssumption DEF Drawn, NoCase
    <2>2. \A d \in {current, replacement} : \A p \in DOMAIN Leaves(d) : Leaves(d)[p] # Missing
      BY <2>1 DEF RevisionTyped
    <2>3. Verify(claimed, current, replacement, impact, requests)
      OBVIOUS
    <2> HIDE DEF current, replacement, claimed, impact, requests
    <2>4. ASSUME NEW path \in DOMAIN Leaves(current) \union DOMAIN Leaves(replacement),
                 ~ /\ path \in DOMAIN Leaves(current) /\ path \in DOMAIN Leaves(replacement)
                   /\ Leaves(current)[path] = Leaves(replacement)[path]
          PROVE  /\ path \in PathsOf(claimed.changes) /\ path \in claimed.impact
                 /\ Major(path) => \E q \in requests :
                       /\ q.status = "approved"
                       /\ q.old = (IF path \in DOMAIN Leaves(current) THEN Leaves(current)[path] ELSE Missing)
                       /\ q.new = (IF path \in DOMAIN Leaves(replacement) THEN Leaves(replacement)[path] ELSE Missing)
                 /\ \A item \in SpecialItems \ {"post_freeze_revision"} :
                       Covers(item, path) => item \in RequiredRevisionApprovals(claimed)
      <3>1. path \in CanonicalPaths(current, replacement)
        BY DEF CanonicalPaths
      <3> QED BY <2>2, <2>3, <2>4, <3>1, RevisionNames
    <2> QED BY <2>4 DEF RevisionNamesEveryChange, current, replacement, claimed, impact, requests
  <1>2. Drawn => FullApprovalApprovesEach
    <2> SUFFICES ASSUME Drawn, case.about = "approval", RecordValid(case.record),
                        ApprovalAccepted(case.record, case.contract, case.context),
                        case.record.items["full_contract"].status = "approved",
                        NEW item \in RequiredItems(case.contract, case.context)
                 PROVE  case.record.items[item].status = "approved"
      BY DEF FullApprovalApprovesEach, About
    <2>1. ApprovalTyped(case)
      BY CasesAssumption DEF Drawn, NoCase
    <2>2. \A i \in ApprovalItems : case.record.items[i].status \in {"approved", "rejected", "not_applicable"}
      BY <2>1 DEF ApprovalTyped
    <2> QED BY <2>2, FullApproves
  <1>3. QED
    BY <1>1, <1>2, CaseIsDrawn, PTL DEF ApprovalsCover

------------------------------------------------------------------------------
(* The gate *)

IssuesOf(result) == {result.issues[i] : i \in DOMAIN result.issues}
RequiredOf(result) == {i \in IssuesOf(result) : NeedsDecision(i)}
IssueDecided(result, decision) == CHOOSE i \in IssuesOf(result) : i.id = decision.issue

\* What a person decided is what had to be decided, once, of this very review.
DecidedExactly(result, decisions) ==
    /\ Len(decisions) = Cardinality(RequiredOf(result))
    /\ \A k \in DOMAIN decisions : decisions[k].resultHash = result.hash
    /\ {IssueDecided(result, decisions[k]) : k \in DOMAIN decisions} = RequiredOf(result)

\* What the store asked of a review when it took it.
LEMMA ReviewTaken ==
  ASSUME NEW result, StoreTakes("reviewer_result", result)
  PROVE  /\ Filled(result.id) /\ Slug(result.id) /\ Sha(result.hash) /\ ResultIntact(result)
         /\ \A i \in IssuesOf(result) : IssueValid(i) /\ Slug(i.id)
         /\ \A i, j \in DOMAIN result.issues : i # j => result.issues[i].id # result.issues[j].id
  <1>1. ResultValid(result) /\ KeySpaceValid(result)
    BY DEF StoreTakes, Decodable
  <1>2. ResultIntact(result) /\ Filled(result.id) /\ Slug(result.id)
    BY <1>1 DEF ResultValid, KeySpaceValid
  <1>3. Sha(result.hash)
    BY <1>2 DEF ResultIntact, ResultHash, Hash, Sha
  <1>4. \A i \in IssuesOf(result) : IssueValid(i) /\ Slug(i.id)
    BY <1>1, <1>2 DEF IssuesOf, ResultIntact, KeySpaceValid
  <1>5. \A i, j \in DOMAIN result.issues : i # j => result.issues[i].id # result.issues[j].id
    BY <1>2 DEF ResultIntact, IssuesCanonical
  <1> QED BY <1>2, <1>3, <1>4, <1>5

\* A decision is on the issue whose id it has: ids are unique in a review.
LEMMA IssueIsItsId ==
  ASSUME NEW result, StoreTakes("reviewer_result", result), NEW issue \in IssuesOf(result),
         NEW decision, decision.issue = issue.id
  PROVE  IssueDecided(result, decision) = issue
  <1>1. \A i \in IssuesOf(result) : i.id = issue.id => i = issue
    BY ReviewTaken DEF IssuesOf
  <1> QED BY <1>1 DEF IssueDecided

\* The gate never counts one decision twice, nor one that decides nothing.
LEMMA PassedIsDecided ==
  ASSUME NEW result, StoreTakes("reviewer_result", result),
         NEW decisions, Len(decisions) \in Nat, DOMAIN decisions = 1 .. Len(decisions),
         NEW expected, GatePassed(result, decisions, expected)
  PROVE  DecidedExactly(result, decisions) /\ \A i \in IssuesOf(result) : i.severity # "high"
  <1> DEFINE n == Len(decisions)
             needed == {i \in DOMAIN result.issues : NeedsDecision(result.issues[i])}
             matches(i) == Matches(result, result.issues[i], decisions)
             all == UNION {matches(i) : i \in needed}
             f == [k \in 1 .. n |-> IssueDecided(result, decisions[k])]
  <1>1. /\ \A i \in DOMAIN result.issues : result.issues[i].severity # "high"
        /\ \A i \in needed : Cardinality(matches(i)) = 1
        /\ Cardinality(all) = n
    BY DEF GatePassed
  <1>2. \A i : matches(i) \subseteq 1 .. n
    BY DEF Matches
  <1>3. IsFiniteSet(1 .. n) /\ Cardinality(1 .. n) = n
    <2>1. n \in Nat
      OBVIOUS
    <2> HIDE DEF n
    <2>2. IsFiniteSet(1 .. n) /\ Cardinality(1 .. n) = IF 1 > n THEN 0 ELSE n - 1 + 1
      BY <2>1, FS_Interval
    <2> QED BY <2>1, <2>2
  <1>4. all = 1 .. n
    <2>1. all \in SUBSET (1 .. n)
      BY <1>2
    <2> HIDE DEF all
    <2> QED BY <2>1, <1>1, <1>3, FS_Subset
  <1>5. ASSUME NEW i \in needed, NEW k \in matches(i)
        PROVE  /\ f[k] = result.issues[i] /\ f[k] \in RequiredOf(result)
               /\ decisions[k].resultHash = result.hash
    <2>1. /\ decisions[k].issue = result.issues[i].id
          /\ decisions[k].resultHash = result.hash
          /\ k \in 1 .. n
      BY DEF Matches, DispositionMatches
    <2>2. result.issues[i] \in RequiredOf(result) /\ result.issues[i] \in IssuesOf(result)
      BY DEF RequiredOf, IssuesOf
    <2>3. f[k] = result.issues[i]
      BY <2>1, <2>2, IssueIsItsId
    <2> QED BY <2>1, <2>2, <2>3
  <1>6. ASSUME NEW k \in 1 .. n PROVE \E i \in needed : k \in matches(i)
    BY <1>4
  <1>7. ASSUME NEW i \in needed PROVE \E k : matches(i) = {k}
    <2>1. IsFiniteSet(matches(i))
      BY <1>2, <1>3, FS_Subset
    <2> QED BY <2>1, <1>1, FS_Singleton
  <1> HIDE DEF matches, all
  <1>8. f \in Surjection(1 .. n, RequiredOf(result))
    <2>1. f \in [1 .. n -> RequiredOf(result)]
      <3>1. \A k \in 1 .. n : f[k] \in RequiredOf(result)
        BY <1>5, <1>6
      <3> QED BY <3>1
    <2>2. ASSUME NEW x \in RequiredOf(result) PROVE \E k \in 1 .. n : f[k] = x
      <3>1. PICK i \in needed : x = result.issues[i]
        BY DEF RequiredOf, IssuesOf
      <3>2. PICK k : k \in matches(i)
        BY <1>7
      <3>3. k \in 1 .. n
        BY <3>2, <1>2
      <3> QED BY <3>1, <3>2, <3>3, <1>5
    <2> HIDE DEF f
    <2> QED BY <2>1, <2>2 DEF Surjection
  <1>9. \A k, l \in 1 .. n : f[k] = f[l] => k = l
    <2> SUFFICES ASSUME NEW k \in 1 .. n, NEW l \in 1 .. n, f[k] = f[l] PROVE k = l
      OBVIOUS
    <2>1. PICK i \in needed : k \in matches(i)
      BY <1>6
    <2>2. PICK j \in needed : l \in matches(j)
      BY <1>6
    <2>3. result.issues[i] = result.issues[j]
      BY <2>1, <2>2, <1>5
    <2>4. i = j
      BY <2>3, ReviewTaken
    <2> QED BY <2>1, <2>2, <2>4, <1>7
  <1>10. f \in Injection(1 .. n, RequiredOf(result))
    BY <1>8, <1>9 DEF Injection, Surjection, IsInjective
  <1>11. Cardinality(RequiredOf(result)) = n
    BY <1>3, <1>8, <1>10, FS_Surjection
  <1>12. {IssueDecided(result, decisions[k]) : k \in DOMAIN decisions} = RequiredOf(result)
    BY <1>8 DEF Surjection
  <1>13. \A k \in DOMAIN decisions : decisions[k].resultHash = result.hash
    BY <1>5, <1>6
  <1>14. \A i \in IssuesOf(result) : i.severity # "high"
    BY <1>1 DEF IssuesOf
  <1> QED BY <1>11, <1>12, <1>13, <1>14 DEF DecidedExactly

\* A decision on an issue of a review that the store took is one that it takes.
LEMMA DecisionHolds ==
  ASSUME NEW result, StoreTakes("reviewer_result", result), NEW issue \in IssuesOf(result), NEW t, t # 0
  PROVE  DispositionMatches(DecisionOn(result, issue, t), result, issue)
  <1> DEFINE d == DecisionOn(result, issue, t)
  <1>1. /\ d.issue = issue.id /\ d.hash = issue.hash /\ d.code = issue.code /\ d.path = issue.path
        /\ d.evidence = issue.evidence /\ d.status = "accepted" /\ d.reason = "as it is" /\ d.actor = "editor"
        /\ d.decided = t /\ d.result = result.id /\ d.resultHash = result.hash
    BY DEF DecisionOn
  <1>2. /\ Filled(result.id) /\ Sha(result.hash) /\ IssueValid(issue)
    BY ReviewTaken
  <1>3. /\ Filled(issue.id) /\ issue.code # 0 /\ issue.path # 0 /\ Sha(issue.hash) /\ Sha(issue.evidence)
    BY <1>2 DEF IssueValid, IssueHash, Hash, Sha
  <1> HIDE DEF d
  <1>4. DispositionValid(d)
    BY <1>1, <1>2, <1>3 DEF DispositionValid, Human, Filled
  <1> QED BY <1>1, <1>4 DEF DispositionMatches, d

\* The store takes a decision on an issue of a review that it took.
LEMMA DecisionIsTaken ==
  ASSUME NEW result, StoreTakes("reviewer_result", result), NEW issue \in IssuesOf(result)
  PROVE  StoreTakes("disposition", DecisionOn(result, issue, 1))
  <1> DEFINE d == DecisionOn(result, issue, 1)
  <1>1. DispositionValid(d)
    BY DecisionHolds DEF DispositionMatches
  <1>2. DOMAIN d = FieldsOf["disposition"]
    BY DEF DecisionOn, FieldsOf
  <1>3. Slug(d.result) /\ Slug(d.issue)
    BY ReviewTaken DEF DecisionOn
  <1> HIDE DEF d
  <1>4. Decodable("disposition", d) /\ Nameable("disposition", d)
    BY <1>1, <1>2, <1>3 DEF Decodable, Nameable
  <1> QED BY <1>4 DEF StoreTakes, d

\* The gate is never a dead end: it lets through a review whose issues were decided.
LEMMA DecidedIsPassed ==
  ASSUME NEW result, StoreTakes("reviewer_result", result),
         NEW decisions, Len(decisions) \in Nat, DOMAIN decisions = 1 .. Len(decisions),
         \A n \in DOMAIN decisions : \E j \in DOMAIN result.issues : MadeOn(result.issues[j], result, decisions[n]),
         DecidedExactly(result, decisions), \A i \in IssuesOf(result) : i.severity # "high"
  PROVE  GatePassed(result, decisions, [f \in Bindings |-> result[f]])
  <1> DEFINE n == Len(decisions)
             needed == {i \in DOMAIN result.issues : NeedsDecision(result.issues[i])}
             matches(i) == Matches(result, result.issues[i], decisions)
             all == UNION {matches(i) : i \in needed}
             f == [k \in 1 .. n |-> IssueDecided(result, decisions[k])]
  <1>1. IsFiniteSet(1 .. n) /\ Cardinality(1 .. n) = n
    <2>1. n \in Nat
      OBVIOUS
    <2> HIDE DEF n
    <2>2. IsFiniteSet(1 .. n) /\ Cardinality(1 .. n) = IF 1 > n THEN 0 ELSE n - 1 + 1
      BY <2>1, FS_Interval
    <2> QED BY <2>1, <2>2
  <1>2. f \in Surjection(1 .. n, RequiredOf(result))
    <2>1. {f[k] : k \in 1 .. n} = RequiredOf(result)
      BY DEF DecidedExactly
    <2>2. f \in [1 .. n -> RequiredOf(result)]
      BY <2>1
    <2> HIDE DEF f
    <2> QED BY <2>1, <2>2 DEF Surjection
  <1>3. f \in Injection(1 .. n, RequiredOf(result))
    BY <1>1, <1>2, FS_Surjection DEF DecidedExactly
  <1>4. ASSUME NEW k \in 1 .. n
        PROVE  \E j \in needed : f[k] = result.issues[j] /\ k \in matches(j)
    <2>1. PICK j \in DOMAIN result.issues : MadeOn(result.issues[j], result, decisions[k])
      <3>1. k \in DOMAIN decisions
        OBVIOUS
      <3> HIDE DEF needed, matches, all, f, n
      <3> QED BY <3>1, Zenon
    <2> DEFINE t == decisions[k].decided h == decisions[k].resultHash
    <2>2. t \in Nat \ {0}
      BY <2>1 DEF MadeOn
    <2>3. decisions[k] = [DecisionOn(result, result.issues[j], t) EXCEPT !.resultHash = h]
      BY <2>1 DEF MadeOn
    <2>4. h = result.hash
      BY DEF DecidedExactly
    <2> HIDE DEF t, h
    <2>5. decisions[k] = DecisionOn(result, result.issues[j], t)
      BY <2>3, <2>4 DEF DecisionOn
    <2>6. result.issues[j] \in IssuesOf(result)
      BY DEF IssuesOf
    <2>7. DispositionMatches(decisions[k], result, result.issues[j])
      BY <2>2, <2>5, <2>6, DecisionHolds
    <2>8. decisions[k].issue = result.issues[j].id
      BY <2>7 DEF DispositionMatches
    <2>9. f[k] = result.issues[j]
      BY <2>6, <2>8, IssueIsItsId
    <2>10. f[k] \in RequiredOf(result)
      BY <1>2 DEF Surjection
    <2>11. j \in needed
      BY <2>9, <2>10 DEF RequiredOf
    <2>12. k \in matches(j)
      BY <2>7 DEF Matches
    <2> QED BY <2>9, <2>11, <2>12
  <1>5. ASSUME NEW i \in needed, NEW k \in matches(i)
        PROVE  k \in 1 .. n /\ f[k] = result.issues[i]
    <2>1. decisions[k].issue = result.issues[i].id /\ k \in 1 .. n
      BY DEF Matches, DispositionMatches
    <2>2. result.issues[i] \in IssuesOf(result)
      BY DEF IssuesOf
    <2> QED BY <2>1, <2>2, IssueIsItsId
  <1>6. ASSUME NEW i \in needed PROVE Cardinality(matches(i)) = 1
    <2>1. result.issues[i] \in RequiredOf(result)
      BY DEF RequiredOf, IssuesOf
    <2>2. PICK k \in 1 .. n : f[k] = result.issues[i]
      BY <1>2, <2>1 DEF Surjection
    <2>3. PICK j \in needed : f[k] = result.issues[j] /\ k \in matches(j)
      BY <1>4
    <2>4. i = j
      BY <2>2, <2>3, ReviewTaken
    <2>5. \A l \in matches(i) : l = k
      <3> SUFFICES ASSUME NEW l \in matches(i) PROVE l = k
        OBVIOUS
      <3>1. l \in 1 .. n /\ f[l] = f[k]
        BY <1>5, <2>2
      <3> QED BY <3>1, <1>3 DEF Injection, IsInjective
    <2>6. matches(i) = {k}
      BY <2>3, <2>4, <2>5
    <2> HIDE DEF matches
    <2> QED BY <2>6, FS_Singleton
  <1>7. all = 1 .. n
    <2>1. ASSUME NEW k \in all PROVE k \in 1 .. n
      <3>1. PICK i \in needed : k \in matches(i)
        OBVIOUS
      <3> QED BY <3>1, <1>5
    <2>2. \A k \in 1 .. n : k \in all
      BY <1>4
    <2> HIDE DEF all
    <2> QED BY <2>1, <2>2
  <1>8. Cardinality(all) = n
    BY <1>7, <1>1
  <1>9. ResultIsCurrent(result, [g \in Bindings |-> result[g]])
    BY ReviewTaken DEF ResultIsCurrent
  <1>10. \A i \in DOMAIN result.issues : result.issues[i].severity # "high"
    BY DEF IssuesOf
  <1> QED BY <1>6, <1>8, <1>9, <1>10 DEF GatePassed

\* Whatever review and decisions on issues: the gate lets through exactly the reviews without a
\* high issue in which what needs a person was decided, each once, and such decisions can be saved.
THEOREM GateIsExactlyDecided == TableSpec => []GateIsDecided
  <1>1. Drawn => GateIsDecided
    <2> SUFFICES ASSUME Drawn, case.about = "gate", StoreTakes("reviewer_result", case.result)
                 PROVE  GateIsDecided
      BY DEF GateIsDecided, About
    <2> DEFINE result == case.result decisions == case.decisions
    <2>1. GateTyped(case)
      BY CasesAssumption DEF Drawn, NoCase
    <2>2. /\ StoreTakes("reviewer_result", result)
          /\ Len(decisions) \in Nat /\ DOMAIN decisions = 1 .. Len(decisions)
          /\ \A n \in DOMAIN decisions : \E j \in DOMAIN result.issues : MadeOn(result.issues[j], result, decisions[n])
      <3>1. IsList(decisions) /\ \A n \in DOMAIN decisions : \E j \in DOMAIN result.issues : MadeOn(result.issues[j], result, decisions[n])
        BY <2>1 DEF GateTyped
      <3> HIDE DEF decisions, result
      <3>2. Len(decisions) \in Nat /\ DOMAIN decisions = 1 .. Len(decisions)
        BY <3>1, ListHasLength
      <3> QED BY <3>1, <3>2 DEF result
    <2> HIDE DEF result, decisions
    <2>3. GatePassed(result, decisions, [f \in Bindings |-> result[f]])
            <=> DecidedExactly(result, decisions) /\ \A i \in IssuesOf(result) : i.severity # "high"
      BY <2>2, PassedIsDecided, DecidedIsPassed
    <2>4. \A i \in RequiredOf(result) : StoreTakes("disposition", DecisionOn(result, i, 1))
      BY <2>2, DecisionIsTaken DEF RequiredOf
    <2> QED BY <2>3, <2>4 DEF GateIsDecided, DecidedExactly, RequiredOf, IssueDecided, IssuesOf, result, decisions
  <1>2. QED
    BY <1>1, CaseIsDrawn, PTL

------------------------------------------------------------------------------
(* Stored forms: a chapter contract *)

\* What a reader gives: a decision in one of the current forms that a reader takes again.
IsDecision(d) ==
    /\ IsParts(d)
    /\ d.version = 3 \/ (d.version = 2 /\ d.obligations = <<>>)
    /\ PlansReadable(d)

\* A contract with its parts is not the answer of a reader that refuses.
LEMMA PartsAreNotRefused ==
  ASSUME NEW d, IsParts(d)
  PROVE  d # Refused
  <1>1. DOMAIN d = PartNames
    BY DEF IsParts
  <1>2. DOMAIN Refused = {"refused"}
    BY DEF Refused
  <1>3. "version" \in PartNames /\ "version" \notin {"refused"}
    BY DEF PartNames
  <1> QED BY <1>1, <1>2, <1>3

\* What a reader takes from the parts of a payload, and what it fills in.
LEMMA PartsRead ==
  ASSUME NEW p, IsParts(p.parts)
  PROVE  /\ IsParts(ReadParts(p)) /\ ReadParts(p).version = 2 /\ ReadParts(p).obligations = <<>>
         /\ \A x \in PartNames \ {"version", "obligations", "scene_plan", "technology_plan", "pov_plan"} :
               ReadParts(p)[x] = p.parts[x]
         /\ "scene_plan" \in p.contract => ReadParts(p).scene_plan = p.parts.scene_plan
         /\ "technology_plan" \in p.contract => ReadParts(p).technology_plan = p.parts.technology_plan
         /\ "pov_plan" \in p.contract => ReadParts(p).pov_plan = p.parts.pov_plan
  <1>1. DOMAIN p.parts = PartNames
    BY DEF IsParts
  <1> DEFINE q == ReadParts(p)
  <1>2. DOMAIN q = PartNames /\ q = [x \in DOMAIN q |-> q[x]]
    BY <1>1 DEF ReadParts
  <1> QED BY <1>1, <1>2 DEF ReadParts, IsParts, PartNames

\* The reader of the second form gives a contract of the second form.
LEMMA V2IsDecision ==
  ASSUME NEW p, IsParts(p.parts), DecodeV2(p) # Refused
  PROVE  IsDecision(DecodeV2(p)) /\ DecodeV2(p).version = 2
  <1>1. DecodeV2(p) = ReadParts(p) /\ PlansReadable(ReadParts(p))
    BY DEF DecodeV2, Checked
  <1> QED BY <1>1, PartsRead DEF IsDecision

\* The reader of the first form gives one too.
LEMMA V1IsDecision ==
  ASSUME NEW p, DecodeV1(p) # Refused
  PROVE  IsDecision(DecodeV1(p))
  <1> DEFINE d == DecodeV1(p)
  <1>1. /\ d = [x \in DOMAIN d |-> d[x]] /\ DOMAIN d = PartNames
        /\ d.version = 2 /\ d.obligations = <<>> /\ d.scene_plan = NoScenes /\ d.pov_plan = NoPov
    BY DEF DecodeV1, Checked, PartNames
  <1>2. PlansReadable(d)
    BY <1>1 DEF PlansReadable, NoScenes, NoPov
  <1> HIDE DEF d
  <1>3. IsDecision(d)
    BY <1>1, <1>2 DEF IsDecision, IsParts
  <1> QED BY <1>3 DEF d

\* Whatever payload is read, the contract has one of the current forms.
LEMMA DecodedIsDecision ==
  ASSUME NEW p,
         p = [version |-> p.version, root |-> p.root, contract |-> p.contract, old |-> p.old, parts |-> p.parts],
         IsParts(p.parts), Decode(p) # Refused
  PROVE  IsDecision(Decode(p))
  <1>1. CASE p.version \in {0, 1}
    BY <1>1, V1IsDecision DEF Decode
  <1>2. CASE p.version = 2
    <2>1. CASE "envelope" \in p.root
      BY <1>2, <2>1, V2IsDecision DEF Decode
    <2>2. CASE "envelope" \notin p.root
      <3> DEFINE q == AdaptLegacyScene(p)
      <3>1. Decode(p) = DecodeV2(q)
        BY <1>2, <2>2 DEF Decode
      <3>2. IsParts(q.parts)
        <4>1. DOMAIN p = {"version", "root", "contract", "old", "parts"}
          OBVIOUS
        <4>2. DOMAIN p.parts = PartNames
          BY DEF IsParts
        <4>3. q.parts = [p.parts EXCEPT !.identified = TRUE, !.choice = Classified(@),
                            !.plans = [name \in PlanNames |-> [values |-> @[name].values, reason |-> ~@[name].values]],
                            !.candidates = <<>>, !.bindings = [path \in {} |-> {}], !.legacy = <<>>]
          BY <4>1 DEF AdaptLegacyScene
        <4>4. DOMAIN q.parts = PartNames /\ q.parts = [x \in DOMAIN q.parts |-> q.parts[x]]
          BY <4>2, <4>3
        <4> QED BY <4>4 DEF IsParts
      <3> HIDE DEF q
      <3> QED BY <3>1, <3>2, V2IsDecision
    <2> QED BY <2>1, <2>2
  <1>3. CASE p.version = 3
    <2> DEFINE q == [p EXCEPT !.contract = @ \ {"engagement_obligations"}]
               base == DecodeV2(q)
    <2>1. q.parts = p.parts
      OBVIOUS
    <2>2. /\ base # Refused
          /\ Decode(p) = [base EXCEPT !.version = 3, !.obligations = p.parts.obligations]
      BY <1>3 DEF Decode, DecodeV3
    <2>3. IsDecision(base)
      <3> HIDE DEF q
      <3> QED BY <2>1, <2>2, V2IsDecision
    <2> HIDE DEF base
    <2> DEFINE d == [base EXCEPT !.version = 3, !.obligations = p.parts.obligations]
    <2>4. DOMAIN base = PartNames
      BY <2>3 DEF IsDecision, IsParts
    <2>5. /\ DOMAIN d = PartNames /\ d = [x \in DOMAIN d |-> d[x]]
          /\ d.version = 3 /\ d.scene_plan = base.scene_plan /\ d.pov_plan = base.pov_plan
      BY <2>4 DEF PartNames
    <2> HIDE DEF d
    <2>6. IsDecision(d)
      <3>1. PlansReadable(d)
        BY <2>3, <2>5 DEF IsDecision, PlansReadable
      <3>2. IsParts(d)
        BY <2>5 DEF IsParts
      <3> QED BY <2>5, <3>1, <3>2 DEF IsDecision
    <2> QED BY <2>2, <2>6 DEF d
  <1>4. QED
    BY <1>1, <1>2, <1>3 DEF Decode

\* A contract in a current form is written such that it is read again as it was.
LEMMA DecisionIsReadAgain ==
  ASSUME NEW d, IsDecision(d), Encode(d) # Refused
  PROVE  Decode(Encode(d)) = d
  <1>1. IsParts(d) /\ Valid(d)
    BY DEF IsDecision, Encode, EncodeV2, EncodeV3
  <1>2. CASE d.version = 2
    <2> DEFINE e == Written(d, 2, ContractV2 \union OptionalV2)
    <2>1. Encode(d) = e
      BY <1>2 DEF Encode, EncodeV2
    <2>2. e.version = 2 /\ e.root = RootV2 /\ e.contract = ContractV2 \union OptionalV2 /\ e.old = FALSE /\ e.parts = d
      BY DEF Written
    <2> HIDE DEF e
    <2>3. ReadParts(e) = d
      <3>1. IsParts(ReadParts(e))
        BY <1>1, <2>2, PartsRead
      <3>2. \A x \in PartNames : ReadParts(e)[x] = d[x]
        BY <1>1, <1>2, <2>2, PartsRead DEF IsDecision, PartNames, OptionalV2
      <3> QED BY <1>1, <3>1, <3>2 DEF IsParts
    <2>4. "envelope" \in e.root /\ HasFields(e.contract, ContractV2, OptionalV2) /\ ~e.old
      BY <2>2 DEF RootV2, HasFields
    <2>5. Decode(e) = DecodeV2(e)
      BY <2>2, <2>4 DEF Decode
    <2>6. DecodeV2(e) = d
      BY <1>1, <2>2, <2>3, <2>4 DEF DecodeV2, Checked, IsDecision
    <2> QED BY <2>1, <2>5, <2>6
  <1>3. CASE d.version = 3
    <2> DEFINE all == ContractV2 \union OptionalV2 \union {"engagement_obligations"}
               e == Written(d, 3, all)
               q == [e EXCEPT !.contract = @ \ {"engagement_obligations"}]
               b == ReadParts(q)
    <2>1. Encode(d) = e
      BY <1>3 DEF Encode, EncodeV3
    <2>2. /\ e.version = 3 /\ e.contract = all /\ e.parts = d
          /\ q.root = RootV2 /\ q.contract = all \ {"engagement_obligations"} /\ q.old = FALSE /\ q.parts = d
      BY DEF Written
    <2>3. "engagement_obligations" \in all /\ all \ {"engagement_obligations"} = ContractV2 \union OptionalV2
      BY DEF ContractV2, OptionalV2
    <2> HIDE DEF e, all
    <2>4. Decode(e) = IF DecodeV2(q) = Refused THEN Refused
                      ELSE [DecodeV2(q) EXCEPT !.version = 3, !.obligations = d.obligations]
      BY <2>2, <2>3 DEF Decode, DecodeV3
    <2> HIDE DEF q
    <2>5. /\ IsParts(b) /\ b.version = 2 /\ b.obligations = <<>>
          /\ \A x \in PartNames \ {"version", "obligations"} : b[x] = d[x]
      BY <1>1, <2>2, <2>3, PartsRead DEF PartNames, OptionalV2
    <2> HIDE DEF b
    <2>6. PlansReadable(b)
      BY <2>5 DEF IsDecision, PlansReadable, PartNames
    <2>7. Valid(b)
      <3>1. /\ b.choice = d.choice /\ b.plans = d.plans /\ b.candidates = d.candidates
            /\ b.bindings = d.bindings /\ b.scene_plan = d.scene_plan
            /\ b.technology_plan = d.technology_plan /\ b.pov_plan = d.pov_plan
        BY <2>5 DEF PartNames
      <3>2. Range(b.obligations) = {}
        BY <2>5 DEF Range
      <3>3. ContractValid(d)
        BY <1>1 DEF Valid
      <3>4. ContractValid(b)
        BY <3>1, <3>2, <3>3 DEF ContractValid
      <3> QED BY <1>1, <2>5, <3>4 DEF Valid, PartNames
    <2>8. DecodeV2(q) = b
      <3>1. HasFields(q.contract, ContractV2, OptionalV2)
        BY <2>2, <2>3 DEF HasFields
      <3> QED BY <2>2, <2>6, <2>7, <3>1 DEF DecodeV2, Checked, b
    <2>9. b # Refused
      BY <2>5, PartsAreNotRefused
    <2>10. [b EXCEPT !.version = 3, !.obligations = d.obligations] = d
      <3> DEFINE c == [b EXCEPT !.version = 3, !.obligations = d.obligations]
      <3>1. DOMAIN b = PartNames /\ DOMAIN d = PartNames /\ d = [x \in PartNames |-> d[x]]
        BY <1>1, <2>5 DEF IsParts
      <3>2. DOMAIN c = PartNames /\ c = [x \in DOMAIN c |-> c[x]]
        BY <3>1
      <3>3. \A x \in PartNames : c[x] = d[x]
        BY <1>3, <2>5, <3>1
      <3> HIDE DEF c
      <3>4. c = d
        BY <3>1, <3>2, <3>3
      <3> QED BY <3>4 DEF c
    <2> QED BY <2>1, <2>4, <2>8, <2>9, <2>10
  <1>4. QED
    BY <1>2, <1>3 DEF IsDecision

------------------------------------------------------------------------------
(* Stored forms: a record of the store *)

\* The file of a record that the store takes is accepted under the record's id.
LEMMA SavedIsAccepted ==
  ASSUME NEW type, NEW saved, StoreTakes(type, saved)
  PROVE  EnvelopeAccepted(type, RecordId(type, saved), Envelope(type, saved))
  BY DEF EnvelopeAccepted, Envelope, StoreTakes

\* The fingerprint of a valid manifest binds its entries.
LEMMA ManifestIsItsFingerprint ==
  ASSUME NEW a, NEW b, IsManifest(a), IsManifest(b), BaselineValid(a), BaselineValid(b),
         a.fingerprint = b.fingerprint
  PROVE  a = b
  <1>1. a.entries = b.entries
    BY DEF BaselineValid, Hash
  <1> QED BY <1>1 DEF IsManifest

\* The hash of an intact review binds each of its fields.
LEMMA ReviewIsItsHash ==
  ASSUME NEW a, NEW b, IsRecord(a), IsRecord(b), DOMAIN a = DOMAIN b, "hash" \in DOMAIN a,
         a.hash = ResultHash(a), b.hash = ResultHash(b), a.hash = b.hash
  PROVE  a = b
  <1>1. [f \in DOMAIN a \ {"hash"} |-> a[f]] = [f \in DOMAIN b \ {"hash"} |-> b[f]]
    BY DEF ResultHash, Hash
  <1>2. \A f \in DOMAIN a \ {"hash"} : a[f] = b[f]
    BY <1>1
  <1> QED BY <1>2 DEF IsRecord

\* Two records that are valid and have the same id are the same, up to the items of an approval.
LEMMA NameBinds ==
  ASSUME NEW type \in RecordTypes, NEW saved, NEW found,
         IsRecord(saved), "manifest" \in DOMAIN saved => IsManifest(saved.manifest),
         IsRecord(found), "manifest" \in DOMAIN found => IsManifest(found.manifest),
         Decodable(type, saved), Decodable(type, found), RecordId(type, saved) = RecordId(type, found)
  PROVE  IF type = "approval"
         THEN \A f \in {"contract", "content", "manifest"} : found[f] = saved[f]
         ELSE found = saved
  <1>1. DOMAIN saved = FieldsOf[type] /\ DOMAIN found = FieldsOf[type]
    BY DEF Decodable
  <1>2. CASE type = "baseline"
    <2>1. /\ saved.contract = found.contract /\ saved.version = found.version
          /\ saved.manifest.fingerprint = found.manifest.fingerprint
      BY <1>2 DEF RecordId
    <2>2. DOMAIN saved = {"contract", "version", "manifest"} /\ DOMAIN found = {"contract", "version", "manifest"}
      BY <1>1, <1>2 DEF FieldsOf
    <2>3. BaselineValid(saved.manifest) /\ BaselineValid(found.manifest)
      BY <1>2 DEF Decodable
    <2>4. saved.manifest = found.manifest
      BY <2>1, <2>2, <2>3, ManifestIsItsFingerprint
    <2> QED BY <1>2, <2>1, <2>2, <2>4 DEF IsRecord
  <1>3. CASE type = "approval"
    <2>1. /\ saved.contract = found.contract /\ saved.content = found.content
          /\ saved.manifest.fingerprint = found.manifest.fingerprint
      BY <1>3 DEF RecordId
    <2>2. "manifest" \in DOMAIN saved /\ "manifest" \in DOMAIN found
      BY <1>1, <1>3 DEF FieldsOf, ApprovalFields
    <2>3. BaselineValid(saved.manifest) /\ BaselineValid(found.manifest)
      BY <1>3 DEF Decodable, ApprovalValid
    <2>4. saved.manifest = found.manifest
      BY <2>1, <2>2, <2>3, ManifestIsItsFingerprint
    <2> QED BY <1>3, <2>1, <2>4
  <1>4. CASE type = "reviewer_result"
    <2>1. saved.hash = found.hash
      BY <1>4 DEF RecordId
    <2>2. "hash" \in DOMAIN saved
      BY <1>1, <1>4 DEF FieldsOf
    <2>3. saved.hash = ResultHash(saved) /\ found.hash = ResultHash(found)
      BY <1>4 DEF Decodable, ResultValid, ResultIntact
    <2>4. saved = found
      BY <1>1, <2>1, <2>2, <2>3, ReviewIsItsHash
    <2> QED BY <1>4, <2>4
  <1>5. CASE type = "disposition"
    <2>1. Hash(saved) = Hash(found)
      BY <1>5 DEF RecordId
    <2> QED BY <1>5, <2>1 DEF Hash
  <1>6. CASE type = "continuation_authorization"
    <2>1. Hash(saved) = Hash(found)
      BY <1>6 DEF RecordId
    <2> QED BY <1>6, <2>1 DEF Hash
  <1>7. type \in {"baseline", "approval", "reviewer_result", "disposition", "continuation_authorization"}
    BY DEF RecordTypes, FieldsOf
  <1>8. QED
    BY <1>2, <1>3, <1>4, <1>5, <1>6, <1>7

\* Whatever payload and whatever file: a contract of any stored form is read again from the form it
\* is then written in, and the name of a record's file binds what the file may say.
THEOREM StoredFormsAreReadAgain == TableSpec => []StoredFormsReadAgain
  <1>1. Drawn => ReadAgain
    <2> SUFFICES ASSUME Drawn, case.about = "payload", Decode(case.payload) # Refused,
                        Encode(Decode(case.payload)) # Refused
                 PROVE  Decode(Encode(Decode(case.payload))) = Decode(case.payload)
      BY DEF ReadAgain, About
    <2>1. PayloadTyped(case)
      BY CasesAssumption DEF Drawn, NoCase
    <2> DEFINE p == case.payload
    <2>2. /\ p = [version |-> p.version, root |-> p.root, contract |-> p.contract, old |-> p.old, parts |-> p.parts]
          /\ IsParts(p.parts) /\ Decode(p) # Refused
      BY <2>1 DEF PayloadTyped
    <2> HIDE DEF p
    <2>3. IsDecision(Decode(p))
      BY <2>2, DecodedIsDecision
    <2> QED BY <2>3, DecisionIsReadAgain DEF p
  <1>2. Drawn => NamesBindRecords
    <2> SUFFICES ASSUME Drawn, case.about = "file", StoreTakes(case.type, case.saved)
                 PROVE  NamesBindRecords
      BY DEF NamesBindRecords, About
    <2>1. FileTyped(case)
      BY CasesAssumption DEF Drawn, NoCase
    <2> DEFINE type == case.type saved == case.saved envelope == case.envelope
    <2>2. /\ type \in RecordTypes /\ StoreTakes(type, saved)
          /\ IsRecord(saved) /\ ("manifest" \in DOMAIN saved => IsManifest(saved.manifest))
          /\ IsRecord(envelope.payload)
          /\ ("manifest" \in DOMAIN envelope.payload => IsManifest(envelope.payload.manifest))
      BY <2>1 DEF FileTyped
    <2> HIDE DEF type, saved, envelope
    <2>3. EnvelopeAccepted(type, RecordId(type, saved), Envelope(type, saved))
      BY <2>2, SavedIsAccepted
    <2>4. ASSUME EnvelopeAccepted(type, RecordId(type, saved), envelope)
          PROVE  IF type = "approval"
                 THEN \A f \in {"contract", "content", "manifest"} : envelope.payload[f] = saved[f]
                 ELSE envelope.payload = saved
      <3>1. /\ Decodable(type, saved) /\ Decodable(type, envelope.payload)
            /\ RecordId(type, saved) = RecordId(type, envelope.payload)
        BY <2>2, <2>4 DEF EnvelopeAccepted, StoreTakes
      <3> QED BY <2>2, <3>1, NameBinds
    <2> QED BY <2>3, <2>4 DEF NamesBindRecords, type, saved, envelope
  <1>3. QED
    BY <1>1, <1>2, CaseIsDrawn, PTL DEF StoredFormsReadAgain

------------------------------------------------------------------------------
(* The order of the fragments *)

\* Of fragments that ascend a later one comes after an earlier one, not only after the one before it.
LEMMA AscendingIsOrdered ==
  ASSUME NEW s, IsFragments(s), Ascending(s), NEW i \in DOMAIN s, NEW j \in DOMAIN s, i < j
  PROVE  Before(Place(s[i]), Place(s[j]))
  <1> DEFINE n == Len(s)
             B(k, l) == s[k].chapter < s[l].chapter \/ (s[k].chapter = s[l].chapter /\ s[k].ordinal < s[l].ordinal)
             Bad == {k \in 1 .. n : i < k /\ ~B(i, k)}
  <1>1. n \in Nat /\ DOMAIN s = 1 .. n
    BY ListHasLength DEF IsFragments
  <1>2. \A k \in 1 .. n - 1 : B(k, k + 1)
    BY DEF Ascending, Before, Place
  <1>3. \A k \in 1 .. n : s[k].chapter \in Int /\ s[k].ordinal \in Int
    BY <1>1 DEF IsFragments
  <1> HIDE DEF n
  <1>4. Bad = {}
    <2> SUFFICES ASSUME Bad # {} PROVE FALSE
      OBVIOUS
    <2>1. PICK k \in Bad : k \in Nat /\ k # 0 /\ k - 1 \in Nat /\ k - 1 \notin Bad
      <3>1. Bad \subseteq Nat /\ 0 \notin Bad
        BY <1>1
      <3> HIDE DEF Bad
      <3> QED BY <3>1, FirstFailure
    <2>2. k \in 1 .. n /\ i < k /\ ~B(i, k)
      OBVIOUS
    <2>3. k - 1 \in 1 .. n - 1 /\ k - 1 \in 1 .. n /\ (k - 1) + 1 = k /\ i \in 1 .. n
      BY <2>1, <2>2, <1>1
    <2>4. B(k - 1, k)
      BY <1>2, <2>3
    <2>5. CASE k - 1 = i
      BY <2>2, <2>4, <2>5
    <2>6. CASE k - 1 # i
      <3>1. i < k - 1
        BY <2>2, <2>3, <2>6
      <3>2. B(i, k - 1)
        BY <2>1, <2>3, <3>1
      <3> QED BY <2>2, <2>3, <2>4, <3>2, <1>3
    <2> QED BY <2>5, <2>6
  <1>5. B(i, j)
    BY <1>1, <1>4
  <1> QED BY <1>5 DEF Before, Place

\* Fragments that ascend take no place twice.
LEMMA AscendingIsInjective ==
  ASSUME NEW s, IsFragments(s), Ascending(s), NEW i \in DOMAIN s, NEW j \in DOMAIN s, Place(s[i]) = Place(s[j])
  PROVE  i = j
  <1>1. i \in Nat /\ j \in Nat
    BY ListHasLength DEF IsFragments
  <1>2. s[i].chapter = s[j].chapter /\ s[i].ordinal = s[j].ordinal
    BY DEF Place
  <1>3. s[i].chapter \in Int /\ s[i].ordinal \in Int
    BY DEF IsFragments
  <1>4. ~Before(Place(s[i]), Place(s[j])) /\ ~Before(Place(s[j]), Place(s[i]))
    BY <1>2, <1>3 DEF Before, Place
  <1>5. ~(i < j) /\ ~(j < i)
    BY <1>4, AscendingIsOrdered
  <1> QED BY <1>1, <1>5

\* As many places as fragments, when no place is taken twice.
LEMMA PlacesCount ==
  ASSUME NEW s, IsList(s), \A i, j \in DOMAIN s : Place(s[i]) = Place(s[j]) => i = j
  PROVE  IsFiniteSet(Places(s)) /\ Cardinality(Places(s)) = Len(s)
  <1> DEFINE P == Places(s) n == Len(s) f == [i \in 1 .. n |-> Place(s[i])]
  <1>1. n \in Nat /\ DOMAIN s = 1 .. n
    BY ListHasLength
  <1>2. \A i \in 1 .. n : f[i] \in P
    BY <1>1 DEF Places, Range
  <1>3. \A p \in P : \E i \in 1 .. n : f[i] = p
    BY <1>1 DEF Places, Range
  <1>4. \A i, j \in 1 .. n : f[i] = f[j] => i = j
    BY <1>1
  <1>5. f = [i \in 1 .. n |-> f[i]]
    OBVIOUS
  <1> HIDE DEF P, n, f
  <1>6. f \in [1 .. n -> P]
    BY <1>2, <1>5
  <1>7. f \in Surjection(1 .. n, P) /\ f \in Injection(1 .. n, P)
    BY <1>3, <1>4, <1>6 DEF Surjection, Injection, IsInjective
  <1>8. IsFiniteSet(1 .. n) /\ Cardinality(1 .. n) = n
    <2>1. 1 \in Int /\ n \in Int /\ n \in Nat
      BY <1>1
    <2>2. IsFiniteSet(1 .. n) /\ Cardinality(1 .. n) = IF 1 > n THEN 0 ELSE n - 1 + 1
      BY <2>1, FS_Interval
    <2> QED BY <2>1, <2>2
  <1> DEFINE D == 1 .. n
  <1>9. IsFiniteSet(D) /\ f \in Surjection(D, P) /\ f \in Injection(D, P)
    BY <1>7, <1>8
  <1> HIDE DEF D
  <1>10. IsFiniteSet(P) /\ Cardinality(P) = Cardinality(D)
    BY <1>9, FS_Surjection
  <1> QED BY <1>8, <1>10 DEF D, P, n
------------------------------------------------------------------------------
(* Publication migrations *)

\* The paragraphs that a plan uses and omits, as the review without an issue leaves them.
Reviewed(used, omitted, archive) ==
    /\ IsFragments(used) /\ IsFragments(omitted) /\ Ascending(used)
    /\ \A i, j \in DOMAIN omitted : Place(omitted[i]) = Place(omitted[j]) => i = j
    /\ Places(used) \intersect Places(omitted) = {}
    /\ Places(used) \union Places(omitted) = DOMAIN archive
    /\ \A f \in Range(used) \union Range(omitted) : InRange(f) /\ Exact(f, archive)

\* The fragments of a plan's units are a list, and each unit has its stretch of it.
LEMMA UnitsInARow ==
  ASSUME NEW plan, IsList(plan.units), \A i \in DOMAIN plan.units : IsFragments(plan.units[i].fragments)
  PROVE  /\ IsFragments(UnitFragments(plan))
         /\ \E off : Offsets(off, [i \in DOMAIN plan.units |-> plan.units[i].fragments], UnitFragments(plan))
  <1> DEFINE rows == [i \in DOMAIN plan.units |-> plan.units[i].fragments]
  <1>1. DOMAIN rows = DOMAIN plan.units /\ rows = [i \in DOMAIN plan.units |-> rows[i]]
    OBVIOUS
  <1>2. \A i \in DOMAIN rows : IsFragments(rows[i])
    OBVIOUS
  <1>3. UnitFragments(plan) = FlattenSeq(rows)
    BY DEF UnitFragments
  <1> HIDE DEF rows
  <1>4. IsList(rows)
    <2> DEFINE s == plan.units
    <2>1. IsList(s) /\ DOMAIN rows = DOMAIN s /\ rows = [i \in DOMAIN s |-> rows[i]]
      BY <1>1
    <2> HIDE DEF s
    <2> QED BY <2>1, MappedList
  <1>5. IsFragments(FlattenSeq(rows)) /\ \E off : Offsets(off, rows, FlattenSeq(rows))
    BY <1>2, <1>4, FragmentsInARow
  <1> QED BY <1>3, <1>5 DEF rows

\* The fragments of a plan's omissions are a list.
LEMMA OmissionsInARow ==
  ASSUME NEW omissions, IsList(omissions), \A i \in DOMAIN omissions : IsFragments(omissions[i].fragments)
  PROVE  IsFragments(OmittedFragments(omissions))
  <1> DEFINE rows == [i \in DOMAIN omissions |-> omissions[i].fragments]
  <1>1. DOMAIN rows = DOMAIN omissions /\ rows = [i \in DOMAIN omissions |-> rows[i]]
    OBVIOUS
  <1>2. \A i \in DOMAIN rows : IsFragments(rows[i])
    OBVIOUS
  <1>3. OmittedFragments(omissions) = FlattenSeq(rows)
    BY DEF OmittedFragments
  <1> HIDE DEF rows
  <1>4. IsList(rows)
    BY <1>1, MappedList
  <1> QED BY <1>2, <1>3, <1>4, FragmentsInARow

\* What a review without an issue says of a plan.
LEMMA ReviewLeaves ==
  ASSUME NEW plan, NEW snapshot, NEW archive, Review(plan, snapshot, archive) = {},
         IsFragments(UnitFragments(plan)), IsFragments(OmittedFragments(plan.omissions))
  PROVE  /\ Reviewed(UnitFragments(plan), OmittedFragments(plan.omissions), archive)
         /\ \A f \in Range(OmittedFragments(plan.omissions)) : WithinScope(f.chapter, plan, archive)
         /\ \A i \in DOMAIN plan.units : plan.units[i].fragments # <<>>
  <1> DEFINE used == UnitFragments(plan)
             omitted == OmittedFragments(plan.omissions)
  <1>1. OrderIssues(plan) = {} /\ \A i \in DOMAIN plan.units : UnitIssues(plan.units[i], archive) = {}
    BY DEF Review
  <1>2. /\ \A f \in Range(used) \union Range(omitted) : InRange(f) /\ Exact(f, archive)
        /\ \A f \in Range(omitted) : WithinScope(f.chapter, plan, archive)
        /\ Places(used) \union Places(omitted) = DOMAIN archive
    <2> DEFINE A == plan.snapshot # snapshot
               B == \E f \in Range(used) \union Range(omitted) : ~InRange(f)
               C == \E f \in Range(used) \union Range(omitted) : ~Exact(f, archive)
               D == \E i \in DOMAIN plan.omissions : plan.omissions[i].snapshot # snapshot
               E == \E f \in Range(omitted) : ~WithinScope(f.chapter, plan, archive)
               F == Places(used) \union Places(omitted) # DOMAIN archive
               Codes == {c \in {"source_snapshot_mismatch", "source_fragment_forbidden", "source_hash_mismatch",
                                "omission_snapshot_mismatch", "omission_scope_requires_review",
                                "source_fragment_missing"} :
                            \/ c = "source_snapshot_mismatch" /\ A
                            \/ c = "source_fragment_forbidden" /\ B
                            \/ c = "source_hash_mismatch" /\ C
                            \/ c = "omission_snapshot_mismatch" /\ D
                            \/ c = "omission_scope_requires_review" /\ E
                            \/ c = "source_fragment_missing" /\ F}
               Others == OrderIssues(plan) \union (UNION {UnitIssues(plan.units[i], archive) : i \in DOMAIN plan.units})
    <2>1. Review(plan, snapshot, archive) = Others \union Codes
      BY DEF Review
    <2>2. Codes = {}
      <3> HIDE DEF Others, Codes
      <3> QED BY <2>1
    <2> HIDE DEF A, B, C, D, E, F
    <2>3. ~B /\ ~C /\ ~E /\ ~F
      BY <2>2
    <2> QED BY <2>3 DEF B, C, E, F
  <1>3. Ascending(used) /\ Places(used) \cap Places(omitted) = {} /\ IsInjective([i \in DOMAIN omitted |-> Place(omitted[i])])
    BY <1>1 DEF OrderIssues
  <1>4. \A i \in DOMAIN plan.units : plan.units[i].fragments # <<>>
    BY <1>1 DEF UnitIssues
  <1>5. \A i, j \in DOMAIN omitted : Place(omitted[i]) = Place(omitted[j]) => i = j
    BY <1>3 DEF IsInjective
  <1> HIDE DEF used, omitted
  <1>6. Reviewed(used, omitted, archive)
    BY <1>2, <1>3, <1>5 DEF Reviewed, used, omitted
  <1> QED BY <1>2, <1>4, <1>6 DEF used, omitted

PartsOf(plan, archive) ==
    LET used == UnitFragments(plan) omitted == OmittedFragments(plan.omissions)
        ofChapter(places, c) == Cardinality({p \in places : p[1] = c})
    IN /\ Len(used) + Len(omitted) = Cardinality(DOMAIN archive)
       /\ Places(used) \union Places(omitted) = DOMAIN archive
       /\ \A c \in {p[1] : p \in DOMAIN archive} : ofChapter(Places(used), c) > ofChapter(Places(omitted), c)

\* A plan without an issue divides the archive into what is used and what is omitted.
LEMMA PlanPartitions ==
  ASSUME NEW plan, NEW snapshot, NEW archive, Review(plan, snapshot, archive) = {},
         IsFragments(UnitFragments(plan)), IsFragments(OmittedFragments(plan.omissions))
  PROVE  PartsOf(plan, archive)
  <1> DEFINE used == UnitFragments(plan)
             omitted == OmittedFragments(plan.omissions)
             U == Places(used)
             O == Places(omitted)
             In(S, c) == {p \in S : p[1] = c}
  <1>1. /\ Reviewed(used, omitted, archive)
        /\ \A f \in Range(omitted) : WithinScope(f.chapter, plan, archive)
    BY ReviewLeaves
  <1>2. \A f \in Range(omitted) :
           Cardinality(In(U, f.chapter)) > 0 /\ 2 * Cardinality(In(O, f.chapter)) < Cardinality(In(DOMAIN archive, f.chapter))
    BY <1>1 DEF WithinScope
  <1>3. \A p \in O : \E f \in Range(omitted) : p[1] = f.chapter
    BY DEF Places, Place
  <1> HIDE DEF used, omitted
  <1>4. /\ IsFragments(used) /\ IsFragments(omitted) /\ Ascending(used) /\ U \intersect O = {} /\ U \union O = DOMAIN archive
        /\ \A i, j \in DOMAIN omitted : Place(omitted[i]) = Place(omitted[j]) => i = j
    BY <1>1 DEF Reviewed
  <1>5. \A i, j \in DOMAIN used : Place(used[i]) = Place(used[j]) => i = j
    BY <1>4, AscendingIsInjective
  <1>6. IsList(used) /\ IsList(omitted)
    BY <1>4 DEF IsFragments
  <1>7. IsFiniteSet(U) /\ Cardinality(U) = Len(used) /\ IsFiniteSet(O) /\ Cardinality(O) = Len(omitted)
    BY <1>4, <1>5, <1>6, PlacesCount
  <1> HIDE DEF U, O
  <1>8. Len(used) + Len(omitted) = Cardinality(DOMAIN archive)
    <2>1. Cardinality(U \union O) = Cardinality(U) + Cardinality(O) - Cardinality(U \intersect O)
      BY <1>7, FS_Union
    <2>2. Cardinality(U \intersect O) = 0
      BY <1>4, FS_EmptySet
    <2>3. Len(used) \in Nat /\ Len(omitted) \in Nat
      BY <1>6, ListHasLength
    <2> QED BY <2>1, <2>2, <2>3, <1>4, <1>7
  <1>9. ASSUME NEW c \in {p[1] : p \in DOMAIN archive}
        PROVE  Cardinality(In(U, c)) > Cardinality(In(O, c))
    <2> DEFINE A == In(U, c)
               B == In(O, c)
    <2>1. A \subseteq U /\ B \subseteq O
      OBVIOUS
    <2>2. A \union B = In(DOMAIN archive, c) /\ A \intersect B = {}
      BY <1>4
    <2>3. PICK p \in DOMAIN archive : p[1] = c
      OBVIOUS
    <2>4. p \in A \/ p \in B
      BY <2>2, <2>3
    <2>5. B # {} => Cardinality(A) > 0 /\ 2 * Cardinality(B) < Cardinality(A \union B)
      <3> SUFFICES ASSUME NEW q \in B PROVE Cardinality(A) > 0 /\ 2 * Cardinality(B) < Cardinality(A \union B)
        OBVIOUS
      <3>1. q \in O /\ q[1] = c
        OBVIOUS
      <3>2. PICK f \in Range(omitted) : f.chapter = c
        BY <1>3, <3>1
      <3> QED BY <1>2, <2>2, <3>2
    <2> HIDE DEF A, B
    <2>6. IsFiniteSet(A) /\ IsFiniteSet(B)
      BY <2>1, <1>7, FS_Subset
    <2>7. Cardinality(A) \in Nat /\ Cardinality(B) \in Nat
      BY <2>6, FS_CardinalityType
    <2>8. Cardinality(A \union B) = Cardinality(A) + Cardinality(B)
      <3>1. Cardinality(A \union B) = Cardinality(A) + Cardinality(B) - Cardinality(A \intersect B)
        BY <2>6, FS_Union
      <3>2. Cardinality(A \intersect B) = 0
        BY <2>2, FS_EmptySet
      <3> QED BY <3>1, <3>2, <2>7
    <2>9. CASE B = {}
      <3>1. Cardinality(B) = 0
        BY <2>9, FS_EmptySet
      <3>2. Cardinality(A) # 0
        BY <2>4, <2>9, <2>6, FS_EmptySet
      <3>3. Cardinality(A) > Cardinality(B)
        BY <3>1, <3>2, <2>7
      <3> QED BY <3>3 DEF A, B
    <2>10. CASE B # {}
      <3>1. Cardinality(A) > Cardinality(B)
        BY <2>5, <2>7, <2>8, <2>10
      <3> QED BY <3>1 DEF A, B
    <2> QED BY <2>9, <2>10
  <1>10. Places(used) \union Places(omitted) = DOMAIN archive
    BY <1>4 DEF U, O
  <1> QED BY <1>8, <1>9, <1>10 DEF PartsOf, U, O, used, omitted

\* Of sequences with one element each the row is the sequence of these.
LEMMA FlattenSingles ==
  ASSUME NEW s, IsList(s), NEW rows, IsList(rows), Len(rows) = Len(s), \A i \in DOMAIN s : rows[i] = <<s[i]>>
  PROVE  FlattenSeq(rows) = s
  <1> DEFINE n == Len(s)
             S == Range(s)
             row == FlattenSeq(rows)
  <1>1. n \in Nat /\ DOMAIN s = 1 .. n /\ DOMAIN rows = 1 .. n /\ \A i \in 1 .. n : s[i] \in S
    BY ListHasLength
  <1>2. s \in Seq(S)
    BY DEF IsList
  <1> HIDE DEF n, S, row
  <1>3. \A i \in DOMAIN rows : rows[i] \in Seq(S) /\ Len(rows[i]) = 1 /\ rows[i][1] = s[i] /\ 1 \in 1 .. Len(rows[i])
    <2> TAKE i \in DOMAIN rows
    <2> DEFINE x == s[i]
    <2>1. rows[i] = <<x>> /\ x \in S
      BY <1>1
    <2> HIDE DEF x
    <2>2. <<x>> \in Seq(S) /\ Len(<<x>>) = 1 /\ <<x>>[1] = x
      BY <2>1
    <2> QED BY <2>1, <2>2 DEF x
  <1>4. rows \in Seq(Seq(S))
    <2> DEFINE T == Seq(S)
    <2> HIDE DEF T
    <2>1. rows \in Seq(T)
      BY <1>3, WiderList DEF T
    <2> QED BY <2>1 DEF T
  <1>5. row \in Seq(S)
    BY <1>4, FlattenRows DEF row
  <1>6. PICK off : Offsets(off, rows, row)
    BY <1>4, FlattenRows DEF row
  <1>7. /\ off[1] = 0 /\ off[n + 1] = Len(row)
        /\ \A i \in 1 .. n : off[i + 1] = off[i] + 1
        /\ \A i \in 1 .. n : off[i] + 1 \in 1 .. Len(row) /\ row[off[i] + 1] = s[i]
    <2>1. Len(rows) = n
      BY DEF n
    <2>2. off[1] = 0 /\ off[n + 1] = Len(row)
      BY <1>6, <2>1 DEF Offsets
    <2>3. \A i \in 1 .. n : off[i + 1] = off[i] + 1
      BY <1>1, <1>3, <1>6, <2>1 DEF Offsets
    <2>4. \A i \in 1 .. n : \A j \in 1 .. Len(rows[i]) : off[i] + j \in 1 .. Len(row) /\ row[off[i] + j] = rows[i][j]
      BY <1>6, <2>1 DEF Offsets
    <2>5. \A i \in 1 .. n : 1 \in 1 .. Len(rows[i]) /\ rows[i][1] = s[i]
      BY <1>1, <1>3
    <2> HIDE DEF Offsets
    <2> QED BY <2>2, <2>3, <2>4, <2>5
  <1> DEFINE Bad == {k \in 1 .. n + 1 : off[k] # k - 1}
  <1>8. Bad = {}
    <2> SUFFICES ASSUME Bad # {} PROVE FALSE
      OBVIOUS
    <2>1. PICK k \in Bad : k \in Nat /\ k # 0 /\ k - 1 \in Nat /\ k - 1 \notin Bad
      <3>1. Bad \subseteq Nat /\ 0 \notin Bad
        BY <1>1
      <3> HIDE DEF Bad
      <3> QED BY <3>1, FirstFailure
    <2>2. k \in 1 .. n + 1 /\ off[k] # k - 1
      OBVIOUS
    <2>3. k # 1
      BY <1>7, <2>2
    <2>4. k - 1 \in 1 .. n /\ k - 1 \in 1 .. n + 1 /\ (k - 1) + 1 = k
      BY <2>1, <2>2, <2>3, <1>1
    <2>5. off[k - 1] = (k - 1) - 1
      BY <2>1, <2>4
    <2>6. off[k] = off[k - 1] + 1
      BY <1>7, <2>4
    <2> QED BY <2>1, <2>2, <2>5, <2>6
  <1>9. \A k \in 1 .. n + 1 : off[k] = k - 1
    BY <1>8
  <1>10. Len(row) = n
    BY <1>1, <1>7, <1>9
  <1>11. \A i \in 1 .. n : row[i] = s[i]
    <2> TAKE i \in 1 .. n
    <2>1. off[i] + 1 = i
      BY <1>1, <1>9
    <2> QED BY <1>7, <2>1
  <1>12. row = s
    BY <1>1, <1>2, <1>5, <1>10, <1>11 DEF n
  <1> QED BY <1>12 DEF row

\* One sequence in a row is that sequence.
LEMMA FlattenOne ==
  ASSUME NEW s, IsList(s)
  PROVE  FlattenSeq(<<s>>) = s
  <1> DEFINE S == Range(s) rows == <<s>>
  <1>1. s \in Seq(S)
    BY DEF IsList
  <1> HIDE DEF S
  <1>2. rows \in Seq(Seq(S)) /\ Len(rows) = 1 /\ rows[1] = s
    BY <1>1
  <1> HIDE DEF rows
  <1>3. PICK f : Flattens(f, S, rows, Len(rows)) /\ FlattenSeq(rows) = f[Len(rows)]
    <2>1. rows \in Seq(Seq(S)) /\ Len(rows) # 0
      BY <1>2
    <2> QED BY <2>1, FlattenFolds
  <1>4. f[1] = FlattenStep(f, rows, 1)
    BY <1>2, <1>3 DEF Flattens
  <1> QED BY <1>2, <1>3, <1>4 DEF FlattenStep, rows

\* Empty sequences in a row are empty.
LEMMA FlattenEmpties ==
  ASSUME NEW rows, IsList(rows), \A i \in DOMAIN rows : rows[i] = <<>>
  PROVE  FlattenSeq(rows) = <<>>
  <1> DEFINE n == Len(rows) S == {}
  <1>1. n \in Nat /\ DOMAIN rows = 1 .. n
    BY ListHasLength
  <1>2. \A i \in DOMAIN rows : rows[i] \in Seq(S)
    <2>1. <<>> \in Seq(S)
      OBVIOUS
    <2> HIDE DEF S
    <2> QED BY <2>1
  <1>3. rows \in Seq(Seq(S))
    <2> DEFINE T == Seq(S)
    <2> HIDE DEF T
    <2>1. rows \in Seq(T)
      BY <1>2, WiderList DEF T
    <2> QED BY <2>1 DEF T
  <1> HIDE DEF S
  <1>4. FlattenSeq(rows) \in Seq(S)
    BY <1>3, FlattenRows
  <1> DEFINE row == FlattenSeq(rows)
  <1>5. row \in Seq(S) /\ S = {}
    BY <1>4 DEF S
  <1> HIDE DEF row
  <1>6. row = <<>>
    BY <1>5
  <1> QED BY <1>6 DEF row

\* No unit of a reviewed plan is there twice: its first fragment would be.
LEMMA UnitsDiffer ==
  ASSUME NEW plan, IsList(plan.units), \A i \in DOMAIN plan.units : IsFragments(plan.units[i].fragments),
         \A i \in DOMAIN plan.units : plan.units[i].fragments # <<>>, Ascending(UnitFragments(plan))
  PROVE  IsInjective(plan.units)
  <1> DEFINE rows == [i \in DOMAIN plan.units |-> plan.units[i].fragments]
             row == UnitFragments(plan)
             n == Len(plan.units)
  <1>1. IsFragments(row) /\ \E off : Offsets(off, rows, row)
    BY UnitsInARow
  <1>2. n \in Nat /\ DOMAIN plan.units = 1 .. n
    <2> DEFINE s == plan.units
    <2>1. IsList(s)
      OBVIOUS
    <2> HIDE DEF s
    <2>2. Len(s) \in Nat /\ DOMAIN s = 1 .. Len(s)
      BY <2>1, ListHasLength
    <2> QED BY <2>2 DEF s
  <1>3. DOMAIN rows = 1 .. n /\ rows = [i \in 1 .. n |-> rows[i]] /\ \A i \in 1 .. n : IsFragments(rows[i]) /\ rows[i] # <<>>
    BY <1>2
  <1>4. \A i, j \in 1 .. n : plan.units[i] = plan.units[j] => rows[i] = rows[j]
    BY <1>2
  <1> HIDE DEF rows
  <1>5. IsList(rows) /\ Len(rows) = n
    <2> DEFINE s == plan.units
    <2>1. IsList(s) /\ DOMAIN rows = DOMAIN s /\ rows = [i \in DOMAIN s |-> rows[i]] /\ n = Len(s)
      BY <1>2, <1>3
    <2> HIDE DEF s, n
    <2> QED BY <2>1, MappedList
  <1> HIDE DEF row, n
  <1>6. PICK off : Offsets(off, rows, row)
    BY <1>1
  <1>7. Ascending(row)
    BY DEF row
  <1>8. ASSUME NEW i \in 1 .. n, NEW j \in 1 .. n, i < j PROVE rows[i] # rows[j]
    <2>1. \A k \in DOMAIN rows : Len(rows[k]) \in Nat
      <3> TAKE k \in DOMAIN rows
      <3> DEFINE r == rows[k]
      <3>1. IsList(r)
        BY <1>3 DEF IsFragments
      <3> HIDE DEF r
      <3>2. Len(r) \in Nat
        BY <3>1, ListHasLength
      <3> QED BY <3>2 DEF r
    <2>2. off[i] + Len(rows[i]) <= off[j]
      BY <1>3, <1>5, <1>6, <1>8, <2>1, OffsetsGrow
    <2>3. 1 <= Len(rows[i]) /\ 1 <= Len(rows[j])
      <3>1. \A k \in 1 .. n : 1 <= Len(rows[k])
        <4> TAKE k \in 1 .. n
        <4> DEFINE r == rows[k]
        <4>1. r \in Seq(Range(r)) /\ r # <<>>
          BY <1>3 DEF IsFragments, IsList
        <4> HIDE DEF r
        <4>2. 1 <= Len(r)
          BY <4>1
        <4> QED BY <4>2 DEF r
      <3> QED BY <3>1
    <2>4. /\ off[i] + 1 \in 1 .. Len(row) /\ row[off[i] + 1] = rows[i][1]
          /\ off[j] + 1 \in 1 .. Len(row) /\ row[off[j] + 1] = rows[j][1]
      <3>1. i \in 1 .. Len(rows) /\ j \in 1 .. Len(rows)
        BY <1>5
      <3>2. 1 \in 1 .. Len(rows[i]) /\ 1 \in 1 .. Len(rows[j])
        BY <2>1, <2>3, <1>3
      <3> QED BY <1>6, <3>1, <3>2 DEF Offsets
    <2>5. off[i] \in Nat /\ off[j] \in Nat
      <3>1. i \in 1 .. Len(rows) + 1 /\ j \in 1 .. Len(rows) + 1
        BY <1>2, <1>5 DEF n
      <3> QED BY <1>6, <3>1 DEF Offsets
    <2>6. off[i] + 1 # off[j] + 1
      BY <2>1, <2>2, <2>3, <2>5, <1>3
    <2>7. DOMAIN row = 1 .. Len(row)
      BY <1>1, ListHasLength DEF IsFragments
    <2>8. Place(row[off[i] + 1]) # Place(row[off[j] + 1])
      BY <1>1, <1>7, <2>4, <2>6, <2>7, AscendingIsInjective
    <2> QED BY <2>4, <2>8
  <1>9. ASSUME NEW i \in 1 .. n, NEW j \in 1 .. n, plan.units[i] = plan.units[j] PROVE i = j
    <2>1. rows[i] = rows[j]
      BY <1>4, <1>9
    <2>2. ~(i < j) /\ ~(j < i)
      BY <1>8, <2>1
    <2>3. i \in Int /\ j \in Int
      OBVIOUS
    <2> QED BY <2>2, <2>3
  <1>10. DOMAIN plan.units = 1 .. n
    BY <1>2
  <1> QED BY <1>9, <1>10 DEF IsInjective

\* The chapters that follow a reviewed plan to the letter pass the check of the source coverage.
LEMMA PlanCanBeWritten ==
  ASSUME NEW plan, NEW snapshot, NEW archive, NEW texts, NEW first, Review(plan, snapshot, archive) = {},
         DOMAIN archive # {}, first \in Int,
         IsList(plan.units), \A i \in DOMAIN plan.units : IsFragments(plan.units[i].fragments),
         IsFragments(OmittedFragments(plan.omissions))
  PROVE  SourceCovered(archive, plan, Natural(plan, texts, first), OmittedFragments(plan.omissions), texts)
  <1> DEFINE units == plan.units
             used == UnitFragments(plan)
             omitted == OmittedFragments(plan.omissions)
             entries == Natural(plan, texts, first)
             n == Len(units)
  <1>1. IsFragments(used)
    BY UnitsInARow
  <1>2. /\ Reviewed(used, omitted, archive)
        /\ \A f \in Range(omitted) : WithinScope(f.chapter, plan, archive)
        /\ \A i \in DOMAIN units : units[i].fragments # <<>>
    BY <1>1, ReviewLeaves
  <1>3. Ascending(used)
    BY <1>2 DEF Reviewed
  <1>4. IsInjective(units)
    BY <1>2, <1>3, UnitsDiffer
  <1>5. n \in Nat /\ DOMAIN units = 1 .. n
    <2>1. IsList(units)
      OBVIOUS
    <2> HIDE DEF units
    <2> QED BY <2>1, ListHasLength
  <1>6. /\ DOMAIN entries = 1 .. n /\ entries = [i \in 1 .. n |-> entries[i]]
        /\ \A i \in 1 .. n : /\ entries[i].target = first + i - 1 /\ entries[i].body = texts[first + i - 1]
                             /\ entries[i].omissions = <<>>
                             /\ entries[i].mappings = [j \in DOMAIN units[i].fragments |->
                                    [fragment |-> units[i].fragments[j], body |-> texts[first + i - 1]]]
                             /\ entries[i].outcomes = <<[id |-> i, unit |-> units[i]]>>
    BY <1>5 DEF Natural
  <1>7. \A i \in 1 .. n : [j \in DOMAIN entries[i].mappings |-> entries[i].mappings[j].fragment] = units[i].fragments
    <2> TAKE i \in 1 .. n
    <2> DEFINE fs == units[i].fragments m == entries[i].mappings
    <2>1. IsList(fs)
      BY <1>5 DEF IsFragments
    <2>2. m = [j \in DOMAIN fs |-> [fragment |-> fs[j], body |-> texts[first + i - 1]]]
      BY <1>6
    <2> HIDE DEF fs, m
    <2>3. fs = [j \in DOMAIN fs |-> fs[j]]
      BY <2>1 DEF IsList
    <2>4. [j \in DOMAIN m |-> m[j].fragment] = fs
      BY <2>2, <2>3
    <2> QED BY <2>4 DEF fs, m
  <1>8. Consumed(entries) = used
    <2> DEFINE rows == [i \in DOMAIN entries |-> [j \in DOMAIN entries[i].mappings |-> entries[i].mappings[j].fragment]]
               of == [i \in DOMAIN units |-> units[i].fragments]
    <2>1. rows = of
      BY <1>5, <1>6, <1>7
    <2>2. Consumed(entries) = FlattenSeq(rows) /\ used = FlattenSeq(of)
      BY DEF Consumed, UnitFragments
    <2> HIDE DEF rows, of
    <2> QED BY <2>1, <2>2
  <1>9. EntryUnits(entries) = units
    <2> DEFINE rows == [i \in DOMAIN entries |-> [j \in DOMAIN entries[i].outcomes |-> entries[i].outcomes[j].unit]]
    <2>1. DOMAIN rows = 1 .. n /\ rows = [i \in 1 .. n |-> rows[i]]
      BY <1>6
    <2>2. \A i \in 1 .. n : rows[i] = <<units[i]>>
      <3> TAKE i \in 1 .. n
      <3> DEFINE o == [id |-> i, unit |-> units[i]]
      <3>1. rows[i] = [j \in DOMAIN <<o>> |-> <<o>>[j].unit] /\ o.unit = units[i]
        BY <1>6
      <3> HIDE DEF o, rows
      <3>2. rows[i] = <<o.unit>>
        BY <3>1
      <3> QED BY <3>1, <3>2
    <2>3. EntryUnits(entries) = FlattenSeq(rows)
      BY DEF EntryUnits
    <2>4. IsList(units)
      OBVIOUS
    <2> HIDE DEF rows, units, entries
    <2>5. IsList(rows) /\ Len(rows) = Len(units)
      BY <1>5, <2>1, <2>4, MappedList DEF n
    <2> QED BY <1>5, <2>2, <2>3, <2>4, <2>5, FlattenSingles
  <1>10. AllOmissions(entries, omitted) = omitted
    <2> DEFINE rows == [i \in DOMAIN entries |-> entries[i].omissions]
    <2>1. DOMAIN rows = 1 .. n /\ rows = [i \in 1 .. n |-> rows[i]] /\ \A i \in 1 .. n : rows[i] = <<>>
      BY <1>6
    <2>2. AllOmissions(entries, omitted) = omitted \o FlattenSeq(rows)
      BY DEF AllOmissions
    <2>3. IsList(units)
      OBVIOUS
    <2>4. IsList(omitted)
      BY DEF IsFragments
    <2> HIDE DEF rows, units, entries, omitted
    <2>5. IsList(rows)
      BY <1>5, <2>1, <2>3, MappedList DEF n
    <2>6. FlattenSeq(rows) = <<>>
      BY <2>1, <2>5, FlattenEmpties
    <2>7. omitted \o <<>> = omitted
      BY <2>4 DEF IsList
    <2> QED BY <2>2, <2>6, <2>7
  <1>11. n # 0
    <2> SUFFICES ASSUME n = 0 PROVE FALSE
      OBVIOUS
    <2>1. used = <<>>
      <3> DEFINE rows == [i \in DOMAIN units |-> units[i].fragments]
      <3>1. DOMAIN rows = {} /\ rows = [i \in DOMAIN units |-> rows[i]]
        BY <1>5
      <3>2. used = FlattenSeq(rows) /\ IsList(units)
        BY DEF UnitFragments
      <3> HIDE DEF rows, units, used
      <3>3. IsList(rows)
        BY <3>1, <3>2, <1>5, MappedList
      <3> QED BY <3>1, <3>2, <3>3, FlattenEmpties
    <2>2. Places(used) = {}
      BY <2>1 DEF Places, Range
    <2>3. PICK f \in Range(omitted) : TRUE
      BY <2>2, <1>2 DEF Reviewed, Places
    <2>4. WithinScope(f.chapter, plan, archive)
      BY <1>2, <2>3
    <2>5. Cardinality({p \in Places(used) : p[1] = f.chapter}) > 0
      BY <2>4 DEF WithinScope
    <2>6. {p \in Places(used) : p[1] = f.chapter} = {}
      BY <2>2
    <2>7. Cardinality({}) = 0
      BY FS_EmptySet
    <2> DEFINE none == {p \in Places(used) : p[1] = f.chapter}
    <2>8. none = {} /\ Cardinality(none) > 0
      BY <2>5, <2>6
    <2> HIDE DEF none
    <2> QED BY <2>7, <2>8
  <1> HIDE DEF units, used, omitted, entries
  <1>12. entries # <<>> /\ Consecutive(entries)
    <2>1. entries # <<>>
      <3>1. 1 \in DOMAIN entries
        BY <1>5, <1>6, <1>11
      <3>2. DOMAIN <<>> = {}
        OBVIOUS
      <3> QED BY <3>1, <3>2
    <2>2. 1 \in 1 .. n /\ entries[1].target = first
      <3>1. 1 \in 1 .. n
        BY <1>5, <1>11
      <3>2. entries[1].target = first + 1 - 1
        BY <1>6, <3>1
      <3> QED BY <3>1, <3>2
    <2>3. \A i \in 1 .. n : entries[i].target = entries[1].target + i - 1
      BY <1>6, <2>2
    <2> QED BY <2>1, <2>3, <1>6 DEF Consecutive
  <1>13. \A i \in DOMAIN entries : /\ entries[i].body = texts[entries[i].target]
                                   /\ \A j \in DOMAIN entries[i].mappings : entries[i].mappings[j].body = entries[i].body
    <2> TAKE i \in DOMAIN entries
    <2> DEFINE fs == units[i].fragments m == entries[i].mappings b == texts[first + i - 1]
    <2>1. i \in 1 .. n /\ entries[i].body = b /\ entries[i].target = first + i - 1
      BY <1>6
    <2>2. m = [j \in DOMAIN fs |-> [fragment |-> fs[j], body |-> b]]
      BY <1>6, <2>1
    <2>3. texts[entries[i].target] = b
      BY <2>1
    <2> HIDE DEF fs, m, b
    <2>4. \A j \in DOMAIN m : m[j].body = b
      BY <2>2
    <2> QED BY <2>1, <2>3, <2>4 DEF m
  <1>14. /\ \A f \in Range(used) : Exact(f, archive)
         /\ \A f \in Range(omitted) : Place(f) \notin Places(used) /\ Exact(f, archive)
         /\ Places(used) \union Places(omitted) = DOMAIN archive
    <2>1. \A f \in Range(omitted) : Place(f) \in Places(omitted)
      BY DEF Places
    <2> QED BY <2>1, <1>2 DEF Reviewed
  <1>15. BoundToUnits(entries, plan)
    <2>1. \A i \in DOMAIN entries :
             /\ entries[i].outcomes # <<>>
             /\ [j \in DOMAIN entries[i].mappings |-> entries[i].mappings[j].fragment]
                   = FlattenSeq([j \in DOMAIN entries[i].outcomes |-> entries[i].outcomes[j].unit.fragments])
      <3> TAKE i \in DOMAIN entries
      <3>1. i \in 1 .. n
        BY <1>6
      <3> DEFINE o == [id |-> i, unit |-> units[i]] fs == units[i].fragments
                 row == [j \in DOMAIN entries[i].outcomes |-> entries[i].outcomes[j].unit.fragments]
      <3>2. entries[i].outcomes = <<o>> /\ o.unit.fragments = fs
        BY <1>6, <3>1
      <3>3. IsList(fs)
        BY <3>1, <1>5 DEF IsFragments, units
      <3>4. [j \in DOMAIN entries[i].mappings |-> entries[i].mappings[j].fragment] = fs
        BY <3>1, <1>7
      <3> HIDE DEF o, fs
      <3>5. row = <<fs>>
        BY <3>2
      <3>6. FlattenSeq(<<fs>>) = fs
        BY <3>3, FlattenOne
      <3>7. entries[i].outcomes # <<>>
        BY <3>2
      <3> HIDE DEF row
      <3>8. FlattenSeq(row) = fs
        BY <3>5, <3>6
      <3> QED BY <3>4, <3>7, <3>8 DEF row
    <2>2. EntryUnits(entries) = plan.units /\ IsInjective(plan.units)
      BY <1>4, <1>9 DEF units
    <2> QED BY <2>1, <2>2 DEF BoundToUnits
  <1>16. OmissionsApproved(omitted, plan)
    <2>1. IsInjective([i \in DOMAIN omitted |-> Place(omitted[i])])
      BY <1>2 DEF Reviewed, IsInjective
    <2>2. Range([i \in DOMAIN omitted |-> Place(omitted[i])]) = Places(omitted)
      BY DEF Range, Places
    <2>3. \A i \in DOMAIN omitted : omitted[i] \in Range(omitted)
      BY DEF Range
    <2> QED BY <2>1, <2>2, <2>3 DEF OmissionsApproved, omitted
  <1>17. NothingRepeated(entries)
    <2> SUFFICES ASSUME NEW i \in 1 .. Len(entries) - 1
                 PROVE  /\ {entries[i].outcomes[j].id : j \in DOMAIN entries[i].outcomes}
                              \cap {entries[i + 1].outcomes[j].id : j \in DOMAIN entries[i + 1].outcomes} = {}
                        /\ {entries[i].outcomes[j].unit : j \in DOMAIN entries[i].outcomes}
                              \cap {entries[i + 1].outcomes[j].unit : j \in DOMAIN entries[i + 1].outcomes} = {}
      BY DEF NothingRepeated
    <2>1. Len(entries) = n
      <3>1. DOMAIN entries = 1 .. n /\ entries = [k \in 1 .. n |-> entries[k]]
        BY <1>6
      <3> QED BY <3>1, <1>5
    <2>2. i \in 1 .. n /\ i + 1 \in 1 .. n /\ i # i + 1
      BY <2>1, <1>5
    <2>3. \A k \in 1 .. n : /\ {entries[k].outcomes[j].id : j \in DOMAIN entries[k].outcomes} = {k}
                            /\ {entries[k].outcomes[j].unit : j \in DOMAIN entries[k].outcomes} = {units[k]}
      <3> TAKE k \in 1 .. n
      <3> DEFINE o == [id |-> k, unit |-> units[k]] os == entries[k].outcomes
      <3>1. os = <<o>> /\ o.id = k /\ o.unit = units[k]
        BY <1>6
      <3> HIDE DEF o, os
      <3>2. {os[j].id : j \in DOMAIN os} = {k} /\ {os[j].unit : j \in DOMAIN os} = {units[k]}
        BY <3>1
      <3> QED BY <3>2 DEF os
    <2>4. units[i] # units[i + 1]
      BY <2>2, <1>4, <1>5 DEF IsInjective
    <2> QED BY <2>2, <2>3, <2>4
  <1>18. SourceCovered(archive, plan, entries, omitted, texts)
    BY <1>3, <1>8, <1>10, <1>12, <1>13, <1>14, <1>15, <1>16, <1>17 DEF SourceCovered
  <1> QED BY <1>18 DEF entries, omitted

\* Two lists make a list.
LEMMA RowIsList ==
  ASSUME NEW a, NEW b, IsList(a), IsList(b)
  PROVE  IsList(a \o b)
  <1> DEFINE S == Range(a) \union Range(b) row == a \o b
  <1>1. \A i \in DOMAIN a : a[i] \in S
    BY DEF Range
  <1>2. \A i \in DOMAIN b : b[i] \in S
    BY DEF Range
  <1> HIDE DEF S
  <1>3. a \in Seq(S) /\ b \in Seq(S)
    BY <1>1, <1>2, WiderList
  <1>4. row \in Seq(S)
    BY <1>3
  <1> HIDE DEF row
  <1>5. row \in Seq(Range(row))
    <2> DEFINE T == Range(row)
    <2>1. \A i \in 1 .. Len(row) : row[i] \in T
      BY <1>4 DEF Range
    <2> HIDE DEF T
    <2>2. Len(row) \in Nat /\ row = [i \in 1 .. Len(row) |-> row[i]]
      BY <1>4
    <2>3. row \in Seq(T)
      BY <2>1, <2>2
    <2> QED BY <2>3 DEF T
  <1> QED BY <1>5 DEF IsList, row

\* An element of two lists in a row is from the one or from the other.
LEMMA RowParts ==
  ASSUME NEW a, NEW b, IsList(a), IsList(b)
  PROVE  /\ DOMAIN (a \o b) = 1 .. Len(a) + Len(b)
         /\ \A i \in DOMAIN (a \o b) : \/ i \in DOMAIN a /\ (a \o b)[i] = a[i]
                                       \/ i - Len(a) \in DOMAIN b /\ (a \o b)[i] = b[i - Len(a)]
  <1> DEFINE S == Range(a) T == Range(b)
  <1>1. a \in Seq(S) /\ b \in Seq(T)
    BY DEF IsList
  <1>2. Len(a) \in Nat /\ Len(b) \in Nat /\ DOMAIN a = 1 .. Len(a) /\ DOMAIN b = 1 .. Len(b)
    BY ListHasLength
  <1> HIDE DEF S, T
  <1>3. DOMAIN (a \o b) = 1 .. Len(a) + Len(b)
    BY <1>1
  <1>4. ASSUME NEW i \in 1 .. Len(a) + Len(b)
        PROVE  \/ i \in 1 .. Len(a) /\ (a \o b)[i] = a[i]
               \/ i - Len(a) \in 1 .. Len(b) /\ (a \o b)[i] = b[i - Len(a)]
    <2>1. CASE i <= Len(a)
      BY <1>1, <1>2, <2>1
    <2>2. CASE i > Len(a)
      BY <1>1, <1>2, <2>2
    <2> QED BY <1>2, <2>1, <2>2
  <1> QED BY <1>2, <1>3, <1>4

\* Chapters of a reviewed plan that pass the check against the archive form a manifest.
LEMMA CoveredCounts ==
  ASSUME NEW plan, NEW archive, NEW used, NEW omitted, NEW entries, NEW omissions, NEW texts,
         Reviewed(used, omitted, archive), SourceCovered(archive, plan, entries, omissions, texts),
         \A i \in DOMAIN entries : EntryValid(entries[i]),
         IsList(entries), IsFragments(omissions),
         \A i \in DOMAIN entries :
            /\ entries[i].target \in Int /\ IsFragments(entries[i].omissions)
            /\ IsFragments([j \in DOMAIN entries[i].mappings |-> entries[i].mappings[j].fragment])
  PROVE  ManifestValid(entries, omissions, entries[1].target - 1)
  <1> DEFINE used2 == Consumed(entries)
             all == AllOmissions(entries, omissions)
             both == used2 \o all
  <1>1. IsFragments(used2)
    <2> DEFINE rows == [i \in DOMAIN entries |-> [j \in DOMAIN entries[i].mappings |-> entries[i].mappings[j].fragment]]
    <2>1. DOMAIN rows = DOMAIN entries /\ rows = [i \in DOMAIN entries |-> rows[i]]
      OBVIOUS
    <2>2. \A i \in DOMAIN rows : IsFragments(rows[i])
      OBVIOUS
    <2>3. used2 = FlattenSeq(rows)
      BY DEF Consumed
    <2> HIDE DEF rows
    <2>4. IsList(rows)
      BY <2>1, MappedList
    <2> QED BY <2>2, <2>3, <2>4, FragmentsInARow
  <1>2. IsList(all)
    <2> DEFINE rows == [i \in DOMAIN entries |-> entries[i].omissions]
               own == FlattenSeq(rows)
    <2>1. DOMAIN rows = DOMAIN entries /\ rows = [i \in DOMAIN entries |-> rows[i]]
      OBVIOUS
    <2>2. \A i \in DOMAIN rows : IsFragments(rows[i])
      OBVIOUS
    <2>3. all = omissions \o own
      BY DEF AllOmissions
    <2> HIDE DEF rows
    <2>4. IsList(rows)
      BY <2>1, MappedList
    <2>5. IsList(own) /\ IsList(omissions)
      BY <2>2, <2>4, FragmentsInARow DEF IsFragments
    <2> HIDE DEF own, all
    <2>6. all = omissions \o own /\ Len(omissions) \in Nat /\ Len(own) \in Nat
      BY <2>3, <2>5, ListHasLength
    <2> QED BY <2>5, <2>6, RowIsList
  <1>3. /\ Ascending(used2) /\ \A f \in Range(used2) : Exact(f, archive)
        /\ \A f \in Range(all) : Place(f) \notin Places(used2) /\ Exact(f, archive)
        /\ OmissionsApproved(all, plan) /\ Consecutive(entries)
    BY DEF SourceCovered
  <1>4. \A i, j \in DOMAIN all : Place(all[i]) = Place(all[j]) => i = j
    BY <1>3 DEF OmissionsApproved, IsInjective
  <1> HIDE DEF used2, all
  <1>5. \A i, j \in DOMAIN used2 : Place(used2[i]) = Place(used2[j]) => i = j
    BY <1>1, <1>3, AscendingIsInjective
  <1>6. IsList(used2)
    BY <1>1 DEF IsFragments
  <1>7. /\ DOMAIN used2 = 1 .. Len(used2) /\ DOMAIN all = 1 .. Len(all) /\ Len(used2) \in Nat /\ Len(all) \in Nat
        /\ \A i \in DOMAIN used2 : used2[i] \in Range(used2)
        /\ \A i \in DOMAIN all : all[i] \in Range(all)
    BY <1>2, <1>6, ListHasLength
  <1>8. /\ DOMAIN both = 1 .. Len(used2) + Len(all)
        /\ \A i \in DOMAIN both : \/ i \in DOMAIN used2 /\ both[i] = used2[i]
                                  \/ i - Len(used2) \in DOMAIN all /\ both[i] = all[i - Len(used2)]
    BY <1>2, <1>6, RowParts
  <1> HIDE DEF both
  <1>9. \A f \in Range(used2) \union Range(all) : InRange(f)
    <2> TAKE f \in Range(used2) \union Range(all)
    <2>1. Place(f) \in DOMAIN archive
      BY <1>3 DEF Exact
    <2>2. Place(f) \in Places(used) \union Places(omitted)
      BY <2>1 DEF Reviewed
    <2>3. PICK g \in Range(used) \union Range(omitted) : Place(f) = Place(g)
      BY <2>2 DEF Places
    <2>4. f.chapter = g.chapter
      BY <2>3 DEF Place
    <2>5. InRange(g)
      BY <2>3 DEF Reviewed
    <2> QED BY <2>4, <2>5 DEF InRange
  <1>10. \A f \in Range(both) : InRange(f)
    BY <1>7, <1>8, <1>9 DEF Range
  <1>11. ASSUME NEW i \in DOMAIN both, NEW j \in DOMAIN both, Place(both[i]) = Place(both[j]) PROVE i = j
    <2>1. i \in Nat /\ j \in Nat
      BY <1>7, <1>8
    <2>2. \A k \in DOMAIN used2, l \in DOMAIN all : Place(used2[k]) # Place(all[l])
      BY <1>3, <1>7 DEF Places
    <2>3. CASE i \in DOMAIN used2 /\ both[i] = used2[i]
      <3>1. j \in DOMAIN used2 /\ both[j] = used2[j]
        BY <1>8, <1>11, <2>2, <2>3
      <3> QED BY <1>5, <1>11, <2>3, <3>1
    <2>4. CASE i - Len(used2) \in DOMAIN all /\ both[i] = all[i - Len(used2)]
      <3>1. j - Len(used2) \in DOMAIN all /\ both[j] = all[j - Len(used2)]
        BY <1>8, <1>11, <2>2, <2>4
      <3>2. i - Len(used2) = j - Len(used2)
        BY <1>4, <1>11, <2>4, <3>1
      <3> QED BY <2>1, <3>2, <1>7
    <2> QED BY <1>8, <2>3, <2>4
  <1>12. IsInjective([i \in DOMAIN both |-> Place(both[i])])
    BY <1>11 DEF IsInjective
  <1>13. \A i \in DOMAIN entries : entries[i].target = entries[1].target - 1 + i
    <2>1. DOMAIN entries = 1 .. Len(entries) /\ Len(entries) \in Nat
      BY ListHasLength
    <2> TAKE i \in DOMAIN entries
    <2>2. 1 \in DOMAIN entries /\ i \in Nat
      BY <2>1
    <2>3. entries[1].target \in Int /\ entries[i].target = entries[1].target + i - 1
      BY <1>3, <2>2 DEF Consecutive
    <2> QED BY <2>2, <2>3
  <1> QED BY <1>10, <1>12, <1>13 DEF ManifestValid, both, used2, all

\* What is known of a case about a plan.
LEMMA PlanHolds ==
  ASSUME NEW k, k.about = "plan", PlanTyped(k)
  PROVE  /\ IsFragments(UnitFragments(k.plan)) /\ IsFragments(OmittedFragments(k.plan.omissions))
         /\ IsList(k.plan.units) /\ \A i \in DOMAIN k.plan.units : IsFragments(k.plan.units[i].fragments)
         /\ DOMAIN k.archive # {} /\ k.first \in Int
  <1> DEFINE plan == k.plan omissions == k.plan.omissions
  <1>1. IsList(plan.units) /\ \A i \in DOMAIN plan.units : IsFragments(plan.units[i].fragments)
    BY DEF PlanTyped
  <1>2. IsList(omissions) /\ \A i \in DOMAIN omissions : IsFragments(omissions[i].fragments)
    BY DEF PlanTyped
  <1>3. DOMAIN k.archive # {} /\ k.first \in Int
    BY DEF PlanTyped
  <1> HIDE DEF plan, omissions
  <1>4. IsFragments(UnitFragments(plan)) /\ IsFragments(OmittedFragments(omissions))
    BY <1>1, <1>2, UnitsInARow, OmissionsInARow
  <1> QED BY <1>1, <1>3, <1>4 DEF plan, omissions

\* A bounded set of numbers that is not empty has its greatest as Max.
LEMMA GreatestThere ==
  ASSUME NEW T, T \subseteq Nat, T # {}, NEW b \in Nat, \A x \in T : x <= b
  PROVE  Max(T) \in T /\ \A x \in T : Max(T) >= x
  <1> DEFINE D == {b - x : x \in T}
  <1>1. D \subseteq Nat /\ D # {}
    <2>1. \A x \in T : b - x \in Nat
      OBVIOUS
    <2> QED BY <2>1
  <1> HIDE DEF D
  <1>2. PICK d \in D : \A e \in D : d <= e
    BY <1>1, LeastNumber
  <1>3. PICK m \in T : d = b - m
    BY <1>2 DEF D
  <1>4. \A x \in T : m >= x
    <2> TAKE x \in T
    <2>1. b - x \in D
      BY DEF D
    <2>2. b - m <= b - x
      BY <1>2, <1>3, <2>1
    <2> QED BY <2>2
  <1> QED BY <1>3, <1>4 DEF Max

\* The tail of a text begins behind each break of paragraphs.
LEMMA TailIsLastParagraph ==
  ASSUME NEW text \in Seq(CodePoints), NEW p, p.hook_window \in Nat,
         NEW i \in 1 .. Len(text), text[i] = "break"
  PROVE  TailStart(text, p) >= i /\ TailStart(text, p) \in Nat
  <1> DEFINE breaks == {j \in DOMAIN text : text[j] = "break"}
             solid == {j \in DOMAIN text : text[j] \notin {"break", "space"}}
             length == Len(Stripped(text))
             window == IF length > p.hook_window THEN length - p.hook_window ELSE 0
             start == LastParagraphStart(text)
  <1>1. Len(text) \in Nat /\ DOMAIN text = 1 .. Len(text)
    OBVIOUS
  <1>2. i \in breaks /\ breaks \subseteq Nat /\ \A x \in breaks : x <= Len(text)
    BY <1>1
  <1>3. solid \subseteq Nat /\ \A x \in solid : x <= Len(text)
    BY <1>1
  <1>4. start = Max(breaks)
    BY <1>2 DEF LastParagraphStart
  <1>5. Stripped(text) = IF solid = {} THEN <<>> ELSE SubSeq(text, 1, Max(solid))
    BY DEF Stripped
  <1> HIDE DEF breaks, solid, start
  <1>6. start \in Nat /\ start >= i
    BY <1>1, <1>2, <1>4, GreatestThere
  <1>7. length \in Nat
    <2>1. CASE solid = {}
      BY <1>5, <2>1
    <2>2. CASE solid # {}
      <3>1. Max(solid) \in solid
        BY <1>1, <1>3, <2>2, GreatestThere
      <3>2. Max(solid) \in 1 .. Len(text)
        BY <3>1, <1>1 DEF solid
      <3> DEFINE m == Max(solid)
      <3> HIDE DEF m
      <3>3. Len(SubSeq(text, 1, m)) \in Nat
        BY <3>2 DEF m
      <3> QED BY <1>5, <2>2, <3>3 DEF m
    <2> QED BY <2>1, <2>2
  <1> HIDE DEF length
  <1>8. window \in Nat
    BY <1>7
  <1>9. TailStart(text, p) = IF start > window THEN start ELSE window
    BY DEF TailStart, start, length
  <1> HIDE DEF window
  <1> QED BY <1>6, <1>8, <1>9

\* A chapter that is not blocked ends with a hook in its last paragraph.
LEMMA ChapterEnds ==
  ASSUME NEW entry, NEW text \in Seq(CodePoints), NEW p, NEW disposed, Blocking(entry, text, p, disposed) = {},
         p.hook_window \in Nat, \A hook \in entry.hooks : hook.from \in Nat
  PROVE  /\ CompleteEnding(text)
         /\ \E hook \in entry.hooks :
               /\ CompleteEnding(hook.excerpt)
               /\ \A i \in hook.from + 1 .. Len(text) : text[i] # "break"
  <1>1. CompleteEnding(text) /\ entry.body = text
    BY DEF Blocking
  <1>2. HookEvidenceValid(entry.hooks, text, p)
    BY <1>1 DEF Blocking
  <1>3. PICK hook \in entry.hooks : hook.from >= TailStart(text, p) /\ CompleteEnding(hook.excerpt)
    BY <1>2 DEF HookEvidenceValid
  <1>4. ASSUME NEW i \in hook.from + 1 .. Len(text), text[i] = "break" PROVE FALSE
    <2>1. i \in 1 .. Len(text) /\ i > hook.from
      OBVIOUS
    <2>2. TailStart(text, p) >= i /\ TailStart(text, p) \in Nat
      BY <2>1, <1>4, TailIsLastParagraph
    <2> QED BY <2>1, <2>2, <1>3
  <1> QED BY <1>1, <1>3, <1>4

\* Whatever plan, archive, chapters and text: a plan that PublicationSplitPlanner.review finds without an
\* issue loses and doubles nothing of the archive, keeps more than half of each chapter and can be
\* carried out; chapters of it that verify_source_coverage passes form a manifest; and a chapter that is
\* not blocked ends with a hook in its last paragraph.
THEOREM ReviewedMigrationsHold == TableSpec => []ReviewedMigrationHolds
  <1>1. Drawn => ReviewedMigrationHolds
    <2> SUFFICES ASSUME Drawn PROVE ReviewedMigrationHolds
      OBVIOUS
    <2> USE DEF About
    <2> DEFINE plan == case.plan omitted == OmittedFragments(case.plan.omissions)
    <2>1. PlanTyped(case) /\ ChapterTyped(case)
      <3>1. CASE case = NoCase
        BY <3>1 DEF NoCase, PlanTyped, ChapterTyped
      <3>2. CASE case # NoCase
        BY <3>2, CasesAssumption DEF Drawn
      <3> QED BY <3>1, <3>2
    <2>2. ReviewedPlanPartitions
      <3> SUFFICES ASSUME case.about = "plan", Review(case.plan, case.snapshot, case.archive) = {}
                   PROVE  PartsOf(plan, case.archive)
        BY DEF ReviewedPlanPartitions, PartsOf
      <3>1. IsFragments(UnitFragments(plan)) /\ IsFragments(OmittedFragments(plan.omissions))
        BY <2>1, PlanHolds
      <3> QED BY <3>1, PlanPartitions
    <2>3. ReviewedPlanCanBeWritten
      <3> SUFFICES ASSUME case.about = "plan", Review(case.plan, case.snapshot, case.archive) = {}
                   PROVE  SourceCovered(case.archive, case.plan, Natural(case.plan, case.texts, case.first), omitted, case.texts)
        BY DEF ReviewedPlanCanBeWritten
      <3>1. /\ IsFragments(OmittedFragments(case.plan.omissions))
            /\ IsList(case.plan.units) /\ \A i \in DOMAIN case.plan.units : IsFragments(case.plan.units[i].fragments)
            /\ DOMAIN case.archive # {} /\ case.first \in Int
        BY <2>1, PlanHolds
      <3> QED BY <3>1, PlanCanBeWritten
    <2>4. CoveredIsManifest
      <3> SUFFICES ASSUME /\ case.about = "plan" /\ Review(case.plan, case.snapshot, case.archive) = {}
                          /\ SourceCovered(case.archive, case.plan, case.entries, case.omissions, case.texts)
                          /\ \A i \in DOMAIN case.entries : EntryValid(case.entries[i])
                   PROVE  ManifestValid(case.entries, case.omissions, case.entries[1].target - 1)
        BY DEF CoveredIsManifest
      <3>1. IsFragments(UnitFragments(case.plan)) /\ IsFragments(omitted)
        BY <2>1, PlanHolds
      <3>2. Reviewed(UnitFragments(case.plan), omitted, case.archive)
        BY <3>1, ReviewLeaves
      <3>3. /\ IsFragments(case.omissions) /\ IsList(case.entries)
            /\ \A i \in DOMAIN case.entries :
                  /\ case.entries[i].target \in Int /\ IsFragments(case.entries[i].omissions)
                  /\ IsFragments([j \in DOMAIN case.entries[i].mappings |-> case.entries[i].mappings[j].fragment])
        BY <2>1 DEF PlanTyped
      <3> QED BY <3>2, <3>3, CoveredCounts
    <2>5. UnblockedEndsWithHook
      BY <2>1, ChapterEnds DEF UnblockedEndsWithHook, ChapterTyped
    <2> QED BY <2>2, <2>3, <2>4, <2>5 DEF ReviewedMigrationHolds, ReviewedPlanHolds
  <1>2. QED
    BY <1>1, CaseIsDrawn, PTL

------------------------------------------------------------------------------
(* The writes of a continuation run: ContinuationRules *)

\* The greatest of the numbers up to k, among some of them that k is one of, is k.
LEMMA GreatestIsLast ==
  ASSUME NEW k \in Nat, NEW T \in SUBSET (1 .. k), k \in T
  PROVE  Max(T) = k
  <1>1. k \in T /\ \A y \in T : k >= y
    OBVIOUS
  <1>2. \A x \in T : x \in Int
    OBVIOUS
  <1>3. \A x \in T : (\A y \in T : x >= y) => x = k
    BY <1>1, <1>2
  <1> QED BY <1>1, <1>3 DEF Max

AllWritten(fs, ws) == FoldLeft(Writing, fs, ws)
WritingStep(g, fs, ws, T) == IF T = {} THEN fs ELSE Writing(g[T \ {Max(T)}], ws[Max(T)])

\* The files are written one after another.
LEMMA WritingFolds ==
  ASSUME NEW V, NEW ws \in Seq(V), NEW fs
  PROVE  \E g : /\ g[0] = fs
                /\ \A k \in 1 .. Len(ws) : g[k] = Writing(g[k - 1], ws[k])
                /\ AllWritten(fs, ws) = g[Len(ws)]
  <1> DEFINE Solves(g, k) == g = [T \in SUBSET (1 .. k) |-> WritingStep(g, fs, ws, T)]
             Bad == {k \in Nat : ~ \E g : Solves(g, k)}
             n == Len(ws)
  <1>1. n \in Nat /\ DOMAIN ws = 1 .. n
    OBVIOUS
  <1>2. Bad = {}
    <2> SUFFICES ASSUME Bad # {} PROVE FALSE
      OBVIOUS
    <2>1. 0 \notin Bad
      <3>1. Solves([T \in {{}} |-> fs], 0)
        <4>1. SUBSET (1 .. 0) = {{}}
          OBVIOUS
        <4> QED BY <4>1 DEF WritingStep
      <3> QED BY <3>1
    <2>2. PICK k \in Bad : k \in Nat /\ k # 0 /\ k - 1 \in Nat /\ k - 1 \notin Bad
      <3>1. Bad \subseteq Nat
        OBVIOUS
      <3> HIDE DEF Bad
      <3> QED BY <2>1, <3>1, FirstFailure
    <2>3. PICK g : Solves(g, k - 1)
      BY <2>2
    <2> DEFINE h == [T \in SUBSET (1 .. k) |-> IF k \in T THEN Writing(g[T \ {k}], ws[k]) ELSE g[T]]
    <2>4. ASSUME NEW T \in SUBSET (1 .. k) PROVE h[T] = WritingStep(h, fs, ws, T)
      <3>1. CASE k \in T
        <4>1. Max(T) = k
          BY <3>1, <2>2, GreatestIsLast
        <4>2. T \ {k} \in SUBSET (1 .. k) /\ k \notin T \ {k}
          OBVIOUS
        <4>3. h[T \ {k}] = g[T \ {k}]
          BY <4>2
        <4> QED BY <3>1, <4>1, <4>3 DEF WritingStep
      <3>2. CASE k \notin T
        <4>1. T \in SUBSET (1 .. k - 1)
          BY <3>2, <2>2
        <4>2. h[T] = g[T] /\ g[T] = WritingStep(g, fs, ws, T)
          BY <3>2, <4>1, <2>3
        <4>3. T \ {Max(T)} \in SUBSET (1 .. k) /\ k \notin T \ {Max(T)}
          BY <3>2
        <4>4. h[T \ {Max(T)}] = g[T \ {Max(T)}]
          BY <4>3
        <4> HIDE DEF h
        <4> QED BY <4>2, <4>4 DEF WritingStep
      <3> QED BY <3>1, <3>2
    <2>5. Solves(h, k)
      BY <2>4
    <2> QED BY <2>5, <2>2
  <1>3. PICK g : Solves(g, n) /\ AllWritten(fs, ws) = g[1 .. n]
    <2>1. \E g : Solves(g, n)
      BY <1>1, <1>2
    <2> DEFINE f == CHOOSE g : Solves(g, n)
    <2>2. Solves(f, n)
      BY <2>1
    <2>3. AllWritten(fs, ws) = f[1 .. n]
      BY <1>1 DEF AllWritten, FoldLeft, MapThenFoldSet, WritingStep
    <2> QED BY <2>2, <2>3
  <1> DEFINE u == [k \in 0 .. n |-> g[1 .. k]]
  <1>4. u[0] = fs
    <2>1. 1 .. 0 = {} /\ {} \in SUBSET (1 .. n)
      OBVIOUS
    <2> QED BY <2>1, <1>3, <1>1 DEF WritingStep
  <1>5. ASSUME NEW k \in 1 .. n PROVE u[k] = Writing(u[k - 1], ws[k])
    <2>1. k \in Nat /\ k \in 1 .. k /\ 1 .. k \in SUBSET (1 .. n)
      <3>1. k \in Nat /\ 1 <= k /\ k <= n
        BY <1>1
      <3>2. \A i \in 1 .. k : i \in 1 .. n
        BY <3>1, <1>1
      <3> QED BY <3>1, <3>2
    <2>2. Max(1 .. k) = k
      BY <2>1, GreatestIsLast
    <2>3. (1 .. k) \ {k} = 1 .. (k - 1) /\ k - 1 \in 0 .. n /\ k \in 0 .. n
      BY <2>1, <1>1
    <2> QED BY <2>1, <2>2, <2>3, <1>3 DEF WritingStep
  <1>6. AllWritten(fs, ws) = u[n]
    BY <1>3, <1>1
  <1> HIDE DEF u
  <1> QED BY <1>4, <1>5, <1>6

\* What the next write makes of the files.
LEMMA AfterSteps ==
  ASSUME NEW V, NEW ws \in Seq(V), NEW fs
  PROVE  After(fs, ws, 0) = fs /\ \A k \in 1 .. Len(ws) : After(fs, ws, k) = Writing(After(fs, ws, k - 1), ws[k])
  <1> DEFINE n == Len(ws)
             Folded(u, k) == u[0] = fs /\ After(fs, ws, k) = u[k] /\ \A j \in 1 .. k : u[j] = Writing(u[j - 1], ws[j])
  <1>1. n \in Nat
    OBVIOUS
  <1>2. ASSUME NEW k \in 0 .. n PROVE \E u : Folded(u, k)
    <2> DEFINE sub == SubSeq(ws, 1, k)
    <2>1. sub \in Seq(V) /\ Len(sub) = k /\ \A j \in 1 .. k : sub[j] = ws[j]
      OBVIOUS
    <2>2. After(fs, ws, k) = AllWritten(fs, sub)
      BY DEF After, AllWritten
    <2> HIDE DEF sub
    <2>3. PICK u : /\ u[0] = fs /\ \A j \in 1 .. Len(sub) : u[j] = Writing(u[j - 1], sub[j])
                   /\ AllWritten(fs, sub) = u[Len(sub)]
      <3>1. \E u : /\ u[0] = fs /\ \A j \in 1 .. Len(sub) : u[j] = Writing(u[j - 1], sub[j])
                  /\ AllWritten(fs, sub) = u[Len(sub)]
        <4>1. sub \in Seq(V)
          BY <2>1
        <4> QED BY ONLY <4>1, WritingFolds
      <3> QED BY <3>1
    <2> QED BY <2>1, <2>2, <2>3
  <1>3. After(fs, ws, 0) = fs
    <2>1. PICK u : Folded(u, 0)
      BY <1>1, <1>2
    <2> QED BY <2>1
  <1>4. ASSUME NEW k \in 1 .. n PROVE After(fs, ws, k) = Writing(After(fs, ws, k - 1), ws[k])
    <2>1. k \in 0 .. n /\ k - 1 \in 0 .. n /\ k \in Nat /\ k \in 1 .. k /\ k - 1 \in 0 .. k - 1
      BY <1>1
    <2>2. PICK u : Folded(u, k)
      BY <1>2, <2>1
    <2>3. PICK v : Folded(v, k - 1)
      BY <1>2, <2>1
    <2> DEFINE Bad == {j \in 0 .. k - 1 : u[j] # v[j]}
    <2>4. Bad = {}
      <3> SUFFICES ASSUME Bad # {} PROVE FALSE
        OBVIOUS
      <3>1. 0 \notin Bad
        BY <2>2, <2>3
      <3>2. PICK j \in Bad : j \in Nat /\ j # 0 /\ j - 1 \in Nat /\ j - 1 \notin Bad
        <4>1. Bad \subseteq Nat
          BY <2>1
        <4> HIDE DEF Bad
        <4> QED BY <3>1, <4>1, FirstFailure
      <3>3. j \in 1 .. k /\ j \in 1 .. k - 1 /\ j - 1 \in 0 .. k - 1 /\ u[j] # v[j]
        BY <3>2, <2>1
      <3>4. u[j - 1] = v[j - 1]
        BY <3>2, <3>3
      <3>5. u[j] = Writing(u[j - 1], ws[j]) /\ v[j] = Writing(v[j - 1], ws[j])
        BY <3>3, <2>2, <2>3
      <3> QED BY <3>3, <3>4, <3>5
    <2>5. u[k - 1] = v[k - 1]
      BY <2>1, <2>4
    <2>6. u[k] = Writing(u[k - 1], ws[k])
      BY <2>1, <2>2
    <2> QED BY <2>2, <2>3, <2>5, <2>6
  <1> QED BY <1>3, <1>4

\* What two runs of writes leave behind, one after the other.
Joins(fs, a, b) ==
    /\ \A n \in 0 .. Len(a) : After(fs, a \o b, n) = After(fs, a, n)
    /\ \A n \in 0 .. Len(b) : After(fs, a \o b, Len(a) + n) = After(After(fs, a, Len(a)), b, n)

LEMMA AfterJoined ==
  ASSUME NEW V, NEW a \in Seq(V), NEW b \in Seq(V), NEW fs
  PROVE  Joins(fs, a, b)
  <1> DEFINE ws == a \o b
  <1>1. /\ ws \in Seq(V) /\ Len(ws) = Len(a) + Len(b) /\ Len(a) \in Nat /\ Len(b) \in Nat
        /\ \A k \in 1 .. Len(a) : ws[k] = a[k]
        /\ \A k \in 1 .. Len(b) : ws[Len(a) + k] = b[k]
    OBVIOUS
  <1> HIDE DEF ws
  <1>2. After(fs, ws, 0) = fs /\ \A k \in 1 .. Len(ws) : After(fs, ws, k) = Writing(After(fs, ws, k - 1), ws[k])
    BY <1>1, AfterSteps
  <1>3. After(fs, a, 0) = fs /\ \A k \in 1 .. Len(a) : After(fs, a, k) = Writing(After(fs, a, k - 1), a[k])
    BY AfterSteps
  <1> DEFINE Bad == {k \in 0 .. Len(a) : After(fs, ws, k) # After(fs, a, k)}
  <1>4. Bad = {}
    <2> SUFFICES ASSUME Bad # {} PROVE FALSE
      OBVIOUS
    <2>1. 0 \notin Bad
      BY <1>2, <1>3
    <2>2. PICK k \in Bad : k \in Nat /\ k # 0 /\ k - 1 \in Nat /\ k - 1 \notin Bad
      <3>1. Bad \subseteq Nat
        OBVIOUS
      <3> HIDE DEF Bad
      <3> QED BY <2>1, <3>1, FirstFailure
    <2>3. k \in 1 .. Len(a) /\ k \in 1 .. Len(ws) /\ k - 1 \in 0 .. Len(a) /\ After(fs, ws, k) # After(fs, a, k)
      BY <2>2, <1>1
    <2>4. After(fs, ws, k - 1) = After(fs, a, k - 1) /\ ws[k] = a[k]
      BY <2>2, <2>3, <1>1
    <2> QED BY <2>3, <2>4, <1>2, <1>3
  <1>5. \A n \in 0 .. Len(a) : After(fs, ws, n) = After(fs, a, n)
    BY <1>4
  <1> DEFINE mid == After(fs, a, Len(a))
             Wrong == {k \in 0 .. Len(b) : After(fs, ws, Len(a) + k) # After(mid, b, k)}
  <1> HIDE DEF mid
  <1>6. After(mid, b, 0) = mid /\ \A k \in 1 .. Len(b) : After(mid, b, k) = Writing(After(mid, b, k - 1), b[k])
    BY AfterSteps
  <1>7. Wrong = {}
    <2> SUFFICES ASSUME Wrong # {} PROVE FALSE
      OBVIOUS
    <2>1. 0 \notin Wrong
      <3>1. Len(a) + 0 = Len(a) /\ Len(a) \in 0 .. Len(a)
        BY <1>1
      <3> QED BY <3>1, <1>5, <1>6 DEF mid
    <2>2. PICK k \in Wrong : k \in Nat /\ k # 0 /\ k - 1 \in Nat /\ k - 1 \notin Wrong
      <3>1. Wrong \subseteq Nat
        OBVIOUS
      <3> HIDE DEF Wrong
      <3> QED BY <2>1, <3>1, FirstFailure
    <2>3. /\ k \in 1 .. Len(b) /\ Len(a) + k \in 1 .. Len(ws) /\ k - 1 \in 0 .. Len(b)
          /\ (Len(a) + k) - 1 = Len(a) + (k - 1) /\ After(fs, ws, Len(a) + k) # After(mid, b, k)
      BY <2>2, <1>1
    <2>4. After(fs, ws, Len(a) + (k - 1)) = After(mid, b, k - 1) /\ ws[Len(a) + k] = b[k]
      BY <2>2, <2>3, <1>1
    <2>5. After(fs, ws, Len(a) + k) = Writing(After(fs, ws, (Len(a) + k) - 1), ws[Len(a) + k])
      BY <2>3, <1>2
    <2>6. After(mid, b, k) = Writing(After(mid, b, k - 1), b[k])
      BY <2>3, <1>6
    <2> QED BY <2>3, <2>4, <2>5, <2>6
  <1>8. \A n \in 0 .. Len(b) : After(fs, ws, Len(a) + n) = After(mid, b, n)
    BY <1>7
  <1> QED BY <1>5, <1>8 DEF ws, mid, Joins

\* Writes lead files of P to files of Q, and every file that is there in between is of I.
Leads(P, ws, I, Q) ==
    \A fs \in P : (\A n \in 0 .. Len(ws) : After(fs, ws, n) \in I) /\ After(fs, ws, Len(ws)) \in Q

LEMMA LeadsOn ==
  ASSUME NEW V, NEW a \in Seq(V), NEW b \in Seq(V), NEW P, NEW I, NEW Q, NEW R, Leads(P, a, I, Q), Leads(Q, b, I, R)
  PROVE  a \o b \in Seq(V) /\ Leads(P, a \o b, I, R)
  <1> SUFFICES ASSUME NEW fs \in P
               PROVE  /\ \A n \in 0 .. Len(a \o b) : After(fs, a \o b, n) \in I
                      /\ After(fs, a \o b, Len(a \o b)) \in R
    BY DEF Leads
  <1>1. Len(a \o b) = Len(a) + Len(b) /\ Len(a) \in Nat /\ Len(b) \in Nat
    OBVIOUS
  <1> DEFINE mid == After(fs, a, Len(a))
  <1>2. (\A n \in 0 .. Len(a) : After(fs, a, n) \in I) /\ mid \in Q
    BY DEF Leads
  <1>3. (\A n \in 0 .. Len(b) : After(mid, b, n) \in I) /\ After(mid, b, Len(b)) \in R
    <2> HIDE DEF mid
    <2> QED BY <1>2 DEF Leads
  <1>4. /\ \A n \in 0 .. Len(a) : After(fs, a \o b, n) = After(fs, a, n)
        /\ \A n \in 0 .. Len(b) : After(fs, a \o b, Len(a) + n) = After(mid, b, n)
    <2>1. Joins(fs, a, b)
      BY AfterJoined
    <2> QED BY <2>1 DEF Joins
  <1> DEFINE ws == a \o b
  <1> HIDE DEF ws, mid
  <1>5. ASSUME NEW n \in 0 .. Len(ws) PROVE After(fs, ws, n) \in I
    <2>1. CASE n <= Len(a)
      <3>1. n \in 0 .. Len(a)
        BY <2>1, <1>1 DEF ws
      <3> QED BY <3>1, <1>2, <1>4 DEF ws
    <2>2. CASE ~(n <= Len(a))
      <3>1. n - Len(a) \in 0 .. Len(b) /\ Len(a) + (n - Len(a)) = n
        BY <2>2, <1>1 DEF ws
      <3>2. After(fs, ws, Len(a) + (n - Len(a))) = After(mid, b, n - Len(a))
        BY <3>1, <1>4 DEF ws
      <3>3. After(fs, ws, n) = After(mid, b, n - Len(a))
        BY <3>1, <3>2
      <3> QED BY <3>1, <3>3, <1>3
    <2> QED BY <2>1, <2>2
  <1>6. After(fs, ws, Len(ws)) \in R
    <2>1. Len(b) \in 0 .. Len(b) /\ Len(ws) = Len(a) + Len(b)
      BY <1>1 DEF ws
    <2> QED BY <2>1, <1>3, <1>4 DEF ws
  <1> QED BY <1>5, <1>6 DEF ws

\* Writes of which each leads from P to P.
LEMMA LeadsAll ==
  ASSUME NEW W, NEW ws \in Seq(W), NEW P, NEW I, P \subseteq I, \A fs \in P : \A w \in W : Writing(fs, w) \in P
  PROVE  Leads(P, ws, I, P)
  <1> SUFFICES ASSUME NEW fs \in P PROVE \A n \in 0 .. Len(ws) : After(fs, ws, n) \in P
    BY DEF Leads
  <1>1. Len(ws) \in Nat
    OBVIOUS
  <1>2. After(fs, ws, 0) = fs /\ \A k \in 1 .. Len(ws) : After(fs, ws, k) = Writing(After(fs, ws, k - 1), ws[k])
    BY AfterSteps
  <1> DEFINE Bad == {k \in 0 .. Len(ws) : After(fs, ws, k) \notin P}
  <1>3. Bad = {}
    <2> SUFFICES ASSUME Bad # {} PROVE FALSE
      OBVIOUS
    <2>1. 0 \notin Bad
      BY <1>2
    <2>2. PICK k \in Bad : k \in Nat /\ k # 0 /\ k - 1 \in Nat /\ k - 1 \notin Bad
      <3>1. Bad \subseteq Nat
        OBVIOUS
      <3> HIDE DEF Bad
      <3> QED BY <2>1, <3>1, FirstFailure
    <2>3. k \in 1 .. Len(ws) /\ k - 1 \in 0 .. Len(ws) /\ After(fs, ws, k) \notin P
      BY <2>2, <1>1
    <2>4. After(fs, ws, k - 1) \in P /\ ws[k] \in W
      BY <2>2, <2>3
    <2> QED BY <2>3, <2>4, <1>2
  <1> QED BY <1>3

\* Two writes that lead from P to Q.
LEMMA LeadsTwice ==
  ASSUME NEW v, NEW w, NEW P, NEW I, NEW Q,
         \A fs \in P : fs \in I /\ Writing(fs, v) \in I /\ Writing(Writing(fs, v), w) \in I /\ Writing(Writing(fs, v), w) \in Q
  PROVE  <<v, w>> \in Seq({v, w}) /\ Leads(P, <<v, w>>, I, Q)
  <1> DEFINE ws == <<v, w>>
  <1>1. ws \in Seq({v, w}) /\ Len(ws) = 2 /\ ws[1] = v /\ ws[2] = w
    OBVIOUS
  <1> HIDE DEF ws
  <1>2. ASSUME NEW fs \in P
        PROVE  (\A n \in 0 .. Len(ws) : After(fs, ws, n) \in I) /\ After(fs, ws, Len(ws)) \in Q
    <2>1. After(fs, ws, 0) = fs /\ \A k \in 1 .. Len(ws) : After(fs, ws, k) = Writing(After(fs, ws, k - 1), ws[k])
      BY <1>1, AfterSteps
    <2>2. After(fs, ws, 1) = Writing(fs, v) /\ After(fs, ws, 2) = Writing(Writing(fs, v), w)
      <3>1. 1 \in 1 .. Len(ws) /\ 2 \in 1 .. Len(ws) /\ 1 - 1 = 0 /\ 2 - 1 = 1
        BY <1>1
      <3>2. After(fs, ws, 1) = Writing(After(fs, ws, 1 - 1), ws[1]) /\ After(fs, ws, 2) = Writing(After(fs, ws, 2 - 1), ws[2])
        BY <2>1, <3>1
      <3> QED BY <2>1, <3>1, <3>2, <1>1
    <2>3. \A n \in 0 .. Len(ws) : n = 0 \/ n = 1 \/ n = 2
      BY <1>1
    <2> QED BY <2>1, <2>2, <2>3, <1>1
  <1> QED BY <1>1, <1>2 DEF Leads, ws

AllAttempted(run, answers) == FoldLeft(Attempt, run, answers)
AttemptStep(g, run, answers, T) == IF T = {} THEN run ELSE Attempt(g[T \ {Max(T)}], answers[Max(T)])

\* The attempts are made one after another.
LEMMA AttemptFolds ==
  ASSUME NEW V, NEW answers \in Seq(V), NEW run
  PROVE  \E g : /\ g[0] = run
                /\ \A k \in 1 .. Len(answers) : g[k] = Attempt(g[k - 1], answers[k])
                /\ AllAttempted(run, answers) = g[Len(answers)]
  <1> DEFINE Solves(g, k) == g = [T \in SUBSET (1 .. k) |-> AttemptStep(g, run, answers, T)]
             Bad == {k \in Nat : ~ \E g : Solves(g, k)}
             n == Len(answers)
  <1>1. n \in Nat /\ DOMAIN answers = 1 .. n
    OBVIOUS
  <1>2. Bad = {}
    <2> SUFFICES ASSUME Bad # {} PROVE FALSE
      OBVIOUS
    <2>1. 0 \notin Bad
      <3>1. Solves([T \in {{}} |-> run], 0)
        <4>1. SUBSET (1 .. 0) = {{}}
          OBVIOUS
        <4> QED BY <4>1 DEF AttemptStep
      <3> QED BY <3>1
    <2>2. PICK k \in Bad : k \in Nat /\ k # 0 /\ k - 1 \in Nat /\ k - 1 \notin Bad
      <3>1. Bad \subseteq Nat
        OBVIOUS
      <3> HIDE DEF Bad
      <3> QED BY <2>1, <3>1, FirstFailure
    <2>3. PICK g : Solves(g, k - 1)
      BY <2>2
    <2> DEFINE h == [T \in SUBSET (1 .. k) |-> IF k \in T THEN Attempt(g[T \ {k}], answers[k]) ELSE g[T]]
    <2>4. ASSUME NEW T \in SUBSET (1 .. k) PROVE h[T] = AttemptStep(h, run, answers, T)
      <3>1. CASE k \in T
        <4>1. Max(T) = k
          BY <3>1, <2>2, GreatestIsLast
        <4>2. T \ {k} \in SUBSET (1 .. k) /\ k \notin T \ {k}
          OBVIOUS
        <4>3. h[T \ {k}] = g[T \ {k}]
          BY <4>2
        <4> QED BY <3>1, <4>1, <4>3 DEF AttemptStep
      <3>2. CASE k \notin T
        <4>1. T \in SUBSET (1 .. k - 1)
          BY <3>2, <2>2
        <4>2. h[T] = g[T] /\ g[T] = AttemptStep(g, run, answers, T)
          BY <3>2, <4>1, <2>3
        <4>3. T \ {Max(T)} \in SUBSET (1 .. k) /\ k \notin T \ {Max(T)}
          BY <3>2
        <4>4. h[T \ {Max(T)}] = g[T \ {Max(T)}]
          BY <4>3
        <4> HIDE DEF h
        <4> QED BY <4>2, <4>4 DEF AttemptStep
      <3> QED BY <3>1, <3>2
    <2>5. Solves(h, k)
      BY <2>4
    <2> QED BY <2>5, <2>2
  <1>3. PICK g : Solves(g, n) /\ AllAttempted(run, answers) = g[1 .. n]
    <2>1. \E g : Solves(g, n)
      BY <1>1, <1>2
    <2> DEFINE f == CHOOSE g : Solves(g, n)
    <2>2. Solves(f, n)
      BY <2>1
    <2>3. AllAttempted(run, answers) = f[1 .. n]
      BY <1>1 DEF AllAttempted, FoldLeft, MapThenFoldSet, AttemptStep
    <2> QED BY <2>2, <2>3
  <1> DEFINE u == [k \in 0 .. n |-> g[1 .. k]]
  <1>4. u[0] = run
    <2>1. 1 .. 0 = {} /\ {} \in SUBSET (1 .. n)
      OBVIOUS
    <2> QED BY <2>1, <1>3, <1>1 DEF AttemptStep
  <1>5. ASSUME NEW k \in 1 .. n PROVE u[k] = Attempt(u[k - 1], answers[k])
    <2>1. k \in Nat /\ k \in 1 .. k /\ 1 .. k \in SUBSET (1 .. n)
      <3>1. k \in Nat /\ 1 <= k /\ k <= n
        BY <1>1
      <3>2. \A i \in 1 .. k : i \in 1 .. n
        BY <3>1, <1>1
      <3> QED BY <3>1, <3>2
    <2>2. Max(1 .. k) = k
      BY <2>1, GreatestIsLast
    <2>3. (1 .. k) \ {k} = 1 .. (k - 1) /\ k - 1 \in 0 .. n /\ k \in 0 .. n
      BY <2>1, <1>1
    <2> QED BY <2>1, <2>2, <2>3, <1>3 DEF AttemptStep
  <1>6. AllAttempted(run, answers) = u[n]
    BY <1>3, <1>1
  <1> HIDE DEF u
  <1> QED BY <1>4, <1>5, <1>6

------------------------------------------------------------------------------
(* The files of a run, and what each write leaves as it was *)

Plain == {"draft", "review", "status", "chapter", "readiness"}
Ids == {"summary", "hooks"}
Entries == {"half a line", "created", "started", "context built", "called", "call failed", "answered", "review passed",
            "review failed", "knowledge updated", "state changed", "completed", "failed"}
Candidates(M) == \A m \in M : m.id \in Ids

\* Files with contents of X, candidates of M and any log.
FilesOf(X, M) ==
    [draft : X, review : X, status : X, chapter : X, readiness : X, memory : Seq(M), log : Seq(Entries)]

WritesOf(X, M) ==
    {[file |-> p[1], to |-> p[2]] : p \in Plain \X X}
    \union {[file |-> "memory", to |-> m] : m \in M} \union {[file |-> "log", to |-> e] : e \in Entries}

\* A plain file is replaced.
LEMMA WritingPlain ==
  ASSUME NEW X, NEW M, NEW g \in FilesOf(X, M), NEW name \in Plain, NEW x \in X
  PROVE  /\ Writing(g, [file |-> name, to |-> x]) = [g EXCEPT ![name] = x]
         /\ [g EXCEPT ![name] = x] \in FilesOf(X, M)
  <1>1. name # "log" /\ name # "memory"
    BY DEF Plain
  <1>2. Writing(g, [file |-> name, to |-> x]) = [g EXCEPT ![name] = x]
    BY <1>1 DEF Writing
  <1>3. [g EXCEPT ![name] = x] \in FilesOf(X, M)
    BY DEF FilesOf, Plain
  <1> QED BY <1>2, <1>3

Remembering(g, m) == [g EXCEPT !.memory = Append(g.memory, m)]
Remembers(g, h, m) ==
    /\ ToSet(h.memory) = ToSet(g.memory) \union {m}
    /\ h.draft = g.draft /\ h.review = g.review /\ h.status = g.status /\ h.chapter = g.chapter /\ h.log = g.log

\* A candidate is appended to the memory.
LEMMA WritingMemory ==
  ASSUME NEW X, NEW M, NEW g \in FilesOf(X, M), NEW m \in M
  PROVE  /\ Writing(g, [file |-> "memory", to |-> m]) = Remembering(g, m)
         /\ Remembering(g, m) \in FilesOf(X, M) /\ Remembers(g, Remembering(g, m), m)
  <1>1. Writing(g, [file |-> "memory", to |-> m]) = Remembering(g, m)
    BY DEF Writing, Remembering
  <1>2. g.memory \in Seq(M)
    BY DEF FilesOf
  <1>3. Append(g.memory, m) \in Seq(M)
    BY <1>2
  <1>4. Remembering(g, m) \in FilesOf(X, M)
    BY <1>3 DEF FilesOf, Remembering
  <1>5. ToSet(Append(g.memory, m)) = ToSet(g.memory) \union {m}
    BY <1>2 DEF ToSet
  <1>6. LET h == Remembering(g, m)
        IN /\ h.memory = Append(g.memory, m)
           /\ h.draft = g.draft /\ h.review = g.review /\ h.status = g.status /\ h.chapter = g.chapter /\ h.log = g.log
    BY DEF FilesOf, Remembering
  <1> QED BY <1>1, <1>4, <1>5, <1>6 DEF Remembers

\* A line is added to the log, or replaces a half one.
LEMMA WritingLog ==
  ASSUME NEW X, NEW M, NEW g \in FilesOf(X, M), NEW e \in Entries
  PROVE  LET log == LogWith(g.log, e) IN
         /\ Writing(g, [file |-> "log", to |-> e]) = [g EXCEPT !.log = log]
         /\ [g EXCEPT !.log = log] \in FilesOf(X, M)
         /\ Last(log) = e /\ ToSet(log) \subseteq ToSet(g.log) \union {e}
  <1> DEFINE log == LogWith(g.log, e)
  <1>1. Writing(g, [file |-> "log", to |-> e]) = [g EXCEPT !.log = log]
    BY DEF Writing
  <1>2. g.log \in Seq(Entries)
    BY DEF FilesOf
  <1>3. log \in Seq(Entries) /\ Last(log) = e /\ ToSet(log) \subseteq ToSet(g.log) \union {e}
    <2>1. PICK sq : sq = g.log
      OBVIOUS
    <2>2. sq \in Seq(Entries)
      BY <1>2, <2>1
    <2>3. ASSUME NEW p \in Seq(Entries), \A k \in DOMAIN p : p[k] \in ToSet(sq)
          PROVE  Append(p, e) \in Seq(Entries) /\ Last(Append(p, e)) = e /\ ToSet(Append(p, e)) \subseteq ToSet(sq) \union {e}
      <3>1. /\ Append(p, e) \in Seq(Entries) /\ Len(Append(p, e)) = Len(p) + 1 /\ Append(p, e)[Len(p) + 1] = e
            /\ \A k \in 1 .. Len(p) : Append(p, e)[k] = p[k] /\ k \in DOMAIN p
            /\ Len(p) \in Nat /\ DOMAIN Append(p, e) = 1 .. Len(p) + 1
        <4> DEFINE q == Append(p, e)
        <4>1. /\ q \in Seq(Entries) /\ Len(q) = Len(p) + 1 /\ Len(p) \in Nat
              /\ q[Len(p) + 1] = e /\ \A k \in 1 .. Len(p) : q[k] = p[k]
          BY AppendProperties
        <4>2. DOMAIN p = 1 .. Len(p) /\ DOMAIN q = 1 .. Len(q)
          BY <4>1
        <4> QED BY <4>1, <4>2
      <3>2. \A k \in 1 .. Len(p) + 1 : k \in 1 .. Len(p) \/ k = Len(p) + 1
        BY <3>1
      <3>3. ToSet(Append(p, e)) \subseteq ToSet(sq) \union {e}
        BY <3>1, <3>2, <2>3 DEF ToSet
      <3> QED BY <3>1, <3>3 DEF Last
    <2>4. \A k \in DOMAIN sq : sq[k] \in ToSet(sq)
      BY DEF ToSet
    <2>5. sq # <<>> => Front(sq) \in Seq(Entries) /\ \A k \in DOMAIN Front(sq) : Front(sq)[k] \in ToSet(sq)
      <3> SUFFICES ASSUME sq # <<>>
                   PROVE  Front(sq) \in Seq(Entries) /\ \A k \in DOMAIN Front(sq) : Front(sq)[k] \in ToSet(sq)
        OBVIOUS
      <3>1. Len(sq) \in Nat /\ Len(sq) # 0 /\ DOMAIN sq = 1 .. Len(sq)
        BY <2>2
      <3>2. Front(sq) \in Seq(Entries) /\ DOMAIN Front(sq) = 1 .. Len(sq) - 1 /\ \A k \in 1 .. Len(sq) - 1 : Front(sq)[k] = sq[k]
        BY <2>2, <3>1 DEF Front
      <3>3. \A k \in 1 .. Len(sq) - 1 : k \in DOMAIN sq
        BY <3>1
      <3> QED BY <3>2, <3>3, <2>4
    <2>6. LogWith(sq, e) = Append(sq, e) \/ (sq # <<>> /\ LogWith(sq, e) = Append(Front(sq), e))
      BY DEF LogWith
    <2>7. LogWith(sq, e) \in Seq(Entries) /\ Last(LogWith(sq, e)) = e /\ ToSet(LogWith(sq, e)) \subseteq ToSet(sq) \union {e}
      <3>1. CASE LogWith(sq, e) = Append(sq, e)
        BY <3>1, <2>2, <2>3, <2>4
      <3>2. CASE sq # <<>> /\ LogWith(sq, e) = Append(Front(sq), e)
        BY <3>2, <2>3, <2>5
      <3> QED BY <3>1, <3>2, <2>6
    <2> QED BY <2>1, <2>7
  <1> HIDE DEF log
  <1>4. [g EXCEPT !.log = log] \in FilesOf(X, M)
    BY <1>3 DEF FilesOf
  <1> QED BY <1>1, <1>3, <1>4 DEF log

\* The promise depends on the chapter, the memory and the log.
Full(memory) == \A id \in Ids : \E m \in ToSet(memory) : m.id = id

LEMMA PassedTexts ==
  ASSUME NEW X, NEW M, Candidates(M), NEW g \in FilesOf(X, M)
  PROVE  OnlyPassedTexts(g) <=>
            /\ Whole(g.chapter) => ReviewIssues(g.chapter) = {}
            /\ \A m \in ToSet(g.memory) : ReviewIssues(m.text) = {}
            /\ "completed" \in ToSet(g.log) => Full(g.memory)
  <1>1. g.memory \in Seq(M) /\ \A i \in DOMAIN g.memory : g.memory[i] \in M
    BY DEF FilesOf
  <1>2. (\A i \in DOMAIN g.memory : ReviewIssues(g.memory[i].text) = {}) <=> \A m \in ToSet(g.memory) : ReviewIssues(m.text) = {}
    BY DEF ToSet
  <1>3. ToSet(ChapterCandidates) = Ids
    <2>1. DOMAIN ChapterCandidates = {1, 2} /\ ChapterCandidates[1] = "summary" /\ ChapterCandidates[2] = "hooks"
      BY DEF ChapterCandidates
    <2> QED BY <2>1 DEF ToSet, Ids
  <1>4. {g.memory[i].id : i \in DOMAIN g.memory} = ToSet(ChapterCandidates) <=> Full(g.memory)
    <2>1. {g.memory[i].id : i \in DOMAIN g.memory} \subseteq Ids
      BY <1>1 DEF Candidates
    <2>2. Full(g.memory) <=> Ids \subseteq {g.memory[i].id : i \in DOMAIN g.memory}
      BY DEF Full, ToSet
    <2> QED BY <1>3, <2>1, <2>2
  <1> QED BY <1>2, <1>4 DEF OnlyPassedTexts

------------------------------------------------------------------------------
(* From stage to stage of a run *)

\* The files that are there during a run: they keep the promise, and draft and status fit.
Inside(X, M, K) == {g \in FilesOf(X, M) : OnlyPassedTexts(g) /\ <<g.draft, g.status>> \in K}

\* Those of a stage, by what draft, review, status and chapter are, and what the memory may be.
Stage(I, d, r, s, c, Ms) ==
    {g \in I : g.draft = d /\ g.review = r /\ g.status = s /\ g.chapter = c /\ g.memory \in Ms}

\* What changes neither chapter nor memory nor log keeps the promise.
LEMMA PromiseKept ==
  ASSUME NEW g, NEW h, OnlyPassedTexts(g), h.chapter = g.chapter, h.memory = g.memory, h.log = g.log
  PROVE  OnlyPassedTexts(h)
  BY DEF OnlyPassedTexts

With(g, name, x) == [g EXCEPT ![name] = x]
Replaces(g, h, name, x) ==
    h[name] = x /\ h.memory = g.memory /\ h.log = g.log /\ \A n \in Plain : n # name => h[n] = g[n]

\* What another content of a plain file changes.
LEMMA Replaced ==
  ASSUME NEW X, NEW M, NEW g \in FilesOf(X, M), NEW name \in Plain, NEW x \in X
  PROVE  /\ Writing(g, [file |-> name, to |-> x]) = With(g, name, x)
         /\ With(g, name, x) \in FilesOf(X, M) /\ Replaces(g, With(g, name, x), name, x)
  <1> DEFINE h == [g EXCEPT ![name] = x]
  <1>1. h \in FilesOf(X, M) /\ Writing(g, [file |-> name, to |-> x]) = h
    BY WritingPlain
  <1>2. name # "memory" /\ name # "log" /\ name \in DOMAIN g /\ Plain \subseteq DOMAIN g
    BY DEF FilesOf, Plain
  <1>3. h[name] = x /\ h.memory = g.memory /\ h.log = g.log
    BY <1>2
  <1>4. \A n \in Plain : n # name => h[n] = g[n]
    BY <1>2
  <1> QED BY <1>1, <1>3, <1>4 DEF With, Replaces

\* A file is emptied, then written.
LEMMA LeadsWrite ==
  ASSUME NEW X, NEW M, Torn \in X, NEW name \in Plain, NEW x \in X, NEW I, I \subseteq FilesOf(X, M), NEW P, P \subseteq I, NEW Q,
         \A g \in P : With(g, name, Torn) \in I /\ With(g, name, x) \in I /\ With(g, name, x) \in Q
  PROVE  Write(name, x) \in Seq(WritesOf(X, M)) /\ Leads(P, Write(name, x), I, Q)
  <1> DEFINE v == [file |-> name, to |-> Torn]
             w == [file |-> name, to |-> x]
  <1>1. Write(name, x) = <<v, w>>
    BY DEF Write
  <1>2. v \in WritesOf(X, M) /\ w \in WritesOf(X, M)
    <2>1. <<name, Torn>> \in Plain \X X /\ <<name, x>> \in Plain \X X
      OBVIOUS
    <2> QED BY <2>1 DEF WritesOf
  <1>3. ASSUME NEW g \in P
        PROVE  Writing(g, v) = With(g, name, Torn) /\ Writing(Writing(g, v), w) = With(g, name, x)
    <2>1. g \in FilesOf(X, M)
      OBVIOUS
    <2> DEFINE h == With(g, name, Torn)
    <2>2. Writing(g, v) = h /\ h \in FilesOf(X, M)
      BY <2>1, Replaced
    <2>3. Writing(h, w) = With(h, name, x)
      <3> HIDE DEF h
      <3> QED BY <2>2, Replaced
    <2>4. With(h, name, x) = With(g, name, x)
      <3>1. name \in DOMAIN g
        BY <2>1 DEF FilesOf, Plain
      <3> QED BY <3>1 DEF With
    <2> QED BY <2>2, <2>3, <2>4
  <1> HIDE DEF v, w
  <1>4. \A g \in P : g \in I /\ Writing(g, v) \in I /\ Writing(Writing(g, v), w) \in I /\ Writing(Writing(g, v), w) \in Q
    BY <1>3
  <1>5. Leads(P, <<v, w>>, I, Q)
    BY <1>4, LeadsTwice
  <1>6. <<v, w>> \in Seq(WritesOf(X, M))
    BY <1>2
  <1> QED BY <1>1, <1>5, <1>6

\* A line that is not the completion leaves a stage a stage.
LEMMA LineStays ==
  ASSUME NEW X, NEW M, Candidates(M), NEW K, NEW d, NEW r, NEW s, NEW c, NEW Ms,
         NEW g \in Stage(Inside(X, M, K), d, r, s, c, Ms), NEW e \in Entries, e = "completed" => Full(g.memory)
  PROVE  LET h == Writing(g, [file |-> "log", to |-> e])
         IN h \in Stage(Inside(X, M, K), d, r, s, c, Ms) /\ Last(h.log) = e
  <1> DEFINE log == LogWith(g.log, e)
             h == [g EXCEPT !.log = log]
  <1>1. g \in FilesOf(X, M) /\ OnlyPassedTexts(g) /\ <<g.draft, g.status>> \in K
    BY DEF Stage, Inside
  <1>2. /\ Writing(g, [file |-> "log", to |-> e]) = h /\ h \in FilesOf(X, M)
        /\ Last(log) = e /\ ToSet(log) \subseteq ToSet(g.log) \union {e}
    BY <1>1, WritingLog
  <1> HIDE DEF log
  <1>3. /\ h.draft = g.draft /\ h.review = g.review /\ h.status = g.status /\ h.chapter = g.chapter
        /\ h.memory = g.memory /\ h.log = log
    BY <1>1 DEF FilesOf
  <1> HIDE DEF h
  <1>4. OnlyPassedTexts(h)
    BY <1>1, <1>2, <1>3, PassedTexts
  <1>5. h \in Stage(Inside(X, M, K), d, r, s, c, Ms)
    BY <1>1, <1>2, <1>3, <1>4 DEF Stage, Inside
  <1> QED BY <1>2, <1>3, <1>5

\* Events leave a stage a stage.
LEMMA LeadsEvents ==
  ASSUME NEW X, NEW M, Candidates(M), NEW K, NEW d, NEW r, NEW s, NEW c, NEW Ms,
         NEW events \in Seq(Entries \ {"completed"})
  PROVE  LET P == Stage(Inside(X, M, K), d, r, s, c, Ms)
         IN EventLines(events) \in Seq(WritesOf(X, M)) /\ Leads(P, EventLines(events), Inside(X, M, K), P)
  <1> DEFINE P == Stage(Inside(X, M, K), d, r, s, c, Ms)
             W == {[file |-> "log", to |-> e] : e \in Entries \ {"completed"}}
             rows == [i \in DOMAIN events |-> Line(events[i])]
  <1>1. rows \in Seq(Seq(W))
    <2>1. \A e \in Entries \ {"completed"} : Line(e) \in Seq(W)
      <3> SUFFICES ASSUME NEW e \in Entries \ {"completed"} PROVE Line(e) \in Seq(W)
        OBVIOUS
      <3>1. [file |-> "log", to |-> "half a line"] \in W /\ [file |-> "log", to |-> e] \in W
        <4>1. "half a line" \in Entries \ {"completed"}
          BY DEF Entries
        <4> QED BY <4>1
      <3>2. ASSUME NEW v \in W, NEW w \in W PROVE <<v, w>> \in Seq(W)
        <4> HIDE DEF W
        <4> QED OBVIOUS
      <3> HIDE DEF W
      <3> QED BY <3>1, <3>2 DEF Line
    <2>2. Len(events) \in Nat /\ DOMAIN events = 1 .. Len(events) /\ \A i \in DOMAIN events : events[i] \in Entries \ {"completed"}
      OBVIOUS
    <2> HIDE DEF W
    <2>3. rows \in [1 .. Len(events) -> Seq(W)]
      BY <2>1, <2>2
    <2> HIDE DEF rows
    <2> QED BY <2>2, <2>3
  <1>2. EventLines(events) \in Seq(W)
    <2>1. EventLines(events) = FlattenSeq(rows)
      BY DEF EventLines
    <2> HIDE DEF rows, W
    <2> QED BY <1>1, <2>1, FlattenRows
  <1>3. W \subseteq WritesOf(X, M)
    BY DEF WritesOf
  <1>4. P \subseteq Inside(X, M, K)
    BY DEF Stage
  <1>5. \A g \in P : \A w \in W : Writing(g, w) \in P
    BY LineStays
  <1> HIDE DEF P, W
  <1>6. Leads(P, EventLines(events), Inside(X, M, K), P)
    BY <1>2, <1>4, <1>5, LeadsAll
  <1>7. EventLines(events) \in Seq(WritesOf(X, M))
    BY <1>2, <1>3
  <1> QED BY <1>6, <1>7 DEF P

Ends(P, e) == {g \in P : Last(g.log) = e}

\* The last event: how the run ended.
LEMMA LeadsEnd ==
  ASSUME NEW X, NEW M, Candidates(M), NEW K, NEW d, NEW r, NEW s, NEW c, NEW Ms, NEW e \in Entries,
         e = "completed" => \A m \in Ms : Full(m)
  PROVE  LET P == Stage(Inside(X, M, K), d, r, s, c, Ms)
         IN EventLines(<<e>>) \in Seq(WritesOf(X, M)) /\ Leads(P, EventLines(<<e>>), Inside(X, M, K), Ends(P, e))
  <1> DEFINE P == Stage(Inside(X, M, K), d, r, s, c, Ms)
             v == [file |-> "log", to |-> "half a line"]
             w == [file |-> "log", to |-> e]
  <1>1. EventLines(<<e>>) = <<v, w>>
    <2>1. Line(e) = <<v, w>>
      BY DEF Line
    <2>2. IsList(Line(e))
      <3> HIDE DEF v, w
      <3>1. Range(<<v, w>>) = {v, w}
        BY DEF Range
      <3>2. <<v, w>> \in Seq({v, w})
        OBVIOUS
      <3> QED BY <2>1, <3>1, <3>2 DEF IsList
    <2> DEFINE rows == [i \in DOMAIN <<e>> |-> Line(<<e>>[i])]
    <2>3. rows = <<Line(e)>>
      OBVIOUS
    <2>4. EventLines(<<e>>) = FlattenSeq(rows)
      BY DEF EventLines
    <2> HIDE DEF rows, v, w
    <2> QED BY <2>1, <2>2, <2>3, <2>4, FlattenOne
  <1>2. <<v, w>> \in Seq(WritesOf(X, M))
    <2>1. v \in WritesOf(X, M) /\ w \in WritesOf(X, M)
      <3>1. "half a line" \in Entries
        BY DEF Entries
      <3> QED BY <3>1 DEF WritesOf
    <2> HIDE DEF v, w
    <2> QED BY <2>1
  <1>3. ASSUME NEW g \in P
        PROVE  /\ g \in Inside(X, M, K) /\ Writing(g, v) \in Inside(X, M, K)
               /\ Writing(Writing(g, v), w) \in Inside(X, M, K) /\ Writing(Writing(g, v), w) \in Ends(P, e)
    <2>1. P \subseteq Inside(X, M, K)
      BY DEF Stage
    <2>2. g.memory \in Ms
      BY DEF Stage
    <2>3. Writing(g, v) \in P
      <3>1. "half a line" \in Entries /\ "half a line" # "completed"
        BY DEF Entries
      <3>2. g \in Stage(Inside(X, M, K), d, r, s, c, Ms)
        OBVIOUS
      <3> HIDE DEF P
      <3>3. Writing(g, [file |-> "log", to |-> "half a line"]) \in Stage(Inside(X, M, K), d, r, s, c, Ms)
        BY <3>1, <3>2, LineStays
      <3> QED BY <3>3 DEF P
    <2>4. PICK h : h = Writing(g, v)
      OBVIOUS
    <2>5. h \in P /\ h.memory \in Ms
      BY <2>3, <2>4 DEF Stage
    <2>6. Writing(h, w) \in P /\ Last(Writing(h, w).log) = e
      BY <2>5, LineStays
    <2> HIDE DEF P
    <2> QED BY <2>1, <2>3, <2>4, <2>6 DEF Ends
  <1> HIDE DEF P, v, w
  <1>4. Leads(P, <<v, w>>, Inside(X, M, K), Ends(P, e))
    BY <1>3, LeadsTwice
  <1> QED BY <1>1, <1>2, <1>4 DEF P

\* Memories that hold all of m and a candidate of each of the ids.
Holding(M, m, ids) == {n \in Seq(M) : ToSet(m) \subseteq ToSet(n) /\ \A id \in ids : \E x \in ToSet(n) : x.id = id}

SavedCandidate(fs, text, id) ==
    IF \E k \in DOMAIN fs.memory : fs.memory[k].id = id THEN <<>>
    ELSE <<[file |-> "memory", to |-> [id |-> id, text |-> text]]>>

\* A candidate is saved, or is there.
LEMMA LeadsSaved ==
  ASSUME NEW X, NEW M, Candidates(M), NEW K, NEW d, NEW r, NEW s, NEW c, NEW fs, fs.memory \in Seq(M),
         NEW text, ReviewIssues(text) = {}, NEW id, [id |-> id, text |-> text] \in M, NEW ids
  PROVE  LET I == Inside(X, M, K)
             ws == SavedCandidate(fs, text, id)
         IN ws \in Seq(WritesOf(X, M))
            /\ Leads(Stage(I, d, r, s, c, Holding(M, fs.memory, ids)), ws, I,
                     Stage(I, d, r, s, c, Holding(M, fs.memory, ids \union {id})))
  <1> DEFINE I == Inside(X, M, K)
             made == [id |-> id, text |-> text]
             w == [file |-> "memory", to |-> made]
             A == Holding(M, fs.memory, ids)
             B == Holding(M, fs.memory, ids \union {id})
             P == Stage(I, d, r, s, c, A)
             Q == Stage(I, d, r, s, c, B)
  <1>1. CASE \E k \in DOMAIN fs.memory : fs.memory[k].id = id
    <2>1. SavedCandidate(fs, text, id) = <<>>
      BY <1>1 DEF SavedCandidate
    <2>2. \E x \in ToSet(fs.memory) : x.id = id
      BY <1>1 DEF ToSet
    <2>3. A \subseteq B
      BY <2>2 DEF Holding
    <2>4. P \subseteq Q /\ P \subseteq I
      BY <2>3 DEF Stage
    <2>5. <<>> \in Seq(WritesOf(X, M)) /\ <<>> \in Seq({}) /\ Len(<<>>) = 0
      OBVIOUS
    <2>6. \A g : After(g, <<>>, 0) = g
      BY <2>5, AfterSteps
    <2> HIDE DEF P, Q, I
    <2>7. Leads(P, <<>>, I, Q)
      <3>1. \A n \in 0 .. Len(<<>>) : n = 0
        BY <2>5
      <3> QED BY <2>4, <2>5, <2>6, <3>1 DEF Leads
    <2> QED BY <2>1, <2>5, <2>7 DEF P, Q, I
  <1>2. CASE ~ \E k \in DOMAIN fs.memory : fs.memory[k].id = id
    <2>1. SavedCandidate(fs, text, id) = <<w>>
      BY <1>2 DEF SavedCandidate
    <2>2. w \in WritesOf(X, M)
      BY DEF WritesOf
    <2>3. ASSUME NEW g \in P PROVE g \in I /\ Writing(g, w) \in I /\ Writing(g, w) \in Q
      <3>1. /\ g \in FilesOf(X, M) /\ OnlyPassedTexts(g) /\ <<g.draft, g.status>> \in K /\ g.memory \in A /\ g \in I
        BY DEF Stage, Inside
      <3> DEFINE h == Remembering(g, made)
      <3>2. /\ Writing(g, w) = h /\ h \in FilesOf(X, M) /\ h.memory \in Seq(M) /\ ToSet(h.memory) = ToSet(g.memory) \union {made}
            /\ h.draft = g.draft /\ h.review = g.review /\ h.status = g.status /\ h.chapter = g.chapter /\ h.log = g.log
        <4>1. Writing(g, w) = h /\ h \in FilesOf(X, M) /\ Remembers(g, h, made)
          <5>1. made \in M
            OBVIOUS
          <5> HIDE DEF made
          <5> QED BY <3>1, <5>1, WritingMemory
        <4>2. h.memory \in Seq(M)
          <5> HIDE DEF h
          <5> QED BY <4>1 DEF FilesOf
        <4> QED BY <4>1, <4>2 DEF Remembers
      <3>4. made.id = id /\ made.text = text
        OBVIOUS
      <3> HIDE DEF h, w, made
      <3>7. h.memory \in B
        BY <3>1, <3>4, <3>2 DEF Holding
      <3>8. OnlyPassedTexts(h)
        <4>1. Full(g.memory) => Full(h.memory)
          BY <3>2 DEF Full
        <4>2. \A x \in ToSet(h.memory) : ReviewIssues(x.text) = {}
          BY <3>1, <3>4, <3>2, PassedTexts
        <4>3. /\ Whole(h.chapter) => ReviewIssues(h.chapter) = {}
              /\ "completed" \in ToSet(h.log) => Full(g.memory)
          BY <3>1, <3>2, PassedTexts
        <4> QED BY <3>2, <4>1, <4>2, <4>3, PassedTexts
      <3>9. h \in I
        BY <3>1, <3>2, <3>8 DEF Inside
      <3>10. h \in Q
        <4> HIDE DEF I
        <4>1. g.draft = d /\ g.review = r /\ g.status = s /\ g.chapter = c
          BY DEF Stage
        <4> QED BY <3>2, <3>7, <3>9, <4>1 DEF Stage
      <3> QED BY <3>1, <3>2, <3>9, <3>10
    <2> HIDE DEF w, P, Q, I
    <2>4. Leads(P, <<w>>, I, Q)
      <3> DEFINE ws == <<w>>
      <3>1. ws \in Seq({w}) /\ Len(ws) = 1 /\ ws[1] = w
        OBVIOUS
      <3> HIDE DEF ws
      <3>2. ASSUME NEW g \in P PROVE (\A n \in 0 .. Len(ws) : After(g, ws, n) \in I) /\ After(g, ws, Len(ws)) \in Q
        <4>1. After(g, ws, 0) = g /\ \A k \in 1 .. Len(ws) : After(g, ws, k) = Writing(After(g, ws, k - 1), ws[k])
          BY <3>1, AfterSteps
        <4>2. After(g, ws, 1) = Writing(After(g, ws, 1 - 1), ws[1]) /\ 1 - 1 = 0
          BY <3>1, <4>1
        <4>3. \A n \in 0 .. Len(ws) : n = 0 \/ n = 1
          BY <3>1
        <4> QED BY <2>3, <3>1, <4>1, <4>2, <4>3
      <3> QED BY <3>2 DEF Leads, ws
    <2>5. <<w>> \in Seq(WritesOf(X, M))
      BY <2>2
    <2> QED BY <2>1, <2>4, <2>5 DEF P, Q, I
  <1> QED BY <1>1, <1>2

\* Two rows are one after the other.
LEMMA FlattenTwo ==
  ASSUME NEW S, NEW a \in Seq(S), NEW b \in Seq(S)
  PROVE  FlattenSeq(<<a, b>>) = a \o b
  <1> DEFINE rows == <<a, b>>
  <1>1. rows \in Seq(Seq(S)) /\ Len(rows) = 2 /\ rows[1] = a /\ rows[2] = b
    OBVIOUS
  <1> HIDE DEF rows
  <1>2. PICK f : Flattens(f, S, rows, Len(rows)) /\ FlattenSeq(rows) = f[Len(rows)]
    <2>1. rows \in Seq(Seq(S)) /\ Len(rows) # 0
      BY <1>1
    <2> QED BY <2>1, FlattenFolds
  <1>3. f[1] = FlattenStep(f, rows, 1) /\ f[2] = FlattenStep(f, rows, 2)
    BY <1>1, <1>2 DEF Flattens
  <1>4. f[1] = a
    BY <1>1, <1>3 DEF FlattenStep
  <1>5. f[2] = f[1] \o b
    <2>1. FlattenStep(f, rows, 2) = f[2 - 1] \o rows[2]
      BY DEF FlattenStep
    <2>2. 2 - 1 = 1
      OBVIOUS
    <2>3. f[2] = f[2 - 1] \o rows[2]
      BY <1>3, <2>1
    <2>4. f[2] = f[1] \o rows[2]
      BY <2>2, <2>3
    <2> QED BY <1>1, <2>4
  <1> QED BY <1>1, <1>2, <1>4, <1>5 DEF rows

\* The candidates of a text that passed: afterwards each of the ids has one.
LEMMA LeadsCandidates ==
  ASSUME NEW X, NEW M, Candidates(M), NEW K, NEW d, NEW r, NEW s, NEW c, NEW fs, fs.memory \in Seq(M),
         NEW text, ReviewIssues(text) = {}, \A id \in Ids : [id |-> id, text |-> text] \in M
  PROVE  LET I == Inside(X, M, K)
             ws == SaveCandidates(fs, text)
         IN ws \in Seq(WritesOf(X, M))
            /\ Leads(Stage(I, d, r, s, c, {fs.memory}), ws, I, Stage(I, d, r, s, c, {m \in Seq(M) : Full(m)}))
  <1> DEFINE I == Inside(X, M, K)
             a == SavedCandidate(fs, text, "summary")
             b == SavedCandidate(fs, text, "hooks")
             W == WritesOf(X, M)
             Held(ids) == Stage(I, d, r, s, c, Holding(M, fs.memory, ids))
             P == Stage(I, d, r, s, c, {fs.memory})
             Q == Stage(I, d, r, s, c, {m \in Seq(M) : Full(m)})
  <1>1. a \in Seq(W) /\ Leads(Held({}), a, I, Held({} \union {"summary"}))
    <2>1. [id |-> "summary", text |-> text] \in M
      BY DEF Ids
    <2> QED BY <2>1, LeadsSaved
  <1>2. b \in Seq(W) /\ Leads(Held({"summary"}), b, I, Held({"summary"} \union {"hooks"}))
    <2>1. [id |-> "hooks", text |-> text] \in M
      BY DEF Ids
    <2> QED BY <2>1, LeadsSaved
  <1>3. SaveCandidates(fs, text) = FlattenSeq(<<a, b>>)
    <2> DEFINE rows == [i \in DOMAIN ChapterCandidates |-> SavedCandidate(fs, text, ChapterCandidates[i])]
    <2>1. SaveCandidates(fs, text) = FlattenSeq(rows)
      BY DEF SaveCandidates, SavedCandidate
    <2>2. rows = <<a, b>>
      <3>1. DOMAIN ChapterCandidates = {1, 2} /\ ChapterCandidates[1] = "summary" /\ ChapterCandidates[2] = "hooks"
        BY DEF ChapterCandidates
      <3>2. rows[1] = a /\ rows[2] = b /\ rows = [i \in {1, 2} |-> SavedCandidate(fs, text, ChapterCandidates[i])]
        BY <3>1
      <3> HIDE DEF a, b
      <3> QED BY <3>1, <3>2
    <2> QED BY <2>1, <2>2
  <1>4. Held({}) \subseteq Held({}) /\ P \subseteq Held({})
    BY DEF Stage, Holding
  <1>5. Held({"summary"} \union {"hooks"}) \subseteq Q
    BY DEF Stage, Holding, Full, Ids
  <1>6. {} \union {"summary"} = {"summary"}
    OBVIOUS
  <1> HIDE DEF a, b, W, Held, P, Q, I
  <1>7. SaveCandidates(fs, text) = a \o b
    BY <1>1, <1>2, <1>3, FlattenTwo
  <1>8. Leads(Held({}), a, I, Held({"summary"}))
    BY <1>1, <1>6
  <1>9. a \o b \in Seq(W) /\ Leads(Held({}), a \o b, I, Held({"summary"} \union {"hooks"}))
    BY <1>1, <1>2, <1>8, LeadsOn
  <1>10. Leads(P, a \o b, I, Q)
    BY <1>4, <1>5, <1>9 DEF Leads
  <1> QED BY <1>7, <1>9, <1>10 DEF W, I, P, Q

\* Draft, review and status have nothing to do with the promise.
LEMMA PromiseOutlives ==
  ASSUME NEW X, NEW M, NEW g \in FilesOf(X, M), OnlyPassedTexts(g), NEW name \in Plain \ {"chapter"}, NEW x \in X
  PROVE  OnlyPassedTexts(With(g, name, x))
  <1> DEFINE h == With(g, name, x)
  <1>1. Replaces(g, h, name, x)
    BY Replaced
  <1> HIDE DEF h
  <1>2. h.chapter = g.chapter /\ h.memory = g.memory /\ h.log = g.log
    <2>1. "chapter" \in Plain /\ "chapter" # name
      BY DEF Plain
    <2> QED BY <1>1, <2>1 DEF Replaces
  <1>3. OnlyPassedTexts(h)
    BY <1>2, PromiseKept
  <1> QED BY <1>3 DEF h

\* The draft is written.
LEMMA LeadsDraft ==
  ASSUME NEW X, NEW M, Torn \in X, NEW K, NEW d, NEW r, NEW s, NEW c, NEW Ms, NEW x \in X, <<Torn, s>> \in K, <<x, s>> \in K
  PROVE  LET I == Inside(X, M, K)
         IN /\ Write("draft", x) \in Seq(WritesOf(X, M))
            /\ Leads(Stage(I, d, r, s, c, Ms), Write("draft", x), I, Stage(I, x, r, s, c, Ms))
  <1> DEFINE I == Inside(X, M, K)
             P == Stage(I, d, r, s, c, Ms)
             Q == Stage(I, x, r, s, c, Ms)
  <1>1. I \subseteq FilesOf(X, M) /\ P \subseteq I
    BY DEF Inside, Stage
  <1>2. ASSUME NEW g \in P, NEW y \in {Torn, x}
        PROVE  With(g, "draft", y) \in Stage(I, y, r, s, c, Ms)
    <2>1. g \in FilesOf(X, M) /\ OnlyPassedTexts(g) /\ g.review = r /\ g.status = s /\ g.chapter = c /\ g.memory \in Ms
      BY DEF Stage, Inside
    <2> DEFINE h == With(g, "draft", y)
    <2>2. y \in X /\ "draft" \in Plain /\ "draft" \in Plain \ {"chapter"}
      BY DEF Plain
    <2>3. h \in FilesOf(X, M) /\ Replaces(g, h, "draft", y) /\ OnlyPassedTexts(h)
      <3> HIDE DEF P
      <3> QED BY <2>1, <2>2, Replaced, PromiseOutlives
    <2> HIDE DEF h
    <2>4. h.draft = y /\ h.review = r /\ h.status = s /\ h.chapter = c /\ h.memory \in Ms
      BY <2>1, <2>3 DEF Replaces, Plain
    <2> QED BY <2>3, <2>4 DEF h, Stage, Inside
  <1>3. "draft" \in Plain /\ Q \subseteq I /\ Stage(I, Torn, r, s, c, Ms) \subseteq I
    BY DEF Plain, Stage
  <1>4. \A g \in P : With(g, "draft", Torn) \in I /\ With(g, "draft", x) \in I /\ With(g, "draft", x) \in Q
    BY <1>2, <1>3
  <1> HIDE DEF I, P, Q
  <1>5. Write("draft", x) \in Seq(WritesOf(X, M)) /\ Leads(P, Write("draft", x), I, Q)
    BY <1>1, <1>3, <1>4, LeadsWrite
  <1> QED BY <1>5 DEF I, P, Q

\* The review is written.
LEMMA LeadsReview ==
  ASSUME NEW X, NEW M, Torn \in X, NEW K, NEW d, NEW r, NEW s, NEW c, NEW Ms, NEW x \in X
  PROVE  LET I == Inside(X, M, K)
         IN /\ Write("review", x) \in Seq(WritesOf(X, M))
            /\ Leads(Stage(I, d, r, s, c, Ms), Write("review", x), I, Stage(I, d, x, s, c, Ms))
  <1> DEFINE I == Inside(X, M, K)
             P == Stage(I, d, r, s, c, Ms)
             Q == Stage(I, d, x, s, c, Ms)
  <1>1. I \subseteq FilesOf(X, M) /\ P \subseteq I
    BY DEF Inside, Stage
  <1>2. ASSUME NEW g \in P, NEW y \in {Torn, x}
        PROVE  With(g, "review", y) \in Stage(I, d, y, s, c, Ms)
    <2>1. /\ g \in FilesOf(X, M) /\ OnlyPassedTexts(g) /\ g.draft = d /\ g.status = s /\ g.chapter = c /\ g.memory \in Ms
          /\ <<d, s>> \in K
      BY DEF Stage, Inside
    <2> DEFINE h == With(g, "review", y)
    <2>2. y \in X /\ "review" \in Plain /\ "review" \in Plain \ {"chapter"}
      BY DEF Plain
    <2>3. h \in FilesOf(X, M) /\ Replaces(g, h, "review", y) /\ OnlyPassedTexts(h)
      <3> HIDE DEF P
      <3> QED BY <2>1, <2>2, Replaced, PromiseOutlives
    <2> HIDE DEF h
    <2>4. h.draft = d /\ h.review = y /\ h.status = s /\ h.chapter = c /\ h.memory \in Ms
      BY <2>1, <2>3 DEF Replaces, Plain
    <2> QED BY <2>1, <2>3, <2>4 DEF h, Stage, Inside
  <1>3. "review" \in Plain /\ Q \subseteq I /\ Stage(I, d, Torn, s, c, Ms) \subseteq I
    BY DEF Plain, Stage
  <1>4. \A g \in P : With(g, "review", Torn) \in I /\ With(g, "review", x) \in I /\ With(g, "review", x) \in Q
    BY <1>2, <1>3
  <1> HIDE DEF I, P, Q
  <1>5. Write("review", x) \in Seq(WritesOf(X, M)) /\ Leads(P, Write("review", x), I, Q)
    BY <1>1, <1>3, <1>4, LeadsWrite
  <1> QED BY <1>5 DEF I, P, Q

\* The status is written.
LEMMA LeadsStatus ==
  ASSUME NEW X, NEW M, Torn \in X, NEW K, NEW d, NEW r, NEW s, NEW c, NEW Ms, NEW x \in X, <<d, Torn>> \in K, <<d, x>> \in K
  PROVE  LET I == Inside(X, M, K)
         IN /\ Write("status", x) \in Seq(WritesOf(X, M))
            /\ Leads(Stage(I, d, r, s, c, Ms), Write("status", x), I, Stage(I, d, r, x, c, Ms))
  <1> DEFINE I == Inside(X, M, K)
             P == Stage(I, d, r, s, c, Ms)
             Q == Stage(I, d, r, x, c, Ms)
  <1>1. I \subseteq FilesOf(X, M) /\ P \subseteq I
    BY DEF Inside, Stage
  <1>2. ASSUME NEW g \in P, NEW y \in {Torn, x}
        PROVE  With(g, "status", y) \in Stage(I, d, r, y, c, Ms)
    <2>1. g \in FilesOf(X, M) /\ OnlyPassedTexts(g) /\ g.draft = d /\ g.review = r /\ g.chapter = c /\ g.memory \in Ms
      BY DEF Stage, Inside
    <2> DEFINE h == With(g, "status", y)
    <2>2. y \in X /\ "status" \in Plain /\ "status" \in Plain \ {"chapter"}
      BY DEF Plain
    <2>3. h \in FilesOf(X, M) /\ Replaces(g, h, "status", y) /\ OnlyPassedTexts(h)
      <3> HIDE DEF P
      <3> QED BY <2>1, <2>2, Replaced, PromiseOutlives
    <2> HIDE DEF h
    <2>4. h.draft = d /\ h.review = r /\ h.status = y /\ h.chapter = c /\ h.memory \in Ms
      BY <2>1, <2>3 DEF Replaces, Plain
    <2> QED BY <2>3, <2>4 DEF h, Stage, Inside
  <1>3. "status" \in Plain /\ Q \subseteq I /\ Stage(I, d, r, Torn, c, Ms) \subseteq I
    BY DEF Plain, Stage
  <1>4. \A g \in P : With(g, "status", Torn) \in I /\ With(g, "status", x) \in I /\ With(g, "status", x) \in Q
    BY <1>2, <1>3
  <1> HIDE DEF I, P, Q
  <1>5. Write("status", x) \in Seq(WritesOf(X, M)) /\ Leads(P, Write("status", x), I, Q)
    BY <1>1, <1>3, <1>4, LeadsWrite
  <1> QED BY <1>5 DEF I, P, Q

\* The chapter is written: a text that passed.
LEMMA LeadsChapter ==
  ASSUME NEW X, NEW M, Torn \in X, Candidates(M), NEW K, NEW d, NEW r, NEW s, NEW c, NEW Ms, NEW x \in X, ReviewIssues(x) = {}
  PROVE  LET I == Inside(X, M, K)
         IN /\ Write("chapter", x) \in Seq(WritesOf(X, M))
            /\ Leads(Stage(I, d, r, s, c, Ms), Write("chapter", x), I, Stage(I, d, r, s, x, Ms))
  <1> DEFINE I == Inside(X, M, K)
             P == Stage(I, d, r, s, c, Ms)
             Q == Stage(I, d, r, s, x, Ms)
  <1>1. I \subseteq FilesOf(X, M) /\ P \subseteq I
    BY DEF Inside, Stage
  <1>2. ASSUME NEW g \in P, NEW y \in {Torn, x}
        PROVE  With(g, "chapter", y) \in Stage(I, d, r, s, y, Ms)
    <2>1. /\ g \in FilesOf(X, M) /\ OnlyPassedTexts(g) /\ g.draft = d /\ g.review = r /\ g.status = s /\ g.memory \in Ms
          /\ <<d, s>> \in K
      BY DEF Stage, Inside
    <2> DEFINE h == With(g, "chapter", y)
    <2>2. y \in X /\ "chapter" \in Plain
      BY DEF Plain
    <2>3. h \in FilesOf(X, M) /\ Replaces(g, h, "chapter", y)
      <3> HIDE DEF P
      <3> QED BY <2>1, <2>2, Replaced
    <2> HIDE DEF h
    <2>4. /\ h.draft = d /\ h.review = r /\ h.status = s /\ h.chapter = y /\ h.memory \in Ms
          /\ h.memory = g.memory /\ h.log = g.log
      BY <2>1, <2>3 DEF Replaces, Plain
    <2>5. Whole(h.chapter) => ReviewIssues(h.chapter) = {}
      BY <2>4 DEF Whole
    <2>6. /\ \A m \in ToSet(h.memory) : ReviewIssues(m.text) = {}
          /\ "completed" \in ToSet(h.log) => Full(h.memory)
      BY <2>1, <2>4, PassedTexts
    <2>7. OnlyPassedTexts(h)
      BY <2>3, <2>5, <2>6, PassedTexts
    <2> QED BY <2>1, <2>3, <2>4, <2>7 DEF h, Stage, Inside
  <1>3. "chapter" \in Plain /\ Q \subseteq I /\ Stage(I, d, r, s, Torn, Ms) \subseteq I
    BY DEF Plain, Stage
  <1>4. \A g \in P : With(g, "chapter", Torn) \in I /\ With(g, "chapter", x) \in I /\ With(g, "chapter", x) \in Q
    BY <1>2, <1>3
  <1> HIDE DEF I, P, Q
  <1>5. Write("chapter", x) \in Seq(WritesOf(X, M)) /\ Leads(P, Write("chapter", x), I, Q)
    BY <1>1, <1>3, <1>4, LeadsWrite
  <1> QED BY <1>5 DEF I, P, Q

Ready(P, x) == {g \in P : g.readiness = x}

\* The readiness is written, of a stage or of its end.
LEMMA LeadsReadiness ==
  ASSUME NEW X, NEW M, Torn \in X, NEW K, NEW d, NEW r, NEW s, NEW c, NEW Ms, NEW e, NEW x \in X,
         NEW P, P = Stage(Inside(X, M, K), d, r, s, c, Ms) \/ P = Ends(Stage(Inside(X, M, K), d, r, s, c, Ms), e)
  PROVE  LET I == Inside(X, M, K)
         IN /\ Write("readiness", x) \in Seq(WritesOf(X, M))
            /\ Leads(P, Write("readiness", x), I, Ready(P, x))
  <1> DEFINE I == Inside(X, M, K)
             S == Stage(I, d, r, s, c, Ms)
             Q == Ready(P, x)
  <1>1. I \subseteq FilesOf(X, M) /\ S \subseteq I /\ P \subseteq S
    BY DEF Inside, Stage, Ends
  <1>2. ASSUME NEW g \in P, NEW y \in {Torn, x}
        PROVE  With(g, "readiness", y) \in S /\ With(g, "readiness", y).log = g.log /\ With(g, "readiness", y).readiness = y
    <2>1. /\ g \in FilesOf(X, M) /\ OnlyPassedTexts(g) /\ g.draft = d /\ g.review = r /\ g.status = s /\ g.chapter = c
          /\ g.memory \in Ms /\ <<d, s>> \in K
      BY <1>1 DEF Stage, Inside
    <2> DEFINE h == With(g, "readiness", y)
    <2>2. y \in X /\ "readiness" \in Plain /\ "readiness" \in Plain \ {"chapter"}
      BY DEF Plain
    <2>3. h \in FilesOf(X, M) /\ Replaces(g, h, "readiness", y) /\ OnlyPassedTexts(h)
      <3> HIDE DEF S
      <3> QED BY <2>1, <2>2, Replaced, PromiseOutlives
    <2> HIDE DEF h
    <2>4. /\ h.draft = d /\ h.review = r /\ h.status = s /\ h.chapter = c /\ h.memory \in Ms
          /\ h.readiness = y /\ h.log = g.log
      BY <2>1, <2>3 DEF Replaces, Plain
    <2>5. h \in S
      BY <2>1, <2>3, <2>4 DEF Stage, Inside
    <2> HIDE DEF S
    <2> QED BY <2>4, <2>5 DEF h
  <1>3. "readiness" \in Plain
    BY DEF Plain
  <1> HIDE DEF I
  <1>4. ASSUME NEW g \in P, NEW y \in {Torn, x} PROVE With(g, "readiness", y) \in P
    <2> HIDE DEF S
    <2>1. P = S \/ P = Ends(S, e)
      BY DEF S, I
    <2>2. P = Ends(S, e) => Last(g.log) = e
      BY DEF Ends
    <2> QED BY <1>2, <2>1, <2>2 DEF Ends
  <1>5. \A g \in P : With(g, "readiness", Torn) \in I /\ With(g, "readiness", x) \in I /\ With(g, "readiness", x) \in Q
    BY <1>1, <1>2, <1>4 DEF Ready
  <1>6. P \subseteq I
    BY <1>1
  <1> HIDE DEF Q
  <1>7. Write("readiness", x) \in Seq(WritesOf(X, M)) /\ Leads(P, Write("readiness", x), I, Q)
    BY <1>1, <1>3, <1>5, <1>6, LeadsWrite
  <1> QED BY <1>7 DEF I, Q

Calls == {"called", "call failed", "answered"}
Run(text, issues, events, over) == [text |-> text, issues |-> issues, events |-> events, over |-> over]
RunShaped(run) == \E t, i, o : \E events \in Seq(Calls) : run = Run(t, i, events, o)
RunReviewed(run) == run.issues = {} => ReviewIssues(run.text) = {}

\* An attempt leaves a run whose issues are those of its text, or that failed.
LEMMA AttemptReviews ==
  ASSUME NEW run, RunShaped(run), NEW answer
  PROVE  RunShaped(Attempt(run, answer)) /\ (~run.over \/ RunReviewed(run) => RunReviewed(Attempt(run, answer)))
  <1>1. PICK t, i, o : \E events \in Seq(Calls) : run = Run(t, i, events, o)
    BY DEF RunShaped
  <1>2. PICK events \in Seq(Calls) : run = Run(t, i, events, o)
    BY <1>1
  <1>3. run.text = t /\ run.issues = i /\ run.events = events /\ run.over = o
    BY <1>2 DEF Run
  <1> DEFINE lines == CallLines(answer)
             longer == events \o lines
  <1>4. lines \in Seq(Calls)
    <2>1. PICK x \in Calls : x = IF answer = Failed THEN "call failed" ELSE "answered"
      BY DEF Calls
    <2>2. lines = <<"called", x>> /\ "called" \in Calls
      BY <2>1 DEF CallLines, Calls
    <2> HIDE DEF lines
    <2> QED BY <2>2
  <1>5. longer \in Seq(Calls)
    <2> HIDE DEF lines
    <2> QED BY <1>4
  <1>6. CASE run.over
    BY <1>6 DEF Attempt
  <1>7. CASE ~run.over /\ answer = Failed
    <2>1. Attempt(run, answer) = [run EXCEPT !.events = longer, !.over = TRUE, !.issues = {"model_execution_failed"}]
      BY <1>3, <1>7 DEF Attempt
    <2> HIDE DEF longer
    <2>2. Attempt(run, answer) = Run(t, {"model_execution_failed"}, longer, TRUE)
      BY <1>2, <2>1 DEF Run
    <2>3. Attempt(run, answer).issues # {}
      BY <2>2 DEF Run
    <2> QED BY <1>5, <2>2, <2>3 DEF RunShaped, RunReviewed
  <1>8. CASE ~run.over /\ answer # Failed
    <2>1. PICK text : text = IF run.text # <<>> /\ "short" \in run.issues THEN Append(run.text, answer) ELSE <<answer>>
      OBVIOUS
    <2>2. Attempt(run, answer) = Run(text, ReviewIssues(text), longer, ReviewIssues(text) = {})
      BY <1>3, <1>8, <2>1 DEF Attempt, Run
    <2> HIDE DEF longer
    <2>3. Attempt(run, answer).issues = ReviewIssues(text) /\ Attempt(run, answer).text = text
      BY <2>2 DEF Run
    <2>4. RunShaped(Attempt(run, answer))
      BY <1>5, <2>2 DEF RunShaped
    <2> QED BY <2>3, <2>4 DEF RunReviewed
  <1> QED BY <1>6, <1>7, <1>8

\* A run that had an answer, or a call that failed, has reviewed the text it ends with.
LEMMA AttemptsReview ==
  ASSUME NEW V, NEW answers \in Seq(V), NEW fs, NEW context
  PROVE  LET end == Attempts(fs, context, answers)
         IN RunShaped(end) /\ (answers # <<>> => RunReviewed(end))
  <1> DEFINE run == Prior(fs, context)
             n == Len(answers)
  <1>1. n \in Nat /\ (answers # <<>> => n # 0)
    OBVIOUS
  <1>2. RunShaped(run) /\ ~run.over
    <2>1. \A t, i : RunShaped(Run(t, i, <<>>, FALSE)) /\ ~Run(t, i, <<>>, FALSE).over
      <3>1. <<>> \in Seq(Calls)
        OBVIOUS
      <3> QED BY <3>1 DEF RunShaped, Run
    <2>2. run = Run(fs.draft, fs.review[1].issues, <<>>, FALSE) \/ run = Run(<<>>, {}, <<>>, FALSE)
      BY DEF Prior, Run
    <2> QED BY <2>1, <2>2
  <1>3. Attempts(fs, context, answers) = AllAttempted(run, answers)
    BY DEF Attempts, AllAttempted
  <1> HIDE DEF run
  <1>4. PICK g : /\ g[0] = run
                 /\ \A k \in 1 .. Len(answers) : g[k] = Attempt(g[k - 1], answers[k])
                 /\ AllAttempted(run, answers) = g[Len(answers)]
    BY AttemptFolds
  <1> DEFINE Fine(k) == RunShaped(g[k]) /\ (k = 0 => ~g[k].over) /\ (k # 0 => RunReviewed(g[k]))
             Bad == {k \in 0 .. n : ~Fine(k)}
  <1>5. Bad = {}
    <2> SUFFICES ASSUME Bad # {} PROVE FALSE
      OBVIOUS
    <2>1. 0 \notin Bad
      BY <1>2, <1>4
    <2>2. PICK k \in Bad : k \in Nat /\ k # 0 /\ k - 1 \in Nat /\ k - 1 \notin Bad
      <3>1. Bad \subseteq Nat
        OBVIOUS
      <3> HIDE DEF Bad
      <3> QED BY <2>1, <3>1, FirstFailure
    <2>3. k \in 1 .. n /\ k - 1 \in 0 .. n /\ ~Fine(k)
      BY <2>2, <1>1
    <2>4. Fine(k - 1)
      BY <2>2, <2>3
    <2>5. PICK last, answer : last = g[k - 1] /\ answer = answers[k]
      OBVIOUS
    <2>6. RunShaped(last) /\ (~last.over \/ RunReviewed(last))
      BY <2>4, <2>5
    <2>7. g[k] = Attempt(last, answer)
      BY <1>4, <2>3, <2>5
    <2>8. RunShaped(g[k]) /\ RunReviewed(g[k])
      BY <2>6, <2>7, AttemptReviews
    <2> QED BY <2>2, <2>3, <2>8
  <1>6. Fine(n)
    <2>1. n \in 0 .. n
      BY <1>1
    <2> QED BY <1>5, <2>1
  <1>7. Attempts(fs, context, answers) = g[n]
    BY <1>3, <1>4
  <1> HIDE DEF n
  <1> QED BY <1>1, <1>6, <1>7

ReviewOf(issues, run) == <<[issues |-> issues, context |-> run.context]>>
VerdictOf(issues) == <<[passed |-> issues = {}, issues |-> issues]>>

\* What a run writes besides its events, and whether it is among what may be there.
Contents(end, run) == {end.text, ReviewOf(end.issues, run), VerdictOf(end.issues), <<end.issues>>, <<{}>>}
CandidatesOf(text) == {[id |-> id, text |-> text] : id \in Ids}

\* During a run draft and status are of before, torn, or both of the run.
Fitting(X, fs, end) == {<<d, s>> : d \in X, s \in {fs.status, Torn}} \union {<<end.text, VerdictOf(end.issues)>>}

Opening == EventLines(<<"created", "started">>) \o EventLines(<<"context built">>)

\* A run opens with two groups of events.
LEMMA LeadsOpening ==
  ASSUME NEW X, NEW M, Candidates(M), NEW K, NEW d, NEW r, NEW s, NEW c, NEW Ms
  PROVE  LET P == Stage(Inside(X, M, K), d, r, s, c, Ms)
         IN Opening \in Seq(WritesOf(X, M)) /\ Leads(P, Opening, Inside(X, M, K), P)
  <1> DEFINE W == WritesOf(X, M)
             I == Inside(X, M, K)
             P == Stage(I, d, r, s, c, Ms)
             a == EventLines(<<"created", "started">>)
             b == EventLines(<<"context built">>)
  <1>1. a \in Seq(W) /\ Leads(P, a, I, P)
    <2>1. <<"created", "started">> \in Seq(Entries \ {"completed"})
      BY DEF Entries
    <2> QED BY <2>1, LeadsEvents
  <1>2. b \in Seq(W) /\ Leads(P, b, I, P)
    <2>1. <<"context built">> \in Seq(Entries \ {"completed"})
      BY DEF Entries
    <2> QED BY <2>1, LeadsEvents
  <1> HIDE DEF a, b, W, I, P
  <1>3. a \o b \in Seq(W) /\ Leads(P, a \o b, I, P)
    BY <1>1, <1>2, LeadsOn
  <1> QED BY <1>3 DEF Opening, a, b, W, I, P

\* A dry run leaves the promise kept, and the status as it was.
LEMMA LeadsDry ==
  ASSUME NEW X, NEW M, Torn \in X, <<{}>> \in X, Candidates(M), NEW fs \in FilesOf(X, M), OnlyPassedTexts(fs), NEW run, run.dry
  PROVE  LET ws == ContinueOneChapter(fs, run)
         IN ws \in Seq(WritesOf(X, M)) /\ Leads({fs}, ws, Inside(X, M, {<<fs.draft, fs.status>>}), FilesOf(X, M))
  <1> DEFINE W == WritesOf(X, M)
             K == {<<fs.draft, fs.status>>}
             I == Inside(X, M, K)
             P == Stage(I, fs.draft, fs.review, fs.status, fs.chapter, {fs.memory})
             x == <<{}>>
             b == Write("readiness", x)
  <1>1. ContinueOneChapter(fs, run) = Opening \o b
    BY DEF ContinueOneChapter, Opening
  <1>2. fs \in P /\ Ready(P, x) \subseteq FilesOf(X, M)
    BY DEF Stage, Inside, Ready
  <1>3. Opening \in Seq(W) /\ Leads(P, Opening, I, P)
    BY LeadsOpening
  <1>4. b \in Seq(W) /\ Leads(P, b, I, Ready(P, x))
    BY LeadsReadiness
  <1> HIDE DEF b, W, I, P, x
  <1>5. Opening \o b \in Seq(W) /\ Leads(P, Opening \o b, I, Ready(P, x))
    BY <1>3, <1>4, LeadsOn
  <1>6. Leads({fs}, Opening \o b, I, FilesOf(X, M))
    BY <1>2, <1>5 DEF Leads
  <1> QED BY <1>1, <1>5, <1>6 DEF W, I

\* How a run that wrote its text ends.
LEMMA EndAgrees ==
  ASSUME NEW g, NEW fs, NEW run, NEW text, NEW issues, NEW c,
         g.draft = text, g.review = ReviewOf(issues, run), g.status = VerdictOf(issues), g.readiness = <<issues>>, g.chapter = c,
         c = (IF issues = {} THEN text ELSE fs.chapter), Last(g.log) = IF issues = {} THEN "completed" ELSE "failed"
  PROVE  EndsInAgreement(fs, run, g)
  <1>1. g.review[1] = [issues |-> issues, context |-> run.context] /\ g.review[1].issues = issues
    BY DEF ReviewOf
  <1>2. g.status[1] = [passed |-> issues = {}, issues |-> issues] /\ g.status[1].issues = issues /\ g.status[1].passed = (issues = {})
    BY DEF VerdictOf
  <1>3. g.readiness[1] = issues
    OBVIOUS
  <1>4. g.status # NoFile
    <2>1. "passed" \in DOMAIN g.status[1] /\ "passed" \notin DOMAIN NoFile[1]
      BY <1>2 DEF NoFile
    <2> QED BY <2>1
  <1> QED BY <1>1, <1>2, <1>3, <1>4 DEF EndsInAgreement

Judgement(end, fs, run) ==
    EventLines(end.events) \o Write("draft", end.text) \o Write("review", ReviewOf(end.issues, run))
    \o EventLines(<<IF end.issues = {} THEN "review passed" ELSE "review failed">>) \o Write("status", VerdictOf(end.issues))

\* The text is written, reviewed and judged.
LEMMA LeadsJudgement ==
  ASSUME NEW X, NEW M, Torn \in X, Candidates(M), NEW fs \in FilesOf(X, M), NEW run, NEW end, RunShaped(end),
         Contents(end, run) \subseteq X
  PROVE  LET I == Inside(X, M, Fitting(X, fs, end))
             ws == Judgement(end, fs, run)
         IN /\ ws \in Seq(WritesOf(X, M))
            /\ Leads(Stage(I, fs.draft, fs.review, fs.status, fs.chapter, {fs.memory}), ws, I,
                     Stage(I, end.text, ReviewOf(end.issues, run), VerdictOf(end.issues), fs.chapter, {fs.memory}))
  <1> DEFINE W == WritesOf(X, M)
             K == Fitting(X, fs, end)
             I == Inside(X, M, K)
             t == end.text
             r == ReviewOf(end.issues, run)
             s == VerdictOf(end.issues)
             Ms == {fs.memory}
             P == Stage(I, fs.draft, fs.review, fs.status, fs.chapter, Ms)
             Pd == Stage(I, t, fs.review, fs.status, fs.chapter, Ms)
             Pr == Stage(I, t, r, fs.status, fs.chapter, Ms)
             Ps == Stage(I, t, r, s, fs.chapter, Ms)
             verdict == <<IF end.issues = {} THEN "review passed" ELSE "review failed">>
             a == EventLines(end.events)
             b == Write("draft", t)
             e == Write("review", r)
             f == EventLines(verdict)
             h == Write("status", s)
  <1>1. t \in X /\ r \in X /\ s \in X
    BY DEF Contents
  <1>2. <<Torn, fs.status>> \in K /\ <<t, fs.status>> \in K /\ <<t, Torn>> \in K /\ <<t, s>> \in K
    BY <1>1 DEF Fitting
  <1>3. a \in Seq(W) /\ Leads(P, a, I, P)
    <2>1. end.events \in Seq(Entries \ {"completed"})
      <3>1. end.events \in Seq(Calls)
        BY DEF RunShaped, Run
      <3>2. Calls \subseteq Entries \ {"completed"}
        BY DEF Calls, Entries
      <3> QED BY <3>1, <3>2
    <2> QED BY <2>1, LeadsEvents
  <1>4. b \in Seq(W) /\ Leads(P, b, I, Pd)
    <2> HIDE DEF K, t, Ms
    <2> QED BY <1>1, <1>2, LeadsDraft
  <1>5. e \in Seq(W) /\ Leads(Pd, e, I, Pr)
    <2> HIDE DEF K, t, r, Ms
    <2> QED BY <1>1, LeadsReview
  <1>6. f \in Seq(W) /\ Leads(Pr, f, I, Pr)
    <2>1. verdict \in Seq(Entries \ {"completed"})
      <3> DEFINE E == Entries \ {"completed"}
      <3>1. "review passed" \in E /\ "review failed" \in E
        BY DEF Entries
      <3> HIDE DEF E
      <3>2. \A v \in E : <<v>> \in Seq(E)
        OBVIOUS
      <3>3. verdict = <<"review passed">> \/ verdict = <<"review failed">>
        OBVIOUS
      <3> HIDE DEF verdict
      <3> QED BY <3>1, <3>2, <3>3 DEF E
    <2> HIDE DEF K, t, r, Ms, verdict
    <2> QED BY <2>1, LeadsEvents
  <1>7. h \in Seq(W) /\ Leads(Pr, h, I, Ps)
    <2> HIDE DEF K, t, r, s, Ms
    <2> QED BY <1>1, <1>2, LeadsStatus
  <1>8. Judgement(end, fs, run) = a \o b \o e \o f \o h
    BY DEF Judgement
  <1> HIDE DEF W, I, P, Pd, Pr, Ps, a, b, e, f, h
  <1>9. a \o b \in Seq(W) /\ Leads(P, a \o b, I, Pd)
    BY <1>3, <1>4, LeadsOn
  <1>10. (a \o b) \o e \in Seq(W) /\ Leads(P, (a \o b) \o e, I, Pr)
    BY <1>5, <1>9, LeadsOn
  <1>11. ((a \o b) \o e) \o f \in Seq(W) /\ Leads(P, ((a \o b) \o e) \o f, I, Pr)
    BY <1>6, <1>10, LeadsOn
  <1>12. (((a \o b) \o e) \o f) \o h \in Seq(W) /\ Leads(P, (((a \o b) \o e) \o f) \o h, I, Ps)
    BY <1>7, <1>11, LeadsOn
  <1> QED BY <1>8, <1>12 DEF W, I, P, Ps

Conclusion(end, fs) ==
    IF end.issues = {}
    THEN Write("chapter", end.text) \o SaveCandidates(fs, end.text)
           \o EventLines(<<"knowledge updated", "state changed">>) \o EventLines(<<"completed">>)
    ELSE EventLines(<<"failed">>)
Concluded(end, fs) == IF end.issues = {} THEN end.text ELSE fs.chapter
LastEvent(end) == IF end.issues = {} THEN "completed" ELSE "failed"
MemoriesAfter(M, end, fs) == IF end.issues = {} THEN {m \in Seq(M) : Full(m)} ELSE {fs.memory}

\* What passed is the chapter, its candidates are saved; and the run is over.
LEMMA LeadsConclusion ==
  ASSUME NEW X, NEW M, Torn \in X, Candidates(M), NEW fs \in FilesOf(X, M), NEW end, RunReviewed(end), end.text \in X,
         end.issues = {} => CandidatesOf(end.text) \subseteq M, NEW K, NEW d, NEW r, NEW s
  PROVE  LET I == Inside(X, M, K)
             ws == Conclusion(end, fs)
         IN /\ ws \in Seq(WritesOf(X, M))
            /\ Leads(Stage(I, d, r, s, fs.chapter, {fs.memory}), ws, I,
                     Ends(Stage(I, d, r, s, Concluded(end, fs), MemoriesAfter(M, end, fs)), LastEvent(end)))
  <1> DEFINE W == WritesOf(X, M)
             I == Inside(X, M, K)
             t == end.text
  <1>1. CASE end.issues = {}
    <2> DEFINE Ms == {m \in Seq(M) : Full(m)}
               P == Stage(I, d, r, s, fs.chapter, {fs.memory})
               Pc == Stage(I, d, r, s, t, {fs.memory})
               Pm == Stage(I, d, r, s, t, Ms)
               a == Write("chapter", t)
               b == SaveCandidates(fs, t)
               e == EventLines(<<"knowledge updated", "state changed">>)
               f == EventLines(<<"completed">>)
    <2>1. ReviewIssues(t) = {} /\ t \in X /\ fs.memory \in Seq(M)
      BY <1>1 DEF RunReviewed, FilesOf
    <2>2. \A id \in Ids : [id |-> id, text |-> t] \in M
      BY <1>1 DEF CandidatesOf
    <2>3. a \in Seq(W) /\ Leads(P, a, I, Pc)
      <3> HIDE DEF t
      <3> QED BY <2>1, LeadsChapter
    <2>4. b \in Seq(W) /\ Leads(Pc, b, I, Pm)
      <3> HIDE DEF t
      <3> QED BY <2>1, <2>2, LeadsCandidates
    <2>5. e \in Seq(W) /\ Leads(Pm, e, I, Pm)
      <3>1. <<"knowledge updated", "state changed">> \in Seq(Entries \ {"completed"})
        BY DEF Entries
      <3> HIDE DEF t, Ms
      <3> QED BY <3>1, LeadsEvents
    <2>6. f \in Seq(W) /\ Leads(Pm, f, I, Ends(Pm, "completed"))
      <3>1. "completed" \in Entries /\ \A m \in Ms : Full(m)
        BY DEF Entries
      <3> HIDE DEF t, Ms
      <3> QED BY <3>1, LeadsEnd
    <2>7. Conclusion(end, fs) = a \o b \o e \o f
      BY <1>1 DEF Conclusion
    <2>8. /\ Ends(Stage(I, d, r, s, Concluded(end, fs), MemoriesAfter(M, end, fs)), LastEvent(end)) = Ends(Pm, "completed")
      BY <1>1 DEF Concluded, MemoriesAfter, LastEvent
    <2> HIDE DEF W, I, P, Pc, Pm, a, b, e, f
    <2>9. a \o b \in Seq(W) /\ Leads(P, a \o b, I, Pm)
      BY <2>3, <2>4, LeadsOn
    <2>10. (a \o b) \o e \in Seq(W) /\ Leads(P, (a \o b) \o e, I, Pm)
      BY <2>5, <2>9, LeadsOn
    <2>11. ((a \o b) \o e) \o f \in Seq(W) /\ Leads(P, ((a \o b) \o e) \o f, I, Ends(Pm, "completed"))
      BY <2>6, <2>10, LeadsOn
    <2> QED BY <2>7, <2>8, <2>11 DEF W, I, P
  <1>2. CASE end.issues # {}
    <2>1. "failed" \in Entries /\ "failed" # "completed"
      BY DEF Entries
    <2>2. /\ Conclusion(end, fs) = EventLines(<<"failed">>)
          /\ Concluded(end, fs) = fs.chapter /\ MemoriesAfter(M, end, fs) = {fs.memory} /\ LastEvent(end) = "failed"
      BY <1>2 DEF Conclusion, Concluded, MemoriesAfter, LastEvent
    <2>3. LET P == Stage(I, d, r, s, fs.chapter, {fs.memory})
          IN EventLines(<<"failed">>) \in Seq(W) /\ Leads(P, EventLines(<<"failed">>), I, Ends(P, "failed"))
      BY <2>1, LeadsEnd
    <2> HIDE DEF W, I
    <2> QED BY <2>2, <2>3 DEF W, I
  <1> QED BY <1>1, <1>2

\* What a run that writes a text leaves behind, at each of its steps and at its end.
LEMMA LeadsContinue ==
  ASSUME NEW X, NEW M, Torn \in X, Candidates(M), NEW fs \in FilesOf(X, M), OnlyPassedTexts(fs),
         NEW run, ~run.dry, NEW end, end = Attempts(fs, run.context, run.answers), RunShaped(end), RunReviewed(end),
         Contents(end, run) \subseteq X, end.issues = {} => CandidatesOf(end.text) \subseteq M
  PROVE  LET ws == ContinueOneChapter(fs, run)
         IN /\ ws \in Seq(WritesOf(X, M))
            /\ Leads({fs}, ws, Inside(X, M, Fitting(X, fs, end)), {g \in FilesOf(X, M) : EndsInAgreement(fs, run, g)})
  <1> DEFINE W == WritesOf(X, M)
             K == Fitting(X, fs, end)
             I == Inside(X, M, K)
             t == end.text
             r == ReviewOf(end.issues, run)
             s == VerdictOf(end.issues)
             x == <<end.issues>>
             P == Stage(I, fs.draft, fs.review, fs.status, fs.chapter, {fs.memory})
             Pj == Stage(I, t, r, s, fs.chapter, {fs.memory})
             S == Stage(I, t, r, s, Concluded(end, fs), MemoriesAfter(M, end, fs))
             Pc == Ends(S, LastEvent(end))
             a == Judgement(end, fs, run)
             b == Conclusion(end, fs)
             e == Write("readiness", x)
             Q == {g \in FilesOf(X, M) : EndsInAgreement(fs, run, g)}
  <1>1. ContinueOneChapter(fs, run) = Opening \o (a \o b \o e)
    BY DEF ContinueOneChapter, Opening, Judgement, Conclusion, ReviewOf, VerdictOf
  <1>2. fs \in P
    <2>1. <<fs.draft, fs.status>> \in K
      BY DEF Fitting, FilesOf
    <2> HIDE DEF K
    <2> QED BY <2>1 DEF Stage, Inside
  <1>3. t \in X /\ x \in X
    BY DEF Contents
  <1>4. Opening \in Seq(W) /\ Leads(P, Opening, I, P)
    <2> HIDE DEF K
    <2> QED BY LeadsOpening
  <1>5. a \in Seq(W) /\ Leads(P, a, I, Pj)
    BY LeadsJudgement
  <1>6. b \in Seq(W) /\ Leads(Pj, b, I, Pc)
    <2> HIDE DEF K, r, s
    <2> QED BY <1>3, LeadsConclusion
  <1>7. e \in Seq(W) /\ Leads(Pc, e, I, Ready(Pc, x))
    <2> DEFINE c == Concluded(end, fs)
               Ms == MemoriesAfter(M, end, fs)
               last == LastEvent(end)
    <2> HIDE DEF K, t, r, s, x, c, Ms, last
    <2>1. Pc = Ends(Stage(Inside(X, M, K), t, r, s, c, Ms), last)
      BY DEF c, Ms, last
    <2> QED BY <1>3, <2>1, LeadsReadiness
  <1>8. Ready(Pc, x) \subseteq Q
    <2> SUFFICES ASSUME NEW g \in Ready(Pc, x) PROVE g \in Q
      OBVIOUS
    <2>1. /\ g \in FilesOf(X, M) /\ g.draft = t /\ g.review = r /\ g.status = s /\ g.readiness = x
          /\ g.chapter = Concluded(end, fs) /\ Last(g.log) = LastEvent(end)
      BY DEF Ready, Ends, Stage, Inside
    <2>2. EndsInAgreement(fs, run, g)
      <3>1. PICK text, issues, c : text = end.text /\ issues = end.issues /\ c = g.chapter
        OBVIOUS
      <3>2. /\ g.draft = text /\ g.review = ReviewOf(issues, run) /\ g.status = VerdictOf(issues) /\ g.readiness = <<issues>>
            /\ g.chapter = c /\ c = (IF issues = {} THEN text ELSE fs.chapter)
            /\ Last(g.log) = IF issues = {} THEN "completed" ELSE "failed"
        BY <2>1, <3>1 DEF Concluded, LastEvent
      <3> QED BY <3>2, EndAgrees
    <2> QED BY <2>1, <2>2
  <1> HIDE DEF W, I, P, Pj, Pc, a, b, e, x, Q
  <1>9. a \o b \in Seq(W) /\ Leads(P, a \o b, I, Pc)
    BY <1>5, <1>6, LeadsOn
  <1>10. (a \o b) \o e \in Seq(W) /\ Leads(P, (a \o b) \o e, I, Ready(Pc, x))
    BY <1>7, <1>9, LeadsOn
  <1>11. Opening \o ((a \o b) \o e) \in Seq(W) /\ Leads(P, Opening \o ((a \o b) \o e), I, Ready(Pc, x))
    BY <1>4, <1>10, LeadsOn
  <1>12. Leads({fs}, Opening \o ((a \o b) \o e), I, Q)
    BY <1>2, <1>8, <1>11 DEF Leads
  <1> QED BY <1>1, <1>11, <1>12 DEF W, I, Q

PassedStatus == <<[passed |-> TRUE, issues |-> {}]>>
PromotedContents(fs, run) ==
    {ReviewOf(ReviewIssues(fs.draft), run), PassedStatus, <<ReviewIssues(fs.draft)>>, <<{}>>}

\* What a promotion leaves behind, at each of its steps and at its end.
LEMMA LeadsPromoted ==
  ASSUME NEW X, NEW M, Torn \in X, Candidates(M), NEW fs \in FilesOf(X, M), OnlyPassedTexts(fs), NEW run,
         PromotedContents(fs, run) \subseteq X, CandidatesOf(fs.draft) \subseteq M
  PROVE  LET ws == PromotePassingDraft(fs, run)
         IN /\ ws \in Seq(WritesOf(X, M))
            /\ Leads({fs}, ws, Inside(X, M, X \X X), {g \in FilesOf(X, M) : ReviewIssues(fs.draft) = {} => g.chapter = fs.draft})
  <1> DEFINE W == WritesOf(X, M)
             K == X \X X
             I == Inside(X, M, K)
             issues == ReviewIssues(fs.draft)
             d == fs.draft
             r == ReviewOf(issues, run)
             s == PassedStatus
             P == Stage(I, d, fs.review, fs.status, fs.chapter, {fs.memory})
             Q == {g \in FilesOf(X, M) : issues = {} => g.chapter = d}
  <1>1. /\ d \in X /\ fs.review \in X /\ fs.status \in X /\ fs.memory \in Seq(M)
        /\ r \in X /\ s \in X /\ <<issues>> \in X /\ <<{}>> \in X
    BY DEF FilesOf, PromotedContents
  <1>2. <<d, fs.status>> \in K /\ <<d, Torn>> \in K /\ <<d, s>> \in K
    BY <1>1
  <1>3. fs \in P
    <2> HIDE DEF K
    <2> QED BY <1>2 DEF Stage, Inside
  <1>4. CASE issues = {}
    <2> DEFINE Ms == {m \in Seq(M) : Full(m)}
               x == <<{}>>
               Pc == Stage(I, d, fs.review, fs.status, d, {fs.memory})
               Pm == Stage(I, d, fs.review, fs.status, d, Ms)
               Pr == Stage(I, d, r, fs.status, d, Ms)
               Ps == Stage(I, d, r, s, d, Ms)
               a == Write("chapter", d)
               b == SaveCandidates(fs, d)
               e == Write("review", r)
               f == Write("status", s)
               h == Write("readiness", x)
    <2>1. a \in Seq(W) /\ Leads(P, a, I, Pc)
      <3>1. ReviewIssues(d) = {}
        BY <1>4
      <3> HIDE DEF d, K
      <3> QED BY <1>1, <3>1, LeadsChapter
    <2>2. b \in Seq(W) /\ Leads(Pc, b, I, Pm)
      <3>1. \A id \in Ids : [id |-> id, text |-> d] \in M
        BY DEF CandidatesOf
      <3>2. ReviewIssues(d) = {}
        BY <1>4
      <3> HIDE DEF d, K
      <3> QED BY <1>1, <3>1, <3>2, LeadsCandidates
    <2>3. e \in Seq(W) /\ Leads(Pm, e, I, Pr)
      <3> HIDE DEF d, r, Ms, K
      <3> QED BY <1>1, LeadsReview
    <2>4. f \in Seq(W) /\ Leads(Pr, f, I, Ps)
      <3> HIDE DEF d, r, s, Ms, K
      <3> QED BY <1>1, <1>2, LeadsStatus
    <2>5. h \in Seq(W) /\ Leads(Ps, h, I, Ready(Ps, x))
      <3> HIDE DEF d, r, s, Ms, x, K
      <3>1. x \in X
        BY <1>1 DEF x
      <3> QED BY <3>1, LeadsReadiness
    <2>6. PromotePassingDraft(fs, run) = a \o b \o e \o f \o h
      BY <1>4 DEF PromotePassingDraft, ReviewOf, PassedStatus
    <2>7. Ready(Ps, x) \subseteq Q
      BY DEF Ready, Stage, Inside
    <2> HIDE DEF W, I, P, Q, Pc, Pm, Pr, Ps, a, b, e, f, h, x
    <2>8. a \o b \in Seq(W) /\ Leads(P, a \o b, I, Pm)
      BY <2>1, <2>2, LeadsOn
    <2>9. (a \o b) \o e \in Seq(W) /\ Leads(P, (a \o b) \o e, I, Pr)
      BY <2>3, <2>8, LeadsOn
    <2>10. ((a \o b) \o e) \o f \in Seq(W) /\ Leads(P, ((a \o b) \o e) \o f, I, Ps)
      BY <2>4, <2>9, LeadsOn
    <2>11. (((a \o b) \o e) \o f) \o h \in Seq(W) /\ Leads(P, (((a \o b) \o e) \o f) \o h, I, Ready(Ps, x))
      BY <2>5, <2>10, LeadsOn
    <2>12. Leads({fs}, (((a \o b) \o e) \o f) \o h, I, Q)
      BY <1>3, <2>7, <2>11 DEF Leads
    <2> QED BY <2>6, <2>11, <2>12 DEF W, I, Q
  <1>5. CASE issues # {}
    <2> DEFINE x == <<issues>>
               Pr == Stage(I, d, r, fs.status, fs.chapter, {fs.memory})
               e == Write("review", r)
               h == Write("readiness", x)
    <2>1. e \in Seq(W) /\ Leads(P, e, I, Pr)
      <3> HIDE DEF d, r, K
      <3> QED BY <1>1, LeadsReview
    <2>2. h \in Seq(W) /\ Leads(Pr, h, I, Ready(Pr, x))
      <3> HIDE DEF d, r, x, K
      <3>1. x \in X
        BY <1>1 DEF x
      <3> QED BY <3>1, LeadsReadiness
    <2>3. PromotePassingDraft(fs, run) = e \o h
      BY <1>5 DEF PromotePassingDraft, ReviewOf
    <2>4. Ready(Pr, x) \subseteq Q
      BY <1>5 DEF Ready, Stage, Inside
    <2> HIDE DEF W, I, P, Q, Pr, e, h, x
    <2>5. e \o h \in Seq(W) /\ Leads(P, e \o h, I, Ready(Pr, x))
      BY <2>1, <2>2, LeadsOn
    <2>6. Leads({fs}, e \o h, I, Q)
      BY <1>3, <2>4, <2>5 DEF Leads
    <2> QED BY <2>3, <2>5, <2>6 DEF W, I, Q
  <1> QED BY <1>4, <1>5

\* During a run: nothing is known of draft and status of a promotion, and nothing else of
\* those of a run that writes no text than that they stay.
During(X, fs, run, end) ==
    IF AsksTheModel(run) THEN Fitting(X, fs, end)
    ELSE IF run.kind = "promote" /\ fs.draft # NoFile THEN X \X X ELSE {<<fs.draft, fs.status>>}
Outcome(X, M, fs, run, ws) == {g \in FilesOf(X, M) : ws # <<>> => EndsInAgreement(fs, run, g)}

\* What any run leaves behind.
LEMMA LeadsRun ==
  ASSUME NEW X, NEW M, Torn \in X, <<{}>> \in X, Candidates(M), NEW fs \in FilesOf(X, M), OnlyPassedTexts(fs),
         NEW run, NEW active, NEW end, end = Attempts(fs, run.context, run.answers),
         RunShaped(end), AsksTheModel(run) => RunReviewed(end),
         Contents(end, run) \subseteq X, CandidatesOf(end.text) \subseteq M,
         PromotedContents(fs, run) \subseteq X, CandidatesOf(fs.draft) \subseteq M
  PROVE  LET ws == Writes(fs, run, active)
         IN /\ ws \in Seq(WritesOf(X, M))
            /\ Leads({fs}, ws, Inside(X, M, During(X, fs, run, end)), Outcome(X, M, fs, run, ws))
  <1> DEFINE ws == Writes(fs, run, active)
             W == WritesOf(X, M)
             I == Inside(X, M, During(X, fs, run, end))
  <1>1. CASE ws = ContinueOneChapter(fs, run) /\ AsksTheModel(run)
    <2>1. ~run.dry /\ During(X, fs, run, end) = Fitting(X, fs, end) /\ RunReviewed(end)
      BY <1>1 DEF AsksTheModel, During
    <2> DEFINE vs == ContinueOneChapter(fs, run)
               Q == {g \in FilesOf(X, M) : EndsInAgreement(fs, run, g)}
    <2>2. vs \in Seq(W) /\ Leads({fs}, vs, Inside(X, M, Fitting(X, fs, end)), Q)
      BY <2>1, LeadsContinue
    <2>3. Q \subseteq Outcome(X, M, fs, run, ws)
      BY DEF Outcome
    <2> HIDE DEF ws, W, Q, vs
    <2> QED BY <1>1, <2>1, <2>2, <2>3 DEF Leads, vs, ws, W
  <1>2. CASE ws = ContinueOneChapter(fs, run) /\ run.kind = "continue" /\ run.dry
    <2>1. During(X, fs, run, end) = {<<fs.draft, fs.status>>}
      BY <1>2 DEF During, AsksTheModel
    <2> DEFINE vs == ContinueOneChapter(fs, run)
    <2>2. vs \in Seq(W) /\ Leads({fs}, vs, Inside(X, M, {<<fs.draft, fs.status>>}), FilesOf(X, M))
      BY <1>2, LeadsDry
    <2>3. FilesOf(X, M) \subseteq Outcome(X, M, fs, run, ws)
      BY <1>2 DEF Outcome, EndsInAgreement
    <2> HIDE DEF ws, W, vs
    <2> QED BY <1>2, <2>1, <2>2, <2>3 DEF Leads, vs, ws, W
  <1>3. CASE ws = PromotePassingDraft(fs, run) /\ run.kind = "promote" /\ fs.draft # NoFile
    <2>1. During(X, fs, run, end) = X \X X
      BY <1>3 DEF During, AsksTheModel
    <2> DEFINE vs == PromotePassingDraft(fs, run)
               Q == {g \in FilesOf(X, M) : ReviewIssues(fs.draft) = {} => g.chapter = fs.draft}
    <2>2. vs \in Seq(W) /\ Leads({fs}, vs, Inside(X, M, X \X X), Q)
      BY LeadsPromoted
    <2>3. Q \subseteq Outcome(X, M, fs, run, ws)
      BY <1>3 DEF Outcome, EndsInAgreement
    <2> HIDE DEF ws, W, vs, Q
    <2> QED BY <1>3, <2>1, <2>2, <2>3 DEF Leads, vs, ws, W
  <1>4. CASE ws = <<>>
    <2>1. <<fs.draft, fs.status>> \in During(X, fs, run, end)
      <3>1. fs.draft \in X /\ fs.status \in X
        BY DEF FilesOf
      <3> QED BY <3>1 DEF During, Fitting
    <2>2. fs \in I /\ fs \in Outcome(X, M, fs, run, ws)
      BY <1>4, <2>1 DEF Inside, Outcome
    <2>3. <<>> \in Seq(W) /\ Len(<<>>) = 0
      OBVIOUS
    <2>4. After(fs, <<>>, 0) = fs
      <3>1. <<>> \in Seq({})
        OBVIOUS
      <3> QED BY <3>1, AfterSteps
    <2> HIDE DEF ws, W, I
    <2>5. \A n \in 0 .. Len(<<>>) : n = 0
      BY <2>3
    <2> QED BY <1>4, <2>2, <2>3, <2>4, <2>5 DEF Leads, ws, W, I
  <1>5. \/ ws = ContinueOneChapter(fs, run) /\ run.kind = "continue"
        \/ ws = PromotePassingDraft(fs, run) /\ run.kind = "promote" /\ fs.draft # NoFile
        \/ ws = <<>>
    BY DEF Writes
  <1> HIDE DEF ws
  <1>6. run.kind = "continue" => AsksTheModel(run) \/ run.dry
    BY DEF AsksTheModel
  <1> QED BY <1>1, <1>2, <1>3, <1>4, <1>5, <1>6 DEF ws

\* A run whose text passed and that wrote its status has left that text as the draft.
LEMMA PassedIsDraft ==
  ASSUME NEW X, NEW run, NEW end, AsksTheModel(run) => RunReviewed(end),
         NEW d, NEW s, <<d, s>> \in During(X, NoFiles, run, end), s \notin {NoFile, Torn}, s[1].passed
  PROVE  ReviewIssues(d) = {}
  <1>1. NoFiles.draft = NoFile /\ NoFiles.status = NoFile
    BY DEF NoFiles
  <1>2. AsksTheModel(run) /\ <<d, s>> = <<end.text, VerdictOf(end.issues)>>
    BY <1>1 DEF During, Fitting
  <1>3. VerdictOf(end.issues)[1].passed = (end.issues = {})
    BY DEF VerdictOf
  <1>4. end.issues = {}
    BY <1>2, <1>3
  <1> QED BY <1>2, <1>4 DEF RunReviewed

\* In a case about a continuation the runs leave what is promised.
LEMMA ContinuationHolds ==
  ASSUME NEW k, k.about = "continuation", ContinuationTyped(k)
  PROVE  LET one == Writes(NoFiles, k.first, k.active)
             between == After(NoFiles, one, k.died)
             two == Writes(between, k.second, k.active)
         IN /\ OnlyPassedTexts(between) /\ CanBePromoted(between, k.second)
            /\ (k.died = Len(one) /\ one # <<>>) => EndsInAgreement(NoFiles, k.first, between)
            /\ \A n \in 0 .. Len(two) : OnlyPassedTexts(After(between, two, n))
            /\ two # <<>> => EndsInAgreement(between, k.second, After(between, two, Len(two)))
  <1>1. PICK first, second, active, died : first = k.first /\ second = k.second /\ active = k.active /\ died = k.died
    OBVIOUS
  <1> DEFINE one == Writes(NoFiles, first, active)
             between == After(NoFiles, one, died)
             two == Writes(between, second, active)
             end1 == Attempts(NoFiles, first.context, first.answers)
             end2 == Attempts(between, second.context, second.answers)
             X == {NoFile, Torn, <<{}>>} \union Contents(end1, first) \union Contents(end2, second)
                  \union PromotedContents(NoFiles, first) \union PromotedContents(between, second)
             M == CandidatesOf(end1.text) \union CandidatesOf(end2.text) \union CandidatesOf(NoFiles.draft)
                  \union CandidatesOf(between.draft)
             I1 == Inside(X, M, During(X, NoFiles, first, end1))
             I2 == Inside(X, M, During(X, between, second, end2))
  <1>2. /\ first.answers \in Seq(ToSet(first.answers)) /\ second.answers \in Seq(ToSet(second.answers))
        /\ AsksTheModel(first) => first.answers # <<>>
        /\ AsksTheModel(second) => second.answers # <<>>
        /\ died \in 0 .. Len(one)
    <2>1. RunTyped(first) /\ RunTyped(second)
      BY <1>1 DEF ContinuationTyped
    <2>2. died \in 0 .. Len(one)
      BY <1>1 DEF ContinuationTyped
    <2> HIDE DEF one
    <2> QED BY <2>1, <2>2 DEF RunTyped
  <1>3. RunShaped(end1) /\ (AsksTheModel(first) => RunReviewed(end1))
    BY <1>2, AttemptsReview
  <1>4. RunShaped(end2) /\ (AsksTheModel(second) => RunReviewed(end2))
    <2> HIDE DEF between
    <2> QED BY <1>2, AttemptsReview
  <1>5. /\ Torn \in X /\ NoFile \in X /\ <<{}>> \in X /\ Contents(end1, first) \subseteq X /\ Contents(end2, second) \subseteq X
        /\ PromotedContents(NoFiles, first) \subseteq X /\ PromotedContents(between, second) \subseteq X
        /\ CandidatesOf(end1.text) \subseteq M /\ CandidatesOf(end2.text) \subseteq M
        /\ CandidatesOf(NoFiles.draft) \subseteq M /\ CandidatesOf(between.draft) \subseteq M
    OBVIOUS
  <1>6. Candidates(M)
    BY DEF Candidates, CandidatesOf
  <1>7. NoFiles \in FilesOf(X, M) /\ OnlyPassedTexts(NoFiles)
    <2>1. <<>> \in Seq(M) /\ <<>> \in Seq(Entries)
      OBVIOUS
    <2>2. NoFiles \in FilesOf(X, M)
      <3> HIDE DEF X, M
      <3> QED BY <1>5, <2>1 DEF NoFiles, FilesOf
    <2>3. NoFiles.chapter = NoFile /\ ToSet(NoFiles.memory) = {} /\ ToSet(NoFiles.log) = {}
      BY DEF NoFiles, ToSet
    <2> HIDE DEF X, M
    <2> QED BY <1>6, <2>2, <2>3, PassedTexts DEF Whole
  <1> HIDE DEF X, M
  <1>8. one \in Seq(WritesOf(X, M)) /\ Leads({NoFiles}, one, I1, Outcome(X, M, NoFiles, first, one))
    <2> HIDE DEF end2, between
    <2>1. PICK e : e = end1
      OBVIOUS
    <2> QED BY <1>3, <1>5, <1>6, <1>7, LeadsRun
  <1>9. /\ between \in I1
        /\ died = Len(one) => between \in Outcome(X, M, NoFiles, first, one)
    <2> HIDE DEF one, I1
    <2> QED BY <1>2, <1>8 DEF Leads
  <1>10. between \in FilesOf(X, M) /\ OnlyPassedTexts(between) /\ <<between.draft, between.status>> \in During(X, NoFiles, first, end1)
    <2> HIDE DEF between, end1
    <2> QED BY <1>9 DEF Inside
  <1> HIDE DEF between, one, end1, I1
  <1>11. two \in Seq(WritesOf(X, M)) /\ Leads({between}, two, I2, Outcome(X, M, between, second, two))
    BY <1>4, <1>5, <1>6, <1>10, LeadsRun
  <1>12. Len(two) \in Nat /\ Len(two) \in 0 .. Len(two)
    <2> HIDE DEF two
    <2> QED BY <1>11
  <1>13. \A n \in 0 .. Len(two) : OnlyPassedTexts(After(between, two, n))
    <2> HIDE DEF two
    <2> QED BY <1>11 DEF Leads, Inside
  <1>14. two # <<>> => EndsInAgreement(between, second, After(between, two, Len(two)))
    <2> HIDE DEF two
    <2> QED BY <1>11 DEF Leads, Outcome
  <1>15. died = Len(one) /\ one # <<>> => EndsInAgreement(NoFiles, first, between)
    BY <1>9 DEF Outcome
  <1>16. CanBePromoted(between, second)
    <2> DEFINE ws == PromotePassingDraft(between, second)
               end == After(between, ws, Len(ws))
    <2> SUFFICES ASSUME between.status \notin {NoFile, Torn}, between.status[1].passed
                 PROVE  end.chapter = between.draft /\ ReviewIssues(end.chapter) = {} /\ OnlyPassedTexts(end)
      BY DEF CanBePromoted
    <2>1. ReviewIssues(between.draft) = {}
      <3>1. PICK d, s : d = between.draft /\ s = between.status
        OBVIOUS
      <3>2. <<d, s>> \in During(X, NoFiles, first, end1) /\ s \notin {NoFile, Torn} /\ s[1].passed
        BY <1>10, <3>1
      <3>3. ReviewIssues(d) = {}
        BY <1>3, <3>2, PassedIsDraft DEF end1
      <3> QED BY <3>1, <3>3
    <2>2. /\ ws \in Seq(WritesOf(X, M))
          /\ Leads({between}, ws, Inside(X, M, X \X X),
                   {g \in FilesOf(X, M) : ReviewIssues(between.draft) = {} => g.chapter = between.draft})
      BY <1>5, <1>6, <1>10, LeadsPromoted
    <2> HIDE DEF ws
    <2>3. Len(ws) \in 0 .. Len(ws)
      BY <2>2
    <2> QED BY <2>1, <2>2, <2>3 DEF Leads, Inside
  <1> QED BY <1>1, <1>10, <1>13, <1>14, <1>15, <1>16 DEF one, between

\* A chapter of the canon is a text that passed its review, whatever run died where, and a run
\* that ends leaves its files in agreement.
THEOREM FinishedChaptersPassed == TableSpec => []FinishedChapterPassed
  <1>1. Drawn => FinishedChapterPassed
    <2> SUFFICES ASSUME Drawn, case.about = "continuation" PROVE FinishedChapterPassed
      BY DEF FinishedChapterPassed, About
    <2>1. ContinuationTyped(case)
      BY ContinuationAssumption DEF Drawn, NoCase
    <2> QED BY <2>1, ContinuationHolds DEF FinishedChapterPassed
  <1>2. QED
    BY <1>1, CaseIsDrawn, PTL
==============================================================================
