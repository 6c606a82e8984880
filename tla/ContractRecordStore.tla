------------------------ MODULE ContractRecordStore ------------------------
(***************************************************************************)
(* The authority records of a chapter contract, as the ContractRecordStore *)
(* (creative_os/domains/contract_record_store.py) keeps them: one file for *)
(* each record and one journal for each file, both published atomically by *)
(* contract_record_filesystem.py.                                          *)
(*                                                                         *)
(* Every operation holds the project's authority lock, so one is in        *)
(* progress at a time: pc is its program counter and job the record it     *)
(* saves, None for load, find_exact and recover, which only recover.  A    *)
(* step is one durable write with the checks that precede it.  An I/O      *)
(* error or the death of the process ends the operation between two steps. *)
(***************************************************************************)
EXTENDS Naturals, FiniteSets

CONSTANTS Keys,            \* exact bindings (contract, version, text, baseline) of an approval
          Bodies,          \* what an approval of one key may say
          Results,         \* reviewer result ids
          Issues,          \* issues a review may raise
          Actors,          \* people who dispose of an issue
          ActiveIds,       \* authorization ids of continuation authorizations
          RevocationIds,   \* authorization ids of revocations
          Runs,            \* writer runs an authorization is about
          MaxRecords,      \* bound on the records of a behaviour
          MaxCrashes,      \* bound on the failures of a behaviour
          None             \* no record, no id

ASSUME RecordsAssumption ==
    /\ MaxRecords \in Nat
    /\ MaxCrashes \in Nat
    /\ None \notin ActiveIds

VARIABLES journal,    \* state of each record's journal, "none" before it
          files,      \* records whose file is there
          returned,   \* records whose save returned their id
          pc, job,    \* the operation in progress
          crashes     \* failures so far

vars == <<journal, files, returned, pc, job, crashes>>

------------------------------------------------------------------------------
(* Records.  A hash is the value it hashes: the id of a review, of a        *)
(* disposition and of an authorization contains the hash of all it says.    *)

Approvals == [type : {"approval"}, key : Keys, body : Bodies]

Reviews == [type : {"reviewer_result"}, result : Results, issues : SUBSET Issues]

Dispositions == [type : {"disposition"}, review : Reviews, issue : Issues, actor : Actors]

\* An ACTIVE authorization supersedes nothing, a REVOKED one names what it revokes.
Authorizations ==
    [type : {"continuation"}, status : {"ACTIVE"}, id : ActiveIds,
     supersedes : {None}, run : Runs]
Revocations ==
    [type : {"continuation"}, status : {"REVOKED"}, id : RevocationIds,
     supersedes : ActiveIds, run : Runs]
Continuations == Authorizations \union Revocations

Records == Approvals \union Reviews \union Dispositions \union Continuations

\* The same record id: that of an approval leaves out what the approval says.
SameId(r, s) ==
    r = s \/ (r \in Approvals /\ s \in Approvals /\ r.key = s.key)

Journalled == {r \in Records : journal[r] # "none"}
Prepared   == {r \in Records : journal[r] = "prepared"}
Committed  == {r \in Records : journal[r] = "committed"}

Steps == {"recover", "recover_commit", "validate", "write", "commit"}

TypeOK ==
    /\ journal \in [Records -> {"none", "prepared", "committed"}]
    /\ files \subseteq Records
    /\ returned \subseteq Records
    /\ pc \in {"idle"} \union Steps
    /\ job \in Records \union {None}
    /\ crashes \in 0..MaxCrashes

Init ==
    /\ journal = [r \in Records |-> "none"]
    /\ files = {}
    /\ returned = {}
    /\ pc = "idle"
    /\ job = None
    /\ crashes = 0

------------------------------------------------------------------------------
(* Bindings *)

\* The review is looked up by its result id alone.
DispositionOfResult(r, present) ==
    /\ \E s \in present \intersect Reviews : s.result = r.review.result
    /\ r.issue \in r.review.issues

\* A disposition names exactly one review that is there, and one of its issues.
DispositionBound(r, present) == r.review \in present /\ r.issue \in r.review.issues

\* The authorization's own file counts as another.
IdNeverUsed(r, present) == \A s \in present \intersect Continuations : s.id # r.id

\* No other authorization, revocations included, has the id of an ACTIVE one.
IdUnused(r, present) == \A s \in present \intersect Continuations : s.id = r.id => s = r

RevocationTargets(r, present) == {s \in present \intersect Authorizations : s.id = r.supersedes}

\* A revocation of any authorization of that id.
RevocationOfId(r, present) == RevocationTargets(r, present) # {}

\* A revocation has exactly one ACTIVE authorization to revoke, of the same run.
RevocationBound(r, present) ==
    /\ Cardinality(RevocationTargets(r, present)) = 1
    /\ \A s \in RevocationTargets(r, present) : s.run = r.run

\* What the records of a set must say for r to be accepted.
Binds(r, present) ==
    /\ r \in Dispositions => DispositionBound(r, present)
    /\ r \in Authorizations => IdUnused(r, present)
    /\ r \in Revocations => RevocationBound(r, present)

\* Reviews have to be recovered before the records of the second phase.
SecondPhase == Dispositions \union Continuations

\* Whatever state its journal is in.
ReadableFile(r) == journal[r] # "none"

\* _load_if_present_locked: a file is only read together with its committed
\* journal, a disposition with all of the reviews, a revocation with what it revokes.
Readable(r) ==
    /\ journal[r] = "committed"
    /\ r \in Dispositions =>
          DispositionBound(r, files) /\ (\A s \in files \intersect Reviews : s \in Committed)
    /\ r \in Revocations => RevocationBound(r, files)

\* _scan_locked fails on the first file that cannot be read.
ScanFails(kind) == \E r \in files \intersect kind : ~Readable(r)
Scan(kind) == files \intersect kind

\* find_exact_continuation_authorization, which does not recover first.
FoundAuthorization(id, run) ==
    {r \in Scan(Authorizations) :
        /\ r.id = id /\ r.run = run
        /\ \A s \in Scan(Revocations) : s.run = run => s.supersedes # id}

------------------------------------------------------------------------------
(* Recovery, the first part of every operation *)

Goto(step) == pc' = step /\ UNCHANGED job
KeepLock == pc' = "locked" /\ job' = None
Return == pc' = "idle" /\ job' = None

\* Nothing of the second phase is looked at before the first phase is over.
Reached(r) == r \in SecondPhase => Prepared \subseteq SecondPhase

\* What makes _recover_locked give up at the journal of r.
RecoveryRejects(r) ==
    \/ r \in SecondPhase /\ ~Binds(r, files)
    \/ \E s \in files : SameId(r, s) /\ s # r
    \/ r \notin files /\ journal[r] = "committed"

\* load, find_exact, recover: their answer changes nothing.
BeginRead ==
    /\ pc = "idle"
    /\ pc' = "recover"
    /\ UNCHANGED <<journal, files, returned, job, crashes>>

BeginSave(r) ==
    /\ pc = "idle"
    /\ r \in Journalled \/ Cardinality(Journalled) < MaxRecords
    /\ pc' = "recover"
    /\ job' = r
    /\ UNCHANGED <<journal, files, returned, crashes>>

\* A prepared journal gets its file.
RecoverFile(r) ==
    /\ pc = "recover"
    /\ r \in Prepared
    /\ Reached(r) /\ ~RecoveryRejects(r)
    /\ files' = files \union {r}
    /\ Goto("recover_commit")
    /\ UNCHANGED <<journal, returned, crashes>>

\* A prepared journal that has its file is committed.
RecoverCommit ==
    /\ pc = "recover_commit"
    /\ \E r \in Prepared \intersect files : journal' = [journal EXCEPT ![r] = "committed"]
    /\ Goto("recover")
    /\ UNCHANGED <<files, returned, crashes>>

\* A journal is rejected, or a file has none: the operation fails.
RecoverFails ==
    /\ pc = "recover"
    /\ \/ \E r \in Journalled : Reached(r) /\ RecoveryRejects(r)
       \/ Prepared = {} /\ ~(files \subseteq Journalled)
    /\ Return
    /\ UNCHANGED <<journal, files, returned, crashes>>

\* An operation starts on whatever it finds.
NotRecovered == TRUE

\* Every journal is committed and accepted, and no file is without one.
Recovered ==
    /\ Prepared = {}
    /\ \A r \in Journalled : ~RecoveryRejects(r)
    /\ files \subseteq Journalled

RecoverDone ==
    /\ pc = "recover"
    /\ Recovered
    /\ IF job = None THEN Return ELSE Goto("validate")
    /\ UNCHANGED <<journal, files, returned, crashes>>

------------------------------------------------------------------------------
(* _save, once recovered *)

\* Only the record itself.
ExistingSelf(r) == {r} \intersect files

\* What is already there under the record's id.
Existing(r) == {s \in files \union Journalled : SameId(r, s)}

\* The binding is left to the next recovery.
RefusesConflict(r) == \E s \in Existing(r) : s # r

\* What save does with a record that is not bound, or whose id says something else.
SaveRefused(r) == ~Binds(r, files) \/ (\E s \in Existing(r) : s # r)

Refuse ==
    /\ pc = "validate"
    /\ SaveRefused(job)
    /\ Return
    /\ UNCHANGED <<journal, files, returned, crashes>>

\* The same record again: its id is returned and nothing is written.
ReturnExisting ==
    /\ pc = "validate"
    /\ ~SaveRefused(job)
    /\ job \in files
    /\ returned' = returned \union {job}
    /\ Return
    /\ UNCHANGED <<journal, files, crashes>>

PrepareJournal ==
    /\ pc = "validate"
    /\ ~SaveRefused(job)
    /\ job \notin files
    /\ journal' = [journal EXCEPT ![job] = "prepared"]
    /\ Goto("write")
    /\ UNCHANGED <<files, returned, crashes>>

\* The file never reaches the directory.
LoseRecord ==
    /\ pc = "write"
    /\ Goto("commit")
    /\ UNCHANGED <<journal, files, returned, crashes>>

WriteRecord ==
    /\ pc = "write"
    /\ files' = files \union {job}
    /\ Goto("commit")
    /\ UNCHANGED <<journal, returned, crashes>>

CommitJournal ==
    /\ pc = "commit"
    /\ journal' = [journal EXCEPT ![job] = "committed"]
    /\ returned' = returned \union {job}
    /\ Return
    /\ UNCHANGED <<files, crashes>>

\* The process dies, or a write fails: what was written before stays.
Crash ==
    /\ pc # "idle"
    /\ crashes < MaxCrashes
    /\ crashes' = crashes + 1
    /\ Return
    /\ UNCHANGED <<journal, files, returned>>

------------------------------------------------------------------------------

Continue ==
    \/ \E r \in Records : RecoverFile(r)
    \/ RecoverCommit \/ RecoverFails \/ RecoverDone
    \/ Refuse \/ ReturnExisting \/ PrepareJournal \/ WriteRecord \/ CommitJournal

Next ==
    \/ BeginRead
    \/ \E r \in Records : BeginSave(r)
    \/ Continue
    \/ Crash

Spec == Init /\ [][Next]_vars

\* An operation in progress goes on.
FairSpec == Spec /\ WF_vars(Continue)

------------------------------------------------------------------------------
(* Safety *)

\* Whatever fails between two writes, at most one save is unfinished on disk:
\* no operation writes before it has recovered what it found.
OneUnfinished == \A r, s \in Prepared : r = s

\* A record whose id a save returned stays there and committed whatever fails
\* later, and readable as soon as no save is unfinished.
ReturnedSurvives ==
    \A r \in returned : r \in files /\ r \in Committed /\ (Prepared = {} => Readable(r))

\* A finder that does not recover sees exactly the committed records of a type,
\* unless it fails on the one that is unfinished.
ScanExact ==
    \A kind \in {Approvals, Reviews, Dispositions, Continuations} :
        ~ScanFails(kind) => Scan(kind) = Committed \intersect kind

\* A record, or just its journal, is bound to records that are committed before it.
BoundToCommitted ==
    \A r \in Journalled :
        /\ r \in Dispositions => r.review \in Committed /\ r.issue \in r.review.issues
        /\ r \in Revocations =>
              \E s \in Committed \intersect Authorizations : s.id = r.supersedes /\ s.run = r.run

\* Once the revocation of an authorization is returned, nobody finds the
\* authorization again, for any run.
RevocationEffective ==
    \A r \in returned \intersect Revocations, run \in Runs :
        FoundAuthorization(r.supersedes, run) = {}

\* What a record refers to holds: it is bound to committed records, and what a revocation
\* takes back is not found again.
BindingsHold == BoundToCommitted /\ RevocationEffective

\* Between two operations every journal is one that a recovery accepts.
StoreRecovers == pc = "idle" => \A r \in Journalled : ~(Reached(r) /\ RecoveryRejects(r))

\* The id of an authorization has been used again, by its own revocation.
IdTaken(r) == \E s \in Journalled \intersect Revocations : s.id = r.id

\* A recovery rejects nothing that a save accepted, whatever failed in between,
\* but an authorization whose id a revocation took.
RejectedOnlyIfIdTaken ==
    pc = "idle" => \A r \in Journalled :
        Reached(r) /\ RecoveryRejects(r) => r \in Authorizations /\ IdTaken(r)

\* The log that the readers of the store see.
Log == INSTANCE RecordLog WITH log <- Committed

ImplementsRecordLog == Log!Spec

------------------------------------------------------------------------------
(* Liveness *)

\* Readers come back, and run into few enough failures to finish.
Retried == FairSpec /\ WF_vars(BeginRead)

\* A save that was interrupted after its journal is completed, if the store is
\* used again and no id has been used twice.
UnfinishedCompletes ==
    \A r \in Records :
        r \in Prepared ~> (r \in Committed \/ \E s \in Authorizations : IdTaken(s))
==============================================================================
