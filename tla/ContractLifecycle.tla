-------------------------- MODULE ContractLifecycle --------------------------
(***************************************************************************)
(* The versions of one chapter contract, as the ContractLifecycleCoordin-  *)
(* ator (creative_os/domains/contract_lifecycle.py) keeps them on disk:    *)
(* a memory item for each version, the current pointer, the journals that  *)
(* guard the creation of a replacement and the switch to it, and the       *)
(* authority records that an activation reads again.                       *)
(*                                                                         *)
(* Every operation but the first runs under project_authority_lock, so one *)
(* transaction is in progress at a time: pc and job are its program        *)
(* counter and the pointer it works towards, and pc = "idle" says that     *)
(* the lock is free.  A step is one durable write, with the checks that    *)
(* precede it; a crash may fall between any two of them.                   *)
(***************************************************************************)
EXTENDS Naturals, FiniteSets

CONSTANTS MaxVersion,   \* bound on the versions of the contract (9999 in the code)
          Decisions,    \* texts (content hashes) a version may have
          Issues,       \* the warnings of a review that require a disposition
          Actors,       \* people who may accept them
          MaxCrashes,   \* bound on the crashes of a behaviour
          None          \* no text

ASSUME LifecycleAssumption ==
    /\ MaxVersion \in Nat \ {0}
    /\ MaxCrashes \in Nat
    /\ None \notin Decisions

VARIABLES status,        \* MemoryStatus of each version's item, "absent" before it
          content,       \* text of each version's item
          pointer,       \* the current pointer file
          recorded,      \* versions whose baseline, approval and review are recorded
          dispositions,  \* dispositions recorded for each version's review
          sourcesExact,  \* the baseline's source files still have the recorded revision
          prepare,       \* .prepare.json of each replacement
          authority,     \* revision authority of each replacement
          authorityTmp,  \* versions with a temporary authority file on disk
          switch,        \* switch journal of each replacement
          pc, job,       \* the transaction in progress
          crashes        \* crashes so far

items   == <<status, content>>
records == <<recorded, dispositions, sourcesExact>>
revision == <<prepare, authority, authorityTmp>>
vars == <<items, pointer, records, revision, switch, pc, job, crashes>>

------------------------------------------------------------------------------
(* Types *)

Versions == 1..MaxVersion
Dispositions == Issues \X Actors
Statuses == {"absent", "candidate", "active", "rejected", "archived"}

Pointers == [version : Versions, decision : Decisions, dispositions : SUBSET Dispositions]
NoPointer == [version |-> 0, decision |-> None, dispositions |-> {}]

PrepareStates == {"none", "prepared", "authority_written", "committed"}
Prepares == [state : PrepareStates, decision : Decisions \union {None}]
Authorities == [decision : Decisions \union {None}, base : Decisions \union {None}]

SwitchStates ==
    {"none", "prepared", "new_active", "pointer_switched", "old_archived", "committed"}
Switches ==
    [state : SwitchStates, old : Pointers \union {NoPointer}, new : Pointers \union {NoPointer}]

InitialSteps == {"initial_envelope", "initial_pointer"}
RevisionSteps == {"revision_authority", "revision_rename", "revision_written",
                  "revision_candidate", "revision_commit"}
SwitchSteps == {"switch_activate", "switch_note_active", "switch_pointer", "switch_note_pointer",
                "switch_archive", "switch_note_archived", "switch_commit"}

TypeOK ==
    /\ status \in [Versions -> Statuses]
    /\ content \in [Versions -> Decisions \union {None}]
    /\ pointer \in Pointers \union {NoPointer}
    /\ recorded \subseteq Versions
    /\ dispositions \in [Versions -> SUBSET Dispositions]
    /\ sourcesExact \in BOOLEAN
    /\ prepare \in [Versions -> Prepares]
    /\ authority \in [Versions -> Authorities]
    /\ authorityTmp \subseteq Versions
    /\ switch \in [Versions -> Switches]
    /\ pc \in {"idle"} \union InitialSteps \union RevisionSteps \union SwitchSteps
    /\ job \in Pointers \union {NoPointer}
    /\ crashes \in 0..MaxCrashes

Init ==
    /\ status = [v \in Versions |-> "absent"]
    /\ content = [v \in Versions |-> None]
    /\ pointer = NoPointer
    /\ recorded = {}
    /\ dispositions = [v \in Versions |-> {}]
    /\ sourcesExact = TRUE
    /\ prepare = [v \in Versions |-> [state |-> "none", decision |-> None]]
    /\ authority = [v \in Versions |-> [decision |-> None, base |-> None]]
    /\ authorityTmp = {}
    /\ switch = [v \in Versions |-> [state |-> "none", old |-> NoPointer, new |-> NoPointer]]
    /\ pc = "idle"
    /\ job = NoPointer
    /\ crashes = 0

------------------------------------------------------------------------------
(* Reading the authority *)

PointsToActive(p) == status[p.version] = "active" /\ content[p.version] = p.decision

\* read_pointer and load_current fail on a pointer whose target is not an
\* ACTIVE item of the same text.
PointerReadable == pointer # NoPointer => PointsToActive(pointer)

\* validate_reviewer_gate: every issue that requires a disposition has exactly
\* one, and no disposition is left over.
GateReady(v) == \A i \in Issues : Cardinality({a \in Actors : <<i, a>> \in dispositions[v]}) = 1

\* find_exact: the baseline, the approval and one review of the exact text.
ExactRecords(v) == v \in recorded

\* resolve_manifest, and the preflight over what it resolves.
ManifestResolves == sourcesExact

\* What is below, asked as a first activation would: the item is still a candidate.
CandidateVerified(v, d) ==
    /\ ExactRecords(v) /\ GateReady(v) /\ ManifestResolves
    /\ status[v] = "candidate" /\ content[v] = d

\* What activate_initial and _prepare_replacement_pointer_locked read again
\* before they let version v become current with text d.
AuthorityVerified(v, d) ==
    /\ ExactRecords(v)
    /\ GateReady(v)
    /\ ManifestResolves
    /\ status[v] \in {"candidate", "active"}
    /\ content[v] = d

\* The pointer that binds what was verified.
PointerTo(v) == [version |-> v, decision |-> content[v], dispositions |-> dispositions[v]]

Goto(step) == pc' = step /\ UNCHANGED job
Begin(step, p) == pc = "idle" /\ pc' = step /\ job' = p
Return == pc' = "idle" /\ job' = NoPointer

------------------------------------------------------------------------------
(* The first version *)

\* create_initial_candidate takes no project lock: add_immutable alone decides.
CreateInitialCandidate(d) ==
    /\ status[1] = "absent"
    /\ status' = [status EXCEPT ![1] = "candidate"]
    /\ content' = [content EXCEPT ![1] = d]
    /\ UNCHANGED <<pointer, records, revision, switch, pc, job, crashes>>

\* An activation that overwrites whatever pointer it finds.
AnyPointer(p) == TRUE

\* initial_pointer_conflict otherwise.
InitialPointerFree(p) == pointer \in {NoPointer, p}

\* activate_initial, and recover_initial, which is the same: verify, then
\* write the envelope unless it is ACTIVE already, then the pointer.
ActivateInitial ==
    /\ \E d \in Decisions : AuthorityVerified(1, d)
    /\ PointerReadable
    /\ InitialPointerFree(PointerTo(1))
    /\ Begin(IF status[1] = "candidate" THEN "initial_envelope" ELSE "initial_pointer",
             PointerTo(1))
    /\ UNCHANGED <<items, pointer, records, revision, switch, crashes>>

ActivateInitialEnvelope ==
    /\ pc = "initial_envelope"
    /\ status' = [status EXCEPT ![1] = "active"]
    /\ Goto("initial_pointer")
    /\ UNCHANGED <<content, pointer, records, revision, switch, crashes>>

WriteInitialPointer ==
    /\ pc = "initial_pointer"
    /\ PointsToActive(job)
    /\ pointer' = job
    /\ Return
    /\ UNCHANGED <<items, records, revision, switch, crashes>>

------------------------------------------------------------------------------
(* A replacement candidate: journal, immutable revision authority, item *)

SetPrepare(v, s, d) ==
    prepare' = IF prepare[v].state = "committed" THEN prepare
               ELSE [prepare EXCEPT ![v] = [state |-> s, decision |-> d]]

\* A journal that a later request for the same version takes over.
UnboundPrepare(v, d) == TRUE

\* _write_revision_prepare refuses a request that differs from the journal's.
PrepareBound(v, d) == prepare[v].state = "none" \/ prepare[v].decision = d

\* create_replacement_candidate, and recover_replacement_candidate, which is
\* the same: the request must change the current text and name the next version.
CreateReplacement(d) ==
    LET v == pointer.version + 1 IN
    /\ PointerReadable
    /\ pointer # NoPointer
    /\ v \in Versions
    /\ d # pointer.decision
    /\ PrepareBound(v, d)
    /\ SetPrepare(v, "prepared", d)
    /\ Begin("revision_authority", [version |-> v, decision |-> d, dispositions |-> {}])
    /\ UNCHANGED <<items, pointer, records, authority, authorityTmp, switch, crashes>>

\* _write_revision_authority finds the same authority in place.
ReuseAuthority ==
    /\ pc = "revision_authority"
    /\ authority[job.version].decision = job.decision
    /\ Goto("revision_written")
    /\ UNCHANGED <<items, pointer, records, revision, switch, crashes>>

\* It opens the temporary file with mode "xb", exclusively.
OpenAuthorityTmp ==
    /\ pc = "revision_authority"
    /\ authority[job.version].decision = None
    /\ job.version \notin authorityTmp
    /\ authorityTmp' = authorityTmp \union {job.version}
    /\ Goto("revision_rename")
    /\ UNCHANGED <<items, pointer, records, prepare, authority, switch, crashes>>

\* FileExistsError, on a temporary file that a crash left, or
\* immutable_revision_authority_conflict.
AuthorityRefused ==
    /\ pc = "revision_authority"
    /\ IF authority[job.version].decision = None
       THEN job.version \in authorityTmp
       ELSE authority[job.version].decision # job.decision
    /\ Return
    /\ UNCHANGED <<items, pointer, records, revision, switch, crashes>>

RenameAuthority ==
    /\ pc = "revision_rename"
    /\ authority' = [authority EXCEPT ![job.version] =
                        [decision |-> job.decision, base |-> pointer.decision]]
    /\ authorityTmp' = authorityTmp \ {job.version}
    /\ Goto("revision_written")
    /\ UNCHANGED <<items, pointer, records, prepare, switch, crashes>>

NoteAuthorityWritten ==
    /\ pc = "revision_written"
    /\ SetPrepare(job.version, "authority_written", job.decision)
    /\ Goto("revision_candidate")
    /\ UNCHANGED <<items, pointer, records, authority, authorityTmp, switch, crashes>>

\* add_immutable creates the item.
AddReplacementCandidate ==
    /\ pc = "revision_candidate"
    /\ status[job.version] = "absent"
    /\ status' = [status EXCEPT ![job.version] = "candidate"]
    /\ content' = [content EXCEPT ![job.version] = job.decision]
    /\ Goto("revision_commit")
    /\ UNCHANGED <<pointer, records, revision, switch, crashes>>

\* add_immutable conflicts, and the item is the candidate it was going to write.
KeepReplacementCandidate ==
    /\ pc = "revision_candidate"
    /\ status[job.version] = "candidate"
    /\ content[job.version] = job.decision
    /\ Goto("revision_commit")
    /\ UNCHANGED <<items, pointer, records, revision, switch, crashes>>

\* immutable_contract_conflict: the item has moved on.
ReplacementCandidateConflict ==
    /\ pc = "revision_candidate"
    /\ status[job.version] # "absent"
    /\ status[job.version] # "candidate" \/ content[job.version] # job.decision
    /\ Return
    /\ UNCHANGED <<items, pointer, records, revision, switch, crashes>>

CommitRevision ==
    /\ pc = "revision_commit"
    /\ SetPrepare(job.version, "committed", job.decision)
    /\ Return
    /\ UNCHANGED <<items, pointer, records, authority, authorityTmp, switch, crashes>>

------------------------------------------------------------------------------
(* The switch to a replacement *)

\* A journal that skips ahead.
SetSwitchCommitted(v, s) == switch' = [switch EXCEPT ![v].state = "committed"]

\* A state _read_switch_journal does not know.
SetSwitchMisspelt(v, s) == switch' = [switch EXCEPT ![v].state = "active"]

\* _write_switch_journal.
SetSwitch(v, s) == switch' = [switch EXCEPT ![v].state = s]

\* A switch that starts without its journal.
StartWithoutJournal(v) == UNCHANGED switch

StartJournal(v) ==
    switch' = [switch EXCEPT ![v] = [state |-> "prepared", old |-> pointer, new |-> PointerTo(v)]]

\* switch_replacement, first call: the pointer is the one the caller expects,
\* and the replacement is verified before the journal is written.
PrepareSwitch(v) ==
    /\ switch[v].state = "none"
    /\ PointerReadable
    /\ pointer # NoPointer
    /\ v = pointer.version + 1
    /\ authority[v].base = pointer.decision
    /\ authority[v].decision # None
    /\ AuthorityVerified(v, authority[v].decision)
    /\ StartJournal(v)
    /\ Begin("switch_activate", PointerTo(v))
    /\ UNCHANGED <<items, pointer, records, revision, crashes>>

\* switch_replacement finds a journal: what it verifies again must be the
\* journal's new pointer, or it fails with replacement_authority_drift.
ResumeSwitch(v) ==
    /\ switch[v].state # "none"
    /\ PointerReadable
    /\ AuthorityVerified(v, authority[v].decision)
    /\ PointerTo(v) = switch[v].new
    /\ Begin("switch_activate", PointerTo(v))
    /\ UNCHANGED <<items, pointer, records, revision, switch, crashes>>

\* The order reversed: the old version is archived before the pointer moves.
ArchiveWhileActivating ==
    /\ pc = "switch_activate"
    /\ status' = [status EXCEPT ![job.version] = "active", ![pointer.version] = "archived"]
    /\ Goto("switch_note_active")
    /\ UNCHANGED <<content, pointer, records, revision, switch, crashes>>

\* The new version becomes ACTIVE while the old one still is.
ActivateReplacement ==
    /\ pc = "switch_activate"
    /\ IF status[job.version] = "candidate"
       THEN status' = [status EXCEPT ![job.version] = "active"] /\ Goto("switch_note_active")
       ELSE status[job.version] = "active" /\ Goto("switch_pointer") /\ UNCHANGED status
    /\ UNCHANGED <<content, pointer, records, revision, switch, crashes>>

NoteActive ==
    /\ pc = "switch_note_active"
    /\ SetSwitch(job.version, "new_active")
    /\ Goto("switch_pointer")
    /\ UNCHANGED <<items, pointer, records, revision, crashes>>

\* write_pointer, which validates its target once more.
MovePointer ==
    /\ pc = "switch_pointer"
    /\ pointer = switch[job.version].old
    /\ PointsToActive(job)
    /\ pointer' = job
    /\ Goto("switch_note_pointer")
    /\ UNCHANGED <<items, records, revision, switch, crashes>>

NotePointer ==
    /\ pc = "switch_note_pointer"
    /\ SetSwitch(job.version, "pointer_switched")
    /\ Goto("switch_archive")
    /\ UNCHANGED <<items, pointer, records, revision, crashes>>

PointerAlreadyMoved ==
    /\ pc = "switch_pointer"
    /\ pointer = job
    /\ Goto("switch_archive")
    /\ UNCHANGED <<items, pointer, records, revision, switch, crashes>>

\* contract_switch_conflict: the pointer is neither the old nor the new one.
SwitchConflict ==
    /\ pc = "switch_pointer"
    /\ pointer \notin {switch[job.version].old, job}
    /\ Return
    /\ UNCHANGED <<items, pointer, records, revision, switch, crashes>>

\* The wrong item.
ArchivesReplacement == job.version

Superseded == switch[job.version].old.version

\* The old version, active until here, is archived.
ArchiveOld ==
    /\ pc = "switch_archive"
    /\ PointsToActive(job) /\ pointer = job
    /\ IF status[Superseded] = "active"
       THEN status' = [status EXCEPT ![Superseded] = "archived"] /\ Goto("switch_note_archived")
       ELSE status[Superseded] = "archived" /\ Goto("switch_commit") /\ UNCHANGED status
    /\ UNCHANGED <<content, pointer, records, revision, switch, crashes>>

NoteArchived ==
    /\ pc = "switch_note_archived"
    /\ SetSwitch(job.version, "old_archived")
    /\ Goto("switch_commit")
    /\ UNCHANGED <<items, pointer, records, revision, crashes>>

CommitSwitch ==
    /\ pc = "switch_commit"
    /\ SetSwitch(job.version, "committed")
    /\ Return
    /\ UNCHANGED <<items, pointer, records, revision, crashes>>

------------------------------------------------------------------------------
(* The world around: authority records, source files, crashes *)

\* A save that does not wait for the transaction in progress.
NoLock == TRUE

\* Every save takes project_authority_lock.
RecordLock == pc = "idle"

\* The baseline, the approval and the review of version v's text are recorded.
\* They are append-only; records for another text are never read by a switch.
SaveExactRecords(v) ==
    /\ RecordLock
    /\ status[v] # "absent"
    /\ recorded' = recorded \union {v}
    /\ UNCHANGED <<items, pointer, dispositions, sourcesExact, revision, switch, pc, job, crashes>>

\* ContractRecordStore.save_disposition requires the review, under the same lock.
SaveDisposition(v, x) ==
    /\ RecordLock
    /\ v \in recorded
    /\ dispositions' = [dispositions EXCEPT ![v] = @ \union {x}]
    /\ UNCHANGED <<items, pointer, recorded, sourcesExact, revision, switch, pc, job, crashes>>

\* Somebody edits, or restores, the files a baseline names: no lock is involved.
SourcesChange ==
    /\ sourcesExact' = ~sourcesExact
    /\ UNCHANGED <<items, pointer, recorded, dispositions, revision, switch, pc, job, crashes>>

\* The process that holds the lock dies; what it wrote stays.
Crash ==
    /\ pc # "idle"
    /\ crashes < MaxCrashes
    /\ crashes' = crashes + 1
    /\ Return
    /\ UNCHANGED <<items, pointer, records, revision, switch>>

------------------------------------------------------------------------------

Continue ==
    \/ ActivateInitialEnvelope \/ WriteInitialPointer
    \/ ReuseAuthority \/ OpenAuthorityTmp \/ AuthorityRefused \/ RenameAuthority
    \/ NoteAuthorityWritten \/ AddReplacementCandidate \/ KeepReplacementCandidate
    \/ ReplacementCandidateConflict \/ CommitRevision
    \/ ActivateReplacement \/ NoteActive \/ MovePointer \/ NotePointer
    \/ PointerAlreadyMoved \/ SwitchConflict \/ ArchiveOld \/ NoteArchived \/ CommitSwitch

Environment ==
    \/ \E v \in Versions : SaveExactRecords(v)
    \/ \E v \in Versions, x \in Dispositions : SaveDisposition(v, x)
    \/ SourcesChange

Next ==
    \/ \E d \in Decisions : CreateInitialCandidate(d) \/ CreateReplacement(d)
    \/ ActivateInitial
    \/ \E v \in Versions : PrepareSwitch(v) \/ ResumeSwitch(v)
    \/ Continue
    \/ Environment
    \/ Crash

Spec == Init /\ [][Next]_vars

\* The process in a transaction goes on; an operator who finds a switch journal
\* runs recover_switch again, and flock lets the retry in sooner or later.
Fairness ==
    /\ WF_vars(Continue)
    /\ \A v \in Versions : SF_vars(ResumeSwitch(v))

FairSpec == Spec /\ Fairness

------------------------------------------------------------------------------
(* Safety *)

\* Whatever crashes between two writes, the pointer names an ACTIVE item of the
\* text it was built for: read_pointer never fails on the coordinator's own work.
PointerTargetActive ==
    pointer # NoPointer =>
        status[pointer.version] = "active" /\ content[pointer.version] = pointer.decision

\* No version is archived before its successor is current, so a reader never
\* finds the chapter without a contract once it has had one.
ArchivedOnlyWhenSuperseded ==
    \A v \in Versions : status[v] = "archived" => v < pointer.version

\* A version that is ACTIVE ahead of the pointer is the next one, and either the
\* first or in the middle of a switch whose journal a recovery will find.
ActiveAheadIsJournalled ==
    \A v \in Versions : status[v] = "active" /\ v > pointer.version =>
        /\ v = pointer.version + 1
        /\ v > 1 => switch[v].state \in {"prepared", "new_active"} /\ switch[v].old = pointer

\* The switch journal never runs ahead of the files it tells a recovery about.
JournalTellsTheTruth ==
    \A v \in Versions :
        /\ switch[v].state # "none" => switch[v].old.version = v - 1 /\ switch[v].new.version = v
        /\ switch[v].state = "new_active" => status[v] \in {"active", "archived"}
        /\ switch[v].state \in {"pointer_switched", "old_archived", "committed"} =>
              pointer.version >= v
        /\ switch[v].state \in {"old_archived", "committed"} => status[v - 1] = "archived"

\* The three files that create a replacement never disagree on its text, and the
\* current text is the one its authority allows, made against the text it replaced.
RevisionFilesAgree ==
    /\ \A v \in Versions \ {1} :
          /\ authority[v].decision # None => prepare[v].decision = authority[v].decision
          /\ status[v] # "absent" => content[v] = authority[v].decision
    /\ pointer.version > 1 =>
          authority[pointer.version] =
              [decision |-> pointer.decision, base |-> content[pointer.version - 1]]

\* When the pointer moves, the review gate of the new version is satisfied by
\* exactly the dispositions the pointer binds: none slips in after the check.
PointerMovesThroughGate ==
    [][pointer' # pointer =>
        /\ GateReady(pointer'.version)
        /\ pointer'.dispositions = dispositions[pointer'.version]]_vars

\* What the lifecycle promises its readers, with the pointer as current version.
Contract == INSTANCE CurrentContract WITH
    current  <- pointer.version,
    history  <- [v \in Versions |-> IF v <= pointer.version THEN content[v] ELSE None],
    approved <- {<<v, content[v]>> : v \in recorded}

ImplementsCurrentContract == Contract!Spec

\* Once a later version's switch is committed, every earlier version is archived.
CommittedHistoryArchived ==
    \A v \in Versions : switch[v].state = "committed" =>
        \A u \in 1..(v - 1) : status[u] = "archived"

------------------------------------------------------------------------------
(* Liveness *)

\* A recovery of the switch to v is refused: its authority has drifted, or the
\* contract has already moved past v.
SwitchBlocked(v) ==
    \/ ~sourcesExact
    \/ dispositions[v] # switch[v].new.dispositions
    \/ pointer.version > v

\* A switch whose journal is on disk is committed in the end, whatever step it
\* crashed after, unless its authority drifts or a later switch overtakes it.
SwitchCompletes ==
    \A v \in Versions :
        switch[v].state = "prepared" ~> (switch[v].state = "committed" \/ SwitchBlocked(v))

\* A replacement whose prepare journal is on disk gets its candidate in the end,
\* if the operator keeps running recover_replacement_candidate.
RevisionFairness == \A d \in Decisions : SF_vars(CreateReplacement(d))

RetriedSpec == FairSpec /\ RevisionFairness

PreparedRevisionRecovers ==
    \A v \in Versions : prepare[v].state = "prepared" ~> status[v] # "absent"
==============================================================================
