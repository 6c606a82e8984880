------------------------ MODULE WriterAdmission_proofs ------------------------
(***************************************************************************)
(* Proofs about ContractLifecycle, and about WriterAdmission that extends  *)
(* it, for every number of versions, texts, issues, actors, crashes, runs, *)
(* authorizations and lifetimes.                                           *)
(*                                                                         *)
(* Of the lifecycle: the types; that neither a crash nor a retry leaves    *)
(* the pointer on a version that is not ACTIVE, or archives a version      *)
(* before its successor is current; that journals and revision files tell  *)
(* the truth; and that it implements CurrentContract.  Of the admission:   *)
(* the contract a chapter is written under stays the one it was admitted   *)
(* under, an old contract is written under only with a human's             *)
(* authorization, and an admission is short-lived.                         *)
(***************************************************************************)
EXTENDS WriterAdmission, TLAPS

------------------------------------------------------------------------------
(* The lifecycle: its inductive invariant *)

\* A version whose item exists has a text.
ContentPresent == \A v \in Versions : status[v] # "absent" => content[v] \in Decisions

\* A version that is or was current, or has records, has an item.
HistoryPresent == \A v \in Versions : v <= pointer.version \/ v \in recorded => status[v] # "absent"

\* A switch journal names two consecutive versions.
JournalBinds ==
    \A v \in Versions : switch[v].state # "none" =>
        /\ switch[v].old \in Pointers /\ switch[v].old.version = v - 1
        /\ switch[v].new \in Pointers /\ switch[v].new.version = v

\* What holds of the files, whatever the transaction in progress.
Files ==
    /\ PointerTargetActive
    /\ ArchivedOnlyWhenSuperseded
    /\ ContentPresent
    /\ HistoryPresent
    /\ JournalBinds

\* What a transaction knows between two of its writes.
InitialJob ==
    pc \in InitialSteps =>
        /\ job \in Pointers /\ job.version = 1 /\ job.version \in recorded
        /\ status[1] # "absent" /\ content[1] = job.decision
        /\ pointer \in {NoPointer, job}
        /\ pc = "initial_pointer" => status[1] = "active"

RevisionJob ==
    pc \in RevisionSteps => job \in Pointers /\ pointer \in Pointers

SwitchJob ==
    pc \in SwitchSteps =>
        /\ job \in Pointers /\ job.version \in recorded
        /\ switch[job.version].state # "none" /\ switch[job.version].new = job
        /\ status[job.version] # "absent" /\ content[job.version] = job.decision
        /\ pc # "switch_activate" => status[job.version] \in {"active", "archived"}
        /\ pc \in {"switch_note_pointer", "switch_archive", "switch_note_archived",
                   "switch_commit"} => pointer = job

Jobs == InitialJob /\ RevisionJob /\ SwitchJob

\* The gate that let the transaction in still stands, with the same dispositions.
JobVerified ==
    pc \in InitialSteps \union SwitchSteps =>
        GateReady(job.version) /\ job.dispositions = dispositions[job.version]

IInv == TypeOK /\ Files /\ Jobs /\ JobVerified

------------------------------------------------------------------------------
(* Types *)

\* The sentinel is not a pointer: its version is none of the versions.
LEMMA NoPointerApart == NoPointer \notin Pointers
  BY DEF NoPointer, Pointers, Versions

\* What PointerTo builds from a version that has a text is a pointer.
LEMMA PointerToTyped ==
  ASSUME TypeOK, NEW v \in Versions, content[v] \in Decisions
  PROVE  PointerTo(v) \in Pointers
  BY DEF TypeOK, PointerTo, Pointers

\* So is the pointer a verified version gets.
LEMMA VerifiedPointerTyped ==
  ASSUME TypeOK, NEW v \in Versions, NEW d \in Decisions, AuthorityVerified(v, d)
  PROVE  PointerTo(v) \in Pointers
  BY PointerToTyped DEF AuthorityVerified

\* A note in a journal keeps the type of the journals.
LEMMA SetSwitchTyped ==
  ASSUME TypeOK, NEW v, NEW s \in SwitchStates, SetSwitch(v, s)
  PROVE  switch' \in [Versions -> Switches]
  <1>1. ASSUME NEW u \in Versions
        PROVE  [switch[u] EXCEPT !.state = s] \in Switches
    BY DEF TypeOK, Switches
  <1>2. QED
    BY <1>1 DEF TypeOK, SetSwitch

\* So does a note in a prepare journal.
LEMMA SetPrepareTyped ==
  ASSUME TypeOK, NEW v, NEW s \in PrepareStates, NEW d \in Decisions \union {None},
         SetPrepare(v, s, d)
  PROVE  prepare' \in [Versions -> Prepares]
  BY DEF TypeOK, Prepares, SetPrepare

\* A change of one version's status, or of none, keeps the type.
LEMMA StatusTyped ==
  ASSUME TypeOK, NEW v, NEW s \in Statuses, status' = [status EXCEPT ![v] = s]
  PROVE  status' \in [Versions -> Statuses]
  BY DEF TypeOK

\* The program steps of the three operations are apart.
LEMMA StepsApart ==
  /\ "idle" \notin InitialSteps \union RevisionSteps \union SwitchSteps
  /\ InitialSteps \cap RevisionSteps = {}
  /\ InitialSteps \cap SwitchSteps = {}
  /\ RevisionSteps \cap SwitchSteps = {}
  BY DEF InitialSteps, RevisionSteps, SwitchSteps

\* The empty project is typed.
LEMMA TypeInit == Init => TypeOK
  BY LifecycleAssumption DEF Init, TypeOK, Statuses, NoPointer, PrepareStates, Prepares,
       Authorities, SwitchStates, Switches

\* Every step keeps the types; a revision must remember which version it creates.
LEMMA TypeStep == TypeOK /\ RevisionJob /\ [Next]_vars => TypeOK'
  <1> SUFFICES ASSUME TypeOK, RevisionJob, [Next]_vars PROVE TypeOK'
    OBVIOUS
  <1>1. ASSUME NEW d \in Decisions, CreateInitialCandidate(d) PROVE TypeOK'
    BY <1>1 DEF TypeOK, CreateInitialCandidate, Statuses, Versions, items, records, revision
  <1>2. ASSUME NEW d \in Decisions, CreateReplacement(d) PROVE TypeOK'
    <2>1. SetPrepare(pointer.version + 1, "prepared", d) /\ "prepared" \in PrepareStates
      BY <1>2 DEF CreateReplacement, PrepareStates
    <2>2. prepare' \in [Versions -> Prepares]
      BY <2>1, SetPrepareTyped
    <2>3. job' \in Pointers /\ pc' \in RevisionSteps
      BY <1>2 DEF CreateReplacement, Begin, Pointers, RevisionSteps
    <2>4. QED
      BY <1>2, <2>2, <2>3 DEF CreateReplacement, Begin, TypeOK, items, records
  <1>3. CASE ActivateInitial
    <2>1. PointerTo(1) \in Pointers
      BY <1>3, VerifiedPointerTyped, LifecycleAssumption DEF ActivateInitial, Versions
    <2>2. QED
      BY <1>3, <2>1 DEF ActivateInitial, Begin, InitialSteps, TypeOK, items, records, revision
  <1>4. ASSUME NEW v \in Versions, PrepareSwitch(v) PROVE TypeOK'
    <2>1. PointerTo(v) \in Pointers
      BY <1>4, VerifiedPointerTyped DEF PrepareSwitch, TypeOK, Authorities
    <2>2. switch' \in [Versions -> Switches]
      BY <1>4, <2>1 DEF PrepareSwitch, StartJournal, TypeOK, Switches, SwitchStates
    <2>3. QED
      BY <1>4, <2>1, <2>2 DEF PrepareSwitch, Begin, SwitchSteps, TypeOK, items, records, revision
  <1>5. ASSUME NEW v \in Versions, ResumeSwitch(v) PROVE TypeOK'
    BY <1>5 DEF TypeOK, ResumeSwitch, Switches, Begin, SwitchSteps, items, records, revision
  <1>6. CASE ActivateInitialEnvelope
    BY <1>6, StatusTyped DEF TypeOK, ActivateInitialEnvelope, Goto, Statuses, InitialSteps,
       records, revision
  <1>7. CASE WriteInitialPointer
    BY <1>7 DEF TypeOK, WriteInitialPointer, Return, items, records, revision
  <1>8. CASE ReuseAuthority
    BY <1>8 DEF TypeOK, ReuseAuthority, Goto, RevisionSteps, items, records, revision
  <1>9. CASE OpenAuthorityTmp
    BY <1>9 DEF TypeOK, OpenAuthorityTmp, RevisionJob, Goto, RevisionSteps, Pointers, items,
       records
  <1>10. CASE AuthorityRefused
    BY <1>10 DEF TypeOK, AuthorityRefused, Return, items, records, revision
  <1>11. CASE RenameAuthority
    BY <1>11 DEF TypeOK, RenameAuthority, RevisionJob, Authorities, Pointers, Goto,
       RevisionSteps, items, records
  <1>12. CASE NoteAuthorityWritten
    BY <1>12, SetPrepareTyped DEF TypeOK, NoteAuthorityWritten, RevisionJob, PrepareStates,
       Pointers, Goto, RevisionSteps, items, records
  <1>13. CASE AddReplacementCandidate
    BY <1>13, StatusTyped DEF TypeOK, AddReplacementCandidate, RevisionJob, Statuses,
       Pointers, Goto, RevisionSteps, records, revision
  <1>14. CASE KeepReplacementCandidate
    BY <1>14 DEF TypeOK, KeepReplacementCandidate, Goto, RevisionSteps, items, records,
       revision
  <1>15. CASE ReplacementCandidateConflict
    BY <1>15 DEF TypeOK, ReplacementCandidateConflict, Return, items, records, revision
  <1>16. CASE CommitRevision
    BY <1>16, SetPrepareTyped DEF TypeOK, CommitRevision, RevisionJob, PrepareStates,
       Pointers, Return, RevisionSteps, items, records
  <1>17. CASE ActivateReplacement
    BY <1>17, StatusTyped DEF TypeOK, ActivateReplacement, Statuses, Goto, SwitchSteps,
       records, revision
  <1>18. CASE NoteActive
    BY <1>18, SetSwitchTyped DEF TypeOK, NoteActive, SwitchStates, Goto, SwitchSteps, items,
       records, revision
  <1>19. CASE MovePointer
    BY <1>19 DEF TypeOK, MovePointer, Goto, SwitchSteps, items, records, revision
  <1>20. CASE NotePointer
    BY <1>20, SetSwitchTyped DEF TypeOK, NotePointer, SwitchStates, Goto, SwitchSteps,
       items, records, revision
  <1>21. CASE PointerAlreadyMoved
    BY <1>21 DEF TypeOK, PointerAlreadyMoved, Goto, SwitchSteps, items, records, revision
  <1>22. CASE SwitchConflict
    BY <1>22 DEF TypeOK, SwitchConflict, Return, items, records, revision
  <1>23. CASE ArchiveOld
    BY <1>23, StatusTyped DEF TypeOK, ArchiveOld, Statuses, Goto, SwitchSteps, records,
       revision
  <1>24. CASE NoteArchived
    BY <1>24, SetSwitchTyped DEF TypeOK, NoteArchived, SwitchStates, Goto, SwitchSteps,
       items, records, revision
  <1>25. CASE CommitSwitch
    BY <1>25, SetSwitchTyped DEF TypeOK, CommitSwitch, SwitchStates, Return, items, records,
       revision
  <1>26. ASSUME NEW v \in Versions, SaveExactRecords(v) PROVE TypeOK'
    BY <1>26 DEF TypeOK, SaveExactRecords, items, records, revision
  <1>27. ASSUME NEW v \in Versions, NEW x \in Dispositions, SaveDisposition(v, x) PROVE TypeOK'
    BY <1>27 DEF TypeOK, SaveDisposition, items, records, revision
  <1>28. CASE SourcesChange
    BY <1>28 DEF TypeOK, SourcesChange, items, revision
  <1>29. CASE Crash
    BY <1>29, LifecycleAssumption DEF TypeOK, Crash, Return, items, records, revision
  <1>30. CASE UNCHANGED vars
    BY <1>30 DEF TypeOK, vars, items, records, revision
  <1>31. QED
    BY <1>1, <1>2, <1>3, <1>4, <1>5, <1>6, <1>7, <1>8, <1>9, <1>10, <1>11, <1>12, <1>13,
       <1>14, <1>15, <1>16, <1>17, <1>18, <1>19, <1>20, <1>21, <1>22, <1>23, <1>24, <1>25,
       <1>26, <1>27, <1>28, <1>29, <1>30 DEF Next, Continue, Environment

------------------------------------------------------------------------------
(* Files and jobs *)

\* The empty project satisfies the invariant.
LEMMA InitIInv == Init => IInv
  BY TypeInit, StepsApart DEF Init, IInv, Files, Jobs, JobVerified, NoPointer, PointerTargetActive,
     ArchivedOnlyWhenSuperseded, ContentPresent, HistoryPresent, JournalBinds, InitialJob,
     RevisionJob, SwitchJob, Versions

\* A step that writes none of the files the invariant is about.
LEMMA FilesFrame == Files /\ UNCHANGED <<items, pointer, recorded, switch>> => Files'
  BY DEF Files, items, PointerTargetActive, ArchivedOnlyWhenSuperseded, ContentPresent,
     HistoryPresent, JournalBinds

\* A transaction that ends, or dies, leaves nothing to remember.
LEMMA JobsReturn == Return => Jobs'
  BY StepsApart DEF Return, Jobs, InitialJob, RevisionJob, SwitchJob

\* A step of the environment that leaves the transaction's data alone.
LEMMA JobsFrame ==
  Jobs /\ UNCHANGED <<items, pointer, recorded, switch, pc, job>> => Jobs'
  BY DEF Jobs, items, InitialJob, RevisionJob, SwitchJob

\* No step makes the files disagree: each write is covered by what its job says.
LEMMA FilesStep == IInv /\ [Next]_vars => Files'
  <1> SUFFICES ASSUME TypeOK, Files, Jobs, [Next]_vars PROVE Files'
    BY DEF IInv
  <1>1. ASSUME NEW d \in Decisions, CreateInitialCandidate(d) PROVE Files'
    BY <1>1, NoPointerApart DEF Files, PointerTargetActive, ArchivedOnlyWhenSuperseded,
       ContentPresent, HistoryPresent, JournalBinds, CreateInitialCandidate, Versions, TypeOK,
       Pointers, items, records, revision
  <1>2. ASSUME NEW v \in Versions, PrepareSwitch(v) PROVE Files'
    BY <1>2, NoPointerApart DEF Files, PointerTargetActive, ArchivedOnlyWhenSuperseded,
       ContentPresent, HistoryPresent, JournalBinds, PrepareSwitch, StartJournal,
       AuthorityVerified, PointerTo, TypeOK, Pointers, Versions, items, records, revision
  <1>3. CASE ActivateInitialEnvelope
    BY <1>3, NoPointerApart DEF Files, PointerTargetActive, ArchivedOnlyWhenSuperseded,
       ContentPresent, HistoryPresent, JournalBinds, Jobs, ActivateInitialEnvelope, InitialJob,
       InitialSteps, TypeOK, Pointers, NoPointer, records, revision
  <1>4. CASE WriteInitialPointer
    BY <1>4, NoPointerApart DEF Files, PointerTargetActive, ArchivedOnlyWhenSuperseded,
       ContentPresent, HistoryPresent, JournalBinds, Jobs, WriteInitialPointer, InitialJob,
       InitialSteps, PointsToActive, TypeOK, Pointers, NoPointer, Versions, items, records,
       revision
  <1>5. CASE AddReplacementCandidate
    BY <1>5, NoPointerApart DEF Files, PointerTargetActive, ArchivedOnlyWhenSuperseded,
       ContentPresent, HistoryPresent, JournalBinds, Jobs, AddReplacementCandidate,
       RevisionJob, RevisionSteps, TypeOK, Pointers, records, revision
  <1>6. CASE ActivateReplacement
    BY <1>6, NoPointerApart DEF Files, PointerTargetActive, ArchivedOnlyWhenSuperseded,
       ContentPresent, HistoryPresent, JournalBinds, Jobs, ActivateReplacement, SwitchJob,
       SwitchSteps, TypeOK, Pointers, records, revision
  <1>7. CASE NoteActive
    BY <1>7 DEF Files, PointerTargetActive, ArchivedOnlyWhenSuperseded, ContentPresent,
       HistoryPresent, JournalBinds, Jobs, NoteActive, SetSwitch, SwitchJob, SwitchSteps,
       TypeOK, Switches, items, records, revision
  <1>8. CASE MovePointer
    BY <1>8, NoPointerApart DEF Files, PointerTargetActive, ArchivedOnlyWhenSuperseded,
       ContentPresent, HistoryPresent, JournalBinds, Jobs, MovePointer, PointsToActive,
       SwitchJob, SwitchSteps, TypeOK, Pointers, Versions, items, records, revision
  <1>9. CASE NotePointer
    BY <1>9 DEF Files, PointerTargetActive, ArchivedOnlyWhenSuperseded, ContentPresent,
       HistoryPresent, JournalBinds, Jobs, NotePointer, SetSwitch, SwitchJob, SwitchSteps,
       TypeOK, Switches, items, records, revision
  <1>10. CASE ArchiveOld
    <2>1. /\ job \in Pointers /\ job.version \in Versions /\ pointer = job
          /\ switch[job.version].old \in Pointers
          /\ Superseded \in Versions /\ Superseded = job.version - 1
      BY <1>10 DEF Files, Jobs, SwitchJob, JournalBinds, Superseded, ArchiveOld,
         SwitchSteps, Pointers
    <2>2. CASE status[Superseded] = "active"
      <3>1. /\ status' = [status EXCEPT ![Superseded] = "archived"]
            /\ UNCHANGED <<content, pointer, recorded, switch>>
        BY <1>10, <2>2 DEF ArchiveOld, Goto, records
      <3>2. \A v \in Versions : status'[v] = (IF v = Superseded THEN "archived"
                                                 ELSE status[v])
        BY <3>1 DEF TypeOK
      <3>3. job.version \in Nat /\ Superseded # job.version
        BY <2>1 DEF Versions
      <3>4. QED
        BY <2>1, <3>1, <3>2, <3>3 DEF Files, PointerTargetActive, ArchivedOnlyWhenSuperseded,
           ContentPresent, HistoryPresent, JournalBinds, Versions
    <2>3. CASE status[Superseded] # "active"
      BY <1>10, <2>3, FilesFrame DEF ArchiveOld, items, records
    <2>4. QED
      BY <2>2, <2>3
  <1>11. CASE NoteArchived
    BY <1>11 DEF Files, PointerTargetActive, ArchivedOnlyWhenSuperseded, ContentPresent,
       HistoryPresent, JournalBinds, Jobs, NoteArchived, SetSwitch, SwitchJob, SwitchSteps,
       TypeOK, Switches, items, records, revision
  <1>12. CASE CommitSwitch
    BY <1>12 DEF Files, PointerTargetActive, ArchivedOnlyWhenSuperseded, ContentPresent,
       HistoryPresent, JournalBinds, Jobs, CommitSwitch, SetSwitch, SwitchJob, SwitchSteps,
       TypeOK, Switches, items, records, revision
  <1>13. ASSUME NEW v \in Versions, SaveExactRecords(v) PROVE Files'
    BY <1>13 DEF Files, PointerTargetActive, ArchivedOnlyWhenSuperseded, ContentPresent,
       HistoryPresent, JournalBinds, SaveExactRecords, items, records, revision
  <1>14. CASE UNCHANGED <<items, pointer, recorded, switch>>
    BY <1>14, FilesFrame
  <1>15. QED
    BY <1>1, <1>2, <1>3, <1>4, <1>5, <1>6, <1>7, <1>8, <1>9, <1>10, <1>11, <1>12, <1>13,
       <1>14 DEF Next, Continue, Environment, vars, records, CreateReplacement,
       ActivateInitial, ResumeSwitch, ReuseAuthority, OpenAuthorityTmp, AuthorityRefused,
       RenameAuthority, NoteAuthorityWritten, KeepReplacementCandidate,
       ReplacementCandidateConflict, CommitRevision, PointerAlreadyMoved, SwitchConflict,
       SaveDisposition, SourcesChange, Crash

\* At every step of a transaction, its job agrees with the files it has left.
LEMMA JobsStep == IInv /\ [Next]_vars => Jobs'
  <1> SUFFICES ASSUME TypeOK, Files, Jobs, [Next]_vars PROVE Jobs'
    BY DEF IInv
  <1>1. ASSUME NEW d \in Decisions, CreateInitialCandidate(d) PROVE Jobs'
    BY <1>1, StepsApart DEF Jobs, InitialJob, RevisionJob, SwitchJob,
       CreateInitialCandidate, TypeOK, InitialSteps, SwitchSteps, RevisionSteps,
       HistoryPresent, Files, Versions, items, records, revision
  <1>2. ASSUME NEW d \in Decisions, CreateReplacement(d) PROVE Jobs'
    BY <1>2, StepsApart DEF Jobs, InitialJob, RevisionJob, SwitchJob, CreateReplacement,
       Begin, RevisionSteps, Pointers, TypeOK, items, records, revision
  <1>3. CASE ActivateInitial
    BY <1>3, StepsApart, NoPointerApart DEF Jobs, InitialJob, RevisionJob, SwitchJob,
       ActivateInitial, AuthorityVerified, ExactRecords, InitialPointerFree, Begin, PointerTo,
       Pointers, TypeOK, InitialSteps, Versions, items, records, revision
  <1>4. ASSUME NEW v \in Versions, PrepareSwitch(v) PROVE Jobs'
    BY <1>4, StepsApart, NoPointerApart DEF Jobs, InitialJob, RevisionJob, SwitchJob,
       PrepareSwitch, AuthorityVerified, ExactRecords, StartJournal, PointerTo, Pointers,
       TypeOK, Begin, SwitchSteps, items, records, revision
  <1>5. ASSUME NEW v \in Versions, ResumeSwitch(v) PROVE Jobs'
    BY <1>5, StepsApart, NoPointerApart DEF Jobs, InitialJob, RevisionJob, SwitchJob,
       ResumeSwitch, AuthorityVerified, ExactRecords, PointerTo, Files, JournalBinds, Begin,
       SwitchSteps, items, records, revision
  <1>6. CASE ActivateInitialEnvelope
    BY <1>6, StepsApart DEF Jobs, InitialJob, RevisionJob, SwitchJob,
       ActivateInitialEnvelope, TypeOK, Goto, InitialSteps, Versions, records, revision
  <1>7. CASE ReuseAuthority
    BY <1>7, StepsApart DEF Jobs, InitialJob, RevisionJob, SwitchJob, ReuseAuthority, Goto,
       RevisionSteps, items, records, revision
  <1>8. CASE OpenAuthorityTmp
    BY <1>8, StepsApart DEF Jobs, InitialJob, RevisionJob, SwitchJob, OpenAuthorityTmp,
       Goto, RevisionSteps, items, records
  <1>9. CASE RenameAuthority
    BY <1>9, StepsApart DEF Jobs, InitialJob, RevisionJob, SwitchJob, RenameAuthority, Goto,
       RevisionSteps, items, records
  <1>10. CASE NoteAuthorityWritten
    BY <1>10, StepsApart DEF Jobs, InitialJob, RevisionJob, SwitchJob, NoteAuthorityWritten,
       Goto, RevisionSteps, items, records
  <1>11. CASE AddReplacementCandidate
    BY <1>11, StepsApart DEF Jobs, InitialJob, RevisionJob, SwitchJob,
       AddReplacementCandidate, Goto, RevisionSteps, records, revision
  <1>12. CASE KeepReplacementCandidate
    BY <1>12, StepsApart DEF Jobs, InitialJob, RevisionJob, SwitchJob,
       KeepReplacementCandidate, Goto, RevisionSteps, items, records, revision
  <1>13. CASE ActivateReplacement
    BY <1>13, StepsApart DEF Jobs, InitialJob, RevisionJob, SwitchJob, ActivateReplacement,
       TypeOK, Goto, SwitchSteps, Pointers, records, revision
  <1>14. CASE NoteActive
    BY <1>14, StepsApart DEF Jobs, InitialJob, RevisionJob, SwitchJob, NoteActive, TypeOK,
       Switches, Goto, SetSwitch, SwitchSteps, Pointers, items, records, revision
  <1>15. CASE MovePointer
    BY <1>15, StepsApart DEF Jobs, InitialJob, RevisionJob, SwitchJob, MovePointer,
       PointsToActive, Goto, SwitchSteps, items, records, revision
  <1>16. CASE NotePointer
    BY <1>16, StepsApart DEF Jobs, InitialJob, RevisionJob, SwitchJob, NotePointer, TypeOK,
       Switches, Goto, SetSwitch, SwitchSteps, Pointers, items, records, revision
  <1>17. CASE PointerAlreadyMoved
    BY <1>17, StepsApart, NoPointerApart DEF Jobs, InitialJob, RevisionJob, SwitchJob,
       PointerAlreadyMoved, TypeOK, Files, PointerTargetActive, Goto, SwitchSteps, items,
       records, revision
  <1>18. CASE ArchiveOld
    <2>1. /\ job \in Pointers /\ job.version \in Versions /\ pointer = job
          /\ status[job.version] = "active"
          /\ Superseded # job.version
      BY <1>18 DEF Files, Jobs, SwitchJob, JournalBinds, Superseded, ArchiveOld,
         SwitchSteps, Pointers, Versions, PointsToActive
    <2>2. status'[job.version] = "active"
      BY <1>18, <2>1 DEF ArchiveOld, TypeOK
    <2>3. QED
      BY <1>18, <2>1, <2>2, StepsApart DEF Jobs, InitialJob, RevisionJob, SwitchJob, ArchiveOld,
         Goto, SwitchSteps, records
  <1>19. CASE NoteArchived
    BY <1>19, StepsApart DEF Jobs, InitialJob, RevisionJob, SwitchJob, NoteArchived, TypeOK,
       Switches, Goto, SetSwitch, SwitchSteps, Pointers, items, records, revision
  <1>20. ASSUME NEW v \in Versions, SaveExactRecords(v) PROVE Jobs'
    BY <1>20, StepsApart DEF Jobs, InitialJob, RevisionJob, SwitchJob, SaveExactRecords,
       items, records, revision
  <1>21. CASE Return
    BY <1>21, JobsReturn
  <1>22. CASE UNCHANGED <<items, pointer, recorded, switch, pc, job>>
    BY <1>22, JobsFrame
  <1>23. QED
    BY <1>1, <1>2, <1>3, <1>4, <1>5, <1>6, <1>7, <1>8, <1>9, <1>10, <1>11, <1>12, <1>13,
       <1>14, <1>15, <1>16, <1>17, <1>18, <1>19, <1>20, <1>21, <1>22 DEF Next, Continue,
       Environment, vars, records, WriteInitialPointer, AuthorityRefused,
       ReplacementCandidateConflict, CommitRevision, SwitchConflict, CommitSwitch,
       SaveDisposition, SourcesChange, Crash

\* No save of a disposition falls inside a transaction.
LEMMA VerifiedStep == IInv /\ [Next]_vars => JobVerified'
  <1> SUFFICES ASSUME IInv, [Next]_vars PROVE JobVerified'
    OBVIOUS
  <1>1. ASSUME NEW v \in Versions, GateReady(v), job' = PointerTo(v), UNCHANGED dispositions
        PROVE  JobVerified'
    BY <1>1 DEF JobVerified, PointerTo, GateReady
  <1>2. ASSUME UNCHANGED <<job, dispositions>>, pc \in InitialSteps \union SwitchSteps
        PROVE  JobVerified'
    BY <1>2 DEF IInv, JobVerified, GateReady
  <1>3. CASE pc' \notin InitialSteps \union SwitchSteps
    BY <1>3 DEF JobVerified
  <1>4. CASE ActivateInitial
    BY <1>1, <1>4, LifecycleAssumption DEF ActivateInitial, AuthorityVerified, Begin,
       records, Versions
  <1>5. ASSUME NEW v \in Versions, PrepareSwitch(v) \/ ResumeSwitch(v) PROVE JobVerified'
    BY <1>1, <1>5 DEF PrepareSwitch, ResumeSwitch, AuthorityVerified, Begin, records
  <1>6. CASE ActivateInitialEnvelope \/ ActivateReplacement \/ NoteActive \/ MovePointer
             \/ NotePointer \/ PointerAlreadyMoved \/ ArchiveOld \/ NoteArchived
    BY <1>2, <1>6 DEF ActivateInitialEnvelope, ActivateReplacement, NoteActive, MovePointer,
       NotePointer, PointerAlreadyMoved, ArchiveOld, NoteArchived, Goto, records, InitialSteps,
       SwitchSteps
  <1>7. CASE UNCHANGED <<pc, job, dispositions>>
    BY <1>2, <1>3, <1>7
  <1>8. ASSUME NEW d \in Decisions, CreateReplacement(d) PROVE JobVerified'
    BY <1>3, <1>8, StepsApart DEF CreateReplacement, Begin, RevisionSteps
  <1>9. CASE ReuseAuthority \/ OpenAuthorityTmp \/ RenameAuthority \/ NoteAuthorityWritten
             \/ AddReplacementCandidate \/ KeepReplacementCandidate
    BY <1>3, <1>9, StepsApart DEF ReuseAuthority, OpenAuthorityTmp, RenameAuthority,
       NoteAuthorityWritten, AddReplacementCandidate, KeepReplacementCandidate, Goto, RevisionSteps
  <1>10. CASE Return
    BY <1>3, <1>10, StepsApart DEF Return
  <1>11. ASSUME NEW v \in Versions, NEW x \in Dispositions, SaveDisposition(v, x)
         PROVE  JobVerified'
    BY <1>3, <1>11, StepsApart DEF SaveDisposition, RecordLock
  <1>12. QED
    BY <1>4, <1>5, <1>6, <1>7, <1>8, <1>9, <1>10, <1>11
       DEF Next, Continue, Environment, vars, records, CreateInitialCandidate, WriteInitialPointer,
       AuthorityRefused, ReplacementCandidateConflict, CommitRevision, SwitchConflict,
       CommitSwitch, SaveExactRecords, SourcesChange, Crash

\* The invariant holds in every reachable state.
LEMMA Inductive == Spec => []IInv
  <1>1. IInv /\ [Next]_vars => IInv'
    BY TypeStep, FilesStep, JobsStep, VerifiedStep DEF IInv, Jobs
  <1>2. QED
    BY <1>1, InitIInv, PTL DEF Spec

------------------------------------------------------------------------------
(* Safety *)

\* Every variable keeps its type: no step, crash or retry writes a state that
\* the readers of the files would not understand.
THEOREM LifecycleTypeOK == Spec => []TypeOK
  <1>1. IInv => TypeOK
    BY DEF IInv
  <1>2. QED
    BY <1>1, Inductive, PTL

\* Whatever crashes between two writes of activate_initial or
\* switch_replacement, read_pointer finds the version it names ACTIVE.
THEOREM PointerAlwaysActive == Spec => []PointerTargetActive
  <1>1. IInv => PointerTargetActive
    BY DEF IInv, Files
  <1>2. QED
    BY <1>1, Inductive, PTL

\* _advance_switch_locked never archives a version before the pointer has left it.
THEOREM ArchivedOnlyBehindPointer == Spec => []ArchivedOnlyWhenSuperseded
  <1>1. IInv => ArchivedOnlyWhenSuperseded
    BY DEF IInv, Files
  <1>2. QED
    BY <1>1, Inductive, PTL

\* Two operations write the pointer file, and nothing else does.
LEMMA PointerWriters == [Next]_vars /\ pointer' # pointer => WriteInitialPointer \/ MovePointer
  BY DEF Next, Continue, Environment, vars, items, records, revision,
     CreateInitialCandidate, CreateReplacement, ActivateInitial, PrepareSwitch, ResumeSwitch,
     ActivateInitialEnvelope, ReuseAuthority, OpenAuthorityTmp, AuthorityRefused,
     RenameAuthority, NoteAuthorityWritten, AddReplacementCandidate, KeepReplacementCandidate,
     ReplacementCandidateConflict, CommitRevision, ActivateReplacement, NoteActive, NotePointer,
     PointerAlreadyMoved, SwitchConflict, ArchiveOld, NoteArchived, CommitSwitch,
     SaveExactRecords, SaveDisposition, SourcesChange, Crash

\* The pointer moves only while the gate of its new version is satisfied by
\* exactly the dispositions it binds: the project lock closes the window between
\* the verification and the write.
THEOREM GateAtEveryMove == Spec => PointerMovesThroughGate
  <1>1. IInv /\ [Next]_vars =>
            [pointer' # pointer =>
                /\ GateReady(pointer'.version)
                /\ pointer'.dispositions = dispositions[pointer'.version]]_vars
    <2> SUFFICES ASSUME IInv, [Next]_vars, pointer' # pointer
                 PROVE  /\ GateReady(pointer'.version)
                        /\ pointer'.dispositions = dispositions[pointer'.version]
      OBVIOUS
    <2>1. pointer' = job /\ pc \in InitialSteps \union SwitchSteps
      BY PointerWriters DEF WriteInitialPointer, MovePointer, InitialSteps, SwitchSteps
    <2>2. QED
      BY <2>1 DEF IInv, JobVerified
  <1>2. QED
    BY <1>1, Inductive, PTL DEF Spec, PointerMovesThroughGate

------------------------------------------------------------------------------
(* The lifecycle implements CurrentContract *)

\* What the mapping reads as the texts that have been current, and as approved.
History == [v \in Versions |-> IF v <= pointer.version THEN content[v] ELSE None]
Approved == {<<v, content[v]>> : v \in recorded}

\* The text of an item, once it exists, is never written again.
LEMMA ContentStable ==
  ASSUME IInv, [Next]_vars, NEW v \in Versions, status[v] # "absent"
  PROVE  content'[v] = content[v]
  BY DEF IInv, TypeOK, Next, Continue, Environment, vars, items,
     CreateInitialCandidate, CreateReplacement, ActivateInitial, PrepareSwitch, ResumeSwitch,
     ActivateInitialEnvelope, WriteInitialPointer, ReuseAuthority, OpenAuthorityTmp,
     AuthorityRefused, RenameAuthority, NoteAuthorityWritten, AddReplacementCandidate,
     KeepReplacementCandidate, ReplacementCandidateConflict, CommitRevision,
     ActivateReplacement, NoteActive, MovePointer, NotePointer, PointerAlreadyMoved,
     SwitchConflict, ArchiveOld, NoteArchived, CommitSwitch, SaveExactRecords,
     SaveDisposition, SourcesChange, Crash

\* Only a save of the exact records adds to what is recorded.
LEMMA RecordedWriters ==
  [Next]_vars /\ recorded' # recorded =>
      (\E v \in Versions : SaveExactRecords(v)) /\ UNCHANGED <<items, pointer>>
  BY DEF Next, Continue, Environment, vars, items, records, revision,
     CreateInitialCandidate, CreateReplacement, ActivateInitial, PrepareSwitch, ResumeSwitch,
     ActivateInitialEnvelope, WriteInitialPointer, ReuseAuthority, OpenAuthorityTmp,
     AuthorityRefused, RenameAuthority, NoteAuthorityWritten, AddReplacementCandidate,
     KeepReplacementCandidate, ReplacementCandidateConflict, CommitRevision,
     ActivateReplacement, NoteActive, MovePointer, NotePointer, PointerAlreadyMoved,
     SwitchConflict, ArchiveOld, NoteArchived, CommitSwitch, SaveExactRecords,
     SaveDisposition, SourcesChange, Crash

\* A step that moves no pointer rewrites no history.
LEMMA HistoryStable == IInv /\ [Next]_vars /\ pointer' = pointer => History' = History
  BY ContentStable DEF History, IInv, Files, HistoryPresent

\* What people approved is a pair of a version and its text, and stays one.
LEMMA ApprovedStable == IInv /\ [Next]_vars /\ recorded' = recorded => Approved' = Approved
  <1> SUFFICES ASSUME IInv, [Next]_vars, recorded' = recorded PROVE Approved' = Approved
    OBVIOUS
  <1>1. \A v \in recorded : content'[v] = content[v]
    BY ContentStable DEF IInv, TypeOK, Files, HistoryPresent
  <1>2. QED
    BY <1>1 DEF Approved

\* The coordinator's pointer, history of texts and records behave as
\* CurrentContract says: one current version, each the successor of the last and
\* approved, and no text of a version that has been current ever changed.
THEOREM LifecycleImplementsCurrentContract == Spec => ImplementsCurrentContract
  <1>1. Init => Contract!Init
    BY DEF Init, Contract!Init, NoPointer, Versions, Contract!Versions
  <1>2. IInv /\ [Next]_vars => [Contract!Next]_(Contract!vars)
    <2> SUFFICES ASSUME IInv, [Next]_vars PROVE [Contract!Next]_(Contract!vars)
      OBVIOUS
    <2>1. CASE pointer' = pointer /\ recorded' = recorded
      BY <2>1, HistoryStable, ApprovedStable DEF Contract!vars, History, Approved
    <2>2. CASE recorded' # recorded
      <3>1. PICK v \in Versions : SaveExactRecords(v)
        BY <2>2, RecordedWriters
      <3>2. content[v] \in Decisions
        BY <3>1 DEF SaveExactRecords, IInv, Files, ContentPresent
      <3>3. Approved' = Approved \union {<<v, content[v]>>}
        BY <3>1 DEF SaveExactRecords, Approved, items
      <3>4. UNCHANGED <<pointer.version, History>>
        BY <2>2, RecordedWriters, HistoryStable
      <3>5. Contract!Approve
        BY <3>2, <3>3, <3>4 DEF Contract!Approve, Contract!Versions, Versions, History, Approved
      <3>6. QED
        BY <3>5 DEF Contract!Next
    <2>3. CASE pointer' # pointer
      <3>1. /\ pointer' = job /\ UNCHANGED <<items, recorded>>
            /\ job \in Pointers /\ job.version \in recorded /\ content[job.version] = job.decision
        BY <2>3, PointerWriters DEF WriteInitialPointer, MovePointer, records, IInv, Jobs,
           InitialJob, SwitchJob, InitialSteps, SwitchSteps
      <3>2. job.version = pointer.version + 1
        <4>1. CASE WriteInitialPointer
          BY <2>3, <4>1 DEF WriteInitialPointer, IInv, Jobs, InitialJob, InitialSteps, NoPointer
        <4>2. CASE MovePointer
          BY <4>2, <3>1 DEF MovePointer, IInv, Jobs, SwitchJob, SwitchSteps, Files, JournalBinds,
             Pointers, Versions
        <4>3. QED
          BY <2>3, <4>1, <4>2, PointerWriters
      <3>3. Approved' = Approved
        BY <3>1, ApprovedStable
      <3>4. History' = [History EXCEPT ![job.version] = job.decision]
        <4>1. pointer.version \in Nat
          BY DEF IInv, TypeOK, Pointers, NoPointer, Versions
        <4>2. \A v \in Versions :
                 (v <= pointer'.version) <=> (v <= pointer.version \/ v = job.version)
          BY <3>1, <3>2, <4>1 DEF Versions
        <4>3. \A v \in Versions : History'[v] = IF v = job.version THEN job.decision ELSE History[v]
          BY <3>1, <4>2 DEF History, items
        <4>4. QED
          BY <3>1, <4>3 DEF History
      <3>5. <<job.version, job.decision>> \in Approved
        BY <3>1 DEF Approved
      <3>6. Contract!Publish
        BY <3>1, <3>2, <3>3, <3>4, <3>5 DEF Contract!Publish, Contract!Versions, Versions,
           Pointers, History, Approved
      <3>7. QED
        BY <3>6 DEF Contract!Next
    <2>4. QED
      BY <2>1, <2>2, <2>3
  <1>3. QED
    BY <1>1, <1>2, Inductive, PTL DEF Spec, ImplementsCurrentContract, Contract!Spec

------------------------------------------------------------------------------
(* What the journals of a switch tell a recovery *)

\* A version that is or was current is never a candidate again.
HistoryActivated == \A v \in Versions : v <= pointer.version => status[v] \in {"active", "archived"}

\* A switch whose pointer has not moved yet still finds the pointer it noted as the old one.
OldPointerStands ==
    \A v \in Versions : switch[v].state # "none" /\ pointer.version < v => pointer = switch[v].old

\* The switch in progress has archived the old version before it notes so.
SwitchArchived ==
    pc \in {"switch_note_archived", "switch_commit"} => status[job.version - 1] = "archived"

JournalIInv ==
    /\ HistoryActivated /\ OldPointerStands /\ SwitchArchived
    /\ ActiveAheadIsJournalled /\ JournalTellsTheTruth

\* The empty project has no journal and no version.
LEMMA JournalInit == Init => JournalIInv
  BY StepsApart DEF Init, JournalIInv, HistoryActivated, OldPointerStands, SwitchArchived,
     ActiveAheadIsJournalled, JournalTellsTheTruth, NoPointer, Versions

\* A step that leaves the items, the pointer and the journals alone, and does not come to
\* the last steps of a switch.
LEMMA JournalFrame ==
  ASSUME JournalIInv, UNCHANGED <<status, pointer, switch>>,
         pc' \in {"switch_note_archived", "switch_commit"} => UNCHANGED <<pc, job>>
  PROVE  JournalIInv'
  BY DEF JournalIInv, HistoryActivated, OldPointerStands, SwitchArchived,
     ActiveAheadIsJournalled, JournalTellsTheTruth

\* Where the pointer is before the first activation and after it.
LEMMA PointerVersion ==
  ASSUME TypeOK
  PROVE  /\ pointer.version \in Nat
         /\ pointer # NoPointer => pointer \in Pointers /\ pointer.version \in Versions /\ pointer.version >= 1
         /\ pointer.version = 0 => pointer = NoPointer
  BY DEF TypeOK, Pointers, NoPointer, Versions

\* Versions are numbers.
LEMMA VersionsAreNumbers == \A v \in Versions : v \in Nat
  BY DEF Versions

\* The pointer moves to the next version, and no journal is of a later one.
LEMMA JournalMove ==
  ASSUME IInv, JournalIInv, MovePointer
  PROVE  JournalIInv'
  <1>1. /\ job \in Pointers /\ job.version \in Versions
        /\ pointer = switch[job.version].old /\ pointer \in Pointers
        /\ job.version = pointer.version + 1 /\ status[job.version] = "active"
    BY DEF MovePointer, PointsToActive, IInv, Jobs, SwitchJob, SwitchSteps, Files, JournalBinds, Pointers, Versions
  <1>2. UNCHANGED <<status, switch>> /\ pointer' = job /\ pc' = "switch_note_pointer"
    BY DEF MovePointer, Goto, items
  <1>3. pointer.version \in Versions
    BY <1>1 DEF Pointers
  <1>4. pointer.version \in Nat /\ job.version \in Nat
    BY <1>1, <1>3, VersionsAreNumbers
  <1>5. ASSUME NEW v \in Versions PROVE /\ v \in Nat
                                        /\ v <= job.version <=> v <= pointer.version \/ v = job.version
                                        /\ v > pointer.version /\ v <= job.version => v = job.version
    <2>1. v \in Nat
      BY VersionsAreNumbers
    <2>2. job.version = pointer.version + 1
      BY <1>1
    <2>3. QED
      BY <1>4, <2>1, <2>2
  <1>6. pointer'.version = pointer.version + 1
    BY <1>1, <1>2
  <1>7. ASSUME NEW v \in Versions, v <= pointer'.version PROVE status'[v] \in {"active", "archived"}
    BY <1>1, <1>2, <1>5, <1>7 DEF JournalIInv, HistoryActivated
  <1>8. ASSUME NEW v \in Versions, switch'[v].state # "none" PROVE ~(pointer'.version < v)
    <2>1. switch[v].state # "none" /\ v \in Nat
      BY <1>2, <1>5, <1>8
    <2>2. switch[v].old.version = v - 1
      BY <2>1 DEF IInv, Files, JournalBinds
    <2>3. pointer.version < v => pointer.version = v - 1
      BY <2>1, <2>2 DEF JournalIInv, OldPointerStands
    <2>4. QED
      BY <1>6, <1>4, <2>1, <2>3
  <1>9. ASSUME NEW v \in Versions, status'[v] = "active", v > pointer'.version PROVE FALSE
    <2>1. status[v] = "active" /\ v \in Nat
      BY <1>2, <1>5, <1>9
    <2>2. v > pointer.version => v = pointer.version + 1
      BY <2>1 DEF JournalIInv, ActiveAheadIsJournalled
    <2>3. QED
      BY <1>6, <1>4, <1>9, <2>1, <2>2
  <1>10. JournalTellsTheTruth'
    <2>1. ASSUME NEW v \in Versions, pointer.version >= v PROVE pointer'.version >= v
      BY <1>1, <1>2, <1>4, <1>5, <2>1
    <2>2. QED
      BY <1>2, <2>1 DEF JournalIInv, JournalTellsTheTruth
  <1>11. SwitchArchived'
    BY <1>2 DEF SwitchArchived
  <1>12. HistoryActivated' /\ OldPointerStands' /\ ActiveAheadIsJournalled'
    BY <1>7, <1>8, <1>9 DEF HistoryActivated, OldPointerStands, ActiveAheadIsJournalled
  <1>13. QED
    BY <1>10, <1>11, <1>12 DEF JournalIInv

\* The journals stay true through every step of every transaction.
LEMMA JournalStep == IInv /\ JournalIInv /\ [Next]_vars => JournalIInv'
  <1> SUFFICES ASSUME IInv, JournalIInv, [Next]_vars PROVE JournalIInv'
    OBVIOUS
  <1> USE PointerVersion DEF IInv
  <1>1. ASSUME NEW d \in Decisions, CreateInitialCandidate(d) PROVE JournalIInv'
    BY <1>1 DEF CreateInitialCandidate, JournalIInv, HistoryActivated, OldPointerStands, SwitchArchived,
       ActiveAheadIsJournalled, JournalTellsTheTruth, TypeOK, Versions, records, revision
  <1>2. ASSUME NEW v \in Versions, PrepareSwitch(v) PROVE JournalIInv'
    BY <1>2, StepsApart DEF PrepareSwitch, StartJournal, Begin, PointerTo, JournalIInv, HistoryActivated,
       OldPointerStands, SwitchArchived, ActiveAheadIsJournalled, JournalTellsTheTruth, TypeOK,
       Versions, items, records, revision
  <1>3. CASE ActivateInitialEnvelope
    <2>1. pointer.version <= 1 /\ 1 \in Versions /\ status[1] # "archived"
      BY <1>3, LifecycleAssumption DEF ActivateInitialEnvelope, Jobs, InitialJob, InitialSteps, NoPointer, Files,
         ArchivedOnlyWhenSuperseded, Versions
    <2>2. /\ UNCHANGED <<pointer, switch, job>> /\ pc' = "initial_pointer"
          /\ \A v \in Versions : status'[v] = (IF v = 1 THEN "active" ELSE status[v])
      BY <1>3, <2>1 DEF ActivateInitialEnvelope, Goto, TypeOK
    <2>3. HistoryActivated' /\ OldPointerStands' /\ SwitchArchived'
      BY <2>1, <2>2 DEF JournalIInv, HistoryActivated, OldPointerStands, SwitchArchived
    <2>4. ActiveAheadIsJournalled'
      BY <2>1, <2>2 DEF JournalIInv, ActiveAheadIsJournalled, Versions
    <2>5. JournalTellsTheTruth'
      <3>1. \A v \in Versions : v # 1 => v - 1 \in Versions
        BY LifecycleAssumption DEF Versions
      <3>2. \A v \in Versions : switch[v].state # "none" => v # 1
        BY <2>1 DEF Files, JournalBinds, Pointers, Versions
      <3>3. \A v \in Versions : v # 1 => (status[v - 1] = "archived" => status'[v - 1] = "archived")
        BY <2>1, <2>2, <3>1
      <3>4. \A v \in Versions : status[v] \in {"active", "archived"} => status'[v] \in {"active", "archived"}
        BY <2>2
      <3>5. QED
        BY <2>2, <3>2, <3>3, <3>4 DEF JournalIInv, JournalTellsTheTruth
    <2>6. QED
      BY <2>3, <2>4, <2>5 DEF JournalIInv
  <1>4. CASE WriteInitialPointer
    <2>1. job \in Pointers /\ job.version = 1 /\ status[1] = "active" /\ pointer \in {NoPointer, job}
      BY <1>4 DEF WriteInitialPointer, Jobs, InitialJob, InitialSteps
    <2>2. CASE pointer = job
      BY <1>4, <2>2, JournalFrame DEF WriteInitialPointer, Return, items
    <2>3. CASE pointer = NoPointer
      <3>1. pointer.version = 0 /\ pointer \notin Pointers
        BY <2>3, NoPointerApart DEF NoPointer
      <3>2. \A v \in Versions : switch[v].state = "none"
        BY <3>1 DEF JournalIInv, OldPointerStands, Files, JournalBinds, Versions
      <3>3. \A v \in Versions : status[v] = "active" => v = 1
        BY <3>1 DEF JournalIInv, ActiveAheadIsJournalled, Versions
      <3>4. QED
        BY <1>4, <2>1, <3>1, <3>2, <3>3 DEF WriteInitialPointer, Return, JournalIInv, HistoryActivated,
           OldPointerStands, SwitchArchived, ActiveAheadIsJournalled, JournalTellsTheTruth, Versions, items
    <2>4. QED
      BY <2>1, <2>2, <2>3
  <1>5. CASE AddReplacementCandidate
    BY <1>5, StepsApart DEF AddReplacementCandidate, Goto, Jobs, RevisionJob, RevisionSteps, JournalIInv,
       HistoryActivated, OldPointerStands, SwitchArchived, ActiveAheadIsJournalled,
       JournalTellsTheTruth, TypeOK, Versions, records, revision
  <1>6. CASE ActivateReplacement
    <2>1. job \in Pointers /\ job.version \in Versions /\ switch[job.version].state # "none"
      BY <1>6 DEF ActivateReplacement, Jobs, SwitchJob, SwitchSteps, Pointers
    <2>2. CASE status[job.version] = "candidate"
      <3>1. pointer.version < job.version
        BY <2>1, <2>2 DEF JournalIInv, HistoryActivated, Versions
      <3>2. pointer = switch[job.version].old /\ job.version = pointer.version + 1
        BY <2>1, <3>1 DEF JournalIInv, OldPointerStands, Files, JournalBinds, Versions
      <3>3. switch[job.version].state \in {"prepared", "new_active"}
        BY <2>1, <3>1 DEF JournalIInv, JournalTellsTheTruth, TypeOK, Switches, SwitchStates, Versions
      <3>4. /\ UNCHANGED <<pointer, switch, job>> /\ pc' = "switch_note_active"
            /\ \A v \in Versions : status'[v] = (IF v = job.version THEN "active" ELSE status[v])
        BY <1>6, <2>1, <2>2 DEF ActivateReplacement, Goto, TypeOK
      <3>5. HistoryActivated' /\ OldPointerStands' /\ SwitchArchived'
        BY <3>4 DEF JournalIInv, HistoryActivated, OldPointerStands, SwitchArchived
      <3>6. ActiveAheadIsJournalled'
        BY <2>1, <3>2, <3>3, <3>4 DEF JournalIInv, ActiveAheadIsJournalled
      <3>7. JournalTellsTheTruth'
        BY <2>1, <2>2, <3>4, LifecycleAssumption DEF JournalIInv, JournalTellsTheTruth, Files, JournalBinds,
           Pointers, Versions
      <3>8. QED
        BY <3>5, <3>6, <3>7 DEF JournalIInv
    <2>3. CASE status[job.version] # "candidate"
      BY <1>6, <2>3, JournalFrame DEF ActivateReplacement, Goto
    <2>4. QED
      BY <2>2, <2>3
  <1>7. CASE NoteActive
    <2>1. job \in Pointers /\ job.version \in Versions /\ status[job.version] \in {"active", "archived"}
      BY <1>7 DEF NoteActive, Jobs, SwitchJob, SwitchSteps, Pointers
    <2>2. QED
      BY <1>7, <2>1 DEF NoteActive, SetSwitch, Goto, Files, JournalBinds, Jobs, SwitchJob, SwitchSteps,
         JournalIInv, HistoryActivated, OldPointerStands, SwitchArchived, ActiveAheadIsJournalled,
         JournalTellsTheTruth, TypeOK, Switches, Versions, items, records, revision
  <1>8. CASE MovePointer
    BY <1>8, JournalMove
  <1>9. CASE NotePointer
    <2>1. job \in Pointers /\ job.version \in Versions /\ pointer = job
      BY <1>9 DEF NotePointer, Jobs, SwitchJob, SwitchSteps, Pointers
    <2>2. QED
      BY <1>9, <2>1 DEF NotePointer, SetSwitch, Goto, Files, JournalBinds, Jobs, SwitchJob, SwitchSteps,
         JournalIInv, HistoryActivated, OldPointerStands, SwitchArchived, ActiveAheadIsJournalled,
         JournalTellsTheTruth, TypeOK, Switches, Versions, items, records, revision
  <1>10. CASE ArchiveOld
    <2>1. /\ job \in Pointers /\ job.version \in Versions /\ pointer = job
          /\ Superseded = job.version - 1 /\ Superseded \in Versions
      BY <1>10 DEF ArchiveOld, Superseded, Jobs, SwitchJob, SwitchSteps, Files, JournalBinds, Pointers, Versions
    <2>2. CASE status[Superseded] = "active"
      <3>1. /\ status' = [status EXCEPT ![Superseded] = "archived"] /\ job' = job
            /\ pc' = "switch_note_archived" /\ UNCHANGED <<pointer, switch>>
        BY <1>10, <2>2 DEF ArchiveOld, Goto
      <3>2. \A v \in Versions : status'[v] = (IF v = job.version - 1 THEN "archived" ELSE status[v])
        BY <2>1, <3>1 DEF TypeOK
      <3>3. QED
        BY <2>1, <3>1, <3>2 DEF JournalIInv, HistoryActivated, OldPointerStands, SwitchArchived,
           ActiveAheadIsJournalled, JournalTellsTheTruth, Versions
    <2>3. CASE status[Superseded] # "active"
      BY <1>10, <2>1, <2>3 DEF ArchiveOld, Goto, JournalIInv, HistoryActivated, OldPointerStands,
         SwitchArchived, ActiveAheadIsJournalled, JournalTellsTheTruth
    <2>4. QED
      BY <2>2, <2>3
  <1>11. CASE NoteArchived \/ CommitSwitch
    <2>1. /\ job \in Pointers /\ job.version \in Versions /\ pointer = job
          /\ status[job.version - 1] = "archived"
      BY <1>11 DEF NoteArchived, CommitSwitch, Jobs, SwitchJob, SwitchSteps, Pointers, JournalIInv, SwitchArchived
    <2>2. \E s \in {"old_archived", "committed"} :
             switch' = [switch EXCEPT ![job.version].state = s] /\ UNCHANGED <<status, pointer>>
      BY <1>11 DEF NoteArchived, CommitSwitch, SetSwitch, items
    <2>3. pc' \in {"switch_note_archived", "switch_commit"} => job' = job
      BY <1>11 DEF NoteArchived, CommitSwitch, Goto, Return
    <2>4. switch[job.version].state # "none"
      BY <1>11 DEF NoteArchived, CommitSwitch, Jobs, SwitchJob, SwitchSteps
    <2>5. QED
      BY <2>1, <2>2, <2>3, <2>4 DEF Files, JournalBinds, JournalIInv, HistoryActivated, OldPointerStands,
         SwitchArchived, ActiveAheadIsJournalled, JournalTellsTheTruth, TypeOK, Switches, Versions
  <1>12. CASE Return /\ UNCHANGED <<status, pointer, switch>>
    BY <1>12, JournalFrame DEF Return
  <1>13. CASE UNCHANGED <<status, pointer, switch, pc, job>>
    BY <1>13, JournalFrame
  <1>14. CASE pc' \notin {"switch_note_archived", "switch_commit"} /\ UNCHANGED <<status, pointer, switch>>
    BY <1>14, JournalFrame
  <1>15. QED
    BY <1>1, <1>2, <1>3, <1>4, <1>5, <1>6, <1>7, <1>8, <1>9, <1>10, <1>11, <1>12, <1>13, <1>14
       DEF Next, Continue, Environment, vars, items, records, CreateReplacement, ActivateInitial, ResumeSwitch,
       Begin, Goto, ReuseAuthority, OpenAuthorityTmp, AuthorityRefused, RenameAuthority, NoteAuthorityWritten,
       KeepReplacementCandidate, ReplacementCandidateConflict, CommitRevision, PointerAlreadyMoved,
       SwitchConflict, SaveExactRecords, SaveDisposition, SourcesChange, Crash

\* The journals' invariant holds in every reachable state.
LEMMA JournalInductive == Spec => []JournalIInv
  BY JournalInit, JournalStep, Inductive, PTL DEF Spec

\* Whatever crashes, a version that is ACTIVE ahead of the pointer is the first, or the next
\* one in a switch whose journal a recovery finds, with the pointer it started from.
THEOREM ActiveAheadJournalled == Spec => []ActiveAheadIsJournalled
  <1>1. JournalIInv => ActiveAheadIsJournalled
    BY DEF JournalIInv
  <1>2. QED
    BY <1>1, JournalInductive, PTL

\* No crash leaves a switch journal that claims more than the envelopes and the pointer say.
THEOREM JournalsTruthful == Spec => []JournalTellsTheTruth
  <1>1. JournalIInv => JournalTellsTheTruth
    BY DEF JournalIInv
  <1>2. QED
    BY <1>1, JournalInductive, PTL

------------------------------------------------------------------------------
(* What the three files of a revision agree on *)

\* A prepare journal that does not exist names no text.
PrepareNames == \A v \in Versions : prepare[v].state = "none" => prepare[v].decision = None

\* An authority names the text it replaces as its base.
AuthorityStands ==
    \A v \in Versions \ {1} :
        authority[v].decision # None => status[v - 1] # "absent" /\ authority[v].base = content[v - 1]

\* A revision in progress is of the next version, and its files name the text it was asked for.
RevisionKnows ==
    pc \in RevisionSteps =>
        /\ job.version = pointer.version + 1
        /\ prepare[job.version].state # "none" /\ prepare[job.version].decision = job.decision
        /\ pc = "revision_rename" => authority[job.version].decision = None
        /\ pc \in {"revision_written", "revision_candidate", "revision_commit"} =>
              authority[job.version].decision = job.decision

RevisionIInv == PrepareNames /\ AuthorityStands /\ RevisionKnows /\ RevisionFilesAgree

\* The empty project has no revision.
LEMMA RevisionInit == Init => RevisionIInv
  BY StepsApart DEF Init, RevisionIInv, PrepareNames, AuthorityStands, RevisionKnows, RevisionFilesAgree,
     NoPointer, Versions

\* A step that leaves the revision's files and the items alone, and begins or continues no revision.
LEMMA RevisionFrame ==
  ASSUME RevisionIInv, UNCHANGED <<items, pointer, prepare, authority>>,
         pc' \in RevisionSteps => UNCHANGED <<pc, job>>
  PROVE  RevisionIInv'
  BY DEF RevisionIInv, PrepareNames, AuthorityStands, RevisionKnows, RevisionFilesAgree, items

\* A change of a status that makes no version and loses none.
LEMMA RevisionStatusFrame ==
  ASSUME RevisionIInv, UNCHANGED <<content, pointer, prepare, authority>>, pc' \notin RevisionSteps,
         \A v \in Versions : status'[v] = "absent" <=> status[v] = "absent"
  PROVE  RevisionIInv'
  BY LifecycleAssumption DEF RevisionIInv, PrepareNames, AuthorityStands, RevisionKnows, RevisionFilesAgree, Versions

\* A note in the prepare journal that the running revision makes keeps its text.
LEMMA PrepareKept ==
  ASSUME TypeOK, RevisionIInv, pc \in RevisionSteps, job \in Pointers, NEW s \in {"authority_written", "committed"},
         SetPrepare(job.version, s, job.decision)
  PROVE  \A v \in Versions : prepare'[v].decision = prepare[v].decision
                             /\ (prepare'[v].state = "none" <=> prepare[v].state = "none")
  BY DEF TypeOK, RevisionIInv, RevisionKnows, SetPrepare, Prepares, Pointers

\* Every step keeps the three files of a revision in agreement.
LEMMA RevisionStep == IInv /\ RevisionIInv /\ [Next]_vars => RevisionIInv'
  <1> SUFFICES ASSUME IInv, RevisionIInv, [Next]_vars PROVE RevisionIInv'
    OBVIOUS
  <1> USE PointerVersion DEF IInv
  <1>1. ASSUME NEW d \in Decisions, CreateInitialCandidate(d) PROVE RevisionIInv'
    BY <1>1 DEF CreateInitialCandidate, Files, HistoryPresent, RevisionIInv, PrepareNames, AuthorityStands,
       RevisionKnows, RevisionFilesAgree, TypeOK, Versions, records, revision
  <1>2. ASSUME NEW d \in Decisions, CreateReplacement(d) PROVE RevisionIInv'
    <2> DEFINE w == pointer.version + 1
    <2>1. /\ w \in Versions /\ w # 1 /\ pointer \in Pointers
          /\ UNCHANGED <<items, pointer, authority>>
          /\ job' = [version |-> w, decision |-> d, dispositions |-> {}] /\ pc' = "revision_authority"
      BY <1>2 DEF CreateReplacement, Begin
    <2>2. prepare[w].state = "none" \/ prepare[w].decision = d
      BY <1>2 DEF CreateReplacement, PrepareBound
    <2>3. prepare[w].state = "none" => authority[w].decision = None
      BY <2>1 DEF RevisionIInv, PrepareNames, RevisionFilesAgree
    <2>4. prepare'[w].decision = d /\ prepare'[w].state # "none"
      BY <1>2, <2>1, <2>2 DEF CreateReplacement, SetPrepare, TypeOK
    <2>5. \A v \in Versions : v # w => prepare'[v] = prepare[v]
      BY <1>2, <2>1 DEF CreateReplacement, SetPrepare, TypeOK
    <2>6. PrepareNames'
      BY <2>4, <2>5 DEF RevisionIInv, PrepareNames
    <2>7. AuthorityStands'
      BY <2>1 DEF RevisionIInv, AuthorityStands, items
    <2>8. RevisionKnows'
      BY <2>1, <2>4 DEF RevisionKnows
    <2>9. RevisionFilesAgree'
      BY <2>1, <2>2, <2>3, <2>4, <2>5 DEF RevisionIInv, RevisionFilesAgree, items
    <2>10. QED
      BY <2>6, <2>7, <2>8, <2>9 DEF RevisionIInv
  <1>3. CASE ActivateInitialEnvelope
    BY <1>3, RevisionStatusFrame, StepsApart DEF ActivateInitialEnvelope, Goto, Jobs, InitialJob, InitialSteps,
       TypeOK, revision
  <1>4. CASE WriteInitialPointer
    <2>1. job \in Pointers /\ job.version = 1
      BY <1>4 DEF WriteInitialPointer, Jobs, InitialJob, InitialSteps
    <2>2. QED
      BY <1>4, <2>1, StepsApart DEF WriteInitialPointer, Return, RevisionIInv, PrepareNames, AuthorityStands,
         RevisionKnows, RevisionFilesAgree, items, revision
  <1>5. CASE ReuseAuthority \/ OpenAuthorityTmp \/ KeepReplacementCandidate
    <2>1. pc' \in RevisionSteps /\ pc \in RevisionSteps /\ UNCHANGED <<items, pointer, prepare, authority, job>>
      BY <1>5 DEF ReuseAuthority, OpenAuthorityTmp, KeepReplacementCandidate, Goto, RevisionSteps, revision
    <2>2. RevisionKnows'
      BY <1>5, <2>1 DEF RevisionIInv, RevisionKnows, ReuseAuthority, OpenAuthorityTmp,
         KeepReplacementCandidate, Goto
    <2>3. QED
      BY <2>1, <2>2 DEF RevisionIInv, PrepareNames, AuthorityStands, RevisionFilesAgree, items
  <1>6. CASE RenameAuthority
    <2>1. /\ pc \in RevisionSteps /\ job \in Pointers /\ pointer \in Pointers
          /\ job.version = pointer.version + 1 /\ job.version \in Versions \ {1}
          /\ authority[job.version].decision = None /\ prepare[job.version].decision = job.decision
          /\ pointer.version = job.version - 1
      BY <1>6 DEF RenameAuthority, RevisionSteps, Jobs, RevisionJob, RevisionIInv, RevisionKnows, Pointers, Versions
    <2>2. status[job.version] = "absent"
      BY <2>1, LifecycleAssumption DEF Files, ContentPresent, RevisionIInv, RevisionFilesAgree
    <2>3. status[pointer.version] = "active" /\ content[pointer.version] = pointer.decision
      BY <2>1, NoPointerApart DEF Files, PointerTargetActive
    <2>4. /\ UNCHANGED <<items, pointer, prepare, job>> /\ pc' = "revision_written"
          /\ authority' = [authority EXCEPT ![job.version] =
                              [decision |-> job.decision, base |-> pointer.decision]]
      BY <1>6 DEF RenameAuthority, Goto
    <2>5. \A v \in Versions : authority'[v] = IF v = job.version
                                             THEN [decision |-> job.decision, base |-> pointer.decision]
                                             ELSE authority[v]
      BY <2>4 DEF TypeOK
    <2>6. AuthorityStands'
      BY <2>1, <2>3, <2>4, <2>5 DEF RevisionIInv, AuthorityStands, items
    <2>7. RevisionKnows'
      <3>1. prepare[job.version].state # "none" /\ authority'[job.version].decision = job.decision
        BY <2>1, <2>5 DEF RevisionIInv, RevisionKnows
      <3>2. job' = job /\ pointer' = pointer /\ prepare' = prepare /\ pc' = "revision_written"
        BY <2>4
      <3>3. QED
        BY <2>1, <3>1, <3>2 DEF RevisionKnows
    <2>8. RevisionFilesAgree'
      BY <2>1, <2>2, <2>4, <2>5 DEF RevisionIInv, RevisionFilesAgree, Pointers, Versions, items
    <2>9. QED
      BY <2>4, <2>6, <2>7, <2>8 DEF RevisionIInv, PrepareNames
  <1>7. CASE NoteAuthorityWritten \/ CommitRevision
    <2>1. /\ pc \in RevisionSteps /\ job \in Pointers /\ UNCHANGED <<items, pointer, authority>>
          /\ pc' \in RevisionSteps => pc' = "revision_candidate" /\ pc = "revision_written" /\ job' = job
      BY <1>7, StepsApart DEF NoteAuthorityWritten, CommitRevision, Goto, Return, RevisionSteps, Jobs, RevisionJob
    <2>2. \A v \in Versions : prepare'[v].decision = prepare[v].decision
                              /\ (prepare'[v].state = "none" <=> prepare[v].state = "none")
      BY <1>7, <2>1, PrepareKept DEF NoteAuthorityWritten, CommitRevision
    <2>3. job.version \in Versions
      BY <2>1 DEF Pointers
    <2>4. QED
      BY <2>1, <2>2, <2>3 DEF RevisionIInv, PrepareNames, AuthorityStands, RevisionKnows, RevisionFilesAgree, items
  <1>8. CASE AddReplacementCandidate
    <2>1. /\ job \in Pointers /\ job.version \in Versions \ {1} /\ job.version = pointer.version + 1
          /\ authority[job.version].decision = job.decision /\ status[job.version] = "absent"
      BY <1>8 DEF AddReplacementCandidate, RevisionSteps, Jobs, RevisionJob, RevisionIInv, RevisionKnows, Pointers, Versions
    <2>2. /\ \A v \in Versions : v # job.version => status'[v] = status[v] /\ content'[v] = content[v]
          /\ content'[job.version] = job.decision /\ status'[job.version] # "absent"
      BY <1>8, <2>1 DEF AddReplacementCandidate, TypeOK
    <2>3. UNCHANGED <<pointer, prepare, authority, job>> /\ pc' = "revision_commit" /\ pc = "revision_candidate"
      BY <1>8 DEF AddReplacementCandidate, Goto, revision
    <2>4. AuthorityStands'
      BY <2>1, <2>2, <2>3, LifecycleAssumption DEF RevisionIInv, AuthorityStands, Versions
    <2>5. RevisionFilesAgree'
      <3>1. \A v \in Versions \ {1} :
               /\ authority'[v].decision # None => prepare'[v].decision = authority'[v].decision
               /\ status'[v] # "absent" => content'[v] = authority'[v].decision
        BY <2>1, <2>2, <2>3 DEF RevisionIInv, RevisionFilesAgree
      <3>2. pointer.version > 1 => content'[pointer.version - 1] = content[pointer.version - 1]
        BY <2>1, <2>2, LifecycleAssumption DEF Versions
      <3>3. QED
        BY <2>3, <3>1, <3>2 DEF RevisionIInv, RevisionFilesAgree
    <2>6. RevisionKnows'
      BY <2>3 DEF RevisionIInv, RevisionKnows, RevisionSteps
    <2>7. QED
      BY <2>3, <2>4, <2>5, <2>6 DEF RevisionIInv, PrepareNames
  <1>9. CASE ActivateReplacement \/ ArchiveOld
    <2>1. \A v \in Versions : status'[v] = "absent" <=> status[v] = "absent"
      BY <1>9 DEF ActivateReplacement, ArchiveOld, TypeOK
    <2>2. QED
      BY <1>9, <2>1, RevisionStatusFrame DEF ActivateReplacement, ArchiveOld, Goto, RevisionSteps, revision
  <1>10. CASE MovePointer
    <2>1. /\ job \in Pointers /\ job.version \in Versions /\ job.version > 1
          /\ status[job.version] # "absent" /\ content[job.version] = job.decision
      BY <1>10 DEF MovePointer, Jobs, SwitchJob, SwitchSteps, Files, JournalBinds, Pointers, Versions
    <2>2. authority[job.version].decision = job.decision /\ job.decision \in Decisions
      BY <2>1 DEF RevisionIInv, RevisionFilesAgree, Pointers
    <2>3. authority[job.version].base = content[job.version - 1]
      BY <2>1, <2>2, LifecycleAssumption DEF RevisionIInv, AuthorityStands
    <2>4. authority[job.version] = [decision |-> job.decision, base |-> content[job.version - 1]]
      BY <2>1, <2>2, <2>3 DEF TypeOK, Authorities
    <2>5. QED
      BY <1>10, <2>4 DEF MovePointer, Goto, RevisionSteps, RevisionIInv, PrepareNames, AuthorityStands,
         RevisionKnows, RevisionFilesAgree, items, revision
  <1>11. CASE Return /\ UNCHANGED <<items, pointer, prepare, authority>>
    BY <1>11, RevisionFrame, StepsApart DEF Return
  <1>12. CASE pc' \notin RevisionSteps /\ UNCHANGED <<items, pointer, prepare, authority>>
    BY <1>12, RevisionFrame
  <1>13. CASE UNCHANGED <<items, pointer, prepare, authority, pc, job>>
    BY <1>13, RevisionFrame
  <1>14. QED
    BY <1>1, <1>2, <1>3, <1>4, <1>5, <1>6, <1>7, <1>8, <1>9, <1>10, <1>11, <1>12, <1>13, StepsApart
       DEF Next, Continue, Environment, vars, records, revision, ActivateInitial, PrepareSwitch, ResumeSwitch, Begin,
       Goto, AuthorityRefused, ReplacementCandidateConflict, NoteActive, NotePointer, PointerAlreadyMoved,
       SwitchConflict, NoteArchived, CommitSwitch, SaveExactRecords, SaveDisposition, SourcesChange, Crash,
       InitialSteps, SwitchSteps, RevisionSteps

\* The revision's invariant holds in every reachable state.
LEMMA RevisionInductive == Spec => []RevisionIInv
  BY RevisionInit, RevisionStep, Inductive, PTL DEF Spec

\* Whatever crashes, and whichever request is repeated, the prepare journal, the authority and
\* the item of a replacement name one text, and the current text was made against the text
\* before it.
THEOREM RevisionFilesAlwaysAgree == Spec => []RevisionFilesAgree
  <1>1. RevisionIInv => RevisionFilesAgree
    BY DEF RevisionIInv
  <1>2. QED
    BY <1>1, RevisionInductive, PTL

------------------------------------------------------------------------------
(* The admission: its inductive invariant *)

\* validate_reviewer_gate over a set of dispositions.
Settled(ds) == \A i \in Issues : Cardinality({a \in Actors : <<i, a>> \in ds}) = 1

\* The current pointer was verified when it was written.
CurrentVerified ==
    pointer # NoPointer => pointer.version \in recorded /\ Settled(pointer.dispositions)

\* A run is admitted under the current pointer or an earlier one.
StatesArePast ==
    \A r \in Runs : runs[r].state = pointer \/ runs[r].state.version < pointer.version

\* A grant and a token name a contract, and only a prepared run writes.
Holding ==
    \A r \in Runs :
        /\ runs[r].step # "new" => runs[r].state \in Pointers
        /\ restricted[r] # NoRestricted \/ r \in writing => runs[r].step = "prepared"
        /\ restricted[r] # NoRestricted => restricted[r].id \in AuthorizationIds

\* How late a grant, a token and a restricted token may still be presented.
Deadlines ==
    \A r \in Runs :
        /\ runs[r].step \in {"granted", "compiled"} =>
              runs[r].expires <= runs[r].admitted + Lifetime
        /\ runs[r].step = "prepared" => runs[r].expires < runs[r].admitted + 2 * Lifetime
        /\ restricted[r] # NoRestricted => restricted[r].expires <= runs[r].expires

AInv ==
    /\ AdmissionTypeOK /\ IInv /\ CurrentVerified
    /\ StatesArePast /\ Holding /\ Deadlines
    /\ WriterKeepsItsContract /\ OldContractNeedsHuman

------------------------------------------------------------------------------
(* The contract underneath *)

\* Writers and humans change nothing of the contract.
LEMMA AdmissionStepsLifecycle == [AdmissionNext]_allVars => [Next]_vars
  BY DEF AdmissionNext, allVars, LifecycleStep, NoExitInside, Unlocked, RunStep, PreAdmit,
     ValidateGrantForContext, FinalizeAdmission, PreparationFails, ValidateToken, ExitReturns,
     RunEnds, IssueRestrictedContinuationToken, ValidateRestrictedToken, Authorize, Revoke, Tick,
     Next, Environment

\* The coordinator behaves under the writers as it does alone.
THEOREM AdmissionRefinesLifecycle == AdmissionSpec => Spec
  <1>1. AdmissionInit => Init
    BY DEF AdmissionInit
  <1>2. QED
    BY <1>1, AdmissionStepsLifecycle, PTL DEF AdmissionSpec, Spec

\* A pointer gives way only to one of a later version.
LEMMA PointerGrows ==
  ASSUME IInv, [Next]_vars, pointer' # pointer
  PROVE  pointer'.version > pointer.version
  <1>1. CASE WriteInitialPointer
    BY <1>1 DEF WriteInitialPointer, IInv, Jobs, InitialJob, InitialSteps, NoPointer
  <1>2. CASE MovePointer
    BY <1>2 DEF MovePointer, IInv, Jobs, SwitchJob, SwitchSteps, Files, JournalBinds,
       Pointers, Versions
  <1>3. QED
    BY <1>1, <1>2, PointerWriters

\* What was verified when the pointer was written cannot be unwritten.
LEMMA CurrentVerifiedStep ==
  ASSUME IInv, CurrentVerified, [Next]_vars
  PROVE  CurrentVerified'
  <1>1. recorded \subseteq recorded'
    BY RecordedWriters DEF SaveExactRecords
  <1>2. CASE pointer' = pointer
    BY <1>1, <1>2 DEF CurrentVerified, Settled
  <1>3. CASE pointer' # pointer
    <2>1. pointer' = job /\ pc \in InitialSteps \union SwitchSteps
      BY <1>3, PointerWriters DEF WriteInitialPointer, MovePointer, InitialSteps, SwitchSteps
    <2>2. job.version \in recorded
      BY <2>1 DEF IInv, Jobs, InitialJob, SwitchJob
    <2>3. Settled(job.dispositions)
      BY <2>1 DEF IInv, JobVerified, GateReady, Settled
    <2>4. QED
      BY <1>1, <2>1, <2>2, <2>3 DEF CurrentVerified, Settled
  <1>4. QED
    BY <1>2, <1>3

------------------------------------------------------------------------------
(* The invariant holds at the start *)

\* Nobody is admitted in the empty project.
LEMMA AdmissionInitInv == AdmissionInit => AInv
  <1> SUFFICES ASSUME AdmissionInit PROVE AInv
    OBVIOUS
  <1>1. IInv /\ pointer = NoPointer
    BY InitIInv DEF AdmissionInit, Init
  <1>2. AdmissionTypeOK
    <2>1. NewRun \in RunStates /\ NoRestricted \in RestrictedTokens
      BY AdmissionAssumption DEF NewRun, NoRestricted, RunStates, RestrictedTokens, Times
    <2>2. QED
      BY <1>1, <2>1, AdmissionAssumption DEF AdmissionInit, AdmissionTypeOK, IInv
  <1>3. StatesArePast /\ Holding /\ Deadlines
    BY <1>1 DEF AdmissionInit, StatesArePast, Holding, Deadlines, NewRun
  <1>4. CurrentVerified /\ WriterKeepsItsContract /\ OldContractNeedsHuman
    BY <1>1 DEF AdmissionInit, CurrentVerified, WriterKeepsItsContract, OldContractNeedsHuman
  <1>5. QED
    BY <1>1, <1>2, <1>3, <1>4 DEF AInv

------------------------------------------------------------------------------
(* Every step keeps it *)

\* The types.
LEMMA AdmissionTypeStep ==
  ASSUME AInv, [AdmissionNext]_allVars
  PROVE  AdmissionTypeOK'
  <1>1. TypeOK'
    BY AdmissionStepsLifecycle, TypeStep DEF AInv, IInv, Jobs
  <1>2. CASE LifecycleStep \/ UNCHANGED allVars
    BY <1>1, <1>2 DEF AInv, AdmissionTypeOK, LifecycleStep, admissionVars, tokenVars, humanVars,
       allVars
  <1>3. ASSUME NEW r \in Runs, PreAdmit(r) PROVE AdmissionTypeOK'
    <2>1. clock \in Times /\ clock + Lifetime \in Times /\ pointer \in Pointers
      BY <1>3, AdmissionAssumption DEF AInv, AdmissionTypeOK, TypeOK, Times, PreAdmit, Admissible
    <2>2. QED
      BY <1>1, <1>3, <2>1 DEF AInv, AdmissionTypeOK, PreAdmit, RunStates, humanVars
  <1>4. ASSUME NEW r \in Runs, ValidateGrantForContext(r) PROVE AdmissionTypeOK'
    BY <1>1, <1>4 DEF AInv, AdmissionTypeOK, ValidateGrantForContext, RunStates, humanVars
  <1>5. ASSUME NEW r \in Runs, FinalizeAdmission(r) PROVE AdmissionTypeOK'
    <2>1. clock + Lifetime \in Times
      BY AdmissionAssumption DEF AInv, AdmissionTypeOK, Times
    <2>2. [runs[r] EXCEPT !.step = "prepared", !.expires = clock + Lifetime] \in RunStates
      BY <2>1 DEF AInv, AdmissionTypeOK, RunStates
    <2>3. runs' \in [Runs -> RunStates]
      BY <1>5, <2>2 DEF AInv, AdmissionTypeOK, FinalizeAdmission
    <2>4. QED
      BY <1>1, <1>5, <2>3 DEF AInv, AdmissionTypeOK, FinalizeAdmission, humanVars
  <1>6. ASSUME NEW r \in Runs, PreparationFails(r) \/ RunEnds(r) PROVE AdmissionTypeOK'
    <2>1. NewRun \in RunStates /\ NoRestricted \in RestrictedTokens
      BY AdmissionAssumption DEF NewRun, NoRestricted, RunStates, RestrictedTokens, Times
    <2>2. QED
      BY <1>1, <1>6, <2>1 DEF AInv, AdmissionTypeOK, PreparationFails, RunEnds, humanVars
  <1>7. ASSUME NEW r \in Runs,
               ValidateToken(r) \/ ValidateRestrictedToken(r) \/ ExitReturns(r)
        PROVE  AdmissionTypeOK'
    BY <1>1, <1>7 DEF AInv, AdmissionTypeOK, ValidateToken, ValidateRestrictedToken, ExitReturns,
       tokenVars, humanVars
  <1>8. ASSUME NEW r \in Runs, NEW a \in AuthorizationIds, IssueRestrictedContinuationToken(r, a)
        PROVE  AdmissionTypeOK'
    <2>1. authorized[a] \in Permissions
      BY <1>8 DEF AInv, AdmissionTypeOK, IssueRestrictedContinuationToken, Authorization
    <2>2. Earlier(runs[r].expires, authorized[a].expires) \in Times
      BY <2>1, AdmissionAssumption DEF AInv, AdmissionTypeOK, RunStates, Permissions, Earlier, Times
    <2>3. QED
      BY <1>1, <1>8, <2>2 DEF AInv, AdmissionTypeOK, IssueRestrictedContinuationToken,
         RestrictedTokens, humanVars
  <1>9. ASSUME NEW a \in AuthorizationIds, NEW p \in Permissions, Authorize(a, p)
        PROVE  AdmissionTypeOK'
    BY <1>1, <1>9 DEF AInv, AdmissionTypeOK, Authorize, tokenVars
  <1>10. CASE Tick
    <2>1. clock' \in 0..MaxTime
      BY <1>10, AdmissionAssumption DEF AInv, AdmissionTypeOK, Tick
    <2>2. QED
      BY <1>1, <1>10, <2>1 DEF AInv, AdmissionTypeOK, Tick, tokenVars, humanVars
  <1>11. ASSUME NEW a \in AuthorizationIds, Revoke(a) PROVE AdmissionTypeOK'
    BY <1>1, <1>11 DEF AInv, AdmissionTypeOK, Revoke, tokenVars
  <1>12. QED
    BY <1>2, <1>3, <1>4, <1>5, <1>6, <1>7, <1>8, <1>9, <1>10, <1>11 DEF AdmissionNext, RunStep

\* Tokens stay behind the pointer, whoever moves it.
LEMMA StatesArePastStep ==
  ASSUME AInv, [AdmissionNext]_allVars
  PROVE  StatesArePast'
  <1>1. CASE UNCHANGED runs
    <2>1. CASE pointer' = pointer
      BY <1>1, <2>1 DEF AInv, StatesArePast
    <2>2. CASE pointer' # pointer
      <3>1. pointer'.version > pointer.version
        BY <2>2, PointerGrows, AdmissionStepsLifecycle DEF AInv
      <3>2. pointer.version \in Nat /\ pointer'.version \in Nat
        BY AdmissionTypeStep DEF AInv, AdmissionTypeOK, TypeOK, Pointers, NoPointer, Versions
      <3>3. \A r \in Runs : runs[r].state.version \in Nat
        BY DEF AInv, AdmissionTypeOK, RunStates, Pointers, NoPointer, Versions
      <3>4. QED
        BY <1>1, <3>1, <3>2, <3>3 DEF AInv, StatesArePast
    <2>3. QED
      BY <2>1, <2>2
  <1>2. ASSUME NEW r \in Runs, runs' = [runs EXCEPT ![r] = runs'[r]], UNCHANGED pointer,
               runs'[r].state \in {pointer, runs[r].state}
        PROVE  StatesArePast'
    BY <1>2 DEF AInv, AdmissionTypeOK, StatesArePast
  <1>3. ASSUME NEW r \in Runs, PreAdmit(r) PROVE StatesArePast'
    BY <1>2, <1>3 DEF PreAdmit, AInv, AdmissionTypeOK, vars
  <1>4. ASSUME NEW r \in Runs, ValidateGrantForContext(r) \/ FinalizeAdmission(r)
        PROVE  StatesArePast'
    <2>1. runs[r] \in RunStates
      BY DEF AInv, AdmissionTypeOK
    <2>2. runs' = [runs EXCEPT ![r] = runs'[r]] /\ runs'[r].state = runs[r].state
      BY <1>4, <2>1 DEF ValidateGrantForContext, FinalizeAdmission, AInv, AdmissionTypeOK, RunStates
    <2>3. QED
      BY <1>2, <1>4, <2>2 DEF ValidateGrantForContext, FinalizeAdmission, vars
  <1>5. ASSUME NEW r \in Runs, PreparationFails(r) \/ RunEnds(r) PROVE StatesArePast'
    <2>1. pointer = NoPointer \/ pointer.version > 0
      BY DEF AInv, AdmissionTypeOK, TypeOK, Pointers, Versions
    <2>2. runs' = [runs EXCEPT ![r] = NewRun] /\ UNCHANGED pointer
      BY <1>5 DEF PreparationFails, RunEnds, vars
    <2>3. NewRun.state = NoPointer /\ NoPointer.version = 0
      BY DEF NewRun, NoPointer
    <2>4. \A w \in Runs : runs'[w] = IF w = r THEN NewRun ELSE runs[w]
      BY <2>2 DEF AInv, AdmissionTypeOK
    <2>5. QED
      BY <2>1, <2>2, <2>3, <2>4 DEF AInv, StatesArePast
  <1>6. QED
    BY <1>1, <1>3, <1>4, <1>5 DEF AdmissionNext, RunStep, LifecycleStep, admissionVars, tokenVars,
       allVars, ValidateToken, ExitReturns, IssueRestrictedContinuationToken,
       ValidateRestrictedToken, Authorize, Revoke, Tick

\* Tokens are held in order, and each expires within its admission.
LEMMA HoldingStep ==
  ASSUME AInv, [AdmissionNext]_allVars
  PROVE  Holding' /\ Deadlines'
  <1>1. CASE UNCHANGED <<runs, restricted, writing>>
    BY <1>1 DEF AInv, Holding, Deadlines
  <1>2. ASSUME NEW r \in Runs, PreAdmit(r) PROVE Holding' /\ Deadlines'
    <2>1. pointer \in Pointers /\ r \notin writing /\ restricted[r] = NoRestricted
      BY <1>2 DEF PreAdmit, Admissible, LockFree, NoExitInside, AInv, AdmissionTypeOK, TypeOK, Holding
    <2>2. QED
      BY <1>2, <2>1, AdmissionAssumption
      DEF PreAdmit, LockFree, NoExitInside, AInv, AdmissionTypeOK, Holding, Deadlines
  <1>3. ASSUME NEW r \in Runs, ValidateGrantForContext(r) PROVE Holding' /\ Deadlines'
    BY <1>3 DEF ValidateGrantForContext, LockFree, NoExitInside, AInv, AdmissionTypeOK, RunStates, Holding,
       Deadlines
  <1>4. ASSUME NEW r \in Runs, FinalizeAdmission(r) PROVE Holding' /\ Deadlines'
    <2>1. /\ clock < runs[r].expires /\ runs[r].expires <= runs[r].admitted + Lifetime
          /\ restricted[r] = NoRestricted
      BY <1>4 DEF FinalizeAdmission, StillAdmitted, Unexpired, AInv, Holding, Deadlines,
         AdmissionTypeOK, RunStates, Times
    <2>2. /\ clock \in Nat /\ Lifetime \in Nat
          /\ runs[r].expires \in Nat /\ runs[r].admitted \in Nat
      BY AdmissionAssumption DEF AInv, AdmissionTypeOK, RunStates, Times
    <2>3. clock + Lifetime < runs[r].admitted + 2 * Lifetime
      BY <2>1, <2>2
    <2>4. QED
      BY <1>4, <2>1, <2>3
      DEF FinalizeAdmission, LockFree, NoExitInside, AInv, AdmissionTypeOK, RunStates, Holding, Deadlines
  <1>5. ASSUME NEW r \in Runs, PreparationFails(r) PROVE Holding' /\ Deadlines'
    BY <1>5 DEF PreparationFails, LockFree, NoExitInside, AInv, AdmissionTypeOK, NewRun, Holding, Deadlines
  <1>6. ASSUME NEW r \in Runs, RunEnds(r) PROVE Holding' /\ Deadlines'
    BY <1>6 DEF RunEnds, AInv, AdmissionTypeOK, NewRun, NoRestricted, Holding, Deadlines
  <1>7. ASSUME NEW r \in Runs,
               ValidateToken(r) \/ ValidateRestrictedToken(r) \/ ExitReturns(r)
        PROVE  Holding' /\ Deadlines'
    BY <1>7 DEF ValidateToken, ValidateRestrictedToken, ExitReturns, tokenVars, AInv, Holding,
       Deadlines
  <1>8. ASSUME NEW r \in Runs, NEW a \in AuthorizationIds, IssueRestrictedContinuationToken(r, a)
        PROVE  Holding' /\ Deadlines'
    <2>1. authorized[a] \in Permissions
      BY <1>8 DEF AInv, AdmissionTypeOK, IssueRestrictedContinuationToken, Authorization
    <2>2. Earlier(runs[r].expires, authorized[a].expires) <= runs[r].expires
      BY <2>1 DEF AInv, AdmissionTypeOK, RunStates, Permissions, Earlier, Times
    <2>3. /\ restricted' = [restricted EXCEPT ![r] = restricted'[r]]
          /\ restricted'[r].id = a /\ restricted'[r].expires <= runs[r].expires
      BY <1>8, <2>2 DEF IssueRestrictedContinuationToken, AInv, AdmissionTypeOK
    <2>4. QED
      BY <1>8, <2>3 DEF IssueRestrictedContinuationToken, LockFree, NoExitInside, AInv, AdmissionTypeOK,
         Holding, Deadlines
  <1>9. QED
    BY <1>1, <1>2, <1>3, <1>4, <1>5, <1>6, <1>7, <1>8 DEF AdmissionNext, RunStep, LifecycleStep,
       admissionVars, tokenVars, allVars, Authorize, Revoke, Tick

\* An exit holds the lock, so nobody disturbs what it was checked against.
LEMMA WriterStep ==
  ASSUME AInv, [AdmissionNext]_allVars
  PROVE  WriterKeepsItsContract' /\ OldContractNeedsHuman'
  <1>1. CASE writing' = {}
    BY <1>1 DEF WriterKeepsItsContract, OldContractNeedsHuman
  <1>2. CASE UNCHANGED <<writing, allVars>>
    BY <1>2 DEF AInv, allVars, vars, items, records, revision, admissionVars, tokenVars, humanVars,
       WriterKeepsItsContract, OldContractNeedsHuman, Restricted, PointsToActive, GateReady
  <1>3. CASE writing # {} /\ Unlocked /\ UNCHANGED admissionVars
    <2>1. UNCHANGED <<pointer, recorded, dispositions, pc, admissionVars>>
      BY <1>3 DEF Unlocked, SourcesChange, CreateInitialCandidate, items, records
    <2>2. ASSUME NEW r \in writing, ~Restricted(r) PROVE PointsToActive(pointer)'
      <3>1. pointer \in Pointers /\ PointsToActive(pointer)
        BY <2>2 DEF AInv, AdmissionTypeOK, Holding, Restricted, WriterKeepsItsContract
      <3>2. QED
        BY <1>3, <2>1, <3>1 DEF Unlocked, SourcesChange, CreateInitialCandidate, PointsToActive,
           AInv, AdmissionTypeOK, TypeOK, Pointers, items
    <2>3. QED
      BY <2>1, <2>2 DEF AInv, WriterKeepsItsContract, OldContractNeedsHuman, Restricted, GateReady,
         admissionVars, tokenVars, humanVars
  <1>4. ASSUME NEW r \in Runs, ValidateToken(r)
        PROVE  WriterKeepsItsContract' /\ OldContractNeedsHuman'
    <2>1. /\ writing' = {r} /\ pc' = "idle" /\ pointer' = runs'[r].state
          /\ UNCHANGED <<pointer, recorded, dispositions, status, content>>
      BY <1>4 DEF ValidateToken, LockFree, NoExitInside, StillAdmitted, tokenVars, vars, items, records
    <2>2. /\ PointsToActive(pointer) /\ pointer.version \in recorded
          /\ dispositions[pointer.version] = pointer.dispositions /\ GateReady(pointer.version)
      BY <1>4 DEF ValidateToken, StillAdmitted, Admissible, PointerReadable, ExactRecords
    <2>3. QED
      BY <2>1, <2>2 DEF WriterKeepsItsContract, OldContractNeedsHuman, Restricted, PointsToActive,
         GateReady
  <1>5. ASSUME NEW r \in Runs, ValidateRestrictedToken(r)
        PROVE  WriterKeepsItsContract' /\ OldContractNeedsHuman'
    <2>1. /\ writing' = {r} /\ pc' = "idle"
          /\ UNCHANGED <<pointer, runs, authorized, revoked>>
          /\ runs[r].step = "prepared"
      BY <1>5 DEF ValidateRestrictedToken, LockFree, NoExitInside, tokenVars, humanVars, vars, AInv, Holding
    <2>2. /\ pointer # runs[r].state
          /\ runs[r].state.version < pointer.version
      BY <1>5 DEF ValidateRestrictedToken, Replaced, AInv, StatesArePast
    <2>3. restricted[r].id \in AuthorizationIds \ revoked
      BY <1>5 DEF ValidateRestrictedToken, Authorization, AInv, Holding
    <2>4. QED
      BY <1>5, <2>1, <2>2, <2>3 DEF ValidateRestrictedToken, Authorization,
         WriterKeepsItsContract, OldContractNeedsHuman, Restricted
  <1>6. ASSUME NEW r \in Runs, ExitReturns(r) PROVE writing' = {}
    BY <1>6 DEF ExitReturns, AInv, WriterKeepsItsContract
  <1>7. ASSUME NEW r \in Runs, RunEnds(r), writing' # {}
        PROVE  WriterKeepsItsContract' /\ OldContractNeedsHuman'
    <2>1. \A w \in writing' : w # r /\ w \in writing /\ runs'[w] = runs[w]
      BY <1>7 DEF RunEnds, AInv, AdmissionTypeOK
    <2>2. writing' = writing /\ UNCHANGED <<vars, humanVars>>
      BY <1>7, <2>1 DEF RunEnds, AInv, WriterKeepsItsContract
    <2>3. QED
      BY <2>1, <2>2 DEF AInv, WriterKeepsItsContract, OldContractNeedsHuman, Restricted,
         PointsToActive, GateReady, vars, items, records, humanVars
  <1>8. CASE Tick
    BY <1>8 DEF Tick, AInv, vars, items, records, tokenVars, humanVars, WriterKeepsItsContract,
       OldContractNeedsHuman, Restricted, PointsToActive, GateReady
  <1>9. QED
    BY <1>1, <1>2, <1>3, <1>4, <1>5, <1>6, <1>7, <1>8 DEF AdmissionNext, RunStep, LifecycleStep,
       LockFree, NoExitInside, admissionVars, allVars, PreAdmit, ValidateGrantForContext, FinalizeAdmission,
       PreparationFails, IssueRestrictedContinuationToken, Authorize, Revoke

\* The invariant of contract, tokens and writers holds in every reachable state.
LEMMA AdmissionInductive == AdmissionSpec => []AInv
  <1>1. AInv /\ [AdmissionNext]_allVars => AInv'
    <2> SUFFICES ASSUME AInv, [AdmissionNext]_allVars PROVE AInv'
      OBVIOUS
    <2>1. IInv'
      BY AdmissionStepsLifecycle, TypeStep, FilesStep, JobsStep, VerifiedStep DEF AInv, IInv, Jobs
    <2>2. CurrentVerified'
      BY AdmissionStepsLifecycle, CurrentVerifiedStep DEF AInv
    <2>3. QED
      BY <2>1, <2>2, AdmissionTypeStep, StatesArePastStep, HoldingStep, WriterStep DEF AInv
  <1>2. QED
    BY <1>1, AdmissionInitInv, PTL DEF AdmissionSpec

------------------------------------------------------------------------------
(* Safety *)

\* While an exit writes a chapter under a token, the contract, its text, its
\* review and its dispositions are those the token was issued for.
THEOREM WriterContractStays == AdmissionSpec => []WriterKeepsItsContract
  <1>1. AInv => WriterKeepsItsContract
    BY DEF AInv
  <1>2. QED
    BY <1>1, AdmissionInductive, PTL

\* A chapter is written under a replaced contract only by the run that a human
\* has authorized for it, and under no contract of the future.
THEOREM OldContractAuthorized == AdmissionSpec => []OldContractNeedsHuman
  <1>1. AInv => OldContractNeedsHuman
    BY DEF AInv
  <1>2. QED
    BY <1>1, AdmissionInductive, PTL

\* No chain of grant, token and restricted token keeps an admission alive for two
\* lifetimes.
THEOREM AdmissionShortLived == AdmissionSpec => ShortLived
  <1>1. AInv /\ [AdmissionNext]_allVars =>
            [\A r \in writing' \ writing : clock < runs[r].admitted + 2 * Lifetime]_allVars
    <2> SUFFICES ASSUME AInv, [AdmissionNext]_allVars, NEW r \in writing' \ writing
                 PROVE  clock < runs[r].admitted + 2 * Lifetime
      OBVIOUS
    <2>1. r \in Runs /\ (ValidateToken(r) \/ ValidateRestrictedToken(r))
      BY DEF AdmissionNext, RunStep, LifecycleStep, admissionVars, allVars, PreAdmit,
         ValidateGrantForContext, FinalizeAdmission, PreparationFails, ValidateToken, ExitReturns,
         RunEnds, IssueRestrictedContinuationToken, ValidateRestrictedToken, Authorize, Revoke, Tick
    <2>2. /\ clock \in Nat /\ Lifetime \in Nat /\ runs[r].expires \in Nat
          /\ runs[r].admitted \in Nat /\ restricted[r].expires \in Nat
      BY <2>1, AdmissionAssumption DEF AInv, AdmissionTypeOK, RunStates, RestrictedTokens, Times
    <2>3. runs[r].expires < runs[r].admitted + 2 * Lifetime
      BY <2>1 DEF ValidateToken, ValidateRestrictedToken, AInv, Holding, Deadlines
    <2>4. clock < runs[r].expires
      BY <2>1, <2>2 DEF ValidateToken, ValidateRestrictedToken, StillAdmitted, Unexpired, AInv,
         Deadlines
    <2>5. QED
      BY <2>2, <2>3, <2>4
  <1>2. QED
    BY <1>1, AdmissionInductive, PTL DEF AdmissionSpec, ShortLived

\* Nothing of what an activation verified can be lost by the time of an admission
\* but the sources, the set of dispositions and the absence of a candidate.
THEOREM AdmissionBlockedOnlyByDrift == AdmissionSpec => []OnlyDriftBlocks
  <1>1. AInv => OnlyDriftBlocks
    <2> SUFFICES ASSUME AInv, pointer # NoPointer, sourcesExact,
                        dispositions[pointer.version] = pointer.dispositions, Pending = {}
                 PROVE  Admissible
      BY DEF OnlyDriftBlocks
    <2>1. PointerReadable
      BY DEF AInv, IInv, Files, PointerTargetActive, PointerReadable, PointsToActive
    <2>2. ExactRecords(pointer.version) /\ GateReady(pointer.version)
      BY DEF AInv, CurrentVerified, Settled, ExactRecords, GateReady
    <2>3. QED
      BY <2>1, <2>2 DEF Admissible, ManifestResolves
  <1>2. QED
    BY <1>1, AdmissionInductive, PTL

==============================================================================
