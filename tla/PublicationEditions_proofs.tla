------------------------ MODULE PublicationEditions_proofs ------------------------
(***************************************************************************)
(* The directories of a publication migration, for any chapters, texts and *)
(* groupings and any number of changes and crashes: every archive holds    *)
(* what the snapshot that names it says (ArchiveFaithful, an invariant of  *)
(* the archiver alone), and the last edition that was published survives   *)
(* every step of its replacement (EditionSurvives, a property of steps).   *)
(***************************************************************************)
EXTENDS PublicationEditions, TLAPS

(* ArchiveFaithful, for any chapters and any number of changes and crashes *)

\* What the archiver has copied so far is what its snapshot says.
CopiesFaithful ==
    pc["archiver"].at = "copy" =>
        \A c \in DOMAIN pc["archiver"].copied : pc["archiver"].copied[c] = pc["archiver"].of[c]

ArchiveIInv == DOMAIN pc = Processes /\ CopiesFaithful /\ ArchiveFaithful

\* A step of another process leaves the archives and the archiver alone.
LEMMA ArchiveFrame ==
  ASSUME ArchiveIInv, UNCHANGED archives, NEW p \in Processes \ {"archiver"}, NEW state,
         pc' = [pc EXCEPT ![p] = state]
  PROVE  ArchiveIInv'
  <1>1. pc'["archiver"] = pc["archiver"] /\ DOMAIN pc' = Processes
    BY DEF ArchiveIInv, Processes
  <1>2. QED
    BY <1>1 DEF ArchiveIInv, CopiesFaithful, ArchiveFaithful

\* The archiver goes on without publishing.
LEMMA ArchiverGoes ==
  ASSUME ArchiveIInv, UNCHANGED archives, NEW state, pc' = [pc EXCEPT !["archiver"] = state],
         state.at = "copy" => \A c \in DOMAIN state.copied : state.copied[c] = state.of[c]
  PROVE  ArchiveIInv'
  <1>1. pc'["archiver"] = state /\ DOMAIN pc' = Processes
    BY DEF ArchiveIInv, Processes
  <1>2. QED
    BY <1>1 DEF ArchiveIInv, CopiesFaithful, ArchiveFaithful

\* No chapter is copied that differs from the snapshot, and no archive published without a
\* copy of every chapter that is migrated.
LEMMA ArchiveStep == ArchiveIInv /\ [Next]_vars => ArchiveIInv'
  <1> SUFFICES ASSUME ArchiveIInv, [Next]_vars PROVE ArchiveIInv'
    OBVIOUS
  <1> DEFINE a == pc["archiver"]
  <1>1. ASSUME UNCHANGED <<archives, pc>> PROVE ArchiveIInv'
    BY <1>1 DEF ArchiveIInv, CopiesFaithful, ArchiveFaithful
  <1>2. CASE BuildSnapshot
    BY <1>2, ArchiverGoes DEF BuildSnapshot, Goto
  <1>3. ASSUME NEW c \in Chapters, ReadChapter(c) PROVE ArchiveIInv'
    BY <1>3, ArchiverGoes DEF ReadChapter, Goto
  <1>4. CASE VerifySnapshot
    BY <1>4, ArchiverGoes DEF VerifySnapshot, Goto, Return, Idle
  <1>5. CASE ArchiveExists
    BY <1>5, ArchiverGoes DEF ArchiveExists, Goto, Return, Idle
  <1>6. ASSUME NEW c \in Migrated, CopyChapter(c) PROVE ArchiveIInv'
    BY <1>6, ArchiverGoes DEF CopyChapter, With, Goto, Return, Idle, ArchiveIInv, CopiesFaithful
  <1>7. CASE PublishArchive
    <2>1. /\ a.at = "copy" /\ Migrated \subseteq DOMAIN a.copied
          /\ archives' = [s \in DOMAIN archives \union {a.of} |-> IF s = a.of THEN a.copied ELSE archives[s]]
          /\ pc' = [pc EXCEPT !["archiver"] = Idle]
      BY <1>7 DEF PublishArchive, Return, Goto
    <2>2. ArchiveFaithful'
      BY <2>1 DEF ArchiveIInv, CopiesFaithful, ArchiveFaithful
    <2>3. DOMAIN pc' = Processes /\ pc'["archiver"] = Idle
      BY <2>1 DEF ArchiveIInv, Processes
    <2>4. QED
      BY <2>2, <2>3 DEF ArchiveIInv, CopiesFaithful, Idle
  <1>8. CASE CheckApproval \/ Render
    BY <1>8, ArchiveFrame DEF CheckApproval, Render, Goto, Return, Processes
  <1>9. CASE LoadEdition \/ MergeChapters
    BY <1>9, ArchiveFrame DEF LoadEdition, MergeChapters, Goto, Return, Processes
  <1>10. ASSUME NEW p \in Publishers,
                \/ Before(p) \/ BackupConflict(p) \/ BackUp(p) \/ FirstPublish(p)
                \/ TakePlace(p) \/ RollBack(p) \/ RemoveBackup(p)
         PROVE  ArchiveIInv'
    <2>1. UNCHANGED archives /\ \E state : pc' = [pc EXCEPT ![p] = state]
      BY <1>10 DEF Before, BackupConflict, BackUp, FirstPublish, TakePlace, RollBack, RemoveBackup, Goto, Return
    <2>2. p \in Processes \ {"archiver"}
      BY DEF Publishers, Processes
    <2>3. QED
      BY <2>1, <2>2, ArchiveFrame
  <1>11. ASSUME NEW p \in Processes, Crash(p) PROVE ArchiveIInv'
    BY <1>11, ArchiveFrame, ArchiverGoes DEF Crash, Return, Goto, Idle
  <1>12. QED
    BY <1>1, <1>2, <1>3, <1>4, <1>5, <1>6, <1>7, <1>8, <1>9, <1>10, <1>11
       DEF Next, vars, WriteSource, ApprovePlan, GroupChapters, DecideGroups, RebuildContentBatch

\* Whatever is written to the chapters while copy_verified_source_archive reads them twice,
\* an archive holds exactly what the snapshot that names it says.
THEOREM ArchivesFaithful == Spec => []ArchiveFaithful
  <1>1. Init => ArchiveIInv
    BY DEF Init, ArchiveIInv, CopiesFaithful, ArchiveFaithful, Idle, Processes
  <1>2. ArchiveIInv => ArchiveFaithful
    BY DEF ArchiveIInv
  <1>3. QED
    BY <1>1, <1>2, ArchiveStep, PTL DEF Spec

------------------------------------------------------------------------------
(* EditionSurvives, for any editions and any number of changes and crashes *)

\* While an old edition is renamed away nothing complete lies in its place, and what is
\* verified lies there.
Replacing ==
    \A p \in Publishers :
        /\ pc[p].at = "rename" => ~Complete(dirs[Place(p)])
        /\ pc[p].at = "verify" => dirs[Place(p)] # None
        /\ pc[p].at = "verify" /\ p = "reflow" => Complete(dirs[Place(p)])

EditionIInv == TypeOK /\ Replacing

LEMMA ProcessMoves ==
  ASSUME DOMAIN pc = Processes, NEW p \in Processes, NEW state, pc' = [pc EXCEPT ![p] = state]
  PROVE  DOMAIN pc' = Processes /\ pc'[p] = state /\ \A q \in Processes \ {p} : pc'[q] = pc[q]
  OBVIOUS

LEMMA PublisherIs ==
  ASSUME NEW p \in Publishers
  PROVE  /\ p \in Processes \ {"archiver"} /\ Place(p) \in Editions
         /\ \A q \in Publishers \ {p} : Place(q) # Place(p)
  BY DEF Publishers, Processes, Editions, Place

LEMMA PublisherTyped ==
  ASSUME ProcessTypes, NEW p \in Publishers, pc[p].at \in Publishing
  PROVE  /\ pc[p] \in Publications(p) /\ pc[p].edition = Place(p) /\ pc[p].new \in Content(Place(p))
         /\ \A at \in Publishing : [pc[p] EXCEPT !.at = at] \in Publications(p)
                                   /\ [pc[p] EXCEPT !.at = at].at = at
  <1>1. Fits(p, pc[p])
    BY PublisherIs DEF ProcessTypes
  <1>2. pc[p] \in Publications(p)
    BY <1>1 DEF Fits, Publishers, Publishing, Idle
  <1>3. QED
    BY <1>2 DEF Publications

\* A directory just published is complete.
LEMMA NewComplete ==
  ASSUME NEW e \in Editions, NEW m \in Content(e)
  PROVE  Dir(m) \in Directories(e) /\ Complete(Dir(m))
  <1>1. m # None /\ Dir(m) \in Directories(e) /\ Dir(m).of = m
    BY EditionsAssumption DEF Content, Dir, Directories
  <1>2. Dir(m) # None
    BY <1>1, EditionsAssumption DEF Editions
  <1>3. QED
    BY <1>1, <1>2 DEF Complete

\* One process goes on, and the directories stay.
LEMMA ProcessStep ==
  ASSUME EditionIInv, NEW p \in Processes, NEW state, pc' = [pc EXCEPT ![p] = state],
         UNCHANGED <<dirs, backups>>, SourceTypes', Fits(p, state), state.at \notin {"rename", "verify"}
  PROVE  EditionIInv'
  <1>1. DOMAIN pc' = Processes /\ pc'[p] = state /\ \A q \in Processes \ {p} : pc'[q] = pc[q]
    BY ProcessMoves DEF EditionIInv, TypeOK, ProcessTypes
  <1>2. DirectoryTypes'
    BY DEF EditionIInv, TypeOK, DirectoryTypes
  <1>3. ProcessTypes'
    <2>1. \A q \in Processes : Fits(q, pc[q])
      BY DEF EditionIInv, TypeOK, ProcessTypes
    <2>2. ASSUME NEW q \in Processes PROVE Fits(q, pc'[q])
      BY <1>1, <2>1
    <2>3. QED
      BY <1>1, <2>2 DEF ProcessTypes
  <1>4. Replacing'
    BY <1>1 DEF EditionIInv, Replacing, Publishers, Processes
  <1>5. QED
    BY <1>2, <1>3, <1>4 DEF EditionIInv, TypeOK

\* A publisher goes on, and replaces its own directory or backup.
LEMMA PublisherStep ==
  ASSUME EditionIInv, NEW p \in Publishers, NEW state \in {Idle} \union Publications(p),
         pc' = [pc EXCEPT ![p] = state], UNCHANGED <<source, archives, plan, groups, edits, crashes>>,
         DOMAIN dirs' = Editions, DOMAIN backups' = Editions,
         \A e \in Editions \ {Place(p)} : dirs'[e] = dirs[e] /\ backups'[e] = backups[e],
         {dirs'[Place(p)], backups'[Place(p)]} \subseteq Directories(Place(p)) \union {None},
         state.at = "rename" => ~Complete(dirs'[Place(p)]),
         state.at = "verify" => Complete(dirs'[Place(p)])
  PROVE  EditionIInv'
  <1>1. DOMAIN pc' = Processes /\ pc'[p] = state /\ \A q \in Processes \ {p} : pc'[q] = pc[q]
    BY ProcessMoves, PublisherIs DEF EditionIInv, TypeOK, ProcessTypes
  <1>2. DirectoryTypes'
    BY DEF EditionIInv, TypeOK, DirectoryTypes
  <1>3. ProcessTypes'
    <2>1. (\A q \in Processes : Fits(q, pc[q])) /\ Fits(p, state)
      BY DEF EditionIInv, TypeOK, ProcessTypes, Fits, Publishers
    <2>2. ASSUME NEW q \in Processes PROVE Fits(q, pc'[q])
      BY <1>1, <2>1
    <2>3. QED
      BY <1>1, <2>2 DEF ProcessTypes
  <1>4. SourceTypes'
    BY DEF EditionIInv, TypeOK, SourceTypes
  <1>5. Replacing'
    <2>1. ASSUME NEW q \in Publishers, q # p
          PROVE  pc'[q] = pc[q] /\ dirs'[Place(q)] = dirs[Place(q)]
      BY <1>1, <2>1, PublisherIs
    <2>2. dirs'[Place(p)] # None \/ state.at # "verify"
      BY DEF Complete
    <2>3. QED
      BY <1>1, <2>1, <2>2 DEF EditionIInv, Replacing
  <1>6. QED
    BY <1>2, <1>3, <1>4, <1>5 DEF EditionIInv, TypeOK

\* The steps of _publish_target and _publish.
LEMMA PublishStep ==
  ASSUME EditionIInv, NEW p \in Publishers,
         \/ Before(p) \/ BackupConflict(p) \/ BackUp(p) \/ FirstPublish(p)
         \/ TakePlace(p) \/ RollBack(p) \/ RemoveBackup(p)
  PROVE  EditionIInv'
  <1> DEFINE e == Place(p)
  <1>1. pc[p].at \in Publishing
    BY DEF Before, BackupConflict, BackUp, FirstPublish, TakePlace, RollBack, RemoveBackup, Publishing
  <1>2. /\ pc[p].edition = e /\ pc[p].new \in Content(e) /\ e \in Editions
        /\ \A at \in Publishing : [pc[p] EXCEPT !.at = at] \in Publications(p) /\ [pc[p] EXCEPT !.at = at].at = at
    BY <1>1, PublisherTyped, PublisherIs DEF EditionIInv, TypeOK
  <1>3. /\ DOMAIN dirs = Editions /\ DOMAIN backups = Editions
        /\ {dirs[e], backups[e]} \subseteq Directories(e) \union {None}
    BY <1>2 DEF EditionIInv, TypeOK, DirectoryTypes
  <1>4. Dir(pc[p].new) \in Directories(e) /\ Complete(Dir(pc[p].new))
    BY <1>2, NewComplete
  <1>5. ~Complete(None)
    BY DEF Complete
  <1>6. UNCHANGED <<source, archives, plan, groups, edits, crashes>>
    BY DEF Before, BackupConflict, BackUp, FirstPublish, TakePlace, RollBack, RemoveBackup
  <1> HIDE DEF e
  <1>7. CASE UNCHANGED <<dirs, backups>> /\ \E at \in {"backup"} : pc' = [pc EXCEPT ![p] = [pc[p] EXCEPT !.at = at]]
    BY <1>2, <1>3, <1>6, <1>7, PublisherStep DEF e, Publishing
  <1>8. CASE UNCHANGED <<dirs, backups>> /\ pc' = [pc EXCEPT ![p] = Idle]
    BY <1>2, <1>3, <1>6, <1>8, PublisherStep DEF e, Idle
  <1>9. CASE Before(p)
    BY <1>7, <1>8, <1>9 DEF Before, Goto, Return
  <1>10. CASE BackupConflict(p)
    BY <1>8, <1>10 DEF BackupConflict, Goto, Return
  <1>11. CASE BackUp(p)
    <2>1. /\ backups' = [backups EXCEPT ![e] = dirs[e]] /\ dirs' = [dirs EXCEPT ![e] = None]
          /\ pc' = [pc EXCEPT ![p] = [pc[p] EXCEPT !.at = "rename"]]
      BY <1>2, <1>11 DEF BackUp, Goto
    <2>2. dirs'[e] = None /\ backups'[e] = dirs[e] /\ \A d \in Editions \ {e} : dirs'[d] = dirs[d] /\ backups'[d] = backups[d]
      BY <1>2, <1>3, <2>1
    <2>3. QED
      BY <1>2, <1>3, <1>5, <1>6, <2>1, <2>2, PublisherStep DEF e, Publishing
  <1>12. CASE FirstPublish(p)
    <2>1. dirs' = [dirs EXCEPT ![e] = Dir(pc[p].new)] /\ backups' = backups /\ pc' = [pc EXCEPT ![p] = Idle]
      BY <1>2, <1>12 DEF FirstPublish, Goto, Return
    <2>2. dirs'[e] = Dir(pc[p].new) /\ \A d \in Editions \ {e} : dirs'[d] = dirs[d]
      BY <1>2, <1>3, <2>1
    <2>3. {dirs'[e], backups'[e]} \subseteq Directories(e) \union {None} /\ DOMAIN dirs' = Editions /\ DOMAIN backups' = Editions
      BY <1>3, <1>4, <2>1, <2>2
    <2>4. QED
      BY <1>6, <2>1, <2>2, <2>3, PublisherStep DEF e, Idle
  <1>13. CASE TakePlace(p)
    <2>1. /\ dirs' = [dirs EXCEPT ![e] = Dir(pc[p].new)] /\ backups' = backups
          /\ pc' = [pc EXCEPT ![p] = [pc[p] EXCEPT !.at = "verify"]]
      BY <1>2, <1>13 DEF TakePlace, Goto
    <2>2. dirs'[e] = Dir(pc[p].new) /\ \A d \in Editions \ {e} : dirs'[d] = dirs[d]
      BY <1>2, <1>3, <2>1
    <2>3. QED
      BY <1>2, <1>3, <1>4, <1>6, <2>1, <2>2, PublisherStep DEF e, Publishing
  <1>14. CASE RollBack(p)
    <2>1. dirs' = [dirs EXCEPT ![e] = backups[e]] /\ backups' = [backups EXCEPT ![e] = None] /\ pc' = [pc EXCEPT ![p] = Idle]
      BY <1>2, <1>14 DEF RollBack, Goto, Return
    <2>2. dirs'[e] = backups[e] /\ backups'[e] = None /\ \A d \in Editions \ {e} : dirs'[d] = dirs[d] /\ backups'[d] = backups[d]
      BY <1>2, <1>3, <2>1
    <2>3. {dirs'[e], backups'[e]} \subseteq Directories(e) \union {None} /\ DOMAIN dirs' = Editions /\ DOMAIN backups' = Editions
      BY <1>3, <2>1, <2>2
    <2>4. QED
      BY <1>6, <2>1, <2>2, <2>3, PublisherStep DEF e, Idle
  <1>15. CASE RemoveBackup(p)
    <2>1. dirs' = dirs /\ backups' = [backups EXCEPT ![e] = None] /\ pc' = [pc EXCEPT ![p] = Idle]
      BY <1>2, <1>15 DEF RemoveBackup, Goto, Return
    <2>2. backups'[e] = None /\ \A d \in Editions \ {e} : backups'[d] = backups[d]
      BY <1>2, <1>3, <2>1
    <2>3. QED
      BY <1>2, <1>3, <1>6, <2>1, <2>2, PublisherStep DEF e, Idle
  <1>16. QED
    BY <1>9, <1>10, <1>11, <1>12, <1>13, <1>14, <1>15

\* The batches of a target edition lie in its directory.
LEMMA RebuildStep ==
  ASSUME EditionIInv, RebuildContentBatch
  PROVE  EditionIInv' /\ \A e \in Editions : Complete(dirs[e]) => Complete(dirs'[e])
  <1> DEFINE d == [of |-> IF dirs["target"] = None THEN None ELSE dirs["target"].of, batches |-> TRUE]
  <1>1. /\ dirs' = [dirs EXCEPT !["target"] = d] /\ edits < MaxEdits /\ edits' = edits + 1
        /\ UNCHANGED <<source, archives, plan, groups, backups, pc, crashes>>
    BY DEF RebuildContentBatch
  <1>2. DOMAIN dirs = Editions /\ dirs["target"] \in Directories("target") \union {None}
    BY DEF EditionIInv, TypeOK, DirectoryTypes, Editions
  <1>3. d \in Directories("target") /\ (Complete(d) <=> Complete(dirs["target"])) /\ d # None
    <2>1. d \in Directories("target")
      BY <1>2 DEF Directories
    <2>2. d # None
      BY <2>1, EditionsAssumption
    <2>3. QED
      BY <2>1, <2>2 DEF Complete
  <1> HIDE DEF d
  <1>4. dirs'["target"] = d /\ dirs'["reflow"] = dirs["reflow"] /\ DOMAIN dirs' = Editions
    BY <1>1, <1>2 DEF Editions
  <1>5. DirectoryTypes'
    BY <1>1, <1>3, <1>4 DEF EditionIInv, TypeOK, DirectoryTypes, Editions
  <1>6. SourceTypes' /\ ProcessTypes'
    <2>1. edits' \in 0..MaxEdits
      BY <1>1, EditionsAssumption DEF EditionIInv, TypeOK, SourceTypes
    <2>2. QED
      BY <1>1, <2>1 DEF EditionIInv, TypeOK, SourceTypes, ProcessTypes
  <1>7. Replacing'
    BY <1>1, <1>3, <1>4 DEF EditionIInv, Replacing, Publishers, Place
  <1>8. QED
    BY <1>3, <1>4, <1>5, <1>6, <1>7 DEF EditionIInv, TypeOK, Editions

LEMMA EditionStep == EditionIInv /\ [Next]_vars => EditionIInv'
  <1> SUFFICES ASSUME EditionIInv, [Next]_vars PROVE EditionIInv'
    OBVIOUS
  <1>1. ASSUME UNCHANGED <<dirs, backups, pc>>, SourceTypes' PROVE EditionIInv'
    BY <1>1 DEF EditionIInv, TypeOK, DirectoryTypes, ProcessTypes, Replacing
  <1>2. SourceTypes
    BY DEF EditionIInv, TypeOK
  <1>3. ASSUME UNCHANGED <<source, archives, plan, groups, edits, crashes>> PROVE SourceTypes'
    BY <1>2, <1>3 DEF SourceTypes
  <1>4. ASSUME NEW c \in Chapters, NEW t \in Texts, WriteSource(c, t) PROVE EditionIInv'
    <2>1. source' \in Snapshots
      BY <1>2, <1>4 DEF WriteSource, SourceTypes, Snapshots
    <2>2. SourceTypes'
      BY <1>2, <1>4, <2>1, EditionsAssumption DEF WriteSource, SourceTypes
    <2>3. QED
      BY <1>1, <1>4, <2>2 DEF WriteSource
  <1>5. ASSUME NEW s \in DOMAIN archives, NEW o \in BOOLEAN, ApprovePlan(s, o) PROVE EditionIInv'
    <2>1. SourceTypes'
      BY <1>2, <1>5, EditionsAssumption DEF ApprovePlan, SourceTypes, Plans
    <2>2. QED
      BY <1>1, <1>5, <2>1 DEF ApprovePlan
  <1>6. ASSUME NEW g \in Groupings, GroupChapters(g) PROVE EditionIInv'
    <2>1. SourceTypes'
      BY <1>2, <1>6, EditionsAssumption DEF GroupChapters, SourceTypes
    <2>2. QED
      BY <1>1, <1>6, <2>1 DEF GroupChapters
  <1>7. CASE DecideGroups
    <2>1. SourceTypes'
      BY <1>2, <1>7 DEF DecideGroups, SourceTypes
    <2>2. QED
      BY <1>1, <1>7, <2>1 DEF DecideGroups
  <1>8. ASSUME BuildSnapshot \/ (\E c \in Chapters : ReadChapter(c)) \/ VerifySnapshot \/ ArchiveExists
               \/ (\E c \in Migrated : CopyChapter(c)) \/ PublishArchive
        PROVE EditionIInv'
    <2> DEFINE a == pc["archiver"]
    <2>1. a.at = "copy" => a.of \in Snapshots
      BY DEF EditionIInv, TypeOK, ProcessTypes, Processes, Fits, Idle
    <2>2. UNCHANGED <<source, plan, groups, dirs, backups, edits, crashes>> /\ DOMAIN archives' \subseteq Snapshots
      BY <1>2, <1>8, <2>1 DEF BuildSnapshot, ReadChapter, VerifySnapshot, ArchiveExists, CopyChapter, PublishArchive,
                              SourceTypes
    <2>3. SourceTypes'
      BY <1>2, <2>2 DEF SourceTypes
    <2> DEFINE To(state) == pc' = [pc EXCEPT !["archiver"] = state]
    <2>4. \/ To(Idle)
          \/ \E texts : To([at |-> "build", read |-> texts])
          \/ \E of \in Snapshots : \E texts : To([at |-> "copy", of |-> of, copied |-> texts])
      <3>1. CASE BuildSnapshot \/ \E c \in Chapters : ReadChapter(c)
        BY <3>1 DEF BuildSnapshot, ReadChapter, Goto
      <3>2. CASE VerifySnapshot
        BY <1>2, <3>2 DEF VerifySnapshot, Goto, Return, SourceTypes
      <3>3. CASE \E c \in Migrated : CopyChapter(c)
        BY <2>1, <3>3 DEF CopyChapter, Goto, Return
      <3>4. QED
        BY <1>8, <3>1, <3>2, <3>3 DEF ArchiveExists, PublishArchive, Goto, Return
    <2>5. ASSUME NEW state, To(state), state.at \notin {"rename", "verify"}, Fits("archiver", state) PROVE EditionIInv'
      BY <2>2, <2>3, <2>5, ProcessStep DEF Processes
    <2> HIDE DEF To
    <2>6. Fits("archiver", Idle) /\ Idle.at \notin {"rename", "verify"}
      BY DEF Fits, Idle
    <2>7. ASSUME NEW state, state.at = "build" \/ (state.at = "copy" /\ state.of \in Snapshots) PROVE Fits("archiver", state)
      BY <2>7 DEF Fits
    <2>8. ASSUME NEW texts, To([at |-> "build", read |-> texts]) PROVE EditionIInv'
      <3> DEFINE state == [at |-> "build", read |-> texts]
      <3>1. state.at = "build" /\ To(state)
        BY <2>8
      <3> HIDE DEF state
      <3>2. state.at \notin {"rename", "verify"}
        BY <3>1
      <3>3. Fits("archiver", state)
        BY <2>7, <3>1
      <3>4. QED
        BY <2>5, <3>1, <3>2, <3>3
    <2>9. ASSUME NEW of \in Snapshots, NEW texts, To([at |-> "copy", of |-> of, copied |-> texts]) PROVE EditionIInv'
      BY <2>5, <2>7, <2>9
    <2>10. QED
      BY <2>4, <2>5, <2>6, <2>8, <2>9
  <1>9. ASSUME NEW p \in Processes, NEW state, pc' = [pc EXCEPT ![p] = state], Fits(p, state),
               state.at \notin {"rename", "verify"},
               UNCHANGED <<source, archives, plan, groups, dirs, backups, edits, crashes>>
        PROVE  EditionIInv'
    BY <1>3, <1>9, ProcessStep
  <1>10. ASSUME NEW p \in Processes, pc' = [pc EXCEPT ![p] = Idle],
                UNCHANGED <<source, archives, plan, groups, dirs, backups, edits, crashes>>
         PROVE  EditionIInv'
    <2>1. Fits(p, Idle) /\ Idle.at \notin {"rename", "verify"}
      BY DEF Fits, Idle
    <2>2. QED
      BY <1>9, <1>10, <2>1
  <1>11. ASSUME CheckApproval PROVE EditionIInv'
    <2> DEFINE state == [at |-> "groups", plan |-> plan]
    <2>1. plan \in Plans
      BY <1>2, <1>11 DEF CheckApproval, SourceTypes
    <2>2. "materializer" \in Processes /\ Fits("materializer", state) /\ state.at \notin {"rename", "verify"}
      BY <2>1 DEF Processes, Fits
    <2>3. /\ pc' = [pc EXCEPT !["materializer"] = state]
          /\ UNCHANGED <<source, archives, plan, groups, dirs, backups, edits, crashes>>
      BY <1>11 DEF CheckApproval, Goto
    <2>4. QED
      BY <1>9, <2>2, <2>3
  <1>12. ASSUME Render PROVE EditionIInv'
    <2> DEFINE new == [plan |-> pc["materializer"].plan, groups |-> groups.current]
               state == [at |-> "publish", edition |-> "target", new |-> new]
    <2>1. "materializer" \in Processes /\ UNCHANGED <<source, archives, plan, groups, dirs, backups, edits, crashes>>
      BY <1>12 DEF Render, Processes
    <2>2. CASE pc' = [pc EXCEPT !["materializer"] = Idle]
      BY <1>10, <2>1, <2>2
    <2>3. CASE pc' = [pc EXCEPT !["materializer"] = state] /\ groups.current # None
      <3>1. Fits("materializer", pc["materializer"]) /\ pc["materializer"].at = "groups"
        BY <1>12, <2>1 DEF Render, EditionIInv, TypeOK, ProcessTypes
      <3>2. pc["materializer"].plan \in Plans
        BY <3>1 DEF Fits, Idle, Publications, Publishing
      <3>3. new \in Targets
        BY <1>2, <2>3, <3>2 DEF SourceTypes, Targets
      <3> HIDE DEF new
      <3>4. Fits("materializer", state) /\ state.at \notin {"rename", "verify"}
        BY <3>3 DEF Fits, Publications, Publishing, Place, Content
      <3>5. QED
        BY <1>9, <2>1, <2>3, <3>4
    <2>4. QED
      BY <1>12, <2>2, <2>3 DEF Render, Goto, Return
  <1>13. ASSUME dirs["target"] # None, dirs["target"].of # None PROVE dirs["target"].of \in Targets
    BY <1>13 DEF EditionIInv, TypeOK, DirectoryTypes, Directories, Content, Editions
  <1>14. ASSUME LoadEdition PROVE EditionIInv'
    <2> DEFINE state == [at |-> "read", source |-> dirs["target"].of]
    <2>1. dirs["target"].of \in Targets
      BY <1>13, <1>14 DEF LoadEdition
    <2>2. "reflow" \in Processes /\ Fits("reflow", state) /\ state.at \notin {"rename", "verify"}
      BY <2>1 DEF Processes, Fits
    <2>3. /\ pc' = [pc EXCEPT !["reflow"] = state]
          /\ UNCHANGED <<source, archives, plan, groups, dirs, backups, edits, crashes>>
      BY <1>14 DEF LoadEdition, Goto
    <2>4. QED
      BY <1>9, <2>2, <2>3
  <1>15. ASSUME MergeChapters PROVE EditionIInv'
    <2> DEFINE new == [source |-> pc["reflow"].source, text |-> dirs["target"].of]
               state == [at |-> "publish", edition |-> "reflow", new |-> new]
    <2>1. "reflow" \in Processes /\ UNCHANGED <<source, archives, plan, groups, dirs, backups, edits, crashes>>
      BY <1>15 DEF MergeChapters, Processes
    <2>2. CASE pc' = [pc EXCEPT !["reflow"] = Idle]
      BY <1>10, <2>1, <2>2
    <2>3. CASE pc' = [pc EXCEPT !["reflow"] = state] /\ dirs["target"] # None /\ dirs["target"].of # None
      <3>1. Fits("reflow", pc["reflow"]) /\ pc["reflow"].at = "read"
        BY <1>15, <2>1 DEF MergeChapters, EditionIInv, TypeOK, ProcessTypes
      <3>2. pc["reflow"].source \in Targets
        BY <3>1 DEF Fits, Idle, Publications, Publishing
      <3>3. new \in Reflows
        BY <1>13, <2>3, <3>2 DEF Reflows
      <3> HIDE DEF new
      <3>4. Fits("reflow", state) /\ state.at \notin {"rename", "verify"}
        BY <3>3 DEF Fits, Publications, Publishing, Place, Content
      <3>5. QED
        BY <1>9, <2>1, <2>3, <3>4
    <2>4. QED
      BY <1>15, <2>2, <2>3 DEF MergeChapters, Goto, Return
  <1>16. ASSUME NEW p \in Publishers,
                \/ Before(p) \/ BackupConflict(p) \/ BackUp(p) \/ FirstPublish(p)
                \/ TakePlace(p) \/ RollBack(p) \/ RemoveBackup(p)
         PROVE  EditionIInv'
    BY <1>16, PublishStep
  <1>17. CASE RebuildContentBatch
    BY <1>17, RebuildStep
  <1>18. ASSUME NEW p \in Processes, Crash(p) PROVE EditionIInv'
    <2>1. SourceTypes'
      BY <1>2, <1>18, EditionsAssumption DEF Crash, SourceTypes
    <2>2. Fits(p, Idle) /\ Idle.at \notin {"rename", "verify"}
      BY DEF Fits, Idle
    <2>3. QED
      BY <1>18, <2>1, <2>2, ProcessStep DEF Crash, Return, Goto
  <1>19. CASE UNCHANGED vars
    BY <1>1, <1>3, <1>19 DEF vars
  <1>20. QED
    BY <1>4, <1>5, <1>6, <1>7, <1>8, <1>11, <1>12, <1>14, <1>15, <1>16, <1>17, <1>18, <1>19 DEF Next

\* No step but TakePlace lets a publisher verify, and TakePlace only for its own edition.
LEMMA StaysUnverified ==
  ASSUME DOMAIN pc = Processes, NEW e, ~BeingVerified(e), NEW p \in Processes, NEW state,
         pc' = [pc EXCEPT ![p] = state], state.at = "verify" => state.edition # e
  PROVE  ~BeingVerified(e)'
  <1>1. pc'[p] = state /\ \A q \in Processes \ {p} : pc'[q] = pc[q]
    BY ProcessMoves
  <1>2. QED
    BY <1>1 DEF BeingVerified, Publishers, Processes

\* A step of a publisher leaves an edition where it survives: its own, or the other's.
LEMMA PublisherSurvives ==
  ASSUME EditionIInv, NEW p \in Publishers, NEW e \in Editions, Survives(e),
         \/ Before(p) \/ BackupConflict(p) \/ BackUp(p) \/ FirstPublish(p)
         \/ TakePlace(p) \/ RollBack(p) \/ RemoveBackup(p)
  PROVE  Survives(e)'
  <1>1. DOMAIN pc = Processes /\ DOMAIN dirs = Editions /\ DOMAIN backups = Editions
    BY DEF EditionIInv, TypeOK, ProcessTypes, DirectoryTypes
  <1>2. pc[p].at \in Publishing
    BY DEF Before, BackupConflict, BackUp, FirstPublish, TakePlace, RollBack, RemoveBackup, Publishing
  <1>3. /\ pc[p].edition = Place(p) /\ pc[p].new \in Content(Place(p)) /\ Place(p) \in Editions /\ p \in Processes
        /\ \A at \in Publishing : LET a == [pc[p] EXCEPT !.at = at] IN a.at = at /\ a.edition = Place(p)
    <2>1. \A at \in Publishing : LET a == [pc[p] EXCEPT !.at = at] IN a.at = at /\ a \in Publications(p)
      BY <1>2, PublisherTyped DEF EditionIInv, TypeOK
    <2>2. QED
      BY <1>2, <2>1, PublisherTyped, PublisherIs DEF EditionIInv, TypeOK, Publications
  <1>4. \/ pc' = [pc EXCEPT ![p] = Idle]
        \/ \E at \in Publishing : pc' = [pc EXCEPT ![p] = [pc[p] EXCEPT !.at = at]] /\ (at = "verify" => TakePlace(p))
    BY DEF Before, BackupConflict, BackUp, FirstPublish, TakePlace, RollBack, RemoveBackup, Goto, Return, Publishing
  <1>5. PICK state : /\ pc' = [pc EXCEPT ![p] = state]
                     /\ state.at = "verify" => TakePlace(p) /\ state.edition = Place(p)
    BY <1>3, <1>4 DEF Idle
  <1>6. CASE e # Place(p)
    <2>1. dirs'[e] = dirs[e] /\ backups'[e] = backups[e]
      BY <1>1, <1>3, <1>6 DEF Before, BackupConflict, BackUp, FirstPublish, TakePlace, RollBack, RemoveBackup
    <2>2. ~BeingVerified(e) => ~BeingVerified(e)'
      BY <1>1, <1>3, <1>5, <1>6, StaysUnverified
    <2>3. QED
      BY <2>1, <2>2 DEF Survives, Complete
  <1>7. CASE e = Place(p)
    <2>1. pc[p].at = "verify" => BeingVerified(e)
      BY <1>3, <1>7 DEF BeingVerified, Idle
    <2>2. ASSUME ~TakePlace(p) PROVE ~BeingVerified(e)'
      <3>1. pc'[p] = state /\ state.at # "verify" /\ \A q \in Publishers \ {p} : pc'[q] = pc[q]
        BY <1>1, <1>3, <1>5, <2>2, ProcessMoves, PublisherIs
      <3>2. \A q \in Publishers \ {p} : pc[q].at = "verify" => pc[q].edition # e
        <4>1. ASSUME NEW q \in Publishers \ {p}, pc[q].at = "verify" PROVE pc[q].edition = Place(q) /\ Place(q) # e
          <5>1. ProcessTypes /\ pc[q].at \in Publishing
            BY <4>1 DEF EditionIInv, TypeOK, Publishing
          <5>2. QED
            BY <1>7, <5>1, PublisherIs, PublisherTyped
        <4>2. QED
          BY <4>1
      <3>3. QED
        BY <3>1, <3>2 DEF BeingVerified
    <2>3. ASSUME ~TakePlace(p), Complete(backups'[e]) \/ Complete(dirs'[e]) PROVE Survives(e)'
      BY <2>2, <2>3 DEF Survives, Complete
    <2>4. Complete(backups[e]) \/ Complete(dirs[e])
      BY DEF Survives
    <2>5. CASE Before(p) \/ BackupConflict(p)
      <3>1. UNCHANGED <<dirs, backups>> /\ ~TakePlace(p)
        BY <2>5 DEF Before, BackupConflict, TakePlace
      <3>2. QED
        BY <2>3, <2>4, <3>1
    <2>6. CASE BackUp(p)
      <3>1. ~TakePlace(p) /\ backups[e] = None /\ backups'[e] = dirs[e]
        BY <1>1, <1>3, <1>7, <2>6 DEF BackUp, TakePlace
      <3>2. QED
        BY <2>3, <2>4, <3>1 DEF Complete
    <2>7. CASE FirstPublish(p)
      <3>1. ~TakePlace(p) /\ dirs[e] = None /\ UNCHANGED backups
        BY <1>3, <1>7, <2>7 DEF FirstPublish, TakePlace
      <3>2. QED
        BY <2>3, <2>4, <3>1 DEF Complete
    <2>8. CASE TakePlace(p)
      <3>1. dirs[e] = None /\ UNCHANGED backups
        BY <1>3, <1>7, <2>8 DEF TakePlace
      <3>2. QED
        BY <2>4, <3>1 DEF Survives, Complete
    <2>9. CASE RollBack(p)
      <3>1. Complete(backups[e])
        <4>1. pc[p].at = "rename" => ~Complete(dirs[e])
          BY <1>7 DEF EditionIInv, Replacing
        <4>2. pc[p].at \in {"rename", "verify"}
          BY <2>9 DEF RollBack
        <4>3. QED
          BY <2>1, <2>4, <4>1, <4>2 DEF Survives
      <3>2. ~TakePlace(p) /\ dirs'[e] = backups[e]
        <4>1. dirs'[e] = backups[e] /\ (pc[p].at = "verify" \/ dirs[e] # None)
          BY <1>1, <1>3, <1>7, <2>9 DEF RollBack
        <4>2. QED
          BY <1>3, <1>7, <4>1 DEF TakePlace
      <3>3. QED
        BY <2>3, <3>1, <3>2
    <2>10. CASE RemoveBackup(p)
      <3>1. pc[p].at = "verify" /\ UNCHANGED dirs /\ (p = "materializer" => Verifies(dirs[e]))
        BY <1>3, <1>7, <2>10 DEF RemoveBackup
      <3>2. Complete(dirs[e])
        BY <1>7, <3>1 DEF EditionIInv, Replacing, Verifies, Complete, Publishers
      <3>3. ~TakePlace(p)
        BY <3>1 DEF TakePlace
      <3>4. QED
        BY <2>3, <3>1, <3>2, <3>3
    <2>11. QED
      BY <2>5, <2>6, <2>7, <2>8, <2>9, <2>10
  <1>8. QED
    BY <1>6, <1>7

\* One step leaves an edition where it survives.
LEMMA SurvivesStep ==
  ASSUME EditionIInv, [Next]_vars, NEW e \in Editions, Survives(e)
  PROVE  Survives(e)'
  <1>1. DOMAIN pc = Processes /\ DOMAIN dirs = Editions /\ DOMAIN backups = Editions
    BY DEF EditionIInv, TypeOK, ProcessTypes, DirectoryTypes
  <1>2. ASSUME NEW p \in Processes, NEW state, pc' = [pc EXCEPT ![p] = state],
               state.at = "verify" => state.edition # e, UNCHANGED <<dirs, backups>>
        PROVE  Survives(e)'
    BY <1>1, <1>2, StaysUnverified DEF Survives, Complete
  <1>3. Idle.at # "verify"
    BY DEF Idle
  <1>4. ASSUME UNCHANGED <<dirs, backups, pc>> PROVE Survives(e)'
    BY <1>4 DEF Survives, Complete, BeingVerified
  <1>5. CASE RebuildContentBatch
    <2>1. UNCHANGED <<backups, pc>> /\ (Complete(dirs[e]) => Complete(dirs'[e]))
      BY <1>5, RebuildStep DEF RebuildContentBatch
    <2>2. QED
      BY <2>1 DEF Survives, BeingVerified, Complete
  <1>6. ASSUME NEW state, state.at # "verify", UNCHANGED <<dirs, backups>>,
               \/ pc' = [pc EXCEPT !["archiver"] = state]
               \/ pc' = [pc EXCEPT !["materializer"] = state]
               \/ pc' = [pc EXCEPT !["reflow"] = state]
        PROVE  Survives(e)'
    BY <1>2, <1>6 DEF Processes
  <1>7. ASSUME BuildSnapshot \/ (\E c \in Chapters : ReadChapter(c)) \/ VerifySnapshot \/ ArchiveExists
               \/ (\E c \in Migrated : CopyChapter(c)) \/ PublishArchive
               \/ CheckApproval \/ Render \/ LoadEdition \/ MergeChapters
        PROVE Survives(e)'
    BY <1>3, <1>6, <1>7 DEF BuildSnapshot, ReadChapter, VerifySnapshot, ArchiveExists, CopyChapter, PublishArchive,
                            CheckApproval, Render, LoadEdition, MergeChapters, Goto, Return
  <1>8. ASSUME NEW p \in Processes, Crash(p) PROVE Survives(e)'
    BY <1>2, <1>3, <1>8 DEF Crash, Return, Goto
  <1>9. ASSUME NEW p \in Publishers,
               \/ Before(p) \/ BackupConflict(p) \/ BackUp(p) \/ FirstPublish(p)
               \/ TakePlace(p) \/ RollBack(p) \/ RemoveBackup(p)
        PROVE Survives(e)'
    BY <1>9, PublisherSurvives
  <1>10. QED
    BY <1>4, <1>5, <1>7, <1>8, <1>9
       DEF Next, vars, WriteSource, ApprovePlan, GroupChapters, DecideGroups

LEMMA EditionInit == Init => EditionIInv
  BY EditionsAssumption DEF Init, EditionIInv, TypeOK, SourceTypes, DirectoryTypes, ProcessTypes, Fits, Replacing, Idle,
                            Editions, Processes, Publishers

\* The sources, the archives, the directories of the editions and what each process carries
\* keep their types.
THEOREM EditionsTyped == Spec => []TypeOK
  <1>1. Init => EditionIInv
    BY EditionInit
  <1>2. EditionIInv => TypeOK
    BY DEF EditionIInv
  <1>3. QED
    BY <1>1, <1>2, EditionStep, PTL DEF Spec

\* The last edition that was published is in place or in the backup after every step, a
\* crash between two renames and batches that were written beside it included.
THEOREM EditionsSurvive == Spec => EditionSurvives
  <1>1. Init => EditionIInv
    BY EditionInit
  <1>2. EditionIInv /\ [Next]_vars => [\A e \in Editions : Survives(e) => Survives(e)']_vars
    BY SurvivesStep
  <1>3. QED
    BY <1>1, <1>2, EditionStep, PTL DEF Spec, EditionSurvives

==============================================================================
