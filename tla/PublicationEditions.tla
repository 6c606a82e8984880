--------------------------- MODULE PublicationEditions ---------------------------
(***************************************************************************)
(* The directories a publication migration leaves: the archive of the      *)
(* source chapters (domains/publication_source_snapshot.py), the target    *)
(* edition rendered from it (domains/publication_target_materializer.py),  *)
(* its batches (domains/publication_migration_service.py), and an edition  *)
(* merged from the target edition                                          *)
(* (domains/publication_reflow_materializer.py).                           *)
(*                                                                         *)
(* The archive is built under a lock and published by a rename that        *)
(* replaces nothing.  An edition is published without a lock: the old      *)
(* directory is renamed to a backup, the new one takes its place, and the  *)
(* backup is removed.  A step is a rename, a removal or a read; a process  *)
(* may die between two.  A text stands for its hash.                       *)
(***************************************************************************)
EXTENDS Naturals, FiniteSets

CONSTANTS Frozen, Migrated,    \* the source chapters: kept, and moved to the new edition
          Texts,               \* what a chapter may contain
          Groupings,           \* how the paragraphs are grouped into target chapters
          MaxEdits,            \* bound on the changes of sources, plan and groups
          MaxCrashes,          \* bound on the failures
          None

Chapters == Frozen \union Migrated
Snapshots == [Chapters -> Texts]

\* What an edition is made of, and its directory: of whose manifest the files are, and
\* whether batches lie among them.
Plans == [snapshot : Snapshots, omits : BOOLEAN]
Targets == [plan : Plans, groups : Groupings]
Reflows == [source : Targets, text : Targets]
Content(e) == IF e = "target" THEN Targets ELSE Reflows
Directories(e) == [of : Content(e) \union {None}, batches : BOOLEAN]

ASSUME EditionsAssumption ==
    /\ MaxEdits \in Nat /\ MaxCrashes \in Nat
    /\ Frozen \cap Migrated = {}
    /\ None \notin Targets \union Reflows \union Directories("target") \union Directories("reflow")

VARIABLES source,       \* production/final_chapters
          archives,     \* the published archives, a function of the snapshot that names them
          plan,         \* the approved current plan: the snapshot it splits, what it omits
          groups,       \* the current groups and the candidates with a decision
          dirs,         \* the edition directories
          backups,      \* .<edition>-superseded
          pc,           \* what each process is at
          edits, crashes

vars == <<source, archives, plan, groups, dirs, backups, pc, edits, crashes>>

Editions == {"target", "reflow"}
Processes == {"archiver", "materializer", "reflow"}
Idle == [at |-> "idle"]

\* A directory that is just published.
Dir(m) == [of |-> m, batches |-> FALSE]
\* verify_materialized_target
Verifies(d) == d.of # None /\ ~d.batches

Init ==
    /\ source \in Snapshots
    /\ archives = [s \in {} |-> None]
    /\ plan = None
    /\ groups = [current |-> None, decided |-> {}]
    /\ dirs = [e \in Editions |-> None] /\ backups = [e \in Editions |-> None]
    /\ pc = [p \in Processes |-> Idle]
    /\ edits = 0 /\ crashes = 0

Goto(p, state) == pc' = [pc EXCEPT ![p] = state]
Return(p) == Goto(p, Idle)

------------------------------------------------------------------------------
(* The human beside the programs                                             *)

WriteSource(c, t) ==
    /\ edits < MaxEdits
    /\ source' = [source EXCEPT ![c] = t]
    /\ edits' = edits + 1
    /\ UNCHANGED <<archives, plan, groups, dirs, backups, pc, crashes>>

\* A plan for an archive is proposed and approved; it may omit a paragraph.
ApprovePlan(s, omits) ==
    /\ edits < MaxEdits
    /\ s \in DOMAIN archives
    /\ plan' = [snapshot |-> s, omits |-> omits]
    /\ edits' = edits + 1
    /\ UNCHANGED <<source, archives, groups, dirs, backups, pc, crashes>>

\* append, and append_revision on the current candidate
GroupChapters(g) ==
    /\ edits < MaxEdits
    /\ groups' = [groups EXCEPT !.current = g]
    /\ edits' = edits + 1
    /\ UNCHANGED <<source, archives, plan, dirs, backups, pc, crashes>>

\* append_decision
DecideGroups ==
    /\ groups.current # None
    /\ groups' = [groups EXCEPT !.decided = @ \union {groups.current}]
    /\ UNCHANGED <<source, archives, plan, dirs, backups, pc, edits, crashes>>

------------------------------------------------------------------------------
(* build_source_snapshot and copy_verified_source_archive                    *)

\* Chapter c is read as it is now, and added to those that were.
With(texts, c) == [x \in DOMAIN texts \union {c} |-> IF x = c THEN source[c] ELSE texts[x]]

\* The chapters are read one after the other, without a lock.
BuildSnapshot ==
    /\ pc["archiver"] = Idle
    /\ Goto("archiver", [at |-> "build", read |-> [c \in {} |-> None]])
    /\ UNCHANGED <<source, archives, plan, groups, dirs, backups, edits, crashes>>

ReadChapter(c) ==
    LET a == pc["archiver"] IN
    /\ a.at = "build" /\ c \notin DOMAIN a.read
    /\ Goto("archiver", [at |-> "build", read |-> With(a.read, c)])
    /\ UNCHANGED <<source, archives, plan, groups, dirs, backups, edits, crashes>>

\* verify_snapshot, chapter by chapter again.
VerifySnapshot ==
    LET a == pc["archiver"] IN
    /\ a.at = "build" /\ DOMAIN a.read = Chapters
    /\ IF source = a.read
       THEN Goto("archiver", [at |-> "copy", of |-> a.read, copied |-> [c \in {} |-> None]])
       ELSE Return("archiver")
    /\ UNCHANGED <<source, archives, plan, groups, dirs, backups, edits, crashes>>

\* An archive of this snapshot is there, and is answered with.
ArchiveExists ==
    LET a == pc["archiver"] IN
    /\ a.at = "copy" /\ a.of \in DOMAIN archives
    /\ Return("archiver")
    /\ UNCHANGED <<source, archives, plan, groups, dirs, backups, edits, crashes>>

\* Mutant: the copy is not compared with the snapshot.
CopyChapterUnchecked(c) ==
    LET a == pc["archiver"] IN
    /\ a.at = "copy" /\ c \notin DOMAIN a.copied
    /\ Goto("archiver", [at |-> "copy", of |-> a.of, copied |-> With(a.copied, c)])
    /\ UNCHANGED <<source, archives, plan, groups, dirs, backups, edits, crashes>>

\* A migrated chapter is copied into the temporary directory if it still is what the
\* snapshot says.
CopyChapter(c) ==
    LET a == pc["archiver"] IN
    /\ a.at = "copy" /\ a.of \notin DOMAIN archives
    /\ c \in Migrated \ DOMAIN a.copied
    /\ IF source[c] = a.of[c]
       THEN Goto("archiver", [at |-> "copy", of |-> a.of, copied |-> With(a.copied, c)])
       ELSE Return("archiver")
    /\ UNCHANGED <<source, archives, plan, groups, dirs, backups, edits, crashes>>

PublishArchive ==
    LET a == pc["archiver"] IN
    /\ a.at = "copy" /\ a.of \notin DOMAIN archives /\ Migrated \subseteq DOMAIN a.copied
    /\ archives' = [s \in DOMAIN archives \union {a.of} |-> IF s = a.of THEN a.copied ELSE archives[s]]
    /\ Return("archiver")
    /\ UNCHANGED <<source, plan, groups, dirs, backups, edits, crashes>>

\* load_verified_archive: the frozen chapters are as in the snapshot, the archive is whole.
Loadable(s) ==
    /\ s \in DOMAIN archives
    /\ \A c \in Frozen : source[c] = s[c]
    /\ \A c \in Migrated : archives[s][c] = s[c]

------------------------------------------------------------------------------
(* materialize_approved_target                                               *)

\* load_current_bundle and require_current_approval read the archive too.
CheckApproval ==
    /\ pc["materializer"] = Idle
    /\ plan # None /\ Loadable(plan.snapshot)
    /\ Goto("materializer", [at |-> "groups", plan |-> plan])
    /\ UNCHANGED <<source, archives, plan, groups, dirs, backups, edits, crashes>>

\* The current groups are taken, with or without a decision on them.  The groups follow
\* the units of the plan, so that they cover the archive only if the plan omits nothing.
Render ==
    LET a == pc["materializer"] IN
    /\ a.at = "groups"
    /\ IF groups.current # None /\ Loadable(a.plan.snapshot) /\ ~a.plan.omits
       THEN Goto("materializer", [at |-> "publish", edition |-> "target",
                                  new |-> [plan |-> a.plan, groups |-> groups.current]])
       ELSE Return("materializer")
    /\ UNCHANGED <<source, archives, plan, groups, dirs, backups, edits, crashes>>

------------------------------------------------------------------------------
(* materialize_publication_reflow                                            *)

\* The manifest of the target edition and the hashes of its files are read and compared.
LoadEdition ==
    /\ pc["reflow"] = Idle
    /\ dirs["target"] # None /\ dirs["target"].of # None
    /\ Goto("reflow", [at |-> "read", source |-> dirs["target"].of])
    /\ UNCHANGED <<source, archives, plan, groups, dirs, backups, edits, crashes>>

\* The files are read once more to be merged, and not compared again.
MergeChapters ==
    LET a == pc["reflow"] IN
    /\ a.at = "read"
    /\ IF dirs["target"] # None /\ dirs["target"].of # None
       THEN Goto("reflow", [at |-> "publish", edition |-> "reflow",
                            new |-> [source |-> a.source, text |-> dirs["target"].of]])
       ELSE Return("reflow")
    /\ UNCHANGED <<source, archives, plan, groups, dirs, backups, edits, crashes>>

------------------------------------------------------------------------------
(* _publish_target and _publish.  Only the first looks at what is there: it  *)
(* is done when the same edition is, and refuses one that does not verify.   *)

Publishers == {"materializer", "reflow"}

Before(p) ==
    LET a == pc[p] d == dirs[a.edition] IN
    /\ a.at = "publish"
    /\ CASE p = "materializer" /\ d # None /\ (~Verifies(d) \/ d.of = a.new) -> Return(p)
         [] p = "reflow" /\ backups[a.edition] # None -> Return(p)
         [] OTHER -> Goto(p, [a EXCEPT !.at = "backup"])
    /\ UNCHANGED <<source, archives, plan, groups, dirs, backups, edits, crashes>>

\* A backup that an earlier run left refuses every replacement.
BackupConflict(p) ==
    LET e == pc[p].edition IN
    /\ pc[p].at = "backup" /\ dirs[e] # None /\ backups[e] # None
    /\ Return(p)
    /\ UNCHANGED <<source, archives, plan, groups, dirs, backups, edits, crashes>>

BackUp(p) ==
    LET e == pc[p].edition IN
    /\ pc[p].at = "backup" /\ dirs[e] # None /\ backups[e] = None
    /\ backups' = [backups EXCEPT ![e] = dirs[e]]
    /\ dirs' = [dirs EXCEPT ![e] = None]
    /\ Goto(p, [pc[p] EXCEPT !.at = "rename"])
    /\ UNCHANGED <<source, archives, plan, groups, edits, crashes>>

FirstPublish(p) ==
    LET e == pc[p].edition IN
    /\ pc[p].at = "backup" /\ dirs[e] = None
    /\ dirs' = [dirs EXCEPT ![e] = Dir(pc[p].new)]
    /\ Return(p)
    /\ UNCHANGED <<source, archives, plan, groups, backups, edits, crashes>>

\* The name is free: the new edition takes it.
TakePlace(p) ==
    LET e == pc[p].edition IN
    /\ pc[p].at = "rename" /\ dirs[e] = None
    /\ dirs' = [dirs EXCEPT ![e] = Dir(pc[p].new)]
    /\ Goto(p, [pc[p] EXCEPT !.at = "verify"])
    /\ UNCHANGED <<source, archives, plan, groups, backups, edits, crashes>>

\* Mutant: the new edition is removed and the old one left in the backup.
RollBackKeeps(p) ==
    LET e == pc[p].edition IN
    /\ pc[p].at = "rename" /\ dirs[e] # None
    /\ dirs' = [dirs EXCEPT ![e] = None]
    /\ Return(p)
    /\ UNCHANGED <<source, archives, plan, groups, backups, edits, crashes>>
\* Batches lie there again, or the new edition does not verify: it is removed and the old
\* one put back.  Nothing but the reflow writes the directory of the reflow.
RollBack(p) ==
    LET e == pc[p].edition IN
    /\ p = "materializer"
    /\ \/ pc[p].at = "rename" /\ dirs[e] # None
       \/ pc[p].at = "verify" /\ ~Verifies(dirs[e])
    /\ dirs' = [dirs EXCEPT ![e] = backups[e]]
    /\ backups' = [backups EXCEPT ![e] = None]
    /\ Return(p)
    /\ UNCHANGED <<source, archives, plan, groups, edits, crashes>>

\* Mutant: the backup goes first.
RemoveBackupEarly(p) ==
    LET e == pc[p].edition IN
    /\ pc[p].at \in {"rename", "verify"}
    /\ backups' = [backups EXCEPT ![e] = None]
    /\ Return(p)
    /\ UNCHANGED <<source, archives, plan, groups, dirs, edits, crashes>>
RemoveBackup(p) ==
    LET e == pc[p].edition IN
    /\ pc[p].at = "verify"
    /\ p = "materializer" => Verifies(dirs[e])
    /\ backups' = [backups EXCEPT ![e] = None]
    /\ Return(p)
    /\ UNCHANGED <<source, archives, plan, groups, dirs, edits, crashes>>

\* rebuild_content_batch writes into the directory of the target edition.
RebuildContentBatch ==
    /\ edits < MaxEdits
    /\ dirs' = [dirs EXCEPT !["target"] = [of |-> IF @ = None THEN None ELSE @.of, batches |-> TRUE]]
    /\ edits' = edits + 1
    /\ UNCHANGED <<source, archives, plan, groups, backups, pc, crashes>>

\* Temporary directories are left behind and never looked at.
Crash(p) ==
    /\ pc[p] # Idle /\ crashes < MaxCrashes
    /\ Return(p)
    /\ crashes' = crashes + 1
    /\ UNCHANGED <<source, archives, plan, groups, dirs, backups, edits>>

Next ==
    \/ \E c \in Chapters, t \in Texts : WriteSource(c, t)
    \/ \E s \in DOMAIN archives, o \in BOOLEAN : ApprovePlan(s, o)
    \/ \E g \in Groupings : GroupChapters(g)
    \/ DecideGroups
    \/ BuildSnapshot
    \/ \E c \in Chapters : ReadChapter(c)
    \/ VerifySnapshot
    \/ ArchiveExists
    \/ \E c \in Migrated : CopyChapter(c)
    \/ PublishArchive
    \/ CheckApproval
    \/ Render
    \/ LoadEdition
    \/ MergeChapters
    \/ \E p \in Publishers :
          \/ Before(p)
          \/ BackupConflict(p)
          \/ BackUp(p)
          \/ FirstPublish(p)
          \/ TakePlace(p)
          \/ RollBack(p)
          \/ RemoveBackup(p)
    \/ RebuildContentBatch
    \/ \E p \in Processes : Crash(p)

Spec == Init /\ [][Next]_vars

------------------------------------------------------------------------------
(* Properties                                                                *)

\* What a publisher carries through its steps.
Publishing == {"publish", "backup", "rename", "verify"}
Place(p) == IF p = "materializer" THEN "target" ELSE "reflow"
Publications(p) == [at : Publishing, edition : {Place(p)}, new : Content(Place(p))]

SourceTypes ==
    /\ source \in Snapshots
    /\ DOMAIN archives \subseteq Snapshots
    /\ plan \in Plans \union {None}
    /\ groups \in [current : Groupings \union {None}, decided : SUBSET Groupings]
    /\ edits \in 0..MaxEdits /\ crashes \in 0..MaxCrashes

DirectoryTypes ==
    /\ DOMAIN dirs = Editions /\ DOMAIN backups = Editions
    /\ \A e \in Editions : {dirs[e], backups[e]} \subseteq Directories(e) \union {None}

\* What process p may be at.
Fits(p, state) ==
    \/ state = Idle
    \/ p = "archiver" /\ (state.at = "build" \/ (state.at = "copy" /\ state.of \in Snapshots))
    \/ p = "materializer" /\ state \in Publications(p) \union [at : {"groups"}, plan : Plans]
    \/ p = "reflow" /\ state \in Publications(p) \union [at : {"read"}, source : Targets]

ProcessTypes == DOMAIN pc = Processes /\ \A p \in Processes : Fits(p, pc[p])

TypeOK == SourceTypes /\ DirectoryTypes /\ ProcessTypes

\* An archive holds what its snapshot says, whatever was written to the sources while it
\* was built; and it is never changed once it is published.
ArchiveFaithful == \A s \in DOMAIN archives : \A c \in Migrated : archives[s][c] = s[c]

\* The last edition that was published survives its replacement: whatever process dies
\* between the renames, and whatever batches are written beside it, it is in place or in
\* the backup until the next one has been published.
Complete(d) == d # None /\ d.of # None
BeingVerified(e) == \E p \in Publishers : pc[p] # Idle /\ pc[p].at = "verify" /\ pc[p].edition = e
Survives(e) == Complete(backups[e]) \/ (Complete(dirs[e]) /\ ~BeingVerified(e))
EditionSurvives == [][\A e \in Editions : Survives(e) => Survives(e)']_vars

\* Only a crash leaves a backup, or an edition that is neither in place nor being replaced.
BackupsAreOfCrashes ==
    crashes = 0 =>
        \A e \in Editions : backups[e] # None =>
            \E p \in Publishers : pc[p] # Idle /\ pc[p].at \in {"rename", "verify"} /\ pc[p].edition = e

\* Without an approval of the groups no target text is generated
\* (docs/superpowers/specs/2026-08-28-publication-chapter-split-migration-design.md 5.2).
OnlyApprovedGroups == Complete(dirs["target"]) => dirs["target"].of.groups \in groups.decided

==============================================================================
