----------------------- MODULE ProjectionRefresh_proofs -----------------------
(***************************************************************************)
(* Proofs about the refresh of the projections.                            *)
(*                                                                         *)
(* Two arguments.  A bundle is a moment because the versions of a source   *)
(* only grow: what the readings of a build found of one source ascends, so *)
(* two equal readings of its head enclose equal facts, unless the facts of *)
(* a source that is appended to did not verify.  And the journal tells the *)
(* truth about refreshes that do not overlap, because the only active one  *)
(* is then the only writer of both temporary files, and what the           *)
(* coordinator holds is the journal on disk with its row.                  *)
(***************************************************************************)
EXTENDS ProjectionRefresh, SequenceTheorems, TLAPS

(***************************************************************************)
(* The inductive invariant                                                 *)
(***************************************************************************)

\* A refresh that saves has a row to save.
Typed == RefreshTypeOK /\ \A r \in Refreshes : pc[r] \in SaveSteps => row[r] # None

\* What a build has read, and of which source.
Read(r) == Len(seen[r])
At(n, s) == n * SourceCount + s

\* Only the facts of a source that is appended to may not verify.  The other readings of
\* one source ascend, up to its version now.
Fits(readings, n, s) ==
    /\ readings[At(n, s)] = Unverified => n = 1 /\ s \in Journalled
    /\ readings[At(n, s)] # Unverified =>
          /\ readings[At(n, s)] <= source[s]
          /\ \A m \in 0..n : readings[At(m, s)] # Unverified => readings[At(m, s)] <= readings[At(n, s)]

ReadingsAscend ==
    /\ seen \in [Refreshes -> Seq(Readings)]
    /\ \A r \in Refreshes :
        /\ Read(r) <= 3 * SourceCount
        /\ \A n \in 0..2, s \in Sources : At(n, s) <= Read(r) => Fits(seen[r], n, s)

\* A build that goes on to publish has read everything, and the heads twice the same.
BuildsAgree ==
    \A r \in Refreshes : pc[r] \in PublishSteps => Read(r) = 3 * SourceCount /\ ~Drifted(r)

\* The bundle file, its temporary file and what was published hold moments only.
MomentsOnly ==
    /\ \A file \in {final["bundle"], temp["bundle"]} : file.data \in Bundles => IsMoment(file.data.snapshot)
    /\ SnapshotIsAMoment

\* A query compares the bundle with heads that are no older than the query.
QueryHonest ==
    /\ query = [at |-> query.at, snapshot |-> query.snapshot, heads |-> query.heads, since |-> query.since]
    /\ query.at = "heads" =>
          /\ query.snapshot \in Snapshots /\ IsMoment(query.snapshot)
          /\ query.since \in Vectors
          /\ \A s \in Sources : query.since[s] <= source[s]
          /\ query.heads \in Seq(Nat) /\ Len(query.heads) < SourceCount
          /\ \A s \in Sources : s <= Len(query.heads) => query.heads[s] >= query.since[s]
    /\ FreshIsCurrent

IInv == Typed /\ ReadingsAscend /\ BuildsAgree /\ MomentsOnly /\ QueryHonest

(***************************************************************************)
(* Lemmas: the files, the readings                                         *)
(***************************************************************************)

\* Putting one file state into the files.
LEMMA PutFile ==
    ASSUME NEW file, FilesOK(file), NEW f \in Files,
           NEW v \in FileStates(f), v.data = None => v = NoFile
    PROVE  /\ FilesOK([file EXCEPT ![f] = v])
           /\ [file EXCEPT ![f] = v][f] = v
           /\ \A g \in Files \ {f} : [file EXCEPT ![f] = v][g] = file[g]
BY DEF FilesOK

\* What a refresh leaves in a file that it had open: its text, or a torn one.
LEMMA WrittenFile ==
    ASSUME NEW f \in Files, NEW file \in FileStates(f), NEW r \in Refreshes,
           NEW data \in Contents(f), NEW new \in Written(file, r, data)
    PROVE  /\ new \in FileStates(f)
           /\ new.data \in {data, Torn} /\ new.data # None
           /\ file.data = Cut => new.data = data
BY ValueAssumption DEF Written, FileStates, Broken, Contents

\* Opening, writing and renaming keep the files typed.
LEMMA OpenTyped ==
    ASSUME RefreshTypeOK, NEW r \in Refreshes, NEW f \in Files, OpenTemp(r, f)
    PROVE  FilesOK(temp') /\ temp'[f] = [open |-> temp[f].open \union {r}, data |-> Cut]
           /\ \A g \in Files \ {f} : temp'[g] = temp[g]
<1> DEFINE new == [open |-> temp[f].open \union {r}, data |-> Cut]
<1>1. FilesOK(temp) /\ temp[f] \in FileStates(f)
  BY DEF RefreshTypeOK, FilesOK
<1>2. new \in FileStates(f)
  BY <1>1 DEF FileStates, Broken
<1>3. new.data # None
  BY ValueAssumption DEF Broken
<1>4. temp' = [temp EXCEPT ![f] = new]
  BY <1>1 DEF OpenTemp, FilesOK
<1> HIDE DEF new
<1>5. /\ FilesOK([temp EXCEPT ![f] = new])
      /\ [temp EXCEPT ![f] = new][f] = new
      /\ \A g \in Files \ {f} : [temp EXCEPT ![f] = new][g] = temp[g]
  BY <1>1, <1>2, <1>3, PutFile
<1> QED
  BY <1>4, <1>5 DEF new

LEMMA WriteOne ==
    ASSUME NEW file, FilesOK(file), NEW r \in Refreshes, NEW f \in Files, NEW data \in Contents(f), NEW new,
           IF r \in file[f].open
           THEN \E v \in Written(file[f], r, data) : new = [file EXCEPT ![f] = v]
           ELSE new = file
    PROVE  /\ FilesOK(new)
           /\ \A g \in Files \ {f} : new[g] = file[g]
           /\ new[f] = file[f] \/ new[f].data \in {data, Torn}
           /\ r \in file[f].open => new[f] \in Written(file[f], r, data)
<1>1. file[f] \in FileStates(f)
  BY DEF FilesOK
<1>2. CASE r \in file[f].open
  <2>1. PICK v \in Written(file[f], r, data) : new = [file EXCEPT ![f] = v]
    BY <1>2
  <2>2. v \in FileStates(f) /\ v.data # None /\ v.data \in {data, Torn}
    BY <1>1, WrittenFile
  <2>3. /\ FilesOK([file EXCEPT ![f] = v])
        /\ [file EXCEPT ![f] = v][f] = v
        /\ \A g \in Files \ {f} : [file EXCEPT ![f] = v][g] = file[g]
    BY <2>2, PutFile
  <2> QED
    BY <2>1, <2>2, <2>3
<1> QED
  BY <1>2

LEMMA ReplaceTyped ==
    ASSUME RefreshTypeOK, NEW f \in Files, ReplaceByTemp(f)
    PROVE  /\ FilesOK(temp') /\ FilesOK(final')
           /\ temp'[f] = NoFile /\ final'[f] = temp[f]
           /\ \A g \in Files \ {f} : temp'[g] = temp[g] /\ final'[g] = final[g]
<1>1. FilesOK(temp) /\ FilesOK(final) /\ temp[f] \in FileStates(f)
  BY DEF RefreshTypeOK, FilesOK
<1>2. NoFile \in FileStates(f)
  BY DEF NoFile, FileStates
<1>3. temp[f].data = None => temp[f] = NoFile
  BY <1>1 DEF FilesOK
<1>4. temp' = [temp EXCEPT ![f] = NoFile] /\ final' = [final EXCEPT ![f] = temp[f]]
  BY DEF ReplaceByTemp
<1>5. FilesOK([temp EXCEPT ![f] = NoFile]) /\ [temp EXCEPT ![f] = NoFile][f] = NoFile
      /\ \A g \in Files \ {f} : [temp EXCEPT ![f] = NoFile][g] = temp[g]
  BY <1>1, <1>2, PutFile
<1>6. FilesOK([final EXCEPT ![f] = temp[f]]) /\ [final EXCEPT ![f] = temp[f]][f] = temp[f]
      /\ \A g \in Files \ {f} : [final EXCEPT ![f] = temp[f]][g] = final[g]
  BY <1>1, <1>3, PutFile
<1> QED
  BY <1>4, <1>5, <1>6

\* Where the readings of one source are, and which source a reading is of.
LEMMA ReadingPlaces ==
    ASSUME NEW s \in Sources, NEW n \in 0..2
    PROVE  At(n, s) \in 1..(3 * SourceCount) /\ ((At(n, s) - 1) % SourceCount) + 1 = s
<1>1. SourceCount \in Nat \ {0} /\ s \in Nat /\ 1 <= s /\ s <= SourceCount
  BY RefreshAssumption DEF Sources
<1>2. CASE n = 0
  <2>1. (s - 1) % SourceCount = s - 1
    BY <1>1
  <2> QED
    BY <1>1, <1>2, <2>1 DEF At
<1>3. CASE n = 1
  <2>1. (SourceCount + (s - 1)) % SourceCount = s - 1
    BY <1>1
  <2>2. At(n, s) - 1 = SourceCount + (s - 1)
    BY <1>1, <1>3 DEF At
  <2>3. At(n, s) \in 1..(3 * SourceCount)
    BY <1>1, <1>3 DEF At
  <2> QED
    BY <1>1, <2>1, <2>2, <2>3
<1>4. CASE n = 2
  <2>1. (2 * SourceCount + (s - 1)) % SourceCount = s - 1
    BY <1>1
  <2>2. At(n, s) - 1 = 2 * SourceCount + (s - 1)
    BY <1>1, <1>4 DEF At
  <2>3. At(n, s) \in 1..(3 * SourceCount)
    BY <1>1, <1>4 DEF At
  <2> QED
    BY <1>1, <2>1, <2>2, <2>3
<1> QED
  BY <1>2, <1>3, <1>4

\* Of one source, an earlier reading comes first.
LEMMA ReadingOrder ==
    ASSUME NEW s \in Sources, NEW n \in 0..2, NEW m \in 0..n, m # n
    PROVE  At(m, s) < At(n, s)
<1>1. SourceCount \in Nat \ {0} /\ s \in Nat
  BY RefreshAssumption DEF Sources
<1>2. (m = 0 /\ n = 1) \/ (m = 0 /\ n = 2) \/ (m = 1 /\ n = 2)
  OBVIOUS
<1> QED
  BY <1>1, <1>2 DEF At

LEMMA ReadingTyped ==
    ASSUME ReadingsAscend, NEW r \in Refreshes, Read(r) = 3 * SourceCount,
           NEW n \in 0..2, NEW s \in Sources
    PROVE  seen[r][At(n, s)] \in Readings /\ Fits(seen[r], n, s)
<1>1. At(n, s) \in 1..Len(seen[r]) /\ At(n, s) \in 1..Read(r)
  BY ReadingPlaces DEF Read
<1>2. seen[r] \in Seq(Readings)
  BY DEF ReadingsAscend
<1>3. seen[r][At(n, s)] \in Readings
  BY <1>1, <1>2, ElementOfSeq
<1>4. SourceCount \in Nat
  BY RefreshAssumption
<1> HIDE DEF Read
<1>5. At(n, s) \in 1..(3 * SourceCount)
  BY ReadingPlaces
<1>6. At(n, s) <= Read(r)
  BY <1>4, <1>5
<1> QED
  BY <1>3, <1>6 DEF ReadingsAscend

\* The heads that a build has read are versions.
LEMMA HeadTyped ==
    ASSUME ReadingsAscend, NEW r \in Refreshes, Read(r) = 3 * SourceCount,
           NEW n \in {0, 2}, NEW s \in Sources
    PROVE  seen[r][At(n, s)] \in 0..MaxWrites /\ seen[r][At(n, s)] # Unverified
<1>1. n \in 0..2 /\ n # 1
  OBVIOUS
<1>2. seen[r][At(n, s)] \in Readings /\ Fits(seen[r], n, s)
  BY <1>1, ReadingTyped
<1> QED
  BY <1>1, <1>2 DEF Fits, Readings

\* A build that has read everything has a snapshot.
LEMMA BuiltTyped ==
    ASSUME ReadingsAscend, NEW r \in Refreshes, Read(r) = 3 * SourceCount
    PROVE  Built(r) \in Snapshots
<1>1. Pass(r, 2) \in Vectors
  <2>1. \A s \in Sources : seen[r][At(2, s)] \in 0..MaxWrites
    BY HeadTyped
  <2> QED
    BY <2>1 DEF Pass, At, Vectors
<1>2. Pass(r, 1) \in [Sources -> Readings]
  <2>1. \A s \in Sources : seen[r][At(1, s)] \in Readings
    BY ReadingTyped
  <2> QED
    BY <2>1 DEF Pass, At
<1> QED
  BY <1>1, <1>2 DEF Built, Snapshots

\* Two equal outer readings enclose an equal one, or one that does not verify.
LEMMA BuiltIsMoment ==
    ASSUME ReadingsAscend, NEW r \in Refreshes, Read(r) = 3 * SourceCount, ~Drifted(r)
    PROVE  IsMoment(Built(r))
<1>1. ASSUME NEW s \in Sources
      PROVE  \/ Pass(r, 1)[s] = Pass(r, 2)[s]
             \/ s \in Journalled /\ Pass(r, 1)[s] = Unverified
  <2>1. \A n \in 0..2 : Pass(r, n)[s] = seen[r][At(n, s)]
    BY DEF Pass, At
  <2>2. Fits(seen[r], 1, s) /\ Fits(seen[r], 2, s) /\ seen[r][At(1, s)] \in Readings
    BY ReadingTyped
  <2>3. /\ seen[r][At(0, s)] \in 0..MaxWrites /\ seen[r][At(0, s)] # Unverified
        /\ seen[r][At(2, s)] \in 0..MaxWrites /\ seen[r][At(2, s)] # Unverified
    BY HeadTyped
  <2>4. seen[r][At(0, s)] = seen[r][At(2, s)]
    BY <2>1 DEF Drifted
  <2>5. CASE seen[r][At(1, s)] = Unverified
    BY <2>1, <2>2, <2>5 DEF Fits
  <2>6. CASE seen[r][At(1, s)] # Unverified
    <3>1. seen[r][At(1, s)] \in 0..MaxWrites
      BY <2>2, <2>6 DEF Readings
    <3>2. seen[r][At(0, s)] <= seen[r][At(1, s)] /\ seen[r][At(1, s)] <= seen[r][At(2, s)]
      BY <2>2, <2>3, <2>6 DEF Fits
    <3> QED
      BY <2>1, <2>3, <2>4, <3>1, <3>2, RefreshAssumption
  <2> QED
    BY <2>5, <2>6
<1> QED
  BY <1>1 DEF Built, IsMoment

(***************************************************************************)
(* Types                                                                   *)
(***************************************************************************)

\* Where the refreshes are and the rows they save.
PlacesTyped ==
    /\ pc \in [Refreshes -> {"new", "build"} \union SaveSteps \union PublishSteps \union Ended]
    /\ row \in [Refreshes -> Rows \union {None}]
    /\ \A r \in Refreshes : pc[r] \in SaveSteps => row[r] # None

LEMMA RecordTyped ==
    ASSUME PlacesTyped, NEW r \in Refreshes, NEW status, NEW snapshot,
           [status |-> status, snapshot |-> snapshot] \in Rows, Record(r, status, snapshot)
    PROVE  PlacesTyped'
<1>1. pc' \in [Refreshes -> {"new", "build"} \union SaveSteps \union PublishSteps \union Ended]
  BY DEF PlacesTyped, Record, Goto, SaveSteps, Ended
<1>2. row' \in [Refreshes -> Rows \union {None}] /\ row'[r] # None
      /\ \A q \in Refreshes \ {r} : row'[q] = row[q] /\ pc'[q] = pc[q]
  BY ValueAssumption DEF PlacesTyped, Record, Goto
<1> QED
  BY <1>1, <1>2 DEF PlacesTyped

LEMMA FailedRow == [status |-> "failed", snapshot |-> None] \in Rows /\ [status |-> "requested", snapshot |-> None] \in Rows
BY DEF Rows

LEMMA PlacesStep ==
    ASSUME IInv, [Next]_vars
    PROVE  PlacesTyped'
<1> DEFINE Steps == {"new", "build"} \union SaveSteps \union PublishSteps \union Ended
<1>1. PlacesTyped
  BY DEF IInv, Typed, RefreshTypeOK, PlacesTyped
<1>2. ASSUME NEW r \in Refreshes, Request(r)
      PROVE  PlacesTyped'
  <2>1. pc' = [pc EXCEPT ![r] = "lock"] /\ row' = [row EXCEPT ![r] = [status |-> "requested", snapshot |-> None]]
    BY <1>2 DEF Request, Goto
  <2> QED
    BY <1>1, <2>1, FailedRow, ValueAssumption DEF PlacesTyped, SaveSteps
<1>3. ASSUME NEW r \in Refreshes,
             \/ Retry(r) \/ LockJournal(r) \/ OpenJournal(r) \/ WriteJournal(r) \/ ReplaceJournal(r)
             \/ FinishBuild(r) \/ OpenBundle(r) \/ WriteBundle(r)
      PROVE  PlacesTyped'
  <2>1. /\ row' = row
        /\ \E step \in Steps : pc' = [pc EXCEPT ![r] = step] /\ (step \in SaveSteps => pc[r] \in SaveSteps)
    BY <1>3 DEF Retry, LockJournal, OpenJournal, WriteJournal, ReplaceJournal, FinishBuild, OpenBundle,
                WriteBundle, Goto, SaveSteps, PublishSteps, Ended
  <2> QED
    BY <1>1, <2>1 DEF PlacesTyped
<1>4. ASSUME NEW r \in Refreshes, UnlockJournal(r)
      PROVE  PlacesTyped'
  <2>1. row[r] \in Rows
    BY <1>1, <1>4 DEF PlacesTyped, UnlockJournal, SaveSteps
  <2>2. AfterSave(r) \in {"build", "failed", "succeeded"}
    BY <2>1 DEF AfterSave, Rows
  <2>3. row' = row /\ pc' = [pc EXCEPT ![r] = AfterSave(r)]
    BY <1>4 DEF UnlockJournal, Goto
  <2> QED
    BY <1>1, <2>2, <2>3 DEF PlacesTyped, SaveSteps, Ended
<1>5. ASSUME NEW r \in Refreshes, BuildAgain(r)
      PROVE  PlacesTyped'
  <2>1. CASE Record(r, "failed", None)
    BY <1>1, <2>1, FailedRow, RecordTyped
  <2>2. CASE UNCHANGED <<pc, row>>
    BY <1>1, <2>2 DEF PlacesTyped
  <2> QED
    BY <1>5, <2>1, <2>2 DEF BuildAgain
<1>6. ASSUME NEW r \in Refreshes, ReplaceBundle(r)
      PROVE  PlacesTyped'
  <2>1. CASE Record(r, "failed", None)
    BY <1>1, <2>1, FailedRow, RecordTyped
  <2>2. CASE Goto(r, "read_bundle") /\ UNCHANGED row
    BY <1>1, <2>2 DEF PlacesTyped, Goto, SaveSteps, PublishSteps
  <2> QED
    BY <1>6, <2>1, <2>2 DEF ReplaceBundle
<1>7. ASSUME NEW r \in Refreshes, ReadBundle(r)
      PROVE  PlacesTyped'
  <2>1. CASE Record(r, "failed", None)
    BY <1>1, <2>1, FailedRow, RecordTyped
  <2>2. CASE Record(r, "succeeded", Built(r))
    <3>1. Built(r) \in Snapshots
      BY <1>7, BuiltTyped DEF IInv, BuildsAgree, ReadBundle, PublishSteps
    <3>2. [status |-> "succeeded", snapshot |-> Built(r)] \in Rows
      BY <3>1 DEF Rows
    <3> QED
      BY <1>1, <2>2, <3>2, RecordTyped
  <2> QED
    BY <1>7, <2>1, <2>2 DEF ReadBundle
<1>8. CASE Restart
  <2>1. row' = row /\ pc' = [r \in Refreshes |-> IF pc[r] \in {"new", "succeeded"} THEN pc[r]
                                               ELSE IF JournalRows[r] = None THEN "forgotten" ELSE "dead"]
    BY <1>8 DEF Restart
  <2> QED
    BY <1>1, <2>1 DEF PlacesTyped, SaveSteps, Ended
<1>9. CASE UNCHANGED <<pc, row>>
  BY <1>1, <1>9 DEF PlacesTyped
<1>10. ASSUME \/ \E r \in Refreshes : ReadSource(r)
              \/ ReadProjection \/ ReadHead \/ Answer \/ Domain
              \/ UNCHANGED vars
       PROVE  UNCHANGED <<pc, row>>
  BY <1>10 DEF ReadSource, ReadProjection, ReadHead, Answer, Domain, ChangeSource, BeginAppend, EndAppend, refreshVars, vars
<1> QED
  BY <1>2, <1>3, <1>4, <1>5, <1>6, <1>7, <1>8, <1>9, <1>10 DEF Next, Refresh

\* The files.
LEMMA FilesStep ==
    ASSUME IInv, [Next]_vars
    PROVE  FilesOK(final)' /\ FilesOK(temp)'
<1>1. RefreshTypeOK /\ FilesOK(final) /\ FilesOK(temp)
  BY DEF IInv, Typed, RefreshTypeOK
<1>2. "bundle" \in Files /\ "journal" \in Files
  BY DEF Files
<1>3. ASSUME NEW r \in Refreshes, OpenJournal(r) \/ OpenBundle(r)
      PROVE  FilesOK(final)' /\ FilesOK(temp)'
  <2>1. PICK f \in Files : OpenTemp(r, f) /\ final' = final
    BY <1>2, <1>3 DEF OpenJournal, OpenBundle
  <2> QED
    BY <1>1, <2>1, OpenTyped
<1>4. ASSUME NEW r \in Refreshes, NEW f \in Files, NEW data \in Contents(f), WriteTemp(r, f, data)
      PROVE  FilesOK(final)' /\ FilesOK(temp)'
  <2>1. FilesOK(temp')
    BY <1>1, <1>4, WriteOne DEF WriteTemp
  <2>2. FilesOK(final')
    BY <1>1, <1>4, WriteOne DEF WriteTemp
  <2> QED
    BY <2>1, <2>2
<1>5. ASSUME NEW r \in Refreshes, WriteJournal(r)
      PROVE  FilesOK(final)' /\ FilesOK(temp)'
  <2>1. states \in Contents("journal")
    BY <1>1 DEF RefreshTypeOK, Contents
  <2> QED
    BY <1>2, <1>4, <1>5, <2>1 DEF WriteJournal
<1>6. ASSUME NEW r \in Refreshes, WriteBundle(r)
      PROVE  FilesOK(final)' /\ FilesOK(temp)'
  <2>1. Built(r) \in Snapshots
    BY <1>6, BuiltTyped DEF IInv, BuildsAgree, WriteBundle, PublishSteps
  <2>2. [refresh |-> r, snapshot |-> Built(r)] \in Contents("bundle")
    BY <2>1 DEF Contents, Bundles
  <2> QED
    BY <1>2, <1>4, <1>6, <2>2 DEF WriteBundle
<1>7. ASSUME NEW r \in Refreshes, ReplaceJournal(r) \/ ReplaceBundle(r)
      PROVE  FilesOK(final)' /\ FilesOK(temp)'
  <2>1. CASE \E f \in Files : ReplaceByTemp(f)
    BY <1>1, <2>1, ReplaceTyped
  <2>2. CASE UNCHANGED <<final, temp>>
    BY <1>1, <2>2
  <2> QED
    BY <1>2, <1>7, <2>1, <2>2 DEF ReplaceJournal, ReplaceBundle
<1>8. CASE Restart
  <2>1. ASSUME NEW file, FilesOK(file)
        PROVE  FilesOK([f \in Files |-> [file[f] EXCEPT !.open = {}]])
    BY <2>1 DEF FilesOK, FileStates, NoFile
  <2> QED
    BY <1>1, <1>8, <2>1 DEF Restart
<1>9. ASSUME \/ \E r \in Refreshes : \/ Request(r) \/ Retry(r) \/ LockJournal(r) \/ UnlockJournal(r)
                                    \/ ReadSource(r) \/ FinishBuild(r) \/ BuildAgain(r) \/ ReadBundle(r)
             \/ ReadProjection \/ ReadHead \/ Answer \/ Domain
             \/ UNCHANGED vars
      PROVE  UNCHANGED <<final, temp>>
  BY <1>9 DEF Request, Retry, LockJournal, UnlockJournal, ReadSource, FinishBuild, BuildAgain, ReadBundle,
              ReadProjection, ReadHead, Answer, Domain, ChangeSource, BeginAppend, EndAppend, refreshVars, vars
<1>10. CASE UNCHANGED <<final, temp>>
  BY <1>1, <1>10
<1> QED
  BY <1>3, <1>5, <1>6, <1>7, <1>8, <1>9, <1>10 DEF Next, Refresh

\* A journal that can be read has a row or none for every refresh.
LEMMA JournalReadable ==
    ASSUME RefreshTypeOK, ~JournalCorrupt
    PROVE  JournalRows \in Journals
<1>1. "journal" \in Files
  BY DEF Files
<1>2. final["journal"] \in FileStates("journal") /\ (final["journal"].data = None => final["journal"] = NoFile)
  BY <1>1 DEF RefreshTypeOK, FilesOK
<1>3. Empty \in Journals
  BY DEF Empty, Journals
<1> QED
  BY <1>2, <1>3 DEF JournalCorrupt, JournalRows, FileStates, Contents

\* The rest of the state.
LEMMA TypedStep ==
    ASSUME IInv, [Next]_vars
    PROVE  Typed'
<1>1. RefreshTypeOK /\ PlacesTyped
  BY DEF IInv, Typed, RefreshTypeOK, PlacesTyped
<1>2. source' \in Vectors
  <2>1. CASE UNCHANGED source
    BY <1>1, <2>1 DEF RefreshTypeOK
  <2>2. ASSUME NEW s \in Sources, ChangeSource(s)
        PROVE  source' \in Vectors
    BY <1>1, <2>2, RefreshAssumption DEF RefreshTypeOK, Vectors, MayChange, ChangeSource
  <2>3. ASSUME NEW s \in Journalled, BeginAppend(s) \/ EndAppend(s)
        PROVE  UNCHANGED source
    BY <2>3 DEF BeginAppend, EndAppend
  <2> QED
    BY <2>1, <2>2, <2>3 DEF Next, Domain, Refresh, Request, Retry, LockJournal, OpenJournal, WriteJournal, ReplaceJournal,
        UnlockJournal, ReadSource, FinishBuild, BuildAgain, OpenBundle, WriteBundle, ReplaceBundle, ReadBundle,
        ReadProjection, ReadHead, Answer, Restart, refreshVars, vars
<1>6. appending' \in [Journalled -> {"no", "journal", "records"}]
  <2>1. CASE UNCHANGED appending
    BY <1>1, <2>1 DEF RefreshTypeOK
  <2>2. CASE Domain
    BY <1>1, <2>2 DEF RefreshTypeOK, Domain, ChangeSource, BeginAppend, EndAppend
  <2> QED
    BY <2>1, <2>2 DEF Next, Refresh, Request, Retry, LockJournal, OpenJournal, WriteJournal, ReplaceJournal,
        UnlockJournal, ReadSource, FinishBuild, BuildAgain, OpenBundle, WriteBundle, ReplaceBundle, ReadBundle,
        ReadProjection, ReadHead, Answer, Restart, refreshVars, vars
<1>3. lock' \in BOOLEAN /\ overlapped' \in BOOLEAN /\ published' \subseteq Bundles
  <2>1. lock \in BOOLEAN /\ overlapped \in BOOLEAN /\ published \subseteq Bundles
    BY <1>1 DEF RefreshTypeOK
  <2>2. ASSUME NEW r \in Refreshes, LockJournal(r) \/ ReplaceJournal(r) \/ UnlockJournal(r)
        PROVE  lock' \in {TRUE, FALSE, lock} /\ overlapped' = overlapped /\ published' = published
    BY <2>2 DEF LockJournal, ReplaceJournal, UnlockJournal
  <2>3. ASSUME NEW r \in Refreshes, Request(r) \/ Retry(r)
        PROVE  overlapped' \in BOOLEAN /\ lock' = lock /\ published' = published
    BY <2>3 DEF Request, Retry
  <2>4. ASSUME NEW r \in Refreshes, WriteBundle(r) \/ ReplaceBundle(r)
        PROVE  published' \subseteq published \union Bundles /\ lock' = lock /\ overlapped' = overlapped
    BY <2>4 DEF WriteBundle, ReplaceBundle, Publish
  <2>5. CASE UNCHANGED <<lock, overlapped, published>>
    BY <2>1, <2>5
  <2> QED
    BY <2>1, <2>2, <2>3, <2>4, <2>5 DEF Next, Refresh, OpenJournal, WriteJournal, ReadSource, FinishBuild, BuildAgain,
        OpenBundle, ReadBundle, ReadProjection, ReadHead, Answer, Domain, ChangeSource, BeginAppend, EndAppend, Restart, refreshVars, vars
<1>4. states' \in Journals
  <2>1. ASSUME NEW r \in Refreshes, LockJournal(r)
        PROVE  states' \in Journals
    <3>1. CASE ~JournalCorrupt /\ states' = [JournalRows EXCEPT ![r] = row[r]]
      BY <1>1, <3>1, JournalReadable DEF Journals, PlacesTyped
    <3>2. CASE states' = states
      BY <1>1, <3>2 DEF RefreshTypeOK
    <3> QED
      BY <2>1, <3>1, <3>2 DEF LockJournal
  <2>2. CASE Restart
    BY <1>1, <2>2, JournalReadable DEF Restart
  <2>3. CASE UNCHANGED states
    BY <1>1, <2>3 DEF RefreshTypeOK
  <2> QED
    BY <2>1, <2>2, <2>3 DEF Next, Refresh, Request, Retry, OpenJournal, WriteJournal, ReplaceJournal,
        UnlockJournal, ReadSource, FinishBuild, BuildAgain, OpenBundle, WriteBundle, ReplaceBundle, ReadBundle,
        ReadProjection, ReadHead, Answer, Domain, ChangeSource, BeginAppend, EndAppend, refreshVars, vars
<1>5. PlacesTyped' /\ FilesOK(final)' /\ FilesOK(temp)'
  BY PlacesStep, FilesStep
<1> QED
  BY <1>2, <1>3, <1>4, <1>5, <1>6 DEF Typed, RefreshTypeOK, PlacesTyped

(***************************************************************************)
(* Readings and builds                                                     *)
(***************************************************************************)

\* One more reading: of the source whose turn it is, at its version now, or one that
\* does not verify.
LEMMA ReadingAppended ==
    ASSUME IInv, NEW r \in Refreshes, ReadSource(r)
    PROVE  ReadingsAscend'
<1> DEFINE n0 == Read(r)
           t == (n0 % SourceCount) + 1
<1>1. SourceCount \in Nat \ {0} /\ n0 \in Nat /\ n0 < 3 * SourceCount /\ seen[r] \in Seq(Readings)
  BY RefreshAssumption DEF IInv, ReadingsAscend, ReadSource, Read
<1>2. t \in Sources
  <2>1. n0 % SourceCount \in 0..(SourceCount - 1)
    BY <1>1
  <2> QED
    BY <1>1, <2>1 DEF Sources
<1>3. source[t] \in 0..MaxWrites /\ source' = source /\ MaxWrites \in Nat /\ Unverified \notin 0..MaxWrites
  BY <1>2, RefreshAssumption DEF IInv, Typed, RefreshTypeOK, Vectors, ReadSource
<1>4. PICK v \in (IF n0 \in SourceCount..(2 * SourceCount - 1) THEN FactsOf(t) ELSE {source[t]}) :
         seen' = [seen EXCEPT ![r] = Append(seen[r], v)]
  BY DEF ReadSource, Read
<1>5. \/ v = source[t]
      \/ v = Unverified /\ t \in Journalled /\ n0 \in SourceCount..(2 * SourceCount - 1)
  BY <1>4 DEF FactsOf
<1>6. v \in Readings
  BY <1>3, <1>5 DEF Readings
<1>7. seen' \in [Refreshes -> Seq(Readings)] /\ \A q \in Refreshes \ {r} : seen'[q] = seen[q]
  BY <1>1, <1>4, <1>6, AppendProperties DEF IInv, ReadingsAscend
<1>8. /\ Len(seen'[r]) = n0 + 1 /\ seen'[r][n0 + 1] = v
      /\ \A i \in 1..n0 : seen'[r][i] = seen[r][i]
  <2>1. seen'[r] = Append(seen[r], v)
    BY <1>4 DEF IInv, ReadingsAscend
  <2> QED
    BY <1>1, <1>6, <2>1, AppendProperties DEF Read
<1> HIDE DEF n0
<1>9. Len(seen'[r]) <= 3 * SourceCount
  BY <1>1, <1>8
<1>10. ASSUME NEW n \in 0..2, NEW s \in Sources, At(n, s) <= n0 + 1
       PROVE  Fits(seen'[r], n, s)
  <2>1. At(n, s) \in Nat /\ At(n, s) >= 1 /\ source[s] \in 0..MaxWrites
    <3>1. At(n, s) \in 1..(3 * SourceCount)
      BY ReadingPlaces
    <3>2. source[s] \in 0..MaxWrites
      BY DEF IInv, Typed, RefreshTypeOK, Vectors
    <3> QED
      BY <1>1, <3>1, <3>2
  <2>2. ASSUME NEW k \in 0..2, At(k, s) <= n0
        PROVE  /\ seen'[r][At(k, s)] = seen[r][At(k, s)] /\ seen[r][At(k, s)] \in Readings
               /\ Fits(seen[r], k, s)
    <3>1. At(k, s) \in 1..(3 * SourceCount)
      BY ReadingPlaces
    <3>2. At(k, s) \in 1..n0
      BY <1>1, <2>2, <3>1
    <3>3. seen[r][At(k, s)] \in Readings
      BY <1>1, <3>2, ElementOfSeq DEF n0, Read
    <3>4. At(k, s) <= Read(r)
      BY <2>2 DEF n0
    <3>5. seen'[r][At(k, s)] = seen[r][At(k, s)]
      BY <1>8, <3>2
    <3>6. Fits(seen[r], k, s)
      BY <3>4 DEF IInv, ReadingsAscend
    <3> QED
      BY <3>3, <3>5, <3>6
  <2>3. ASSUME NEW m \in 0..n, m # n
        PROVE  m \in 0..2 /\ At(m, s) <= n0
    <3>1. At(m, s) < At(n, s) /\ m \in 0..2
      BY <2>3, ReadingOrder
    <3>2. At(m, s) \in 1..(3 * SourceCount)
      BY <3>1, ReadingPlaces
    <3> QED
      BY <1>1, <1>10, <2>1, <3>1, <3>2
  <2>4. CASE At(n, s) <= n0
    <3>1. seen'[r][At(n, s)] = seen[r][At(n, s)] /\ Fits(seen[r], n, s)
      BY <2>2, <2>4
    <3>2. \A m \in 0..n : seen'[r][At(m, s)] = seen[r][At(m, s)]
      BY <2>2, <2>3, <3>1
    <3> QED
      BY <3>1, <3>2 DEF Fits
  <2>5. CASE At(n, s) = n0 + 1
    <3>1. t = s
      <4>1. ((At(n, s) - 1) % SourceCount) + 1 = s
        BY ReadingPlaces
      <4>2. At(n, s) - 1 = n0
        BY <1>1, <2>5
      <4> QED
        BY <4>1, <4>2
    <3>2. seen'[r][At(n, s)] = v
      BY <1>8, <2>5
    <3>3. n0 \in SourceCount..(2 * SourceCount - 1) => n = 1
      <4>1. s \in 1..SourceCount /\ n0 = n * SourceCount + s - 1
        BY <1>1, <2>5 DEF At, Sources
      <4>2. n = 0 => n0 < SourceCount
        BY <1>1, <4>1
      <4>3. n = 2 => n0 >= 2 * SourceCount
        BY <1>1, <4>1
      <4> QED
        BY <1>1, <4>2, <4>3
    <3>4. ASSUME NEW m \in 0..n, m # n, seen'[r][At(m, s)] # Unverified
          PROVE  seen'[r][At(m, s)] <= source[s]
      BY <2>2, <2>3, <3>4 DEF Fits
    <3>5. source[s] <= source[s] /\ source[s] # Unverified
      BY <1>3, <2>1
    <3>6. CASE v = Unverified
      BY <1>5, <3>1, <3>2, <3>3, <3>5, <3>6 DEF Fits
    <3>7. CASE v # Unverified
      <4>1. v = source[s]
        BY <1>5, <3>1, <3>7
      <4>2. \A m \in 0..n : seen'[r][At(m, s)] # Unverified => seen'[r][At(m, s)] <= seen'[r][At(n, s)]
        BY <3>2, <3>4, <3>5, <4>1
      <4> QED
        BY <3>2, <3>5, <3>7, <4>1, <4>2 DEF Fits
    <3> QED
      BY <3>6, <3>7
  <2> QED
    BY <1>1, <1>10, <2>1, <2>4, <2>5
<1>11. ASSUME NEW q \in Refreshes
       PROVE  /\ Len(seen'[q]) <= 3 * SourceCount
              /\ \A n \in 0..2, s \in Sources : At(n, s) <= Len(seen'[q]) => Fits(seen'[q], n, s)
  <2>1. CASE q = r
    BY <1>8, <1>9, <1>10, <2>1
  <2>2. CASE q # r
    BY <1>7, <2>2 DEF IInv, ReadingsAscend, Read
  <2> QED
    BY <2>1, <2>2
<1> QED
  BY <1>3, <1>7, <1>11 DEF ReadingsAscend, Read, Fits

LEMMA ReadingsStep ==
    ASSUME IInv, [Next]_vars
    PROVE  ReadingsAscend'
<1>1. CASE \E r \in Refreshes : ReadSource(r)
  BY <1>1, ReadingAppended
<1>2. ASSUME NEW t \in Sources, ChangeSource(t)
      PROVE  ReadingsAscend'
  <2>1. seen' = seen /\ \A s \in Sources : source[s] \in Nat /\ source'[s] \in Nat /\ source[s] <= source'[s]
    BY <1>2, RefreshAssumption DEF IInv, Typed, RefreshTypeOK, Vectors, ChangeSource
  <2>2. ASSUME NEW r \in Refreshes, NEW n \in 0..2, NEW s \in Sources, At(n, s) <= Len(seen[r])
        PROVE  Fits(seen[r], n, s)'
    <3>1. Fits(seen[r], n, s)
      BY <2>2 DEF IInv, ReadingsAscend, Read
    <3>2. seen[r][At(n, s)] \in Readings
      <4>1. At(n, s) \in 1..(3 * SourceCount) /\ Len(seen[r]) \in Nat /\ seen[r] \in Seq(Readings)
        BY ReadingPlaces DEF IInv, ReadingsAscend
      <4>2. At(n, s) \in 1..Len(seen[r])
        BY <2>2, <4>1, RefreshAssumption
      <4> QED
        BY <4>1, <4>2, ElementOfSeq
    <3>3. seen[r][At(n, s)] # Unverified => seen[r][At(n, s)] \in Nat
      BY <3>2, RefreshAssumption DEF Readings
    <3>4. seen[r][At(n, s)] # Unverified => seen[r][At(n, s)] <= source'[s]
      BY <2>1, <3>1, <3>3 DEF Fits
    <3> QED
      BY <2>1, <3>1, <3>4 DEF Fits
  <2> QED
    BY <2>1, <2>2 DEF IInv, ReadingsAscend, Read
<1>3. CASE /\ source' = source /\ seen' \in [Refreshes -> Seq(Readings)]
           /\ \A r \in Refreshes : seen'[r] \in {seen[r], <<>>}
  <2>1. Len(<<>>) = 0
    OBVIOUS
  <2>2. ASSUME NEW n \in 0..2, NEW s \in Sources
        PROVE  ~(At(n, s) <= 0)
    <3>1. At(n, s) \in 1..(3 * SourceCount) /\ SourceCount \in Nat
      BY ReadingPlaces, RefreshAssumption
    <3> QED
      BY <3>1
  <2>3. 0 <= 3 * SourceCount
    BY RefreshAssumption
  <2>4. ASSUME NEW r \in Refreshes
        PROVE  /\ Len(seen'[r]) <= 3 * SourceCount
               /\ \A n \in 0..2, s \in Sources : At(n, s) <= Len(seen'[r]) => Fits(seen[r], n, s)'
    <3>1. CASE seen'[r] = <<>>
      BY <2>1, <2>2, <2>3, <3>1
    <3>2. CASE seen'[r] = seen[r]
      BY <1>3, <3>2 DEF IInv, ReadingsAscend, Read, Fits
    <3> QED
      BY <1>3, <3>1, <3>2
  <2> QED
    BY <1>3, <2>4 DEF ReadingsAscend, Read
<1>4. seen \in [Refreshes -> Seq(Readings)] /\ <<>> \in Seq(Readings)
  BY DEF IInv, ReadingsAscend
<1>5. CASE source' = source /\ seen' = seen
  BY <1>3, <1>4, <1>5
<1>6. CASE source' = source /\ \E r \in Refreshes : seen' = [seen EXCEPT ![r] = <<>>]
  BY <1>3, <1>4, <1>6
<1>7. ASSUME NEW r \in Refreshes, Retry(r) \/ BuildAgain(r) \/ ReplaceBundle(r) \/ ReadBundle(r)
      PROVE  source' = source /\ (seen' = seen \/ seen' = [seen EXCEPT ![r] = <<>>])
  BY <1>7 DEF Retry, BuildAgain, ReplaceBundle, ReadBundle, Record
<1>8. CASE Restart
  BY <1>3, <1>4, <1>8 DEF Restart
<1>9. ASSUME \/ \E r \in Refreshes : \/ Request(r) \/ LockJournal(r) \/ OpenJournal(r) \/ WriteJournal(r)
                                    \/ ReplaceJournal(r) \/ UnlockJournal(r) \/ FinishBuild(r)
                                    \/ OpenBundle(r) \/ WriteBundle(r)
             \/ ReadProjection \/ ReadHead \/ Answer \/ UNCHANGED vars
             \/ \E s \in Journalled : BeginAppend(s) \/ EndAppend(s)
      PROVE  source' = source /\ seen' = seen
  BY <1>9 DEF Request, LockJournal, OpenJournal, WriteJournal, ReplaceJournal, UnlockJournal, FinishBuild,
              OpenBundle, WriteBundle, ReadProjection, ReadHead, Answer, BeginAppend, EndAppend, refreshVars, vars
<1> QED
  BY <1>1, <1>2, <1>5, <1>6, <1>7, <1>8, <1>9 DEF Next, Refresh, Domain

\* A build is decided on what it has read, and what it has read stays.
LEMMA BuildsStep ==
    ASSUME IInv, [Next]_vars
    PROVE  BuildsAgree'
<1>1. ASSUME NEW r \in Refreshes, pc'[r] \in PublishSteps
      PROVE  seen'[r] = seen[r] /\ Read(r) = 3 * SourceCount /\ ~Drifted(r)
  <2>1. pc \in [Refreshes -> {"new", "build"} \union SaveSteps \union PublishSteps \union Ended]
    BY DEF IInv, Typed, RefreshTypeOK
  <2>2. seen \in [Refreshes -> Seq(Readings)]
    BY DEF IInv, ReadingsAscend
  <2>3. CASE pc[r] \in PublishSteps /\ seen'[r] = seen[r]
    BY <2>3 DEF IInv, BuildsAgree
  <2>4. CASE FinishBuild(r)
    BY <2>4 DEF FinishBuild, Read
  <2>5. ASSUME NEW q \in Refreshes,
               \/ Request(q) \/ Retry(q) \/ LockJournal(q) \/ OpenJournal(q) \/ WriteJournal(q) \/ ReplaceJournal(q)
               \/ ReadSource(q) \/ BuildAgain(q)
        PROVE  pc[r] \in PublishSteps /\ seen'[r] = seen[r]
    BY <1>1, <2>1, <2>2, <2>5 DEF Request, Retry, LockJournal, OpenJournal, WriteJournal, ReplaceJournal,
        ReadSource, BuildAgain, Record, Goto, PublishSteps
  <2>6. ASSUME NEW q \in Refreshes, UnlockJournal(q)
        PROVE  pc[r] \in PublishSteps /\ seen'[r] = seen[r]
    <3>1. row[q] \in Rows
      BY <2>6 DEF IInv, Typed, RefreshTypeOK, UnlockJournal, SaveSteps
    <3>2. AfterSave(q) \notin PublishSteps
      BY <3>1 DEF AfterSave, Rows, PublishSteps
    <3> QED
      BY <1>1, <2>1, <2>6, <3>2 DEF UnlockJournal, Goto
  <2>7. ASSUME NEW q \in Refreshes, FinishBuild(q) \/ OpenBundle(q) \/ WriteBundle(q), ~FinishBuild(r)
        PROVE  pc[r] \in PublishSteps /\ seen'[r] = seen[r]
    BY <1>1, <2>1, <2>7 DEF FinishBuild, OpenBundle, WriteBundle, Goto, PublishSteps
  <2>8. ASSUME NEW q \in Refreshes, ReplaceBundle(q) \/ ReadBundle(q)
        PROVE  pc[r] \in PublishSteps /\ seen'[r] = seen[r]
    <3>1. CASE Record(q, "failed", None) \/ Record(q, "succeeded", Built(q))
      BY <1>1, <2>1, <2>2, <3>1 DEF Record, Goto, PublishSteps
    <3>2. CASE Goto(q, "read_bundle") /\ UNCHANGED seen /\ pc[q] = "replace_bundle"
      BY <1>1, <2>1, <3>2 DEF Goto, PublishSteps
    <3> QED
      BY <2>8, <3>1, <3>2 DEF ReplaceBundle, ReadBundle
  <2>9. CASE Restart
    BY <1>1, <2>1, <2>3, <2>9 DEF Restart, PublishSteps, Active, Ended
  <2>10. CASE UNCHANGED <<pc, seen>>
    BY <1>1, <2>3, <2>10
  <2>11. ASSUME ReadProjection \/ ReadHead \/ Answer \/ Domain \/ UNCHANGED vars
         PROVE  UNCHANGED <<pc, seen>>
    BY <2>11 DEF ReadProjection, ReadHead, Answer, Domain, ChangeSource, BeginAppend, EndAppend, refreshVars, vars
  <2> QED
    BY <2>3, <2>4, <2>5, <2>6, <2>7, <2>8, <2>9, <2>10, <2>11 DEF Next, Refresh
<1> QED
  BY <1>1 DEF BuildsAgree, Read, Drifted, Pass

(***************************************************************************)
(* Bundles and queries                                                     *)
(***************************************************************************)

MomentData == {b \in Bundles : IsMoment(b.snapshot)} \union Broken \union {None}

LEMMA MomentsStep ==
    ASSUME IInv, [Next]_vars
    PROVE  MomentsOnly'
<1> DEFINE D(file) == file["bundle"].data
<1>1. RefreshTypeOK /\ "bundle" \in Files /\ "journal" \in Files
  BY DEF IInv, Typed, RefreshTypeOK, Files
<1>2. D(final) \in MomentData /\ D(temp) \in MomentData
  <2>1. final["bundle"] \in FileStates("bundle") /\ temp["bundle"] \in FileStates("bundle")
    BY <1>1 DEF RefreshTypeOK, FilesOK
  <2> QED
    BY <2>1 DEF IInv, MomentsOnly, MomentData, FileStates, Contents
<1>3. {Cut, Torn} \subseteq MomentData
  BY DEF MomentData, Broken
<1>4. ASSUME D(final)' \in MomentData, D(temp)' \in MomentData,
             published' \subseteq published \union ({D(final)'} \cap Bundles)
      PROVE  MomentsOnly'
  <2>1. \A d \in MomentData : d \in Bundles => IsMoment(d.snapshot)
    BY ValueAssumption DEF MomentData
  <2>2. \A b \in published' : IsMoment(b.snapshot)
    BY <1>4, <2>1 DEF IInv, MomentsOnly, SnapshotIsAMoment
  <2> QED
    BY <1>4, <2>1, <2>2 DEF MomentsOnly, SnapshotIsAMoment, IsMoment
<1>5. ASSUME NEW r \in Refreshes, OpenJournal(r) \/ OpenBundle(r)
      PROVE  D(final)' \in MomentData /\ D(temp)' \in MomentData /\ published' = published
  <2>1. PICK f \in Files : OpenTemp(r, f) /\ final' = final /\ published' = published
    BY <1>1, <1>5 DEF OpenJournal, OpenBundle
  <2>2. temp'["bundle"] = temp["bundle"] \/ temp'["bundle"].data = Cut
    <3>1. temp'[f] = [open |-> temp[f].open \union {r}, data |-> Cut]
      BY <1>1, <2>1, OpenTyped
    <3>2. \A g \in Files \ {f} : temp'[g] = temp[g]
      BY <1>1, <2>1, OpenTyped
    <3> QED
      BY <1>1, <3>1, <3>2
  <2> QED
    BY <1>2, <1>3, <2>1, <2>2
<1>6. ASSUME NEW r \in Refreshes, NEW f \in Files, NEW data \in Contents(f), WriteTemp(r, f, data),
             f = "bundle" => data \in MomentData
      PROVE  D(final)' \in MomentData /\ D(temp)' \in MomentData
  <2>1. temp'["bundle"] = temp["bundle"] \/ (f = "bundle" /\ temp'["bundle"].data \in {data, Torn})
    <3>1. FilesOK(temp)
      BY <1>1 DEF RefreshTypeOK
    <3>2. \A g \in Files \ {f} : temp'[g] = temp[g]
      BY <1>6, <3>1, WriteOne DEF WriteTemp
    <3>3. temp'[f] = temp[f] \/ temp'[f].data \in {data, Torn}
      BY <1>6, <3>1, WriteOne DEF WriteTemp
    <3> QED
      BY <1>1, <3>2, <3>3
  <2>2. final'["bundle"] = final["bundle"] \/ (f = "bundle" /\ final'["bundle"].data \in {data, Torn})
    <3>1. FilesOK(final)
      BY <1>1 DEF RefreshTypeOK
    <3>2. \A g \in Files \ {f} : final'[g] = final[g]
      BY <1>6, <3>1, WriteOne DEF WriteTemp
    <3>3. final'[f] = final[f] \/ final'[f].data \in {data, Torn}
      BY <1>6, <3>1, WriteOne DEF WriteTemp
    <3> QED
      BY <1>1, <3>2, <3>3
  <2> QED
    BY <1>2, <1>3, <1>6, <2>1, <2>2
<1>7. ASSUME NEW r \in Refreshes, WriteJournal(r)
      PROVE  D(final)' \in MomentData /\ D(temp)' \in MomentData /\ published' = published
  <2>1. states \in Contents("journal")
    BY <1>1 DEF RefreshTypeOK, Contents
  <2>2. WriteTemp(r, "journal", states) /\ published' = published
    BY <1>7 DEF WriteJournal
  <2>3. "journal" # "bundle"
    OBVIOUS
  <2> QED
    BY <1>1, <1>6, <2>1, <2>2, <2>3
<1>8. ASSUME NEW r \in Refreshes, WriteBundle(r)
      PROVE  /\ D(final)' \in MomentData /\ D(temp)' \in MomentData
             /\ published' = published \union ({D(final)'} \cap Bundles)
  <2> DEFINE b == [refresh |-> r, snapshot |-> Built(r)]
  <2>1. Read(r) = 3 * SourceCount /\ ~Drifted(r)
    BY <1>8 DEF IInv, BuildsAgree, WriteBundle, PublishSteps
  <2>2. Built(r) \in Snapshots /\ IsMoment(Built(r))
    BY <2>1, BuiltTyped, BuiltIsMoment DEF IInv
  <2>3. b \in Contents("bundle") /\ b \in MomentData
    BY <2>2 DEF Contents, Bundles, MomentData
  <2>4. WriteTemp(r, "bundle", b) /\ published' = published \union ({D(final)'} \cap Bundles)
    BY <1>8 DEF WriteBundle, Publish
  <2> HIDE DEF b
  <2> QED
    BY <1>1, <1>6, <2>3, <2>4
<1>9. ASSUME NEW r \in Refreshes, ReplaceJournal(r) \/ ReplaceBundle(r)
      PROVE  /\ D(final)' \in MomentData /\ D(temp)' \in MomentData
             /\ published' \subseteq published \union ({D(final)'} \cap Bundles)
  <2>1. ASSUME NEW f \in Files, ReplaceByTemp(f)
        PROVE  D(final)' \in MomentData /\ D(temp)' \in MomentData
    <3>1. final'["bundle"] \in {final["bundle"], temp["bundle"]} /\ temp'["bundle"] \in {temp["bundle"], NoFile}
      BY <1>1, <2>1, ReplaceTyped
    <3> QED
      BY <1>2, <3>1 DEF NoFile, MomentData
  <2>2. ASSUME UNCHANGED <<final, temp>>
        PROVE  D(final)' \in MomentData /\ D(temp)' \in MomentData
    BY <1>2, <2>2
  <2>3. published' = published \/ published' = published \union ({D(final)'} \cap Bundles)
    BY <1>9 DEF ReplaceJournal, ReplaceBundle, Publish
  <2> QED
    BY <1>1, <1>9, <2>1, <2>2, <2>3 DEF ReplaceJournal, ReplaceBundle
<1>10. CASE Restart
  <2>1. D(final)' = D(final) /\ D(temp)' = D(temp) /\ published' = published
    BY <1>1, <1>10 DEF Restart, RefreshTypeOK, FilesOK, FileStates
  <2> QED
    BY <1>2, <1>4, <2>1
<1>11. CASE UNCHANGED <<final, temp, published>>
  BY <1>2, <1>4, <1>11
<1>12. ASSUME \/ \E r \in Refreshes : \/ Request(r) \/ Retry(r) \/ LockJournal(r) \/ UnlockJournal(r)
                                     \/ ReadSource(r) \/ FinishBuild(r) \/ BuildAgain(r) \/ ReadBundle(r)
              \/ ReadProjection \/ ReadHead \/ Answer \/ Domain
              \/ UNCHANGED vars
       PROVE  UNCHANGED <<final, temp, published>>
  BY <1>12 DEF Request, Retry, LockJournal, UnlockJournal, ReadSource, FinishBuild, BuildAgain, ReadBundle,
               ReadProjection, ReadHead, Answer, Domain, ChangeSource, BeginAppend, EndAppend, refreshVars, vars
<1> HIDE DEF D
<1> QED
  BY <1>4, <1>5, <1>7, <1>8, <1>9, <1>10, <1>11, <1>12 DEF Next, Refresh

\* A query that holds nothing promises nothing.
LEMMA EmptyQuery ==
    ASSUME NEW at \in {"idle", "stale", "unavailable"}, query' = Query(at)
    PROVE  QueryHonest'
BY DEF Query, QueryHonest, FreshIsCurrent

\* One more head: the source's version now, which is no older than the query.
LEMMA HeadRead ==
    ASSUME IInv, ReadHead
    PROVE  QueryHonest'
<1> DEFINE k == Len(query.heads) + 1
           heads == Append(query.heads, source[k])
<1>1. /\ SourceCount \in Nat \ {0} /\ MaxWrites \in Nat
      /\ query.at = "heads" /\ query.snapshot \in Snapshots /\ IsMoment(query.snapshot)
      /\ query.since \in Vectors /\ (\A s \in Sources : query.since[s] <= source[s])
      /\ query.heads \in Seq(Nat) /\ Len(query.heads) < SourceCount
      /\ \A s \in Sources : s <= Len(query.heads) => query.heads[s] >= query.since[s]
  BY RefreshAssumption DEF IInv, QueryHonest, ReadHead
<1>2. k \in Sources /\ source[k] \in Nat
  <2>1. k \in Sources
    BY <1>1 DEF Sources
  <2> QED
    BY <1>1, <2>1 DEF IInv, Typed, RefreshTypeOK, Vectors
<1>3. /\ heads \in Seq(Nat) /\ Len(heads) = k /\ heads[k] = source[k]
      /\ \A i \in 1..Len(query.heads) : heads[i] = query.heads[i]
  BY <1>1, <1>2, AppendProperties
<1>4. \A s \in Sources : s <= k => heads[s] >= query.since[s]
  <2>1. ASSUME NEW s \in Sources, s <= k, s # k
        PROVE  s \in 1..Len(query.heads)
    BY <1>1, <2>1 DEF Sources
  <2>2. heads[k] >= query.since[k]
    BY <1>1, <1>2, <1>3 DEF Vectors
  <2> HIDE DEF k, heads
  <2>3. \A i \in 1..Len(query.heads) : i <= Len(query.heads)
    BY <1>1
  <2> QED
    BY <1>1, <1>3, <2>1, <2>2, <2>3
<1>5. /\ source' = source
      /\ query = [at |-> query.at, snapshot |-> query.snapshot, heads |-> query.heads, since |-> query.since]
      /\ query' = IF Len(heads) < SourceCount THEN [query EXCEPT !.heads = heads]
                  ELSE IF Freshness(heads) = "stale" THEN Query("stale")
                  ELSE [query EXCEPT !.at = "fresh", !.heads = <<>>]
  BY DEF ReadHead, refreshVars, IInv, QueryHonest
<1>6. CASE Len(heads) < SourceCount
  <2>1. query' = [query EXCEPT !.heads = heads]
    BY <1>5, <1>6
  <2>2. query'.at = "heads" /\ query'.snapshot = query.snapshot /\ query'.heads = heads /\ query'.since = query.since
        /\ query' = [at |-> query'.at, snapshot |-> query'.snapshot, heads |-> query'.heads, since |-> query'.since]
    BY <1>1, <1>5, <2>1
  <2> HIDE DEF heads, k
  <2> QED
    BY <1>1, <1>3, <1>4, <1>5, <1>6, <2>2 DEF QueryHonest, FreshIsCurrent, IsMoment
<1>7. CASE ~(Len(heads) < SourceCount) /\ Freshness(heads) = "stale"
  BY <1>5, <1>7, EmptyQuery
<1>8. CASE ~(Len(heads) < SourceCount) /\ Freshness(heads) # "stale"
  <2>1. query' = [query EXCEPT !.at = "fresh", !.heads = <<>>]
    BY <1>5, <1>8
  <2>2. query'.at = "fresh" /\ query'.snapshot = query.snapshot /\ query'.since = query.since
        /\ query' = [at |-> query'.at, snapshot |-> query'.snapshot, heads |-> query'.heads, since |-> query'.since]
    BY <1>1, <1>5, <2>1
  <2>3. heads = query.snapshot.heads
    BY <1>8 DEF Freshness
  <2>4. ASSUME NEW s \in Sources
        PROVE  \/ s \in Journalled /\ query.snapshot.facts[s] = Unverified
               \/ query.snapshot.facts[s] >= query.since[s]
    <3>1. s <= k
      BY <1>1, <1>3, <1>8 DEF Sources
    <3>2. heads[s] >= query.since[s]
      BY <1>4, <3>1
    <3> HIDE DEF heads, k
    <3> QED
      BY <1>1, <2>3, <3>2 DEF IsMoment
  <2> HIDE DEF heads, k
  <2> QED
    BY <2>2, <2>4 DEF QueryHonest, FreshIsCurrent
<1> QED
  BY <1>6, <1>7, <1>8

LEMMA QueryStep ==
    ASSUME IInv, [Next]_vars
    PROVE  QueryHonest'
<1>1. CASE ReadHead
  BY <1>1, HeadRead
<1>2. CASE ReadProjection
  <2>1. "bundle" \in Files
    BY DEF Files
  <2>2. final["bundle"] \in FileStates("bundle") /\ (final["bundle"].data = None => final["bundle"] = NoFile)
    BY <2>1 DEF IInv, Typed, RefreshTypeOK, FilesOK
  <2>3. query' # Query("unavailable") => final["bundle"].data \in Bundles
    BY <1>2, <2>2 DEF ReadProjection, FileStates, Contents
  <2>4. final["bundle"].data \in Bundles =>
           final["bundle"].data.snapshot \in Snapshots /\ IsMoment(final["bundle"].data.snapshot)
    BY DEF IInv, MomentsOnly, Bundles
  <2>5. /\ source' = source
        /\ \/ query' = Query("unavailable")
           \/ query' = [at |-> "heads", snapshot |-> final["bundle"].data.snapshot, heads |-> <<>>, since |-> source]
    BY <1>2 DEF ReadProjection, refreshVars
  <2>6. /\ source \in Vectors /\ \A s \in Sources : source[s] <= source[s] /\ ~(s <= 0)
        /\ SourceCount > 0
    BY RefreshAssumption DEF IInv, Typed, RefreshTypeOK, Vectors, Sources
  <2>7. <<>> \in Seq(Nat) /\ Len(<<>>) = 0
    OBVIOUS
  <2>8. CASE query' = Query("unavailable")
    BY <2>8, EmptyQuery
  <2>9. CASE query' # Query("unavailable")
    <3>1. /\ query'.at = "heads" /\ query'.snapshot = final["bundle"].data.snapshot
          /\ query'.heads = <<>> /\ query'.since = source
          /\ query' = [at |-> query'.at, snapshot |-> query'.snapshot, heads |-> query'.heads, since |-> query'.since]
      BY <2>5, <2>9
    <3> QED
      BY <2>3, <2>4, <2>5, <2>6, <2>7, <2>9, <3>1 DEF QueryHonest, FreshIsCurrent, IsMoment
  <2> QED
    BY <2>8, <2>9
<1>3. CASE Answer \/ Restart
  BY <1>3, EmptyQuery DEF Answer, Restart
<1>4. ASSUME NEW t \in Sources, ChangeSource(t)
      PROVE  QueryHonest'
  <2>1. query' = query /\ \A s \in Sources : source[s] \in Nat /\ source'[s] \in Nat /\ source[s] <= source'[s]
    BY <1>4, RefreshAssumption DEF IInv, Typed, RefreshTypeOK, Vectors, ChangeSource
  <2>2. query.at = "heads" => \A s \in Sources : query.since[s] <= source'[s]
    BY <2>1, RefreshAssumption DEF IInv, QueryHonest, Vectors
  <2> QED
    BY <2>1, <2>2 DEF IInv, QueryHonest, FreshIsCurrent
<1>5. CASE UNCHANGED <<query, source>>
  BY <1>5 DEF IInv, QueryHonest, FreshIsCurrent
<1>6. ASSUME \/ \E r \in Refreshes : Refresh(r)
             \/ \E s \in Journalled : BeginAppend(s) \/ EndAppend(s)
             \/ UNCHANGED vars
      PROVE  UNCHANGED <<query, source>>
  BY <1>6 DEF BeginAppend, EndAppend, Refresh, Request, Retry, LockJournal, OpenJournal, WriteJournal, ReplaceJournal,
        UnlockJournal, ReadSource, FinishBuild, BuildAgain, OpenBundle, WriteBundle, ReplaceBundle, ReadBundle,
        refreshVars, vars
<1> QED
  BY <1>1, <1>2, <1>3, <1>4, <1>5, <1>6 DEF Next, Domain

(***************************************************************************)
(* Theorems                                                                *)
(***************************************************************************)

LEMMA InitIInv == Init => IInv
<1> SUFFICES ASSUME Init PROVE IInv
  OBVIOUS
<1>1. SourceCount \in Nat \ {0} /\ MaxWrites \in Nat /\ 0 \in 0..MaxWrites
  BY RefreshAssumption
<1>2. NoFile.data = None /\ \A f \in Files : NoFile \in FileStates(f)
  BY DEF NoFile, FileStates
<1>3. FilesOK(final) /\ FilesOK(temp)
  BY <1>2 DEF Init, FilesOK
<1>4. Typed
  BY <1>1, <1>3 DEF Init, Typed, RefreshTypeOK, Vectors, Empty, Journals, SaveSteps
<1>5. ReadingsAscend
  <2>1. <<>> \in Seq(Readings) /\ Len(<<>>) = 0
    OBVIOUS
  <2>2. ASSUME NEW n \in 0..2, NEW s \in Sources
        PROVE  ~(At(n, s) <= 0)
    <3>1. At(n, s) \in 1..(3 * SourceCount)
      BY ReadingPlaces
    <3> QED
      BY <1>1, <3>1
  <2>3. 0 <= 3 * SourceCount
    BY <1>1
  <2> QED
    BY <2>1, <2>2, <2>3 DEF Init, ReadingsAscend, Read
<1>6. BuildsAgree
  BY DEF Init, BuildsAgree, PublishSteps
<1>7. MomentsOnly
  <2>1. final["bundle"].data = None /\ temp["bundle"].data = None /\ published = {}
    BY <1>2 DEF Init, Files
  <2> QED
    BY <2>1, ValueAssumption DEF MomentsOnly, SnapshotIsAMoment
<1>8. QueryHonest
  BY DEF Init, Query, QueryHonest, FreshIsCurrent
<1> QED
  BY <1>4, <1>5, <1>6, <1>7, <1>8 DEF IInv

\* The refreshes never leave the invariant from which the rest follows.
THEOREM RefreshInvariant == Spec => []IInv
<1>1. IInv /\ [Next]_vars => IInv'
  BY TypedStep, ReadingsStep, BuildsStep, MomentsStep, QueryStep DEF IInv
<1> QED
  BY <1>1, InitIInv, PTL DEF Spec

\* The state of the refreshes is well typed: a file that can be read holds a bundle or
\* a journal, whatever writers met in its temporary file.
THEOREM RefreshTyped == Spec => []RefreshTypeOK
<1>1. IInv => RefreshTypeOK
  BY DEF IInv, Typed
<1> QED
  BY <1>1, RefreshInvariant, PTL

\* Whatever refreshes overlap and whenever the sources change, a published bundle shows
\* the sources as they were at one moment, or says of a journalled one that it does not
\* verify (builder.py:61-99, reader_engagement_store.py:215-244).
THEOREM SnapshotAlwaysAMoment == Spec => []SnapshotIsAMoment
<1>1. IInv => SnapshotIsAMoment
  BY DEF IInv, MomentsOnly
<1> QED
  BY <1>1, RefreshInvariant, PTL

\* A query that answers fresh shows no version older than its own beginning; the facts of
\* a journalled source may be those that did not verify (workspace_query.py:17-40).
THEOREM FreshAlwaysCurrent == Spec => []FreshIsCurrent
<1>1. IInv => FreshIsCurrent
  BY DEF IInv, QueryHonest
<1> QED
  BY <1>1, RefreshInvariant, PTL

(***************************************************************************)
(* The invariant of refreshes that do not overlap                          *)
(***************************************************************************)

JournalSteps == {"open_journal", "write_journal", "replace_journal"}

OwnBundle(r) == [refresh |-> r, snapshot |-> Built(r)]

OneAtATime == \A q, r \in Refreshes : Active(q) /\ Active(r) => q = r

FinalsClean == \A f \in Files : final[f].open = {} /\ final[f].data \notin Broken

\* Only a refresh that is writing has a file open; what it replaces is what it wrote.
Owns(r) ==
    /\ r \in temp["bundle"].open => pc[r] = "write_bundle"
    /\ r \in temp["journal"].open => pc[r] = "write_journal"
    /\ pc[r] = "write_bundle" => temp["bundle"] = [open |-> {r}, data |-> Cut]
    /\ pc[r] = "write_journal" => temp["journal"] = [open |-> {r}, data |-> Cut]
    /\ pc[r] = "replace_bundle" => temp["bundle"].data = OwnBundle(r)
    /\ pc[r] = "replace_journal" => temp["journal"].data = states

\* The coordinator holds the journal on disk, with the row that is being saved.
StatesFollowJournal ==
    \/ states = JournalRows
    \/ \E r \in Refreshes :
          /\ pc[r] \in JournalSteps /\ ~Terminal(JournalRows[r])
          /\ states = [JournalRows EXCEPT ![r] = row[r]]

\* A success on its way into the journal has been published; what was saved is there.
Backed(r) ==
    /\ pc[r] = "read_bundle" => OwnBundle(r) \in published
    /\ pc[r] \in SaveSteps /\ Terminal(row[r]) => [refresh |-> r, snapshot |-> row[r].snapshot] \in published
    /\ pc[r] \in JournalSteps => states[r] = row[r]
    /\ pc[r] = "unlock" => JournalRows[r] = row[r]

Receipt(r) ==
    /\ ReceiptPublished(r)
    /\ pc[r] = "succeeded" => ~JournalCorrupt /\ Terminal(JournalRows[r])

Alone ==
    /\ OneAtATime /\ FinalsClean /\ StatesFollowJournal
    /\ \A r \in Refreshes : Owns(r) /\ Backed(r) /\ Receipt(r)

AInv == ~overlapped => Alone

LEMMA Readable ==
    ASSUME IInv, FinalsClean
    PROVE  ~JournalCorrupt /\ JournalRows \in Journals
<1>1. RefreshTypeOK
  BY DEF IInv, Typed
<1>2. Empty \in Journals
  BY DEF Empty, Journals
<1>3. JournalRows \notin Broken
  BY <1>2, ValueAssumption DEF JournalRows, FinalsClean, Files
<1> QED
  BY <1>1, <1>3, JournalReadable DEF JournalCorrupt

\* The journal is the text of its file.
LEMMA JournalIsText ==
    ASSUME NEW text \in Journals, final'["journal"].data = text
    PROVE  JournalRows' = text
BY ValueAssumption DEF JournalRows, NoFile

\* While r is active nobody else is, and has a file open.
LEMMA OnlyOne ==
    ASSUME IInv, Alone, NEW r \in Refreshes, Active(r)
    PROVE  /\ \A q \in Refreshes \ {r} : ~Active(q)
           /\ \A q \in Refreshes \ {r}, f \in Files : q \notin temp[f].open
<1>1. \A q \in Refreshes \ {r} : ~Active(q)
  BY DEF Alone, OneAtATime
<1>2. \A q \in Refreshes \ {r}, f \in Files : q \notin temp[f].open
  BY <1>1 DEF Alone, Owns, Active, Ended, Files
<1> QED
  BY <1>1, <1>2

\* Who is outside the steps of saving leaves the coordinator with the journal.
LEMMA StatesAreJournal ==
    ASSUME Alone, NEW r \in Refreshes, \A q \in Refreshes \ {r} : ~Active(q), pc[r] \notin JournalSteps
    PROVE  states = JournalRows
BY DEF Alone, StatesFollowJournal, JournalSteps, Active, Ended

\* One refresh moves and nobody else is active: only what it does counts.
LEMMA AloneByOne ==
    ASSUME NEW r \in Refreshes, \A q \in Refreshes \ {r} : ~Active(q),
           \A q \in Refreshes \ {r} : pc'[q] = pc[q],
           \A q \in Refreshes \ {r}, f \in Files : q \notin temp'[f].open,
           FinalsClean', StatesFollowJournal', Owns(r)', Backed(r)',
           \A q \in Refreshes : Receipt(q)'
    PROVE  Alone'
<1>1. OneAtATime'
  BY DEF OneAtATime, Active
<1>2. ASSUME NEW q \in Refreshes \ {r}
      PROVE  Owns(q)' /\ Backed(q)'
  <2>1. pc'[q] \in {"new"} \union Ended
    BY DEF Active
  <2> QED
    BY <2>1 DEF Owns, Backed, Ended, SaveSteps, JournalSteps, Files
<1> QED
  BY <1>1, <1>2 DEF Alone

\* The receipts stand while the journal stays and more is published.
LEMMA ReceiptsStay ==
    ASSUME Alone, final'["journal"] = final["journal"], published \subseteq published',
           \A q \in Refreshes : pc'[q] = "succeeded" => pc[q] = "succeeded" \/ Terminal(JournalRows[q])
    PROVE  JournalRows' = JournalRows /\ \A q \in Refreshes : Receipt(q)'
<1>1. JournalRows' = JournalRows /\ JournalCorrupt' = JournalCorrupt
  BY DEF JournalRows, JournalCorrupt
<1>2. JournalRows \notin Broken
  BY ValueAssumption DEF Alone, FinalsClean, JournalRows, Empty, Journals, Files
<1>3. ~JournalCorrupt
  BY <1>2 DEF JournalCorrupt
<1> QED
  BY <1>1, <1>3 DEF Alone, Receipt, ReceiptPublished, Terminal

(***************************************************************************)
(* Its steps                                                               *)
(***************************************************************************)

\* A refresh begins, or begins again.
LEMMA BeginAlone ==
    ASSUME IInv, Alone, NEW r \in Refreshes, Request(r) \/ Retry(r), ~overlapped'
    PROVE  Alone'
<1>1. \A q \in Refreshes \ {r} : ~Active(q)
  BY DEF Request, Retry
<1>2. pc[r] \notin JournalSteps /\ pc[r] \notin {"write_bundle", "write_journal"}
  BY DEF Request, Retry, JournalSteps
<1>3. states = JournalRows
  BY <1>1, <1>2, StatesAreJournal
<1>4. /\ UNCHANGED <<final, temp, states, published>>
      /\ pc \in [Refreshes -> {"new", "build"} \union SaveSteps \union PublishSteps \union Ended]
      /\ \/ pc' = [pc EXCEPT ![r] = "lock"] /\ row' = [row EXCEPT ![r] = [status |-> "requested", snapshot |-> None]]
         \/ pc' = [pc EXCEPT ![r] = "build"] /\ row' = row
         \/ pc' = [pc EXCEPT ![r] = "succeeded"] /\ row' = row /\ Terminal(states[r])
      /\ row \in [Refreshes -> Rows \union {None}]
  BY DEF IInv, Typed, RefreshTypeOK, Request, Retry, Goto
<1>5. pc'[r] \in {"lock", "build", "succeeded"} /\ \A q \in Refreshes \ {r} : pc'[q] = pc[q]
  BY <1>4
<1>6. pc'[r] = "lock" => ~Terminal(row'[r])
  BY <1>4 DEF Terminal
<1>7. JournalRows' = JournalRows /\ \A q \in Refreshes : Receipt(q)'
  BY <1>3, <1>4, ReceiptsStay
<1>8. FinalsClean' /\ StatesFollowJournal'
  BY <1>3, <1>4, <1>7 DEF Alone, FinalsClean, StatesFollowJournal
<1>9. Owns(r)'
  BY <1>2, <1>4, <1>5 DEF Alone, Owns
<1>10. Backed(r)'
  BY <1>5, <1>6 DEF Backed, SaveSteps, JournalSteps
<1>11. \A q \in Refreshes \ {r}, f \in Files : q \notin temp'[f].open
  BY <1>1, <1>4 DEF Alone, Owns, Active, Ended, Files
<1> QED
  BY <1>1, <1>5, <1>7, <1>8, <1>9, <1>10, <1>11, AloneByOne

\* The row goes into the coordinator, or the refresh raises.
LEMMA LockAlone ==
    ASSUME IInv, Alone, NEW r \in Refreshes, LockJournal(r)
    PROVE  Alone'
<1>1. pc[r] = "lock" /\ Active(r) /\ UNCHANGED <<final, temp, row, published, seen>>
  BY DEF LockJournal, Active, Ended
<1>2. /\ \A q \in Refreshes \ {r} : ~Active(q)
      /\ \A q \in Refreshes \ {r}, f \in Files : q \notin temp'[f].open
  BY <1>1, OnlyOne
<1>3. ~JournalCorrupt /\ JournalRows \in Journals
  BY Readable DEF Alone
<1>4. states = JournalRows
  BY <1>1, <1>2, StatesAreJournal DEF JournalSteps
<1>5. pc \in [Refreshes -> {"new", "build"} \union SaveSteps \union PublishSteps \union Ended]
      /\ row \in [Refreshes -> Rows \union {None}]
  BY DEF IInv, Typed, RefreshTypeOK
<1>6. /\ pc'[r] \in {"raised", "open_journal"} /\ \A q \in Refreshes \ {r} : pc'[q] = pc[q]
      /\ pc'[r] = "raised" => states' = states
      /\ pc'[r] = "open_journal" => ~TerminalConflict(r) /\ states' = [JournalRows EXCEPT ![r] = row[r]]
  BY <1>5 DEF LockJournal, Goto
<1>7. JournalRows' = JournalRows /\ \A q \in Refreshes : Receipt(q)'
  BY <1>1, <1>6, ReceiptsStay
<1>8. FinalsClean'
  BY <1>1 DEF Alone, FinalsClean
<1>9. StatesFollowJournal'
  <2>1. CASE pc'[r] = "raised"
    BY <1>4, <1>6, <1>7, <2>1 DEF StatesFollowJournal
  <2>2. CASE pc'[r] = "open_journal" /\ ~Terminal(JournalRows[r])
    BY <1>1, <1>6, <1>7, <2>2 DEF StatesFollowJournal, JournalSteps
  <2>3. CASE pc'[r] = "open_journal" /\ JournalRows[r] = row[r]
    <3>1. states' = JournalRows
      BY <1>3, <1>6, <2>3 DEF Journals
    <3> QED
      BY <1>7, <3>1 DEF StatesFollowJournal
  <2> QED
    BY <1>6, <2>1, <2>2, <2>3 DEF TerminalConflict
<1>10. Owns(r)'
  BY <1>1, <1>6 DEF Alone, Owns
<1>11. Backed(r)'
  <2>1. Terminal(row[r]) => [refresh |-> r, snapshot |-> row[r].snapshot] \in published
    BY <1>1 DEF Alone, Backed, SaveSteps
  <2>2. pc'[r] = "open_journal" => states'[r] = row[r]
    BY <1>3, <1>6 DEF Journals
  <2> QED
    BY <1>1, <1>6, <2>1, <2>2 DEF Backed, SaveSteps, JournalSteps
<1> QED
  BY <1>2, <1>6, <1>7, <1>8, <1>9, <1>10, <1>11, AloneByOne

\* Steps that leave the journal, the coordinator's rows and the row of r alone.
LEMMA QuietAlone ==
    ASSUME IInv, Alone, NEW r \in Refreshes, Active(r),
           pc' = [pc EXCEPT ![r] = pc'[r]],
           pc[r] \in JournalSteps <=> pc'[r] \in JournalSteps, pc'[r] \notin {"unlock", "succeeded"},
           states' = states, row' = row, published \subseteq published',
           final'["journal"] = final["journal"], FinalsClean',
           \A q \in Refreshes \ {r}, f \in Files : q \notin temp'[f].open,
           Owns(r)',
           pc'[r] = "read_bundle" => OwnBundle(r)' \in published',
           pc'[r] \in SaveSteps => pc[r] \in SaveSteps
    PROVE  Alone'
<1>1. \A q \in Refreshes \ {r} : ~Active(q) /\ pc'[q] = pc[q]
  <2>1. pc \in [Refreshes -> {"new", "build"} \union SaveSteps \union PublishSteps \union Ended]
    BY DEF IInv, Typed, RefreshTypeOK
  <2> QED
    BY <2>1, OnlyOne
<1>2. JournalRows' = JournalRows /\ \A q \in Refreshes : Receipt(q)'
  <2>1. \A q \in Refreshes : pc'[q] = "succeeded" => pc[q] = "succeeded"
    BY <1>1
  <2> QED
    BY <2>1, ReceiptsStay
<1>3. StatesFollowJournal'
  <2>1. CASE states = JournalRows
    BY <1>2, <2>1 DEF StatesFollowJournal
  <2>2. CASE states # JournalRows
    <3>1. PICK q \in Refreshes : /\ pc[q] \in JournalSteps /\ ~Terminal(JournalRows[q])
                                 /\ states = [JournalRows EXCEPT ![q] = row[q]]
      BY <2>2 DEF Alone, StatesFollowJournal
    <3>2. q = r
      BY <1>1, <3>1 DEF Active, Ended, JournalSteps
    <3> QED
      BY <1>2, <3>1, <3>2 DEF StatesFollowJournal
  <2> QED
    BY <2>1, <2>2
<1>4. Backed(r)'
  BY DEF Alone, Backed
<1> QED
  BY <1>1, <1>2, <1>3, <1>4, AloneByOne

\* An outcome is on its way into the journal; a success has been published.
LEMMA RecordAlone ==
    ASSUME IInv, Alone, NEW r \in Refreshes, NEW status, NEW snapshot, Record(r, status, snapshot),
           pc[r] \in {"build", "replace_bundle", "read_bundle"}, UNCHANGED <<final, temp, states, published>>,
           status = "succeeded" => [refresh |-> r, snapshot |-> snapshot] \in published
    PROVE  Alone'
<1>1. Active(r)
  BY DEF Active, Ended
<1>2. /\ \A q \in Refreshes \ {r} : ~Active(q)
      /\ \A q \in Refreshes \ {r}, f \in Files : q \notin temp'[f].open
  BY <1>1, OnlyOne
<1>3. /\ pc'[r] \in {"raised", "lock"} /\ \A q \in Refreshes \ {r} : pc'[q] = pc[q]
      /\ row'[r] = [status |-> status, snapshot |-> snapshot]
  BY DEF IInv, Typed, RefreshTypeOK, Record, Goto
<1>4. JournalRows' = JournalRows /\ \A q \in Refreshes : Receipt(q)'
  BY <1>3, ReceiptsStay
<1>5. states = JournalRows
  BY <1>2, StatesAreJournal DEF JournalSteps
<1>6. FinalsClean' /\ StatesFollowJournal'
  BY <1>4, <1>5 DEF Alone, FinalsClean, StatesFollowJournal
<1>7. Owns(r)'
  BY <1>3 DEF Alone, Owns
<1>8. Backed(r)'
  BY <1>3 DEF Backed, Terminal, JournalSteps
<1> QED
  BY <1>2, <1>3, <1>4, <1>6, <1>7, <1>8, AloneByOne

\* A build reads, goes on to publish, or starts again.
LEMMA BuildAlone ==
    ASSUME IInv, Alone, NEW r \in Refreshes, ReadSource(r) \/ FinishBuild(r) \/ BuildAgain(r)
    PROVE  Alone'
<1>1. pc[r] = "build" /\ Active(r) /\ UNCHANGED <<final, temp, states, published>>
  BY DEF ReadSource, FinishBuild, BuildAgain, Active, Ended
<1>2. pc \in [Refreshes -> {"new", "build"} \union SaveSteps \union PublishSteps \union Ended]
  BY DEF IInv, Typed, RefreshTypeOK
<1>3. CASE Record(r, "failed", None)
  BY <1>1, <1>3, RecordAlone
<1>4. CASE pc' = [pc EXCEPT ![r] = pc'[r]] /\ pc'[r] \in {"build", "open_bundle"} /\ row' = row
  <2>1. FinalsClean' /\ Owns(r)' /\ \A q \in Refreshes \ {r}, f \in Files : q \notin temp'[f].open
    BY <1>1, <1>4, OnlyOne DEF Alone, FinalsClean, Owns
  <2> QED
    BY <1>1, <1>4, <2>1, QuietAlone DEF JournalSteps, SaveSteps
<1> QED
  BY <1>1, <1>2, <1>3, <1>4 DEF ReadSource, FinishBuild, BuildAgain, Goto

\* The only active refresh has the temporary file for itself.
LEMMA OpenAlone ==
    ASSUME IInv, Alone, NEW r \in Refreshes, OpenJournal(r) \/ OpenBundle(r)
    PROVE  Alone'
<1>1. PICK f \in Files :
         /\ OpenTemp(r, f)
         /\ (f = "journal" /\ pc[r] = "open_journal") \/ (f = "bundle" /\ pc[r] = "open_bundle")
         /\ pc' = [pc EXCEPT ![r] = IF f = "journal" THEN "write_journal" ELSE "write_bundle"]
         /\ UNCHANGED <<final, states, row, seen, published>>
  BY DEF OpenJournal, OpenBundle, Goto, Files
<1>2. Active(r)
  BY <1>1 DEF Active, Ended
<1>3. pc \in [Refreshes -> {"new", "build"} \union SaveSteps \union PublishSteps \union Ended] /\ RefreshTypeOK
  BY DEF IInv, Typed, RefreshTypeOK
<1>4. \A g \in Files : temp[g].open = {}
  <2>1. ASSUME NEW g \in Files
        PROVE  temp[g].open \subseteq Refreshes
    BY <1>3 DEF RefreshTypeOK, FilesOK, FileStates
  <2>2. ASSUME NEW g \in Files
        PROVE  r \notin temp[g].open
    BY <1>1 DEF Alone, Owns, Files
  <2> QED
    BY <1>2, <2>1, <2>2, OnlyOne
<1>5. temp'[f] = [open |-> temp[f].open \union {r}, data |-> Cut]
  BY <1>1, <1>3, OpenTyped
<1>6. \A g \in Files \ {f} : temp'[g] = temp[g]
  BY <1>1, <1>3, OpenTyped
<1>7. temp'[f] = [open |-> {r}, data |-> Cut]
  BY <1>4, <1>5
<1>8. \A q \in Refreshes \ {r}, g \in Files : q \notin temp'[g].open
  BY <1>4, <1>6, <1>7
<1>9. pc'[r] = (IF f = "journal" THEN "write_journal" ELSE "write_bundle")
  BY <1>1, <1>3
<1>10. Owns(r)'
  BY <1>1, <1>4, <1>6, <1>7, <1>9 DEF Owns, Files
<1>11. FinalsClean'
  BY <1>1 DEF Alone, FinalsClean
<1>12. pc' = [pc EXCEPT ![r] = pc'[r]]
  BY <1>1, <1>9
<1>13. /\ pc[r] \in JournalSteps <=> pc'[r] \in JournalSteps
       /\ pc'[r] \notin {"unlock", "succeeded", "read_bundle"}
       /\ pc'[r] \in SaveSteps => pc[r] \in SaveSteps
  BY <1>1, <1>9 DEF JournalSteps, SaveSteps
<1> QED
  BY <1>1, <1>2, <1>8, <1>10, <1>11, <1>12, <1>13, QuietAlone

\* What it opened is as it left it, so its text is whole.
LEMMA WriteAlone ==
    ASSUME IInv, Alone, NEW r \in Refreshes, NEW f \in Files, NEW data, WriteTemp(r, f, data),
           temp[f] = [open |-> {r}, data |-> Cut]
    PROVE  final' = final /\ temp' = [temp EXCEPT ![f] = [open |-> {}, data |-> data]]
<1>1. r \in temp[f].open /\ r \notin final[f].open
  BY DEF Alone, FinalsClean
<1>2. Written(temp[f], r, data) = {[open |-> {}, data |-> data]}
  BY DEF Written
<1> QED
  BY <1>1, <1>2 DEF WriteTemp

LEMMA WriteStepAlone ==
    ASSUME IInv, Alone, NEW r \in Refreshes, WriteJournal(r) \/ WriteBundle(r)
    PROVE  Alone'
<1>1. PICK f \in Files, data \in {states, OwnBundle(r)} :
         /\ WriteTemp(r, f, data)
         /\ \/ f = "journal" /\ pc[r] = "write_journal" /\ data = states
            \/ f = "bundle" /\ pc[r] = "write_bundle" /\ data = OwnBundle(r)
         /\ pc' = [pc EXCEPT ![r] = IF f = "journal" THEN "replace_journal" ELSE "replace_bundle"]
         /\ UNCHANGED <<states, row, seen>> /\ published \subseteq published'
  BY DEF WriteJournal, WriteBundle, Publish, Goto, Files, OwnBundle
<1>2. Active(r)
  BY <1>1 DEF Active, Ended
<1>3. pc \in [Refreshes -> {"new", "build"} \union SaveSteps \union PublishSteps \union Ended] /\ FilesOK(temp)
  BY DEF IInv, Typed, RefreshTypeOK
<1>4. temp[f] = [open |-> {r}, data |-> Cut]
  BY <1>1 DEF Alone, Owns
<1>5. final' = final /\ temp' = [temp EXCEPT ![f] = [open |-> {}, data |-> data]]
  BY <1>1, <1>4, WriteAlone
<1>6. temp'[f] = [open |-> {}, data |-> data] /\ \A g \in Files \ {f} : temp'[g] = temp[g]
  BY <1>3, <1>5 DEF FilesOK
<1>7. \A q \in Refreshes \ {r}, g \in Files : q \notin temp'[g].open
  BY <1>2, <1>6, OnlyOne
<1>8. pc'[r] = (IF f = "journal" THEN "replace_journal" ELSE "replace_bundle")
  BY <1>1, <1>3
<1>9. OwnBundle(r)' = OwnBundle(r)
  BY <1>1 DEF OwnBundle, Built, Pass
<1>10. \A g \in Files \ {f} : r \notin temp[g].open
  BY <1>1 DEF Alone, Owns, Files
<1>11. Owns(r)'
  BY <1>1, <1>6, <1>8, <1>9, <1>10 DEF Owns, Files
<1>12. FinalsClean'
  BY <1>5 DEF Alone, FinalsClean
<1>13. pc' = [pc EXCEPT ![r] = pc'[r]]
  BY <1>1, <1>8
<1>14. /\ pc[r] \in JournalSteps <=> pc'[r] \in JournalSteps
       /\ pc'[r] \notin {"unlock", "succeeded", "read_bundle"}
       /\ pc'[r] \in SaveSteps => pc[r] \in SaveSteps
  BY <1>1, <1>8 DEF JournalSteps, SaveSteps
<1> QED
  BY <1>1, <1>2, <1>5, <1>7, <1>11, <1>12, <1>13, <1>14, QuietAlone

\* What is renamed is what it wrote: the journal with its row, or its bundle.
LEMMA ReplaceJournalAlone ==
    ASSUME IInv, Alone, NEW r \in Refreshes, ReplaceJournal(r)
    PROVE  Alone'
<1>1. pc[r] = "replace_journal" /\ Active(r) /\ UNCHANGED <<states, row, seen, published>>
  BY DEF ReplaceJournal, Active, Ended
<1>2. /\ \A q \in Refreshes \ {r} : ~Active(q)
      /\ \A q \in Refreshes \ {r}, f \in Files : q \notin temp[f].open
  BY <1>1, OnlyOne
<1>3. RefreshTypeOK /\ states \in Journals /\ FilesOK(temp) /\ FilesOK(final)
      /\ pc \in [Refreshes -> {"new", "build"} \union SaveSteps \union PublishSteps \union Ended]
  BY DEF IInv, Typed, RefreshTypeOK
<1>4. temp["journal"].data = states
  BY <1>1 DEF Alone, Owns
<1>5. \A f \in Files : temp[f].open = {}
  <2>1. ASSUME NEW f \in Files
        PROVE  temp[f].open \subseteq Refreshes /\ r \notin temp[f].open
    BY <1>1, <1>3 DEF FilesOK, FileStates, Alone, Owns, Files
  <2> QED
    BY <1>2, <2>1
<1>6. states # None /\ states \notin Broken
  BY <1>3, ValueAssumption
<1>7. pc' = [pc EXCEPT ![r] = "unlock"] /\ ReplaceByTemp("journal")
  <2>1. ~TempGone("journal")
    BY <1>4, <1>6 DEF TempGone, NoFile
  <2> QED
    BY <2>1 DEF ReplaceJournal, Goto
<1>8. /\ temp'["journal"] = NoFile /\ final'["journal"] = temp["journal"]
      /\ temp'["bundle"] = temp["bundle"] /\ final'["bundle"] = final["bundle"]
  BY <1>3, <1>7, ReplaceTyped DEF Files
<1>9. JournalRows' = states
  BY <1>3, <1>4, <1>8, JournalIsText
<1>10. FinalsClean' /\ \A q \in Refreshes, f \in Files : q \notin temp'[f].open
  BY <1>4, <1>5, <1>6, <1>8 DEF Alone, FinalsClean, Files, NoFile
<1>11. StatesFollowJournal'
  BY <1>1, <1>9 DEF StatesFollowJournal
<1>12. pc'[r] = "unlock" /\ \A q \in Refreshes \ {r} : pc'[q] = pc[q]
  BY <1>3, <1>7
<1>13. Owns(r)'
  BY <1>10, <1>12 DEF Owns, Files
<1>14. states[r] = row[r] /\ (Terminal(row[r]) => [refresh |-> r, snapshot |-> row[r].snapshot] \in published)
  BY <1>1 DEF Alone, Backed, JournalSteps, SaveSteps
<1>15. Backed(r)'
  BY <1>1, <1>9, <1>12, <1>14 DEF Backed, JournalSteps
<1>16. ASSUME NEW q \in Refreshes
       PROVE  Receipt(q)'
  <2>1. ~JournalCorrupt'
    BY <1>6, <1>9 DEF JournalCorrupt
  <2>2. CASE q = r
    BY <1>1, <1>9, <1>12, <1>14, <2>2 DEF Receipt, ReceiptPublished, Terminal
  <2>3. CASE q # r
    <3>1. states[q] = JournalRows[q]
      <4>1. CASE states = JournalRows
        BY <4>1
      <4>2. CASE states # JournalRows
        <5>1. PICK p \in Refreshes : pc[p] \in JournalSteps /\ states = [JournalRows EXCEPT ![p] = row[p]]
          BY <4>2 DEF Alone, StatesFollowJournal
        <5>2. p = r
          BY <1>2, <5>1 DEF Active, Ended, JournalSteps
        <5>3. JournalRows \in Journals
          BY Readable DEF Alone
        <5> QED
          BY <2>3, <5>1, <5>2, <5>3 DEF Journals
      <4> QED
        BY <4>1, <4>2
    <3>2. ~JournalCorrupt /\ Receipt(q)
      BY Readable DEF Alone
    <3> QED
      BY <1>1, <1>9, <1>12, <2>1, <2>3, <3>1, <3>2 DEF Receipt, ReceiptPublished, Terminal
  <2> QED
    BY <2>2, <2>3
<1> QED
  BY <1>2, <1>10, <1>11, <1>12, <1>13, <1>15, <1>16, AloneByOne

LEMMA ReplaceBundleAlone ==
    ASSUME IInv, Alone, NEW r \in Refreshes, ReplaceBundle(r)
    PROVE  Alone'
<1>1. pc[r] = "replace_bundle" /\ Active(r)
  BY DEF ReplaceBundle, Active, Ended
<1>2. \A q \in Refreshes \ {r}, f \in Files : q \notin temp[f].open
  BY <1>1, OnlyOne
<1>3. RefreshTypeOK /\ FilesOK(temp)
      /\ pc \in [Refreshes -> {"new", "build"} \union SaveSteps \union PublishSteps \union Ended]
  BY DEF IInv, Typed, RefreshTypeOK
<1>4. OwnBundle(r) \in Bundles
  <2>1. Built(r) \in Snapshots
    BY <1>1, BuiltTyped DEF IInv, BuildsAgree, PublishSteps
  <2> QED
    BY <2>1 DEF OwnBundle, Bundles
<1>5. temp["bundle"].data = OwnBundle(r)
  BY <1>1 DEF Alone, Owns
<1>6. OwnBundle(r) # None /\ OwnBundle(r) \notin Broken
  BY <1>4, ValueAssumption
<1>7. temp["bundle"].open = {}
  <2>1. temp["bundle"].open \subseteq Refreshes /\ r \notin temp["bundle"].open
    BY <1>1, <1>3 DEF FilesOK, FileStates, Alone, Owns, Files
  <2> QED
    BY <1>2, <2>1 DEF Files
<1>8. pc' = [pc EXCEPT ![r] = "read_bundle"] /\ ReplaceByTemp("bundle") /\ Publish /\ UNCHANGED <<row, seen, states>>
  <2>1. ~TempGone("bundle")
    BY <1>5, <1>6 DEF TempGone, NoFile
  <2> QED
    BY <2>1 DEF ReplaceBundle, Goto
<1>9. /\ temp'["bundle"] = NoFile /\ final'["bundle"] = temp["bundle"]
      /\ temp'["journal"] = temp["journal"] /\ final'["journal"] = final["journal"]
  BY <1>3, <1>8, ReplaceTyped DEF Files
<1>10. published \subseteq published' /\ OwnBundle(r) \in published'
  BY <1>4, <1>5, <1>8, <1>9 DEF Publish
<1>11. OwnBundle(r)' = OwnBundle(r)
  BY <1>8 DEF OwnBundle, Built, Pass
<1>12. FinalsClean' /\ \A q \in Refreshes \ {r}, f \in Files : q \notin temp'[f].open
  BY <1>2, <1>5, <1>6, <1>7, <1>9 DEF Alone, FinalsClean, Files, NoFile
<1>13. pc'[r] = "read_bundle" /\ pc' = [pc EXCEPT ![r] = pc'[r]]
  BY <1>3, <1>8
<1>14. Owns(r)'
  <2>1. r \notin temp["journal"].open
    BY <1>1 DEF Alone, Owns
  <2> QED
    BY <1>9, <1>13, <2>1 DEF Owns, NoFile
<1>15. /\ pc[r] \in JournalSteps <=> pc'[r] \in JournalSteps
       /\ pc'[r] \notin {"unlock", "succeeded"} /\ pc'[r] \notin SaveSteps
  BY <1>1, <1>13 DEF JournalSteps, SaveSteps
<1> QED
  BY <1>1, <1>8, <1>9, <1>10, <1>11, <1>12, <1>13, <1>14, <1>15, QuietAlone

LEMMA UnlockAlone ==
    ASSUME IInv, Alone, NEW r \in Refreshes, UnlockJournal(r)
    PROVE  Alone'
<1>1. pc[r] = "unlock" /\ Active(r) /\ UNCHANGED <<final, temp, states, row, seen, published>>
  BY DEF UnlockJournal, Active, Ended
<1>2. /\ \A q \in Refreshes \ {r} : ~Active(q)
      /\ \A q \in Refreshes \ {r}, f \in Files : q \notin temp'[f].open
  BY <1>1, OnlyOne
<1>3. row[r] \in Rows /\ row[r] # None
  BY <1>1, ValueAssumption DEF IInv, Typed, RefreshTypeOK, SaveSteps
<1>4. AfterSave(r) \in {"build", "failed", "succeeded"} /\ (AfterSave(r) = "succeeded" => Terminal(row[r]))
  BY <1>3 DEF AfterSave, Rows, Terminal
<1>5. pc'[r] = AfterSave(r) /\ \A q \in Refreshes \ {r} : pc'[q] = pc[q]
  BY DEF IInv, Typed, RefreshTypeOK, UnlockJournal, Goto
<1>6. JournalRows[r] = row[r]
  BY <1>1 DEF Alone, Backed
<1>7. JournalRows' = JournalRows /\ \A q \in Refreshes : Receipt(q)'
  BY <1>1, <1>4, <1>5, <1>6, ReceiptsStay
<1>8. states = JournalRows
  BY <1>1, <1>2, StatesAreJournal DEF JournalSteps
<1>9. FinalsClean' /\ StatesFollowJournal'
  BY <1>1, <1>7, <1>8 DEF Alone, FinalsClean, StatesFollowJournal
<1>10. Owns(r)' /\ Backed(r)'
  BY <1>1, <1>4, <1>5 DEF Alone, Owns, Backed, JournalSteps, SaveSteps
<1> QED
  BY <1>2, <1>5, <1>7, <1>9, <1>10, AloneByOne

\* A restart leaves the files, and the journal is loaded again.
LEMMA RestartAlone ==
    ASSUME IInv, Alone, Restart
    PROVE  Alone'
<1>1. /\ UNCHANGED published /\ states' = JournalRows
      /\ pc' = [r \in Refreshes |-> IF pc[r] \in {"new", "succeeded"} THEN pc[r]
                                   ELSE IF JournalRows[r] = None THEN "forgotten" ELSE "dead"]
      /\ final' = [f \in Files |-> [final[f] EXCEPT !.open = {}]]
      /\ temp' = [f \in Files |-> [temp[f] EXCEPT !.open = {}]]
  BY DEF Restart
<1>2. \A f \in Files : final'[f] = final[f] /\ temp'[f].open = {}
  <2>1. \A f \in Files : final[f] \in FileStates(f) /\ temp[f] \in FileStates(f) /\ final[f].open = {}
    BY DEF IInv, Typed, RefreshTypeOK, FilesOK, Alone, FinalsClean
  <2> QED
    BY <1>1, <2>1 DEF FileStates
<1>3. \A r \in Refreshes : pc'[r] \in {"new"} \union Ended /\ (pc'[r] = "succeeded" => pc[r] = "succeeded")
  BY <1>1 DEF Active, Ended
<1>4. JournalRows' = JournalRows /\ \A q \in Refreshes : Receipt(q)'
  BY <1>1, <1>2, <1>3, ReceiptsStay DEF Files
<1>5. FinalsClean' /\ StatesFollowJournal' /\ OneAtATime'
  BY <1>1, <1>2, <1>3, <1>4 DEF Alone, FinalsClean, StatesFollowJournal, OneAtATime, Active
<1>6. \A r \in Refreshes : Owns(r)' /\ Backed(r)'
  BY <1>2, <1>3 DEF Owns, Backed, Files, Ended, SaveSteps, JournalSteps
<1> QED
  BY <1>4, <1>5, <1>6 DEF Alone

LEMMA AloneStep ==
    ASSUME IInv, AInv, [Next]_vars
    PROVE  AInv'
<1>1. ~overlapped' => ~overlapped
  BY DEF Next, Refresh, Request, Retry, LockJournal, OpenJournal, WriteJournal, ReplaceJournal,
        UnlockJournal, ReadSource, FinishBuild, BuildAgain, OpenBundle, WriteBundle, ReplaceBundle, ReadBundle,
        ReadProjection, ReadHead, Answer, Domain, ChangeSource, BeginAppend, EndAppend, Restart, refreshVars, vars
<1>2. SUFFICES ASSUME ~overlapped', Alone
               PROVE  Alone'
  BY <1>1 DEF AInv
<1>3. ASSUME NEW r \in Refreshes, ReadBundle(r)
      PROVE  Alone'
  <2>1. pc[r] = "read_bundle" /\ UNCHANGED <<final, temp, states, published>>
    BY <1>3 DEF ReadBundle
  <2>2. CASE Record(r, "failed", None)
    BY <1>2, <2>1, <2>2, RecordAlone
  <2>3. CASE Record(r, "succeeded", Built(r))
    <3>1. [refresh |-> r, snapshot |-> Built(r)] \in published
      BY <1>2, <2>1 DEF Alone, Backed, OwnBundle
    <3> QED
      BY <1>2, <2>1, <2>3, <3>1, RecordAlone
  <2> QED
    BY <1>3, <2>2, <2>3 DEF ReadBundle
<1>4. ASSUME UNCHANGED <<final, temp, states, pc, seen, row, published>>
      PROVE  Alone'
  <2>1. FinalsClean' /\ OneAtATime' /\ JournalRows' = JournalRows /\ JournalCorrupt' = JournalCorrupt
    BY <1>2, <1>4 DEF Alone, OneAtATime, Active, FinalsClean, JournalRows, JournalCorrupt
  <2>2. StatesFollowJournal'
    BY <1>2, <1>4, <2>1 DEF Alone, StatesFollowJournal
  <2>3. ASSUME NEW r \in Refreshes
        PROVE  Owns(r)' /\ Backed(r)' /\ Receipt(r)'
    <3>1. OwnBundle(r)' = OwnBundle(r)
      BY <1>4 DEF OwnBundle, Built, Pass
    <3>2. Owns(r) /\ Backed(r) /\ Receipt(r)
      BY <1>2 DEF Alone
    <3>3. Owns(r)'
      BY <1>4, <3>1, <3>2 DEF Owns
    <3>4. Backed(r)'
      BY <1>4, <2>1, <3>1, <3>2 DEF Backed
    <3>5. Receipt(r)'
      BY <1>4, <2>1, <3>2 DEF Receipt, ReceiptPublished
    <3> QED
      BY <3>3, <3>4, <3>5
  <2> QED
    BY <2>1, <2>2, <2>3 DEF Alone
<1>5. ASSUME ReadProjection \/ ReadHead \/ Answer \/ Domain \/ UNCHANGED vars
      PROVE  UNCHANGED <<final, temp, states, pc, seen, row, published>>
  BY <1>5 DEF ReadProjection, ReadHead, Answer, Domain, ChangeSource, BeginAppend, EndAppend, refreshVars, vars
<1> QED
  BY <1>2, <1>3, <1>4, <1>5, BeginAlone, LockAlone, BuildAlone, OpenAlone, WriteStepAlone, ReplaceJournalAlone,
     ReplaceBundleAlone, UnlockAlone, RestartAlone DEF Next, Refresh

LEMMA InitAInv == Init => AInv
<1> SUFFICES ASSUME Init PROVE Alone
  BY DEF AInv
<1>1. /\ final["journal"] = NoFile /\ NoFile.open = {} /\ NoFile.data = None
      /\ \A f \in Files : final[f] = NoFile /\ temp[f] = NoFile
  BY DEF Init, Files, NoFile
<1>2. JournalRows = Empty /\ states = Empty /\ Empty \notin Broken
  <2>1. Empty \in Journals
    BY DEF Empty, Journals
  <2> QED
    BY <1>1, <2>1, ValueAssumption DEF Init, JournalRows
<1>3. \A r \in Refreshes : pc[r] = "new" /\ ~Terminal(JournalRows[r])
  BY <1>2 DEF Init, Terminal, Empty
<1>4. FinalsClean /\ OneAtATime /\ StatesFollowJournal
  BY <1>1, <1>2, <1>3, ValueAssumption DEF FinalsClean, OneAtATime, Active, StatesFollowJournal
<1>5. \A r \in Refreshes : Owns(r) /\ Backed(r) /\ Receipt(r)
  BY <1>1, <1>3 DEF Owns, Backed, Receipt, ReceiptPublished, Files, SaveSteps, JournalSteps
<1> QED
  BY <1>4, <1>5 DEF Alone

\* As long as refreshes do not overlap, whatever restarts and repetitions there are, every
\* success in the journal was published and every success reported is in the journal
\* (workspace_refresh.py:107-142, repository.py:185-213).
THEOREM AloneReceiptsAlwaysHold == Spec => []AloneReceiptsHold
<1>1. AInv => AloneReceiptsHold
  BY DEF AInv, Alone, Receipt, AloneReceiptsHold
<1>2. IInv /\ AInv /\ [Next]_vars => AInv'
  BY AloneStep
<1> QED
  BY <1>1, <1>2, InitAInv, RefreshInvariant, PTL DEF Spec

==============================================================================
