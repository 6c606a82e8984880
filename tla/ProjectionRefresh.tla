--------------------------- MODULE ProjectionRefresh ---------------------------
(***************************************************************************)
(* The projection of a project: what the web workspace shows is a bundle   *)
(* that a refresh builds from the authoritative files and publishes, and   *)
(* that a query compares with those files (creative_os/projection/,        *)
(* workspace_refresh.py, workspace_query.py).                              *)
(*                                                                         *)
(* Refreshes are threads of one server with one coordinator.  Nothing      *)
(* orders them: each reads the sources one after another, writes the       *)
(* bundle through a temporary file of a fixed name, and keeps a row in a   *)
(* journal whose lock file a refresh that cannot have it removes.          *)
(*                                                                         *)
(* The head of a source is the hash of one file.  The facts of the reader  *)
(* engagement rest on two more, the journal of an append and the head file *)
(* of its records: while a record is appended they read as a broken chain, *)
(* and no head tells of it.                                                *)
(***************************************************************************)
EXTENDS Naturals, Sequences, FiniteSets

CONSTANTS Refreshes,    \* refresh ids
          SourceCount,  \* the authoritative files, in the order they are read
          Journalled,   \* those whose facts do not verify while a record is appended
          Unverified,   \* what the facts of such a source then are
          MaxAttempts,  \* how often a build starts again when the sources drift
          MaxRetries,   \* bound on the repetitions of a failed refresh
          MaxWrites,    \* bound on the changes of a source
          MaxCrashes,   \* bound on the restarts of the server
          None,         \* no file, no row, no bundle
          Cut, Torn     \* not JSON yet, or JSON of two writers

ASSUME RefreshAssumption ==
    /\ {SourceCount, MaxAttempts} \subseteq Nat \ {0}
    /\ {MaxRetries, MaxWrites, MaxCrashes} \subseteq Nat
    /\ Journalled \subseteq 1..SourceCount
    /\ Unverified \notin 0..MaxWrites

Sources == 1..SourceCount
Files == {"bundle", "journal"}

VARIABLES source,      \* the version of each source; it only grows
          appending,   \* how far an append to a journalled source is
          final, temp, \* each file and its temporary file: who writes it, what it holds
          lock,        \* the lock file of the journal is there
          states,      \* the coordinator's rows
          pc,          \* where each refresh is
          seen,        \* what its build has read
          row,         \* the row it is about to save
          attempts, retries,
          query,       \* the query in progress: where, what it read, since when
          overlapped,  \* two refreshes were in progress at once
          published,   \* bundles that have been in the bundle file
          crashes

refreshVars == <<source, appending, final, temp, lock, states, pc, seen, row, attempts, retries, overlapped, published>>
vars == <<refreshVars, query, crashes>>

------------------------------------------------------------------------------
(* Types *)

Vectors == [Sources -> 0..MaxWrites]
Readings == 0..MaxWrites \union {Unverified}
Snapshots == [heads : Vectors, facts : [Sources -> Readings]]
Bundles == [refresh : Refreshes, snapshot : Snapshots]

\* A row is terminal when its refresh succeeded.
Rows == [status : {"requested", "failed"}, snapshot : {None}] \union [status : {"succeeded"}, snapshot : Snapshots]
Journals == [Refreshes -> Rows \union {None}]
Empty == [r \in Refreshes |-> None]

Broken == {Cut, Torn}

\* What cannot be read is neither a bundle nor a journal, and no row is missing.
ASSUME ValueAssumption ==
    /\ \A v \in Broken \union {None} : v \notin Bundles \union Journals
    /\ None \notin Broken \union Rows

NoFile == [open |-> {}, data |-> None]

Ended == {"succeeded", "failed", "raised", "dead", "forgotten"}
SaveSteps == {"lock", "open_journal", "write_journal", "replace_journal", "unlock"}
PublishSteps == {"open_bundle", "write_bundle", "replace_bundle", "read_bundle"}

Contents(f) == IF f = "bundle" THEN Bundles ELSE Journals
FileStates(f) == [open : SUBSET Refreshes, data : Contents(f) \union Broken \union {None}]

\* A file with nothing in it is no file.
FilesOK(file) ==
    /\ file = [f \in Files |-> file[f]]
    /\ \A f \in Files : file[f] \in FileStates(f) /\ (file[f].data = None => file[f] = NoFile)

RefreshTypeOK ==
    /\ source \in Vectors
    /\ appending \in [Journalled -> {"no", "journal", "records"}]
    /\ FilesOK(final) /\ FilesOK(temp)
    /\ lock \in BOOLEAN /\ overlapped \in BOOLEAN
    /\ states \in Journals
    /\ pc \in [Refreshes -> {"new", "build"} \union SaveSteps \union PublishSteps \union Ended]
    /\ row \in [Refreshes -> Rows \union {None}]
    /\ published \subseteq Bundles

\* A query that holds nothing: none is in progress, or it has no bundle to answer with.
Query(at) == [at |-> at, snapshot |-> None, heads |-> <<>>, since |-> <<>>]

Init ==
    /\ source = [s \in Sources |-> 0] /\ appending = [s \in Journalled |-> "no"]
    /\ final = [f \in Files |-> NoFile] /\ temp = [f \in Files |-> NoFile]
    /\ lock = FALSE /\ states = Empty
    /\ pc = [r \in Refreshes |-> "new"]
    /\ seen = [r \in Refreshes |-> <<>>]
    /\ row = [r \in Refreshes |-> None]
    /\ attempts = [r \in Refreshes |-> 0] /\ retries = 0
    /\ query = Query("idle")
    /\ overlapped = FALSE /\ published = {} /\ crashes = 0

Goto(r, step) == pc' = [pc EXCEPT ![r] = step]
Active(r) == pc[r] \notin {"new"} \union Ended

------------------------------------------------------------------------------
(* Files that are written through one temporary file (_atomic_write, save).  *)
(* Whoever opens it truncates it for all; a writer whose file was renamed    *)
(* by another goes on writing the renamed one.                               *)

OpenTemp(r, f) ==
    temp' = [temp EXCEPT ![f] = [open |-> @.open \union {r}, data |-> Cut]]

\* What a file holds after r wrote data into it: a longer text of another writer shows.
Written(file, r, data) ==
    {[open |-> file.open \ {r}, data |-> d] : d \in {data} \union (IF file.data = Cut THEN {} ELSE {Torn})}

WriteTemp(r, f, data) ==
    /\ IF r \in temp[f].open
       THEN \E file \in Written(temp[f], r, data) : temp' = [temp EXCEPT ![f] = file]
       ELSE UNCHANGED temp
    /\ IF r \in final[f].open
       THEN \E file \in Written(final[f], r, data) : final' = [final EXCEPT ![f] = file]
       ELSE UNCHANGED final

TempGone(f) == temp[f] = NoFile

ReplaceByTemp(f) ==
    /\ final' = [final EXCEPT ![f] = temp[f]]
    /\ temp' = [temp EXCEPT ![f] = NoFile]

------------------------------------------------------------------------------
(* The journal (FileRefreshStateStore) *)

JournalRows == IF final["journal"] = NoFile THEN Empty ELSE final["journal"].data
JournalCorrupt == JournalRows \in Broken

Terminal(value) == value # None /\ value.status = "succeeded"

TerminalConflict(r) == Terminal(JournalRows[r]) /\ JournalRows[r] # row[r]

\* A refresh that finds the lock file, or a journal it cannot use, raises and removes it.
LockJournal(r) ==
    /\ pc[r] = "lock"
    /\ IF lock \/ JournalCorrupt
       THEN lock' = FALSE /\ Goto(r, "raised") /\ UNCHANGED states
       ELSE IF TerminalConflict(r)
       THEN Goto(r, "raised") /\ UNCHANGED <<lock, states>>
       ELSE lock' = TRUE /\ Goto(r, "open_journal") /\ states' = [JournalRows EXCEPT ![r] = row[r]]
    /\ UNCHANGED <<source, appending, final, temp, seen, row, attempts, retries, overlapped, published, query, crashes>>

OpenJournal(r) ==
    /\ pc[r] = "open_journal"
    /\ OpenTemp(r, "journal") /\ Goto(r, "write_journal")
    /\ UNCHANGED <<source, appending, final, lock, states, seen, row, attempts, retries, overlapped, published, query, crashes>>

\* The rows are those of the coordinator, whoever set them last.
WriteJournal(r) ==
    /\ pc[r] = "write_journal"
    /\ WriteTemp(r, "journal", states) /\ Goto(r, "replace_journal")
    /\ UNCHANGED <<source, appending, lock, states, seen, row, attempts, retries, overlapped, published, query, crashes>>

\* Without the temporary file the refresh raises, and removes the lock file all the same.
ReplaceJournal(r) ==
    /\ pc[r] = "replace_journal"
    /\ IF TempGone("journal")
       THEN Goto(r, "raised") /\ lock' = FALSE /\ UNCHANGED <<final, temp>>
       ELSE Goto(r, "unlock") /\ ReplaceByTemp("journal") /\ UNCHANGED lock
    /\ UNCHANGED <<source, appending, states, seen, row, attempts, retries, overlapped, published, query, crashes>>

AfterSave(r) == IF row[r].status = "requested" THEN "build" ELSE row[r].status

UnlockJournal(r) ==
    /\ pc[r] = "unlock"
    /\ lock' = FALSE /\ Goto(r, AfterSave(r))
    /\ UNCHANGED <<source, appending, final, temp, states, seen, row, attempts, retries, overlapped, published, query, crashes>>

\* The row of the outcome is saved; a refresh whose own row the coordinator has lost raises.
Record(r, status, snapshot) ==
    /\ row' = [row EXCEPT ![r] = [status |-> status, snapshot |-> snapshot]]
    /\ seen' = [seen EXCEPT ![r] = <<>>]
    /\ Goto(r, IF states[r] = None THEN "raised" ELSE "lock")

------------------------------------------------------------------------------
(* A refresh (ProjectionRefreshCoordinator, RepositoryRefreshBuilder) *)

Request(r) ==
    /\ pc[r] = "new"
    /\ row' = [row EXCEPT ![r] = [status |-> "requested", snapshot |-> None]]
    /\ Goto(r, "lock")
    /\ overlapped' = (overlapped \/ \E q \in Refreshes \ {r} : Active(q))
    /\ UNCHANGED <<source, appending, final, temp, lock, states, seen, attempts, retries, published, query, crashes>>

\* A refresh that succeeded answers with its receipt again, any other that the
\* coordinator knows of builds again, with or without a row.
Retry(r) ==
    /\ pc[r] \in {"failed", "raised", "dead"} /\ retries < MaxRetries
    /\ retries' = retries + 1
    /\ Goto(r, IF Terminal(states[r]) THEN "succeeded" ELSE "build")
    /\ seen' = [seen EXCEPT ![r] = <<>>]
    /\ overlapped' = (overlapped \/ \E q \in Refreshes \ {r} : Active(q))
    /\ UNCHANGED <<source, appending, final, temp, lock, states, row, attempts, published, query, crashes>>

\* What the facts of a source are.  A reading that found no journal yet may still meet
\* the new records together with their head file.
FactsOf(s) ==
    IF s \notin Journalled \/ appending[s] = "no" THEN {source[s]}
    ELSE {Unverified} \union (IF appending[s] = "records" THEN {source[s]} ELSE {})

\* read_head, read_facts, read_head: one source at a time.
ReadSource(r) ==
    /\ pc[r] = "build" /\ Len(seen[r]) < 3 * SourceCount
    /\ LET n == Len(seen[r])
           s == (n % SourceCount) + 1
       IN \E v \in (IF n \in SourceCount..(2 * SourceCount - 1) THEN FactsOf(s) ELSE {source[s]}) :
              seen' = [seen EXCEPT ![r] = Append(@, v)]
    /\ UNCHANGED <<source, appending, final, temp, lock, states, pc, row, attempts, retries, overlapped, published, query, crashes>>

Pass(r, n) == [s \in Sources |-> seen[r][n * SourceCount + s]]

\* Mutant: the heads are not read again.
DriftUnnoticed(r) == FALSE
Drifted(r) == Pass(r, 0) # Pass(r, 2)

Built(r) == [heads |-> Pass(r, 2), facts |-> Pass(r, 1)]

\* Mutant: the receipt is stored first and the bundle is published afterwards.
RecordFirst(r) ==
    /\ pc[r] = "build" /\ Len(seen[r]) = 3 * SourceCount
    /\ ~Drifted(r)
    /\ Record(r, "succeeded", Built(r))
    /\ UNCHANGED <<source, appending, final, temp, lock, states, attempts, retries, overlapped, published, query, crashes>>

\* The two readings of the heads agree.
FinishBuild(r) ==
    /\ pc[r] = "build" /\ Len(seen[r]) = 3 * SourceCount
    /\ ~Drifted(r)
    /\ Goto(r, "open_bundle") /\ attempts' = [attempts EXCEPT ![r] = 0]
    /\ UNCHANGED <<source, appending, final, temp, lock, states, seen, row, retries, overlapped, published, query, crashes>>

\* The sources changed during the build: it starts again, or gives up.
BuildAgain(r) ==
    /\ pc[r] = "build" /\ Len(seen[r]) = 3 * SourceCount
    /\ Drifted(r)
    /\ IF attempts[r] + 1 < MaxAttempts
       THEN attempts' = [attempts EXCEPT ![r] = @ + 1] /\ seen' = [seen EXCEPT ![r] = <<>>] /\ UNCHANGED <<pc, row>>
       ELSE attempts' = [attempts EXCEPT ![r] = 0] /\ Record(r, "failed", None)
    /\ UNCHANGED <<source, appending, final, temp, lock, states, retries, overlapped, published, query, crashes>>

OpenBundle(r) ==
    /\ pc[r] = "open_bundle"
    /\ OpenTemp(r, "bundle") /\ Goto(r, "write_bundle")
    /\ UNCHANGED <<source, appending, final, lock, states, seen, row, attempts, retries, overlapped, published, query, crashes>>

\* What the bundle file holds now has been published.
Publish == published' = published \union ({final'["bundle"].data} \cap Bundles)

WriteBundle(r) ==
    /\ pc[r] = "write_bundle"
    /\ WriteTemp(r, "bundle", [refresh |-> r, snapshot |-> Built(r)]) /\ Goto(r, "replace_bundle")
    /\ Publish
    /\ UNCHANGED <<source, appending, lock, states, seen, row, attempts, retries, overlapped, query, crashes>>

ReplaceBundle(r) ==
    /\ pc[r] = "replace_bundle"
    /\ IF TempGone("bundle")
       THEN Record(r, "failed", None) /\ UNCHANGED <<final, temp, published>>
       ELSE Goto(r, "read_bundle") /\ ReplaceByTemp("bundle") /\ Publish /\ UNCHANGED <<row, seen>>
    /\ UNCHANGED <<source, appending, lock, states, attempts, retries, overlapped, query, crashes>>

\* publish reads back what is there, its own bundle or another's.
ReadBundle(r) ==
    /\ pc[r] = "read_bundle"
    /\ IF final["bundle"].data \in Broken
       THEN Record(r, "failed", None) ELSE Record(r, "succeeded", Built(r))
    /\ UNCHANGED <<source, appending, final, temp, lock, states, attempts, retries, overlapped, published, query, crashes>>

------------------------------------------------------------------------------
(* A query (WorkspaceQueryAdapter.get_workspace) and the rest of the program *)

ReadProjection ==
    /\ query.at = "idle"
    /\ query' = IF final["bundle"] = NoFile \/ final["bundle"].data \in Broken THEN Query("unavailable")
                ELSE [at |-> "heads", snapshot |-> final["bundle"].data.snapshot, heads |-> <<>>, since |-> source]
    /\ UNCHANGED <<refreshVars, crashes>>

\* Mutant: the bundle is taken for fresh whatever the heads are.
AlwaysFresh(heads) == "fresh"
Freshness(heads) == IF heads = query.snapshot.heads THEN "fresh" ELSE "stale"

ReadHead ==
    /\ query.at = "heads"
    /\ LET heads == Append(query.heads, source[Len(query.heads) + 1])
       IN query' = IF Len(heads) < SourceCount THEN [query EXCEPT !.heads = heads]
                   ELSE IF Freshness(heads) = "stale" THEN Query("stale")
                   ELSE [query EXCEPT !.at = "fresh", !.heads = <<>>]
    /\ UNCHANGED <<refreshVars, crashes>>

Answer ==
    /\ query.at \in {"fresh", "stale", "unavailable"}
    /\ query' = Query("idle")
    /\ UNCHANGED <<refreshVars, crashes>>

\* The bound: once a source has changed so often, none changes any more.
MayChange == \A s \in Sources : source[s] < MaxWrites

\* An append begins with its journal.
BeginAppend(s) ==
    /\ appending[s] = "no" /\ MayChange
    /\ appending' = [appending EXCEPT ![s] = "journal"]
    /\ UNCHANGED <<source, final, temp, lock, states, pc, seen, row, attempts, retries, overlapped, published, query, crashes>>

\* The domain writes one of its files; an append, whose journal is there, its records.
ChangeSource(s) ==
    /\ MayChange
    /\ source' = [source EXCEPT ![s] = @ + 1]
    /\ IF s \in Journalled
       THEN appending[s] = "journal" /\ appending' = [appending EXCEPT ![s] = "records"]
       ELSE UNCHANGED appending
    /\ UNCHANGED <<final, temp, lock, states, pc, seen, row, attempts, retries, overlapped, published, query, crashes>>

\* The head file is written and the journal removed.  A writer that dies before that
\* leaves the source as it is: nothing goes on with its append.
EndAppend(s) ==
    /\ appending[s] = "records"
    /\ appending' = [appending EXCEPT ![s] = "no"]
    /\ UNCHANGED <<source, final, temp, lock, states, pc, seen, row, attempts, retries, overlapped, published, query, crashes>>

\* The server dies; its successor knows the refreshes of the journal, or does not start.
Restart ==
    /\ crashes < MaxCrashes /\ ~JournalCorrupt
    /\ crashes' = crashes + 1
    /\ states' = JournalRows
    /\ pc' = [r \in Refreshes |-> IF pc[r] \in {"new", "succeeded"} THEN pc[r]
                                 ELSE IF JournalRows[r] = None THEN "forgotten" ELSE "dead"]
    /\ seen' = [r \in Refreshes |-> <<>>] /\ attempts' = [r \in Refreshes |-> 0]
    /\ final' = [f \in Files |-> [final[f] EXCEPT !.open = {}]]
    /\ temp' = [f \in Files |-> [temp[f] EXCEPT !.open = {}]]
    /\ query' = Query("idle")
    /\ UNCHANGED <<source, appending, lock, row, retries, overlapped, published>>

Refresh(r) ==
    \/ Request(r) \/ Retry(r) \/ LockJournal(r) \/ OpenJournal(r) \/ WriteJournal(r) \/ ReplaceJournal(r) \/ UnlockJournal(r)
    \/ ReadSource(r) \/ FinishBuild(r) \/ BuildAgain(r)
    \/ OpenBundle(r) \/ WriteBundle(r) \/ ReplaceBundle(r) \/ ReadBundle(r)

Domain ==
    \/ \E s \in Sources : ChangeSource(s)
    \/ \E s \in Journalled : BeginAppend(s) \/ EndAppend(s)

Next ==
    \/ \E r \in Refreshes : Refresh(r)
    \/ ReadProjection \/ ReadHead \/ Answer
    \/ Domain
    \/ Restart

Spec == Init /\ [][Next]_vars

------------------------------------------------------------------------------
(* Properties *)

\* What a snapshot shows of a source is what its head stands for, or does not verify.
IsMoment(snapshot) ==
    \A s \in Sources :
        \/ snapshot.facts[s] = snapshot.heads[s]
        \/ s \in Journalled /\ snapshot.facts[s] = Unverified

\* What is published was true at one moment: the sources had the versions that the facts
\* were read from all at once, although they are read one by one; only of a source that a
\* record was being appended to may it say instead that it does not verify
\* (builder.py:61-99, reader_engagement_store.py:215-244).
SnapshotIsAMoment == \A b \in published : IsMoment(b.snapshot)

\* A query that says fresh shows no version that was out of date when it began, whatever
\* refreshes, appends and changes ran meanwhile (workspace_query.py:17-40).
FreshIsCurrent ==
    query.at = "fresh" => \A s \in Sources :
        \/ s \in Journalled /\ query.snapshot.facts[s] = Unverified
        \/ query.snapshot.facts[s] >= query.since[s]

\* Not so, and in no run: when no append is in progress, a bundle that a query would call
\* fresh verifies.  One that was built in the middle of an append stays fresh after it, for
\* the journal goes without a trace in the heads (filesystem_source.py:49-50).
FreshIsVerified ==
    \A b \in {final["bundle"].data} \cap Bundles :
        b.snapshot.heads = source /\ (\A s \in Journalled : appending[s] = "no")
            => \A s \in Journalled : b.snapshot.facts[s] # Unverified

\* A success that the journal tells of has been in the bundle file under the same refresh id.
ReceiptPublished(r) ==
    ~JournalCorrupt /\ Terminal(JournalRows[r]) => [refresh |-> r, snapshot |-> JournalRows[r].snapshot] \in published
ReceiptAlwaysPublished == \A r \in Refreshes : ReceiptPublished(r)

\* As long as one refresh runs at a time, restarts and repetitions included, every success
\* has been published, and one that was reported is in the journal
\* (workspace_refresh.py:107-142, repository.py:185-213).
AloneReceiptsHold ==
    ~overlapped => \A r \in Refreshes :
        /\ ReceiptPublished(r)
        /\ pc[r] = "succeeded" => ~JournalCorrupt /\ Terminal(JournalRows[r])
==============================================================================
