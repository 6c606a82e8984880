--------------------------- MODULE PublicationStores ---------------------------
(***************************************************************************)
(* The three append-only stores of a publication migration: split plans    *)
(* and the human decisions on them                                         *)
(* (runtime/publication_split_approval_store.py), dispositions of chapter  *)
(* lengths (runtime/publication_length_disposition_store.py), and manifests *)
(* and checkpoints with the pointer to the active edition                  *)
(* (runtime/publication_migration_store.py).                               *)
(*                                                                         *)
(* Each keeps the files records, head and journal, which it replaces one   *)
(* at a time and atomically, under a lock of its own.  An envelope contains *)
(* the hash of the one before it: it is represented by the log that ends   *)
(* with it, and so is the head that names it.  A step is one write with    *)
(* the checks before it; the process may die between any two.              *)
(***************************************************************************)
EXTENDS PublicationPolicy

CONSTANTS Plans,           \* split plan candidates [id, migration, blocking]
          Votes,           \* who decides on a plan, and why
          Bodies,          \* chapter bodies by their number of characters
          Policy,          \* the length policy
          Times,           \* when a disposition is given
          Manifests,       \* manifests [id, status, edition]
          Checkpoints,     \* phase and batch of a checkpoint
          Outputs,         \* what a checkpoint records
          MaxRecords,      \* bound on the records of all stores together
          MaxCrashes,      \* bound on the failures
          MaxBusy,         \* bound on the stores in an operation at a time
          NoFile, None     \* an absent file; no edition

ASSUME PublicationAssumption ==
    /\ MaxRecords \in Nat /\ MaxCrashes \in Nat /\ MaxBusy \in Nat
    /\ ValidPolicy(Policy)
    /\ None \notin Manifests
    /\ \A p \in Plans : p.blocking \in BOOLEAN

VARIABLES records, head, journal,      \* the files of each store
          pointer, pointer_journal,    \* active_edition.json and its journal
          op,                          \* the operation each store is in
          answered,                    \* entries whose append returned
          intact,                      \* the archive and the frozen chapters are as reviewed
          crashes

vars == <<records, head, journal, pointer, pointer_journal, op, answered, intact, crashes>>
files == <<records, head, journal, pointer, pointer_journal>>

------------------------------------------------------------------------------
(* What is stored.  The key of a disposition contains the interval, which    *)
(* the body and the policy determine.  A decision is compared with an        *)
(* existing one without its time, a disposition with it.                     *)

Stores == {"split_approvals", "length_dispositions", "publication_migration"}

Candidate(p) == [kind |-> "candidate", of |-> p]
Candidates   == {Candidate(p) : p \in Plans}
Decisions    == [kind : {"decision"}, of : Plans, by : Votes, approved : BOOLEAN]
Dispositions == [kind : {"disposition"}, of : Bodies, by : Votes, at : Times]
ManifestEntries   == [kind : {"manifest"}, of : Manifests]
CheckpointEntries == [kind : {"checkpoint"}, of : Checkpoints, output : Outputs]

Entries == Candidates \union Decisions \union Dispositions
           \union ManifestEntries \union CheckpointEntries

StoreOf(e) ==
    CASE e \in Candidates \union Decisions -> "split_approvals"
      [] e \in Dispositions -> "length_dispositions"
      [] OTHER -> "publication_migration"

\* What a store holds, and the files of the pointer.
Of(s) == {e \in Entries : StoreOf(e) = s}
Activations == [expected : Manifests \union {None}, candidate : Manifests]

ASSUME FileAssumption == NoFile \notin Seq(Entries) /\ NoFile \notin Activations

Key(e) == <<e.kind, e.of>>

\* Mutant: only an equal entry counts.
KeyTakenByContent(e, log) == {f \in Range(log) : f = e}
KeyTaken(e, log) == {f \in Range(log) : Key(f) = Key(e)}

\* The last candidate of a migration.
Current(log, migration) ==
    LET places == {i \in DOMAIN log : /\ log[i].kind = "candidate"
                                      /\ log[i].of.migration = migration}
    IN IF places = {} THEN None ELSE log[Max(places)].of

\* append_decision before it looks for an existing one.
Decidable(e, log) ==
    /\ Candidate(e.of) \in Range(log)
    /\ Current(log, e.of.migration) = e.of
    /\ e.approved => ~e.of.blocking

Admissible(e, log) ==
    /\ e.kind = "decision" => Decidable(e, log)
    /\ e.kind = "disposition" => Interval(e.of, Policy) # "none"

\* Mutant: whatever was decided stays so.
ApprovedOnce(p, log) == \E f \in KeyTaken([kind |-> "decision", of |-> p], log) : f.approved
\* require_current_approval
Approved(p, log) ==
    /\ Candidate(p) \in Range(log)
    /\ ~p.blocking
    /\ Current(log, p.migration) = p
    /\ \E f \in KeyTaken([kind |-> "decision", of |-> p], log) : f.approved

Verified == {m \in Manifests : m.status = "verified"}
ManifestOf(m) == [kind |-> "manifest", of |-> m]

\* _validate_pointer
PointerValid(m, log) == m \in Verified /\ ManifestOf(m) \in Range(log)

------------------------------------------------------------------------------
(* Recovery.  NextWrite(s) is what the recovery of store s still has to      *)
(* write, "clean" if nothing, "refused" if the files look tampered with.     *)

HeadOf(s) == IF head[s] = NoFile THEN <<>> ELSE head[s]
Pending(s) == journal[s] \notin {NoFile, <<>>}

MigrationWrite ==
    LET s == "publication_migration" e == journal[s] log == records[s] IN
    IF ~Pending(s) THEN IF HeadOf(s) = log THEN "clean" ELSE "refused"
    ELSE CASE log = e /\ HeadOf(s) = e -> "clear"
           [] log = e /\ HeadOf(s) = Front(e) -> "head"
           [] log = Front(e) /\ HeadOf(s) = log -> "records"
           [] OTHER -> "refused"

\* Mutant: a missing head is tampering.
SplitWriteStrict ==
    LET s == "split_approvals" e == journal[s] log == records[s] IN
    IF ~Pending(s) THEN IF HeadOf(s) = log THEN "clean" ELSE "refused"
    ELSE CASE log = Front(e) /\ head[s] = log -> "records"
           [] log = e /\ head[s] = e -> "clean"
           [] log = e /\ head[s] = Front(e) -> "head"
           [] OTHER -> "refused"
\* The journal stays where it is when the append is done.
SplitWrite ==
    LET s == "split_approvals" e == journal[s] log == records[s] IN
    IF ~Pending(s) THEN IF HeadOf(s) = log THEN "clean" ELSE "refused"
    ELSE CASE log = Front(e) /\ head[s] \in {NoFile, log} -> "records"
           [] log = e /\ HeadOf(s) = e -> "clean"
           [] log = e /\ HeadOf(s) = Front(e) -> "head"
           [] OTHER -> "refused"

\* The head is not looked at before the journal is empty.
LengthWrite ==
    LET s == "length_dispositions" e == journal[s] log == records[s] IN
    IF ~Pending(s) THEN IF HeadOf(s) = log THEN "clean" ELSE "refused"
    ELSE CASE log = Front(e) -> "records"
           [] IsPrefix(e, log) /\ HeadOf(s) # log -> "head"
           [] IsPrefix(e, log) /\ HeadOf(s) = log -> "clear"
           [] OTHER -> "refused"

PointerWrite ==
    LET log == records["publication_migration"] IN
    IF pointer_journal = NoFile
    THEN IF pointer = None \/ PointerValid(pointer, log) THEN "clean" ELSE "refused"
    ELSE CASE pointer = pointer_journal.candidate /\ PointerValid(pointer, log) -> "clear_pointer"
           [] /\ pointer # pointer_journal.candidate
              /\ pointer = pointer_journal.expected
              /\ PointerValid(pointer_journal.candidate, log) -> "pointer"
           [] OTHER -> "refused"

NextWrite(s) ==
    CASE s = "split_approvals" -> SplitWrite
      [] s = "length_dispositions" -> LengthWrite
      [] OTHER -> IF MigrationWrite = "clean" THEN PointerWrite ELSE MigrationWrite

\* The review of a plan is computed anew, from the archive, whenever its record is read.
Unreadable(s) ==
    /\ s = "split_approvals" /\ ~intact
    /\ \E e \in Range(records[s]) \union (IF Pending(s) THEN Range(journal[s]) ELSE {}) :
          e.kind = "candidate"

------------------------------------------------------------------------------
(* One operation of a store: it recovers, looks for its key, and publishes.  *)
(* want is the entry to append, [kind |-> "read"], or the manifest to        *)
(* activate.                                                                 *)

Idle == [at |-> "idle"]
Read == [kind |-> "read"]
Activation(m) == [kind |-> "activation", of |-> m]
Wants(s) == Of(s) \union {Read}
            \union (IF s = "publication_migration" THEN {Activation(m) : m \in Manifests} ELSE {})

Records == Len(records["split_approvals"]) + Len(records["length_dispositions"])
           + Len(records["publication_migration"])

Init ==
    /\ records = [s \in Stores |-> <<>>]
    /\ head = [s \in Stores |-> NoFile]
    /\ journal = [s \in Stores |-> NoFile]
    /\ pointer = None /\ pointer_journal = NoFile
    /\ op = [s \in Stores |-> Idle]
    /\ answered = {} /\ intact = TRUE /\ crashes = 0

Goto(s, at) == op' = [op EXCEPT ![s].at = at]
Return(s)   == op' = [op EXCEPT ![s] = Idle]

\* The arguments are checked before the lock is taken: a disposition needs a length that
\* asks for one, a candidate a review that is computed from the archive.
Begin(s, want) ==
    /\ op[s] = Idle /\ Cardinality({t \in Stores : op[t] # Idle}) < MaxBusy
    /\ want.kind = "disposition" => Interval(want.of, Policy) # "none"
    /\ want.kind = "candidate" => intact
    /\ op' = [op EXCEPT ![s] = [at |-> "recover", want |-> want]]
    /\ UNCHANGED <<files, answered, intact, crashes>>

Recovering(s, write) == op[s].at = "recover" /\ ~Unreadable(s) /\ NextWrite(s) = write

Cleared(s) == IF s = "length_dispositions" THEN <<>> ELSE NoFile

RecoverRecords(s) ==
    /\ Recovering(s, "records")
    /\ records' = [records EXCEPT ![s] = journal[s]]
    /\ UNCHANGED <<head, journal, pointer, pointer_journal, op, answered, intact, crashes>>

RecoverHead(s) ==
    /\ Recovering(s, "head")
    /\ head' = [head EXCEPT ![s] = records[s]]
    /\ UNCHANGED <<records, journal, pointer, pointer_journal, op, answered, intact, crashes>>

RecoverJournal(s) ==
    /\ Recovering(s, "clear")
    /\ journal' = [journal EXCEPT ![s] = Cleared(s)]
    /\ UNCHANGED <<records, head, pointer, pointer_journal, op, answered, intact, crashes>>

RecoverPointer(s) ==
    /\ Recovering(s, "pointer")
    /\ pointer' = pointer_journal.candidate
    /\ UNCHANGED <<records, head, journal, pointer_journal, op, answered, intact, crashes>>

RecoverPointerJournal(s) ==
    /\ Recovering(s, "clear_pointer")
    /\ pointer_journal' = NoFile
    /\ UNCHANGED <<records, head, journal, pointer, op, answered, intact, crashes>>

\* The files look tampered with, or a candidate's review is no longer what is recorded.
Refuse(s) ==
    /\ op[s].at = "recover"
    /\ Unreadable(s) \/ NextWrite(s) = "refused"
    /\ Return(s)
    /\ UNCHANGED <<files, answered, intact, crashes>>

Recovered(s, kinds) == Recovering(s, "clean") /\ op[s].want.kind \in kinds
Appends == {"candidate", "decision", "disposition", "manifest", "checkpoint"}

\* recover, load_exact, load_current_bundle, require_current_approval, require_exact
ReturnRead(s) ==
    /\ Recovered(s, {"read"})
    /\ Return(s)
    /\ UNCHANGED <<files, answered, intact, crashes>>

\* The same entry is there: the append is answered with it.
Repeat(s) ==
    /\ Recovered(s, Appends)
    /\ Admissible(op[s].want, records[s])
    /\ op[s].want \in KeyTaken(op[s].want, records[s])
    /\ Return(s)
    /\ answered' = answered \union {op[s].want}
    /\ UNCHANGED <<files, intact, crashes>>

\* Its key means something else, or the log does not admit it.
Reject(s) ==
    /\ Recovered(s, Appends)
    /\ \/ ~Admissible(op[s].want, records[s])
       \/ KeyTaken(op[s].want, records[s]) \ {op[s].want} # {}
    /\ Return(s)
    /\ UNCHANGED <<files, answered, intact, crashes>>

Prepare(s) ==
    /\ Recovered(s, Appends)
    /\ Records < MaxRecords
    /\ Admissible(op[s].want, records[s])
    /\ KeyTaken(op[s].want, records[s]) = {}
    /\ journal' = [journal EXCEPT ![s] = Append(records[s], op[s].want)]
    /\ Goto(s, "records")
    /\ UNCHANGED <<records, head, pointer, pointer_journal, answered, intact, crashes>>

\* Mutant: the records are left to the next recovery.
PublishRecordsLater(s) ==
    /\ op[s].at = "records"
    /\ Goto(s, "head")
    /\ UNCHANGED <<files, answered, intact, crashes>>
PublishRecords(s) ==
    /\ op[s].at = "records"
    /\ records' = [records EXCEPT ![s] = journal[s]]
    /\ Goto(s, "head")
    /\ UNCHANGED <<head, journal, pointer, pointer_journal, answered, intact, crashes>>

\* The split store is done with its head, the others then remove the journal.
PublishHead(s) ==
    /\ op[s].at = "head"
    /\ head' = [head EXCEPT ![s] = records[s]]
    /\ IF s = "split_approvals"
       THEN Return(s) /\ answered' = answered \union {op[s].want}
       ELSE Goto(s, "clear") /\ UNCHANGED answered
    /\ UNCHANGED <<records, journal, pointer, pointer_journal, intact, crashes>>

ClearJournal(s) ==
    /\ op[s].at = "clear"
    /\ journal' = [journal EXCEPT ![s] = Cleared(s)]
    /\ Return(s)
    /\ answered' = answered \union {op[s].want}
    /\ UNCHANGED <<records, head, pointer, pointer_journal, intact, crashes>>

------------------------------------------------------------------------------
(* activate_verified_manifest                                                *)

\* Not in the log, not verified, or active already: nothing is written.
ReturnActivation(s) ==
    /\ Recovered(s, {"activation"})
    /\ ~PointerValid(op[s].want.of, records[s]) \/ pointer = op[s].want.of
    /\ Return(s)
    /\ UNCHANGED <<files, answered, intact, crashes>>

PrepareActivation(s) ==
    /\ Recovered(s, {"activation"})
    /\ PointerValid(op[s].want.of, records[s]) /\ pointer # op[s].want.of
    /\ pointer_journal' = [expected |-> pointer, candidate |-> op[s].want.of]
    /\ Goto(s, "pointer")
    /\ UNCHANGED <<records, head, journal, pointer, answered, intact, crashes>>

WritePointer(s) ==
    /\ op[s].at = "pointer"
    /\ pointer' = pointer_journal.candidate
    /\ Goto(s, "clear_pointer")
    /\ UNCHANGED <<records, head, journal, pointer_journal, answered, intact, crashes>>

ClearPointerJournal(s) ==
    /\ op[s].at = "clear_pointer"
    /\ pointer_journal' = NoFile
    /\ Return(s)
    /\ UNCHANGED <<records, head, journal, pointer, answered, intact, crashes>>

------------------------------------------------------------------------------
(* Failures: a process dies in an operation, and the archive or a frozen     *)
(* chapter changes and is put back.                                          *)

Crash(s) ==
    /\ op[s] # Idle /\ crashes < MaxCrashes
    /\ Return(s)
    /\ crashes' = crashes + 1
    /\ UNCHANGED <<files, answered, intact>>

SourceDrifts ==
    /\ crashes < MaxCrashes
    /\ intact' = ~intact
    /\ crashes' = crashes + 1
    /\ UNCHANGED <<files, op, answered>>

Step(s) ==
    \/ \E want \in Wants(s) : Begin(s, want)
    \/ RecoverRecords(s)
    \/ RecoverHead(s)
    \/ RecoverJournal(s)
    \/ RecoverPointer(s)
    \/ RecoverPointerJournal(s)
    \/ Refuse(s)
    \/ ReturnRead(s)
    \/ Repeat(s)
    \/ Reject(s)
    \/ Prepare(s)
    \/ PublishRecords(s)
    \/ PublishHead(s)
    \/ ClearJournal(s)
    \/ ReturnActivation(s)
    \/ PrepareActivation(s)
    \/ WritePointer(s)
    \/ ClearPointerJournal(s)
    \/ Crash(s)

Next == (\E s \in Stores : Step(s)) \/ SourceDrifts

Spec == Init /\ [][Next]_vars

------------------------------------------------------------------------------
(* Properties                                                                *)

OpSteps == {"recover", "records", "head", "clear", "pointer", "clear_pointer"}

TypeOK ==
    /\ DOMAIN records = Stores /\ DOMAIN head = Stores /\ DOMAIN journal = Stores /\ DOMAIN op = Stores
    /\ \A s \in Stores :
          /\ records[s] \in Seq(Of(s))
          /\ head[s] = NoFile \/ head[s] \in Seq(Of(s))
          /\ journal[s] = NoFile \/ journal[s] \in Seq(Of(s))
          /\ op[s] = Idle \/ op[s] \in [at : OpSteps, want : Wants(s)]
    /\ pointer \in Manifests \union {None}
    /\ pointer_journal = NoFile \/ pointer_journal \in Activations
    /\ answered \subseteq Entries /\ intact \in BOOLEAN /\ crashes \in 0..MaxCrashes

\* What a recovery would leave in the records, and as the active edition.
Durable(s) ==
    IF Pending(s) /\ records[s] = Front(journal[s]) THEN journal[s] ELSE records[s]
ActiveEdition == IF pointer_journal = NoFile THEN pointer ELSE pointer_journal.candidate

\* However the processes die, the three stores are append-only logs in which a key means
\* one thing, a decision is made on the current candidate and never approves a blocked
\* one, and the active edition is a verified manifest of the log: an append or an
\* activation happens at once, when its journal is written.
Promised ==
    INSTANCE PublicationLog WITH log <- [s \in Stores |-> Durable(s)],
                                 active <- ActiveEdition,
                                 EntryOf <- ManifestOf, Admits <- Admissible
ImplementsPublicationLog == Promised!Spec

\* No state that a crash can leave is taken for tampering: the recovery of every store
\* always finds a next write or nothing to do.
NeverRefused == \A s \in Stores : NextWrite(s) # "refused"

\* An append that returned survives: the entry is there after any recovery.
AnsweredSurvives == \A e \in answered : e \in Range(Durable(StoreOf(e)))

\* A plan that a later candidate of its migration superseded is not approved again, not
\* by its own earlier approval and not by appending it once more, which is answered
\* without making it current.
SupersededForGood ==
    [][\A p \in Plans :
          (\E i, j \in DOMAIN records["split_approvals"] :
              LET log == records["split_approvals"] IN
              i < j /\ log[i] = Candidate(p) /\ log[j].kind = "candidate"
              /\ log[j].of.migration = p.migration)
          => ~Approved(p, records'["split_approvals"])]_vars
==============================================================================
