------------------------ MODULE PublicationStores_proofs ------------------------
(***************************************************************************)
(* Proofs about PublicationStores for any plans, bodies, manifests and     *)
(* votes, any number of records and any number of crashes: no state that a *)
(* crash leaves is taken for tampering, an append that returned survives,  *)
(* the three stores implement PublicationLog, and a superseded plan is     *)
(* never approved again; and about the policy of the lengths.              *)
(*                                                                         *)
(* The argument is about one store at a time: its three files are always   *)
(* at one of four places of an append, whoever goes on from there.         *)
(***************************************************************************)
EXTENDS PublicationStores, SequenceTheorems, TLAPS

Migration == "publication_migration"
Split == "split_approvals"

\* The places of an append: nothing is under way; the journal is written; the records are;
\* the head is.
Settled(s) == ~Pending(s) /\ HeadOf(s) = records[s]
Begun(s) == Pending(s) /\ records[s] = Front(journal[s]) /\ HeadOf(s) = records[s]
Written(s) == Pending(s) /\ records[s] = journal[s] /\ HeadOf(s) = Front(journal[s])
Published(s) == Pending(s) /\ records[s] = journal[s] /\ HeadOf(s) = journal[s]

FilesAt(s) ==
    /\ Settled(s) \/ Begun(s) \/ Written(s) \/ Published(s)
    /\ op[s].at = "records" => Begun(s)
    /\ op[s].at = "head" => Written(s)
    /\ op[s].at = "clear" => Published(s)
    /\ op[s].at \in {"records", "head", "clear"} => op[s].want \in Range(journal[s]) /\ op[s].want \in Of(s)

FilesStand == \A s \in Stores : FilesAt(s)

\* The pointer names a manifest of the log, and its journal one that it does not name yet.
PointerStands ==
    LET log == records[Migration] IN
    /\ pointer = None \/ PointerValid(pointer, log)
    /\ pointer_journal # NoFile =>
          /\ PointerValid(pointer_journal.candidate, log)
          /\ pointer_journal.candidate # pointer_journal.expected
          /\ pointer \in {pointer_journal.expected, pointer_journal.candidate}
    /\ \A s \in Stores :
          /\ op[s].at = "pointer" =>
                s = Migration /\ pointer_journal # NoFile /\ pointer = pointer_journal.expected
          /\ op[s].at = "clear_pointer" =>
                s = Migration /\ pointer_journal # NoFile /\ pointer = pointer_journal.candidate

\* What was answered is in the log; a key is there once, and of the candidates of a migration
\* there is a last one.
LastOf(log, migration) ==
    LET places == {i \in DOMAIN log : log[i].kind = "candidate" /\ log[i].of.migration = migration}
    IN places = {} \/ \E i \in places : \A j \in places : j <= i
KeysOnce(log) == \A i, j \in DOMAIN log : Key(log[i]) = Key(log[j]) => i = j
LogsStand ==
    /\ \A s \in Stores : KeysOnce(Durable(s))
    /\ \A p \in Plans : LastOf(records[Split], p.migration) /\ LastOf(Durable(Split), p.migration)

IInv == TypeOK /\ FilesStand /\ PointerStands /\ LogsStand /\ AnsweredSurvives

------------------------------------------------------------------------------
(* Logs and their keys *)

LEMMA FrontFacts ==
  ASSUME NEW S, NEW j \in Seq(S), j # <<>>
  PROVE  /\ Front(j) \in Seq(S) /\ Front(j) # j /\ Len(Front(j)) = Len(j) - 1
         /\ \A i \in DOMAIN Front(j) : i \in DOMAIN j /\ Front(j)[i] = j[i]
         /\ Range(Front(j)) \subseteq Range(j)
  <1>1. Len(j) \in Nat /\ Len(j) # 0 /\ \A i \in 1..Len(j) : j[i] \in S
    BY EmptySeq, LenProperties, ElementOfSeq
  <1>2. /\ Front(j) \in Seq(S) /\ Len(Front(j)) = Len(j) - 1
        /\ \A i \in 1..Len(j) - 1 : Front(j)[i] = j[i]
    <2> DEFINE n == Len(j) - 1
    <2>1. n \in Nat /\ 1 \in Int /\ n \in Int /\ \A i \in 1..n : j[i] \in S
      BY <1>1
    <2>2. /\ SubSeq(j, 1, n) \in Seq(S)
          /\ Len(SubSeq(j, 1, n)) = IF 1 <= n THEN n - 1 + 1 ELSE 0
          /\ \A i \in 1..n - 1 + 1 : SubSeq(j, 1, n)[i] = j[1 + i - 1]
      BY <2>1, SubSeqProperties
    <2>3. \A i \in 1..n : SubSeq(j, 1, n)[i] = j[i]
      BY <2>1, <2>2
    <2>4. Len(SubSeq(j, 1, n)) = n
      <3>1. CASE 1 <= n
        BY <2>1, <2>2, <3>1
      <3>2. CASE n = 0
        BY <2>2, <3>2
      <3>3. 1 <= n \/ n = 0
        <4>1. \A k \in Nat : k # 0 => 1 <= k - 1 \/ k - 1 = 0
          OBVIOUS
        <4>2. QED
          BY <1>1, <4>1
      <3>4. QED
        BY <3>1, <3>2, <3>3
    <2>5. Front(j) = SubSeq(j, 1, n)
      BY DEF Front
    <2>6. QED
      BY <2>2, <2>3, <2>4, <2>5
  <1>3. DOMAIN Front(j) = 1..Len(j) - 1 /\ DOMAIN j = 1..Len(j)
    BY <1>2, LenProperties
  <1>4. \A i \in DOMAIN Front(j) : i \in DOMAIN j /\ Front(j)[i] = j[i]
    BY <1>1, <1>2, <1>3
  <1>5. Range(Front(j)) \subseteq Range(j)
    BY <1>4 DEF Range
  <1>6. Front(j) # j
    BY <1>1, <1>2
  <1>7. QED
    BY <1>2, <1>4, <1>5, <1>6

LEMMA AppendFacts ==
  ASSUME NEW S, NEW l \in Seq(S), NEW e \in S
  PROVE  /\ Append(l, e) \in Seq(S) /\ Append(l, e) # <<>> /\ Front(Append(l, e)) = l
         /\ DOMAIN l \subseteq DOMAIN Append(l, e) /\ \A i \in DOMAIN l : Append(l, e)[i] = l[i]
         /\ DOMAIN Append(l, e) = DOMAIN l \union {Len(l) + 1} /\ Append(l, e)[Len(l) + 1] = e
         /\ \A i \in DOMAIN l : i \in Nat /\ i < Len(l) + 1
         /\ Range(Append(l, e)) = Range(l) \union {e}
  <1> DEFINE j == Append(l, e)
  <1>1. /\ j \in Seq(S) /\ j # <<>> /\ Len(j) = Len(l) + 1
        /\ \A i \in 1..Len(l) : j[i] = l[i]
        /\ j[Len(l) + 1] = e
    BY AppendProperties
  <1>2. Len(l) \in Nat /\ DOMAIN l = 1..Len(l) /\ DOMAIN j = 1..Len(l) + 1
    BY <1>1, LenProperties
  <1> HIDE DEF j
  <1>3. Front(j) = l
    <2>1. Front(j) \in Seq(S) /\ Len(Front(j)) = Len(l) /\ \A i \in DOMAIN Front(j) : Front(j)[i] = j[i]
      BY <1>1, <1>2, FrontFacts
    <2>2. \A i \in 1..Len(l) : Front(j)[i] = l[i]
      BY <1>1, <1>2, <2>1, LenProperties
    <2>3. QED
      BY <2>1, <2>2, SeqEqual
  <1>4. DOMAIN j = DOMAIN l \union {Len(l) + 1} /\ \A i \in DOMAIN l : i \in Nat /\ i < Len(l) + 1
    BY <1>2
  <1>5. Range(j) = Range(l) \union {e}
    <2>1. \A i \in DOMAIN l : j[i] = l[i]
      BY <1>1, <1>2
    <2>2. QED
      BY <1>1, <1>4, <2>1 DEF Range
  <1>6. QED
    BY <1>1, <1>2, <1>3, <1>4, <1>5 DEF j

\* A log with one entry more whose key was not in it.
LEMMA KeysOnceAppend ==
  ASSUME NEW S, NEW l \in Seq(S), NEW e \in S, KeysOnce(l), KeyTaken(e, l) = {}
  PROVE  KeysOnce(Append(l, e))
  <1>1. \A i \in DOMAIN l : Key(l[i]) # Key(e)
    BY DEF KeyTaken, Range
  <1>2. QED
    BY <1>1, AppendFacts DEF KeysOnce

LEMMA LastOfAppend ==
  ASSUME NEW S, NEW l \in Seq(S), NEW e \in S, NEW m, LastOf(l, m)
  PROVE  LastOf(Append(l, e), m)
  <1> DEFINE j == Append(l, e)
             In(log) == {i \in DOMAIN log : log[i].kind = "candidate" /\ log[i].of.migration = m}
  <1>1. /\ DOMAIN j = DOMAIN l \union {Len(l) + 1} /\ j[Len(l) + 1] = e
        /\ \A i \in DOMAIN l : j[i] = l[i] /\ i \in Nat /\ i < Len(l) + 1
    BY AppendFacts
  <1>2. Len(l) + 1 \in Nat
    BY LenProperties
  <1>3. In(j) \subseteq In(l) \union {Len(l) + 1} /\ In(l) \subseteq In(j)
    BY <1>1
  <1>4. CASE Len(l) + 1 \in In(j)
    <2>1. \A i \in In(j) : i <= Len(l) + 1
      BY <1>1, <1>2, <1>3
    <2>2. QED
      BY <1>4, <2>1 DEF LastOf
  <1>5. CASE Len(l) + 1 \notin In(j)
    <2>1. In(j) = In(l)
      BY <1>3, <1>5
    <2>2. QED
      BY <2>1 DEF LastOf
  <1>6. QED
    BY <1>4, <1>5

------------------------------------------------------------------------------
(* The places of an append *)

\* A store's file that is there is a sequence, and an empty journal is none.
LEMMA FilesTyped ==
  ASSUME TypeOK, NEW s \in Stores
  PROVE  /\ records[s] \in Seq(Of(s)) /\ records[s] # NoFile
         /\ Pending(s) => journal[s] \in Seq(Of(s)) /\ journal[s] # <<>> /\ journal[s] # NoFile
                          /\ Front(journal[s]) # journal[s]
  <1>1. records[s] \in Seq(Of(s)) /\ (journal[s] = NoFile \/ journal[s] \in Seq(Of(s)))
    BY DEF TypeOK
  <1>2. Of(s) \subseteq Entries
    BY DEF Of
  <1>3. Seq(Of(s)) \subseteq Seq(Entries)
    BY <1>2, SeqMonotonic
  <1>4. QED
    BY <1>1, <1>3, FileAssumption, FrontFacts DEF Pending

\* What a recovery leaves: the journal's log where its records are still to be written.
LEMMA DurableIs ==
  ASSUME TypeOK, NEW s \in Stores, Settled(s) \/ Begun(s) \/ Written(s) \/ Published(s)
  PROVE  Durable(s) = IF Begun(s) THEN journal[s] ELSE records[s]
  BY FilesTyped DEF Durable, Settled, Begun, Written, Published

\* What the recovery of a store does next tells the place where its files are.
LEMMA WriteOf ==
  ASSUME TypeOK, FilesStand, PointerStands, NEW s \in Stores
  PROVE  /\ NextWrite(s) # "refused"
         /\ NextWrite(s) = "records" => Begun(s)
         /\ NextWrite(s) = "head" => Written(s)
         /\ NextWrite(s) = "clear" => Published(s)
         /\ NextWrite(s) = "clean" => Settled(s) \/ Published(s)
         /\ NextWrite(s) = "clean" /\ s = Migration => pointer_journal = NoFile
         /\ NextWrite(s) = "pointer" =>
               s = Migration /\ pointer_journal # NoFile /\ pointer = pointer_journal.expected
         /\ NextWrite(s) = "clear_pointer" =>
               s = Migration /\ pointer_journal # NoFile /\ pointer = pointer_journal.candidate
  <1>1. Settled(s) \/ Begun(s) \/ Written(s) \/ Published(s)
    BY DEF FilesStand, FilesAt
  <1>2. CASE s = Split
    <2>1. NextWrite(s) = SplitWrite
      BY <1>2 DEF NextWrite, Split
    <2>2. /\ Settled(s) => SplitWrite = "clean"
          /\ Begun(s) => SplitWrite = "records"
          /\ Written(s) => SplitWrite = "head"
          /\ Published(s) => SplitWrite = "clean"
      BY <1>2, FilesTyped DEF SplitWrite, Split, Settled, Begun, Written, Published, HeadOf
    <2>3. QED
      BY <1>1, <1>2, <2>1, <2>2 DEF Split, Migration
  <1>3. CASE s = "length_dispositions"
    <2>1. NextWrite(s) = LengthWrite
      BY <1>3 DEF NextWrite
    <2>2. ASSUME Pending(s)
          PROVE  IsPrefix(journal[s], journal[s]) /\ ~IsPrefix(journal[s], Front(journal[s]))
      BY <2>2, FilesTyped, FrontFacts, LenProperties DEF IsPrefix
    <2>3. /\ Settled(s) => LengthWrite = "clean"
          /\ Begun(s) => LengthWrite = "records"
          /\ Written(s) => LengthWrite = "head"
          /\ Published(s) => LengthWrite = "clear"
      BY <1>3, <2>2, FilesTyped DEF LengthWrite, Settled, Begun, Written, Published
    <2>4. QED
      BY <1>1, <1>3, <2>1, <2>3 DEF Migration
  <1>4. CASE s = Migration
    <2>1. NextWrite(s) = IF MigrationWrite = "clean" THEN PointerWrite ELSE MigrationWrite
      BY <1>4 DEF NextWrite, Migration
    <2>2. /\ Settled(s) => MigrationWrite = "clean"
          /\ Begun(s) => MigrationWrite = "records"
          /\ Written(s) => MigrationWrite = "head"
          /\ Published(s) => MigrationWrite = "clear"
      BY <1>4, FilesTyped DEF MigrationWrite, Migration, Settled, Begun, Written, Published
    <2>3. /\ pointer_journal = NoFile => PointerWrite = "clean"
          /\ pointer_journal # NoFile =>
                \/ pointer = pointer_journal.candidate /\ PointerWrite = "clear_pointer"
                \/ pointer = pointer_journal.expected /\ PointerWrite = "pointer"
      BY DEF PointerWrite, PointerStands, Migration
    <2>4. QED
      BY <1>1, <1>4, <2>1, <2>2, <2>3
  <1>5. QED
    BY <1>2, <1>3, <1>4 DEF Stores, Split, Migration

------------------------------------------------------------------------------
(* The moves of a store: every step of an operation or a recovery is one of them *)

\* What an operation wants is an entry of its store, an activation, or nothing.
LEMMA WantIs ==
  ASSUME NEW s \in Stores, NEW w \in Wants(s)
  PROVE  /\ w.kind \in Appends => w \in Of(s)
         /\ w.kind = "activation" => s = Migration /\ w.of \in Manifests
  <1>1. \A e \in Entries : e.kind \in Appends
    BY DEF Entries, Candidates, Candidate, Decisions, Dispositions, ManifestEntries, CheckpointEntries, Appends
  <1>2. Read.kind = "read" /\ \A m \in Manifests : Activation(m).kind = "activation" /\ Activation(m).of = m
    BY DEF Read, Activation
  <1>3. QED
    BY <1>1, <1>2 DEF Wants, Of, Appends, Migration

Same(s) == records'[s] = records[s] /\ head'[s] = head[s] /\ journal'[s] = journal[s]
Elsewhere(s) ==
    /\ DOMAIN records' = Stores /\ DOMAIN head' = Stores /\ DOMAIN journal' = Stores /\ DOMAIN op' = Stores
    /\ \A t \in Stores \ {s} : Same(t) /\ op'[t] = op[t]
GoesOn(s, from, to) ==
    \/ op[s].at = from /\ op'[s].at = to /\ op'[s].want = op[s].want
    \/ op'[s].at \in {"idle", "recover"}

Rests(s) == Same(s) /\ op'[s].at \notin {"records", "head", "clear"}
Starts(s) ==
    LET want == op[s].want IN
    /\ Settled(s) \/ Published(s)
    /\ want \in Of(s) /\ Admissible(want, records[s]) /\ KeyTaken(want, records[s]) = {}
    /\ records'[s] = records[s] /\ head'[s] = head[s] /\ journal'[s] = Append(records[s], want)
    /\ op'[s].at = "records" /\ op'[s].want = want
WritesRecords(s) ==
    /\ Begun(s)
    /\ records'[s] = journal[s] /\ head'[s] = head[s] /\ journal'[s] = journal[s]
    /\ GoesOn(s, "records", "head")
WritesHead(s) ==
    /\ Written(s)
    /\ records'[s] = records[s] /\ head'[s] = records[s] /\ journal'[s] = journal[s]
    /\ GoesOn(s, "head", "clear")
Clears(s) ==
    /\ Published(s)
    /\ records'[s] = records[s] /\ head'[s] = head[s] /\ journal'[s] = Cleared(s)
    /\ op'[s].at \in {"idle", "recover"}

OpTyped(s) == op'[s] = Idle \/ op'[s] \in [at : OpSteps, want : Wants(s)]
Moves(s) ==
    /\ Elsewhere(s) /\ OpTyped(s)
    /\ Rests(s) \/ Starts(s) \/ WritesRecords(s) \/ WritesHead(s) \/ Clears(s)

LEMMA GotoIs ==
  ASSUME TypeOK, NEW s \in Stores, op[s].at # "idle", NEW at \in OpSteps, Goto(s, at)
  PROVE  /\ DOMAIN op' = Stores /\ \A t \in Stores \ {s} : op'[t] = op[t]
         /\ OpTyped(s) /\ op'[s].at = at /\ op'[s].want = op[s].want
  <1>1. op[s] \in [at : OpSteps, want : Wants(s)] /\ DOMAIN op = Stores
    BY DEF TypeOK, Idle
  <1>2. DOMAIN op' = Stores /\ \A t \in Stores \ {s} : op'[t] = op[t]
    BY <1>1 DEF Goto
  <1>3. op'[s] = [op[s] EXCEPT !.at = at]
    BY <1>1 DEF Goto
  <1>4. QED
    BY <1>1, <1>2, <1>3 DEF OpTyped

LEMMA ReturnIs ==
  ASSUME TypeOK, NEW s \in Stores, Return(s)
  PROVE  /\ DOMAIN op' = Stores /\ \A t \in Stores \ {s} : op'[t] = op[t]
         /\ OpTyped(s) /\ op'[s].at = "idle"
  <1>1. DOMAIN op' = Stores /\ op'[s] = Idle /\ \A t \in Stores \ {s} : op'[t] = op[t]
    BY DEF Return, TypeOK
  <1>2. QED
    BY <1>1 DEF OpTyped, Idle

LEMMA StepMoves ==
  ASSUME TypeOK, FilesStand, PointerStands, NEW s \in Stores, Step(s)
  PROVE  Moves(s)
  <1> USE DEF Moves, Elsewhere, Same
  <1>1. /\ DOMAIN records = Stores /\ DOMAIN head = Stores /\ DOMAIN journal = Stores /\ DOMAIN op = Stores
        /\ op[s] = Idle \/ op[s] \in [at : OpSteps, want : Wants(s)]
    BY DEF TypeOK
  <1>2. FilesAt(s)
    BY DEF FilesStand
  <1>3. UNCHANGED op /\ op[s].at = "recover" => OpTyped(s) /\ \A f, t : GoesOn(s, f, t)
    BY <1>1 DEF OpTyped, GoesOn
  <1>4. ASSUME NEW want \in Wants(s), Begin(s, want)
        PROVE  Moves(s)
    <2>1. op'[s] = [at |-> "recover", want |-> want] /\ \A t \in Stores \ {s} : op'[t] = op[t]
      BY <1>1, <1>4 DEF Begin
    <2>2. OpTyped(s) /\ op'[s].at = "recover"
      BY <2>1 DEF OpTyped, OpSteps
    <2>3. QED
      BY <1>1, <1>4, <2>1, <2>2 DEF Begin, files, Rests
  <1>5. CASE RecoverRecords(s)
    <2>1. Begun(s)
      BY <1>5, WriteOf DEF RecoverRecords, Recovering
    <2>2. QED
      BY <1>1, <1>3, <1>5, <2>1 DEF RecoverRecords, Recovering, WritesRecords
  <1>6. CASE RecoverHead(s)
    <2>1. Written(s)
      BY <1>6, WriteOf DEF RecoverHead, Recovering
    <2>2. QED
      BY <1>1, <1>3, <1>6, <2>1 DEF RecoverHead, Recovering, WritesHead
  <1>7. CASE RecoverJournal(s)
    <2>1. Published(s)
      BY <1>7, WriteOf DEF RecoverJournal, Recovering
    <2>2. QED
      BY <1>1, <1>3, <1>7, <2>1 DEF RecoverJournal, Recovering, Clears
  <1>8. CASE RecoverPointer(s)
    BY <1>1, <1>3, <1>8 DEF RecoverPointer, Recovering, Rests
  <1>9. CASE RecoverPointerJournal(s)
    BY <1>1, <1>3, <1>9 DEF RecoverPointerJournal, Recovering, Rests
  <1>10. CASE Refuse(s) \/ ReturnRead(s) \/ Repeat(s) \/ Reject(s) \/ ReturnActivation(s) \/ Crash(s)
    <2>1. Return(s) /\ UNCHANGED files
      BY <1>10 DEF Refuse, ReturnRead, Repeat, Reject, ReturnActivation, Crash
    <2>2. QED
      BY <1>1, <2>1, ReturnIs DEF files, Rests
  <1>11. CASE Prepare(s)
    <2>1. Settled(s) \/ Published(s)
      BY <1>11, WriteOf DEF Prepare, Recovered, Recovering
    <2>2. op[s].want \in Of(s)
      BY <1>1, <1>11, WantIs DEF Prepare, Recovered, Recovering, Idle
    <2>3. Goto(s, "records") /\ op[s].at # "idle" /\ "records" \in OpSteps
      BY <1>11 DEF Prepare, Recovered, Recovering, OpSteps
    <2>4. QED
      BY <1>1, <1>11, <2>1, <2>2, <2>3, GotoIs DEF Prepare, Starts
  <1>12. CASE PublishRecords(s)
    <2>1. Begun(s)
      BY <1>2, <1>12 DEF FilesAt, PublishRecords
    <2>2. Goto(s, "head") /\ op[s].at # "idle" /\ "head" \in OpSteps
      BY <1>12 DEF PublishRecords, OpSteps
    <2>3. QED
      BY <1>1, <1>12, <2>1, <2>2, GotoIs DEF PublishRecords, WritesRecords, GoesOn
  <1>13. CASE PublishHead(s)
    <2>1. Written(s)
      BY <1>2, <1>13 DEF FilesAt, PublishHead
    <2>2. /\ Return(s) \/ Goto(s, "clear")
          /\ op[s].at = "head" /\ op[s].at # "idle" /\ "clear" \in OpSteps
      BY <1>13 DEF PublishHead, OpSteps
    <2>3. /\ DOMAIN op' = Stores /\ \A t \in Stores \ {s} : op'[t] = op[t]
          /\ OpTyped(s) /\ GoesOn(s, "head", "clear")
      BY <2>2, GotoIs, ReturnIs DEF GoesOn
    <2>4. QED
      BY <1>1, <1>13, <2>1, <2>3 DEF PublishHead, WritesHead
  <1>14. CASE ClearJournal(s)
    <2>1. Published(s)
      BY <1>2, <1>14 DEF FilesAt, ClearJournal
    <2>2. QED
      BY <1>1, <1>14, <2>1, ReturnIs DEF ClearJournal, Clears
  <1>15. CASE PrepareActivation(s)
    <2>1. Goto(s, "pointer") /\ op[s].at # "idle" /\ "pointer" \in OpSteps
      BY <1>15 DEF PrepareActivation, Recovered, Recovering, OpSteps
    <2>2. QED
      BY <1>1, <1>15, <2>1, GotoIs DEF PrepareActivation, Rests
  <1>16. CASE WritePointer(s)
    <2>1. Goto(s, "clear_pointer") /\ op[s].at # "idle" /\ "clear_pointer" \in OpSteps
      BY <1>16 DEF WritePointer, OpSteps
    <2>2. QED
      BY <1>1, <1>16, <2>1, GotoIs DEF WritePointer, Rests
  <1>17. CASE ClearPointerJournal(s)
    BY <1>1, <1>17, ReturnIs DEF ClearPointerJournal, Rests
  <1>18. QED
    BY <1>4, <1>5, <1>6, <1>7, <1>8, <1>9, <1>10, <1>11, <1>12, <1>13, <1>14, <1>15, <1>16, <1>17 DEF Step

------------------------------------------------------------------------------
(* What a move does to the places and to what a recovery leaves *)

\* An empty journal, or none, is not pending.
LEMMA ClearedIs ==
  ASSUME NEW s \in Stores
  PROVE  Cleared(s) \in {NoFile, <<>>}
  BY DEF Cleared

LEMMA StartsEffect ==
  ASSUME TypeOK, NEW s \in Stores, Starts(s)
  PROVE  /\ Begun(s)' /\ Durable(s) = records[s] /\ Durable(s)' = Append(Durable(s), op[s].want)
         /\ op[s].want \in Range(journal'[s]) /\ journal'[s] \in Seq(Of(s))
  <1> DEFINE want == op[s].want
             j == Append(records[s], want)
  <1>1. /\ want \in Of(s) /\ records[s] \in Seq(Of(s)) /\ HeadOf(s) = records[s]
        /\ records'[s] = records[s] /\ head'[s] = head[s] /\ journal'[s] = j
    <2>1. Published(s) => HeadOf(s) = records[s]
      BY DEF Published
    <2>2. QED
      BY <2>1, FilesTyped DEF Starts, Settled
  <1>2. j \in Seq(Of(s)) /\ j # <<>> /\ Front(j) = records[s] /\ want \in Range(j)
    BY <1>1, AppendFacts
  <1>3. j # NoFile
    <2>1. Of(s) \subseteq Entries
      BY DEF Of
    <2>2. QED
      BY <1>2, <2>1, SeqMonotonic, FileAssumption
  <1>4. Durable(s) = records[s]
    <2>1. ~Begun(s)
      BY FilesTyped DEF Starts, Settled, Published, Begun
    <2>2. QED
      BY <2>1, DurableIs DEF Starts
  <1>5. Pending(s)' /\ HeadOf(s)' = records'[s]
    BY <1>1, <1>2, <1>3 DEF Pending, HeadOf
  <1> HIDE DEF j, want
  <1>6. Begun(s)' /\ Durable(s)' = j
    BY <1>1, <1>2, <1>5 DEF Begun, Durable
  <1>7. QED
    BY <1>1, <1>2, <1>4, <1>6 DEF j, want

LEMMA WritesRecordsEffect ==
  ASSUME TypeOK, NEW s \in Stores, WritesRecords(s)
  PROVE  Written(s)' /\ Durable(s)' = Durable(s) /\ Durable(s) = journal[s]
  <1>1. Begun(s) /\ records'[s] = journal[s] /\ head'[s] = head[s] /\ journal'[s] = journal[s]
    BY DEF WritesRecords
  <1>2. Front(journal[s]) # journal[s]
    BY <1>1, FilesTyped DEF Begun
  <1>3. Written(s)'
    BY <1>1 DEF Begun, Written, Pending, HeadOf
  <1>4. Durable(s) = journal[s] /\ Durable(s)' = records'[s]
    BY <1>1, <1>2 DEF Begun, Durable, Pending
  <1>5. QED
    BY <1>1, <1>3, <1>4

LEMMA WritesHeadEffect ==
  ASSUME TypeOK, NEW s \in Stores, WritesHead(s)
  PROVE  Published(s)' /\ Durable(s)' = Durable(s) /\ Durable(s) = records[s]
  <1>1. Written(s) /\ records'[s] = records[s] /\ head'[s] = records[s] /\ journal'[s] = journal[s]
    BY DEF WritesHead
  <1>2. Front(journal[s]) # journal[s] /\ records[s] # NoFile
    BY <1>1, FilesTyped DEF Written
  <1>3. Published(s)'
    BY <1>1, <1>2 DEF Written, Published, Pending, HeadOf
  <1>4. Durable(s) = records[s] /\ Durable(s)' = records'[s]
    BY <1>1, <1>2 DEF Written, Durable, Pending
  <1>5. QED
    BY <1>1, <1>3, <1>4

LEMMA ClearsEffect ==
  ASSUME TypeOK, NEW s \in Stores, Clears(s)
  PROVE  Settled(s)' /\ Durable(s)' = Durable(s) /\ Durable(s) = records[s]
  <1>1. Published(s) /\ records'[s] = records[s] /\ head'[s] = head[s] /\ journal'[s] \in {NoFile, <<>>}
    BY ClearedIs DEF Clears
  <1>2. Front(journal[s]) # journal[s]
    BY <1>1, FilesTyped DEF Published
  <1>3. ~Pending(s)' /\ HeadOf(s)' = HeadOf(s)
    BY <1>1 DEF Pending, HeadOf
  <1>4. Settled(s)'
    BY <1>1, <1>3 DEF Published, Settled
  <1>5. Durable(s) = records[s] /\ Durable(s)' = records'[s]
    BY <1>1, <1>2, <1>3 DEF Published, Durable
  <1>6. QED
    BY <1>1, <1>4, <1>5

\* A store nobody writes in keeps its place and its log.
LEMMA SameEffect ==
  ASSUME NEW s \in Stores, Same(s)
  PROVE  /\ Settled(s)' = Settled(s) /\ Begun(s)' = Begun(s) /\ Written(s)' = Written(s)
         /\ Published(s)' = Published(s) /\ Durable(s)' = Durable(s)
  BY DEF Same, Settled, Begun, Written, Published, Durable, Pending, HeadOf

\* What a recovery leaves of a log changes only where its journal is written, by one entry.
LEMMA DurableMoves ==
  ASSUME TypeOK, NEW s \in Stores, Moves(s)
  PROVE  /\ \A t \in Stores \ {s} : Durable(t)' = Durable(t)
         /\ Durable(s)' = IF Starts(s) THEN Append(Durable(s), op[s].want) ELSE Durable(s)
  <1>1. \A t \in Stores \ {s} : Durable(t)' = Durable(t)
    BY SameEffect DEF Moves, Elsewhere
  <1>2. CASE Starts(s)
    BY <1>1, <1>2, StartsEffect
  <1>3. CASE ~Starts(s)
    BY <1>1, <1>3, SameEffect, WritesRecordsEffect, WritesHeadEffect, ClearsEffect DEF Moves, Rests
  <1>4. QED
    BY <1>2, <1>3

\* The files stay at the places of an append, and whoever goes on knows where.
LEMMA FilesStandStep ==
  ASSUME TypeOK, FilesStand, NEW s \in Stores, Moves(s)
  PROVE  FilesStand'
  <1>1. \A t \in Stores \ {s} : FilesAt(t)'
    BY SameEffect DEF Moves, Elsewhere, FilesStand, FilesAt, Same
  <1>2. FilesAt(s)
    BY DEF FilesStand
  <1>3. ASSUME Rests(s) PROVE FilesAt(s)'
    <2>1. Settled(s)' \/ Begun(s)' \/ Written(s)' \/ Published(s)'
      BY <1>2, <1>3, SameEffect DEF FilesAt, Rests
    <2>2. QED
      BY <1>3, <2>1 DEF FilesAt, Rests
  <1>4. ASSUME Starts(s) PROVE FilesAt(s)'
    BY <1>4, StartsEffect DEF FilesAt, Starts
  <1>5. ASSUME WritesRecords(s) PROVE FilesAt(s)'
    BY <1>2, <1>5, WritesRecordsEffect DEF FilesAt, WritesRecords, GoesOn
  <1>6. ASSUME WritesHead(s) PROVE FilesAt(s)'
    BY <1>2, <1>6, WritesHeadEffect DEF FilesAt, WritesHead, GoesOn
  <1>7. ASSUME Clears(s) PROVE FilesAt(s)'
    BY <1>2, <1>7, ClearsEffect DEF FilesAt, Clears
  <1>8. FilesAt(s)'
    BY <1>3, <1>4, <1>5, <1>6, <1>7 DEF Moves
  <1>9. QED
    BY <1>1, <1>8 DEF FilesStand

\* The records only become what a recovery would leave, and none is lost or moved.
LEMMA RecordsGrow ==
  ASSUME TypeOK, FilesStand, NEW s \in Stores, Moves(s)
  PROVE  /\ \A t \in Stores : records'[t] \in {records[t], Durable(t)}
         /\ \A t \in Stores : \A i \in DOMAIN records[t] :
               i \in DOMAIN records'[t] /\ records'[t][i] = records[t][i]
         /\ \A t \in Stores : Range(records[t]) \subseteq Range(records'[t])
  <1>1. \A t \in Stores \ {s} : records'[t] = records[t]
    BY DEF Moves, Elsewhere, Same
  <1>2. CASE WritesRecords(s)
    <2>1. records'[s] = journal[s] /\ Durable(s) = journal[s] /\ records[s] = Front(journal[s])
      BY <1>2, WritesRecordsEffect DEF WritesRecords, Begun
    <2>2. /\ Range(Front(journal[s])) \subseteq Range(journal[s])
          /\ \A i \in DOMAIN Front(journal[s]) : i \in DOMAIN journal[s] /\ Front(journal[s])[i] = journal[s][i]
      BY <1>2, FilesTyped, FrontFacts DEF WritesRecords, Begun
    <2>3. QED
      BY <1>1, <2>1, <2>2
  <1>3. CASE ~WritesRecords(s)
    <2>1. records'[s] = records[s]
      BY <1>3 DEF Moves, Rests, Same, Starts, WritesHead, Clears
    <2>2. QED
      BY <1>1, <2>1
  <1>4. QED
    BY <1>2, <1>3

------------------------------------------------------------------------------
(* The pointer *)

Leaves(s) ==
    /\ pointer' = pointer /\ pointer_journal' = pointer_journal
    /\ op'[s].at \notin {"pointer", "clear_pointer"}
Aims(s) ==
    LET m == op[s].want.of IN
    /\ s = Migration /\ m \in Manifests /\ PointerValid(m, records[s])
    /\ pointer_journal = NoFile /\ pointer # m
    /\ pointer' = pointer /\ pointer_journal' = [expected |-> pointer, candidate |-> m]
    /\ op'[s].at = "pointer"
Switches(s) ==
    /\ s = Migration /\ pointer_journal # NoFile /\ pointer = pointer_journal.expected
    /\ pointer' = pointer_journal.candidate /\ pointer_journal' = pointer_journal
    /\ op'[s].at \in {"recover", "clear_pointer"}
Lands(s) ==
    /\ s = Migration /\ pointer_journal # NoFile /\ pointer = pointer_journal.candidate
    /\ pointer' = pointer /\ pointer_journal' = NoFile
    /\ op'[s].at \in {"idle", "recover"}
PointerMoves(s) == Leaves(s) \/ Aims(s) \/ Switches(s) \/ Lands(s)

LEMMA StepMovesPointer ==
  ASSUME TypeOK, FilesStand, PointerStands, NEW s \in Stores, Step(s)
  PROVE  PointerMoves(s)
  <1>1. op[s] = Idle \/ op[s] \in [at : OpSteps, want : Wants(s)]
    BY DEF TypeOK
  <1>2. CASE UNCHANGED <<pointer, pointer_journal>> /\ \E want \in Wants(s) : Begin(s, want)
    <2>1. op'[s].at = "recover"
      BY <1>2 DEF Begin, TypeOK
    <2>2. QED
      BY <1>2, <2>1 DEF PointerMoves, Leaves
  <1>3. CASE UNCHANGED <<pointer, pointer_journal>> /\ Return(s)
    BY <1>3, ReturnIs DEF PointerMoves, Leaves
  <1>4. CASE UNCHANGED <<pointer, pointer_journal>> /\ UNCHANGED op /\ op[s].at = "recover"
    BY <1>4 DEF PointerMoves, Leaves
  <1>5. CASE \E at \in {"records", "head", "clear"} :
                UNCHANGED <<pointer, pointer_journal>> /\ Goto(s, at) /\ op[s].at # "idle"
    <2>1. \A at \in {"records", "head", "clear"} : at \in OpSteps
      BY DEF OpSteps
    <2>2. QED
      BY <1>5, <2>1, GotoIs DEF PointerMoves, Leaves
  <1>6. CASE RecoverPointer(s)
    <2>1. s = Migration /\ pointer_journal # NoFile /\ pointer = pointer_journal.expected
      BY <1>6, WriteOf DEF RecoverPointer, Recovering
    <2>2. QED
      BY <1>6, <2>1 DEF RecoverPointer, Recovering, PointerMoves, Switches
  <1>7. CASE RecoverPointerJournal(s)
    <2>1. s = Migration /\ pointer_journal # NoFile /\ pointer = pointer_journal.candidate
      BY <1>7, WriteOf DEF RecoverPointerJournal, Recovering
    <2>2. QED
      BY <1>7, <2>1 DEF RecoverPointerJournal, Recovering, PointerMoves, Lands
  <1>8. CASE PrepareActivation(s)
    <2>1. op[s].want.kind = "activation" /\ op[s].at = "recover" /\ op[s].at # "idle" /\ NextWrite(s) = "clean"
      BY <1>8 DEF PrepareActivation, Recovered, Recovering
    <2>2. s = Migration /\ op[s].want.of \in Manifests
      BY <1>1, <2>1, WantIs DEF Idle
    <2>3. pointer_journal = NoFile
      BY <2>1, <2>2, WriteOf
    <2>4. op'[s].at = "pointer"
      BY <1>8, <2>1, GotoIs DEF PrepareActivation, OpSteps
    <2>5. QED
      BY <1>8, <2>2, <2>3, <2>4 DEF PrepareActivation, PointerMoves, Aims
  <1>9. CASE WritePointer(s)
    <2>1. s = Migration /\ pointer_journal # NoFile /\ pointer = pointer_journal.expected
      BY <1>9 DEF WritePointer, PointerStands
    <2>2. op'[s].at = "clear_pointer"
      BY <1>9, GotoIs DEF WritePointer, OpSteps
    <2>3. QED
      BY <1>9, <2>1, <2>2 DEF WritePointer, PointerMoves, Switches
  <1>10. CASE ClearPointerJournal(s)
    <2>1. s = Migration /\ pointer_journal # NoFile /\ pointer = pointer_journal.candidate
      BY <1>10 DEF ClearPointerJournal, PointerStands
    <2>2. QED
      BY <1>10, <2>1, ReturnIs DEF ClearPointerJournal, PointerMoves, Lands
  <1>11. CASE RecoverRecords(s) \/ RecoverHead(s) \/ RecoverJournal(s)
    BY <1>4, <1>11 DEF RecoverRecords, RecoverHead, RecoverJournal, Recovering
  <1>12. CASE Refuse(s) \/ ReturnRead(s) \/ Repeat(s) \/ Reject(s) \/ ReturnActivation(s) \/ Crash(s) \/ ClearJournal(s)
    BY <1>3, <1>12 DEF Refuse, ReturnRead, Repeat, Reject, ReturnActivation, Crash, ClearJournal, files
  <1>13. CASE \E want \in Wants(s) : Begin(s, want)
    BY <1>2, <1>13 DEF Begin, files
  <1>14. CASE Prepare(s)
    BY <1>5, <1>14 DEF Prepare, Recovered, Recovering
  <1>15. CASE PublishRecords(s)
    BY <1>5, <1>15 DEF PublishRecords
  <1>16. CASE PublishHead(s)
    BY <1>3, <1>5, <1>16 DEF PublishHead
  <1>17. QED
    BY <1>6, <1>7, <1>8, <1>9, <1>10, <1>11, <1>12, <1>13, <1>14, <1>15, <1>16 DEF Step

\* The pointer stays at a place of an activation, and its manifest in the log.
LEMMA PointerStandsStep ==
  ASSUME TypeOK, FilesStand, PointerStands, NEW s \in Stores, Moves(s), PointerMoves(s)
  PROVE  PointerStands'
  <1> DEFINE log == records[Migration]
  <1>1. Migration \in Stores
    BY DEF Migration, Stores
  <1>2. \A m : PointerValid(m, log) => PointerValid(m, log')
    BY <1>1, RecordsGrow DEF PointerValid
  <1>3. \A t \in Stores \ {s} : op'[t] = op[t]
    BY DEF Moves, Elsewhere
  <1>4. CASE Leaves(s)
    BY <1>2, <1>3, <1>4 DEF Leaves, PointerStands
  <1>5. CASE Aims(s)
    <2>1. pointer_journal' # NoFile
      BY <1>5, FileAssumption DEF Aims, Activations, TypeOK
    <2>2. QED
      BY <1>2, <1>3, <1>5, <2>1 DEF Aims, PointerStands
  <1>6. CASE Switches(s)
    BY <1>2, <1>3, <1>6 DEF Switches, PointerStands
  <1>7. CASE Lands(s)
    BY <1>2, <1>3, <1>7 DEF Lands, PointerStands
  <1>8. QED
    BY <1>4, <1>5, <1>6, <1>7 DEF PointerMoves

------------------------------------------------------------------------------
(* What is answered, and the types *)

\* An append is answered only with an entry that a recovery leaves in the log.
LEMMA StepAnswers ==
  ASSUME TypeOK, FilesStand, PointerStands, NEW s \in Stores, Step(s)
  PROVE  \/ answered' = answered
         \/ /\ answered' = answered \union {op[s].want}
            /\ op[s].want \in Of(s) /\ op[s].want \in Range(Durable(s))
  <1>1. op[s] = Idle \/ op[s] \in [at : OpSteps, want : Wants(s)]
    BY DEF TypeOK
  <1>2. FilesAt(s)
    BY DEF FilesStand
  <1>3. CASE Repeat(s)
    <2>1. op[s].want \in Of(s)
      BY <1>1, <1>3, WantIs DEF Repeat, Recovered, Recovering, Idle
    <2>2. (Settled(s) \/ Published(s)) /\ op[s].want \in Range(records[s])
      BY <1>3, WriteOf DEF Repeat, Recovered, Recovering, KeyTaken
    <2>3. Durable(s) = records[s]
      BY <2>2, FilesTyped DEF Settled, Published, Durable
    <2>4. QED
      BY <1>3, <2>1, <2>2, <2>3 DEF Repeat
  <1>4. CASE PublishHead(s)
    <2>1. Written(s) /\ op[s].want \in Range(journal[s]) /\ op[s].want \in Of(s)
      BY <1>2, <1>4 DEF PublishHead, FilesAt
    <2>2. Durable(s) = journal[s]
      BY <2>1, FilesTyped DEF Written, Durable
    <2>3. QED
      BY <1>4, <2>1, <2>2 DEF PublishHead
  <1>5. CASE ClearJournal(s)
    <2>1. Published(s) /\ op[s].want \in Range(journal[s]) /\ op[s].want \in Of(s)
      BY <1>2, <1>5 DEF ClearJournal, FilesAt
    <2>2. Durable(s) = journal[s]
      BY <2>1, FilesTyped DEF Published, Durable
    <2>3. QED
      BY <1>5, <2>1, <2>2 DEF ClearJournal
  <1>6. CASE UNCHANGED answered
    BY <1>6
  <1>7. QED
    BY <1>3, <1>4, <1>5, <1>6
    DEF Step, Begin, RecoverRecords, RecoverHead, RecoverJournal, RecoverPointer, RecoverPointerJournal, Refuse,
        ReturnRead, Reject, Prepare, PublishRecords, ReturnActivation, PrepareActivation, WritePointer,
        ClearPointerJournal, Crash

LEMMA TypeOKStep ==
  ASSUME TypeOK, FilesStand, PointerStands, NEW s \in Stores, Step(s), Moves(s), PointerMoves(s)
  PROVE  TypeOK'
  <1> DEFINE FilesTypedAt(t) == /\ records[t] \in Seq(Of(t))
                                /\ head[t] = NoFile \/ head[t] \in Seq(Of(t))
                                /\ journal[t] = NoFile \/ journal[t] \in Seq(Of(t))
  <1>1. /\ DOMAIN records' = Stores /\ DOMAIN head' = Stores /\ DOMAIN journal' = Stores /\ DOMAIN op' = Stores
        /\ \A t \in Stores \ {s} : Same(t) /\ op'[t] = op[t]
    BY DEF Moves, Elsewhere
  <1>2. \A t \in Stores : FilesTypedAt(t) /\ (op[t] = Idle \/ op[t] \in [at : OpSteps, want : Wants(t)])
    BY DEF TypeOK
  <1>3. FilesTypedAt(s)'
    <2>1. CASE Rests(s)
      BY <1>2, <2>1 DEF Rests, Same
    <2>2. CASE Starts(s)
      BY <1>2, <2>2, StartsEffect DEF Starts
    <2>3. CASE WritesRecords(s)
      BY <1>2, <2>3, FilesTyped DEF WritesRecords, Begun
    <2>4. CASE WritesHead(s)
      BY <1>2, <2>4 DEF WritesHead
    <2>5. CASE Clears(s)
      <3>1. <<>> \in Seq(Of(s))
        BY EmptySeq
      <3>2. journal'[s] \in {NoFile, <<>>} /\ records'[s] = records[s] /\ head'[s] = head[s]
        BY <2>5, ClearedIs DEF Clears
      <3>3. QED
        BY <1>2, <3>1, <3>2
    <2>6. QED
      BY <2>1, <2>2, <2>3, <2>4, <2>5 DEF Moves
  <1>4. \A t \in Stores \ {s} : FilesTypedAt(t)'
    BY <1>1, <1>2 DEF Same
  <1>5. \A t \in Stores : op'[t] = Idle \/ op'[t] \in [at : OpSteps, want : Wants(t)]
    BY <1>1, <1>2 DEF Moves, OpTyped
  <1>6. pointer' \in Manifests \union {None} /\ (pointer_journal' = NoFile \/ pointer_journal' \in Activations)
    BY DEF TypeOK, PointerMoves, Leaves, Aims, Switches, Lands, Activations
  <1>7. answered' \subseteq Entries
    <2>1. answered \subseteq Entries
      BY DEF TypeOK
    <2>2. QED
      BY <2>1, StepAnswers DEF Of
  <1>8. intact' \in BOOLEAN /\ crashes' \in 0..MaxCrashes
    <2>1. intact \in BOOLEAN /\ crashes \in 0..MaxCrashes /\ MaxCrashes \in Nat
      BY PublicationAssumption DEF TypeOK
    <2>2. CASE Crash(s)
      BY <2>1, <2>2 DEF Crash
    <2>3. CASE UNCHANGED <<intact, crashes>>
      BY <2>1, <2>3
    <2>4. QED
      BY <2>2, <2>3
      DEF Step, Begin, RecoverRecords, RecoverHead, RecoverJournal, RecoverPointer, RecoverPointerJournal, Refuse,
          ReturnRead, Repeat, Reject, Prepare, PublishRecords, PublishHead, ClearJournal, ReturnActivation,
          PrepareActivation, WritePointer, ClearPointerJournal
  <1>9. QED
    BY <1>1, <1>3, <1>4, <1>5, <1>6, <1>7, <1>8 DEF TypeOK

------------------------------------------------------------------------------
(* The logs *)

\* What recovery leaves of a log is a sequence of its entries, and so is the log.
LEMMA LogsTyped ==
  ASSUME TypeOK, FilesStand, NEW s \in Stores
  PROVE  /\ records[s] \in Seq(Of(s)) /\ Durable(s) \in Seq(Of(s))
         /\ KeysOnce(Durable(s)) => KeysOnce(records[s])
  <1>1. records[s] \in Seq(Of(s)) /\ Durable(s) \in Seq(Of(s))
    BY FilesTyped DEF Durable
  <1>2. CASE Begun(s)
    <2>1. journal[s] \in Seq(Of(s)) /\ journal[s] # <<>> /\ Durable(s) = journal[s] /\ records[s] = Front(journal[s])
      BY <1>2, FilesTyped DEF Begun, Durable
    <2>2. \A i \in DOMAIN records[s] : i \in DOMAIN Durable(s) /\ records[s][i] = Durable(s)[i]
      BY <2>1, FrontFacts
    <2>3. QED
      BY <1>1, <2>2 DEF KeysOnce
  <1>3. CASE ~Begun(s)
    BY <1>1, <1>3, DurableIs DEF FilesStand, FilesAt
  <1>4. QED
    BY <1>2, <1>3

\* A key stays the key of one record, and there stays a last candidate of every migration.
LEMMA LogsStandStep ==
  ASSUME TypeOK, FilesStand, LogsStand, NEW s \in Stores, Moves(s)
  PROVE  LogsStand'
  <1>1. \A t \in Stores : Durable(t) \in Seq(Of(t)) /\ KeysOnce(Durable(t))
    BY LogsTyped DEF LogsStand
  <1>2. \A t \in Stores \ {s} : Durable(t)' = Durable(t)
    BY DurableMoves
  <1>3. ASSUME Starts(s)
        PROVE  KeysOnce(Durable(s)') /\ \A m : LastOf(Durable(s), m) => LastOf(Durable(s)', m)
    <2>1. /\ op[s].want \in Of(s) /\ Durable(s)' = Append(Durable(s), op[s].want)
          /\ KeyTaken(op[s].want, Durable(s)) = {}
      BY <1>3, StartsEffect DEF Starts
    <2>2. KeysOnce(Durable(s)')
      BY <1>1, <2>1, KeysOnceAppend
    <2>3. \A m : LastOf(Durable(s), m) => LastOf(Durable(s)', m)
      BY <1>1, <2>1, LastOfAppend
    <2>4. QED
      BY <2>2, <2>3
  <1>4. ASSUME ~Starts(s)
        PROVE  Durable(s)' = Durable(s)
    BY <1>4, DurableMoves
  <1>5. \A t \in Stores : KeysOnce(Durable(t)')
    BY <1>1, <1>2, <1>3, <1>4
  <1>6. \A p \in Plans : LastOf(Durable(Split)', p.migration)
    BY <1>2, <1>3, <1>4 DEF LogsStand, Split, Stores
  <1>7. \A p \in Plans : LastOf(records'[Split], p.migration)
    <2>1. records'[Split] = records[Split] \/ records'[Split] = Durable(Split)
      BY RecordsGrow DEF Split, Stores
    <2>2. QED
      BY <2>1 DEF LogsStand
  <1>8. QED
    BY <1>5, <1>6, <1>7 DEF LogsStand

\* What was answered stays in the log.
LEMMA AnsweredSurvivesStep ==
  ASSUME TypeOK, FilesStand, PointerStands, AnsweredSurvives, NEW s \in Stores, Step(s), Moves(s)
  PROVE  AnsweredSurvives'
  <1>1. \A t \in Stores : Range(Durable(t)) \subseteq Range(Durable(t)')
    <2>1. ASSUME Starts(s)
          PROVE  Range(Durable(s)) \subseteq Range(Durable(s)')
      <3>1. op[s].want \in Of(s) /\ Durable(s) \in Seq(Of(s))
        BY <2>1, LogsTyped DEF Starts
      <3>2. Range(Append(Durable(s), op[s].want)) = Range(Durable(s)) \union {op[s].want}
        BY <3>1, AppendFacts
      <3>3. QED
        BY <2>1, <3>2, StartsEffect
    <2>2. QED
      BY <2>1, DurableMoves
  <1>2. \A e \in answered' : e \in Range(Durable(StoreOf(e))) /\ StoreOf(e) \in Stores
    <2>1. \A e : StoreOf(e) \in Stores
      BY DEF StoreOf, Stores
    <2>2. QED
      BY <2>1, StepAnswers DEF AnsweredSurvives, Of
  <1>3. \A e \in answered' : e \in Range(Durable(StoreOf(e))')
    BY <1>1, <1>2
  <1>4. QED
    BY <1>3 DEF AnsweredSurvives

LEMMA InvInit == Init => IInv
  <1> SUFFICES ASSUME Init PROVE IInv
    OBVIOUS
  <1> USE DEF Init
  <1>1. \A s \in Stores : ~Pending(s) /\ records[s] = <<>> /\ HeadOf(s) = <<>> /\ Durable(s) = <<>>
    BY DEF Pending, HeadOf, Durable
  <1>2. TypeOK
    <2>1. \A s \in Stores : <<>> \in Seq(Of(s))
      BY EmptySeq
    <2>2. 0 \in 0..MaxCrashes
      BY PublicationAssumption
    <2>3. QED
      BY <2>1, <2>2 DEF TypeOK
  <1>3. FilesStand
    BY <1>1 DEF FilesStand, FilesAt, Settled, Idle
  <1>4. PointerStands
    BY DEF PointerStands, Idle
  <1>5. LogsStand
    <2>1. Split \in Stores
      BY DEF Split, Stores
    <2>2. DOMAIN <<>> = {}
      OBVIOUS
    <2>3. \A m : LastOf(<<>>, m) /\ KeysOnce(<<>>)
      BY <2>2 DEF LastOf, KeysOnce
    <2>4. QED
      BY <1>1, <2>1, <2>3 DEF LogsStand
  <1>6. QED
    BY <1>2, <1>3, <1>4, <1>5 DEF IInv, AnsweredSurvives

LEMMA InvStep == IInv /\ [Next]_vars => IInv'
  <1> SUFFICES ASSUME IInv, [Next]_vars PROVE IInv'
    OBVIOUS
  <1>1. ASSUME NEW s \in Stores, Step(s)
        PROVE  IInv'
    <2>1. Moves(s) /\ PointerMoves(s)
      BY <1>1, StepMoves, StepMovesPointer DEF IInv
    <2>2. TypeOK'
      BY <1>1, <2>1, TypeOKStep DEF IInv
    <2>3. FilesStand'
      BY <2>1, FilesStandStep DEF IInv
    <2>4. PointerStands'
      BY <2>1, PointerStandsStep DEF IInv
    <2>5. LogsStand'
      BY <2>1, LogsStandStep DEF IInv
    <2>6. AnsweredSurvives'
      BY <1>1, <2>1, AnsweredSurvivesStep DEF IInv
    <2>7. QED
      BY <2>2, <2>3, <2>4, <2>5, <2>6 DEF IInv
  <1>2. ASSUME UNCHANGED <<files, op, answered>>, intact' \in BOOLEAN, crashes' \in 0..MaxCrashes
        PROVE  IInv'
    <2>1. /\ records' = records /\ head' = head /\ journal' = journal /\ op' = op /\ answered' = answered
          /\ pointer' = pointer /\ pointer_journal' = pointer_journal
      BY <1>2 DEF files
    <2>2. \A s \in Stores : Same(s) /\ (Durable(s))' = Durable(s)
      BY <2>1, SameEffect DEF Same
    <2>3. TypeOK'
      BY <1>2, <2>1 DEF IInv, TypeOK
    <2>4. FilesStand'
      BY <2>1, <2>2, SameEffect DEF IInv, FilesStand, FilesAt
    <2>5. PointerStands'
      BY <2>1 DEF IInv, PointerStands
    <2>6. LogsStand'
      <3>1. Split \in Stores
        BY DEF Split, Stores
      <3>2. QED
        BY <2>1, <2>2, <3>1 DEF IInv, LogsStand
    <2>7. AnsweredSurvives'
      <3>1. \A e : StoreOf(e) \in Stores
        BY DEF StoreOf, Stores
      <3>2. QED
        BY <2>1, <2>2, <3>1 DEF IInv, AnsweredSurvives
    <2>8. QED
      BY <2>3, <2>4, <2>5, <2>6, <2>7 DEF IInv
  <1>3. CASE SourceDrifts
    <2>1. intact' \in BOOLEAN /\ crashes' \in 0..MaxCrashes
      BY <1>3, PublicationAssumption DEF SourceDrifts, IInv, TypeOK
    <2>2. QED
      BY <1>2, <1>3, <2>1 DEF SourceDrifts
  <1>4. CASE UNCHANGED vars
    BY <1>2, <1>4 DEF vars, files, IInv, TypeOK
  <1>5. QED
    BY <1>1, <1>3, <1>4 DEF Next

\* The invariant of the proofs below.
THEOREM StoresInvariant == Spec => []IInv
  BY InvInit, InvStep, PTL DEF Spec

\* Every file holds entries of its own store, whatever the operations and the crashes leave.
THEOREM StoresTyped == Spec => []TypeOK
  <1>1. IInv => TypeOK
    BY DEF IInv
  <1>2. QED
    BY <1>1, StoresInvariant, PTL

\* The recovery of the three stores never takes the files a crash left for tampering:
\* it always finds the write that is missing, or that none is.
THEOREM NeverTakenForTampering == Spec => []NeverRefused
  <1>1. IInv => NeverRefused
    BY WriteOf DEF IInv, NeverRefused
  <1>2. QED
    BY <1>1, StoresInvariant, PTL

\* What an append has answered is in the log after every recovery.
THEOREM AnsweredAlwaysSurvives == Spec => []AnsweredSurvives
  <1>1. IInv => AnsweredSurvives
    BY DEF IInv
  <1>2. QED
    BY <1>1, StoresInvariant, PTL

------------------------------------------------------------------------------
(* A superseded plan *)

\* In a log of unique keys the current candidate of a migration is not one that another
\* candidate of the migration follows.
LEMMA SupersededIs ==
  ASSUME NEW S, NEW log \in Seq(S), NEW p \in Plans, KeysOnce(log), LastOf(log, p.migration),
         NEW i \in DOMAIN log, NEW j \in DOMAIN log, i < j,
         log[i] = Candidate(p), log[j].kind = "candidate", log[j].of.migration = p.migration
  PROVE  Current(log, p.migration) # p
  <1> DEFINE places == {k \in DOMAIN log : log[k].kind = "candidate" /\ log[k].of.migration = p.migration}
  <1>1. i \in places /\ j \in places /\ places \subseteq Nat
    BY LenProperties DEF Candidate
  <1>2. PICK last \in places : \A k \in places : k <= last
    BY <1>1 DEF LastOf
  <1>3. Max(places) \in places /\ \A k \in places : Max(places) >= k
    <2>1. \E x \in places : \A k \in places : x >= k
      BY <1>1, <1>2
    <2>2. QED
      BY <2>1 DEF Max
  <1> DEFINE m == Max(places)
  <1>4. m \in DOMAIN log /\ log[m].kind = "candidate" /\ i < m /\ m \in Nat /\ i \in Nat
    <2>1. m \in places /\ m >= j
      BY <1>1, <1>3
    <2>2. m \in Nat /\ i \in Nat /\ j \in Nat
      BY <1>1, <2>1
    <2>3. i < m
      BY <2>1, <2>2
    <2>4. QED
      BY <2>1, <2>2, <2>3
  <1>5. Current(log, p.migration) = log[m].of
    BY <1>1 DEF Current
  <1>6. ASSUME log[m].of = p
        PROVE  FALSE
    <2>1. Key(log[m]) = Key(log[i])
      BY <1>4, <1>6 DEF Key, Candidate
    <2>2. m = i
      BY <1>4, <2>1 DEF KeysOnce
    <2>3. QED
      BY <1>4, <2>2
  <1>7. QED
    BY <1>5, <1>6

\* Once a later candidate of its migration is recorded a plan is not approved again: its
\* earlier approval does not count, and appending it once more does not make it current.
THEOREM SupersededStaysSo == Spec => SupersededForGood
  <1> DEFINE Overtaken(p, log) ==
                 \E i, j \in DOMAIN log :
                    i < j /\ log[i] = Candidate(p) /\ log[j].kind = "candidate" /\ log[j].of.migration = p.migration
             Holds == \A p \in Plans : Overtaken(p, records[Split]) => ~Approved(p, records'[Split])
             Unique == /\ records[Split] \in Seq(Of(Split)) /\ KeysOnce(records[Split])
                       /\ \A p \in Plans : LastOf(records[Split], p.migration)
  <1>0. IInv' => Unique'
    <2>1. ASSUME IInv PROVE Unique
      <3>1. Split \in Stores
        BY DEF Split, Stores
      <3>2. QED
        BY <2>1, <3>1, LogsTyped DEF IInv, LogsStand
    <2>2. QED
      BY <2>1, PTL
  <1>1. ASSUME IInv, IInv', [Next]_vars
        PROVE  Holds
    <2>1. Unique'
      BY <1>1, <1>0
    <2>2. \A i \in DOMAIN records[Split] : i \in DOMAIN records'[Split] /\ records'[Split][i] = records[Split][i]
      <3>1. Split \in Stores
        BY DEF Split, Stores
      <3>2. ASSUME NEW s \in Stores, Step(s)
            PROVE  \A i \in DOMAIN records[Split] : i \in DOMAIN records'[Split] /\ records'[Split][i] = records[Split][i]
        BY <1>1, <3>1, <3>2, StepMoves, RecordsGrow DEF IInv
      <3>3. CASE UNCHANGED records
        BY <3>3
      <3>4. QED
        BY <1>1, <3>2, <3>3 DEF Next, SourceDrifts, vars, files
    <2>3. SUFFICES ASSUME NEW p \in Plans, NEW i \in DOMAIN records[Split], NEW j \in DOMAIN records[Split], i < j,
                          records[Split][i] = Candidate(p), records[Split][j].kind = "candidate",
                          records[Split][j].of.migration = p.migration
                   PROVE  ~Approved(p, records'[Split])
      OBVIOUS
    <2>4. Current(records'[Split], p.migration) # p
      BY <2>1, <2>2, <2>3, SupersededIs
    <2>5. QED
      BY <2>4 DEF Approved
  <1>2. Holds => \A p \in Plans :
          (\E i, j \in DOMAIN records["split_approvals"] :
              LET log == records["split_approvals"] IN
              i < j /\ log[i] = Candidate(p) /\ log[j].kind = "candidate"
              /\ log[j].of.migration = p.migration)
          => ~Approved(p, records'["split_approvals"])
    BY DEF Split
  <1> HIDE DEF Holds
  <1>3. QED
    BY <1>1, <1>2, StoresInvariant, PTL DEF Spec, SupersededForGood

------------------------------------------------------------------------------
(* The logs that the stores promise *)

LEMMA PromisedInit == Init => Promised!Init
  <1> SUFFICES ASSUME Init PROVE Promised!Init
    OBVIOUS
  <1>1. \A s \in Stores : Durable(s) = <<>>
    BY DEF Init, Durable, Pending
  <1>2. ActiveEdition = None
    BY DEF Init, ActiveEdition
  <1>3. QED
    BY <1>1, <1>2 DEF Promised!Init

LEMMA PromisedStep == IInv /\ [Next]_vars => [Promised!Next]_<<[s \in Stores |-> Durable(s)], ActiveEdition>>
  <1> DEFINE log == [s \in Stores |-> Durable(s)]
  <1> SUFFICES ASSUME IInv, [Next]_vars
               PROVE  Promised!Next \/ (log' = log /\ ActiveEdition' = ActiveEdition)
    OBVIOUS
  <1>1. ASSUME NEW s \in Stores, Step(s)
        PROVE  Promised!Next \/ (log' = log /\ ActiveEdition' = ActiveEdition)
    <2>1. Moves(s) /\ PointerMoves(s)
      BY <1>1, StepMoves, StepMovesPointer DEF IInv
    <2>2. CASE Starts(s)
      <3> DEFINE e == op[s].want
      <3>1. e \in Entries /\ StoreOf(e) = s /\ Admissible(e, Durable(s)) /\ KeyTaken(e, Durable(s)) = {}
        BY <2>2, StartsEffect DEF IInv, Starts, Of
      <3>2. log' = [log EXCEPT ![s] = Append(@, e)]
        BY <2>1, <2>2, DurableMoves DEF IInv
      <3>3. ActiveEdition' = ActiveEdition
        BY <2>1, <2>2 DEF Starts, PointerMoves, Leaves, Aims, Switches, Lands, ActiveEdition
      <3>4. \A i \in DOMAIN Durable(s) : Key(Durable(s)[i]) # Key(e)
        BY <3>1 DEF KeyTaken, Range
      <3>5. Promised!AppendEntry(e)
        BY <3>1, <3>2, <3>3, <3>4 DEF Promised!AppendEntry
      <3>6. QED
        BY <3>1, <3>5 DEF Promised!Next
    <2>3. CASE ~Starts(s)
      <3>1. log' = log
        BY <2>1, <2>3, DurableMoves DEF IInv
      <3>2. CASE Leaves(s) \/ Switches(s) \/ Lands(s)
        BY <3>1, <3>2 DEF Leaves, Switches, Lands, ActiveEdition
      <3>3. CASE Aims(s)
        <4> DEFINE m == op[s].want.of
        <4>1. m \in Verified /\ ManifestOf(m) \in Range(records[Migration])
          BY <3>3 DEF Aims, PointerValid
        <4>2. StoreOf(ManifestOf(m)) = Migration
          BY DEF StoreOf, ManifestOf, Migration, Candidates, Candidate, Decisions, Dispositions
        <4>3. Migration \in Stores /\ Range(records[Migration]) \subseteq Range(Durable(Migration))
          <5>1. Migration \in Stores
            BY DEF Migration, Stores
          <5>2. CASE Begun(Migration)
            BY <5>1, <5>2, FilesTyped, FrontFacts DEF IInv, Begun, Durable
          <5>3. CASE ~Begun(Migration)
            BY <5>1, <5>3, DurableIs DEF IInv, FilesStand, FilesAt
          <5>4. QED
            BY <5>1, <5>2, <5>3
        <4>4. ActiveEdition' = m
          <5>1. pointer_journal' # NoFile
            BY <2>1, <3>3, FileAssumption DEF IInv, TypeOK, Aims, Activations
          <5>2. QED
            BY <3>3, <5>1 DEF Aims, ActiveEdition
        <4>5. ManifestOf(m) \in Range(log[StoreOf(ManifestOf(m))])
          BY <4>1, <4>2, <4>3
        <4>6. Promised!Activate(m)
          BY <3>1, <4>1, <4>4, <4>5 DEF Promised!Activate, Promised!Range, Range
        <4>7. QED
          BY <4>1, <4>6 DEF Promised!Next
      <3>4. QED
        BY <2>1, <3>2, <3>3 DEF PointerMoves
    <2>4. QED
      BY <2>2, <2>3
  <1>2. CASE SourceDrifts \/ UNCHANGED vars
    <2>1. UNCHANGED files
      BY <1>2 DEF SourceDrifts, vars, files
    <2>2. \A s \in Stores : Durable(s)' = Durable(s)
      BY <2>1, SameEffect DEF files, Same
    <2>3. QED
      BY <2>1, <2>2 DEF files, ActiveEdition
  <1>3. QED
    BY <1>1, <1>2 DEF Next

\* However the processes die, each store is an append-only log in which a key means one
\* thing and an entry was admitted by the log before it, and the active edition is a
\* verified manifest of the log: an append or an activation happens at once, when its
\* journal is written.
THEOREM StoresImplementPublicationLog == Spec => ImplementsPublicationLog
  BY PromisedInit, PromisedStep, StoresInvariant, PTL DEF Spec, ImplementsPublicationLog, Promised!Spec

------------------------------------------------------------------------------
(* Lengths *)

\* Wherever the thresholds of a valid policy lie and however long a chapter is,
\* review_publication_chapter demands a disposition exactly where append_decision takes one,
\* and the one that is taken lifts the block.
THEOREM ReviewAndStoreAgree ==
  ASSUME NEW count \in Nat, NEW p, ValidPolicy(p),
         p.short_min \in Nat, p.target_min \in Nat, p.target_max \in Nat, p.soft_max \in Nat, p.hard_max \in Nat
  PROVE  ReviewAgreesWithStore(count, p)
  BY DEF ReviewAgreesWithStore, Interval, LengthIssue, Warnings, ValidPolicy
==============================================================================
