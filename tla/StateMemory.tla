------------------------------- MODULE StateMemory -------------------------------
(***************************************************************************)
(* What a human's decisions make of a story's state: the memory store and  *)
(* its review (creative_os/memory/store.py, model.py, approval.py), the    *)
(* snapshots built from what is active and the part of them a writer's     *)
(* context has room for (domains/novel_state_store.py).  No lock is taken: *)
(* reviewers and authors read an item, then write what they made of it.    *)
(*                                                                         *)
(* An item's id is <<chapter, rank>>, sorted as its file's name is.  A     *)
(* subject is a kind and a name, and its snapshot's file is called after   *)
(* both: _safe makes one name of many, so two subjects may share a file.   *)
(* A field's value is a list or a single value, both as [list, of].  The   *)
(* trace files under state/changes are left out: nothing reads them.       *)
(***************************************************************************)
EXTENDS Integers, Sequences, FiniteSets, SequencesExt

CONSTANTS
    Items,          \* the ids of state changes
    Contents,       \* what an item may say: [subject, fields]
    Subjects,       \* a sequence: the subjects in the order they are written
    FileOf(_),      \* the snapshot file of a subject
    ByPriority,     \* a sequence: the same subjects in the order a context takes them
    Additive,       \* ADDITIVE_FIELDS
    Beginnings,     \* what the item files may hold at first
    Users,          \* processes that review or author
    Size(_),        \* how long a snapshot is in a context
    MaxChars,       \* the context's budget
    MaxVersion,     \* bound: revisions of an item
    MaxOperations   \* bound: operations begun

VARIABLES
    items,      \* the item files
    revisions,  \* the earlier versions, one file each
    audit,      \* the lines of audit.jsonl
    snapshots,  \* the snapshot files
    work,       \* what each user is doing
    builder,    \* what materialize_active_state is doing
    decided,    \* history: the contents a human approved
    built,      \* history: whether the snapshots were built from the items as they are
    begun       \* operations begun

users == <<work, begun>>
memoryVars == <<items, revisions, audit, snapshots, work, builder, decided, built, begun>>

Statuses == {"candidate", "active", "rejected", "archived"}
Actors == {"human", "system"}
NoItem == [status |-> "none"]
Files == [status : Statuses, content : Contents, version : 1 .. MaxVersion]
Idle == [at |-> "idle"]
Missing == [is |-> "missing"]
Torn == [is |-> "torn"]
SnapshotFiles == {FileOf(s) : s \in Range(Subjects)}

ASSUME BudgetAssumption == MaxChars \in Nat /\ MaxChars >= 2
ASSUME MemoryAssumption ==
    /\ IsFiniteSet(Items) /\ Items \subseteq Int \X Int
    /\ Subjects \in Seq(Range(Subjects)) /\ ByPriority \in Seq(Range(ByPriority))
    /\ \A c \in Contents : \A f \in DOMAIN c.fields : c.fields[f].of \in Seq(Range(c.fields[f].of))
    /\ Beginnings \subseteq [Items -> Files \union {NoItem}]
    /\ MaxVersion \in Nat \ {0}

\* A content the state store does not understand has no subject.
IsState(content) == content.subject \in Range(Subjects)

------------------------------------------------------------------------------
(* Reviewing: what an operation asks of an item and what it makes of it. *)

Allowed == [approve |-> {"candidate"}, reject |-> {"candidate"}, archive |-> {"active", "rejected"}, revise |-> Statuses]
Becomes == [approve |-> "active", reject |-> "rejected", archive |-> "archived"]

\* Mutant: the revised text keeps the status the old one had.
RevisedInPlace(item, content) == [item EXCEPT !.content = content, !.version = @ + 1]

Revised(item, content) == [status |-> "candidate", content |-> content, version |-> item.version + 1]

Start(u, job) == work[u] = Idle /\ begun < MaxOperations /\ work' = [work EXCEPT ![u] = job] /\ begun' = begun + 1

\* add_candidate looks whether the file exists, then writes it.
FindFree(u, i, content) ==
    /\ items[i] = NoItem
    /\ Start(u, [at |-> "add", op |-> "add", id |-> i, old |-> NoItem,
                 new |-> [status |-> "candidate", content |-> content, version |-> 1]])
    /\ UNCHANGED <<items, revisions, audit, snapshots, builder, decided, built>>

\* _transition, and the human actor activate, reject and archive ask for.
Decide(u, op, actor, i) ==
    /\ items[i].status \in Allowed[op] /\ actor # "system"
    /\ Start(u, [at |-> "write", op |-> op, id |-> i, old |-> items[i],
                 new |-> [items[i] EXCEPT !.status = Becomes[op]]])
    /\ decided' = IF op = "approve" THEN decided \union {[id |-> i, content |-> items[i].content]} ELSE decided
    /\ UNCHANGED <<items, revisions, audit, snapshots, builder, built>>

Revise(u, i, content) ==
    /\ items[i].status \in Allowed["revise"] /\ items[i].version < MaxVersion
    /\ Start(u, [at |-> "keep", op |-> "revise", id |-> i, old |-> items[i], new |-> Revised(items[i], content)])
    /\ UNCHANGED <<items, revisions, audit, snapshots, builder, decided, built>>

Go(u, at) == work' = [work EXCEPT ![u] = IF at = "idle" THEN Idle ELSE [@ EXCEPT !.at = at]] /\ UNCHANGED begun

KeepRevision(u) ==
    /\ work[u].at = "keep"
    /\ revisions' = [revisions EXCEPT ![work[u].id][work[u].old.version] = work[u].old]
    /\ Go(u, "write")
    /\ UNCHANGED <<items, audit, snapshots, builder, decided, built>>

\* The file is replaced whole; add_candidate is over, the others still note what they did.
WriteItem(u) ==
    /\ work[u].at \in {"add", "write"}
    /\ items' = [items EXCEPT ![work[u].id] = work[u].new]
    /\ Go(u, IF work[u].at = "add" THEN "idle" ELSE "audit")
    /\ built' = "no"
    /\ UNCHANGED <<revisions, audit, snapshots, builder, decided>>

Line(job) == [action |-> job.op, id |-> job.id, from |-> job.old.status, to |-> job.new.status]

AppendAudit(u) ==
    /\ work[u].at = "audit"
    /\ audit' = audit \union {Line(work[u])}
    /\ Go(u, "idle")
    /\ UNCHANGED <<items, revisions, snapshots, builder, decided, built>>

CrashUser(u) ==
    /\ work[u] # Idle
    /\ Go(u, "idle")
    /\ UNCHANGED <<items, revisions, audit, snapshots, builder, decided, built>>

------------------------------------------------------------------------------
(* Merging the changes of one subject, in the order of their chapters. *)

Earlier(a, b) == a.id[1] < b.id[1] \/ (a.id[1] = b.id[1] /\ a.id[2] < b.id[2])

ActiveIds == {i \in Items : items[i].status = "active" /\ IsState(items[i].content)}
ActiveEntries == {[id |-> i, content |-> items[i].content] : i \in ActiveIds}
EntriesOf(seen, s) == {e \in seen : e.content.subject = s}
Latest(entries) == CHOOSE e \in entries : \A d \in entries : ~Earlier(e, d)

Nothing == [fields |-> <<>>, sources |-> <<>>, conflict |-> FALSE]

\* _unique: of what is there more than once the first stays.
AppendNew(found, x) == IF x \in Range(found) THEN found ELSE Append(found, x)
Unique(values) == FoldLeft(AppendNew, <<>>, values)

Joined(old, new) == [list |-> TRUE, of |-> Unique(old.of \o new.of)]

\* Mutant: the value of the first chapter stands.
MergeFirst(merged, entry) ==
    LET new == entry.content.fields IN
    [merged EXCEPT
        !.fields = [f \in DOMAIN @ \union DOMAIN new |-> IF f \in DOMAIN @ THEN @[f] ELSE new[f]],
        !.sources = [f \in DOMAIN @ \union DOMAIN new |-> IF f \in DOMAIN new THEN entry.id ELSE @[f]]]

\* _merge_fields
Merge(merged, entry) ==
    LET old == merged.fields
        new == entry.content.fields
        chapter == entry.id[1]
        Since(f) == merged.sources[f][1]
        Clash(f) == IF f \in Additive THEN ~(old[f].list /\ new[f].list)
                    ELSE old[f] # new[f] /\ Since(f) = chapter
        both == DOMAIN old \intersect DOMAIN new
        Value(f) == CASE f \notin DOMAIN old -> new[f]
                      [] f \in both \intersect Additive -> Joined(old[f], new[f])
                      [] f \in both \ Additive /\ chapter > Since(f) -> new[f]
                      [] OTHER -> old[f]
        Renewed(f) == f \in DOMAIN new /\ (f \in DOMAIN old => chapter >= Since(f))
        fields == DOMAIN old \union DOMAIN new
    IN IF merged.conflict \/ \E f \in both : Clash(f)
       THEN [merged EXCEPT !.conflict = TRUE]
       ELSE [fields |-> [f \in fields |-> Value(f)],
             sources |-> [f \in fields |-> IF Renewed(f) THEN entry.id ELSE merged.sources[f]],
             conflict |-> FALSE]

\* The latest entry is merged into what the earlier ones make.
Merged(entries) == MapThenFoldSet(LAMBDA e, merged : Merge(merged, e), Nothing, LAMBDA e : e, Latest, entries)

SnapshotOf(entries) ==
    LET merged == Merged(entries)
        latest == Latest(entries)
    IN [is |-> "file", subject |-> latest.content.subject, fields |-> merged.fields, sources |-> merged.sources,
        latest |-> latest.id]

\* Every snapshot that can be made has a length.
ASSUME SizeAssumption ==
    \A S \in SUBSET [id : Items, content : Contents] : S # {} /\ IsFiniteSet(S) => Size(SnapshotOf(S)) \in Nat

------------------------------------------------------------------------------
(* materialize_active_state: reads what is active, then writes one file after another. *)

BuilderIs(at, seen, left) == [at |-> at, seen |-> seen, left |-> left]
Mentioned(seen) == {e.content.subject : e \in seen}

\* The subjects are written in their order, whatever their files.
FirstOf(left) == Subjects[Min({k \in DOMAIN Subjects : Subjects[k] \in left})]

ReadActive ==
    /\ builder = Idle
    /\ LET seen == ActiveEntries
       IN builder' = IF seen = {} THEN Idle ELSE BuilderIs("open", seen, Mentioned(seen))
    /\ built' = IF ActiveEntries = {} THEN "yes" ELSE "reading"
    /\ UNCHANGED <<items, revisions, audit, snapshots, users, decided>>

\* A conflict ends the run; the snapshots before it are written.
Conflict ==
    /\ builder.at = "open"
    /\ Merged(EntriesOf(builder.seen, FirstOf(builder.left))).conflict
    /\ builder' = Idle
    /\ UNCHANGED <<items, revisions, audit, snapshots, users, decided, built>>

\* write_text empties the file before it writes.
OpenSnapshot ==
    /\ builder.at = "open"
    /\ ~Merged(EntriesOf(builder.seen, FirstOf(builder.left))).conflict
    /\ snapshots' = [snapshots EXCEPT ![FileOf(FirstOf(builder.left))] = Torn]
    /\ builder' = [builder EXCEPT !.at = "text"]
    /\ UNCHANGED <<items, revisions, audit, users, decided, built>>

WriteSnapshot ==
    /\ builder.at = "text"
    /\ LET s == FirstOf(builder.left)
       IN snapshots' = [snapshots EXCEPT ![FileOf(s)] = SnapshotOf(EntriesOf(builder.seen, s))]
    /\ LET left == builder.left \ {FirstOf(builder.left)} IN
       /\ builder' = IF left = {} THEN Idle ELSE BuilderIs("open", builder.seen, left)
       /\ built' = IF left = {} /\ built = "reading" THEN "yes" ELSE built
    /\ UNCHANGED <<items, revisions, audit, users, decided>>

CrashBuilder ==
    /\ builder # Idle
    /\ builder' = Idle
    /\ UNCHANGED <<items, revisions, audit, snapshots, users, decided, built>>

------------------------------------------------------------------------------
(* Reading the snapshots: load_active_snapshots, compact_active_snapshots. *)

LoadFails == \E f \in SnapshotFiles : snapshots[f] = Torn

\* A subject is loaded when its file says something of it, and of another that shares the file nothing is.
Snapshot(s) == snapshots[FileOf(s)]
Loaded ==
    {s \in Range(Subjects) :
        Snapshot(s).is = "file" /\ Snapshot(s).subject = s /\ items[Snapshot(s).latest].status = "active"}

\* Mutant: the separators are free.
TakeUnseparated(taken, s) ==
    LET used == taken.used + Size(Snapshot(s))
    IN IF s \notin Loaded \/ used > MaxChars THEN taken ELSE [used |-> used, of |-> Append(taken.of, s)]

Take(taken, s) ==
    LET used == taken.used + (IF taken.of = <<>> THEN 0 ELSE 2) + Size(Snapshot(s))
    IN IF s \notin Loaded \/ used > MaxChars THEN taken ELSE [used |-> used, of |-> Append(taken.of, s)]

\* The brackets are counted first; what does not fit is passed over, what comes later may.
Compact == FoldLeft(Take, [used |-> 2, of |-> <<>>], ByPriority).of

------------------------------------------------------------------------------
MemoryInit ==
    /\ items \in Beginnings
    /\ revisions = [i \in Items |-> [v \in 1 .. MaxVersion |-> NoItem]]
    /\ audit = {}
    /\ snapshots = [f \in SnapshotFiles |-> Missing]
    /\ work = [u \in Users |-> Idle]
    /\ builder = Idle
    /\ decided = {[id |-> i, content |-> items[i].content] : i \in {j \in Items : items[j].status = "active"}}
    /\ built = "no"
    /\ begun = 0

UserNext(u) ==
    \/ \E i \in Items, content \in Contents : FindFree(u, i, content)
    \/ \E op \in DOMAIN Becomes, actor \in Actors, i \in Items : Decide(u, op, actor, i)
    \/ \E i \in Items, content \in Contents : Revise(u, i, content)
    \/ KeepRevision(u)
    \/ WriteItem(u)
    \/ AppendAudit(u)
    \/ CrashUser(u)

MemoryNext ==
    \/ \E u \in Users : UserNext(u)
    \/ ReadActive
    \/ Conflict
    \/ OpenSnapshot
    \/ WriteSnapshot
    \/ CrashBuilder

MemorySpec == MemoryInit /\ [][MemoryNext]_memoryVars

------------------------------------------------------------------------------
(* Properties *)

\* Every variable holds what its file or process can hold.
TypeOK ==
    /\ \A i \in Items : items[i] = NoItem \/ (items[i].status \in Statuses /\ items[i].version \in 1 .. MaxVersion)
    /\ \A f \in SnapshotFiles : snapshots[f].is \in {"missing", "torn", "file"}
    /\ \A u \in Users : work[u].at \in {"idle", "add", "keep", "write", "audit"}
    /\ builder.at \in {"idle", "open", "text"}
    /\ built \in {"no", "reading", "yes"}

\* Who says something of a field, and where a value of a list was said first.
Saying(entries, f) == {e \in entries : f \in DOMAIN e.content.fields}
ListOf(e, f) == e.content.fields[f].of
FirstSaid(said, f, x, e, k) ==
    /\ ListOf(e, f)[k] = x /\ \A j \in 1 .. k - 1 : ListOf(e, f)[j] # x
    /\ \A d \in said : Earlier(d, e) => x \notin Range(ListOf(d, f))
SaidBefore(said, f, x, y) ==
    \E d, e \in said : \E j \in DOMAIN ListOf(d, f), k \in DOMAIN ListOf(e, f) :
        FirstSaid(said, f, x, d, j) /\ FirstSaid(said, f, y, e, k) /\ (Earlier(d, e) \/ (d = e /\ j < k))

\* All that was ever said, once and in the order it was said.
Collects(value, said, f) ==
    /\ value.list /\ Range(value.of) = UNION {Range(ListOf(e, f)) : e \in said}
    /\ \A j, k \in DOMAIN value.of : j < k => SaidBefore(said, f, value.of[j], value.of[k])

\* Of the subjects that share a file the one written last keeps it.
KeepsItsFile(s, mentioned) == \A r \in mentioned : FileOf(r) = FileOf(s) => FirstOf({r, s}) = r

\* When a run of the materialiser ended and no item was written since it read them, every
\* subject that is still spoken of, but for one whose file a later subject took over, has a
\* snapshot that says exactly what the approved changes say together, whatever files crashed
\* runs, conflicts and earlier revisions left behind: of every single value what its latest
\* chapter says, of every list all that was said.
SnapshotsAreCurrent ==
    built = "yes" =>
        \A s \in Mentioned(ActiveEntries) : KeepsItsFile(s, Mentioned(ActiveEntries)) =>
            LET entries == EntriesOf(ActiveEntries, s) IN
            /\ s \in Loaded
            /\ DOMAIN Snapshot(s).fields = UNION {DOMAIN e.content.fields : e \in entries}
            /\ \A f \in DOMAIN Snapshot(s).fields :
                LET said == Saying(entries, f) IN
                /\ Snapshot(s).sources[f] = Latest(said).id
                /\ IF f \in Additive /\ Cardinality(said) > 1
                   THEN Collects(Snapshot(s).fields[f], said, f)
                   ELSE Snapshot(s).fields[f] = Latest(said).content.fields[f]

\* Does not hold, because of files two subjects share: whatever is spoken of is loaded.
EverySubjectIsLoaded == built = "yes" => Mentioned(ActiveEntries) \subseteq Loaded

\* Nothing reaches a snapshot that a human did not approve in that very text and of that
\* subject, however reviews, revisions and the materialiser interleave or die.
SnapshotsRestOnDecisions ==
    \A file \in Range(snapshots) : file.is = "file" =>
        \A f \in DOMAIN file.fields :
            \A x \in Range(file.fields[f].of) :
                \E d \in decided : /\ d.content.subject = file.subject /\ f \in DOMAIN d.content.fields
                                   /\ x \in Range(d.content.fields[f].of)

\* What a context takes of the snapshots, with its brackets and separators, fits its budget.
Rendered(taken) ==
    2 + FoldLeft(LAMBDA sum, s : sum + Size(Snapshot(s)), 0, taken) + (IF taken = <<>> THEN 0 ELSE 2 * (Len(taken) - 1))
ContextFits == ~LoadFails => Rendered(Compact) <= MaxChars
==============================================================================
