------------------------------ MODULE ContextRules ------------------------------
(***************************************************************************)
(* What a writer gets to read: the memory that is retrieved                *)
(* (creative_os/memory/retriever.py), whether a next chapter may be built  *)
(* (domains/novel_continuation.py) and the context that is compiled        *)
(* (memory/context_compiler.py).                                           *)
(*                                                                         *)
(* An id is [of, version]: the versions of a contract share what it is of. *)
(* Sizes are counted as the compiler counts them; hashes are left out.     *)
(***************************************************************************)
EXTENDS CaseTable, Integers, Sequences, FiniteSets, SequencesExt

CONSTANT Retrieved  \* how many items are retrieved at most

ASSUME RetrievedAssumption == Retrieved \in Nat

NoGrant == [of |-> "none"]
NoContext == [is |-> "blocked"]

\* Those of a sequence that a set has, in their order.
Only(seq, S) == FoldLeft(LAMBDA kept, x : IF x \in S THEN Append(kept, x) ELSE kept, <<>>, seq)

------------------------------------------------------------------------------
(* Retrieval: MemoryRetriever *)

ScopeRank == [task |-> 0, project |-> 1, user |-> 2, domain |-> 3, global |-> 4]

Answers(item, query) ==
    /\ item.status = "active"
    /\ item.scope # "global" => item.owner = query.owners[item.scope]
    /\ item.applies # {} => query.work \in item.applies

Relevance(item, query) == <<-Cardinality(item.tags \intersect query.tags), ScopeRank[item.scope], -item.confidence, item.rank>>

Sooner(a, b) == \E k \in DOMAIN a : a[k] < b[k] /\ \A j \in 1 .. k - 1 : a[j] = b[j]

\* What answers, the soonest first, and no more of it than is retrieved.
Retrieve(items, query) ==
    LET all == {i \in items : Answers(i, query)}
        Soonest(left) == CHOOSE a \in left : \A b \in left : ~Sooner(Relevance(b, query), Relevance(a, query))
        best[k \in 0 .. Retrieved] ==
            IF k = 0 THEN <<>>
            ELSE LET found == best[k - 1]
                     left == all \ ToSet(found)
                 IN IF left = {} THEN found ELSE Append(found, Soonest(left))
    IN best[Retrieved]

\* What the retrieval found of states in their old form and of point-of-view plans is dropped.
Retained(found) == Only(found, {i \in ToSet(found) : i.form \notin {"old state", "pov"}})

------------------------------------------------------------------------------
(* Compilation: ContextCompiler.compile *)

\* _excluded_contract
IsOf(item, contracts) == item.id.of \in contracts

\* Mutant: only what is required is freed of the excluded contracts.
OptionalOfAny(found, contracts) == Only(found, {i \in ToSet(found) : i.kind # "working"})

Working(found, contracts) == Only(found, {i \in ToSet(found) : i.kind = "working" /\ ~IsOf(i, contracts)})
Optional(found, contracts) == Only(found, {i \in ToSet(found) : i.kind # "working" /\ ~IsOf(i, contracts)})

Frozen(grant) == [id |-> [of |-> grant.of, version |-> grant.version], kind |-> "narrative_decision", size |-> grant.size]

Knowledge(known, grant) ==
    IF grant = NoGrant THEN known
    ELSE Append(Only(known, {k \in ToSet(known) : k.kind # "narrative_decision" /\ ~IsOf(k, {grant.of})}), Frozen(grant))

SizeOf(seq) == FoldLeft(LAMBDA sum, x : sum + x.size, 0, seq)

TakeMemory(taken, item, max) ==
    IF taken.size + item.size > max THEN taken ELSE [size |-> taken.size + item.size, of |-> Append(taken.of, item)]

\* What is required must fit; of the rest is taken what fits, in the order it was retrieved.
Compile(found, known, grant, asked, max) ==
    LET excluded == IF grant = NoGrant THEN {} ELSE {grant.of}
        working == Working(found, excluded)
        knowledge == Knowledge(known, grant)
        required == asked + SizeOf(knowledge) + SizeOf(working)
        taken == FoldLeft(LAMBDA t, i : TakeMemory(t, i, max), [size |-> required, of |-> <<>>], Optional(found, excluded))
    IN IF required > max THEN NoContext
       ELSE [is |-> "context", working |-> working, knowledge |-> knowledge, memory |-> taken.of, size |-> taken.size]

------------------------------------------------------------------------------
(* build_next_chapter *)

LastChapterOf(project) == CHOOSE n \in project.chapters : \A m \in project.chapters : m <= n

\* A grant is taken for exactly the chapter that comes next and the contract it names.
GrantFits(grant, project) ==
    /\ grant.valid
    /\ grant.chapter = LastChapterOf(project) + 1
    /\ grant.decided = [of |-> grant.of, chapter |-> grant.chapter]

MayBuild(project, grant, required) ==
    /\ project.unresolved = {} /\ project.chapters # {}
    /\ grant # NoGrant => GrantFits(grant, project)
    /\ required => grant # NoGrant

\* The edition is read twice: when the context is asked for and when it is compiled.
EditionStands(project) == project.edition = project.editionThen

BuildNextChapter(project, items, known, grant, required, query, max) ==
    IF MayBuild(project, grant, required) /\ EditionStands(project)
    THEN Compile(Retained(Retrieve(items, query)), known, grant, project.asked, max)
    ELSE NoContext

------------------------------------------------------------------------------
\* A context made under a grant holds the granted contract once, as it was frozen, and no
\* other version of it from any other source, for the next chapter of the canon; the memory in
\* it is approved and in its scope, and what the context says of its size is its size and
\* within the budget.
ContextIsAdmitted ==
    About("context") =>
        LET c == case
            context == BuildNextChapter(c.project, c.items, c.known, c.grant, c.required, c.query, c.max)
            memory == ToSet(context.working) \union ToSet(context.memory)
            all == ToSet(context.knowledge) \union memory
        IN context # NoContext =>
              /\ c.required => c.grant # NoGrant
              /\ c.grant # NoGrant =>
                    /\ {x \in all : x.id.of = c.grant.of \/ x.kind = "narrative_decision"} = {Frozen(c.grant)}
                    /\ Cardinality({i \in DOMAIN context.knowledge : context.knowledge[i] = Frozen(c.grant)}) = 1
                    /\ c.grant.chapter = LastChapterOf(c.project) + 1
              /\ \A m \in memory : /\ m \in c.items /\ m.status = "active" /\ m.form # "old state"
                                   /\ m.scope # "global" => m.owner = c.query.owners[m.scope]
              /\ context.size = c.project.asked + SizeOf(context.knowledge) + SizeOf(context.working) + SizeOf(context.memory)
              /\ context.size <= c.max

\* In a case about a context sizes are counted, and what an item is ranked by has the form a
\* memory item has: a scope, a confidence between two bounds, never the kind of a grant.
ContextTyped(k) ==
    k.about = "context" =>
        /\ k.max \in Int /\ k.project.asked \in Nat
        /\ k.grant # NoGrant => k.grant.size \in Nat
        /\ k.known \in Seq(ToSet(k.known)) /\ \A x \in ToSet(k.known) : x.size \in Nat
        /\ IsFiniteSet(k.query.tags)
        /\ \A i \in k.items : /\ i.size \in Nat /\ i.kind # "narrative_decision"
                              /\ i.scope \in DOMAIN ScopeRank /\ i.confidence \in 0 .. 10 /\ i.rank \in Nat
ASSUME ContextAssumption == \A i \in DOMAIN Cases : \A k \in Cases[i] : ContextTyped(k)
==============================================================================
