----------------------------- MODULE RuleProperties -----------------------------
(***************************************************************************)
(* What the pure rules promise, each on the cases of the table that are    *)
(* about it: the codec of a chapter contract, its preflight, its revisions *)
(* and its approvals; the records of the store and the gate; the rules of  *)
(* a publication migration.                                                *)
(***************************************************************************)
EXTENDS Integers, CaseTable, NarrativeCodec, ContractRules, StoredRecords, PublicationPolicy, PublicationPlans

------------------------------------------------------------------------------
(* Chapter contracts *)

\* Whatever stored form a contract is read from, the current form it is then written in
\* reads as the same contract: no part is lost or changed by a migration on reading.
ReadAgain ==
    About("payload") =>
        LET d == Decode(case.payload) IN
        d # Refused => LET e == Encode(d) IN e # Refused => Decode(e) = d

\* A contract that passes the preflight is grounded in the sources as they are now: for
\* each causal field a reference names the current edition of a source, and that source
\* gives the field the very value the contract has; and an optional candidate that affects
\* the chapter stands in one of the fields it depends on.
ReadyIsGrounded ==
    About("preflight") /\ PreflightReady(case.contract, case.sources, case.analysis) =>
        LET c == case.contract IN
        /\ \A path \in DOMAIN c.causal :
              \E ref \in RefsAt(c, path) :
                 /\ ref.role = "intent" /\ ref.source \in DOMAIN case.sources
                 /\ LET source == case.sources[ref.source] IN
                    /\ source.edition = ref.edition
                    /\ At(source.values, path) = c.causal[path]
        /\ \A r \in c.candidates : r.impact = "yes" => \E path \in r.inputs : At(c.causal, path) = r.value
        /\ \A r \in c.candidates : r.impact # "undetermined"

\* A revision request that is accepted, whoever constructed it, names every leaf that is
\* changed, new or gone and counts it as affected; a major one was approved with exactly
\* the old and the new text; and the items that cover it must be approved again.
RevisionNamesEveryChange ==
    About("revision") /\ Verify(case.claimed, case.current, case.replacement, case.impact, case.requests) =>
        LET old == Leaves(case.current) new == Leaves(case.replacement)
            same(path) == path \in DOMAIN old /\ path \in DOMAIN new /\ old[path] = new[path]
        IN \A path \in DOMAIN old \union DOMAIN new :
              same(path) \/
                /\ path \in PathsOf(case.claimed.changes) /\ path \in case.claimed.impact
                /\ Major(path) => \E q \in case.requests :
                                     /\ q.status = "approved"
                                     /\ q.old = (IF path \in DOMAIN old THEN old[path] ELSE Missing)
                                     /\ q.new = (IF path \in DOMAIN new THEN new[path] ELSE Missing)
                /\ \A item \in SpecialItems \ {"post_freeze_revision"} :
                      Covers(item, path) => item \in RequiredRevisionApprovals(case.claimed)

\* When a record that approves the whole contract is accepted, each item that the contract
\* requires has been approved: none is rejected or passed over.
FullApprovalApprovesEach ==
    About("approval") /\ RecordValid(case.record) /\ ApprovalAccepted(case.record, case.contract, case.context) =>
        (case.record.items["full_contract"].status = "approved" =>
            \A item \in RequiredItems(case.contract, case.context) : case.record.items[item].status = "approved")

\* What changes in a contract, and what it holds, has been approved item by item.
ApprovalsCover == RevisionNamesEveryChange /\ FullApprovalApprovesEach

------------------------------------------------------------------------------
(* Stored records and the gate *)

\* The file of a record that was saved is accepted when it is read again.  A file of the
\* same name that is accepted holds the same record, however many of the hashes in it were
\* made anew; of an approval the name says only what it approves, not how each item was
\* decided.
NamesBindRecords ==
    About("file") /\ StoreTakes(case.type, case.saved) =>
        LET name == RecordId(case.type, case.saved) IN
        /\ EnvelopeAccepted(case.type, name, Envelope(case.type, case.saved))
        /\ EnvelopeAccepted(case.type, name, case.envelope) =>
              LET found == case.envelope.payload IN
              IF case.type = "approval"
              THEN \A f \in {"contract", "content", "manifest"} : found[f] = case.saved[f]
              ELSE found = case.saved

\* What the program stores it reads again as it was: a contract in each of its forms and a
\* record of the store.
StoredFormsReadAgain == ReadAgain /\ NamesBindRecords

\* As accept_review_issue builds it.
DecisionOn(result, issue, time) ==
    [issue |-> issue.id, hash |-> issue.hash, code |-> issue.code, path |-> issue.path,
     evidence |-> issue.evidence, status |-> "accepted", reason |-> "as it is", actor |-> "editor",
     decided |-> time, result |-> result.id, resultHash |-> result.hash]

\* The gate lets through exactly the reviews without a high issue of which each issue that
\* needs a person has one decision, and nothing that needs none; and a review that the store
\* took is never a dead end: the store takes these decisions too.
GateIsDecided ==
    About("gate") /\ StoreTakes("reviewer_result", case.result) =>
        LET result == case.result
            issues == {result.issues[i] : i \in DOMAIN result.issues}
            required == {i \in issues : NeedsDecision(i)}
            decided(k) == CHOOSE i \in issues : i.id = case.decisions[k].issue
            exact == /\ Len(case.decisions) = Cardinality(required)
                     /\ \A k \in DOMAIN case.decisions : case.decisions[k].resultHash = result.hash
                     /\ {decided(k) : k \in DOMAIN case.decisions} = required
        IN /\ GatePassed(result, case.decisions, [f \in Bindings |-> result[f]])
                 <=> exact /\ \A i \in issues : i.severity # "high"
           /\ \A i \in required : StoreTakes("disposition", DecisionOn(result, i, 1))

------------------------------------------------------------------------------
(* Publication migrations *)

\* The chapters that follow a plan to the letter: one for each unit of the plan.
Natural(plan, texts, first) ==
    [i \in DOMAIN plan.units |->
        [target |-> first + i - 1, body |-> texts[first + i - 1], omissions |-> <<>>,
         mappings |-> [j \in DOMAIN plan.units[i].fragments |->
                          [fragment |-> plan.units[i].fragments[j], body |-> texts[first + i - 1]]],
         outcomes |-> <<[id |-> i, unit |-> plan.units[i]]>>]]

------------------------------------------------------------------------------
\* A plan that is reviewed without an issue takes every paragraph of the archive exactly
\* once and in order, in a unit or in an omission, and of every chapter more than half is
\* kept: what a human may approve never loses a paragraph silently.
ReviewedPlanPartitions ==
    About("plan") /\ Review(case.plan, case.snapshot, case.archive) = {} =>
        LET used == UnitFragments(case.plan) omitted == OmittedFragments(case.plan.omissions)
            ofChapter(places, c) == Cardinality({p \in places : p[1] = c})
        IN /\ Len(used) + Len(omitted) = Cardinality(DOMAIN case.archive)
           /\ Places(used) \union Places(omitted) = DOMAIN case.archive
           /\ \A c \in {p[1] : p \in DOMAIN case.archive} :
                 ofChapter(Places(used), c) > ofChapter(Places(omitted), c)

\* A plan without an issue is not a dead end: the chapters that follow it to the letter
\* pass the check of the source coverage.
ReviewedPlanCanBeWritten ==
    About("plan") /\ Review(case.plan, case.snapshot, case.archive) = {} =>
        SourceCovered(case.archive, case.plan, Natural(case.plan, case.texts, case.first),
                      OmittedFragments(case.plan.omissions), case.texts)

\* The two checks of what the chapters consume agree: chapters of a reviewed plan that pass
\* the check against the archive can be put into a manifest, which counts again.
CoveredIsManifest ==
    /\ About("plan")
    /\ Review(case.plan, case.snapshot, case.archive) = {}
    /\ SourceCovered(case.archive, case.plan, case.entries, case.omissions, case.texts)
    /\ \A i \in DOMAIN case.entries : EntryValid(case.entries[i])
    => ManifestValid(case.entries, case.omissions, case.entries[1].target - 1)

\* What a human approves of a plan: nothing of the archive is lost or doubled, and the plan can
\* be carried out to a manifest that counts.
ReviewedPlanHolds == ReviewedPlanPartitions /\ ReviewedPlanCanBeWritten /\ CoveredIsManifest

\* A chapter's missing disposition blocks it exactly where the store takes one, and the
\* disposition that the store gives lifts the block.
DispositionAvailable == About("length") => ReviewAgreesWithStore(case.count, case.policy)

\* A chapter that is not blocked ends with a whole sentence, and has a hook that ends with
\* one in its last paragraph, after which no other begins.
UnblockedEndsWithHook ==
    About("chapter") /\ Blocking(case.entry, case.text, case.policy, case.disposed) = {} =>
        /\ CompleteEnding(case.text)
        /\ \E hook \in case.entry.hooks :
              /\ CompleteEnding(hook.excerpt)
              /\ \A i \in hook.from + 1 .. Len(case.text) : case.text[i] # "break"

\* What a migration's reviews let pass is sound, of a plan as of a chapter: nothing of the
\* archive is lost, and the chapter ends with its hook.
ReviewedMigrationHolds == ReviewedPlanHolds /\ UnblockedEndsWithHook

------------------------------------------------------------------------------
(* The cases of the table are of these forms *)

IsList(s) == s \in Seq(Range(s))
IsFragments(s) == IsList(s) /\ \A i \in DOMAIN s : s[i].chapter \in Int /\ s[i].ordinal \in Int

\* A case about a length has a count and a policy of numbers.
LengthTyped(k) ==
    k.about = "length" =>
        /\ k.count \in Nat /\ ValidPolicy(k.policy)
        /\ \A f \in {"short_min", "target_min", "target_max", "soft_max", "hard_max"} : k.policy[f] \in Nat

\* In a case about a preflight an edition is a version and a content hash.
Edition(e) == e = <<e[1], e[2]>>
PreflightTyped(k) ==
    k.about = "preflight" =>
        /\ \A path \in DOMAIN k.contract.bindings : \A ref \in k.contract.bindings[path] : Edition(ref.edition)
        /\ \A s \in DOMAIN k.sources : Edition(k.sources[s].edition)

\* In a case about a revision no leaf has the value that stands for a leaf that is gone.
RevisionTyped(k) ==
    k.about = "revision" =>
        \A d \in {k.current, k.replacement} : \A path \in DOMAIN Leaves(d) : Leaves(d)[path] # Missing

\* In a case about an approval each item has one of the three statuses.
ApprovalTyped(k) ==
    k.about = "approval" =>
        \A item \in ApprovalItems : k.record.items[item].status \in {"approved", "rejected", "not_applicable"}

\* What accept_review_issue made of an issue, for this review or an earlier one that had it.
MadeOn(issue, result, d) ==
    d.decided \in Nat \ {0} /\ d = [DecisionOn(result, issue, d.decided) EXCEPT !.resultHash = d.resultHash]
GateTyped(k) ==
    k.about = "gate" =>
        /\ IsList(k.decisions)
        /\ \A n \in DOMAIN k.decisions : \E i \in DOMAIN k.result.issues :
              MadeOn(k.result.issues[i], k.result, k.decisions[n])

PartNames == {"version", "identified", "choice", "plans", "candidates", "bindings", "obligations",
              "scene_plan", "technology_plan", "pov_plan", "legacy"}

IsParts(d) == d = [x \in PartNames |-> d[x]]

\* A payload has its fields, and each part of a decision.
PayloadTyped(k) ==
    k.about = "payload" =>
        LET p == k.payload IN
        /\ p = [version |-> p.version, root |-> p.root, contract |-> p.contract, old |-> p.old, parts |-> p.parts]
        /\ IsParts(p.parts)

IsRecord(r) == r = [x \in DOMAIN r |-> r[x]]
IsManifest(m) == m = [entries |-> m.entries, fingerprint |-> m.fingerprint]

\* What is saved is a record of a type, what is found a record with any fields, and a
\* manifest has its two.
FileTyped(k) ==
    k.about = "file" =>
        /\ k.type \in RecordTypes
        /\ \A r \in {k.saved, k.envelope.payload} :
              IsRecord(r) /\ ("manifest" \in DOMAIN r => IsManifest(r.manifest))

\* The lists of a plan and of its chapters are lists, and fragments have numbers; there is an archive.
PlanTyped(k) ==
    k.about = "plan" =>
        /\ DOMAIN k.archive # {} /\ k.first \in Int
        /\ IsList(k.plan.units) /\ \A i \in DOMAIN k.plan.units : IsFragments(k.plan.units[i].fragments)
        /\ IsList(k.plan.omissions) /\ \A i \in DOMAIN k.plan.omissions : IsFragments(k.plan.omissions[i].fragments)
        /\ IsFragments(k.omissions) /\ IsList(k.entries)
        /\ \A i \in DOMAIN k.entries :
              /\ k.entries[i].target \in Int /\ IsFragments(k.entries[i].omissions)
              /\ IsFragments([j \in DOMAIN k.entries[i].mappings |-> k.entries[i].mappings[j].fragment])

\* A case about a chapter has a text of code points, a window of characters, and hooks that begin somewhere.
ChapterTyped(k) ==
    k.about = "chapter" =>
        /\ k.text \in Seq(CodePoints) /\ k.policy.hook_window \in Nat
        /\ \A hook \in k.entry.hooks : hook.from \in Nat

\* What the theorems assume of the cases, of which the table may have any.
ASSUME CasesAssumption ==
    \A i \in DOMAIN Cases : \A k \in Cases[i] :
        /\ PayloadTyped(k) /\ PreflightTyped(k) /\ RevisionTyped(k) /\ ApprovalTyped(k)
        /\ FileTyped(k) /\ GateTyped(k)
        /\ PlanTyped(k) /\ LengthTyped(k) /\ ChapterTyped(k)
================================================================================
