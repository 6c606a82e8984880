------------------------------ MODULE ContractRules ------------------------------
(***************************************************************************)
(* The pure rules that stand before a chapter contract: the evidence of    *)
(* its fields (narrative_evidence.py), the analysis of its optional        *)
(* candidates (narrative_causality.py), the preflight                      *)
(* (contract_preflight.py), the revision request (contract_revision.py)    *)
(* and the human approvals (contract_approval.py).                         *)
(*                                                                         *)
(* A field path is a pair of the field it lies in and the place in it; a   *)
(* contract's content is a function on the paths of its leaves, and its    *)
(* hash is the contract itself.                                            *)
(***************************************************************************)
EXTENDS FiniteSets, Functions, Integers, Sequences

Missing == "<missing>"
No == "None"
NoRequest == [contract |-> No]

Field(path) == path[1]
At(f, path) == IF path \in DOMAIN f THEN f[path] ELSE No

------------------------------------------------------------------------------
(* Evidence of one field                                                     *)

Roles == {"intent", "verification", "realization", "non_applicability", "decision"}
Kinds == {"task", "director", "profile", "fact_snapshot", "previous_chapter", "outline_change"}

\* A reference is bound to a contract, to an authority only, or is read from an old replay.
RefValid(ref) ==
    CASE ref.form = "replay" -> ref.excerpt # No
      [] ref.form = "authority" -> ref.source # No /\ ref.assertion # No
      [] ref.form = "bound" -> /\ ref.source # No /\ ref.excerpt # No /\ ref.assertion # No
                               /\ ref.role \in Roles /\ ref.version >= 1

DeduplicationKey(ref) == <<ref.contract, ref.version, ref.path, ref.role, ref.source, ref.edition, ref.locator>>
DeduplicateEvidenceRefs(refs) ==
    SelectSeq([i \in DOMAIN refs |-> <<i, refs[i]>>],
              LAMBDA x : \A j \in 1 .. x[1] - 1 : DeduplicationKey(refs[j]) # DeduplicationKey(x[2]))

\* The edition of a source is its version and its content hash.
\* Mutant: only what the reference claims is compared.
ClaimMismatch(ref, source, expected) == ref.value # expected
ValueMismatch(ref, source, expected) ==
    ref.value # expected \/ At(source.values, ref.path) # expected

\* The first thing wrong with a reference, in the order in which the code looks.
RefIssue(ref, path, sources, expected, requireKind) ==
    CASE ref.form = "replay" \/ ref.path # path -> "evidence_field_path_mismatch"
      [] OTHER ->
            LET source == sources[ref.source] IN
            CASE ref.source \notin DOMAIN sources -> "evidence_source_missing"
              [] source.edition[1] # ref.edition[1] -> "evidence_version_mismatch"
              [] source.edition[2] # ref.edition[2] -> "evidence_hash_mismatch"
              [] requireKind /\ source.kind \notin Kinds -> "evidence_source_kind_missing"
              [] At(source.excerpts, ref.locator) = No -> "evidence_locator_unresolved"
              [] At(source.excerpts, ref.locator) # ref.excerpt -> "evidence_excerpt_mismatch"
              [] <<ref.path, ref.assertion>> \notin source.assertions -> "evidence_assertion_mismatch"
              [] expected # No /\ ValueMismatch(ref, source, expected) -> "evidence_asserted_value_mismatch"
              [] OTHER -> No

------------------------------------------------------------------------------
(* Optional candidates                                                       *)

RulesetVersion == "causal-rules-v1"

CanReadField(c, path) == path \in DOMAIN c.causal
DependenciesResolve(c, r) == r.inputs # {} /\ \A path \in r.inputs : CanReadField(c, path)
Decided(c, r) ==
    \/ r.by = "human" /\ r.ref # No
    \/ r.by = "rule" /\ r.ref = RulesetVersion /\ DependenciesResolve(c, r)
FormallyIncluded(c, r) == r.value # No /\ \E path \in r.inputs : CanReadField(c, path) /\ c.causal[path] = r.value

Resolved(c, r) ==
    /\ DependenciesResolve(c, r)
    /\ r.impact # "undetermined"
    /\ Decided(c, r)
    /\ r.impact = "yes" => r.known /\ FormallyIncluded(c, r)

\* A candidate's own form: a known value is there, an unknown one is not.
ResolutionValid(r) == r.known <=> r.value # No

CausalIssues(c) == {r \in c.candidates : ~ResolutionValid(r) \/ ~Resolved(c, r)}

Analyze(c) ==
    [candidates |-> c.candidates, issues |-> CausalIssues(c),
     bound |-> IF c.valid /\ \A r \in c.candidates : ResolutionValid(r) THEN {c} ELSE {},
     ruleset |-> RulesetVersion]

\* What the analysis found is found again, and it must be of this very content.
CausalityAccepted(c, result) ==
    /\ result.issues = {}
    /\ result.candidates = c.candidates
    /\ CausalIssues(c) = {}
    /\ result.ruleset = RulesetVersion
    /\ c.valid /\ result.bound = {c}

------------------------------------------------------------------------------
(* The preflight                                                             *)

Role(role, value) == [role |-> role, value |-> value]

\* The fields that need evidence, with the role and the value it must have.
RequiredRoles(c) ==
    LET plan(path) == c.plans[path] IN
    [path \in DOMAIN c.causal
              \union {p \in DOMAIN c.plans : ~plan(p).filled /\ plan(p).reason # No} |->
        IF path \in DOMAIN c.causal THEN Role("intent", c.causal[path])
        ELSE Role("non_applicability", plan(path).reason)]

Complete(c) ==
    /\ c.valid /\ c.control
    /\ \A path \in DOMAIN c.causal : c.causal[path] # No
    /\ \A f \in c.arrays : \E path \in DOMAIN c.causal : Field(path) = f
    /\ c.choice = "complete"
    /\ \A p \in DOMAIN c.plans : c.plans[p].filled <=> c.plans[p].reason = No

RefsAt(c, path) == IF path \in DOMAIN c.bindings THEN c.bindings[path] ELSE {}

IntentsOf(c, path, sources, kind) ==
    {At(sources[ref.source].values, path) :
        ref \in {r \in RefsAt(c, path) :
                    /\ r.path = path /\ r.role = "intent"
                    /\ r.source \in DOMAIN sources /\ sources[r.source].kind = kind}} \ {No}

EvidenceIssues(c, sources) ==
    LET required == RequiredRoles(c)
        wrong(path) ==
            LET role == required[path].role value == required[path].value
                task == IntentsOf(c, path, sources, "task")
                director == IntentsOf(c, path, sources, "director")
            IN \/ \E ref \in RefsAt(c, path) :
                     RefIssue(ref, path, sources, value, TRUE) # No \/ ref.role # role
               \/ {ref \in RefsAt(c, path) : ref.role = role} = {}
               \/ role = "intent" /\ task # {} /\ director # {} /\ Cardinality(task \union director) > 1
    IN {path \in DOMAIN required : wrong(path)} \union (DOMAIN c.bindings \ DOMAIN required)

\* The obligations are compared with a projection only where a caller passes one in the
\* place of the causal result, which the analysis then refuses.
EngagementIssues(c) == IF c.schema = 3 /\ c.obligations = {} THEN {"engagement_missing"} ELSE {}

PreflightReady(c, sources, result) ==
    /\ Complete(c)
    /\ EvidenceIssues(c, sources) = {}
    /\ CausalityAccepted(c, result)
    /\ EngagementIssues(c) = {}

------------------------------------------------------------------------------
(* The revision request                                                      *)

MajorFields == {"arc_phase", "arc_goal", "inherited_pressure", "future_pressures", "functions",
                "dramatic_question", "protagonist_choice", "reader_change", "information",
                "pressure_curve", "foreshadow_actions", "ending_shift", "forbidden"}
Major(path) == Field(path) \in MajorFields

\* The version, the evidence bindings and legacy evidence are not part of what is compared.
Leaves(d) == d.leaves

\* A leaf that is gone or new, or that has another value: old and new text, or Missing.
Change(path, old, new) ==
    [path |-> path,
     old |-> IF path \in DOMAIN old THEN old[path] ELSE Missing,
     new |-> IF path \in DOMAIN new THEN new[path] ELSE Missing]
\* Mutant: the leaves that the replacement no longer has are not looked at.
DiffOfReplacement(current, replacement) ==
    {c \in {Change(path, Leaves(current), Leaves(replacement)) : path \in DOMAIN Leaves(replacement)} : c.old # c.new}

Diff(current, replacement) ==
    LET old == Leaves(current) new == Leaves(replacement)
        all == {Change(path, old, new) : path \in DOMAIN old \union DOMAIN new}
    IN {c \in all : c.old # c.new}

PathsOf(changes) == {c.path : c \in changes}

ChangeRequestValid(q) == q.chapters # {} /\ \A n \in q.chapters : n >= 1

ApprovedReferences(changes, chapter, requests) ==
    LET covered(q) == PathsOf({c \in changes : Major(c.path) /\ c.old = q.old /\ c.new = q.new})
    IN {[id |-> q.id, request |-> q, covered |-> covered(q)] :
            q \in {q \in requests : q.status = "approved" /\ chapter \in q.chapters /\ covered(q) # {}}}

MajorCovered(changes, references) ==
    \A c \in changes : Major(c.path) => \E r \in references : c.path \in r.covered

RequestValid(r) ==
    /\ r.version = r.base.version + 1
    /\ r.changes # {}
    /\ \A x, y \in r.references : x.id = y.id => x = y

Request(current, replacement, changes, impact, references, baselines) ==
    [contract |-> current.contract, chapter |-> current.chapter, base |-> current, replacement |-> replacement,
     version |-> replacement.version, baselines |-> baselines,
     changes |-> changes, impact |-> impact, references |-> references]

CanonicalPaths(current, replacement) == DOMAIN Leaves(current) \union DOMAIN Leaves(replacement)

Build(current, replacement, impact, requests, baselines) ==
    LET changes == Diff(current, replacement)
        references == ApprovedReferences(changes, current.chapter, requests)
        built == Request(current, replacement, changes, impact, references, baselines)
    IN IF /\ current.contract = replacement.contract /\ current.chapter = replacement.chapter
          /\ impact \subseteq CanonicalPaths(current, replacement)
          /\ \A q \in requests : ChangeRequestValid(q)
          /\ MajorCovered(changes, references)
          /\ PathsOf(changes) \subseteq impact
          /\ RequestValid(built)
       THEN built ELSE NoRequest

\* A request that anyone constructed is compared with what is computed again.
Verify(r, current, replacement, impact, requests) ==
    LET changes == Diff(current, replacement)
        references == ApprovedReferences(changes, current.chapter, requests)
    IN /\ impact \subseteq CanonicalPaths(current, replacement)
       /\ \A q \in requests : ChangeRequestValid(q)
       /\ MajorCovered(changes, references)
       /\ r = Request(current, replacement, changes, impact, references, r.baselines)
       /\ PathsOf(r.changes) \subseteq r.impact

RequiresNewReviewer(r) == r.baselines[1] # r.baselines[2]

------------------------------------------------------------------------------
(* The approvals                                                             *)

SpecialItems == {"major_choice_and_cost", "information_reveal_and_misdirect", "foreshadow_payoff_or_close",
                 "new_facts", "outline_change", "post_freeze_revision"}
ApprovalItems == SpecialItems \union {"full_contract"}

CoveredFields ==
    [major_choice_and_cost |-> {"protagonist_choice", "pressure_curve", "ending_shift"},
     information_reveal_and_misdirect |-> {"information", "reader_change", "forbidden"},
     foreshadow_payoff_or_close |-> {"foreshadow_actions", "hook_refs"},
     new_facts |-> {"new_fact_candidates", "fact_boundary_refs"},
     outline_change |-> {"arc_phase", "arc_goal", "change_requests"},
     post_freeze_revision |-> {"revision_request"}]
Covers(item, path) == item = "full_contract" \/ Field(path) \in CoveredFields[item]

\* The context names the events of a chapter: foreshadowing, new facts, outline changes.
RequiredItems(d, context) ==
    {"full_contract", "major_choice_and_cost", "information_reveal_and_misdirect"}
    \union (IF (\E path \in DOMAIN Leaves(d) : path = <<"foreshadow_actions", "value">>)
               \/ context.foreshadow # {} THEN {"foreshadow_payoff_or_close"} ELSE {})
    \union (IF context.facts # {} THEN {"new_facts"} ELSE {})
    \union (IF context.outline # {} THEN {"outline_change"} ELSE {})

TouchedItems(paths) ==
    {item \in SpecialItems \ {"post_freeze_revision"} : \E path \in paths : Covers(item, path)}

\* What must be approved again before a contract is frozen.
RequiredReapprovals(d, changes, context) ==
    LET required == RequiredItems(d, context)
        events(set, item) == IF set # {} THEN {item} ELSE {}
        moved == changes.direct \union changes.causal
    IN IF moved = {} /\ changes.roles = {} /\ changes.events = [foreshadow |-> {}, facts |-> {}, outline |-> {}]
       THEN {}
       ELSE {"full_contract"} \union TouchedItems(moved)
            \union events(changes.events.foreshadow, "foreshadow_payoff_or_close")
            \union events(changes.events.facts, "new_facts")
            \union events(changes.events.outline, "outline_change")
            \union (IF changes.roles # {} THEN required ELSE {})
            \union events(changes.roles \intersect {"outline_change"}, "outline_change")
            \union (IF changes.causal # {} THEN required \intersect {"outline_change"} ELSE {})

\* What must be approved for the replacement of a frozen contract.
RequiredRevisionApprovals(r) ==
    {"full_contract", "post_freeze_revision"} \union TouchedItems(PathsOf(r.changes) \union r.impact)

ItemValid(item, x, record) ==
    /\ x.actor = "human" /\ x.zone
    /\ \A e \in x.evidence : e.role = "decision" /\ e.contract = record.contract /\ Covers(item, e.path)

\* Mutant: a rejected item does not disturb the approval of the whole.
NoConflictOfRejection(statuses) ==
    /\ statuses["full_contract"] # "not_applicable"
    /\ statuses["full_contract"] = "rejected" => \A item \in SpecialItems : statuses[item] # "approved"
NoConflict(statuses) ==
    /\ statuses["full_contract"] # "not_applicable"
    /\ statuses["full_contract"] = "approved" => \A item \in SpecialItems : statuses[item] # "rejected"
    /\ statuses["full_contract"] = "rejected" => \A item \in SpecialItems : statuses[item] # "approved"
RecordValid(record) ==
    /\ \A item \in ApprovalItems : ItemValid(item, record.items[item], record)
    /\ NoConflict([item \in ApprovalItems |-> record.items[item].status])

\* The record against the contract it approves.
ApprovalAccepted(record, d, context) ==
    /\ record.contract = <<d.contract, d.version>> /\ record.content = d
    /\ \A item \in ApprovalItems : \A e \in record.items[item].evidence :
          IF item = "full_contract" /\ Field(e.path) = "BaselineManifest.fingerprint"
          THEN e.edition[2] = record.baseline
          ELSE e.path \in {p \in DOMAIN Leaves(d) : Leaves(d)[p] # No}
    /\ \A item \in RequiredItems(d, context) \ {"full_contract"} : record.items[item].status # "not_applicable"
==============================================================================
