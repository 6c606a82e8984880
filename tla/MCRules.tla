-------------------------------- MODULE MCRules --------------------------------
(***************************************************************************)
(* The table of cases: stored contracts, preflights, revisions and         *)
(* approvals; stored records and reviews; projections; plans and chapters  *)
(* of a publication migration; contexts; continuation runs.  Each kind is  *)
(* enumerated around what its rules tell apart.                            *)
(***************************************************************************)
EXTENDS RuleProperties, ProjectionFiles, ContextRules, ContinuationRules

------------------------------------------------------------------------------
\* Cases about a chapter contract: stored payloads of every form with one or two parts
\* out of the ordinary; contracts before the preflight; revision requests, built and
\* tampered with; and approval records.

Full == ChoiceFields
Choice(filled, missing, status) == [filled |-> filled, missing |-> missing, status |-> status]
Plan(values, reason) == [values |-> values, reason |-> reason]
Scene(order, information, state) == [order |-> order, information |-> information, state |-> state]
Bound(own, role) == [own |-> own, role |-> role]
NoBindings == [path \in {} |-> {}]

PlainParts ==
    [version |-> 2, identified |-> TRUE, choice |-> Choice(Full, {}, "complete"),
     plans |-> [name \in PlanNames |-> Plan(TRUE, FALSE)],
     candidates |-> <<>>, bindings |-> NoBindings, obligations |-> <<>>,
     scene_plan |-> NoScenes, technology_plan |-> <<>>, pov_plan |-> NoPov, legacy |-> <<>>]

ChoiceForms == {Choice(f, m, s) : f \in {Full, Full \ {"cost"}, {}}, m \in {{}, {"cost"}, Full},
                              s \in {"complete", "partial", "unknown"}}
PlansOf == {[name \in PlanNames |-> IF name = "forbidden" THEN Plan(v, r) ELSE Plan(TRUE, FALSE)] :
               v \in BOOLEAN, r \in BOOLEAN}
Scenes == {[scenes |-> s, intent |-> i, run |-> n] :
              s \in {<<>>, <<Scene(1, TRUE, TRUE)>>, <<Scene(1, TRUE, FALSE)>>, <<Scene(2, TRUE, TRUE)>>,
                     <<Scene(1, TRUE, TRUE), Scene(2, FALSE, TRUE)>>},
              i \in BOOLEAN, n \in {0, 3}}
Povs == {[owner |-> o, mode |-> m, agencies |-> a] :
            o \in BOOLEAN, m \in {"none", "single"}, a \in {<<>>, <<TRUE>>, <<FALSE>>}}
Obligations == {<<>>} \union
    {<<[evidence |-> e, deadline |-> d]>> : e \in {{}, {Bound(TRUE, "intent")}, {Bound(FALSE, "intent")},
                                                {Bound(TRUE, "realization")}}, d \in {"none", "positive", "zero"}}

Parts == {[PlainParts EXCEPT !.choice = x, !.plans = y] : x \in ChoiceForms, y \in PlansOf}
         \union {[PlainParts EXCEPT !.scene_plan = x, !.pov_plan = y] : x \in Scenes, y \in Povs}
         \union {[PlainParts EXCEPT !.technology_plan = <<[role |-> r, lists |-> l]>>, !.obligations = z] :
                    r \in {"background", "driver"}, l \in {{}, {"prerequisites", "social_diffusion", "changed_domains"}},
                    z \in Obligations}
         \union {[PlainParts EXCEPT !.candidates = <<[known |-> k, value |-> v]>>,
                                    !.bindings = [path \in {"arc_goal"} |-> b], !.legacy = l] :
                    k \in BOOLEAN, v \in BOOLEAN,
                    b \in {{}, {Bound(TRUE, "intent")}, {Bound(TRUE, "decision")}},
                    l \in {<<>>, <<"legacy_unclassified">>, <<"other">>}}

\* The stored forms, and some that nothing wrote.
Forms ==
    {<<RootV2, c, FALSE>> : c \in {ContractV2, ContractV2 \union OptionalV2, ContractV2 \union {"scene_plan"}, {"core"},
                                  ContractV2 \union OptionalV2 \union {"engagement_obligations"}}}
    \union {<<r, c, TRUE>> : r \in {{"core"}, {"core", "evidence"}},
                             c \in {{"core"}, {"core", "evidence"}, {"core", "scene_plan", "technology_plan"},
                                    {"core", "scene_plan", "technology_plan", "pov_plan"}}}
PayloadCases ==
    {[about |-> "payload", payload |-> [version |-> v, root |-> f[1], contract |-> f[2], old |-> f[3], parts |-> d]] :
        v \in 0 .. 3, f \in Forms, d \in Parts}

------------------------------------------------------------------------------
Goal == <<"arc_goal", "text">>
Reveal == <<"information", "0">>
Current == <<"1", "h1">>
Reference(path, role, source, edition, excerpt, value) ==
    [form |-> "bound", contract |-> "c", version |-> 1, path |-> path, role |-> role, source |-> source,
     edition |-> edition, locator |-> "here", excerpt |-> excerpt, assertion |-> "as said", value |-> value]
Source(kind, edition, values) ==
    [kind |-> kind, edition |-> edition, excerpts |-> [l \in {"here"} |-> "words"],
     assertions |-> {<<path, "as said">> : path \in {Goal, Reveal}}, values |-> values]
Values(path, v) == [p \in {path} |-> v]

References == {Reference(Goal, role, s, e, x, v) :
                  role \in {"intent", "realization"}, s \in {"task", "director", "lost"},
                  e \in {Current, <<"1", "h0">>, <<"0", "h1">>}, x \in {"words", "other"}, v \in {"x", "y"}}
SourceTables == {[s \in {"task", "director"} |->
                    Source(IF s = "task" THEN k ELSE s, Current, Values(Goal, IF s = "task" THEN a ELSE b))] :
                   k \in {"task", "rumour"}, a \in {"x", "y"}, b \in {"x", "y"}}

Candidates == {[impact |-> i, known |-> k, by |-> b, ref |-> r, inputs |-> n, value |-> v] :
                 i \in {"yes", "no", "undetermined"}, k \in BOOLEAN, b \in {"human", "rule", "none"},
                 r \in {RulesetVersion, "ticket", No}, n \in {{}, {Goal}, {Reveal}}, v \in {"x", "y", No}}

Contract(value, refs, candidates, schema, obligations) ==
    [valid |-> TRUE, control |-> TRUE, causal |-> Values(Goal, value), arrays |-> {}, choice |-> "complete",
     plans |-> [p \in {} |-> No], bindings |-> [p \in {Goal} |-> refs], candidates |-> candidates,
     schema |-> schema, obligations |-> obligations]

GoodRef == Reference(Goal, "intent", "task", Current, "words", "x")
GoodTable == [s \in {"task"} |-> Source("task", Current, Values(Goal, "x"))]
PreflightCase(c, sources, of) == [about |-> "preflight", contract |-> c, sources |-> sources, analysis |-> Analyze(of)]
PreflightCases ==
    {PreflightCase(Contract("x", refs, {}, 2, {}), s, Contract("x", refs, {}, 2, {})) :
        refs \in {{r} : r \in References} \union {{GoodRef, r} : r \in References}, s \in SourceTables}
    \union {PreflightCase(Contract("x", {GoodRef}, {r}, 2, {}), GoodTable, Contract(of, {GoodRef}, {q}, 2, {})) :
              r \in Candidates, q \in {q \in Candidates : q.impact = "no" /\ ~q.known /\ q.by = "human" /\ q.value = No
                                        /\ q.inputs # {Reveal} /\ q.ref # No},
              of \in {"x"}}
    \union {PreflightCase(Contract("x", {GoodRef}, {r}, 3, o), GoodTable, Contract(of, {GoodRef}, {r}, 3, o)) :
              r \in Candidates, of \in {"x", "y"}, o \in {{}, {"promise"}}}

------------------------------------------------------------------------------
LeafPaths == {Goal, <<"protagonist_choice", "cost">>, <<"foreshadow_actions", "value">>, <<"scene_plan", "0">>}
Contents == UNION {[p -> {"x", No}] : p \in SUBSET LeafPaths}
Decision(version, leaves) == [contract |-> "c", chapter |-> 1, version |-> version, leaves |-> leaves]
ChangeRequest(id, status, old, new) == [id |-> id, status |-> status, chapters |-> {1}, old |-> old, new |-> new]
RequestSets == {{}} \union {{ChangeRequest("q1", s, o, n)} : s \in {"approved", "proposed"},
                               o \in {"x", Missing}, n \in {"x", No, Missing}}
               \union {{ChangeRequest("q1", "approved", "x", Missing), ChangeRequest("q2", "approved", Missing, "x")}}

RevisionCases ==
    LET before == Decision(1, [p \in LeafPaths \ {<<"foreshadow_actions", "value">>} |-> "x"])
        cases == {<<Decision(2, leaves), requests, impact>> :
                     leaves \in Contents, requests \in RequestSets, impact \in {LeafPaths, LeafPaths \ {Goal}}}
        built(k) == Build(before, k[1], k[3], k[2], <<"b1", "b1">>)
        tampered(r) == {r} \union {[r EXCEPT !.changes = @ \ {c}] : c \in r.changes}
                       \union {[r EXCEPT !.references = {}], [r EXCEPT !.impact = PathsOf(r.changes)]}
    IN UNION {{[about |-> "revision", current |-> before, replacement |-> k[1], impact |-> k[3],
                requests |-> k[2], claimed |-> r] : r \in tampered(built(k))} :
                k \in {k \in cases : built(k) # NoRequest}}

------------------------------------------------------------------------------
Item(status, evidence) == [status |-> status, actor |-> "human", zone |-> TRUE, evidence |-> evidence]
Decided_(path) == [role |-> "decision", contract |-> <<"c", 1>>, path |-> path, edition |-> Current]
ApprovalCases ==
    {[about |-> "approval", contract |-> Decision(1, leaves), context |-> context,
      record |-> [contract |-> <<"c", 1>>, content |-> Decision(1, leaves), baseline |-> "h1",
                  items |-> [item \in ApprovalItems |->
                               Item(IF item \in DOMAIN statuses THEN statuses[item] ELSE "not_applicable",
                                    IF item = "outline_change" THEN evidence ELSE {})]]] :
        leaves \in {Values(Goal, "x"), [p \in LeafPaths |-> "x"]},
        context \in {[foreshadow |-> f, facts |-> {}, outline |-> o] : f \in {{}, {"hook"}}, o \in {{}, {"request"}}},
        statuses \in [ApprovalItems \ {"new_facts", "post_freeze_revision"} -> {"approved", "rejected", "not_applicable"}],
        evidence \in {{}, {Decided_(Goal)}, {Decided_(<<"arc_phase", "text">>)}, {Decided_(<<"scene_plan", "0">>)}}}

------------------------------------------------------------------------------
\* Cases about stored records: of each type some records, and files of one that differ in
\* a field, or lack one, with the hashes in them made anew up to any level; reviews of up
\* to two issues with up to three decisions.

Rehashed(issue) ==
    LET i == [issue EXCEPT !.evidence = Hash(issue.checks)] IN [i EXCEPT !.hash = IssueHash(i)]

ReviewIssueOf(id, code, severity, blocking, human, checks) ==
    Rehashed([id |-> id, hash |-> <<>>, code |-> code, severity |-> severity, blocking |-> blocking,
              human |-> human, path |-> 1, checks |-> checks, evidence |-> <<>>, hint |-> "mend"])

ResultWith(fields) == [fields EXCEPT !.hash = ResultHash(fields)]
ResultOf(id, issues) ==
    ResultWith([id |-> id, contract |-> "c", version |-> 1, content |-> <<"text">>, baseline |-> <<"base">>,
                ruleset |-> "rules", assets |-> <<<<1, 1>>, <<2, 1>>>>, issues |-> issues, hash |-> <<>>])

OneCheck == <<<<1, 0, 1>>>>
IssueChoices(id, n) ==
    {ReviewIssueOf(id, n, s, b, h, OneCheck) : s \in {"high", "low"}, b \in BOOLEAN, h \in BOOLEAN}
FirstIssues == {i \in IssueChoices("i1", 1) : IssueValid(i)}
               \union {ReviewIssueOf("not a slug", 1, "low", TRUE, TRUE, OneCheck)}
Reviews == {ResultOf(r, <<i>>) : r \in {"r1", "not a slug"}, i \in FirstIssues}
           \union {ResultOf("r1", <<>>), ResultOf("r1", <<ReviewIssueOf("i1", 1, "low", TRUE, TRUE, OneCheck),
                                                         ReviewIssueOf("i1", 2, "low", TRUE, TRUE, OneCheck)>>)}
           \union {ResultOf("r1", <<i, j>>) : i \in FirstIssues, j \in IssueChoices("i2", 2)}

DecisionsFor(result) ==
    LET issues == {result.issues[i] : i \in DOMAIN result.issues}
        ofThis == {DecisionOn(result, i, t) : i \in issues, t \in {1, 2}}
        ofOther == {[DecisionOn(result, i, 1) EXCEPT !.resultHash = <<"other", "review">>] : i \in issues}
    IN UNION {[1 .. n -> ofThis \union ofOther] : n \in 0 .. 2}

GateCases == UNION {{[about |-> "gate", result |-> r, decisions |-> d] : d \in DecisionsFor(r)} : r \in Reviews}

------------------------------------------------------------------------------
EntryOf(role, source) == [role |-> role, source |-> source, version |-> "1", hash |-> <<"source">>]
ManifestOf(entries) == [entries |-> entries, fingerprint |-> Hash(entries)]
Manifests == {ManifestOf(e) : e \in {<<EntryOf(4, 1)>>, <<EntryOf(1, 1), EntryOf(4, 1)>>, <<EntryOf(4, 1), EntryOf(1, 1)>>,
                                    <<EntryOf(1, 1), EntryOf(1, 1), EntryOf(4, 1)>>, <<EntryOf(4, 1), EntryOf(4, 2)>>}}
Broken(manifest) == {manifest, [manifest EXCEPT !.fingerprint = <<<<>>>>]}

Baselines == {[contract |-> c, version |-> v, manifest |-> m] :
                 c \in {"c", "not a slug"}, v \in {1, 2, 10000}, m \in UNION {Broken(m) : m \in Manifests}}

DispositionRecords ==
    LET d == DecisionOn(ResultOf("r1", <<ReviewIssueOf("i1", 1, "low", TRUE, TRUE, OneCheck)>>),
                        ReviewIssueOf("i1", 1, "low", TRUE, TRUE, OneCheck), 1)
    IN {[d EXCEPT !.actor = a, !.decided = t, !.status = s, !.issue = i] :
           a \in {"editor", "author", "system"}, t \in 0 .. 1, s \in {"accepted", "resolved", "waived"}, i \in {"i1", "i2"}}

Continuations == {[id |-> i, run |-> "run", contract |-> "c", version |-> 1, hash |-> <<"text">>, actor |-> a,
                   reason |-> "unfinished", created |-> 1, expires |-> e, status |-> s, supersedes |-> q] :
                     i \in {"a1", "a2"}, a \in {"editor", "system"}, e \in {1, 2, 3}, s \in {Active, "revoked"},
                     q \in {No, "", "a1"}}

Approvals == {[contract |-> <<"c", v>>, content |-> <<t>>, manifest |-> m,
               items |-> [item \in ApprovalItems |-> [status |-> IF item = "full_contract" THEN f ELSE s,
                                                      actor |-> "human", zone |-> TRUE, evidence |-> {}]]] :
                 v \in {1}, t \in {"one", "two"}, m \in Manifests,
                 f \in {"approved", "rejected"}, s \in {"approved", "rejected", "not_applicable"}}

\* Of a review: another hint, severity or order, with the hashes made anew up to each level.
ReviewRecords ==
    LET issue == ReviewIssueOf("i1", 1, "warning", TRUE, FALSE, <<<<1, 0, 1>>, <<1, 1, 1>>>>)
        edited == {[issue EXCEPT !.hint = h, !.severity = s, !.blocking = b, !.checks = k] :
                      h \in {"mend", "leave"}, s \in {"warning", "high"}, b \in {TRUE},
                      k \in {issue.checks, <<<<1, 1, 1>>, <<1, 0, 1>>>>, OneCheck}}
        bare == ResultOf("r1", <<issue>>)
        results == {[bare EXCEPT !.issues = <<i>>, !.assets = a, !.id = n] :
                       i \in edited \union {Rehashed(i) : i \in edited},
                       a \in {bare.assets, <<<<2, 1>>, <<1, 1>>>>}, n \in {"r1", "r2"}}
    IN results \union {ResultWith(r) : r \in results}

RecordsOf == [baseline |-> Baselines, approval |-> Approvals, reviewer_result |-> ReviewRecords,
              disposition |-> DispositionRecords, continuation_authorization |-> Continuations]

Lacking(payload) == {[f \in DOMAIN payload \ {g} |-> payload[f]] : g \in DOMAIN payload}
FilesOf(type, payload) ==
    {[Envelope(type, p) EXCEPT !.type = t, !.schema = s] :
        p \in {payload} \union Lacking(payload), t \in {type, "unknown"}, s \in {1, 2}}
    \union {[Envelope(type, payload) EXCEPT !.hash = <<"other", "hash">>]}

FileCase(type, saved, envelope) == [about |-> "file", type |-> type, saved |-> saved, envelope |-> envelope]
SomeRecords(type) == {CHOOSE p \in RecordsOf[type] : StoreTakes(type, p)}
FileCases ==
    UNION {{FileCase(t, p, Envelope(t, q)) : p \in {p \in RecordsOf[t] : StoreTakes(t, p)}, q \in RecordsOf[t]} :
             t \in RecordTypes}
    \union UNION {UNION {{FileCase(t, p, e) : e \in FilesOf(t, p)} : p \in SomeRecords(t)} : t \in RecordTypes}

------------------------------------------------------------------------------
\* Cases about the projection: projects of two chapters with up to two reports; states of
\* two subjects that agree or not; engagement records of two expectations, complete or
\* not; and files of one snapshot in the three forms, each with one thing changed.

Bare == [statuses |-> <<>>, checkpoints |-> NotThere, reports |-> <<>>, events |-> NotThere, states |-> <<>>,
         memory |-> {}, engagement |-> NotThere]
Seqs(S, n) == UNION {[1 .. k -> S] : k \in 0 .. n}

StatusFile(n, word, issues) == [chapter |-> n, status |-> word, issues |-> issues, attempts |-> n]
FirstStatus == {<<>>} \union {<<StatusFile(1, w, i)>> : w \in {"passed", "running", "odd", "blocked", "fail"}, i \in BOOLEAN}
               \union {<<StatusFile(1, "failed", FALSE), StatusFile(1, "pass", FALSE)>>,
                       <<StatusFile(1, "pass", FALSE), StatusFile(1, "failed", FALSE)>>}
SecondStatus == {<<>>, <<StatusFile(2, "passed", FALSE)>>, <<StatusFile(2, "failed", FALSE)>>}

Named(n, of, stage, outcome) ==
    [name |-> n, chapter |-> of[1], hyphen |-> of[2], id |-> of[3], stage |-> stage, passed |-> outcome[1], codes |-> outcome[2]]
ReportsNamed(n) ==
    {Named(n, of, s, o) : of \in {<<1, FALSE, "chapter_1">>, <<1, TRUE, "chapter-1">>, <<2, FALSE, "chapter_2">>, <<0, FALSE, "prologue">>},
                          s \in {Ready, "review_failed", "drafted"},
                          o \in {<<TRUE, <<>>>>, <<FALSE, <<>>>>, <<TRUE, <<"thin">>>>}}

Event(i, type, chapter) == [sequence |-> i, type |-> type, chapter |-> chapter, task |-> "task", execution |-> Null, issue |-> ""]
Logs == {NotThere, Lines(<<>>), Lines(<<Event(1, "TaskFailed", 3)>>), Lines(<<Event(1, "TaskStarted", 1), Event(2, "ReviewFailed", 0)>>),
         Lines(<<Event(2, "TaskStarted", 1)>>), Lines(<<Event(1, "ReviewIssueAccepted", 1)>>)}
Chains == {NotThere, BrokenFile, Lines(<<[chapter |-> 1, sequence |-> 1, state |-> "writer_executed"],
                                        [chapter |-> 1, sequence |-> 2, state |-> "fulfillment_recorded"]>>)}

Progress ==
    {[Bare EXCEPT !.statuses = a \o b, !.reports = r] :
        a \in FirstStatus, b \in SecondStatus, r \in {<<>>} \union {<<x>> : x \in ReportsNamed("r1")}}
    \union {[Bare EXCEPT !.statuses = b, !.reports = <<x, y>>] :
               b \in {<<>>, <<StatusFile(2, "failed", FALSE)>>}, x \in ReportsNamed("r1"),
               y \in {r \in ReportsNamed("r2") : r.codes = <<>> /\ r.chapter # 0}}
    \union {[Bare EXCEPT !.statuses = a, !.events = e, !.checkpoints = c] : a \in FirstStatus, e \in Logs, c \in Chains}
    \union {[Bare EXCEPT !.reports = <<Named("r1", <<1, FALSE, i>>, Ready, <<TRUE, k>>)>>] :
               i \in {"", "chapter_1"}, k \in {<<"">>, <<"thin", "late">>}}

FieldChoices ==
    {NotObject, <<>>} \union [{"precision"} -> {"day", "week", ""}] \union [{"precision", "relative_order"} -> {"day", "week"}]
    \union [{"precision", "conflict_status"} -> {"day", "conflicted"}] \union [{"open_loop", "status"} -> {"", "open"}]
StateFile(n, kind, subject, change, fields) ==
    [file |-> n, kind |-> kind, subject |-> subject, change |-> change, fields |-> fields]
Memory == {[id |-> "m1", status |-> "active"], [id |-> "m2", status |-> "superseded"]}
Stories ==
    {[Bare EXCEPT !.memory = Memory,
                  !.states = <<StateFile(1, "timeline", "storm", c, f), StateFile(2, "timeline", s, "m1", g)>>] :
        c \in {"m1", "m2"}, s \in {"storm", "thaw", ""}, f \in FieldChoices, g \in FieldChoices}
    \union {[Bare EXCEPT !.memory = Memory,
                         !.states = <<StateFile(1, "character", "ada", "m1", f), StateFile(2, "hook", "letter", c, g)>>] :
               c \in {"m1", "m2"}, f \in FieldChoices, g \in FieldChoices}
    \union {[Bare EXCEPT !.memory = Memory,
                         !.states = [i \in 1 .. 3 |-> StateFile(i, "timeline", "storm", "m1", f[i])]] :
               f \in [1 .. 3 -> [{"precision"} -> {"day", "week"}] \union [{"precision", "conflict_status"} -> {"day", "conflicted"}]]}

AuthorityRecord(type, id, hash, payload) == [type |-> type, id |-> id, hash |-> hash, payload |-> payload]
CandidatePayload(id) ==
    [expectation_id |-> id, from_state |-> "absent", to_state |-> "open", content_hash |-> id, sha |-> TRUE]
DecisionPayload(id, slip) ==
    [candidate_id |-> id, actor |-> IF slip = "nobody" THEN "" ELSE "editor", reason |-> "due",
     disposition |-> IF slip = "rejected" THEN "rejected" ELSE "approved", decision_hash |-> "d" \o id]
RecordsOn(id, slip) ==
    LET payload == [CandidatePayload(id) EXCEPT !.sha = slip # "not_hex"]
        candidate == AuthorityRecord("expectation_candidate", id, id, payload)
        decision == AuthorityRecord("expectation_decision", id, "d" \o id, DecisionPayload(id, slip))
        transition == AuthorityRecord("expectation_transition", id, id,
                                      [candidate |-> IF slip = "other" THEN CandidatePayload("other") ELSE payload,
                                       decision_hash |-> IF slip = "unbound" THEN "other" ELSE "d" \o id])
    IN CASE slip = "absent" -> <<>>
         [] slip = "waits" -> <<candidate>>
         [] slip = "cut" -> <<candidate, decision>>
         [] slip = "alone" -> <<transition>>
         [] OTHER -> <<candidate, decision, transition>>
RecordSlips == {"absent", "waits", "cut", "alone", "rejected", "nobody", "not_hex", "other", "unbound", "none"}
\* The authority's other records, under the id of an expectation or one of their own.
Others == {<<>>} \union {<<AuthorityRecord(t, id, "other", [of |-> t])>> :
                            t \in {"plan", "plan_decision", "plan_activation", "engagement_review", "opening_checkpoint"},
                            id \in {"e1", "p1"}}
Authorities == {NotThere, BrokenFile}
               \union {Lines(RecordsOn("e1", x) \o o \o RecordsOn("e2", y)) : x \in RecordSlips, y \in RecordSlips, o \in Others}

Books == Progress \union Stories \union {[Bare EXCEPT !.engagement = a] : a \in Authorities}
ProjectCases == {[about |-> "project", files |-> f] : f \in Books}

------------------------------------------------------------------------------
FullBook ==
    [Bare EXCEPT !.statuses = <<StatusFile(1, "failed", TRUE)>>, !.memory = Memory,
                 !.reports = <<Named("r1", <<1, FALSE, "chapter_1">>, "review_failed", <<FALSE, <<"thin">>>>)>>,
                 !.states = <<StateFile(1, "character", "ada", "m1", <<>>), StateFile(2, "hook", "letter", "m1", <<>>),
                              StateFile(3, "timeline", "storm", "m1", <<>>)>>]
SavedSnapshots == {Snapshot(FullBook), Snapshot(Bare)}

Without(raw, field) == [x \in DOMAIN raw \ {field} |-> raw[x]]
OfItems(raw, list, New(_)) ==
    IF list \in DOMAIN raw /\ raw[list] # <<>> THEN {[raw EXCEPT ![list] = <<i>>] : i \in New(raw[list][1])} ELSE {}
IssueEdits(i) == {Without(i, f) : f \in DOMAIN i} \union {[i EXCEPT !.disposition_status = s] : s \in {"accepted", ""}}
                 \union {[i EXCEPT !.blocking = FALSE], [Without(i, "disposition_status") EXCEPT !.blocking = FALSE]}
ChapterEdits(c) == {Without(c, f) : f \in DOMAIN c} \union {[c EXCEPT !.status = s] : s \in {"passed", ""}}
                   \union {[c EXCEPT !.checkpoint_state = "paused"], [c EXCEPT !.blocked_by[1].inputs = <<>>]}
Edits(raw) ==
    {raw} \union {Without(raw, f) : f \in DOMAIN raw} \union OfItems(raw, "chapters", ChapterEdits)
    \union {[raw EXCEPT !.quality = q] : q \in OfItems(raw.quality, "issues", IssueEdits)}
    \union {[raw EXCEPT !.overview.run_status = s] : s \in {"passed", ""}}
    \union {[raw EXCEPT !.trace.entries = <<>>], [raw EXCEPT !.project_id = "other"]}
    \union {[raw EXCEPT ![x] = <<>>] : x \in Narrative \intersect DOMAIN raw}

OldBody(saved) == [x \in DOMAIN saved \ Narrative |-> saved[x]]
FileEdits(saved) ==
    {File(v, id, raw) : v \in {1, 2, 3},
                        id \in {SnapshotId(saved), FirstFormId(saved), StruckId(saved)},
                        raw \in Edits(saved) \union Edits(OldBody(saved))}
SnapshotFileCases == UNION {{[about |-> "snapshot_file", saved |-> s, file |-> f] : f \in FileEdits(s)} : s \in SavedSnapshots}

------------------------------------------------------------------------------
\* Cases about a publication migration: two chapters of three and two paragraphs, every way
\* to put each paragraph into one of two units, an omission or nothing, and slips in the plan
\* or in the chapters written from it; every length around a policy's thresholds; and short
\* texts with hooks in them.

MCDimensions == {"dialogue", "conflict"}
Archive == [p \in {<<5, 1>>, <<5, 2>>, <<5, 3>>, <<6, 1>>, <<6, 2>>} |-> p]
Order == <<<<5, 1>>, <<5, 2>>, <<5, 3>>, <<6, 1>>, <<6, 2>>>>
Fragment(p) == [chapter |-> p[1], ordinal |-> p[2], text |-> p]

Slips == {"none", "swapped", "twice", "misquoted", "reversed_omission", "unclosed", "overlapping",
          "open_dialogue", "half_told", "other_snapshot"}

Taken(way, k) == LET taken == SelectSeq(Order, LAMBDA p : way[p] = k)
                 IN [i \in DOMAIN taken |-> Fragment(taken[i])]

Spoilt(fragments, slip) ==
    IF fragments = <<>> THEN fragments
    ELSE CASE slip = "swapped" -> Reverse(fragments)
           [] slip = "twice" -> Append(fragments, Last(fragments))
           [] slip = "misquoted" -> [fragments EXCEPT ![1].text = <<0, 0>>]
           [] OTHER -> fragments

\* Evidence of the conflict in the first paragraph, of the dialogue in the last.
EvidenceOf(fragments, slip) ==
    IF fragments = <<>> THEN <<>>
    ELSE LET f == Place(fragments[1])
             l == Place(Last(fragments))
             piece(d, at, from) == [dimension |-> d, at |-> at, text |-> at, from |-> from, to |-> from + 2]
         IN CASE slip = "unclosed" -> <<piece("conflict", f, 0)>>
              [] slip = "overlapping" -> <<piece("conflict", l, 0), piece("dialogue", l, 1)>>
              [] slip = "open_dialogue" -> <<piece("conflict", l, 0), piece("dialogue", f, 3)>>
              [] OTHER -> <<piece("conflict", f, 0), piece("dialogue", l, 3)>>

UnitOf(fragments, slip) ==
    [fragments |-> Spoilt(fragments, slip), evidence |-> EvidenceOf(fragments, slip),
     whole |-> slip # "half_told"]

PlanFor(way, slip) ==
    LET omitted == Taken(way, "omit") IN
    [snapshot |-> IF slip = "other_snapshot" THEN "other" ELSE "snapshot",
     units |-> SelectSeq(<<UnitOf(Taken(way, "one"), slip), UnitOf(Taken(way, "two"), "none")>>,
                         LAMBDA u : u.fragments # <<>>),
     omissions |-> IF omitted = <<>> THEN <<>>
                   ELSE <<[snapshot |-> "snapshot",
                           fragments |-> IF slip = "reversed_omission" THEN Reverse(omitted) ELSE omitted]>>]

EntrySlips == {"none", "merged", "mapping_lost", "told_again", "other_body", "gap",
               "omission_lost", "omission_twice", "swapped_entries"}

Bodies == [t \in 5 .. 7 |-> t]
Twisted(entries, slip) ==
    IF entries = <<>> THEN entries
    ELSE CASE slip = "merged" ->
                <<[entries[1] EXCEPT
                     !.mappings = FlattenSeq([i \in DOMAIN entries |->
                                     [j \in DOMAIN entries[i].mappings |->
                                         [entries[i].mappings[j] EXCEPT !.body = entries[1].body]]]),
                     !.outcomes = FlattenSeq([i \in DOMAIN entries |-> entries[i].outcomes])]>>
           [] slip = "mapping_lost" -> [entries EXCEPT ![1].mappings = Tail(@)]
           [] slip = "told_again" -> [i \in DOMAIN entries |-> [entries[i] EXCEPT !.outcomes[1].id = 1]]
           [] slip = "other_body" -> [entries EXCEPT ![1].body = 0]
           [] slip = "gap" -> [entries EXCEPT ![Len(entries)].target = 7]
           [] slip = "swapped_entries" -> Reverse(entries)
           [] OTHER -> entries

PlanCase(way, slip, twist) ==
    LET plan == PlanFor(way, slip)
        entries == Natural(plan, Bodies, 5)
        omitted == OmittedFragments(plan.omissions)
    IN [about |-> "plan", plan |-> plan, snapshot |-> "snapshot", archive |-> Archive, first |-> 5,
        texts |-> Bodies,
        entries |-> IF twist = "omission_twice" /\ entries # <<>>
                    THEN [entries EXCEPT ![1].omissions = omitted] ELSE Twisted(entries, twist),
        omissions |-> IF twist = "omission_lost" THEN <<>> ELSE omitted]

Ways == [Range(Order) -> {"one", "two", "omit", "miss"}]
PlanCases ==
    LET whole == {w \in Ways : "miss" \notin Range(w)} IN
    {PlanCase(w, "none", "none") : w \in Ways}
    \union {PlanCase(w, s, "none") : w \in whole, s \in Slips}
    \union {PlanCase(w, "none", t) : w \in whole, t \in EntrySlips}

Policies == {[short_min |-> a, target_min |-> b, target_max |-> c, soft_max |-> d, hard_max |-> e, hook_window |-> w] :
                a \in 1 .. 2, b \in 1 .. 3, c \in 2 .. 3, d \in 3 .. 4, e \in 3 .. 5, w \in {2, 4}}
LengthCases == {[about |-> "length", count |-> n, policy |-> p] : n \in 0 .. 6, p \in {q \in Policies : ValidPolicy(q)}}

Texts == UNION {[1 .. n -> CodePoints] : n \in 1 .. 4}
Hook(text, from, to) == [body |-> text, from |-> from, to |-> to, excerpt |-> SubSeq(text, from + 1, Min({to, Len(text)}))]
ShortPolicy == [short_min |-> 1, target_min |-> 1, target_max |-> 5, soft_max |-> 5, hard_max |-> 5, hook_window |-> 2]
ChapterCases ==
    {[about |-> "chapter", text |-> t, policy |-> ShortPolicy, disposed |-> "none",
      entry |-> [body |-> t, spans |-> {}, hooks |-> {Hook(t, from, to)}]] :
        t \in Texts, from \in 0 .. 3, to \in 1 .. 4}

------------------------------------------------------------------------------
(* Contexts: any part of a small memory, with two versions of the granted contract in it. *)

Remembered(of, version, rank, kind, scope, tags, size) ==
    [id |-> [of |-> of, version |-> version], rank |-> rank, kind |-> kind, scope |-> scope, owner |-> scope, tags |-> tags,
     size |-> size, status |-> "active", confidence |-> 5, applies |-> {"writing"}, form |-> "plain"]
Pool == {Remembered("chapter 7", 1, 1, "decision", "project", {"novel"}, 2), Remembered("chapter 7", 2, 2, "decision", "project", {"novel"}, 2),
         Remembered("chapter 6", 1, 3, "decision", "project", {"novel"}, 2), Remembered("chapter 7", 0, 4, "working", "task", {}, 1),
         Remembered("draft", 0, 5, "working", "task", {}, 3), Remembered("lesson", 0, 6, "experience", "domain", {"novel", "lesson"}, 4),
         [Remembered("rumour", 0, 7, "experience", "project", {"lesson"}, 1) EXCEPT !.status = "candidate"],
         [Remembered("state", 0, 8, "decision", "project", {"novel", "lesson"}, 1) EXCEPT !.form = "old state"],
         [Remembered("elsewhere", 0, 9, "decision", "project", {"novel"}, 1) EXCEPT !.owner = "other"]}

Grant(of, chapter, decided) == [of |-> of, version |-> 2, size |-> 2, valid |-> TRUE, chapter |-> chapter,
                                decided |-> [of |-> decided, chapter |-> chapter]]
Grants == {NoGrant, Grant("chapter 7", 7, "chapter 7"), Grant("chapter 7", 7, "chapter 6"), Grant("chapter 6", 6, "chapter 6")}
Known == {<<[id |-> [of |-> "world", version |-> 0], kind |-> "world_rules", size |-> 1]>>,
          <<[id |-> [of |-> "world", version |-> 0], kind |-> "world_rules", size |-> 1],
            [id |-> [of |-> "chapter 7", version |-> 0], kind |-> "state", size |-> 1],
            [id |-> [of |-> "legacy", version |-> 0], kind |-> "narrative_decision", size |-> 1]>>}
Query == [owners |-> [s \in {"task", "project", "user", "domain"} |-> s], work |-> "writing", tags |-> {"novel", "lesson"}]
ContextCases ==
    {[about |-> "context", items |-> items, known |-> k, grant |-> g, required |-> r, query |-> Query, max |-> m,
      project |-> [chapters |-> {5, 6}, unresolved |-> {}, edition |-> "e", editionThen |-> "e", asked |-> 2]] :
         items \in SUBSET Pool, k \in Known, g \in Grants, r \in BOOLEAN, m \in {7, 12}}

------------------------------------------------------------------------------
(* Continuation runs: a first that dies anywhere, or ends, and a second.  A run whose process *)
(* died is not prepared for a chapter that is there, be it only half written.                 *)

Answer(n, size, flaw) == [name |-> n, size |-> size, flaw |-> flaw]
Long == Answer("long", 3, FALSE)
Short == Answer("short", 2, FALSE)
Rest == Answer("rest", 1, FALSE)
Poor == Answer("poor", 3, TRUE)
Continuing(context, answers, edition) ==
    [kind |-> "continue", context |-> context, answers |-> answers, edition |-> edition, dry |-> FALSE]
FirstRuns == {Continuing("c", a, "e") : a \in {<<x>> : x \in {Long, Short, Poor, Failed}}
                                           \union {<<x, y>> : x \in {Short, Poor}, y \in {Short, Rest, Long, Failed}}}
SecondRuns == {Continuing(c, <<a>>, "e") : c \in {"c", "d"}, a \in {Long, Rest, Failed}}
              \union {[Continuing("c", <<>>, "e") EXCEPT !.dry = TRUE], Continuing("c", <<Long>>, "old"),
                      [Continuing("d", <<>>, "e") EXCEPT !.kind = "promote"]}
ContinuationCases ==
    UNION {LET one == Writes(NoFiles, f, a)
               deaths == {n \in 0 .. Len(one) - 1 : After(NoFiles, one, n).chapter = NoFile}
           IN [about : {"continuation"}, first : {f}, died : deaths \union {Len(one)}, second : SecondRuns, active : {a}] :
              f \in FirstRuns, a \in {"e", "legacy-default"}}

MCCases == <<PlanCases, LengthCases, ChapterCases, PayloadCases, PreflightCases, RevisionCases, ApprovalCases,
             GateCases, FileCases, ProjectCases, SnapshotFileCases, ContextCases, ContinuationCases>>
================================================================================
