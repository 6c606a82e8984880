----------------------------- MODULE ProjectionFacts -----------------------------
(***************************************************************************)
(* What a refresh makes of a project's authoritative files: the facts      *)
(* that FilesystemProjectSource reads, and the sections the projectors     *)
(* derive from them (creative_os/projection/filesystem_source.py,          *)
(* projectors/, workspace_dto.py, runtime/events.py).                      *)
(*                                                                         *)
(* files.statuses     production/runs/status, one record of each file      *)
(* files.checkpoints  the checkpoint chain: whether it is intact, records  *)
(* files.reports      production/reports, the writer validations           *)
(* files.events       the lines of the runtime event log, missing or not   *)
(* files.states       state snapshots; fields is what their JSON object    *)
(*                    has, or NotObject                                    *)
(* files.memory       memory items: id and status                          *)
(* files.engagement   missing, broken, or the records of the authority     *)
(*                                                                         *)
(* Files are listed in the order the code sorts them.  A build reads every *)
(* file once, so a SourceRef is its kind and id, which say which content.  *)
(* Times, and the words of titles, summaries and messages, are left out.   *)
(* "" is a blank text, Null is JSON's null.                                *)
(***************************************************************************)
EXTENDS Naturals, Sequences, FiniteSets, SequencesExt, FiniteSetsExt, TLC

Null == "null"
NotObject == [not |-> "an object"]
NotThere == [there |-> FALSE]
Lines(records) == [there |-> TRUE, intact |-> TRUE, records |-> records]
BrokenFile == [there |-> TRUE, intact |-> FALSE]

Mapped(s, Op(_)) == [i \in DOMAIN s |-> Op(s[i])]
Unique(s) == FoldLeft(LAMBDA seen, x : IF Contains(seen, x) THEN seen ELSE Append(seen, x), <<>>, s)
Ref(kind, id) == [source_kind |-> kind, source_id |-> ToString(id)]
FieldOr(fields, f) == IF f \in DOMAIN fields THEN fields[f] ELSE ""

------------------------------------------------------------------------------
(* The runtime event log *)

EventTypes == {"ProjectCreated", "TaskCreated", "TaskStarted", "TaskCompleted", "TaskFailed",
               "ContextBuilt", "CapabilityCalled", "ResultGenerated", "ReviewPassed", "ReviewFailed",
               "KnowledgeUpdated", "StateChanged", "UserRevised"}

LogReadable(events) == \A i \in DOMAIN events : events[i].sequence = i /\ events[i].type \in EventTypes

------------------------------------------------------------------------------
(* Engagement: what counts as approved is decided anew from the records *)

OfType(records, type) == SelectSeq(records, LAMBDA r : r.type = type)
\* by_key keeps the last record of a type and id.
RecordFor(records, type, id) == Last(SelectSeq(records, LAMBDA r : r.type = type /\ r.id = id))
HasRecord(records, type, id) == \E i \in DOMAIN records : records[i].type = type /\ records[i].id = id

ApprovedTransition(records, transition) ==
    /\ HasRecord(records, "expectation_candidate", transition.id)
    /\ HasRecord(records, "expectation_decision", transition.id)
    /\ LET candidate == RecordFor(records, "expectation_candidate", transition.id)
           decision == RecordFor(records, "expectation_decision", transition.id)
       IN /\ decision.payload.candidate_id = candidate.id
          /\ decision.payload.decision_hash = decision.hash
          /\ decision.payload.actor # "" /\ decision.payload.reason # ""
          /\ decision.payload.disposition = "approved"
          /\ transition.payload.candidate = candidate.payload
          /\ candidate.payload.sha
          /\ transition.hash = candidate.hash /\ candidate.hash = candidate.payload.content_hash
          /\ transition.payload.decision_hash = decision.hash

ExpectationFact(records, transition) ==
    LET candidate == RecordFor(records, "expectation_candidate", transition.id).payload
    IN [id |-> candidate.expectation_id, from |-> candidate.from_state, to |-> candidate.to_state,
        hash |-> candidate.content_hash,
        refs |-> <<Ref("engagement_transition", transition.id), Ref("engagement_decision", transition.id)>>]

\* Mutant: what is approved is shown, whatever else waits.
ApprovedExpectations(records) ==
    [facts |-> Mapped(SelectSeq(OfType(records, "expectation_transition"), LAMBDA t : ApprovedTransition(records, t)),
                      LAMBDA t : ExpectationFact(records, t)),
     diagnostics |-> <<>>]

\* All or nothing: one candidate that waits or one transition that is not bound clears the rest.
Expectations(records) ==
    LET transitions == OfType(records, "expectation_transition")
        approved == SelectSeq(transitions, LAMBDA t : ApprovedTransition(records, t))
        facts == Mapped(approved, LAMBDA t : ExpectationFact(records, t))
        complete == {facts[i].id : i \in DOMAIN facts}
        begun == {r \in ToSet(records) : r.type \in {"expectation_candidate", "expectation_decision"}}
    IN IF Len(approved) < Len(transitions) \/ \E r \in begun : r.id \notin complete
       THEN [facts |-> <<>>, diagnostics |-> <<"engagement_authority_incomplete">>]
       ELSE [facts |-> facts, diagnostics |-> <<>>]

------------------------------------------------------------------------------
(* read_facts *)

StateKinds == {"character", "hook", "timeline"}

ShownStates(files) ==
    LET active == {m.id : m \in {m \in files.memory : m.status = "active"}}
    IN SelectSeq(files.states, LAMBDA s : s.change \in active /\ s.kind \in StateKinds /\ s.subject # "")

ActiveStates(files) ==
    Mapped(ShownStates(files), LAMBDA s : [s EXCEPT !.fields = IF @ = NotObject THEN <<>> ELSE @])

StateDiagnostic(s) ==
    IF s.fields = NotObject THEN <<"active_state_fields_invalid">>
    ELSE IF s.kind = "hook" /\ FieldOr(s.fields, "open_loop") = "" THEN <<"story_thread_open_loop_unproven">>
    ELSE <<>>
StateDiagnostics(files) == FlattenSeq(Mapped(ShownStates(files), StateDiagnostic))

StatusRef(s) == Ref("chapter_status", s.chapter)
ReportRef(r) == Ref("writer_validation_report", r.name)
CheckpointRef(c) == Ref("chapter_checkpoint", <<c.chapter, c.sequence>>)
EventRef(e) == Ref("runtime_event", e.sequence)
StateRef(s) == Ref("active_state", <<s.kind, s.subject, s.file>>)

\* The gate takes the number behind the last underscore of the chapter id; the projector of
\* chapters takes a hyphen for one too.
GateChapter(report) == IF report.hyphen THEN 0 ELSE report.chapter

GateResults(files) ==
    Mapped(files.reports, LAMBDA r : [gate |-> r.id, status |-> IF r.passed THEN "passed" ELSE "failed",
                                      chapter |-> GateChapter(r), ref |-> ReportRef(r)])

QualityIssues(files) ==
    FlattenSeq(Mapped(files.reports, LAMBDA r :
        [i \in DOMAIN r.codes |-> [id |-> ToString(<<r.name, i, r.codes[i]>>), code |-> r.codes[i], blocking |-> TRUE,
                                   scope |-> r.id, ref |-> ReportRef(r)]]))

Checkpoints(files) ==
    IF files.checkpoints.there /\ files.checkpoints.intact THEN files.checkpoints.records ELSE <<>>

EngagementFacts(files) ==
    IF ~files.engagement.there THEN [facts |-> <<>>, diagnostics |-> <<"engagement_authority_source_missing">>]
    ELSE IF ~files.engagement.intact THEN [facts |-> <<>>, diagnostics |-> <<"engagement_authority_chain_invalid">>]
    ELSE Expectations(files.engagement.records)

Diagnostics(files) ==
    (IF files.statuses = <<>> THEN <<"chapter_status_source_missing">> ELSE <<>>)
    \o (IF files.checkpoints = BrokenFile THEN <<"chapter_checkpoint_invalid">> ELSE <<>>)
    \o StateDiagnostics(files)
    \o EngagementFacts(files).diagnostics
    \o (IF files.reports = <<>> THEN <<"writer_validation_report_source_missing">> ELSE <<>>)
    \o (IF files.events.there THEN <<>> ELSE <<"runtime_event_log_missing">>)

Events(files) == IF files.events.there THEN files.events.records ELSE <<>>

\* What stops a build: nothing is published then.
FactsReadable(files) ==
    /\ LogReadable(Events(files))
    /\ \A r \in ToSet(files.reports) : "" \notin ToSet(r.codes)
    /\ \A s \in ToSet(files.statuses) : s.chapter > 0

------------------------------------------------------------------------------
(* project_chapters *)

StatusMap(word) ==
    CASE word \in {"pass", "passed"} -> "passed"
      [] word \in {"fail", "failed"} -> "failed"
      [] word \in {"running", "blocked", "not_started"} -> word
      [] OTHER -> "unknown"

Chapters(files) ==
    ({s.chapter : s \in ToSet(files.statuses)} \union {r.chapter : r \in ToSet(files.reports)}
     \union {e.chapter : e \in ToSet(Events(files))} \union {c.chapter : c \in ToSet(Checkpoints(files))}) \ {0}

Ready == "compile_candidate_ready"
DerivedFrom(rule, inputs, explanation) == [rule_id |-> rule, inputs |-> inputs, explanation |-> explanation]

Stages == <<"planning", "admission", "writing", "review", "compilation">>

StageAfterReport(stage, before, report) ==
    CASE report.stage = Ready -> "passed"
      [] report.stage = "review_failed" ->
            (CASE stage = "review" -> "failed" [] stage = "compilation" -> "not_started" [] OTHER -> "passed")
      [] OTHER -> before

\* _project_stages: reports in their order, then the last gate decides the review.
StageStatus(stage, gates, reports) ==
    IF stage = "review" /\ gates # <<>>
    THEN IF Last(gates).status = "passed" THEN "passed" ELSE "blocked"
    ELSE FoldLeft(LAMBDA s, r : StageAfterReport(stage, s, r), "unknown", reports)

StageRefs(stage, gates, reports) ==
    Unique(Mapped(SelectSeq(reports, LAMBDA r : r.stage \in {Ready, "review_failed"}), ReportRef)
           \o (IF stage = "review" THEN Mapped(gates, LAMBDA g : g.ref) ELSE <<>>))

StageSnapshot(stage, gates, reports) ==
    [stage |-> stage, status |-> StageStatus(stage, gates, reports),
     source_refs |-> StageRefs(stage, gates, reports), derivations |-> <<>>]

ChapterStatus(status, failed, ready) ==
    IF failed # <<>> THEN "blocked"
    ELSE IF ready # <<>> THEN "passed"
    ELSE IF status = <<>> THEN "unknown"
    ELSE IF StatusMap(status[1].status) = "failed" /\ status[1].issues THEN "blocked"
    ELSE StatusMap(status[1].status)

ChapterSnapshot(files, n) ==
    LET ofChapter == SelectSeq(files.statuses, LAMBDA s : s.chapter = n)
        status == IF ofChapter = <<>> THEN <<>> ELSE <<Last(ofChapter)>>
        gates == SelectSeq(GateResults(files), LAMBDA g : g.chapter = n)
        failed == SelectSeq(gates, LAMBDA g : g.status = "failed")
        reports == SelectSeq(files.reports, LAMBDA r : r.chapter = n)
        ready == SelectSeq(reports, LAMBDA r : r.stage = Ready)
        chain == SelectSeq(Checkpoints(files), LAMBDA c : c.chapter = n)
        latest == IF chain = <<>> THEN <<>>
                  ELSE LET sequences == {chain[i].sequence : i \in DOMAIN chain}
                       IN <<chain[CHOOSE i \in DOMAIN chain : chain[i].sequence = Max(sequences)]>>
    IN [chapter_id |-> ToString(n), chapter_number |-> n, title |-> "unknown",
        status |-> ChapterStatus(status, failed, ready),
        attempts |-> IF status = <<>> THEN 0 ELSE status[1].attempts,
        source_refs |-> Unique(Mapped(status, StatusRef) \o Mapped(gates, LAMBDA g : g.ref)
                               \o Mapped(reports, ReportRef) \o Mapped(latest, CheckpointRef)),
        stages |-> Mapped(Stages, LAMBDA s : StageSnapshot(s, gates, reports)),
        derivations |-> Mapped(status, LAMBDA s : DerivedFrom("chapter.status_from_task", <<StatusRef(s)>>, ""))
                        \o Mapped(latest, LAMBDA c : DerivedFrom("chapter.checkpoint_state", <<CheckpointRef(c)>>, c.state))
                        \o (IF failed = <<>> /\ ready # <<>>
                            THEN <<DerivedFrom("chapter.completed_from_runtime_report", Mapped(ready, ReportRef), "")>>
                            ELSE <<>>),
        blocked_by |-> Mapped(failed, LAMBDA g : DerivedFrom("chapter.blocked_by_gate", <<g.ref>>, "gate")),
        checkpoint_state |-> IF latest = <<>> THEN Null ELSE latest[1].state]

ProjectChapters(files) == Mapped(SetToSortSeq(Chapters(files), <), LAMBDA n : ChapterSnapshot(files, n))

------------------------------------------------------------------------------
(* project_quality, project_trace, project_overview *)

\* A disposition is looked for under an event type the log does not know: none is ever found.
AcceptedIssues(files) ==
    {e.issue : e \in {e \in ToSet(Events(files)) : e.type = "ReviewIssueAccepted"}}

ProjectQuality(files) ==
    LET accepted == AcceptedIssues(files)
        issues == Mapped(QualityIssues(files), LAMBDA i :
                     [issue_id |-> i.id, code |-> i.code, severity |-> "error", blocking |-> i.blocking, scope |-> i.scope,
                      source_refs |-> <<i.ref>>, disposition_status |-> IF i.id \in accepted THEN "accepted" ELSE Null])
        gates == Mapped(GateResults(files), LAMBDA g :
                     [gate_id |-> g.gate, status |-> g.status, source_refs |-> <<g.ref>>, derivations |-> <<>>])
    IN [issues |-> issues, gate_results |-> gates,
        source_refs |-> Unique(FlattenSeq(Mapped(issues, LAMBDA i : i.source_refs) \o Mapped(gates, LAMBDA g : g.source_refs)))]

ProjectTrace(files) ==
    LET events == Mapped(Events(files), LAMBDA e :
                     [trace_kind |-> "event", sequence |-> e.sequence, event_id |-> ToString(e.sequence), event_type |-> e.type,
                      task_id |-> e.task, execution_id |-> e.execution, source_refs |-> <<EventRef(e)>>])
        reports == Mapped(files.reports, LAMBDA r :
                     [trace_kind |-> "runtime_report", sequence |-> 0, event_id |-> Null, event_type |-> "WriterValidationReport",
                      task_id |-> r.id, execution_id |-> Null, source_refs |-> <<ReportRef(r)>>])
    IN [entries |-> events \o reports,
        source_refs |-> Unique(FlattenSeq(Mapped(events \o reports, LAMBDA e : e.source_refs)))]

\* Mutant: the chapters alone decide.
RunStatusOfChapters(chapters, quality) ==
    LET all == {chapters[i].status : i \in DOMAIN chapters} IN
    IF "blocked" \in all THEN "blocked"
    ELSE IF "failed" \in all THEN "failed"
    ELSE IF "running" \in all THEN "running"
    ELSE IF all = {"passed"} THEN "passed"
    ELSE "unknown"

RunStatus(chapters, quality) ==
    LET all == {chapters[i].status : i \in DOMAIN chapters} IN
    IF \/ "blocked" \in all
       \/ \E i \in DOMAIN quality.issues : quality.issues[i].blocking
       \/ \E i \in DOMAIN quality.gate_results : quality.gate_results[i].status = "failed"
    THEN "blocked"
    ELSE IF "failed" \in all THEN "failed"
    ELSE IF "running" \in all THEN "running"
    ELSE IF all = {"passed"} THEN "passed"
    ELSE "unknown"

CurrentStage(chapters) ==
    IF chapters = <<>> THEN "unknown"
    ELSE LET stages == Last(chapters).stages
             stuck == SelectSeq(stages, LAMBDA s : s.status \in {"running", "blocked", "failed"})
         IN IF stuck # <<>> THEN stuck[1].stage
            ELSE IF \A i \in DOMAIN stages : stages[i].status = "passed" THEN "complete" ELSE "unknown"

ProjectOverview(chapters, quality, trace) ==
    LET blocked == SelectSeq(chapters, LAMBDA c : c.status = "blocked") IN
    [current_stage |-> CurrentStage(chapters), run_status |-> RunStatus(chapters, quality),
     chapter_count |-> Len(chapters), blocked_chapter_count |-> Len(blocked),
     source_refs |-> Unique(FlattenSeq(Mapped(chapters, LAMBDA c : c.source_refs)) \o quality.source_refs \o trace.source_refs),
     blockers |-> FlattenSeq(Mapped(blocked, LAMBDA c :
                     Mapped(c.blocked_by, LAMBDA d : [code |-> "chapter_blocked", message |-> "blocked", derivation |-> d])))]

------------------------------------------------------------------------------
(* project_characters, project_story_threads, project_timeline *)

ProjectCharacters(states) ==
    Mapped(SelectSeq(states, LAMBDA s : s.kind = "character"), LAMBDA s :
        [subject |-> s.subject, fields_json |-> s.fields, source_refs |-> <<StateRef(s)>>,
         derivation |-> DerivedFrom("active-character-state", <<StateRef(s)>>, "")])

HookThread(s) ==
    [subject |-> s.subject, thread_type |-> "foreshadow",
     status |-> IF "status" \in DOMAIN s.fields THEN s.fields.status ELSE "unknown",
     fields_json |-> s.fields, source_refs |-> <<StateRef(s)>>,
     derivation |-> DerivedFrom("active-hook-state", <<StateRef(s)>>, ""),
     open_loop |-> IF FieldOr(s.fields, "open_loop") = "" THEN Null ELSE s.fields.open_loop]

ExpectationThread(e) ==
    [subject |-> e.id, thread_type |-> "expectation", status |-> e.to,
     fields_json |-> [expectation_id |-> e.id, from_state |-> e.from, to_state |-> e.to, content_hash |-> e.hash],
     source_refs |-> e.refs, derivation |-> DerivedFrom("approved-engagement-expectation", e.refs, ""),
     open_loop |-> Null]

\* Sorted by type, then subject: expectations come before what the states say of hooks.
ProjectStoryThreads(states, expectations) ==
    Mapped(expectations, ExpectationThread) \o Mapped(SelectSeq(states, LAMBDA s : s.kind = "hook"), HookThread)

Declared(rows, f) == {FieldOr(rows[i].fields, f) : i \in DOMAIN rows} \ {""}
TheOnly(values) == IF Cardinality(values) = 1 THEN CHOOSE v \in values : TRUE ELSE "unknown"

Conflicted(rows) ==
    \/ \E f \in {"precision", "relative_order"} : Cardinality(Declared(rows, f)) > 1
    \/ "conflicted" \in Declared(rows, "conflict_status")

TimelineEntry(rows) ==
    LET conflicted == Conflicted(rows)
        refs == Unique(Mapped(rows, StateRef))
        shown(f) == IF conflicted THEN "unknown" ELSE TheOnly(Declared(rows, f))
        status == IF conflicted THEN "conflicted" ELSE TheOnly(Declared(rows, "conflict_status"))
    IN [subject |-> rows[1].subject, precision |-> shown("precision"), relative_order |-> shown("relative_order"),
        conflict_status |-> status,
        fields_json |-> IF conflicted THEN [conflict_status |-> status, precision |-> "unknown", relative_order |-> "unknown"]
                        ELSE rows[1].fields,
        source_refs |-> refs, derivation |-> DerivedFrom("active-timeline-state", refs, "")]

ProjectTimeline(states) ==
    LET rows == SelectSeq(states, LAMBDA s : s.kind = "timeline")
        subjects == Unique(Mapped(rows, LAMBDA s : s.subject))
    IN Mapped(subjects, LAMBDA name : TimelineEntry(SelectSeq(rows, LAMBDA s : s.subject = name)))

------------------------------------------------------------------------------
(* OperationsSnapshot.from_project *)

Operations(snapshot) ==
    LET entries == snapshot.trace.entries
        chapters == snapshot.chapters
        errors == SelectSeq(entries, LAMBDA e : e.event_type \in {"TaskFailed", "ReviewFailed"})
        \* A chapter that failed has the status "failed", which is not in the list it is looked for.
        stopped == SelectSeq(chapters, LAMBDA c : c.status \in {"fail", "blocked"})
    IN [project_id |-> snapshot.project_id, task_count |-> Len(chapters), execution_count |-> Len(entries),
        failed_count |-> Max({Len(stopped), Len(errors)}),
        attempts |-> FoldLeft(LAMBDA n, c : n + c.attempts, 0, chapters),
        tasks |-> Mapped(chapters, LAMBDA c : [task_id |-> c.chapter_id, status |-> c.status, attempts |-> c.attempts]),
        executions |-> Mapped(entries, LAMBDA e :
            [identity_kind |-> IF e.execution_id = Null THEN "event_id" ELSE "execution_id", event_type |-> e.event_type]),
        errors |-> Mapped(errors, LAMBDA e : [code |-> e.event_type]),
        source_refs |-> snapshot.trace.source_refs,
        usage |-> Null, recovery |-> Null, retries |-> <<>>,
        diagnostics |-> <<"operations_usage_unavailable", "operations_recovery_unavailable", "operations_retry_unavailable">>]

Snapshot(files) ==
    LET chapters == ProjectChapters(files)
        quality == ProjectQuality(files)
        trace == ProjectTrace(files)
        states == ActiveStates(files)
    IN [project_id |-> "project", source_heads |-> <<[source_kind |-> "heads", cursor |-> Null]>>,
        overview |-> ProjectOverview(chapters, quality, trace),
        chapters |-> chapters, quality |-> quality, trace |-> trace,
        characters |-> ProjectCharacters(states),
        story_threads |-> ProjectStoryThreads(states, EngagementFacts(files).facts),
        timeline |-> ProjectTimeline(states),
        diagnostics |-> Diagnostics(files)]
==============================================================================
