----------------------------- MODULE ProjectionFiles -----------------------------
(***************************************************************************)
(* A snapshot in its file, and read again (creative_os/projection/codec.py, *)
(* model.py, provenance.py, and the operations in repository.py).  Three   *)
(* forms are read: the present one, the same from before issues had a      *)
(* disposition, and the first, without the narrative sections.             *)
(***************************************************************************)
EXTENDS CaseTable, ProjectionFacts

\* A digest tells apart what it was made of.
Digest(x) == <<"sha256", x>>

\* What the codec asks of an object's fields: a text that is not blank, such a text or null,
\* one object or a list of them; it takes the others as they are.
Format(text, maybe, one, many, free) == [text |-> text, maybe |-> maybe, one |-> one, many |-> many, free |-> free]
Refs == [source_refs |-> "ref"]

Formats == [
    ref |-> Format({"source_kind", "source_id"}, {}, <<>>, <<>>, {}),
    head |-> Format({"source_kind"}, {"cursor"}, <<>>, <<>>, {}),
    derivation |-> Format({"rule_id"}, {}, <<>>, [inputs |-> "ref"], {"explanation"}),
    blocker |-> Format({"code", "message"}, {}, [derivation |-> "derivation"], <<>>, {}),
    overview |-> Format({"current_stage", "run_status"}, {}, <<>>, Refs @@ [blockers |-> "blocker"],
                        {"chapter_count", "blocked_chapter_count"}),
    stage |-> Format({"stage", "status"}, {}, <<>>, Refs @@ [derivations |-> "derivation"], {}),
    chapter |-> Format({"chapter_id", "title", "status"}, {"checkpoint_state"}, <<>>,
                       Refs @@ [stages |-> "stage", derivations |-> "derivation", blocked_by |-> "derivation"],
                       {"chapter_number", "attempts"}),
    issue |-> Format({"issue_id", "code", "severity", "scope"}, {"disposition_status"}, <<>>, Refs, {"blocking"}),
    gate |-> Format({"gate_id", "status"}, {}, <<>>, Refs @@ [derivations |-> "derivation"], {}),
    quality |-> Format({}, {}, <<>>, Refs @@ [issues |-> "issue", gate_results |-> "gate"], {}),
    entry |-> Format({"trace_kind", "event_type"}, {"event_id", "task_id", "execution_id"}, <<>>, Refs, {"sequence"}),
    trace |-> Format({}, {}, <<>>, Refs @@ [entries |-> "entry"], {}),
    character |-> Format({"subject"}, {}, [derivation |-> "derivation"], Refs, {"fields_json"}),
    thread |-> Format({"subject", "thread_type", "status"}, {"open_loop"}, [derivation |-> "derivation"], Refs,
                      {"fields_json"}),
    moment |-> Format({"subject", "precision", "relative_order", "conflict_status"}, {}, [derivation |-> "derivation"],
                      Refs, {"fields_json"}),
    snapshot |-> Format({"project_id"}, {}, [overview |-> "overview", quality |-> "quality", trace |-> "trace"],
                        [source_heads |-> "head", chapters |-> "chapter", characters |-> "character",
                         story_threads |-> "thread", timeline |-> "moment"], {"diagnostics"})]

FieldsIn(kind) == LET f == Formats[kind] IN f.text \union f.maybe \union f.free \union DOMAIN f.one \union DOMAIN f.many

\* Fields a file of an earlier form may lack, and what is read in their place.
Absent == [chapter |-> "checkpoint_state", issue |-> "disposition_status"]
Lately(kind) == IF kind \in DOMAIN Absent THEN {Absent[kind]} ELSE {}

RECURSIVE Decodes(_, _)
Decodes(kind, raw) ==
    LET f == Formats[kind] IN
    /\ DOMAIN raw \in {FieldsIn(kind), FieldsIn(kind) \ Lately(kind)}
    /\ \A x \in (f.text \union {x \in f.maybe \intersect DOMAIN raw : raw[x] # Null}) : raw[x] # ""
    /\ \A x \in DOMAIN f.one : Decodes(f.one[x], raw[x])
    /\ \A x \in DOMAIN f.many : \A i \in DOMAIN raw[x] : Decodes(f.many[x], raw[x][i])
    /\ kind = "derivation" => raw.inputs # <<>>

WithAbsent(kind, raw) == [x \in DOMAIN raw \union Lately(kind) |-> IF x \in DOMAIN raw THEN raw[x] ELSE Null]

Narrative == {"characters", "story_threads", "timeline"}

Read(raw) ==
    [x \in FieldsIn("snapshot") |->
        CASE x \notin DOMAIN raw -> <<>>
          [] x = "chapters" -> Mapped(raw.chapters, LAMBDA c : WithAbsent("chapter", c))
          [] x = "quality" -> [raw.quality EXCEPT !.issues = Mapped(@, LAMBDA i : WithAbsent("issue", i))]
          [] OTHER -> raw[x]]

\* _legacy_quality_snapshot_id: of the file as it is, the dispositions struck out.
Struck(raw) ==
    [raw EXCEPT !.quality.issues = Mapped(@, LAMBDA i : [x \in DOMAIN i \ {"disposition_status"} |-> i[x]])]

\* Mutant: the id of the first form, with another number.
FirstSections(snapshot) == Digest(<<2, [x \in DOMAIN snapshot \ Narrative |-> snapshot[x]]>>)

SnapshotId(snapshot) == Digest(<<2, snapshot>>)
FirstFormId(snapshot) == Digest(<<1, [x \in DOMAIN snapshot \ Narrative |-> snapshot[x]]>>)
StruckId(raw) == Digest(<<2, Struck(raw)>>)

File(form, id, raw) == [schema_version |-> form, snapshot_id |-> id, body |-> raw]
Encoded(snapshot) == File(2, SnapshotId(snapshot), snapshot)

\* decode_project_snapshot
Accepted(file) ==
    /\ file.schema_version \in {1, 2}
    /\ DOMAIN file.body = FieldsIn("snapshot") \ (IF file.schema_version = 1 THEN Narrative ELSE {})
    /\ LET whole == [x \in FieldsIn("snapshot") |-> IF x \in DOMAIN file.body THEN file.body[x] ELSE <<>>]
       IN Decodes("snapshot", whole)
    /\ IF file.schema_version = 1
       THEN file.snapshot_id = FirstFormId(Read(file.body))
       ELSE file.snapshot_id \in {SnapshotId(Read(file.body)), StruckId(file.body)}

------------------------------------------------------------------------------
(* The bundle: the snapshot, what it says of the operations, and both's freshness. *)

OperationsFields == {"project_id", "task_count", "execution_count", "failed_count", "attempts", "usage", "source_refs",
                     "diagnostics", "tasks", "executions", "errors", "recovery", "retries"}
Sections == {"project", "operations"}

Bundle(snapshot, refresh) ==
    [schema_version |-> 1, project |-> Encoded(snapshot), operations |-> Operations(snapshot),
     source_heads |-> snapshot.source_heads,
     freshness |-> [project |-> "fresh", operations |-> IF Operations(snapshot).diagnostics = <<>> THEN "fresh" ELSE "partial"],
     diagnostics |-> snapshot.diagnostics, refresh_id |-> refresh]
BundleFields == {"schema_version", "project", "operations", "source_heads", "freshness", "diagnostics", "refresh_id"}

\* decode_projection_bundle: the operations have no digest, only a form and their project.
OperationsAccepted(operations, project) ==
    /\ DOMAIN operations = OperationsFields
    /\ \A r \in ToSet(operations.source_refs) : DOMAIN r = FieldsIn("ref")
    /\ \A e \in ToSet(operations.executions) : e.identity_kind \in {"execution_id", "event_id"}
    /\ operations.project_id = project
    /\ \A x \in {"task_count", "execution_count", "failed_count", "attempts"} : operations[x] \in Nat

BundleAccepted(bundle) ==
    /\ DOMAIN bundle = BundleFields /\ bundle.schema_version = 1
    /\ Accepted(bundle.project)
    /\ DOMAIN bundle.freshness = Sections
    /\ OperationsAccepted(bundle.operations, bundle.project.body.project_id)
------------------------------------------------------------------------------
(* The projection *)

Passing == {"pass", "passed"}
Failing == {"fail", "failed", "blocked"}

\* A project is shown as passed only when every report passed with nothing blocking and each
\* chapter has a finished report, or a status file that says so; a report that failed or has a
\* blocking code, of whatever chapter, blocks it; and a chapter whose last status file says it
\* failed is not lost behind the others, unless a report says it was finished.
TroubleIsShown ==
    About("project") /\ FactsReadable(case.files) =>
        LET files == case.files
            shown == Snapshot(files)
            refused == {r \in ToSet(files.reports) : ~r.passed \/ r.codes # <<>>}
            word(n) == {Last(SelectSeq(files.statuses, LAMBDA s : s.chapter = n)).status :
                          m \in {n} \intersect {s.chapter : s \in ToSet(files.statuses)}}
            finished(n) == \E r \in ToSet(files.reports) : r.chapter = n /\ r.stage = Ready
        IN /\ shown.overview.run_status = "passed" =>
                 refused = {} /\ Chapters(files) # {} /\ \A n \in Chapters(files) : finished(n) \/ word(n) \subseteq Passing
           /\ refused # {} => shown.overview.run_status = "blocked"
           /\ (\E n \in Chapters(files) : ~finished(n) /\ word(n) \intersect Failing # {})
                 => shown.overview.run_status \in {"blocked", "failed"}
           /\ \A i \in DOMAIN shown.chapters :
                 (\E r \in ToSet(files.reports) : ~r.passed /\ ~r.hyphen /\ r.chapter = shown.chapters[i].chapter_number)
                 => shown.chapters[i].status = "blocked" /\ shown.chapters[i].blocked_by # <<>>

ExpectationTypes == {"expectation_candidate", "expectation_decision", "expectation_transition"}

\* What the timeline shows of a subject no active state of it contradicts, and where they do
\* it shows neither side; an expectation is shown only with an approval bound to it, and only
\* when no other expectation has a candidate, a decision or a transition that lacks one. What
\* else the authority holds, a plan that waits for its decision for one, hides nothing.
NarrativeIsAuthorized ==
    About("project") /\ FactsReadable(case.files) =>
        LET files == case.files
            shown == Snapshot(files)
            current == {s \in ToSet(files.states) : s.kind = "timeline" /\ s.subject # ""
                                                    /\ \E m \in files.memory : m.id = s.change /\ m.status = "active"}
            says(subject, f) == {s.fields[f] : s \in {s \in current : s.subject = subject /\ s.fields # NotObject
                                                                      /\ f \in DOMAIN s.fields}} \ {""}
            records == IF files.engagement.there /\ files.engagement.intact THEN ToSet(files.engagement.records) ELSE {}
            bound(id) == \E t, d, c \in {r \in records : r.id = id} :
                            /\ t.type = "expectation_transition" /\ t.payload.decision_hash = d.hash
                            /\ d.type = "expectation_decision" /\ d.payload.disposition = "approved"
                            /\ c.type = "expectation_candidate" /\ t.payload.candidate = c.payload
            expectations == {x \in ToSet(shown.story_threads) : x.thread_type = "expectation"}
        IN /\ {row.subject : row \in ToSet(shown.timeline)} = {s.subject : s \in current}
           /\ \A row \in ToSet(shown.timeline), f \in {"precision", "relative_order"} :
                 /\ row[f] # "unknown" => says(row.subject, f) = {row[f]}
                 /\ Cardinality(says(row.subject, f)) > 1 => row.conflict_status = "conflicted"
                 /\ row.conflict_status = "conflicted" => row[f] = "unknown" /\ row.fields_json[f] = "unknown"
           /\ \A x \in expectations : bound(x.subject)
           /\ expectations # {} => \A r \in {r \in records : r.type \in ExpectationTypes} : bound(r.id)

\* Files whose texts are not blank where the codec asks for one.
TextsFilled(files) ==
    /\ \A r \in ToSet(files.reports) : r.id # ""
    /\ \A s \in ToSet(files.states) : s.fields = NotObject \/ "status" \notin DOMAIN s.fields \/ s.fields.status # ""

\* What a refresh publishes can be read again and is what was built; and a file that is accepted
\* under the id of a snapshot holds that snapshot, in each of the forms that are read.
SnapshotsReadAgain ==
    /\ About("project") /\ FactsReadable(case.files) /\ TextsFilled(case.files) =>
          LET built == Snapshot(case.files) IN
          BundleAccepted(Bundle(built, "refresh")) /\ Read(built) = built
    /\ About("snapshot_file") /\ Accepted(case.file) =>
          LET found == Read(case.file.body) IN
          CASE case.file.snapshot_id = SnapshotId(case.saved) -> found = case.saved
            [] case.file.snapshot_id = FirstFormId(case.saved) ->
                  found = [x \in DOMAIN case.saved |-> IF x \in Narrative THEN <<>> ELSE case.saved[x]]
            [] OTHER -> Struck(found) = Struck(case.saved)

\* What a snapshot shows of a project is neither better than the files nor unauthorized, and
\* once it is published it is read as it was built.
SnapshotIsTrue == TroubleIsShown /\ NarrativeIsAuthorized /\ SnapshotsReadAgain
==============================================================================
