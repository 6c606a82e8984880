--------------------------- MODULE ContinuationRules ---------------------------
(***************************************************************************)
(* The exit of a continuation run (novel_continuation_runner.py): what the *)
(* model answers is reviewed, extended or asked for again, and written     *)
(* with its review, status, events and, when it passed, as the chapter.    *)
(*                                                                         *)
(* The exit runs under the project lock and is sequential, so a run is the *)
(* sequence of its writes, and a run that died the beginning of one.       *)
(* write_text truncates the file first: of each file it is two writes.     *)
(*                                                                         *)
(* A text is a sequence of pieces, what the model answered one call after  *)
(* another; a piece has a size, and a flaw if it is rejected by itself.    *)
(***************************************************************************)
EXTENDS CaseTable, Naturals, Sequences, SequencesExt

CONSTANT Minimum  \* min_chinese_chars, in pieces' sizes

NoFile == <<[there |-> FALSE]>>
Torn == <<>>      \* a truncated file; a truncated draft is an empty text
Failed == [failed |-> TRUE]
ChapterCandidates == <<"summary", "hooks">>

NoFiles == [draft |-> NoFile, review |-> NoFile, status |-> NoFile, chapter |-> NoFile, readiness |-> NoFile,
            memory |-> <<>>, log |-> <<>>]

------------------------------------------------------------------------------
(* Reviews *)

\* _review: too short, a rejected piece, a paragraph that is there twice.
ReviewIssues(text) ==
    {i \in {"short"} : FoldLeft(LAMBDA sum, p : sum + p.size, 0, text) < Minimum}
    \union {i \in {"flawed"} : \E k \in DOMAIN text : text[k].flaw}
    \union {i \in {"repeated"} : \E j, k \in DOMAIN text : j < k /\ text[j] = text[k]}

\* The draft of an earlier run is taken up if its review, made in the same context, found
\* it too short.
Prior(files, context) ==
    IF /\ files.draft # NoFile /\ files.review \notin {NoFile, Torn}
       /\ files.review[1].context = context /\ "short" \in files.review[1].issues
    THEN [text |-> files.draft, issues |-> files.review[1].issues, events |-> <<>>, over |-> FALSE]
    ELSE [text |-> <<>>, issues |-> {}, events |-> <<>>, over |-> FALSE]

------------------------------------------------------------------------------
(* Writes *)

Write(file, content) == <<[file |-> file, to |-> Torn], [file |-> file, to |-> content]>>
\* A line that is cut off makes the log unreadable.
Line(event) == <<[file |-> "log", to |-> "half a line"], [file |-> "log", to |-> event]>>
EventLines(events) == FlattenSeq([i \in DOMAIN events |-> Line(events[i])])

LogWith(log, event) ==
    IF log # <<>> /\ Last(log) = "half a line" THEN Append(Front(log), event) ELSE Append(log, event)
Writing(files, w) ==
    CASE w.file = "log" -> [files EXCEPT !.log = LogWith(@, w.to)]
      [] w.file = "memory" -> [files EXCEPT !.memory = Append(@, w.to)]
      [] OTHER -> [files EXCEPT ![w.file] = w.to]

\* The files after the first n of the writes of a run.
After(files, writes, n) == FoldLeft(Writing, files, SubSeq(writes, 1, n))
EventsReadable(files) == \A i \in DOMAIN files.log : files.log[i] # "half a line"

\* save_chapter_candidates: a candidate that is there stays as it is.
SaveCandidates(files, text) ==
    LET Save(id) == IF \E k \in DOMAIN files.memory : files.memory[k].id = id THEN <<>>
                    ELSE <<[file |-> "memory", to |-> [id |-> id, text |-> text]]>>
    IN FlattenSeq([i \in DOMAIN ChapterCandidates |-> Save(ChapterCandidates[i])])

------------------------------------------------------------------------------
(* continue_one_chapter *)

\* RuntimeRunner.execute writes two lines for each call of the model.
CallLines(answer) == <<"called", IF answer = Failed THEN "call failed" ELSE "answered">>

\* Mutant: a call that fails leaves the issues as they were.
AttemptForgiving(run, answer) ==
    IF run.over THEN run
    ELSE IF answer = Failed
    THEN [run EXCEPT !.events = @ \o CallLines(answer), !.over = TRUE]
    ELSE LET text == IF run.text # <<>> /\ "short" \in run.issues THEN Append(run.text, answer) ELSE <<answer>>
         IN [text |-> text, issues |-> ReviewIssues(text), events |-> run.events \o CallLines(answer), over |-> ReviewIssues(text) = {}]

\* A text that is too short is extended by the answer, any other replaced by it; the first
\* text that passes and the first call that fails end the attempts.
Attempt(run, answer) ==
    IF run.over THEN run
    ELSE IF answer = Failed
    THEN [run EXCEPT !.events = @ \o CallLines(answer), !.over = TRUE, !.issues = {"model_execution_failed"}]
    ELSE LET text == IF run.text # <<>> /\ "short" \in run.issues THEN Append(run.text, answer) ELSE <<answer>>
         IN [text |-> text, issues |-> ReviewIssues(text), events |-> run.events \o CallLines(answer), over |-> ReviewIssues(text) = {}]

Attempts(files, context, answers) == FoldLeft(Attempt, Prior(files, context), answers)

\* _require_publication_edition
EditionBound(run, active) == active = "legacy-default" \/ run.edition = active

ContinueOneChapter(files, run) ==
    LET end == Attempts(files, run.context, run.answers)
        passed == end.issues = {}
    IN EventLines(<<"created", "started">>) \o EventLines(<<"context built">>)
       \o (IF run.dry THEN Write("readiness", <<{}>>)
           ELSE EventLines(end.events)
                \o Write("draft", end.text)
                \o Write("review", <<[issues |-> end.issues, context |-> run.context]>>)
                \o EventLines(<<IF passed THEN "review passed" ELSE "review failed">>)
                \o Write("status", <<[passed |-> passed, issues |-> end.issues]>>)
                \o (IF passed
                    THEN Write("chapter", end.text) \o SaveCandidates(files, end.text)
                         \o EventLines(<<"knowledge updated", "state changed">>) \o EventLines(<<"completed">>)
                    ELSE EventLines(<<"failed">>))
                \o Write("readiness", <<end.issues>>))

\* promote_passing_draft reviews the draft again, and leaves no event.
PromotePassingDraft(files, run) ==
    LET issues == ReviewIssues(files.draft)
        review == Write("review", <<[issues |-> issues, context |-> run.context]>>)
    IN IF issues = {}
       THEN Write("chapter", files.draft) \o SaveCandidates(files, files.draft) \o review
            \o Write("status", <<[passed |-> TRUE, issues |-> {}]>>) \o Write("readiness", <<{}>>)
       ELSE review \o Write("readiness", <<issues>>)

\* The writes of a run; a run that is refused writes nothing.
Writes(files, run, active) ==
    IF ~EditionBound(run, active) THEN <<>>
    ELSE CASE run.kind = "continue" /\ EventsReadable(files) -> ContinueOneChapter(files, run)
           [] run.kind = "promote" /\ files.draft # NoFile -> PromotePassingDraft(files, run)
           [] OTHER -> <<>>

------------------------------------------------------------------------------
(* What the files say after one run, that may have died, and another, that may die too. *)

Whole(chapter) == chapter \notin {NoFile, Torn}

\* Of each chapter and candidate that is there its text has passed the review, and a run that
\* is logged as completed has left its chapter and all of its candidates.
OnlyPassedTexts(files) ==
    /\ Whole(files.chapter) => ReviewIssues(files.chapter) = {}
    /\ \A i \in DOMAIN files.memory : ReviewIssues(files.memory[i].text) = {}
    /\ "completed" \in ToSet(files.log) => {files.memory[i].id : i \in DOMAIN files.memory} = ToSet(ChapterCandidates)

\* A run that came to its end leaves files that agree: the status, the review and the last
\* event tell the same; what passed is the draft and the chapter; and nothing else touches
\* the chapter.
EndsInAgreement(before, run, files) ==
    LET passed == files.status # NoFile /\ files.status[1].passed IN
    run.kind = "continue" /\ ~run.dry =>
        /\ files.status[1].issues = files.review[1].issues /\ files.readiness[1] = files.review[1].issues
        /\ passed <=> files.review[1].issues = {}
        /\ Last(files.log) = IF passed THEN "completed" ELSE "failed"
        /\ IF passed THEN files.chapter = files.draft ELSE files.chapter = before.chapter

\* A run that died behind the review and before the chapter has lost nothing: to promote its
\* draft publishes the text that was reviewed.
CanBePromoted(files, run) ==
    files.status \notin {NoFile, Torn} /\ files.status[1].passed /\ files.chapter = NoFile =>
        LET promoting == PromotePassingDraft(files, run)
            end == After(files, promoting, Len(promoting))
        IN end.chapter = files.draft /\ ReviewIssues(end.chapter) = {} /\ OnlyPassedTexts(end)

\* A chapter of the canon is a text that passed its review, whatever run died where; a run that
\* ends leaves chapter, draft, review, status, events and memory in agreement; and one that died
\* after the review can be finished without the model.
FinishedChapterPassed ==
    About("continuation") =>
        LET one == Writes(NoFiles, case.first, case.active)
            between == After(NoFiles, one, case.died)
            two == Writes(between, case.second, case.active)
        IN /\ OnlyPassedTexts(between) /\ CanBePromoted(between, case.second)
           /\ (case.died = Len(one) /\ one # <<>>) => EndsInAgreement(NoFiles, case.first, between)
           /\ \A n \in 0 .. Len(two) : OnlyPassedTexts(After(between, two, n))
           /\ two # <<>> => EndsInAgreement(between, case.second, After(between, two, Len(two)))

\* In a case about a run the first died behind one of its writes, and a run that writes a text
\* has asked the model: without an attempt an empty text would pass, as it has no issues.
AsksTheModel(run) == run.kind = "continue" /\ ~run.dry
RunTyped(run) == run.answers \in Seq(ToSet(run.answers)) /\ (AsksTheModel(run) => run.answers # <<>>)
ContinuationTyped(k) ==
    k.about = "continuation" =>
        /\ RunTyped(k.first) /\ RunTyped(k.second)
        /\ k.died \in 0 .. Len(Writes(NoFiles, k.first, k.active))
ASSUME ContinuationAssumption == \A i \in DOMAIN Cases : \A k \in Cases[i] : ContinuationTyped(k)
==============================================================================
