--------------------------- MODULE PublicationPolicy ---------------------------
(***************************************************************************)
(* The length policy of the publication edition                            *)
(* (domains/publication_migration_model.py) and the two readers of it: the *)
(* review of a chapter (domains/publication_length_review.py), which says  *)
(* when a chapter needs a human's disposition, and the store of those      *)
(* dispositions (runtime/publication_length_disposition_store.py), which   *)
(* says when it may be given.                                              *)
(*                                                                         *)
(* A text is a sequence of code points: Zi is a Chinese character, Stop    *)
(* ends a sentence, Break separates two paragraphs, Space is any other.    *)
(* A body hash is the text it hashes.                                      *)
(***************************************************************************)
EXTENDS Naturals, Sequences, FiniteSets, SequencesExt, FiniteSetsExt

CodePoints == {"zi", "stop", "break", "space"}

ValidPolicy(p) ==
    /\ p.short_min > 0 /\ p.hook_window > 0
    /\ p.short_min <= p.target_min /\ p.target_min <= p.target_max
    /\ p.target_max <= p.soft_max /\ p.soft_max <= p.hard_max

\* Only the range of Chinese characters counts.
Count(text) == Cardinality({i \in DOMAIN text : text[i] = "zi"})

\* Mutant: the soft limit is compared like the other end of the interval.
IntervalFromSoft(count, p) ==
    IF count < p.short_min THEN "short_chapter"
    ELSE IF p.soft_max <= count /\ count <= p.hard_max THEN "soft_limit"
    ELSE "none"
\* append_decision: the interval a disposition is about, if one may be given at all.
Interval(count, p) ==
    IF count < p.short_min THEN "short_chapter"
    ELSE IF p.soft_max < count /\ count <= p.hard_max THEN "soft_limit"
    ELSE "none"

\* review_publication_chapter: the one issue, if any, that the length raises.
\* disposed is the interval for which the store confirms the entry's disposition.
LengthIssue(count, p, disposed) ==
    CASE count > p.hard_max -> "chapter_length_hard_limit"
      [] count > p.soft_max /\ count <= p.hard_max ->
            IF disposed = "soft_limit" THEN "none" ELSE "chapter_length_disposition_missing"
      [] count > p.target_max /\ count <= p.soft_max -> "chapter_length_soft_warning"
      [] count < p.short_min ->
            IF disposed = "short_chapter" THEN "none" ELSE "short_chapter_approval_missing"
      [] count >= p.short_min /\ count < p.target_min -> "chapter_length_below_target"
      [] OTHER -> "none"

Warnings == {"none", "chapter_length_soft_warning", "chapter_length_below_target"}

\* The review demands a disposition for exactly the counts for which the store takes one,
\* and is satisfied by the one it takes.
ReviewAgreesWithStore(count, p) ==
    LET interval == Interval(count, p)
        without == LengthIssue(count, p, "none")
    IN /\ without \in {"chapter_length_disposition_missing", "short_chapter_approval_missing"}
             <=> interval # "none"
       /\ interval # "none" => LengthIssue(count, p, interval) \in Warnings

------------------------------------------------------------------------------
(* Evidence in the text: a span is the code points from + 1 .. to *)

Stripped(text) ==
    LET solid == {i \in DOMAIN text : text[i] \notin {"break", "space"}}
    IN IF solid = {} THEN <<>> ELSE SubSeq(text, 1, Max(solid))

CompleteEnding(text) == Stripped(text) # <<>> /\ Last(Stripped(text)) = "stop"

LastParagraphStart(text) ==
    LET breaks == {i \in DOMAIN text : text[i] = "break"}
    IN IF breaks = {} THEN 0 ELSE Max(breaks)

\* Mutant: the tail is the window alone.
TailWindow(text, p) ==
    LET length == Len(Stripped(text)) IN IF length > p.hook_window THEN length - p.hook_window ELSE 0
\* A negative difference is below every offset, as 0 is.
TailStart(text, p) ==
    LET length == Len(Stripped(text))
        window == IF length > p.hook_window THEN length - p.hook_window ELSE 0
    IN IF LastParagraphStart(text) > window THEN LastParagraphStart(text) ELSE window

\* _span_valid: the span is bound to this text and cites what is there.
SpanValid(span, text) ==
    /\ span.body = text
    /\ span.from < span.to /\ span.to <= Len(text)
    /\ span.excerpt = SubSeq(text, span.from + 1, span.to)

HookEvidenceValid(hooks, text, p) ==
    /\ hooks # {}
    /\ \A span \in hooks :
          /\ SpanValid(span, text)
          /\ span.from >= TailStart(text, p)
          /\ CompleteEnding(span.excerpt)

\* The blocking issues of a chapter whose entry names body, its hooks and the
\* other spans (source mappings and dramatic outcomes) it cites.
Blocking(entry, text, p, disposed) ==
    LET length == LengthIssue(Count(text), p, disposed)
        bound == entry.body = text
    IN (IF bound THEN {} ELSE {"chapter_body_hash_mismatch"})
       \union ({length} \ Warnings)
       \union (IF CompleteEnding(text) THEN {} ELSE {"truncated_sentence_ending"})
       \union (IF bound /\ ~HookEvidenceValid(entry.hooks, text, p)
               THEN {"ending_hook_evidence_invalid"} ELSE {})
       \union (IF bound /\ \E span \in entry.spans : ~SpanValid(span, text)
               THEN {"evidence_invalid"} ELSE {})
==============================================================================
