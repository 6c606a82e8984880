--------------------------- MODULE MCChapterProduction ---------------------------
(* Values for TLC: one chapter, two processes, two versions of its text.     *)
EXTENDS ChapterProduction, TLC

CONSTANTS w1, w2

Rec(id, field, role, good, artifact, supersedes) ==
    [id |-> id, contract |-> "c1", field |-> field, role |-> role, good |-> good,
     artifact |-> artifact, supersedes |-> supersedes]

Verified == Rec("r1", "f", "verification", TRUE, "a1", NoEvidence)
Realized == Rec("r2", "f", "realization", TRUE, "a1", NoEvidence)
Measured == Rec("r3", "m", "verification", TRUE, "a1", NoEvidence)
Withdrawn == Rec("r4", "f", "realization", TRUE, "a1", "r1")
Mistaken == Rec("r5", "f", "verification", FALSE, "a1", NoEvidence)

MCEvidence == {Verified, Realized, Measured, Withdrawn, Mistaken}
\* run_chapter's payload; evidence to be checked against the contract; and a caller who says that
\* the chapter is not fulfilled.
MCBare == [compact |-> TRUE, records |-> {}, checked |-> FALSE, claimed |-> TRUE, metadata |-> <<>>]
MCPayloads == {[compact |-> FALSE, records |-> {Realized, Measured}, checked |-> TRUE, claimed |-> FALSE,
                metadata |-> [matches |-> TRUE, source |-> "a1"]],
               [compact |-> FALSE, records |-> {}, checked |-> FALSE, claimed |-> FALSE, metadata |-> <<>>]}

Planned(p) == <<Item("plan", <<p>>, [text |-> "t"]), Item("plan_decision", <<p, "t">>, [plan |-> p, text |-> "t"])>>
Active(p) == Planned(p) \o <<Item("plan_activation", <<p>>, [plan |-> p, text |-> "t"])>>
MCFoundations ==
    {[engagement |-> <<Item("expectation_candidate", <<"e">>, [from |-> "absent", to |-> "open"])>>],
     [engagement |-> Active("p") \o Planned("q") \o <<Item("opening_checkpoint", <<"c1">>, [chapter |-> "c1"])>>,
      execution |-> <<Item("intent", <<"c1">>, [request |-> "t"])>>]}
WorkerSymmetry == Permutations(Workers)
================================================================================
