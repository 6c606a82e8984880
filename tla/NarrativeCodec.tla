----------------------------- MODULE NarrativeCodec -----------------------------
(***************************************************************************)
(* The chapter contract (domains/narrative_decision.py) and the boundary   *)
(* where its stored forms are read and written (domains/narrative_codec.py)*)
(*                                                                         *)
(* Of a decision are kept the parts that validation, reading and writing   *)
(* treat differently; texts that are merely required stand in "core".  A   *)
(* payload is the set of fields of its root and of its chapter contract,   *)
(* and the parts as they are written; in the old form a choice has no      *)
(* status and a plan is a bare list.                                       *)
(***************************************************************************)
EXTENDS Integers, Sequences, FiniteSets, SequencesExt

Refused == [refused |-> TRUE]

------------------------------------------------------------------------------
(* Validation                                                                *)

ChoiceFields == {"actor", "action", "alternatives", "cost", "consequence"}
StatusOf(missing) ==
    IF missing = ChoiceFields THEN "unknown" ELSE IF missing # {} THEN "partial" ELSE "complete"

\* A choice lists exactly what it lacks.
ChoiceValid(c) ==
    LET missing == ChoiceFields \ c.filled IN
    /\ c.missing = missing
    /\ CASE c.status = "complete" -> missing = {}
         [] c.status = "partial" -> missing # {}
         [] c.status = "unknown" -> missing = ChoiceFields

PlanNames == {"misdirect", "foreshadow_actions", "forbidden"}
NullableValid(n) == ~(n.values /\ n.reason)

CandidateValid(c) == c.known <=> c.value

EvidenceValid(ref, roles) == ref.own /\ ref.role \in roles
BindingValid(refs) == refs # {} /\ \A r \in refs : EvidenceValid(r, {"intent", "non_applicability"})
ObligationValid(o) ==
    /\ o.evidence # {} /\ \A r \in o.evidence : EvidenceValid(r, {"intent"})
    /\ o.deadline \in {"none", "positive"}

ScenePlanValid(plan) ==
    plan.scenes # <<>> =>
        /\ plan.intent /\ plan.run >= 1
        /\ \A i \in DOMAIN plan.scenes :
              /\ plan.scenes[i].order = i
              /\ plan.scenes[i].information \/ plan.scenes[i].state

TechnologyValid(t) ==
    t.role # "background" => t.lists = {"prerequisites", "social_diffusion", "changed_domains"}

\* Without an owner nothing of the plan is looked at.
PovValid(plan) == plan.owner => plan.mode # "none" /\ \A i \in DOMAIN plan.agencies : plan.agencies[i]

ContractValid(d) ==
    /\ ChoiceValid(d.choice)
    /\ \A name \in PlanNames : NullableValid(d.plans[name])
    /\ \A c \in Range(d.candidates) : CandidateValid(c)
    /\ \A path \in DOMAIN d.bindings : BindingValid(d.bindings[path])
    /\ \A o \in Range(d.obligations) : ObligationValid(o)
    /\ ScenePlanValid(d.scene_plan)
    /\ \A t \in Range(d.technology_plan) : TechnologyValid(t)
    /\ PovValid(d.pov_plan)

Valid(d) ==
    /\ d.version \in {2, 3} /\ d.identified
    /\ ContractValid(d)
    /\ d.version = 3 => d.obligations # <<>>
    /\ \A kind \in Range(d.legacy) : kind = "legacy_unclassified"

------------------------------------------------------------------------------
(* Writing                                                                   *)

RootV2 == {"core", "envelope", "legacy"}
ContractV2 == {"core", "intent"}
OptionalV2 == {"scene_plan", "technology_plan", "pov_plan"}

\* _encode_decision: every part but the obligations.
Written(d, version, contract) ==
    [version |-> version, root |-> RootV2, contract |-> contract, old |-> FALSE, parts |-> d]

EncodeV2(d) == IF Valid(d) THEN Written(d, 2, ContractV2 \union OptionalV2) ELSE Refused
EncodeV3(d) ==
    IF d.obligations # <<>> /\ Valid(d)
    THEN Written(d, 3, ContractV2 \union OptionalV2 \union {"engagement_obligations"})
    ELSE Refused
Encode(d) ==
    CASE d.version = 2 -> EncodeV2(d)
      [] d.version = 3 -> EncodeV3(d)
      [] OTHER -> Refused

------------------------------------------------------------------------------
(* Reading                                                                   *)

NoScenes == [scenes |-> <<>>, intent |-> FALSE, run |-> 3]
NoPov == [owner |-> FALSE, mode |-> "none", agencies |-> <<>>]
Checked(d) == IF Valid(d) THEN d ELSE Refused

\* What the old form does not say of a choice is computed.
Classified(choice) ==
    LET missing == ChoiceFields \ choice.filled
    IN [filled |-> choice.filled, missing |-> missing, status |-> StatusOf(missing)]

\* A reader takes exactly the fields it requires, and those it allows.
HasFields(given, required, optional) == required \subseteq given /\ given \subseteq required \union optional

ExactV1(p) ==
    /\ p.old
    /\ HasFields(p.root, {"core"}, {"evidence"}) /\ HasFields(p.contract, {"core"}, {"evidence"})
    /\ ~("evidence" \in p.root /\ "evidence" \in p.contract)

DecodeV1(p) ==
    Checked([version |-> 2, identified |-> TRUE,
             choice |-> Classified(p.parts.choice),
             plans |-> [name \in PlanNames |-> [values |-> p.parts.plans[name].values, reason |-> FALSE]],
             candidates |-> <<>>, bindings |-> [path \in {} |-> {}], obligations |-> <<>>,
             scene_plan |-> NoScenes, technology_plan |-> <<>>, pov_plan |-> NoPov,
             legacy |-> IF "evidence" \in p.root \union p.contract
                        THEN [i \in DOMAIN p.parts.legacy |-> "legacy_unclassified"] ELSE <<>>])

\* The texts that a reader requires of a scene or of an agency.
PlansReadable(d) ==
    /\ \A i \in DOMAIN d.scene_plan.scenes : d.scene_plan.scenes[i].information /\ d.scene_plan.scenes[i].state
    /\ \A i \in DOMAIN d.pov_plan.agencies : d.pov_plan.agencies[i]

\* What is written, with the plans that may be left out.
ReadParts(p) ==
    [p.parts EXCEPT
        !.version = 2, !.obligations = <<>>,
        !.scene_plan = IF "scene_plan" \in p.contract THEN @ ELSE NoScenes,
        !.technology_plan = IF "technology_plan" \in p.contract THEN @ ELSE <<>>,
        !.pov_plan = IF "pov_plan" \in p.contract THEN @ ELSE NoPov]

DecodeV2(p) ==
    LET d == ReadParts(p) IN
    IF ~p.old /\ p.root = RootV2 /\ HasFields(p.contract, ContractV2, OptionalV2) /\ PlansReadable(d)
    THEN Checked(d) ELSE Refused

\* _adapt_legacy_scene_v2_payload: a contract without an envelope, but with its plans.
LegacyScene(p) ==
    /\ p.old /\ p.root = {"core"}
    /\ HasFields(p.contract, {"core", "scene_plan", "technology_plan"}, {"pov_plan"})
AdaptLegacyScene(p) ==
    [p EXCEPT !.old = FALSE, !.root = RootV2, !.contract = @ \union {"intent"},
              !.parts.identified = TRUE, !.parts.choice = Classified(@),
              !.parts.plans = [name \in PlanNames |-> [values |-> @[name].values, reason |-> ~@[name].values]],
              !.parts.candidates = <<>>, !.parts.bindings = [path \in {} |-> {}], !.parts.legacy = <<>>]

\* Mutant: the schema version of what was read as a v2 contract is kept.
DecodeV3AsV2(p) ==
    LET base == DecodeV2([p EXCEPT !.contract = @ \ {"engagement_obligations"}])
    IN IF base = Refused THEN Refused ELSE [base EXCEPT !.obligations = p.parts.obligations]
\* A v2 contract and its obligations, which are not validated once more.
DecodeV3(p) ==
    LET base == DecodeV2([p EXCEPT !.contract = @ \ {"engagement_obligations"}])
    IN IF base = Refused THEN Refused
       ELSE [base EXCEPT !.version = 3, !.obligations = p.parts.obligations]

AdaptV2ToV3(p) == LET d == DecodeV2(p) IN IF d = Refused THEN Refused ELSE [d EXCEPT !.version = 3]

Decode(p) ==
    CASE p.version \in {0, 1} -> IF ExactV1(p) THEN DecodeV1(p) ELSE Refused
      [] p.version = 2 ->
            IF "envelope" \in p.root THEN DecodeV2(p)
            ELSE IF LegacyScene(p) THEN DecodeV2(AdaptLegacyScene(p)) ELSE Refused
      [] p.version = 3 -> IF "engagement_obligations" \in p.contract THEN DecodeV3(p) ELSE Refused
      [] OTHER -> Refused
==============================================================================
