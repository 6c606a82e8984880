---------------------------- MODULE PublicationPlans ----------------------------
(***************************************************************************)
(* The two ends of a split plan: its review against the archive            *)
(* (domains/publication_split_planner.py), after which a human may approve *)
(* it, and the check that the chapters written from it consume the archive *)
(* exactly (domains/publication_length_review.py verify_source_coverage)   *)
(* and form a manifest (domains/publication_migration_model.py).           *)
(*                                                                         *)
(* A paragraph is <<chapter, ordinal>>, an archive maps it to its text; a   *)
(* text, a unit and a plan stand for their hashes.  A unit is whole when   *)
(* its dramatic fields are filled and resolved and it ends at a dramatic   *)
(* boundary outside a dialogue.                                            *)
(***************************************************************************)
EXTENDS Naturals, Sequences, FiniteSets, SequencesExt, FiniteSetsExt

CONSTANTS FirstChapter, LastChapter,   \* the migrated chapters, 5 and 32
          MaxOmitted,                  \* paragraphs of a chapter that may be omitted, 5
          Dimensions                   \* of the evidence that a unit is closed

ASSUME PlansAssumption == "dialogue" \in Dimensions /\ IsFiniteSet(Dimensions)

Place(f) == <<f.chapter, f.ordinal>>
Before(p, q) == p[1] < q[1] \/ (p[1] = q[1] /\ p[2] < q[2])

\* The hash that the fragment carries is the one of the paragraph it names.
Exact(f, archive) == Place(f) \in DOMAIN archive /\ archive[Place(f)] = f.text

UnitFragments(plan) == FlattenSeq([i \in DOMAIN plan.units |-> plan.units[i].fragments])
OmittedFragments(omissions) == FlattenSeq([i \in DOMAIN omissions |-> omissions[i].fragments])
Places(fragments) == {Place(f) : f \in Range(fragments)}

\* Mutant: a fragment may be used again.
WeaklyAscending(fragments) ==
    \A i \in 1 .. Len(fragments) - 1 : ~Before(Place(fragments[i + 1]), Place(fragments[i]))
\* Every fragment comes after the one before it.
Ascending(fragments) ==
    \A i \in 1 .. Len(fragments) - 1 : Before(Place(fragments[i]), Place(fragments[i + 1]))

\* SplitPlanOmission: the fragments of one omission are unique and in order.
OmissionValid(o) == o.fragments # <<>> /\ Ascending(o.fragments)

------------------------------------------------------------------------------
(* _review_closure_evidence                                                  *)

Overlap(e, f) == e.at = f.at /\ e.from < f.to /\ f.from < e.to

\* Each dimension has one piece of evidence, all lie in the unit, at different spans and
\* in two paragraphs or more, and the dialogue is closed in the last one.
Closed(unit, archive) ==
    LET evidence == unit.evidence IN
    /\ {evidence[i].dimension : i \in DOMAIN evidence} = Dimensions
    /\ Len(evidence) = Cardinality(Dimensions)
    /\ \A i \in DOMAIN evidence :
          /\ evidence[i].at \in Places(unit.fragments) \intersect DOMAIN archive
          /\ evidence[i].text = archive[evidence[i].at]
          /\ \A j \in DOMAIN evidence : i # j => ~Overlap(evidence[i], evidence[j])
    /\ Cardinality({evidence[i].at : i \in DOMAIN evidence}) >= 2
    /\ unit.fragments # <<>> =>
          \E i \in DOMAIN evidence : /\ evidence[i].dimension = "dialogue"
                                     /\ evidence[i].at = Place(Last(unit.fragments))

------------------------------------------------------------------------------
(* _review_verified: the codes of its issues                                 *)

InRange(f) == FirstChapter <= f.chapter /\ f.chapter <= LastChapter

\* Mutant: half of a chapter may be omitted.
WithinScopeHalf(c, plan, archive) ==
    LET ofChapter(places) == Cardinality({p \in places : p[1] = c})
        omitted == ofChapter(Places(OmittedFragments(plan.omissions)))
        total == ofChapter(DOMAIN archive)
    IN ofChapter(Places(UnitFragments(plan))) > 0 /\ omitted # total /\ omitted <= MaxOmitted
\* What is omitted of a chapter is at most MaxOmitted paragraphs and less than half of it.
WithinScope(c, plan, archive) ==
    LET ofChapter(places) == Cardinality({p \in places : p[1] = c})
        omitted == ofChapter(Places(OmittedFragments(plan.omissions)))
        total == ofChapter(DOMAIN archive)
    IN /\ ofChapter(Places(UnitFragments(plan))) > 0
       /\ omitted # total /\ omitted <= MaxOmitted /\ 2 * omitted < total

UnitIssues(unit, archive) ==
    {c \in {"dramatic_unit", "source_fragment_empty", "boundary_evidence_invalid"} :
        \/ c = "dramatic_unit" /\ ~unit.whole
        \/ c = "source_fragment_empty" /\ unit.fragments = <<>>
        \/ c = "boundary_evidence_invalid" /\ ~Closed(unit, archive)}

OrderIssues(plan) ==
    LET used == UnitFragments(plan) omitted == OmittedFragments(plan.omissions)
    IN {c \in {"source_fragment_out_of_order", "omission_source_out_of_order",
               "omission_source_overlap"} :
          \/ c = "source_fragment_out_of_order" /\ ~Ascending(used)
          \/ c = "omission_source_out_of_order" /\ ~Ascending(omitted)
          \/ c = "omission_source_overlap" /\ (Places(used) \cap Places(omitted) # {}
                                              \/ ~IsInjective([i \in DOMAIN omitted |-> Place(omitted[i])]))}

Review(plan, snapshot, archive) ==
    LET used == Range(UnitFragments(plan)) omitted == Range(OmittedFragments(plan.omissions))
    IN OrderIssues(plan)
       \union (UNION {UnitIssues(plan.units[i], archive) : i \in DOMAIN plan.units})
       \union {c \in {"source_snapshot_mismatch", "source_fragment_forbidden", "source_hash_mismatch",
                      "omission_snapshot_mismatch", "omission_scope_requires_review",
                      "source_fragment_missing"} :
          \/ c = "source_snapshot_mismatch" /\ plan.snapshot # snapshot
          \/ c = "source_fragment_forbidden" /\ \E f \in used \union omitted : ~InRange(f)
          \/ c = "source_hash_mismatch" /\ \E f \in used \union omitted : ~Exact(f, archive)
          \/ c = "omission_snapshot_mismatch" /\ \E i \in DOMAIN plan.omissions : plan.omissions[i].snapshot # snapshot
          \/ c = "omission_scope_requires_review" /\ \E f \in omitted : ~WithinScope(f.chapter, plan, archive)
          \/ c = "source_fragment_missing" /\ Places(UnitFragments(plan)) \union Places(OmittedFragments(plan.omissions)) # DOMAIN archive}

\* plan_source_chapters: the units of the chapters in order; an omitted chapter keeps one.
PlanOf(chapters, omissions, snapshot) ==
    [snapshot |-> snapshot, units |-> FlattenSeq([i \in DOMAIN chapters |-> chapters[i].units]),
     omissions |-> omissions]
Plannable(chapters, omissions) ==
    /\ [i \in DOMAIN chapters |-> chapters[i].number]
          = [i \in 1 .. LastChapter - FirstChapter + 1 |-> FirstChapter + i - 1]
    /\ \A i \in DOMAIN chapters : chapters[i].units = <<>> =>
          \A f \in Range(OmittedFragments(omissions)) : f.chapter # chapters[i].number

------------------------------------------------------------------------------
(* The chapters written: an entry has a target number, mappings of fragments *)
(* to its body, outcomes of units, and omissions of its own.                 *)

Consumed(entries) ==
    FlattenSeq([i \in DOMAIN entries |-> [j \in DOMAIN entries[i].mappings |-> entries[i].mappings[j].fragment]])
EntryUnits(entries) ==
    FlattenSeq([i \in DOMAIN entries |-> [j \in DOMAIN entries[i].outcomes |-> entries[i].outcomes[j].unit]])
\* Mutant: the omissions beside the entries are forgotten.
EntryOmissions(entries, omissions) == FlattenSeq([i \in DOMAIN entries |-> entries[i].omissions])
AllOmissions(entries, omissions) ==
    omissions \o FlattenSeq([i \in DOMAIN entries |-> entries[i].omissions])

Consecutive(entries) == \A i \in DOMAIN entries : entries[i].target = entries[1].target + i - 1

\* _verify_candidate_entry_binding: the entries take the units of the plan in order, each
\* with exactly the fragments of its units.
BoundToUnits(entries, plan) ==
    /\ EntryUnits(entries) = plan.units /\ IsInjective(plan.units)
    /\ \A i \in DOMAIN entries :
          /\ entries[i].outcomes # <<>>
          /\ [j \in DOMAIN entries[i].mappings |-> entries[i].mappings[j].fragment]
                = FlattenSeq([j \in DOMAIN entries[i].outcomes |-> entries[i].outcomes[j].unit.fragments])

\* _verify_omission_authority: the omissions are those of the approved plan, each once.
OmissionsApproved(all, plan) ==
    LET places == [i \in DOMAIN all |-> Place(all[i])] IN
    /\ IsInjective(places)
    /\ Range(places) = Places(OmittedFragments(plan.omissions))
    /\ \A i \in DOMAIN all : all[i] \in Range(OmittedFragments(plan.omissions))

\* _verify_outcomes: no outcome or unit is told again in the next chapter.
NothingRepeated(entries) ==
    \A i \in 1 .. Len(entries) - 1 :
       LET of(k, name) == {entries[k].outcomes[j][name] : j \in DOMAIN entries[k].outcomes}
       IN of(i, "id") \cap of(i + 1, "id") = {} /\ of(i, "unit") \cap of(i + 1, "unit") = {}

\* verify_source_coverage of the entries of an approved plan, with the texts as written.
SourceCovered(archive, plan, entries, omissions, texts) ==
    LET all == AllOmissions(entries, omissions) IN
    /\ entries # <<>> /\ Consecutive(entries)
    /\ \A i \in DOMAIN entries : /\ entries[i].body = texts[entries[i].target]
                                 /\ \A j \in DOMAIN entries[i].mappings : entries[i].mappings[j].body = entries[i].body
    /\ Ascending(Consumed(entries)) /\ \A f \in Range(Consumed(entries)) : Exact(f, archive)
    /\ BoundToUnits(entries, plan)
    /\ OmissionsApproved(all, plan)
    /\ \A f \in Range(all) : Place(f) \notin Places(Consumed(entries)) /\ Exact(f, archive)
    /\ Places(Consumed(entries)) \union Places(all) = DOMAIN archive
    /\ NothingRepeated(entries)

\* PublicationChapterEntry of schema 2, as far as it concerns the source.
EntryValid(e) ==
    /\ e.mappings # <<>> /\ e.outcomes # <<>>
    /\ \A j \in DOMAIN e.mappings : e.mappings[j].body = e.body
    /\ IsInjective([j \in DOMAIN e.outcomes |-> e.outcomes[j].id])
    /\ IsInjective([j \in DOMAIN e.outcomes |-> e.outcomes[j].unit])

\* PublicationChapterMigrationManifest: the entries follow the frozen chapters, and no
\* paragraph is consumed twice.
ManifestValid(entries, omissions, frozenThrough) ==
    LET consumed == Consumed(entries) \o AllOmissions(entries, omissions) IN
    /\ \A i \in DOMAIN entries : EntryValid(entries[i]) /\ entries[i].target = frozenThrough + i
    /\ \A f \in Range(consumed) : InRange(f)
    /\ IsInjective([i \in DOMAIN consumed |-> Place(consumed[i])])
==============================================================================
