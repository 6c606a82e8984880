---------------------------- MODULE ChapterProduction ----------------------------
(***************************************************************************)
(* Producing a chapter (domains/chapter_production_orchestrator.py,        *)
(* chapter_production_composition.py): a run is a chain of checkpoints,    *)
(* and each step first writes the record of the owner it concerns and then *)
(* the checkpoint that refers to it.  Every append takes the project's     *)
(* lock for itself, nothing holds it across two, and a process may die     *)
(* between them or within one; run_chapter is then simply called again.    *)
(* Beside the runs, the book's plans, expectations, audits and reviews are *)
(* recorded.                                                               *)
(*                                                                         *)
(* Content hashes are the contents.  A head hash is the number of records: *)
(* the logs only grow, so two heads with one count are the same.           *)
(***************************************************************************)
EXTENDS AuthorityLogs, FulfillmentEvidence, FiniteSets, FiniteSetsExt

CONSTANTS Workers, Chapters,  \* processes, and what they produce
          Artifacts,          \* what the writer may have prepared for a chapter
          Plans, Texts,       \* the ids of engagement plans, and what a plan may say
          Expectations,       \* the ids of expectations
          Bare, Payloads,     \* what record_fulfillment is given, by run_chapter and by others
          Evidence,           \* the evidence records in play
          Foundations,        \* what the logs may hold when a behaviour starts
          MaxBegin, MaxClient, MaxCrashes   \* bounds on runs, other appends, failures

\* Each transition of the records has its decision right before it, made for the head that
\* was there, and no other decision of its expectation is among them.
DecidedFirst(recs) ==
    \A i \in DOMAIN recs : recs[i].type = "expectation_transition" =>
        /\ i > 1 /\ recs[i - 1].type = "expectation_decision"
        /\ recs[i - 1].id = recs[i].id /\ recs[i - 1].body.previous = i - 2
        /\ \A j \in DOMAIN recs : recs[j].type = "expectation_decision" /\ recs[j].id = recs[i].id => j = i - 1

\* A behaviour starts before the first run, with logs that any of the other owners wrote.
ASSUME ProductionAssumption ==
    /\ MaxBegin \in Nat /\ MaxClient \in Nat /\ MaxCrashes \in Nat
    /\ \A f \in Foundations :
          /\ DOMAIN f \subseteq Stores \ {"runs", "state"}
          /\ \A s \in DOMAIN f : f[s] \in Seq({f[s][i] : i \in DOMAIN f[s]})
          /\ "engagement" \in DOMAIN f => DecidedFirst(f["engagement"])
    /\ Bare.records = {} /\ ~Bare.checked /\ Bare.claimed
    /\ NoEvidence \notin {r.id : r \in Evidence} \union [record : Evidence, sequence : Nat]

VARIABLES pc,                       \* what each worker is at
          begun, clients, crashes   \* counters for the bounds

vars == <<log, evidence, pc, begun, clients, crashes>>
bounds == <<begun, clients, crashes>>

Idle == [at |-> "idle"]

Init ==
    /\ \E f \in Foundations :
         log = [s \in Stores |-> IF s \in DOMAIN f
                                 THEN [NoRecords EXCEPT !.recs = f[s], !.head = Len(f[s])]
                                 ELSE NoRecords]
    /\ EvidenceInit
    /\ pc = [w \in Workers |-> Idle]
    /\ begun = 0 /\ clients = 0 /\ crashes = 0

Item(type, id, body) == [type |-> type, id |-> id, body |-> body]
SameKey(s, r) == {x \in Records(s) : x.type = r.type /\ x.id = r.id}
OfType(s, t) == {x \in Records(s) : x.type = t}

\* An append that dies leaves what CrashedAppends says.
OrCrash(s, r) == \/ Write(s, r) /\ UNCHANGED crashes
                 \/ crashes < MaxCrashes /\ WriteTorn(s, r) /\ crashes' = crashes + 1

------------------------------------------------------------------------------
(* The owners beside the runs.  A call that finds its record, or another one *)
(* under its key, changes nothing.                                           *)

Client(s, r) ==
    /\ clients < MaxClient /\ clients' = clients + 1
    /\ Readable(s)
    /\ OrCrash(s, r)
    /\ UNCHANGED <<evidence, pc, begun>>

\* append_plan_candidate looks for the id among the records of every type.
ProposePlan(p, t) ==
    /\ ~ \E x \in Records("engagement") : x.id = <<p>>
    /\ Client("engagement", Item("plan", <<p>>, [text |-> t]))

\* PlanDecisionRecorder.record, append_raw_decision: of any plan id and hash
DecidePlan(p, t) ==
    LET r == Item("plan_decision", <<p, t>>, [plan |-> p, text |-> t]) IN
    /\ SameKey("engagement", r) = {}
    /\ Client("engagement", r)

\* PlanActivationService.activate_plan, activate_plan_locked; expected_active_hash may
\* always be the zero hash.
ActivatePlan(p, t) ==
    LET r == Item("plan_activation", <<p>>, [plan |-> p, text |-> t]) IN
    /\ Item("plan", <<p>>, [text |-> t]) \in Records("engagement")
    /\ Item("plan_decision", <<p, t>>, [plan |-> p, text |-> t]) \in Records("engagement")
    /\ SameKey("engagement", r) = {}
    /\ Client("engagement", r)

ReviewOpening(c) ==
    LET r == Item("opening_checkpoint", <<c>>, [chapter |-> c]) IN
    /\ SameKey("engagement", r) = {}
    /\ Client("engagement", r)

\* append_expectation_candidate: one candidate for an expectation, ever.
ProposeTransition(e, from, to) ==
    LET r == Item("expectation_candidate", <<e>>, [from |-> from, to |-> to]) IN
    /\ from = "absent" => to = "open"
    /\ from # "absent" => \E x \in OfType("engagement", "expectation_transition") : x.id = <<e>>
    /\ SameKey("engagement", r) = {}
    /\ Client("engagement", r)

\* Mutant: a decision that is there does not stop a second one.
MaterializeAgain(e) ==
    LET eng == log["engagement"]
        dec == Item("expectation_decision", <<e>>, [previous |-> Len(eng.recs)])
    IN
    /\ clients < MaxClient /\ clients' = clients + 1
    /\ Readable("engagement")
    /\ \E x \in OfType("engagement", "expectation_candidate") :
         /\ x.id = <<e>>
         /\ log' = [log EXCEPT !["engagement"] = [eng EXCEPT !.head = @ + 2,
                !.recs = @ \o <<dec, Item("expectation_transition", <<e>>, [candidate |-> x.body])>>]]
    /\ UNCHANGED <<evidence, pc, begun, crashes>>

\* materialize_transition compares the head, then writes a decision that names it, and the
\* transition; a process may die between the two.  What a paid transition must have, no
\* candidate may have.
MaterializeTransition(e) ==
    LET eng == log["engagement"]
        cand == {x \in OfType("engagement", "expectation_candidate") : x.id = <<e>>}
        dec == Item("expectation_decision", <<e>>, [previous |-> Len(eng.recs)])
    IN
    /\ clients < MaxClient /\ clients' = clients + 1
    /\ Readable("engagement")
    /\ \E x \in cand :
         LET tr == Item("expectation_transition", <<e>>, [candidate |-> x.body]) IN
         /\ x.body.to # "paid"
         /\ SameKey("engagement", dec) = {}
         /\ \/ /\ log' = [log EXCEPT !["engagement"] = [eng EXCEPT !.recs = @ \o <<dec, tr>>, !.head = @ + 2]]
               /\ UNCHANGED crashes
            \/ /\ crashes < MaxCrashes /\ crashes' = crashes + 1
               /\ \/ WriteTorn("engagement", dec)
                  \/ \E torn \in BOOLEAN :
                       log' = [log EXCEPT !["engagement"] = [Appended("engagement", dec) EXCEPT !.broken = torn]]
    /\ UNCHANGED <<evidence, pc, begun>>

\* evaluate_reader_engagement_exit_gate, and ProductionReadinessAudit.audit of a book whose
\* brief is complete.
GatePassed ==
    /\ Readable("engagement")
    /\ \A t \in {"plan_activation", "plan", "opening_checkpoint"} : OfType("engagement", t) # {}
AuditStatus == IF GatePassed THEN "ready" ELSE "blocked"

PersistAudit ==
    LET r == Item("audit", <<AuditStatus>>, [status |-> AuditStatus]) IN
    /\ r \notin Records("readiness")
    /\ Client("readiness", r)

\* append_approval: of an audit of either status, as often as asked
ApproveAudit(a) ==
    /\ a \in OfType("readiness", "audit")
    /\ Client("readiness", Item("approval", <<"approval">>, [audit |-> a.body.status]))

AppendIntent(c, q) ==
    LET r == Item("intent", <<c>>, [request |-> q]) IN
    /\ SameKey("execution", r) = {}
    /\ Client("execution", r)

AppendReceipt(c, q) ==
    LET r == Item("receipt", <<c>>, [request |-> q]) IN
    /\ Item("intent", <<c>>, [request |-> q]) \in Records("execution")
    /\ SameKey("execution", r) = {}
    /\ Client("execution", r)

AppendReconciliation(c) ==
    /\ \E x \in OfType("execution", "receipt") : x.id = <<c>>
    /\ Client("execution", Item("reconciliation", <<c>>, [previous |-> log["execution"].head]))

AppendQuality(c, a) ==
    LET r == Item("quality", <<c>>, [artifact |-> a]) IN
    /\ SameKey("quality", r) = {}
    /\ Client("quality", r)

\* ContractFulfillmentStore.append by a caller of its own; dying leaves the files at any of
\* the states they pass through.
AppendEvidence(r) ==
    LET states == AppendStates(evidence, r) IN
    /\ clients < MaxClient /\ clients' = clients + 1
    /\ Acceptable(evidence)
    /\ \/ evidence' = states[Len(states)] /\ UNCHANGED crashes
       \/ /\ crashes < MaxCrashes /\ crashes' = crashes + 1
          /\ \E i \in DOMAIN states : evidence' = states[i]
    /\ UNCHANGED <<log, pc, begun>>

------------------------------------------------------------------------------
(* Checkpoints                                                               *)

\* _NEXT; a state without an entry makes advance raise.
NextStates ==
    [awaiting_readiness_approval |-> {"readiness_approved", "blocked", "paused"},
     readiness_approved |-> {"director_proposed", "blocked", "paused"},
     director_proposed |-> {"contract_approved", "engagement_reviewed", "engagement_review_blocked", "blocked", "paused"},
     contract_approved |-> {"admitted", "blocked", "paused"},
     admitted |-> {"writer_prepared", "blocked", "paused"},
     writer_prepared |-> {"writer_completed", "blocked", "paused"},
     writer_completed |-> {"quality_reviewed", "blocked", "paused"},
     quality_reviewed |-> {"chapter_committed", "blocked", "paused"},
     engagement_reviewed |-> {"fulfillment_incomplete", "fulfillment_recorded", "blocked", "paused"},
     blocked |-> {"paused"}, paused |-> {}, chapter_committed |-> {}]

Initial(c) == [chapter |-> c, state |-> "awaiting_readiness_approval", seq |-> 1, prev |-> <<>>, refs |-> <<>>]
Advance(cur, state, refs) ==
    [chapter |-> cur.chapter, state |-> state, seq |-> cur.seq + 1, prev |-> <<cur.state, cur.refs>>, refs |-> refs]

Scoped(c) == {i \in DOMAIN log["runs"].recs : log["runs"].recs[i].chapter = c}
Started(c) == Scoped(c) # {}
Current(c) == log["runs"].recs[Max(Scoped(c))]

Goto(w, state) == pc' = [pc EXCEPT ![w] = state]
At(w, a) == Goto(w, [pc[w] EXCEPT !.at = a])
Return(w) == Goto(w, Idle)

\* Whether append finds the checkpoint, or another one in its place, or must write it.
Known(item) == \E x \in Records("runs") : x = item
\* Mutant: a checkpoint with the same key is not looked for.
ConflictsIgnored(item) == FALSE

Conflicts(item) ==
    \/ \E x \in Records("runs") : x.chapter = item.chapter /\ x.seq = item.seq /\ x # item
    \/ /\ ~Known(item) /\ Started(item.chapter)
       /\ LET last == Current(item.chapter)
          IN item.seq # last.seq + 1 \/ item.prev # <<last.state, last.refs>>

\* ChapterRunCheckpointStore.append within an operation that goes on at next; a conflict is
\* raised to the caller.
Checkpoint(w, item, next) ==
    /\ Readable("runs")
    /\ \/ Known(item) /\ Goto(w, next) /\ UNCHANGED <<log, crashes>>
       \/ Conflicts(item) /\ ~Known(item) /\ Return(w) /\ UNCHANGED <<log, crashes>>
       \/ /\ ~Known(item) /\ ~Conflicts(item)
          /\ \/ Write("runs", item) /\ Goto(w, next) /\ UNCHANGED crashes
             \/ /\ crashes < MaxCrashes /\ crashes' = crashes + 1
                /\ WriteTorn("runs", item) /\ Return(w)
    /\ UNCHANGED <<evidence, begun, clients>>

------------------------------------------------------------------------------
(* start, record_engagement_review, record_fulfillment; and run_chapter,     *)
(* which calls them and then approves and materializes the chapter's state   *)

\* A payload: compact (no records), or records to append; whether it brings a contract and the
\* metadata of an artifact, to be checked; else the caller's word for it.
Begin(w, call, at, c, a, p) ==
    /\ pc[w] = Idle /\ begun < MaxBegin /\ begun' = begun + 1
    /\ Goto(w, [call |-> call, at |-> at, chapter |-> c, artifact |-> a, payload |-> p, found |-> <<>>])
    /\ UNCHANGED <<log, evidence, clients, crashes>>

\* run_chapter reports the artifact's hash and no evidence.
RunChapter(w, c, a) == Begin(w, "run_chapter", "start", c, a, Bare)
StartRun(w, c, a) == Begin(w, "start", "start", c, a, Bare)
RecordReview(w, c, a) == Begin(w, "record_engagement_review", "review", c, a, Bare)
RecordFulfilment(w, c, a, p) == Begin(w, "record_fulfillment", "fulfil", c, a, p)

\* found is the checkpoint or the projection that a step goes on with.  run_chapter goes on with
\* what its owners return; by itself a call is over then.
Holding(w, a, x) == [call |-> pc[w].call, at |-> a, chapter |-> pc[w].chapter, artifact |-> pc[w].artifact,
                     payload |-> pc[w].payload, found |-> x]
Job(w, a) == Holding(w, a, <<>>)
After(w, a) == IF pc[w].call = "run_chapter" THEN Job(w, a) ELSE Idle

Step(w, a) == pc[w].at = a /\ UNCHANGED <<evidence, bounds>>

\* What run_chapter does with the view that start returned.
Viewed(w, state) == Goto(w, After(w, IF state = "director_proposed" THEN "review" ELSE "fulfil"))

ReadStart(w) ==
    LET c == pc[w].chapter IN
    /\ Step(w, "start") /\ UNCHANGED log
    /\ IF ~Readable("runs") THEN Return(w)
       ELSE IF ~Started(c) THEN At(w, "create")
       ELSE IF Current(c).state = "awaiting_readiness_approval" THEN At(w, "audit")
       ELSE Viewed(w, Current(c).state)

CreateRun(w) ==
    /\ pc[w].at = "create"
    /\ Checkpoint(w, Initial(pc[w].chapter), [pc[w] EXCEPT !.at = "audit"])

\* A blocked audit, or one that fails, leaves the run where it is.
Audit(w) ==
    /\ Step(w, "audit") /\ UNCHANGED log
    /\ IF GatePassed THEN At(w, "ready") ELSE Viewed(w, "awaiting_readiness_approval")

Ready(c) == Advance(Initial(c), "readiness_approved", <<>>)

\* The workspace starts runs without an owner of the engagement: they stay here.
ApproveReadiness(w) ==
    /\ pc[w].at = "ready"
    /\ Checkpoint(w, Ready(pc[w].chapter), After(w, "project"))

\* project_chapter_locked, which takes no lock: the plan activated last
Project(w) ==
    LET acts == SelectSeq(log["engagement"].recs, LAMBDA x : x.type = "plan_activation") IN
    /\ Step(w, "project") /\ UNCHANGED log
    /\ IF Readable("engagement") /\ acts # <<>>
       THEN Goto(w, Holding(w, "propose", acts[Len(acts)].body))
       ELSE Return(w)

ProposeDirection(w) ==
    /\ pc[w].at = "propose"
    /\ Checkpoint(w, Advance(Ready(pc[w].chapter), "director_proposed", <<pc[w].found>>),
                  Job(w, "review"))

\* The run may have moved on since start looked at it.
ReadReview(w) ==
    LET c == pc[w].chapter IN
    /\ Step(w, "review") /\ UNCHANGED log
    /\ IF Readable("runs") /\ Started(c) /\ Current(c).state = "director_proposed"
       THEN Goto(w, Holding(w, "record", Current(c)))
       ELSE Return(w)

\* The review carries the reference of the checkpoint as the hash of the plan.
ReviewOf(w) == Item("engagement_review", <<pc[w].chapter>>,
                    [plan |-> pc[w].found.refs[1], artifact |-> pc[w].artifact])

\* Mutant: the checkpoint does not wait for the record.
AppendReviewLater(w) ==
    /\ Step(w, "record") /\ UNCHANGED log
    /\ At(w, "reviewed")

AppendReview(w) ==
    LET r == ReviewOf(w) IN
    /\ pc[w].at = "record" /\ UNCHANGED <<evidence, begun, clients>>
    /\ IF ~Readable("engagement") \/ (SameKey("engagement", r) # {} /\ r \notin Records("engagement"))
       THEN Return(w) /\ UNCHANGED <<log, crashes>>
       ELSE IF r \in Records("engagement") THEN At(w, "reviewed") /\ UNCHANGED <<log, crashes>>
       ELSE \/ Write("engagement", r) /\ At(w, "reviewed") /\ UNCHANGED crashes
            \/ /\ crashes < MaxCrashes /\ crashes' = crashes + 1
               /\ WriteTorn("engagement", r) /\ Return(w)

\* load_exact reads the review once more.
CheckpointReview(w) ==
    /\ pc[w].at = "reviewed" /\ Readable("engagement")
    /\ Checkpoint(w, Advance(pc[w].found, "engagement_reviewed", <<ReviewOf(w).body>>),
                  After(w, "fulfil"))

\* Mutant: a run that ended incomplete is answered with its view, like one that was completed.
ReadAnyEnd(w) ==
    LET c == pc[w].chapter IN
    /\ Step(w, "fulfil") /\ UNCHANGED log
    /\ IF ~(Readable("runs") /\ Started(c)) THEN Return(w)
       ELSE IF Current(c).state \in {"fulfillment_recorded", "fulfillment_incomplete"} THEN Goto(w, After(w, "approve"))
       ELSE IF Current(c).state = "engagement_reviewed" THEN Goto(w, Holding(w, "evidence", Current(c)))
       ELSE Return(w)

\* A run that was completed is answered with its view; any other that does not wait for its
\* fulfilment raises, one that ended incomplete for one.
ReadFulfilment(w) ==
    LET c == pc[w].chapter IN
    /\ Step(w, "fulfil") /\ UNCHANGED log
    /\ IF ~(Readable("runs") /\ Started(c)) THEN Return(w)
       ELSE IF Current(c).state = "fulfillment_recorded" THEN Goto(w, After(w, "approve"))
       ELSE IF Current(c).state = "engagement_reviewed" THEN Goto(w, Holding(w, "evidence", Current(c)))
       ELSE Return(w)

\* ContractFulfillmentReviewer.append without records: a line of the compact log
AppendCompact(w) ==
    LET r == [contract |-> pc[w].chapter, artifact |-> pc[w].artifact] IN
    /\ pc[w].at = "evidence" /\ pc[w].payload.compact
    /\ UNCHANGED <<evidence, begun, clients>>
    /\ IF ~Readable("compact") THEN Return(w) /\ UNCHANGED <<log, crashes>>
       ELSE IF r \in Records("compact") THEN At(w, "evaluate") /\ UNCHANGED <<log, crashes>>
       ELSE \/ Write("compact", r) /\ At(w, "evaluate") /\ UNCHANGED crashes
            \/ /\ crashes < MaxCrashes /\ crashes' = crashes + 1
               /\ WriteTorn("compact", r) /\ Return(w)

\* With records: one append after the other; one that is refused ends the operation.
AppendRecord(w, r) ==
    LET states == AppendStates(evidence, r) IN
    /\ pc[w].at = "evidence" /\ r \in pc[w].payload.records
    /\ UNCHANGED <<log, begun, clients>>
    /\ \/ /\ ~(Acceptable(evidence) /\ Takes(evidence, r))
          /\ Return(w) /\ UNCHANGED <<evidence, crashes>>
       \/ /\ Acceptable(evidence) /\ Takes(evidence, r)
          /\ evidence' = states[Len(states)] /\ UNCHANGED crashes
          /\ Goto(w, [pc[w] EXCEPT !.payload.records = @ \ {r}])
       \/ /\ Acceptable(evidence) /\ crashes < MaxCrashes /\ crashes' = crashes + 1
          /\ \E i \in DOMAIN states : evidence' = states[i]
          /\ Return(w)

AppendedAll(w) ==
    /\ Step(w, "evidence") /\ ~pc[w].payload.compact /\ pc[w].payload.records = {}
    /\ At(w, "evaluate") /\ UNCHANGED log

\* Given a contract and metadata the evidence in force decides, otherwise the caller's word.
\* active asks the store only when the compact log says nothing of the contract, and takes an
\* error of the store for no records; the evaluation does not.
EvaluateEvidence(w) ==
    LET p == pc[w].payload
        legacy == \E r \in Records("compact") : r.contract = pc[w].chapter
        result == Evaluate(ActiveRecords(evidence, pc[w].chapter), p.metadata)
        complete == IF p.checked THEN result = "fulfilled" ELSE p.claimed
    IN
    /\ pc[w].at = "evaluate" /\ UNCHANGED <<log, bounds>>
    /\ evidence' = IF (p.checked \/ ~legacy) /\ Readable("compact") /\ Acceptable(evidence)
                   THEN Redone(evidence) ELSE evidence
    /\ IF Readable("compact") /\ (p.checked => Acceptable(evidence))
       THEN At(w, IF complete THEN "complete" ELSE "incomplete")
       ELSE Return(w)

Completed(w) == Advance(pc[w].found, "fulfillment_recorded", <<pc[w].chapter, pc[w].artifact>>)

Complete(w) == pc[w].at = "complete" /\ Checkpoint(w, Completed(w), After(w, "approve"))

\* run_chapter would not look at this view either, but what it reports always completes.
Incomplete(w) ==
    /\ pc[w].at = "incomplete"
    /\ Checkpoint(w, Advance(pc[w].found, "fulfillment_incomplete", <<pc[w].artifact>>), After(w, "approve"))

\* StateChangeApprovalService.approve and materialize: the candidate is the artifact's metadata.
AppendState(w, r, next) ==
    /\ UNCHANGED <<evidence, begun, clients>>
    /\ IF ~Readable("state") \/ (SameKey("state", r) # {} /\ r \notin Records("state"))
       THEN Return(w) /\ UNCHANGED <<log, crashes>>
       ELSE IF r \in Records("state") THEN Goto(w, next) /\ UNCHANGED <<log, crashes>>
       ELSE \/ Write("state", r) /\ Goto(w, next) /\ UNCHANGED crashes
            \/ /\ crashes < MaxCrashes /\ crashes' = crashes + 1
               /\ WriteTorn("state", r) /\ Return(w)

ApproveState(w) ==
    /\ pc[w].at = "approve"
    /\ AppendState(w, Item("decision", <<pc[w].chapter>>, [state |-> pc[w].artifact]),
                   [pc[w] EXCEPT !.at = "materialize"])

Materialize(w) ==
    /\ pc[w].at = "materialize"
    /\ IF Readable("state") /\ Item("decision", <<pc[w].chapter>>, [state |-> pc[w].artifact]) \in Records("state")
       THEN AppendState(w, Item("materialization", <<pc[w].chapter>>, [state |-> pc[w].artifact]), Idle)
       ELSE Return(w) /\ UNCHANGED <<log, evidence, bounds>>

\* An unreadable log raises wherever a step needs it; a process may also just die.
Raise(w) ==
    /\ pc[w].at \in {"create", "ready", "propose", "reviewed", "complete", "incomplete"}
    /\ ~Readable("runs") \/ (pc[w].at = "reviewed" /\ ~Readable("engagement"))
    /\ Return(w) /\ UNCHANGED <<log, evidence, bounds>>

Crash(w) ==
    /\ pc[w] # Idle /\ crashes < MaxCrashes /\ crashes' = crashes + 1
    /\ Return(w) /\ UNCHANGED <<log, evidence, begun, clients>>

WorkerStep(w) ==
    \/ ReadStart(w) \/ CreateRun(w) \/ Audit(w) \/ ApproveReadiness(w) \/ Project(w)
    \/ ProposeDirection(w) \/ ReadReview(w) \/ AppendReview(w) \/ CheckpointReview(w)
    \/ ReadFulfilment(w) \/ AppendCompact(w) \/ (\E r \in Evidence : AppendRecord(w, r)) \/ AppendedAll(w)
    \/ EvaluateEvidence(w) \/ Complete(w) \/ Incomplete(w) \/ ApproveState(w) \/ Materialize(w)
    \/ Raise(w)

ClientStep ==
    \/ \E p \in Plans, t \in Texts : ProposePlan(p, t) \/ DecidePlan(p, t) \/ ActivatePlan(p, t)
    \/ \E c \in Chapters : ReviewOpening(c) \/ AppendReconciliation(c)
    \/ \E e \in Expectations, f \in {"absent", "open"}, t \in {"open", "paid"} : ProposeTransition(e, f, t)
    \/ \E e \in Expectations : MaterializeTransition(e)
    \/ PersistAudit
    \/ \E a \in OfType("readiness", "audit") : ApproveAudit(a)
    \/ \E c \in Chapters, q \in Texts : AppendIntent(c, q) \/ AppendReceipt(c, q)
    \/ \E c \in Chapters, a \in Artifacts : AppendQuality(c, a)
    \/ \E r \in Evidence : AppendEvidence(r)

Next ==
    \/ \E w \in Workers :
         \/ WorkerStep(w) \/ Crash(w)
         \/ \E c \in Chapters, a \in Artifacts :
               \/ RunChapter(w, c, a) \/ StartRun(w, c, a) \/ RecordReview(w, c, a)
               \/ \E p \in Payloads : RecordFulfilment(w, c, a, p)
    \/ ClientStep

Spec == Init /\ [][Next]_vars

------------------------------------------------------------------------------
(* Properties                                                                *)

\* A run is one chain of legal transitions, whoever wrote its checkpoints: each names the
\* one before it, and no number is taken twice (chapter_run_checkpoint_store.py:10).
RunsAreChains ==
    LET recs == log["runs"].recs IN
    \A i \in DOMAIN recs :
        LET earlier == {k \in Scoped(recs[i].chapter) : k < i} IN
        IF earlier = {} THEN recs[i] = Initial(recs[i].chapter)
        ELSE LET b == recs[Max(earlier)] IN
             /\ recs[i].seq = b.seq + 1 /\ recs[i].prev = <<b.state, b.refs>>
             /\ b.state \in DOMAIN NextStates /\ recs[i].state \in NextStates[b.state]

\* A checkpoint of a review refers to a review that is recorded, and that was made of the
\* projection that the checkpoint before it directed the run by, wherever a process died
\* (orchestrator:46).
ReviewedIsRecorded ==
    \A x \in Records("runs") : x.state = "engagement_reviewed" =>
        /\ Item("engagement_review", <<x.chapter>>, x.refs[1]) \in Records("engagement")
        /\ x.refs[1].plan = x.prev[2][1]

\* The evidence in force in the first n records, said without the store's operators.
InForce(n, c) ==
    {evidence.recs[i] : i \in {j \in 1..n : /\ evidence.recs[j].contract = c
                                            /\ \A k \in 1..n : evidence.recs[k].supersedes # evidence.recs[j].id}}

\* Whoever completes a run against its contract: at some moment there was good evidence in force
\* for every leaf, and none that is stale, though others append and supersede between the
\* reading of the evidence and the checkpoint (orchestrator:84, contract_fulfillment.py:129).
FulfilledOnEvidence ==
    [][\A x \in Records("runs")' \ Records("runs") : x.state = "fulfillment_recorded" =>
        \E w \in Workers :
            /\ pc[w].at = "complete" /\ x = Completed(w)
            /\ pc[w].payload.checked => \E n \in 0..Len(evidence.recs) :
                LET f == InForce(n, pc[w].chapter) IN
                /\ \A r \in f : r.good
                /\ \A l \in Fields : \A role \in RolesNeeded(l) : \E r \in f : r.field = l /\ r.role = role
                /\ \A m \in Metadata : \E r \in f : r.field = m /\ r.role = "verification"]_vars

\* Wherever an append or a recovery of the evidence dies, the next one accepts the files
\* (contract_fulfillment_store.py:73).
EvidenceRecoverable == Acceptable(evidence)

\* The state of a chapter is approved only for a run that was completed, and one that ended
\* incomplete never gets there: the view that run_chapter ignores (chapter_production_composition
\* .py:19) is of a completed run, whoever else completed or ended it in between, or the call raises
\* (phase-e design 2026-08-22, lines 376, 478).
StateComesLast ==
    \A x \in Records("state") :
        \E c \in Chapters : x.id = <<c>> /\ Started(c) /\ Current(c).state = "fulfillment_recorded"

\* An expectation has one transition, right after the decision that names the head it was
\* made for, so nothing was written in between (reader_engagement_store.py:168).
TransitionsFollowDecisions == DecidedFirst(log["engagement"].recs)

\* The design (quality-gate-design.md:368): a revised artifact goes through a new run, so the
\* artifact a run ends with is the one that was reviewed in it.
FulfilledArtifactIsReviewed ==
    \A x \in Records("runs") : x.state = "fulfillment_recorded" => x.refs[2] = x.prev[2][1].artifact
================================================================================
