# Verification of Create-OS

Create-OS (`creative_os/`) runs the production of long novels: people approve a
narrative contract for each chapter, a language model writes the chapter under that
contract, and people review, edit and publish what it wrote.  Almost everything is
a file under the project's directory, shared by several processes (a web server,
command-line scripts, writer runs), so what makes the system correct is mostly the
order in which files are written, the locks around them, and what a process finds
after another one died.

This directory holds TLA+ models of that, the TLC runs that check them and the
proofs that TLAPS checks.  Paths below are relative to `creative_os/`, designs and
plans to `docs/superpowers/`.

## 1. Inventory

### 1.1 Authority over a chapter contract

| component | state | operations | talks to |
|---|---|---|---|
| **Contract lifecycle coordinator** `domains/contract_lifecycle.py` | one memory item (envelope) per version, the current pointer, `.prepare.json` and revision authority of each replacement, one switch journal per replacement | `create_initial_candidate`, `activate_initial`, `create_replacement_candidate`, `switch_replacement`, their `recover_` twins, `read_pointer`, `load_current` | memory store, record store, source resolver, authority lock |
| **Project authority lock** `domains/project_authority.py` | a re-entrant thread lock and a flock on `.project-authority.lock` | `project_authority_lock` | taken by everything in this table and by the draft store |
| **Contract record store** `domains/contract_record_store.py`, `contract_record_filesystem.py` | a record file and a journal for each baseline, approval, review, disposition and continuation authorization; command receipts | `save_*`, `load_*`, `find_exact`, `find_exact_continuation_authorization`, `recover` | read by the coordinator and the admission |
| **Review and gate** `domains/contract_review.py`, `contract_issue.py` | none | `validate_reviewer_gate` | called before an activation and before an admission |
| **Review issue command** `domains/review_issue_command.py`, `workspace_review_command.py` | receipts in the record store | `accept_review_issue` | record store, event sink, command boundary |
| **Writer admission** `domains/writer_admission.py` | grants and tokens in memory, signed with a key of the process | `pre_admit`, `validate_grant_for_context`, `finalize_admission`, `validate_token` (with a handoff), `issue_restricted_continuation_token` | everything above; the writers' exits run inside it |
| **Approval policy, revision request, preflight, causality, baseline** `domains/contract_approval.py`, `contract_revision.py`, `contract_preflight.py`, `narrative_causality.py`, `contract_baseline*.py` | none | pure validation of one record or decision; the resolver reads source files | called by the coordinator |

Hard behaviour: a crash between any two of the seven or eight durable writes of an
activation, a revision or a switch; retries of a half-done transaction with the same
or another request; records that arrive between the check and the use; a writer that
runs for minutes under a contract that others may replace.  Correct means: readers
always find exactly one current contract, it is one that people approved and reviewed,
versions follow one another and never change their text, whatever was begun can be
finished, and nothing is written under a contract that is not the admitted one.

### 1.2 The workspace

| component | state | operations | talks to |
|---|---|---|---|
| **Command boundary** `workspace_command.py` | a results file of idempotency keys, its exclusive lock file | `CommandBoundary.execute`, `FileCommandResultStore.reserve/complete/release` | every write of the web server goes through it |
| **Projections** `projection/`, `workspace_refresh.py`, `workspace_query.py` | a journal of refreshes, a snapshot bundle and its head | `refresh`, `retry`, `publish`, `query` | called after an accepted command; reads every authoritative file |
| **Writer drafts** `writer_draft_store.py`, `writer_command.py` | a JSONL file of drafts per chapter, the formal chapter | `save`, `restore`, `promote` | command boundary, authority lock |
| **Writer agent** `agent_runtime.py` | jobs of a thread pool | `submit`, `_run` | drafts, without the boundary |
| **Memory store and its review** `memory/store.py`, `memory/approval.py` | `memory.json`, revisions, an audit file | `add_candidate`, `add_immutable`, `replace`, `save_revision`, `approve/reject/archive` | the coordinator keeps its envelopes in it |
| **Web workspace, consoles, DTOs, scripts** `web_workspace.py`, `workspace_*.py`, `console_dashboard.py`, `web/` | none | presentation and routing | all of the above |

Hard behaviour: threads of one server and several processes with three kinds of locks
(flock, exclusive lock files, none at all); a request repeated while it runs, after it
ran, or after the server died; a version checked before the lock and used after it; lock
files nobody removes; appends that are torn by a crash.  Correct means: a key's command
runs at most once and its answer is final, nobody's text is overwritten unread, an
accepted write survives, every request is answered.

### 1.3 Production of chapters

| component | state | operations |
|---|---|---|
| **Continuation runner, batch runner, pipelines** `novel_continuation_runner.py`, `domains/novel_continuation.py`, `batch_runner.py`, `production.py`, `pipeline.py` | contexts, drafts, reviews and final chapters as files, an event log | prepare a run, write one chapter with bounded attempts, promote a passing draft |
| **Chapter production orchestrator** `domains/chapter_production_orchestrator.py`, `chapter_run_checkpoint*.py`, `production_readiness*.py`, `state_change_approval.py`, `writer_execution_authority_store.py` | logs of checkpoints, readiness and execution records, each with its own files and order of writes | `run_chapter`, `record_engagement_review`, `record_fulfillment`, appends and `recover` |
| **Reader engagement** `domains/reader_engagement_*.py`, `web_novel_quality*.py` | a log of plans, decisions, expectations and transitions | append candidates, activate a plan, materialize a transition with the expected head |
| **Contract fulfillment** `domains/contract_fulfillment*.py` | evidence records that supersede one another, a head, a redo journal | `append`, `active_records`, `recover`, the evaluator |
| **Publication** `domains/publication_*.py`, `runtime/publication_*_store.py`, `target_chapter_grouping*` | plans and decisions, length dispositions, manifests and checkpoints, the active edition; archive and edition directories | append, approve, recover, `activate_verified_manifest`; snapshot, render, merge, publish |
| **State memory** `domains/novel_state_store.py`, `memory/` | memory items, revisions, audit, snapshots of subjects | add, approve, reject, revise; `materialize`; retrieval and context |
| **Narrative contract rules** `domains/narrative_decision.py`, `narrative_codec.py`, `narrative_evidence.py`, `contract_preflight.py`, `contract_revision.py`, `contract_approval.py` | none | decode four stored forms, preflight, diff and re-approval |
| **POV strategy** `domains/pov_strategy_*.py`, `runtime/pov_strategy_store.py` | candidates, status and selections | `append_candidate`, `set_status`, `append_selection` |
| **Task runner, event log** `runtime/runner.py`, `runtime/events.py` | an append-only event file | `execute`, `append` |
| **Narrative director and semantics; validation runtime; import and export; LLM client** | mostly none | construction of values, prompts, text heuristics, file conversion |

Hard behaviour: logs of seven kinds that differ in which file is written first and which is
read later; a run of the orchestrator that is called again after a death anywhere; evidence
that changes between its check and its use; directories that take each other's place by
rename; sources that are edited while they are read and copied; the same bytes judged
by two components with two rules.  Correct means: what a crash leaves is accepted by the
next call, a chapter's state is approved last and on evidence, nothing of an archive is
lost, doubled or replaced by another text, and what people or models read is what was
approved.

`PROJECT.json` lists every component with its status, and under `hazards` what in this
code is hard to test, at its line.

## 2. Modules

State machines; `^` means "refines" or "extends" the one above:

```
CurrentContract      abstract: one current, approved, immutable contract
  ^ refines
ContractLifecycle    the coordinator's files and transactions
  ^ extends
WriterAdmission      grants, tokens, exits over the same contract    -- _proofs, of both

RecordLog            abstract: a log of bound records that only grows
  ^ refines
ContractRecordStore  record files, journals, recovery, bindings      -- _proofs, also of
                     RuleProperties and ContinuationRules

IdempotentCommands   abstract: a key runs one command, once, with one outcome
  ^ refines
CommandBoundary      the results file, its lock, the boundary
  ^ extends
WriterDesk           drafts, publication, the writer commands, the agent  -- _proofs

ReviewDesk           accept_review_issue: decision, receipt, event   -- _proofs, also of
                     StateMemory and ContextRules

PublicationLog       abstract: append-only logs, and an active entry of them
  ^ refines
PublicationStores    split approvals, dispositions, manifests: their files  -- _proofs
PublicationEditions  archive and edition directories, renames        -- _proofs

AuthorityLogs        the seven append-only logs of a production
FulfillmentEvidence  the evidence store with its redo journal, the evaluator
  ^ both extended by
ChapterProduction    the orchestrator and its owners over all of these logs  -- _proofs

ProjectionRefresh    refreshes, journal, bundle, head, a query       -- _proofs
StateMemory          items, reviewers, revisions, audit; the materialised snapshots
```

Pure rules.  `CaseTable` is a specification with one variable `case`: a behaviour draws one
case of the constant `Cases`, and a rule is an operator that an invariant compares with what
should be true of the case.  `RuleProperties` states what the rules of the first three rows
promise, the last three modules state it themselves; `MCRules` puts all tables into one run.
What form a case must have for a promise to make sense (a list is a list, a size a number) is
said beside the promises and assumed of `Cases` (`CasesAssumption`, `ContextAssumption`,
`ContinuationAssumption`).  The proofs rest on it and TLC evaluates it on the cases.

| module | rules of |
|---|---|
| `PublicationPolicy`, `PublicationPlans` | lengths, dispositions and the hook window; the review of a split plan, source coverage, target manifests |
| `NarrativeCodec`, `ContractRules` | the four stored forms of a contract; preflight, evidence, revision diff and impact, approvals |
| `StoredRecords` | what a record file must say to be read; the order and hashes of a review; the gate |
| `ProjectionFacts`, `ProjectionFiles` | facts read from a project's files, the sections of every projector, the stored snapshot |
| `ContextRules` | retrieval, whether a next chapter may be built, the compiled context |
| `ContinuationRules` | the exit of a continuation run: attempts, and its writes as a sequence a death cuts off |

Every `MC...` module only adds what TLC needs: symmetry sets, small sets of payloads, the
tables of cases.  In each module the definitions that serve as its mutations stand next to
what they mutate (`AnyPointer` before `InitialPointerFree`, `LockIgnored` before `LockFree`,
and so on): no specification uses them.  `PROJECT.json` pairs each property of each passing
run with the mutation that it notices.

### ContractLifecycle

A state is what is on disk.  A version's memory item is `status[v]` and `content[v]`
(its hash); the pointer file is `pointer`; `prepare`, `authority`, `authorityTmp` and
`switch` are the four files of a replacement.  `recorded`, `dispositions` and
`sourcesExact` are what the coordinator reads of the record store and of the source
files.  All operations but `create_initial_candidate` hold the project's lock from
beginning to end, so one program counter `pc` and one `job` (the pointer the
transaction works towards) are enough, and `pc = "idle"` means that the lock is free.

One action is one durable write together with the checks before it:

| code | actions |
|---|---|
| `create_initial_candidate` | `CreateInitialCandidate` |
| `activate_initial`, `recover_initial` | `ActivateInitial`, `ActivateInitialEnvelope`, `WriteInitialPointer` |
| `create_replacement_candidate` and its recovery | `CreateReplacement`; `ReuseAuthority`, `OpenAuthorityTmp`, `RenameAuthority` or `AuthorityRefused`; `NoteAuthorityWritten`; `AddReplacementCandidate`, `KeepReplacementCandidate` or `ReplacementCandidateConflict`; `CommitRevision` |
| `switch_replacement`, `recover_switch`, `_advance_switch_locked` | `PrepareSwitch` or `ResumeSwitch`; `ActivateReplacement`, `NoteActive`, `MovePointer`, `NotePointer`, `ArchiveOld`, `NoteArchived`, `CommitSwitch`; `PointerAlreadyMoved`, `SwitchConflict` |
| record store, editors, the process | `SaveExactRecords`, `SaveDisposition`, `SourcesChange`, `Crash` |

`recover_initial`, `recover_replacement_candidate` and `recover_switch` are the same
code as what they recover, so they are the same actions.  An operation that fails before
its first write changes nothing and is a disabled action.  Reading is a function of
the state: `PointerReadable`, `AuthorityVerified`, `GateReady`.

### ContractRecordStore

`journal[r]` is the state of a record's journal, `files` the records on disk, `returned`
the ones whose `save` returned.  Every operation first recovers (`RecoverFile`,
`RecoverCommit`, `RecoverFails`, `RecoverDone`, in the two phases of `_recover_locked`:
dispositions and continuation authorizations after everything else), then `_save`
validates the binding and writes journal, file and journal (`PrepareJournal`,
`WriteRecord`, `CommitJournal`, or `Refuse`, `ReturnExisting`).  `load`, `find_exact` and
`recover` are `BeginRead`; `Readable`, `Scan` and `FoundAuthorization` are what the finders
answer, the last without recovery, as in the code.  A hash is the value it hashes, so a
record's identity is the record, but for an approval, whose id covers its bindings and not
what it says.

### CommandBoundary and WriterDesk

A request is a thread: `pc[r]` walks through `execute`.  The results file is replaced as a
whole from what a request read of it (`read[r]`), under the lock file `lock`, which is
`"left"` once its process is gone.  `Busy` is the end of the hundred attempts.
`Restart` kills every thread in flight.  `Refresh` is there for handlers that rebuild
projections and is not part of `WriterDesk`.

`WriterDesk` adds the draft file, whose last line may be `torn`, the formal chapter, the
project lock `desk`, and the agent.  `ReadVersion` reads without the lock; `Handle` takes
it and does all that `save`, `restore` and `promote` check; `AppendDraft` and
`WriteFormal` are the writes.

### WriterAdmission

It extends `ContractLifecycle`: `LifecycleStep` is any step of that module, under the
lock where the code takes it.  A run goes through `PreAdmit`, `ValidateGrantForContext`,
`FinalizeAdmission`, then any number of `ValidateToken` ... `ExitReturns`; `PreparationFails`
and `RunEnds` are its ends.  `writing` holds the run whose exit is running inside the
check, with the lock (the handoff of `validate_token`).  The signed hash of the authority
state is the pointer: the approvals, the dispositions and the (empty) set of pending
revisions under it are those of an admissible pointer.  `Authorize` and `Revoke` are the
human's records, `IssueRestrictedContinuationToken` and `ValidateRestrictedToken` the
continuation of a run under a contract that was replaced.  `clock` is time in units in
which a grant lives `Lifetime`.

### ReviewDesk

A request walks through `LoadReceipt`, `FindDispositions`, `SaveDecision`, `SavePending`, `Emit`, `Complete`;
each is one operation of the record store under the project's lock, or the call of the event
sink, which may raise before or after it took the event.  `Restart` kills the threads in
flight, `MovePointer` is a contract switch in between.  `decisions`, `receipts` and `events`
are what is durable.  An event is built anew whenever it is published (`EventOf`), with the id,
trace and decision of the receipt and the time of the moment.

### PublicationStores and PublicationEditions

`records`, `head`, `journal` and (for manifests) `pointer` are the files of the three
stores; an envelope contains its predecessor's hash, so it is represented by the log that ends
with it.  The stores differ in whether they leave, empty or remove their journal, and in
what their recovery accepts; each has its own operators for that.  `PublicationEditions` is
the archiver (`BuildSnapshot` ... `PublishArchive`), who reads the sources, reads them again
and copies them while `WriteSource` edits them, the renderer and the merger, and two
publishers who rename directories without a lock.

### ChapterProduction

A worker is one call: of `run_chapter`, which goes on from step to step by itself and reports
no evidence, or of a step by somebody else (`StartRun`, `RecordReview`, `RecordFulfilment`),
which ends with it.  `Begin` starts it, then `WorkerStep`s each append one record under the
lock, with the checks between them; `pc` holds what the call was given and what it has read.
`Crash` is a death between two appends, or inside one: `CrashedAppends` of `AuthorityLogs`
lists what each store then leaves, the state log that was truncated included, and
`FulfillmentEvidence` the same for the journalled store.  `ClientStep` is everybody else who
appends plans, expectations, audits and evidence.

### ProjectionRefresh and StateMemory

A refresh reads the source versions, the facts and the versions again, one source at a time
(`ReadSource`), builds again when they drifted, then opens, writes, renames and reads back the
bundle through a temporary file whose name all refreshes share; its journal has a lock file
that an unsuccessful refresh removes.  A query
reads the bundle, then the heads of the sources one by one.  A source is a version, and its head
is that version; but the head of the reader engagement covers its records alone, so such a source
(`Journalled`) is appended to in three steps, `BeginAppend`, `ChangeSource`, `EndAppend`, between
which its facts do not verify (`FactsOf`) although its head is as before or already as after.

`StateMemory` has users, who read an item, decide, and
write item, revision and audit as separate files without a lock; and the materialiser, who
reads the active items and opens and writes one snapshot after the other.  `FileOf` is the file of
a subject's snapshot: `_safe` turns every character but letters, digits, `_` and `-` into `_`, so
two subjects may have one file.

### ContinuationRules

The exit of a run holds the project lock, so it is not interleaved: a run is the sequence of
its writes (`ContinueOneChapter`, `PromotePassingDraft`), and a run that died is a prefix.
`write_text` truncates first, so every file is two writes, and so is every line of the event
log.  A text is a sequence of the model's answers, each with a size and perhaps a flaw.  The
context file and the readiness report's wording are left out.  `RunTyped` excludes one run
that the code accepts: `scripts/continue_novel.py --max-attempts 0` asks the model for nothing,
so where no draft lies there the empty text has no issues and is published as passed (3.3).

## 3. What the runs check

| run | module, distinct states | what it shows |
|---|---|---|
| `lifecycle` | ContractLifecycle, 271,000 | the pointer names an ACTIVE item of its own text, an ACTIVE version ahead of the pointer has a journal that a recovery will find, no journal runs ahead of the files, the files of a revision agree, all of it implements `CurrentContract`, and a journalled switch is committed in the end unless its authority drifts or a later switch overtakes it |
| `lifecycle_leftover` | ContractLifecycle, violated | see 3.3 |
| `records` | ContractRecordStore, 48,000 | a scan that succeeds sees exactly the committed records; what a record refers to is committed, and a revoked authorization is never found again; the store implements `RecordLog`; an interrupted save is completed |
| `desk` | WriterDesk, 158,000 | an accepted save is in the file, drafts are one line of versions each made from the one its author had seen, every request is answered; the results file implements `IdempotentCommands` |
| `admission` | WriterAdmission, 3,754,000 | while an exit writes, the contract stays the one it was admitted with; an old contract is written under only with a human's authorization; only drifted sources, drifted dispositions or a candidate keep writers out |
| `review` | ReviewDesk, 3,540,000 | a receipt's decision is stored and answers its command, and a completed one has its event; events with one id name the same decision of the same command, at whatever time |
| `pub_stores` | PublicationStores, 1,213,000 | the three stores with their pointer implement `PublicationLog`: every append and activation happens at once however the process dies; a superseded candidate is never approved again |
| `pub_editions` | PublicationEditions, 2,119,000 | an archive holds what its snapshot says; the edition published last is in place or in the backup |
| `production` | ChapterProduction, 1,200,000 | wherever an append or a recovery of evidence dies the next one accepts the files; state is approved only for a run that was completed, never for one that ended incomplete; a run that is checked is completed only on good evidence in force |
| `projection` | ProjectionRefresh, 6,380,000 | a published bundle was true at one moment, but for what it says does not verify; an answer "fresh" shows no version older than the question |
| `memory` | StateMemory, 3,184,000 | an undisturbed materialisation leaves every snapshot whose file no later subject takes over exactly as the active items say; no snapshot says what no human approved; a context fits its budget |
| `rules` | MCRules, 82,000 cases | the nine promises of the pure rules, below |

The promises of `rules`:

- `ReviewedMigrationHolds`: a plan that its review lets pass partitions the archive, keeps every
  text, and the chapters written from it make a manifest that counts; a chapter that is not
  blocked ends with its hook.
- `DispositionAvailable`: a length asks for a disposition exactly where the store takes one.
- `FinishedChapterPassed`: whatever continuation run died where, and whatever the next one
  made of what it left, a chapter of the canon passed its review, its candidates are of a
  text that passed, and a run that ended left files that agree.
- `StoredFormsReadAgain`: contracts, records and snapshots read as they were stored.
- `ReadyIsGrounded`: a contract that passes the preflight has each causal value from a
  source as it is now.
- `ApprovalsCover`: each value a contract has, or a revision changes or removes, was approved.
- `GateIsDecided`: the gate passes exactly the reviews whose issues were decided, once each,
  and a stored review is never a dead end.
- `SnapshotIsTrue`: a projection shows trouble that the files tell of, and nothing that
  nobody authorized: an expectation is shown only with the candidate, decision and transition it rests
  on, and while no other expectation lacks one of them, whatever plans, reviews and checkpoints
  the same log holds.
- `ContextIsAdmitted`: a context made under a grant holds the granted contract once and no
  other version of it from any source, only approved memory of its scope, within its budget.

### 3.1 Bounds

- *Lifecycle*: three versions are one switch from the first contract and one from a
  contract that was itself switched to, so that a journal can be overtaken; a third text
  lets a retry name a text that is neither the current nor the journalled one.  Two
  actors and one issue give a review no, one and too many dispositions.  One crash can fall
  between any two writes; the theorems of section 4 cover any number.
- *Records*: four records hold a review, its disposition, an authorization and its
  revocation, or two approvals that share an identity; two failures can hit a save and the
  recovery of it.
- *Desk*: two requests with any pair of commands and keys, so that they repeat, conflict
  or overtake one another; three drafts at most; one restart.
- *Admission*: two versions are one replacement under a running writer; one run, since an
  exit excludes everything else; one authorization, for the right or the wrong contract;
  `Lifetime` 2 and a clock to 4.
- *Review*: three requests under two keys, two readable reviews and one that is missing, an
  issue that a person may accept and one that nobody may; one restart, one switch.
- *Publication*: three records in each log, so that a candidate is superseded and decided
  again; two deaths hit an operation and its recovery.  For the directories two migrated
  chapters and a frozen one with two texts, four edits, two groupings, one death.
- *Production*: two workers on one chapter, two artifacts and two plans, two calls of
  production, each of any kind, and two of others, one death.  Two calls are two that race, or a
  repetition after a death; what a third would find is what the theorems are for.
- *Projection*: two refreshes of two sources, the second of which is the reader engagement; one
  change of one of them, one retry, one restart.  With one change a build is repeated once and
  never gives up, so a refresh fails for its temporary file only.  A version stands for what the
  files of a source say: that one is rewritten to what it said before, which its hash does not
  tell from no change, is not modelled.
- *Memory*: two users, two operations, items of two chapters with a list and single values, three
  subjects of which two have one file, and a budget of 15 that two snapshots exceed.
- *Rules*: two archived chapters of three and two paragraphs, every way to put each of them
  into one of two units, an omission or nothing, and nine slips of a plan and of the chapters
  written from it; lengths on both sides of every threshold; contracts in each form with each
  field slipped; every subset of nine memory items.  Continuation: one or two answers of four
  kinds, a death after any write, a second run that continues in the same or another context,
  looks, promotes, or is of another edition, and dies in turn.
- `MaxVersion`, `MaxRecords`, `MaxCrashes`, `MaxTime`, `MaxBegin`, `MaxClient`, `MaxOperations`,
  `MaxEdits`, `MaxWrites`, `MaxMoves` and the draft bound cut off only the behaviours that
  exceed them; they stand in guards under those names.

### 3.2 Fairness

- *Lifecycle*: weak fairness of `Continue` (the process in a transaction goes on until it
  finishes or dies) and strong fairness of `ResumeSwitch` (an operator who finds a journal
  runs `recover_switch` again; the flock lets it in sooner or later, though others take the
  lock in between).  Crashes are bounded, so they end.  `RetriedSpec` adds the same for
  `CreateReplacement`, for the property that fails in spite of it.
- *Records*: weak fairness of `Continue`, and of `BeginRead`: every finder of the system
  recovers first, so the store is recovered as soon as anybody uses it.
- *Desk*: weak fairness of each request's steps (threads of a server that runs), strong
  fairness of `Handle`, which waits for the flock, weak fairness of the agent's write.
  Nothing is assumed of the lock file: a request gives up after its attempts.
- All others: safety only.

Deadlock is checked but in `desk`, `production`, `pub_stores`, `pub_editions` and `memory`,
where everybody may be done at the bounds, and in `rules`, where a case has no next step.

### 3.3 Where the code and its documents, or two parts of the code, disagree

**`lifecycle_leftover`** is a run: `_write_revision_authority` opens its temporary file
exclusively and a crash leaves it behind, so every retry of the revision fails.  The design
(`specs/2026-08-20-narrative-director-chapter-contract-approval-design.md:474`) asks for a
deterministic recovery after a fault.

The following are definitions of the modules that no run lists; put into the `.cfg` of the
run they are refuted by TLC:

- `ContractLifecycle!CommittedHistoryArchived`: a switch that crashed after the pointer moved
  can be overtaken by the next revision; its retry is then refused and the version it was to
  archive stays ACTIVE for good (the same design, line 306).
- `ContractRecordStore!StoreRecovers`: a revocation that carries the authorization id it
  revokes is accepted by `save` and rejected by every later recovery.
- `WriterDesk!OvertakenSaveIsConflict`: a save overtaken between the boundary's version check
  and the store's own is answered `command_outcome_unknown`, and its key is never free again.
- `WriterAdmission!NoRevisionPending`: a switch that died after activating the new item has no
  candidate, so chapters are started under the old contract while its replacement is half done
  (line 377: no revision may be pending).
- `ReviewDesk!NoFactTwice`: two requests for one issue both save a decision when both looked
  before either wrote.
- `PublicationEditions!OnlyApprovedGroups`: target texts are rendered from groups that nobody
  approved (`specs/2026-08-28-publication-chapter-split-migration-design.md`, 5.2).
- `ReviewDesk!RepublishedUnchanged`: sinks get an event at least once and consumers drop a second
  one by its id (`domains/review_issue_command.py:111`), but an event that is published again is
  built again with another `occurred_at` (`:303`): two consumers may keep different ones.
- `ChapterProduction!FulfilledArtifactIsReviewed`: `run_chapter` called again with another
  artifact ends a run whose review was of the first
  (`specs/2026-08-22-phase-e-web-novel-production-quality-gate-design.md:368`).
- `ProjectionRefresh!ReceiptAlwaysPublished`: two refreshes share the temporary file, so a
  journal row of success may be of a bundle that never was in place under that refresh.
- `ProjectionRefresh!FreshIsVerified`: a drift of the sources must show as stale
  (`specs/2026-09-01-workspace-query-command-boundary-design.md`, lines 17 and 35), but the head of
  the reader engagement is the hash of its records (`projection/filesystem_source.py:49`), while
  reading them fails as long as a journal is there or the head file is behind
  (`domains/reader_engagement_store.py:215-244`).  A bundle built in the middle of an append has the
  heads that hold after it and shows a broken chain: queries go on calling it fresh.
- `StateMemory!EverySubjectIsLoaded`: two subjects of one kind whose names differ only in characters
  that `_safe` replaces (`domains/novel_state_store.py:61`, `:209`) have one snapshot file.  The one
  written first is lost with every run.

Read while modelling, in no run:

- A server that dies with the lock file of the command results leaves it for good
  (`workspace_command.py:188`): every later command is answered `command_store_busy` until someone
  deletes it.  `EveryRequestAnswered` holds, as that is an answer.  A draft line cut in two
  (`writer_draft_store.py:61`) makes every later read of the chapter's drafts raise.
- A run that dies between the checkpoint of its readiness and that of its direction
  (`domains/chapter_production_orchestrator.py:36`), or that the web workspace starts, which has no
  owner of the engagement, stays at `readiness_approved`: `start` goes on from the first state only
  (`:29`) and every later call raises.  What a run is completed against is not bound together: the
  metadata need not be those of the artifact whose hash is recorded (`:85-97`).
  `scripts/produce_civilization_chapter.py` approves state candidates with ids of its own and no
  run (`:561`); `StateComesLast` is about the ones of `run_chapter`.  The state log is rewritten in
  place: with no head file yet, a death after the truncation leaves an empty log that nothing tells
  from a new one (`domains/state_change_approval.py:23`).
- `OperationsSnapshot.failed_count` looks for "fail" where the status is "failed"
  (`workspace_dto.py:79`); a failed chapter with issues shows as blocked by nothing
  (`projection/projectors/chapters.py:72`); `ReviewIssueAccepted` (`projectors/quality.py:16`)
  is no `EventType`, so the row never appears; the gate's chapter number ignores hyphens
  (`projection/filesystem_source.py:395`, `chapters.py:137`); a blank hook status or chapter id
  makes a publish fail.
- Accepting an issue of the current review changes the dispositions an admission compares, so
  writers are refused until the contract is activated again (`domains/writer_admission.py:107`).
  A repeat of the command after the pointer moved is rejected, so a pending receipt stays
  pending.  A refresh that loses the lock file removes the winner's in its `finally`.
- Memory: two authors of one item lose one of two approved texts (`memory/store.py:104`); a
  death between item and audit leaves a decision without a line (`memory/approval.py:33`);
  snapshots are stale until the next run (`domains/novel_state_store.py:84`), and one of a
  subject nobody mentions any more stays for good.
- Event log: two processes that append give two lines one sequence number, after which the
  log is unreadable for good (`runtime/events.py:69`, `:126`); so does a torn line.  The runner
  emits a success and then a failure if its sink raises.
- POV store: a death before the first event makes `list()` raise (`pov_strategy_store.py:36`);
  `append_selection` revives a superseded candidate (`:61`).
- Retrieval cuts to sixteen items before it filters (`domains/novel_continuation.py:118`).
- Continuation: `max_attempts=0` publishes an empty chapter as passed; a model that fails at
  the first call overwrites an earlier draft, even a passed one, with an empty text; a death
  between draft and review lets the next run extend a draft that the old review was not about
  (it is reviewed again, so nothing unreviewed gets out); a death inside the chapter's write
  leaves a torn chapter that the next preparation takes for canon; a death before
  `save_chapter_candidates` leaves the candidates missing for good, and rewriting a chapter
  keeps the first text's candidates.  `scripts/continue_novel.py` calls the exits with an
  older signature.
- The preflight compares engagement obligations with a causality result when that is a dict
  (`contract_preflight.py:142`), which it never is, so they are not compared.  A scene may have an
  information or a state change (`narrative_decision.py:439`), but the codec reads only scenes
  with both (`narrative_codec.py:650`): one that was built with one of them is written and not
  read again.

## 4. What is proved

TLAPS checks the following for every value of the constants that fits the modules'
assumptions, which TLC evaluates on every run.  They are of three kinds: bounds are naturals,
a lifetime or a number of attempts is positive; constants are what their comments say (a policy
is one the code accepts, the commands are among those that can be asked for, frozen chapters are
not migrated, the text the agent generates is a text); and what stands for nothing (`None`,
`NoFile`, an unreadable file in `Broken`) is not a value of the other kind, a text, a receipt, a
record, a snapshot, a sequence of entries, the id of a piece of evidence.  Production starts with
logs that other owners wrote, in which a transition stands behind its decision, and no run or
state yet.  The memory has finitely many items with numbered ids, lists that are sequences, and
snapshots that have a size; a case of the rules has the form its promise speaks of (section 2).
Nothing is assumed of the number of processes, records, texts, cases or crashes.

Whatever is computed over a sequence or a set is defined by a fold or a recursive function, and
what it makes for every input is proved by least counterexample: of the numbers (`LeastNumber`,
`FirstFailure`) or finite sets for which it would be wrong there is a least one, and one step of
the recursion shows that there is none.

**`WriterAdmission_proofs`**, first about `ContractLifecycle`: `LifecycleTypeOK`,
`PointerAlwaysActive`, `ArchivedOnlyBehindPointer`, `GateAtEveryMove`,
`LifecycleImplementsCurrentContract` (the refinement of `CurrentContract`),
`ActiveAheadJournalled`, `JournalsTruthful` and `RevisionFilesAlwaysAgree`.  None of the invariants is inductive alone.  The
invariant is `IInv == TypeOK /\ Files /\ Jobs /\ JobVerified`:

- `Files` is about the disk between transactions: the pointer's target is ACTIVE, archived
  versions are behind it, every version up to it has a text, and a switch journal binds
  the pointers of two neighbouring versions.  `MovePointer` keeps it because its journal's
  old pointer is the current one; `ArchiveOld` because the journal names the version
  before.
- `Jobs` is what a process remembers between two of its writes: at each `pc`, what its
  `job` has in common with the files.  This is what makes a write in the middle of a
  transaction safe without checking everything again.
- `JobVerified` says that the review gate passed with the dispositions the job binds, and
  still does.  It holds because a disposition is saved under the same lock: without
  `RecordLock` a disposition slips in between the check and the pointer.

The refinement needs in addition that a text, once written, is never written again, that
only two actions write the pointer, and that only `SaveExactRecords` approves; each is a
lemma.

The journals need more: `JournalIInv` adds that no version the pointer has reached is a
candidate again, that a journal whose switch is ahead of the pointer finds the pointer it noted
as the old one, and that the last two steps of a switch come after the archive.
`RevisionIInv` adds what prepare journal, authority and candidate say at each step of a
revision.

It then proves that writers and humans add nothing to the
lifecycle (`AdmissionRefinesLifecycle`), so that all of the above holds under them, and
`WriterContractStays`, `OldContractAuthorized`, `AdmissionShortLived` and
`AdmissionBlockedOnlyByDrift`, from `AInv`, which adds to `IInv`:

- `CurrentVerified`: what was verified when the pointer was written still is recorded; the
  pointer's own dispositions satisfied the gate.  `AdmissionBlockedOnlyByDrift` rests on
  it: an admission asks again for what an activation has asked for.
- `StatesArePast`: a token is for the current pointer or for one of an earlier version,
  because pointers only grow (`PointerGrows`).  Hence a restricted token is never for a
  version that is not replaced yet.
- `Holding` and `Deadlines`: which of grant, token and restricted token a run holds, and
  how late each can expire.  A token is issued before its grant expires and a restricted
  token expires with its token, which bounds the chain by two lifetimes.

**`ReviewDesk_proofs`**: `ReviewDeskTypeOK`, `ReceiptsBacked`, `EventsOfOneCommandAgree` and
`ReceiptsFinal`, for any number of requests, keys, results and restarts.  The invariant says
what a thread holds between two operations: what it saw was stored (`SeenStored`), the receipt
it carries is of a stored decision of its own command (`HeldBacked`), and once written is the
one under its key (`HeldStored`); and that receipts and events only say what is stored
(`ReceiptsStand`, `EventsBacked`), so that two events under one id have nothing left to differ in
but the time.  Two threads of one key are the hard case: the second must find the
first one's receipt or be refused.

It then proves of `StateMemory`, for any items, users, contents and subjects:

- `MemoryIsTyped` and `SnapshotsRestOnHumans`, from `MemoryIInv`: an item that is ACTIVE holds a
  text that a human approved (`ActiveIsApproved`), so do the entries a materialiser has read
  (`BuilderHolds`), and every snapshot was made of such entries (`SnapshotsMade`).  A stale write
  may bring back an older file, but it brings the decision that was made on it.
- `SnapshotsStayCurrent`: while `built` says that nothing was written since the reading, the
  entries the builder holds are the active ones and each subject it has passed matches them
  (`BuildingCurrent`).  What remains is what merging computes: of a single value what the latest
  chapter says, of a list all that was said, each once, in the order in which it was said
  (`Says`, `FieldSays`), by induction over the set of entries merged so far.
- `ContextFitsBudget`: taking one snapshot more keeps what is rendered within what is counted.

The naming of the files is any function.  The subjects are written in one order, so of those that
share a file the last keeps it, and a subject that was passed still matches as long as no later one
of its file was (`KeepsItsFile`).

And of `ContextRules`: `ContextsAreAdmitted`.  Retrieval only chooses among the items that
answer the query (`Retrieve` is a function on how many it may still take); the frozen contract is
what is added after every other version was taken out of the knowledge, the working items and the
optional ones; and each memory that is taken is counted.

**`ContractRecordStore_proofs`**: `StoreTyped`, `ScanAlwaysExact`, `BindingsAlwaysHold`,
`ReturnedAlwaysSurvives`, `StoreImplementsLog` (the refinement of `RecordLog`) and
`RejectedOnlyOnTakenId`.  The code recovers before it saves, so at most one journal is
unfinished (`Unfinished`); files and committed journals are then the same when a binding is
checked, and the check still holds when the record is committed (`PreparedBound`).  `IdsApart`
is what the refinement needs: an id never says two things.  `RejectedOnlyOnTakenId` bounds the
damage of a disagreement that section 3.3 describes: a recovery refuses its own files where a
revocation took the id of an authorization, and nowhere else.

The module goes on with the rules.  A behaviour of `TableSpec` draws one case, so each theorem is
a fact about a rule, for every case:

- `StoredFormsAreReadAgain`: what `Encode` writes decodes to the same contract, whichever of the
  four forms it came from; a name fixes the record but for what an approval says of its items.
- `ReadyContractsAreGrounded`, `ApprovalsCoverEverything`: what preflight, diff and approval let
  pass, leaf by leaf, for contracts of any shape.
- `GateIsExactlyDecided`: decisions and the issues that need one are matched one to one, since
  each decision was made on an issue and ids are unique in a review that is stored; a count of
  both then leaves no room for one too many (`FS_` theorems on cardinality).
- `DispositionsAreAvailable`: the two places that compare a length agree for every policy.
- `ReviewedMigrationsHold`: the units and the omissions of a plan that passes cover every paragraph
  once, in order, so the texts of the targets are the archive but for what was omitted; and a
  chapter's hook lies in the tail behind the last break between its paragraphs.
- `FinishedChaptersPassed`: the writes of a run lead the files from stage to stage (`Leads`), and
  writes that lead on are put together (`LeadsOn`, `LeadsAll`, `LeadsTwice`), so that a statement
  about every write holds behind a death after any of them.  What a stage is about is which of
  draft, review, status, chapter and candidates are of one text.  It needs that the text with
  which the attempts end is the text whose issues they report (`RunReviewed`), which is so after
  one attempt and not before the first: that is where `max_attempts=0` came to light.

**`WriterDesk_proofs`**: `DeskTypedAlways`, `HistoryAlwaysLinear`, `AcceptedStaysStored`,
`NothingOverwrittenUnread`, `AlwaysOneRunner`, `SameAnswerAlways` and
`DeskImplementsIdempotency` (the refinement of `IdempotentCommands`).  Two locks carry the
invariant: who has opened the lock file of the results has read what the file holds now
(`LockMine`), so a reservation has one owner (`OwnersReserved`); and who holds the desk is the
only one to append, so what it checked still holds when it writes (`DeskHeld`, `ChecksHold`).
`ResultsHold` says what a stored or carried result promises about the drafts, which only grow.

**`ProjectionRefresh_proofs`**: `RefreshTyped`, `SnapshotAlwaysAMoment`, `FreshAlwaysCurrent`
and `AloneReceiptsAlwaysHold`.  A build reads every source three times, and the versions of a
source only grow: what the three readings found of one source ascends (`ReadingsAscend`), so two
equal outer readings enclose an equal one or, of a source that is appended to, one that did not
verify (`BuildsAgree`), and every bundle that is written, also to a temporary file that another
refresh writes too, is a moment (`MomentsOnly`).  The theorems leave open whether a fresh bundle
verifies, since it need not (3.3).
`AloneReceiptsHold` has an invariant of its own, `AInv`: while refreshes do not overlap, the
active one is the only writer, and the coordinator holds the journal with the row being saved.

**`PublicationEditions_proofs`**: `ArchivesFaithful`, `EditionsTyped` and `EditionsSurvive`.
`ArchiveIInv` says that what the archiver has copied so far is what its snapshot says: each copy
is compared with it, and a chapter that changed in between ends the archiver.  `EditionIInv`
says what lies in the place of an edition while it is renamed away, and while what was put there
is verified (`Replacing`); from it the action property follows rename by rename.

**`PublicationStores_proofs`**: `StoresTyped`, `NeverTakenForTampering`,
`AnsweredAlwaysSurvives`, `SupersededStaysSo`, `StoresImplementPublicationLog` (the refinement
of `PublicationLog`), and `ReviewAndStoreAgree`, about any length and any valid policy.  The
three stores recover by three different rules.  The argument is about one store at a time: its
three files are always at one of four places of an append, nothing under way, the journal
written, the records written, the head written (`FilesStand`), and every step is one of five
moves between them (`StepMoves`), whoever takes it and however often it was begun.  `WriteOf`
shows that each of the three rules recognises each of the places, and none other.  What a
recovery would leave of a log (`Durable`) then changes at one move only, the writing of the
journal, which is the step of the abstract log (`DurableMoves`).  `PointerStands` is the same for
the pointer.  `LogsStand` says that a key is the key of one record and that a migration has a
last candidate: a plan that was overtaken would have to be recorded twice to be current again.

**`ChapterProduction_proofs`**: `EvidenceAlwaysRecoverable`, `StateAlwaysLast`,
`FulfilledAlwaysOnEvidence`, and two that no run repeats, `RunsAlwaysChains` and
`ReviewsAlwaysRecorded`.  No lock is held across two appends, so what a process knows of a run may
be old.  The invariant has three parts:

- `EvidenceStands`: the files are typed, a recovery accepts them, an id is there once, and what a
  record supersedes is there and of its contract.  It holds at every state an append or a
  recovery passes through (`RedoStands`, `AppendStands`), not only where they end.  The last two
  conjuncts are what makes `active_records`, which looks among the records of one contract, agree
  with the evidence in force (`ActiveIsInForce`); and what was in force in the first n records
  stays so (`InForceLasts`).
- `RunsStand`: the checkpoints of a chapter are a chain with a last one, and a final one is the
  last (`FinalIsLast`).  A checkpoint is taken only if it is the first or names the last
  (`InitialFits`, `AdvanceFits`), so one that was built from an old view is refused or already
  there, and a chapter that was completed, or ended incomplete, stays so.
- `Jobs`: what each process knows, said only with what never stops to hold (`Onward`): chapters
  that are started, completed or supported by evidence, and reviews that are recorded.  A call
  that is about to approve knows a completed run, which is `StateComesLast`: `run_chapter` gets past
  the fulfilment only with the view of one, since what it reports completes and an incomplete run
  makes it raise.  A death may lose records of the state, which disturbs none of that.

`TransitionsAlwaysDecided` is proved beside it: every step leaves the engagement log alone, appends
a record that is none of the two, a decision of an expectation that has none, or such a decision
with its transition (`EngagementGrows`), whoever takes it and wherever it dies.

Only model-checked:

- `SnapshotIsTrue`, on the cases of its table: the projectors sort and filter (`SetToSortSeq`,
  `SelectSeq`), render (`ToString`) and decode recursively, with operators that are recursive or
  built in and that the provers cannot unfold.
- The liveness properties `EveryRequestAnswered`, `UnfinishedCompletes` and `SwitchCompletes`, which
  need fairness and ENABLED and are out of the prover's reach; and `PreparedRevisionRecovers`,
  which TLC refutes.

Every other property of a run is stated by a theorem.

## 5. Plan

Done, in this order: the lifecycle, its abstract contract and its proofs; the record store
and its abstract log, with their proofs; the command boundary, its abstract keys and the
writer's desk, with their proofs; the
admission of writers over the lifecycle and its proofs; the review desk and its proofs; the
publication stores, directories and rules, with their proofs; codecs, preflight, approvals and stored records;
production with its logs and evidence, and its proofs; projections, with the proofs of the
refresh; the state memory, the context and the exit of a continuation run; the proofs of the
rules, of the memory and of the exit.

Left, the most useful first:

1. `EventLog`: several appenders of one log, as a state machine with the projection as its
   reader; `PovStrategy`, whose store differs from the other logs in its recovery.
2. The composition of `ReviewDesk` with `WriterAdmission`: what an acceptance does to the
   admission of the current contract.
3. The proposal of a split plan from segments and summaries; the batch runner over
   continuation runs.
4. The projectors of `ProjectionFiles` as folds that can be reasoned about, and the proof of
   `SnapshotIsTrue`.

## 6. Not modelled

- Prompts, text heuristics, the language model, presentation, HTTP routing, import and
  export: they change no state that another component decides upon, or are pure
  functions of text.
- Canonical encoding, hashing and signing: a hash stands for the value it hashes, a MAC for
  the fact that the process issued the token.  A process that restarts has a new key, which
  is why `RunEnds` takes a run's tokens with it.
- The publication of a record by link and unlink on hosts without `renameat2`, and the
  Windows counterpart: the runs model the single-step rename.
- `write_pointer` replaces the pointer file without a sync; a crash of the machine, as
  opposed to the process, may lose the replacement.  The models crash processes.
- `validate_token_for_edition`, which nobody calls.
- POV strategy: its planner scores with weights, and its admission compares files without
  writing.  `validation_runtime.py` is, but for a few calls of the components above, the text
  of fixtures.  The field-by-field checks of the publication codecs and of the engagement
  values, the quality metadata, and how a baseline source is read from its file: values with
  no state.
- The narrative director and the semantic review of a text, the compilers, planners and
  reviewers of one chapter: they build prompts and values around a model's answer.
- The re-entrancy of the project lock: one holder may take it again and does; a model with
  one holder needs no depth.
