----------------------------- MODULE StoredRecords -----------------------------
(***************************************************************************)
(* The records behind the activation of a contract, as they are validated, *)
(* written and read again (contract_baseline.py, contract_review.py,       *)
(* contract_revision.py:43-78, contract_record_store.py:668-1296), and the *)
(* gate of the reviewer (contract_review.py:353-518).                      *)
(*                                                                         *)
(* A hash is what it was computed from, a record's payload is a record     *)
(* with its fields, and a list has its elements in a sequence.  Names,     *)
(* codes and versions that are sorted by are numbers, 0 where the text is  *)
(* blank or the value not of its type.                                     *)
(***************************************************************************)
EXTENDS ContractRules

Sha(h) == h # <<>>
Hash(x) == <<x>>

Filled(x) == x # ""
Slug(x) == x \notin {"", "not a slug"}
VersionText(n) == n \in 1 .. 9999

Precedes(a, b) == \E i \in DOMAIN a : a[i] < b[i] /\ \A j \in 1 .. i - 1 : a[j] = b[j]
\* Sorted and without duplicates.
StrictlySorted(keys) == \A i \in 1 .. Len(keys) - 1 : Precedes(keys[i], keys[i + 1])
Human(actor) == actor \notin {"", "system"}

------------------------------------------------------------------------------
(* The baseline *)

ProfileRole == 4
EntryKey(e) == <<e.role, e.source>>

\* _canonical_entries: one profile, no source twice in a role, in order.
EntriesCanonical(entries) ==
    /\ \A i \in DOMAIN entries :
          entries[i].role \in 1 .. 4 /\ entries[i].source # 0 /\ Filled(entries[i].version) /\ Sha(entries[i].hash)
    /\ Cardinality({i \in DOMAIN entries : entries[i].role = ProfileRole}) = 1
    /\ StrictlySorted([i \in DOMAIN entries |-> EntryKey(entries[i])])

BaselineValid(manifest) == EntriesCanonical(manifest.entries) /\ manifest.fingerprint = Hash(manifest.entries)

------------------------------------------------------------------------------
(* A review *)

\* An evidence check is its code, whether it passed, and its detail.
ChecksCanonical(checks) ==
    /\ checks # <<>>
    /\ \A i \in DOMAIN checks : checks[i][1] # 0 /\ checks[i][3] # 0
    /\ StrictlySorted(checks)

\* The hash of an issue leaves out its id and the hint how to repair it.
IssueHash(issue) ==
    Hash([f \in {"code", "severity", "blocking", "human", "path", "checks"} |-> issue[f]])

IssueValid(issue) ==
    /\ Filled(issue.id) /\ Filled(issue.hint) /\ issue.code # 0 /\ issue.path # 0
    /\ issue.severity \in {"high", "warning", "low"}
    /\ issue.severity = "high" => issue.blocking
    /\ ChecksCanonical(issue.checks)
    /\ issue.evidence = Hash(issue.checks)
    /\ issue.hash = IssueHash(issue)

\* Issues of one path and code are in the order of their hashes, of which nothing is known:
\* reviews that have such issues are left out.
IssuesCanonical(issues) ==
    /\ StrictlySorted([i \in DOMAIN issues |-> <<issues[i].path, issues[i].code>>])
    /\ \A i, j \in DOMAIN issues :
          i # j => issues[i].id # issues[j].id /\ issues[i].hash # issues[j].hash

\* Mutant: of an issue only its hash is covered.
ResultHashOfHashes(result) ==
    Hash([f \in DOMAIN result \ {"hash"} |->
             IF f = "issues" THEN [i \in DOMAIN result.issues |-> result.issues[i].hash] ELSE result[f]])

ResultHash(result) == Hash([f \in DOMAIN result \ {"hash"} |-> result[f]])

ResultIntact(result) ==
    /\ result.assets # <<>> /\ StrictlySorted([i \in DOMAIN result.assets |-> <<result.assets[i][1]>>])
    /\ \A i \in DOMAIN result.issues : IssueValid(result.issues[i])
    /\ IssuesCanonical(result.issues)
    /\ result.hash = ResultHash(result)

ResultValid(result) ==
    /\ Filled(result.id) /\ Filled(result.contract) /\ Filled(result.ruleset)
    /\ result.version >= 1 /\ Sha(result.content) /\ Sha(result.baseline)
    /\ ResultIntact(result)

------------------------------------------------------------------------------
(* Decisions and authorizations *)

DispositionValid(d) ==
    /\ Filled(d.issue) /\ Filled(d.reason) /\ Filled(d.result) /\ d.code # 0 /\ d.path # 0
    /\ Sha(d.hash) /\ Sha(d.evidence) /\ Sha(d.resultHash)
    /\ d.status \in {"accepted", "resolved"}
    /\ Human(d.actor)
    /\ d.decided # 0

Active == "active"
ContinuationValid(a) ==
    /\ \A f \in {"id", "run", "contract", "actor", "reason"} : Filled(a[f])
    /\ Human(a.actor) /\ a.version >= 1 /\ Sha(a.hash)
    /\ a.created # 0 /\ a.expires > a.created
    /\ a.status \in {Active, "revoked"}
    /\ Filled(a.supersedes)
    /\ a.status = Active <=> a.supersedes = No

ApprovalValid(record) ==
    Filled(record.contract[1]) /\ record.contract[2] >= 1 /\ Sha(record.content)
    /\ BaselineValid(record.manifest) /\ RecordValid(record)

------------------------------------------------------------------------------
(* The gate *)

Bindings == {"contract", "version", "content", "baseline", "ruleset", "assets"}
ResultIsCurrent(result, expected) ==
    ResultIntact(result) /\ \A f \in Bindings : result[f] = expected[f]

DispositionMatches(d, result, issue) ==
    /\ DispositionValid(d)
    /\ d.issue = issue.id /\ d.hash = issue.hash /\ d.evidence = issue.evidence
    /\ d.code = issue.code /\ d.path = issue.path
    /\ d.result = result.id /\ d.resultHash = result.hash

NeedsDecision(issue) == issue.severity # "high" /\ (issue.blocking \/ issue.human)

Matches(result, issue, decisions) ==
    {k \in DOMAIN decisions : DispositionMatches(decisions[k], result, issue)}

\* Mutant: decisions that match no issue are ignored.
GatePassedByMost(result, decisions, expected) ==
    /\ ResultIsCurrent(result, expected)
    /\ \A i \in DOMAIN result.issues : result.issues[i].severity # "high"
    /\ \A i \in DOMAIN result.issues :
          NeedsDecision(result.issues[i]) => Matches(result, result.issues[i], decisions) # {}

\* validate_reviewer_gate
GatePassed(result, decisions, expected) ==
    LET required == {i \in DOMAIN result.issues : NeedsDecision(result.issues[i])}
        matches(i) == Matches(result, result.issues[i], decisions)
    IN /\ ResultIsCurrent(result, expected)
       /\ \A i \in DOMAIN result.issues : result.issues[i].severity # "high"
       /\ \A i \in required : Cardinality(matches(i)) = 1
       /\ Cardinality(UNION {matches(i) : i \in required}) = Len(decisions)

------------------------------------------------------------------------------
(* The files of the store *)

ApprovalFields == {"contract", "content", "manifest", "items"}
FieldsOf ==
    [baseline |-> {"contract", "version", "manifest"},
     approval |-> ApprovalFields,
     reviewer_result |-> {"id", "contract", "version", "content", "baseline", "ruleset", "assets", "issues", "hash"},
     disposition |-> {"issue", "hash", "code", "path", "evidence", "status", "reason", "actor", "decided",
                      "result", "resultHash"},
     continuation_authorization |-> {"id", "run", "contract", "version", "hash", "actor", "reason", "created",
                                     "expires", "status", "supersedes"}]
RecordTypes == DOMAIN FieldsOf

\* _decode_payload
Decodable(type, payload) ==
    /\ DOMAIN payload = FieldsOf[type]
    /\ CASE type = "baseline" -> Slug(payload.contract) /\ VersionText(payload.version) /\ BaselineValid(payload.manifest)
         [] type = "approval" -> ApprovalValid(payload)
         [] type = "reviewer_result" -> ResultValid(payload)
         [] type = "disposition" -> DispositionValid(payload)
         [] type = "continuation_authorization" -> ContinuationValid(payload)

\* The parts of a record that must be fit for a file name.
Nameable(type, payload) ==
    CASE type = "baseline" -> TRUE
      [] type = "approval" -> Slug(payload.contract[1]) /\ VersionText(payload.contract[2])
      [] type = "reviewer_result" -> Slug(payload.contract) /\ VersionText(payload.version)
      [] type = "disposition" -> Slug(payload.result) /\ Slug(payload.issue)
      [] type = "continuation_authorization" -> Slug(payload.id)

\* _record_id_for
RecordId(type, payload) ==
    CASE type = "baseline" -> <<payload.contract, payload.version, payload.manifest.fingerprint>>
      [] type = "approval" -> <<payload.contract, payload.content, payload.manifest.fingerprint>>
      [] type = "reviewer_result" -> <<payload.contract, payload.version, payload.hash>>
      [] type = "disposition" -> <<payload.result, payload.issue, payload.hash, Hash(payload)>>
      [] type = "continuation_authorization" -> <<payload.id, Hash(payload)>>

Envelope(type, payload) == [type |-> type, schema |-> 1, hash |-> Hash(payload), payload |-> payload]

\* _validate_envelope: a file is read under the type of its directory and its name.
EnvelopeAccepted(type, name, envelope) ==
    /\ envelope.type = type /\ envelope.schema = 1
    /\ envelope.hash = Hash(envelope.payload)
    /\ Decodable(type, envelope.payload) /\ Nameable(type, envelope.payload)
    /\ name = RecordId(type, envelope.payload)

\* _validate_reviewer_key_space: the decisions on its issues will have names.
KeySpaceValid(result) == Slug(result.id) /\ \A i \in DOMAIN result.issues : Slug(result.issues[i].id)

\* What save_... takes, bindings to other records aside.
StoreTakes(type, payload) ==
    /\ type = "reviewer_result" => KeySpaceValid(payload)
    /\ Decodable(type, payload) /\ Nameable(type, payload)
==============================================================================
