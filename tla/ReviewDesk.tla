------------------------------ MODULE ReviewDesk ------------------------------
(***************************************************************************)
(* accept_review_issue (creative_os/domains/review_issue_command.py): a    *)
(* person accepts an issue that the review of the current contract raised. *)
(* The command keeps a decision record, a receipt under its idempotency    *)
(* key, "pending" before the event is published and "completed" after it,  *)
(* and publishes one event.                                                *)
(*                                                                         *)
(* Each store operation holds the project's lock; nothing holds it from    *)
(* one operation to the next, so requests interleave there.  Requests are  *)
(* threads of the web server, which may die between two operations and is  *)
(* started again.  A repeated request is a request with the same command.  *)
(***************************************************************************)
EXTENDS Naturals, FiniteSets

CONSTANTS Requests,      \* requests of a behaviour, in no order
          Keys,          \* idempotency keys
          Senders,       \* request id and trace id, which a repetition keeps
          Results,       \* reviewer result ids
          Stored,        \* the results that were stored
          Version,       \* the contract version that each result reviewed
          Issues,        \* issues a result may have
          Raised,        \* the issues of each result
          High,          \* issues of severity high
          Words,         \* actor and reason of a decision
          Times,         \* when it is decided, and when its event occurred
          MaxMoves,      \* bound on the commits of another contract version
          MaxCrashes,    \* bound on the restarts of the server
          None           \* no result, no command, no receipt

ASSUME ReviewDeskAssumption ==
    /\ Stored \subseteq Results
    /\ Version \in [Results -> Nat \ {0}]
    /\ Raised \in [Results -> SUBSET Issues]
    /\ High \subseteq Issues
    /\ MaxMoves \in Nat /\ MaxCrashes \in Nat

VARIABLES current,     \* the result that the pointer of the current contract names
          decisions,   \* disposition records; the id of a record is all it says
          receipts,    \* command_receipts.json: what is stored for each key
          events,      \* what the event sink was given
          cmd,         \* the command of each request
          pc,          \* where it is
          held,        \* the receipt it is about to store or to complete
          seen,        \* the decisions it found
          answer,      \* its outcome
          raced,       \* two requests looked for decisions before either had saved
          moves, crashes

vars == <<current, decisions, receipts, events, cmd, pc, held, seen, answer, raced, moves, crashes>>

------------------------------------------------------------------------------
(* Types *)

\* The fingerprint of a command covers all of it, the key included.
ReviewCommands == [key : Keys, sender : Senders, result : Results, issue : Issues, words : Words,
                   version : {Version[r] : r \in Results}]

Decisions == [result : Results, issue : Issues, words : Words, at : Times]

\* A receipt: the fingerprint, the id of the decision, and the state.  The event id is
\* made of the fingerprint.
Receipts == [command : ReviewCommands, decision : Decisions, state : {"pending", "completed"}]
ReviewEvents == [command : ReviewCommands, decision : Decisions, occurred_at : Times]

ASSUME NoneIsNothing == None \notin ReviewCommands /\ None \notin Receipts

ReviewCodes == {"accepted", "reviewer_result_not_found", "current_contract_binding_mismatch",
                "review_issue_not_found", "version_conflict", "idempotency_conflict",
                "reviewer_gate_blocked", "event_publish_failed"}

ReviewTypeOK ==
    /\ current \in Stored
    /\ decisions \subseteq Decisions
    /\ receipts \in [Keys -> Receipts \union {None}]
    /\ events \subseteq ReviewEvents
    /\ cmd \in [Requests -> ReviewCommands \union {None}]
    /\ pc \in [Requests -> {"new", "bind", "load", "find", "save", "pend", "emit", "complete", "done", "dead"}]
    /\ held \in [Requests -> Receipts \union {None}]
    /\ seen \in [Requests -> SUBSET Decisions]
    /\ answer \in [Requests -> ReviewCodes \union {None}]
    /\ raced \in BOOLEAN /\ moves \in 0..MaxMoves /\ crashes \in 0..MaxCrashes

Init ==
    /\ current \in Stored
    /\ decisions = {} /\ events = {}
    /\ receipts = [k \in Keys |-> None]
    /\ cmd = [r \in Requests |-> None]
    /\ pc = [r \in Requests |-> "new"]
    /\ held = [r \in Requests |-> None]
    /\ seen = [r \in Requests |-> {}]
    /\ answer = [r \in Requests |-> None]
    /\ raced = FALSE /\ moves = 0 /\ crashes = 0

Goto(r, step) == pc' = [pc EXCEPT ![r] = step] /\ UNCHANGED answer
Return(r, code) == pc' = [pc EXCEPT ![r] = "done"] /\ answer' = [answer EXCEPT ![r] = code]
SameWorld == UNCHANGED <<current, raced, moves, crashes>>

------------------------------------------------------------------------------
(* The receipts *)

Key(r) == cmd[r].key
SameReceipt(a, b) == a.command = b.command /\ a.decision = b.decision

\* _build_event: the event id, the trace and the decision of the receipt, which may have been
\* stored before; but the time of this building of it.
EventOf(receipt, now) == [command |-> receipt.command, decision |-> receipt.decision, occurred_at |-> now]
Publish(r) == \E now \in Times : events' = events \union {EventOf(held[r], now)}

\* Mutant: the receipt is not compared with the one that is there.
ReceiptReplaced(r, state) == TRUE

\* save_command_receipt refuses a key that holds another fingerprint or receipt.
ReceiptFits(r, state) == receipts[Key(r)] = None \/ SameReceipt(receipts[Key(r)], held[r])

\* A completed receipt stays completed.
SaveReceipt(r, state) ==
    IF state = "pending" /\ receipts[Key(r)] # None /\ SameReceipt(receipts[Key(r)], held[r])
    THEN UNCHANGED receipts
    ELSE receipts' = [receipts EXCEPT ![Key(r)] = [held[r] EXCEPT !.state = state]]

------------------------------------------------------------------------------
(* The command *)

\* A request arrives; the form of its command has been validated.
Arrive(r, c) ==
    /\ pc[r] = "new"
    /\ cmd' = [cmd EXCEPT ![r] = c]
    /\ Goto(r, "bind")
    /\ UNCHANGED <<decisions, receipts, events, held, seen>> /\ SameWorld

\* The review is the one that the current contract was committed with.
Bound(r) == cmd[r].result \in Stored /\ cmd[r].result = current

Bind(r) ==
    /\ pc[r] = "bind"
    /\ IF cmd[r].result \notin Stored THEN Return(r, "reviewer_result_not_found")
       ELSE IF ~Bound(r) THEN Return(r, "current_contract_binding_mismatch")
       ELSE IF cmd[r].issue \notin Raised[cmd[r].result] THEN Return(r, "review_issue_not_found")
       ELSE IF cmd[r].version # Version[cmd[r].result] THEN Return(r, "version_conflict")
       ELSE Goto(r, "load")
    /\ UNCHANGED <<cmd, decisions, receipts, events, held, seen>> /\ SameWorld

\* Mutant: the fingerprint of a stored receipt is not compared.
LoadAnyReceipt(r) ==
    LET stored == receipts[Key(r)] IN
    /\ pc[r] = "load"
    /\ IF stored = None THEN Goto(r, "find") /\ UNCHANGED held
       ELSE /\ held' = [held EXCEPT ![r] = stored]
            /\ IF stored.state = "completed" THEN Return(r, "accepted") ELSE Goto(r, "emit")
    /\ UNCHANGED <<cmd, decisions, receipts, events, seen>> /\ SameWorld

\* A completed command is answered from its receipt, a pending one publishes its event
\* again and is completed.
LoadReceipt(r) ==
    LET stored == receipts[Key(r)] IN
    /\ pc[r] = "load"
    /\ IF stored = None THEN Goto(r, "find") /\ UNCHANGED held
       ELSE IF stored.command # cmd[r] THEN Return(r, "idempotency_conflict") /\ UNCHANGED held
       ELSE /\ held' = [held EXCEPT ![r] = stored]
            /\ IF stored.state = "completed" THEN Return(r, "accepted") ELSE Goto(r, "emit")
    /\ UNCHANGED <<cmd, decisions, receipts, events, seen>> /\ SameWorld

\* Who looked and has not saved yet.
Deciding(r) == {q \in Requests \ {r} : pc[q] = "save"}

FindDispositions(r) ==
    /\ pc[r] = "find"
    /\ seen' = [seen EXCEPT ![r] = {d \in decisions : d.result = cmd[r].result}]
    /\ Goto(r, "save")
    /\ raced' = (raced \/ Deciding(r) # {})
    /\ UNCHANGED <<cmd, decisions, receipts, events, held, current, moves, crashes>>

Decision(r, t) == [result |-> cmd[r].result, issue |-> cmd[r].issue, words |-> cmd[r].words, at |-> t]

\* Mutant: all fields are compared, when it was decided included.
SameToTheSecond(d, e) == d = e

\* _same_disposition: the same decision at another time.
SameDisposition(d, e) == d.issue = e.issue /\ d.words = e.words /\ d.result = e.result

\* The gate asks nothing here that the binding has not asked: it only stops a review that
\* is missing or stale.  A decision that was found is used again.
SaveDecision(r, t) ==
    /\ pc[r] = "save"
    /\ IF cmd[r].issue \in High
       THEN Return(r, "reviewer_gate_blocked") /\ UNCHANGED <<decisions, held>>
       ELSE \E d \in IF \E e \in seen[r] : SameDisposition(e, Decision(r, t))
                     THEN {e \in seen[r] : SameDisposition(e, Decision(r, t))}
                     ELSE {Decision(r, t)} :
                /\ decisions' = decisions \union {d}
                /\ held' = [held EXCEPT ![r] = [command |-> cmd[r], decision |-> d, state |-> "pending"]]
                /\ Goto(r, "pend")
    /\ UNCHANGED <<cmd, receipts, events, seen>> /\ SameWorld

\* Mutant: the event is published before the receipt is stored.
EmitFirst(r) ==
    /\ pc[r] = "pend"
    /\ Publish(r)
    /\ IF ReceiptFits(r, "pending")
       THEN SaveReceipt(r, "pending") /\ Goto(r, "emit")
       ELSE Return(r, "idempotency_conflict") /\ UNCHANGED receipts
    /\ UNCHANGED <<cmd, decisions, held, seen>> /\ SameWorld

SavePending(r) ==
    /\ pc[r] = "pend"
    /\ IF ReceiptFits(r, "pending")
       THEN SaveReceipt(r, "pending") /\ Goto(r, "emit")
       ELSE Return(r, "idempotency_conflict") /\ UNCHANGED receipts
    /\ UNCHANGED <<cmd, decisions, events, held, seen>> /\ SameWorld

\* Mutant: an exception of the sink is ignored.
EmitQuietly(r) ==
    /\ pc[r] = "emit"
    /\ Publish(r) \/ UNCHANGED events
    /\ Goto(r, "complete")
    /\ UNCHANGED <<cmd, decisions, receipts, held, seen>> /\ SameWorld

\* The sink takes the event, or raises, with or without having taken it.
Emit(r) ==
    /\ pc[r] = "emit"
    /\ \/ Publish(r) /\ Goto(r, "complete")
       \/ Publish(r) /\ Return(r, "event_publish_failed")
       \/ UNCHANGED events /\ Return(r, "event_publish_failed")
    /\ UNCHANGED <<cmd, decisions, receipts, held, seen>> /\ SameWorld

Complete(r) ==
    /\ pc[r] = "complete"
    /\ IF ReceiptFits(r, "completed")
       THEN SaveReceipt(r, "completed") /\ Return(r, "accepted")
       ELSE Return(r, "idempotency_conflict") /\ UNCHANGED receipts
    /\ UNCHANGED <<cmd, decisions, events, held, seen>> /\ SameWorld

\* The coordinator commits a contract version with another review.
MovePointer(result) ==
    /\ moves < MaxMoves /\ result \in Stored \ {current}
    /\ current' = result /\ moves' = moves + 1
    /\ UNCHANGED <<decisions, receipts, events, cmd, pc, held, seen, answer, raced, crashes>>

Restart ==
    /\ crashes < MaxCrashes
    /\ crashes' = crashes + 1
    /\ pc' = [r \in Requests |-> IF pc[r] \in {"new", "done"} THEN pc[r] ELSE "dead"]
    /\ UNCHANGED <<current, decisions, receipts, events, cmd, held, seen, answer, raced, moves>>

Step(r) ==
    \/ Bind(r) \/ LoadReceipt(r) \/ FindDispositions(r)
    \/ \E t \in Times : SaveDecision(r, t)
    \/ SavePending(r) \/ Emit(r) \/ Complete(r)

Finished == \A r \in Requests : pc[r] \in {"done", "dead"}

Next ==
    \/ \E r \in Requests : (\E c \in ReviewCommands : Arrive(r, c)) \/ Step(r)
    \/ \E result \in Results : MovePointer(result)
    \/ Restart
    \/ Finished /\ UNCHANGED vars

Spec == Init /\ [][Next]_vars

------------------------------------------------------------------------------
(* Properties *)

\* A receipt refers to a decision that is stored and decides what the command asked, and it
\* is completed only when its event has been published (review_issue_command.py:240-278).
ReceiptsAreBacked ==
    \A k \in Keys : LET stored == receipts[k] IN stored # None =>
        /\ stored.decision \in decisions
        /\ \A field \in {"result", "issue", "words"} : stored.decision[field] = stored.command[field]
        /\ stored.state = "completed" => \E e \in events : SameReceipt(e, stored)

\* Consumers drop events with a known id, which is made of the fingerprint: so whichever event
\* of a fingerprint a consumer keeps, it says whose decision was accepted for which command as
\* every other of them does, and as the stored receipt does.  The time apart: see below
\* (EventSink, "at least once"; review_issue_command.py:111-113, 292-313).
EventsAgree ==
    \A e \in events :
        /\ receipts[e.command.key] # None /\ SameReceipt(e, receipts[e.command.key])
        /\ \A f \in events : f.command = e.command => f = [e EXCEPT !.occurred_at = f.occurred_at]

\* What dropping by the id would need to lose nothing: an event published again under its id
\* is the event published before.  It is built anew, with another occurred_at.
RepublishedUnchanged ==
    \A e, f \in events : f.command = e.command => f = e

\* Requests with one key and one command that are accepted are accepted with one decision,
\* whoever of them was first and whatever died between them.
AcceptedAlike ==
    \A r, q \in Requests :
        answer[r] = "accepted" /\ answer[q] = "accepted" /\ Key(r) = Key(q) =>
            cmd[r] = cmd[q] /\ held[r].decision = held[q].decision

\* Requests that follow each other, under whatever keys and restarts, add no decision that
\* is there already (_same_disposition).
RepeatsAddNothing ==
    ~raced => \A d, e \in decisions : [d EXCEPT !.at = e.at] = e => d = e

\* The plan of this command: a repeated request does not produce a fact again.
NoFactTwice ==
    \A d, e \in decisions : [d EXCEPT !.at = e.at] = e => d = e

\* What a receipt says is final, and so is its completion (save_command_receipt).
ReceiptsAreFinal ==
    [][\A k \in Keys : receipts[k] # None =>
        /\ receipts'[k] # None /\ SameReceipt(receipts'[k], receipts[k])
        /\ receipts[k].state = "completed" => receipts'[k] = receipts[k]]_vars
==============================================================================
