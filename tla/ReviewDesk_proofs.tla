--------------------------- MODULE ReviewDesk_proofs ---------------------------
(***************************************************************************)
(* Proofs about ReviewDesk for every number of requests, keys, results and *)
(* restarts: what a receipt says is stored and final, and all events of    *)
(* one fingerprint agree with it.                                          *)
(*                                                                         *)
(* And about the other desk where humans decide, StateMemory, for any      *)
(* items, contents and users: what reaches a snapshot was approved, what a *)
(* run of the materialiser leaves behind says what is active, and what a   *)
(* context takes of it fits.  Then about the context that is compiled of a *)
(* memory (ContextRules).  What recursive definitions make is proved by    *)
(* the first number, or the smallest set, for which it would be wrong.     *)
(***************************************************************************)
EXTENDS ReviewDesk, StateMemory, ContextRules, FiniteSetTheorems, SequenceTheorems, TLAPS

(* The inductive invariant *)

\* A request that is under way has its command.
CommandsThere == \A r \in Requests : pc[r] \notin {"new", "done", "dead"} => cmd[r] \in ReviewCommands

\* What a request found was stored, and is about the result it asks for.
SeenStored == \A r \in Requests : pc[r] = "save" => \A d \in seen[r] : d \in decisions /\ d.result = cmd[r].result

\* A decision settles a command.
Settles(d, c) == d.result = c.result /\ d.issue = c.issue /\ d.words = c.words

\* What a request is about to store or to complete: a stored decision of its own command.
HeldBacked ==
    \A r \in Requests : pc[r] \in {"pend", "emit", "complete"} =>
        /\ held[r] \in Receipts /\ held[r].command = cmd[r]
        /\ held[r].decision \in decisions /\ Settles(held[r].decision, cmd[r])

\* The sink was given an event that says what a receipt says.
Published(receipt) == \E e \in events : SameReceipt(e, receipt)

\* Once it is stored, the receipt of its key is this one; and its event is out before it
\* is completed.
HeldStored ==
    \A r \in Requests :
        /\ pc[r] \in {"emit", "complete"} => receipts[Key(r)] # None /\ SameReceipt(receipts[Key(r)], held[r])
        /\ pc[r] = "complete" => Published(held[r])

\* A receipt lies under the key of its command, and says what is stored.
ReceiptsStand ==
    \A k \in Keys : receipts[k] # None =>
        /\ receipts[k].command.key = k
        /\ receipts[k].decision \in decisions /\ Settles(receipts[k].decision, receipts[k].command)
        /\ receipts[k].state = "completed" => Published(receipts[k])

\* An event says what a stored receipt says.
EventsBacked ==
    \A e \in events : receipts[e.command.key] # None /\ SameReceipt(e, receipts[e.command.key])

IInv == ReviewTypeOK /\ CommandsThere /\ SeenStored /\ HeldBacked /\ HeldStored /\ ReceiptsStand /\ EventsBacked

------------------------------------------------------------------------------
(* One request moves, and the others stay where they are *)

\* A request goes on without touching any file.
LEMMA QuietStep ==
  ASSUME IInv, NEW r \in Requests, NEW step \in {"bind", "load", "find", "save", "done"},
         pc' = [pc EXCEPT ![r] = step], answer' \in [Requests -> ReviewCodes \union {None}],
         UNCHANGED <<current, decisions, receipts, events, held, moves, crashes>>, raced' \in BOOLEAN,
         cmd' \in [Requests -> ReviewCommands \union {None}], seen' \in [Requests -> SUBSET Decisions],
         \A q \in Requests : q # r => cmd'[q] = cmd[q] /\ seen'[q] = seen[q],
         step # "done" => cmd'[r] \in ReviewCommands,
         step = "save" => \A d \in seen'[r] : d \in decisions /\ d.result = cmd'[r].result
  PROVE  IInv'
  <1>1. pc'[r] = step /\ \A q \in Requests : q # r => pc'[q] = pc[q]
    BY DEF IInv, ReviewTypeOK
  <1>2. ReviewTypeOK'
    BY DEF IInv, ReviewTypeOK
  <1>3. CommandsThere'
    BY <1>1 DEF IInv, CommandsThere
  <1>4. SeenStored'
    BY <1>1 DEF IInv, SeenStored
  <1>5. HeldBacked'
    BY <1>1 DEF IInv, HeldBacked, Settles
  <1>6. HeldStored'
    BY <1>1 DEF IInv, HeldStored, Key, SameReceipt, Published
  <1>7. ReceiptsStand' /\ EventsBacked'
    BY DEF IInv, ReceiptsStand, EventsBacked, Settles, Published, SameReceipt
  <1>8. QED
    BY <1>2, <1>3, <1>4, <1>5, <1>6, <1>7 DEF IInv

\* The empty desk.
LEMMA InitIInv == Init => IInv
  <1> SUFFICES ASSUME Init PROVE IInv
    OBVIOUS
  <1>1. ReviewTypeOK
    <2>1. current \in Stored /\ decisions \subseteq Decisions /\ events \subseteq ReviewEvents /\ raced \in BOOLEAN
      BY DEF Init
    <2>2. receipts \in [Keys -> Receipts \union {None}] /\ cmd \in [Requests -> ReviewCommands \union {None}]
      BY DEF Init
    <2>3. seen \in [Requests -> SUBSET Decisions]
      BY DEF Init
    <2>4. /\ pc \in [Requests -> {"new", "bind", "load", "find", "save", "pend", "emit", "complete", "done", "dead"}]
          /\ held \in [Requests -> Receipts \union {None}] /\ answer \in [Requests -> ReviewCodes \union {None}]
      BY DEF Init
    <2>5. moves \in 0..MaxMoves /\ crashes \in 0..MaxCrashes
      BY ReviewDeskAssumption DEF Init
    <2>6. QED
      BY <2>1, <2>2, <2>3, <2>4, <2>5 DEF ReviewTypeOK
  <1>2. CommandsThere /\ SeenStored /\ HeldBacked /\ HeldStored
    BY DEF Init, CommandsThere, SeenStored, HeldBacked, HeldStored
  <1>3. ReceiptsStand /\ EventsBacked
    BY DEF Init, ReceiptsStand, EventsBacked
  <1>4. QED
    BY <1>1, <1>2, <1>3 DEF IInv

\* What a stored receipt of the command lets a request go on with.
LEMMA LoadStep == ASSUME IInv, NEW r \in Requests, LoadReceipt(r) PROVE IInv'
  <1> DEFINE stored == receipts[Key(r)]
  <1>1. /\ pc[r] = "load" /\ cmd[r] \in ReviewCommands /\ Key(r) \in Keys
        /\ UNCHANGED <<cmd, decisions, receipts, events, seen, current, raced, moves, crashes>>
    BY DEF LoadReceipt, SameWorld, IInv, CommandsThere, Key, ReviewCommands
  <1>2. CASE stored = None
    BY <1>1, <1>2, QuietStep DEF LoadReceipt, Goto, IInv, ReviewTypeOK
  <1>3. CASE stored # None /\ stored.command # cmd[r]
    BY <1>1, <1>3, QuietStep DEF LoadReceipt, Return, IInv, ReviewTypeOK, ReviewCodes
  <1>4. CASE stored # None /\ stored.command = cmd[r]
    <2>1. /\ stored \in Receipts /\ stored.decision \in decisions /\ Settles(stored.decision, cmd[r])
          /\ held' = [held EXCEPT ![r] = stored]
      BY <1>1, <1>4 DEF LoadReceipt, IInv, ReviewTypeOK, ReceiptsStand
    <2>2. \E step \in {"done", "emit"} : pc' = [pc EXCEPT ![r] = step]
      BY <1>1, <1>4 DEF LoadReceipt, Goto, Return
    <2>3. answer' \in [Requests -> ReviewCodes \union {None}]
      BY <1>1, <1>4 DEF LoadReceipt, Goto, Return, IInv, ReviewTypeOK, ReviewCodes
    <2>4. /\ held'[r] = stored /\ pc'[r] \in {"done", "emit"}
          /\ \A q \in Requests : q # r => pc'[q] = pc[q] /\ held'[q] = held[q]
      BY <2>1, <2>2 DEF IInv, ReviewTypeOK
    <2>5. ReviewTypeOK'
      BY <1>1, <2>1, <2>2, <2>3 DEF IInv, ReviewTypeOK
    <2>6. CommandsThere' /\ SeenStored'
      BY <1>1, <2>4 DEF IInv, CommandsThere, SeenStored
    <2>7. HeldBacked'
      BY <1>1, <1>4, <2>1, <2>4 DEF IInv, HeldBacked, Settles
    <2>8. HeldStored'
      BY <1>1, <1>4, <2>1, <2>4 DEF IInv, HeldStored, Key, SameReceipt, Published
    <2>9. ReceiptsStand' /\ EventsBacked'
      BY <1>1 DEF IInv, ReceiptsStand, EventsBacked, Settles, Published, SameReceipt
    <2>10. QED
      BY <2>5, <2>6, <2>7, <2>8, <2>9 DEF IInv
  <1>5. QED
    BY <1>2, <1>3, <1>4

\* The decision is stored, new or found.
LEMMA DecideStep == ASSUME IInv, NEW r \in Requests, NEW t \in Times, SaveDecision(r, t) PROVE IInv'
  <1>1. /\ pc[r] = "save" /\ cmd[r] \in ReviewCommands
        /\ UNCHANGED <<cmd, receipts, events, seen, current, raced, moves, crashes>>
    BY DEF SaveDecision, SameWorld, IInv, CommandsThere
  <1>2. CASE cmd[r].issue \in High
    BY <1>1, <1>2, QuietStep DEF SaveDecision, Return, IInv, ReviewTypeOK, ReviewCodes
  <1>3. CASE cmd[r].issue \notin High
    <2>1. PICK d : /\ \/ d \in seen[r] /\ SameDisposition(d, Decision(r, t))
                      \/ d = Decision(r, t)
                   /\ decisions' = decisions \union {d}
                   /\ held' = [held EXCEPT ![r] = [command |-> cmd[r], decision |-> d, state |-> "pending"]]
                   /\ Goto(r, "pend")
      BY <1>3 DEF SaveDecision
    <2>2. Settles(d, cmd[r]) /\ d \in Decisions
      BY <1>1, <2>1 DEF IInv, ReviewTypeOK, SameDisposition, Decision, Settles, Decisions, ReviewCommands
    <2>3. [command |-> cmd[r], decision |-> d, state |-> "pending"] \in Receipts
      BY <1>1, <2>2 DEF Receipts
    <2>4. /\ held'[r] = [command |-> cmd[r], decision |-> d, state |-> "pending"] /\ pc'[r] = "pend"
          /\ \A q \in Requests : q # r => pc'[q] = pc[q] /\ held'[q] = held[q]
      BY <2>1 DEF IInv, ReviewTypeOK, Goto
    <2>5. ReviewTypeOK'
      BY <1>1, <2>1, <2>2, <2>3 DEF IInv, ReviewTypeOK, Goto
    <2>6. CommandsThere' /\ SeenStored'
      BY <1>1, <2>1, <2>4 DEF IInv, CommandsThere, SeenStored
    <2>7. HeldBacked'
      BY <1>1, <2>1, <2>2, <2>3, <2>4 DEF IInv, HeldBacked, Settles
    <2>8. HeldStored'
      BY <1>1, <2>4 DEF IInv, HeldStored, Key, SameReceipt, Published
    <2>9. ReceiptsStand' /\ EventsBacked'
      BY <1>1, <2>1 DEF IInv, ReceiptsStand, EventsBacked, Settles, Published, SameReceipt
    <2>10. QED
      BY <2>5, <2>6, <2>7, <2>8, <2>9 DEF IInv
  <1>4. QED
    BY <1>2, <1>3

\* A receipt is stored, or found in place; it stays the same receipt for all who hold it.
LEMMA PendStep == ASSUME IInv, NEW r \in Requests, SavePending(r) PROVE IInv'
  <1>1. /\ pc[r] = "pend" /\ cmd[r] \in ReviewCommands /\ Key(r) \in Keys
        /\ held[r] \in Receipts /\ held[r].command = cmd[r]
        /\ held[r].decision \in decisions /\ Settles(held[r].decision, cmd[r])
        /\ UNCHANGED <<cmd, decisions, events, held, seen, current, raced, moves, crashes>>
    BY DEF SavePending, SameWorld, IInv, CommandsThere, HeldBacked, Key, ReviewCommands
  <1>2. CASE ~ReceiptFits(r, "pending")
    BY <1>1, <1>2, QuietStep DEF SavePending, Return, IInv, ReviewTypeOK, ReviewCodes
  <1>3. CASE ReceiptFits(r, "pending")
    <2>1. Goto(r, "emit") /\ SaveReceipt(r, "pending")
      BY <1>3 DEF SavePending
    <2>2. pc'[r] = "emit" /\ \A q \in Requests : q # r => pc'[q] = pc[q]
      BY <2>1 DEF IInv, ReviewTypeOK, Goto
    <2> DEFINE new == [held[r] EXCEPT !.state = "pending"]
    <2>3. new \in Receipts /\ new # None /\ new.command = cmd[r] /\ new.decision = held[r].decision
          /\ new.state = "pending"
      BY <1>1, NoneIsNothing DEF Receipts
    <2>4. /\ \A k \in Keys : receipts[k] # None => receipts'[k] = receipts[k]
          /\ \A k \in Keys : k # Key(r) => receipts'[k] = receipts[k]
          /\ receipts[Key(r)] = None => receipts'[Key(r)] = new
          /\ receipts[Key(r)] # None => SameReceipt(receipts[Key(r)], held[r])
          /\ receipts' \in [Keys -> Receipts \union {None}]
      <3>1. CASE receipts[Key(r)] = None
        <4>1. receipts' = [receipts EXCEPT ![Key(r)] = new]
          BY <2>1, <3>1 DEF SaveReceipt
        <4>2. QED
          BY <1>1, <2>3, <3>1, <4>1 DEF IInv, ReviewTypeOK
      <3>2. CASE receipts[Key(r)] # None
        BY <1>3, <2>1, <3>2 DEF ReceiptFits, SaveReceipt, IInv, ReviewTypeOK
      <3>3. QED
        BY <3>1, <3>2
    <2>5. ReviewTypeOK'
      BY <1>1, <2>1, <2>4 DEF IInv, ReviewTypeOK, Goto
    <2>6. CommandsThere' /\ SeenStored'
      BY <1>1, <2>2 DEF IInv, CommandsThere, SeenStored
    <2>7. HeldBacked'
      BY <1>1, <2>2 DEF IInv, HeldBacked, Settles
    <2>8. HeldStored'
      <3>1. receipts'[Key(r)] # None /\ SameReceipt(receipts'[Key(r)], held[r])
        BY <1>1, <2>3, <2>4 DEF SameReceipt
      <3>2. \A q \in Requests : pc[q] \in {"emit", "complete"} => Key(q) \in Keys
        BY DEF IInv, CommandsThere, Key, ReviewCommands
      <3>3. \A q \in Requests : Key(q)' = Key(q)
        BY <1>1 DEF Key
      <3>4. \A q \in Requests \ {r} : pc'[q] \in {"emit", "complete"} =>
               receipts'[Key(q)] # None /\ SameReceipt(receipts'[Key(q)], held[q])
        BY <2>2, <2>4, <3>2 DEF IInv, HeldStored
      <3>5. QED
        BY <1>1, <2>2, <3>1, <3>3, <3>4 DEF IInv, HeldStored, SameReceipt, Published
    <2>9. ReceiptsStand'
      <3>1. ASSUME NEW k \in Keys, receipts'[k] # None
            PROVE  /\ receipts'[k].command.key = k
                   /\ receipts'[k].decision \in decisions /\ Settles(receipts'[k].decision, receipts'[k].command)
                   /\ receipts'[k].state = "completed" => Published(receipts'[k])
        <4>1. CASE k = Key(r) /\ receipts[k] = None
          BY <1>1, <2>3, <2>4, <4>1 DEF Key
        <4>2. CASE k # Key(r) \/ receipts[k] # None
          BY <2>4, <3>1, <4>2 DEF IInv, ReceiptsStand
        <4>3. QED
          BY <4>1, <4>2
      <3>2. QED
        BY <1>1, <3>1 DEF ReceiptsStand, Settles, Published
    <2>10. EventsBacked'
      BY <1>1, <2>4 DEF IInv, ReviewTypeOK, EventsBacked, SameReceipt, ReviewEvents, ReviewCommands
    <2>11. QED
      BY <2>5, <2>6, <2>7, <2>8, <2>9, <2>10 DEF IInv
  <1>4. QED
    BY <1>2, <1>3

\* The sink takes the event or not.
LEMMA EmitStep == ASSUME IInv, NEW r \in Requests, Emit(r) PROVE IInv'
  <1>1. /\ pc[r] = "emit" /\ cmd[r] \in ReviewCommands /\ Key(r) \in Keys
        /\ held[r] \in Receipts /\ held[r].command = cmd[r]
        /\ receipts[Key(r)] # None /\ SameReceipt(receipts[Key(r)], held[r])
        /\ UNCHANGED <<cmd, decisions, receipts, held, seen, current, raced, moves, crashes>>
    BY DEF Emit, SameWorld, IInv, CommandsThere, HeldBacked, HeldStored, Key, ReviewCommands
  <1>2. \A now \in Times :
           /\ EventOf(held[r], now) \in ReviewEvents /\ EventOf(held[r], now).command.key = Key(r)
           /\ SameReceipt(EventOf(held[r], now), receipts[Key(r)]) /\ SameReceipt(EventOf(held[r], now), held[r])
    BY <1>1 DEF EventOf, ReviewEvents, Receipts, SameReceipt, Key
  <1>3. /\ \/ events' = events
           \/ \E now \in Times : events' = events \union {EventOf(held[r], now)}
        /\ \/ pc' = [pc EXCEPT ![r] = "done"]
           \/ pc' = [pc EXCEPT ![r] = "complete"] /\ \E now \in Times : EventOf(held[r], now) \in events'
        /\ answer' \in [Requests -> ReviewCodes \union {None}]
    BY DEF Emit, Publish, Goto, Return, IInv, ReviewTypeOK, ReviewCodes
  <1>4. /\ pc'[r] \in {"done", "complete"} /\ (pc'[r] = "complete" => Published(held[r])')
        /\ \A q \in Requests : q # r => pc'[q] = pc[q]
    BY <1>1, <1>2, <1>3 DEF IInv, ReviewTypeOK, Published, SameReceipt
  <1>5. /\ events \subseteq events'
        /\ \A e \in events' \ events :
              e \in ReviewEvents /\ e.command.key = Key(r) /\ SameReceipt(e, receipts[Key(r)])
    <2>1. CASE events' = events
      BY <2>1
    <2>2. ASSUME NEW now \in Times, events' = events \union {EventOf(held[r], now)}
          PROVE  events \subseteq events' /\ \A e \in events' \ events : e = EventOf(held[r], now)
      BY <2>2
    <2>3. QED
      BY <1>2, <1>3, <2>1, <2>2
  <1>6. ReviewTypeOK'
    BY <1>1, <1>3, <1>5 DEF IInv, ReviewTypeOK
  <1>7. CommandsThere' /\ SeenStored' /\ HeldBacked'
    BY <1>1, <1>4 DEF IInv, CommandsThere, SeenStored, HeldBacked, Settles
  <1>8. HeldStored'
    BY <1>1, <1>4, <1>5 DEF IInv, HeldStored, Key, SameReceipt, Published
  <1>9. ReceiptsStand'
    BY <1>1, <1>5 DEF IInv, ReceiptsStand, Settles, Published, SameReceipt
  <1>10. EventsBacked'
    BY <1>1, <1>5 DEF IInv, EventsBacked, SameReceipt
  <1>11. QED
    BY <1>6, <1>7, <1>8, <1>9, <1>10 DEF IInv

\* The receipt in place is completed; only its state changes.
LEMMA CompleteStep == ASSUME IInv, NEW r \in Requests, Complete(r) PROVE IInv'
  <1>1. /\ pc[r] = "complete" /\ cmd[r] \in ReviewCommands /\ Key(r) \in Keys
        /\ held[r] \in Receipts /\ held[r].command = cmd[r]
        /\ receipts[Key(r)] # None /\ SameReceipt(receipts[Key(r)], held[r])
        /\ Published(held[r])
        /\ UNCHANGED <<cmd, decisions, events, held, seen, current, raced, moves, crashes>>
    BY DEF Complete, SameWorld, IInv, CommandsThere, HeldBacked, HeldStored, Key, ReviewCommands
  <1> DEFINE new == [held[r] EXCEPT !.state = "completed"]
  <1>2. /\ receipts' = [receipts EXCEPT ![Key(r)] = new] /\ pc' = [pc EXCEPT ![r] = "done"]
        /\ answer' \in [Requests -> ReviewCodes \union {None}]
    BY <1>1 DEF Complete, ReceiptFits, SaveReceipt, Return, IInv, ReviewTypeOK, ReviewCodes
  <1>3. new \in Receipts /\ new # None /\ new.command = cmd[r] /\ new.decision = held[r].decision
    BY <1>1, NoneIsNothing DEF Receipts
  <1>4. /\ receipts'[Key(r)] = new /\ SameReceipt(new, receipts[Key(r)]) /\ Published(new)
        /\ \A k \in Keys : k # Key(r) => receipts'[k] = receipts[k]
    BY <1>1, <1>2, <1>3 DEF IInv, ReviewTypeOK, SameReceipt, Published
  <1>5. \A k \in Keys : receipts[k] # None => receipts'[k] # None /\ SameReceipt(receipts'[k], receipts[k])
    BY <1>3, <1>4 DEF SameReceipt
  <1>6. pc'[r] = "done" /\ \A q \in Requests : q # r => pc'[q] = pc[q]
    BY <1>2 DEF IInv, ReviewTypeOK
  <1>7. ReviewTypeOK'
    BY <1>1, <1>2, <1>3 DEF IInv, ReviewTypeOK
  <1>8. CommandsThere' /\ SeenStored' /\ HeldBacked'
    BY <1>1, <1>6 DEF IInv, CommandsThere, SeenStored, HeldBacked, Settles
  <1>9. HeldStored'
    <2>1. \A q \in Requests : pc[q] \in {"emit", "complete"} => Key(q) \in Keys
      BY DEF IInv, CommandsThere, Key, ReviewCommands
    <2>2. \A q \in Requests : Key(q)' = Key(q)
      BY <1>1 DEF Key
    <2>3. QED
      BY <1>1, <1>5, <1>6, <2>1, <2>2 DEF IInv, HeldStored, SameReceipt, Published
  <1>10. ReceiptsStand'
    <2>1. receipts[Key(r)].command.key = Key(r)
      BY <1>1 DEF IInv, ReceiptsStand
    <2>2. new.decision \in decisions /\ Settles(new.decision, new.command) /\ new.command.key = Key(r)
      BY <1>1, <1>3 DEF IInv, HeldBacked, Key
    <2>3. ASSUME NEW k \in Keys \ {Key(r)}, receipts'[k] # None
          PROVE  /\ receipts'[k].command.key = k
                 /\ receipts'[k].decision \in decisions /\ Settles(receipts'[k].decision, receipts'[k].command)
                 /\ receipts'[k].state = "completed" => Published(receipts'[k])
      <3>1. receipts'[k] = receipts[k]
        BY <1>4
      <3>2. QED
        BY <2>3, <3>1 DEF IInv, ReceiptsStand
    <2>4. decisions' = decisions /\ events' = events /\ \A x : Published(x)' = Published(x)
      BY <1>1 DEF Published, SameReceipt
    <2>5. QED
      BY <1>4, <2>2, <2>3, <2>4 DEF ReceiptsStand, Settles
  <1>11. EventsBacked'
    BY <1>1, <1>5 DEF IInv, ReviewTypeOK, EventsBacked, SameReceipt, ReviewEvents, ReviewCommands
  <1>12. QED
    BY <1>7, <1>8, <1>9, <1>10, <1>11 DEF IInv

\* Every step keeps the invariant.
LEMMA StepIInv == IInv /\ [Next]_vars => IInv'
  <1> SUFFICES ASSUME IInv, [Next]_vars PROVE IInv'
    OBVIOUS
  <1>1. ASSUME NEW r \in Requests, NEW c \in ReviewCommands, Arrive(r, c) PROVE IInv'
    <2>1. cmd' = [cmd EXCEPT ![r] = c] /\ cmd'[r] = c /\ \A q \in Requests : q # r => cmd'[q] = cmd[q]
      BY <1>1 DEF Arrive, IInv, ReviewTypeOK
    <2>2. QED
      <3>1. cmd' \in [Requests -> ReviewCommands \union {None}] /\ cmd'[r] \in ReviewCommands
        BY <2>1 DEF IInv, ReviewTypeOK
      <3>2. /\ pc' = [pc EXCEPT ![r] = "bind"] /\ answer' = answer /\ seen' = seen
            /\ UNCHANGED <<current, decisions, receipts, events, held, raced, moves, crashes>>
        BY <1>1 DEF Arrive, Goto, SameWorld
      <3>3. answer' \in [Requests -> ReviewCodes \union {None}] /\ raced' \in BOOLEAN
            /\ seen' \in [Requests -> SUBSET Decisions]
        BY <3>2 DEF IInv, ReviewTypeOK
      <3>4. QED
        BY <2>1, <3>1, <3>2, <3>3, QuietStep
  <1>2. ASSUME NEW r \in Requests, Bind(r) PROVE IInv'
    <2>1. cmd[r] \in ReviewCommands
      BY <1>2 DEF Bind, IInv, CommandsThere
    <2>2. \E step \in {"load", "done"} : pc' = [pc EXCEPT ![r] = step]
      BY <1>2 DEF Bind, Return, Goto
    <2>3. answer' \in [Requests -> ReviewCodes \union {None}]
      BY <1>2 DEF Bind, Return, Goto, IInv, ReviewTypeOK, ReviewCodes
    <2>4. QED
      BY <1>2, <2>1, <2>2, <2>3, QuietStep DEF Bind, SameWorld, IInv, ReviewTypeOK
  <1>3. ASSUME NEW r \in Requests, FindDispositions(r) PROVE IInv'
    <2>1. cmd[r] \in ReviewCommands
      BY <1>3 DEF FindDispositions, IInv, CommandsThere
    <2>2. /\ seen' \in [Requests -> SUBSET Decisions] /\ \A q \in Requests : q # r => seen'[q] = seen[q]
          /\ \A d \in seen'[r] : d \in decisions /\ d.result = cmd[r].result
          /\ raced' \in BOOLEAN
      BY <1>3 DEF FindDispositions, IInv, ReviewTypeOK
    <2>3. QED
      BY <1>3, <2>1, <2>2, QuietStep DEF FindDispositions, Goto, IInv, ReviewTypeOK
  <1>4. ASSUME NEW result \in Results, MovePointer(result) PROVE IInv'
    <2>1. ReviewTypeOK'
      BY <1>4, ReviewDeskAssumption DEF MovePointer, IInv, ReviewTypeOK
    <2>2. CommandsThere' /\ SeenStored' /\ HeldBacked' /\ HeldStored'
      BY <1>4 DEF MovePointer, IInv, CommandsThere, SeenStored, HeldBacked, HeldStored, Settles, Key, SameReceipt, Published
    <2>3. ReceiptsStand' /\ EventsBacked'
      BY <1>4 DEF MovePointer, IInv, ReceiptsStand, EventsBacked, Settles, Published, SameReceipt
    <2>4. QED
      BY <2>1, <2>2, <2>3 DEF IInv
  <1>5. CASE Restart
    <2>1. \A r \in Requests : pc'[r] \in {"new", "done", "dead"} /\ pc'[r] \in {pc[r], "dead"}
      BY <1>5 DEF Restart
    <2>2. ReviewTypeOK'
      BY <1>5, ReviewDeskAssumption DEF Restart, IInv, ReviewTypeOK
    <2>3. CommandsThere' /\ SeenStored' /\ HeldBacked' /\ HeldStored'
      BY <2>1 DEF CommandsThere, SeenStored, HeldBacked, HeldStored
    <2>4. ReceiptsStand' /\ EventsBacked'
      BY <1>5 DEF Restart, IInv, ReceiptsStand, EventsBacked, Settles, Published, SameReceipt
    <2>5. QED
      BY <2>2, <2>3, <2>4 DEF IInv
  <1>6. CASE UNCHANGED vars
    BY <1>6 DEF vars, IInv, ReviewTypeOK, CommandsThere, SeenStored, HeldBacked, HeldStored,
       ReceiptsStand, EventsBacked, Settles, Key, SameReceipt, Published
  <1>7. QED
    BY <1>1, <1>2, <1>3, <1>4, <1>5, <1>6, LoadStep, DecideStep, PendStep, EmitStep, CompleteStep DEF Next, Step

\* The invariant holds in every reachable state.
LEMMA Inductive == Spec => []IInv
  BY InitIInv, StepIInv, PTL DEF Spec

------------------------------------------------------------------------------
(* Safety *)

\* Every variable keeps its type.
THEOREM ReviewDeskTypeOK == Spec => []ReviewTypeOK
  <1>1. IInv => ReviewTypeOK
    BY DEF IInv
  <1>2. QED
    BY <1>1, Inductive, PTL

\* A receipt of accept_review_issue names a stored decision that answers its command, and is
\* completed only after its event went out, whatever requests raced and died.
THEOREM ReceiptsBacked == Spec => []ReceiptsAreBacked
  <1>1. IInv => ReceiptsAreBacked
    <2> SUFFICES ASSUME IInv, NEW k \in Keys, receipts[k] # None
                 PROVE  /\ receipts[k].decision \in decisions
                        /\ \A field \in {"result", "issue", "words"} :
                              receipts[k].decision[field] = receipts[k].command[field]
                        /\ receipts[k].state = "completed" => \E e \in events : SameReceipt(e, receipts[k])
      BY DEF ReceiptsAreBacked
    <2>1. /\ receipts[k].decision \in decisions /\ Settles(receipts[k].decision, receipts[k].command)
          /\ receipts[k].state = "completed" => Published(receipts[k])
      BY DEF IInv, ReceiptsStand
    <2>2. receipts[k].decision \in Decisions /\ receipts[k].command \in ReviewCommands
      BY DEF IInv, ReviewTypeOK, Receipts
    <2>3. QED
      BY <2>1, <2>2 DEF Settles, Published, Decisions, ReviewCommands
  <1>2. QED
    BY <1>1, Inductive, PTL

\* Events with one fingerprint say the same but for the time they were built at, and the
\* receipt says the same: a consumer that drops an event whose id it knows loses at most that
\* time.
THEOREM EventsOfOneCommandAgree == Spec => []EventsAgree
  <1>1. IInv => EventsAgree
    <2> SUFFICES ASSUME IInv, NEW e \in events
                 PROVE  /\ receipts[e.command.key] # None /\ SameReceipt(e, receipts[e.command.key])
                        /\ \A f \in events : f.command = e.command => f = [e EXCEPT !.occurred_at = f.occurred_at]
      BY DEF EventsAgree
    <2>1. receipts[e.command.key] # None /\ SameReceipt(e, receipts[e.command.key])
      BY DEF IInv, EventsBacked
    <2>2. ASSUME NEW f \in events, f.command = e.command PROVE f = [e EXCEPT !.occurred_at = f.occurred_at]
      <3>1. f.decision = e.decision
        BY <2>1, <2>2 DEF IInv, EventsBacked, SameReceipt
      <3>2. f \in ReviewEvents /\ e \in ReviewEvents
        BY <2>2 DEF IInv, ReviewTypeOK
      <3>3. QED
        BY <2>2, <3>1, <3>2 DEF ReviewEvents
    <2>3. QED
      BY <2>1, <2>2
  <1>2. QED
    BY <1>1, Inductive, PTL

\* No request rewrites what a receipt says, and none reopens a completed one.
THEOREM ReceiptsFinal == Spec => ReceiptsAreFinal
  <1> DEFINE Final == \A k \in Keys : receipts[k] # None =>
                          /\ receipts'[k] # None /\ SameReceipt(receipts'[k], receipts[k])
                          /\ receipts[k].state = "completed" => receipts'[k] = receipts[k]
  <1>1. IInv /\ [Next]_vars => [Final]_vars
    <2> SUFFICES ASSUME IInv, Next PROVE Final
      BY DEF vars
    <2>1. CASE receipts' = receipts
      BY <2>1 DEF SameReceipt
    <2>2. ASSUME NEW r \in Requests, SavePending(r), receipts' # receipts PROVE Final
      <3>1. receipts[Key(r)] = None /\ \E x : receipts' = [receipts EXCEPT ![Key(r)] = x]
        BY <2>2 DEF SavePending, ReceiptFits, SaveReceipt
      <3>2. QED
        BY <3>1 DEF IInv, ReviewTypeOK, SameReceipt
    <2>3. ASSUME NEW r \in Requests, Complete(r) PROVE Final
      <3>1. /\ Key(r) \in Keys /\ receipts[Key(r)] \in Receipts /\ held[r] \in Receipts
            /\ SameReceipt(receipts[Key(r)], held[r])
        BY <2>3 DEF Complete, IInv, ReviewTypeOK, CommandsThere, HeldBacked, HeldStored, Key, ReviewCommands
      <3>2. receipts' = [receipts EXCEPT ![Key(r)] = [held[r] EXCEPT !.state = "completed"]]
        BY <2>3, <3>1 DEF Complete, ReceiptFits, SaveReceipt
      <3>3. [held[r] EXCEPT !.state = "completed"] \in Receipts
        BY <3>1 DEF Receipts
      <3>4. SameReceipt([held[r] EXCEPT !.state = "completed"], receipts[Key(r)])
        BY <3>1 DEF SameReceipt, Receipts
      <3>5. receipts[Key(r)].state = "completed" => [held[r] EXCEPT !.state = "completed"] = receipts[Key(r)]
        BY <3>1 DEF SameReceipt, Receipts
      <3>6. QED
        BY <3>1, <3>2, <3>3, <3>4, <3>5, NoneIsNothing DEF IInv, ReviewTypeOK, SameReceipt
    <2>4. QED
      BY <2>1, <2>2, <2>3 DEF Next, Step, Arrive, Bind, LoadReceipt, FindDispositions, SaveDecision, Emit,
         MovePointer, Restart, vars
  <1>2. QED
    BY <1>1, Inductive, PTL DEF Spec, ReceiptsAreFinal

------------------------------------------------------------------------------
(* The memory of a story: numbers, and the folds the snapshots are made with *)

\* A set of natural numbers that is not empty has a least element.
LEMMA LeastNumber ==
  ASSUME NEW T, T \subseteq Nat, T # {}
  PROVE  \E n \in T : \A m \in T : n <= m
  <1> DEFINE R == {ss \in Nat \X Nat : ss[1] < ss[2]}
  <1>1. IsWellFoundedOn(R, Nat)
    BY NatLessThanWellFounded DEF OpToRel
  <1>2. \A x, y \in Nat : x < y => <<x, y>> \in R
    OBVIOUS
  <1> HIDE DEF R
  <1>3. PICK x \in T : \A y \in T : ~(<<y, x>> \in R)
    BY <1>1, WFMin
  <1>4. ASSUME NEW y \in T PROVE x <= y
    <2>1. x \in Nat /\ y \in Nat
      OBVIOUS
    <2>2. ~(y < x)
      BY <1>2, <1>3, <2>1
    <2> QED BY <2>1, <2>2
  <1> QED BY <1>4

\* What goes wrong at some number goes wrong first at a number of which each earlier one is right.
LEMMA FirstFailure ==
  ASSUME NEW Bad, Bad \subseteq Nat, Bad # {}, 0 \notin Bad
  PROVE  \E k \in Bad : k \in Nat /\ k # 0 /\ k - 1 \in Nat /\ k - 1 \notin Bad
  <1>1. PICK k \in Bad : \A m \in Bad : k <= m
    BY LeastNumber
  <1>2. k \in Nat /\ k # 0
    OBVIOUS
  <1>3. k - 1 \in Nat /\ ~(k <= k - 1)
    BY <1>2
  <1>4. k - 1 \notin Bad
    BY <1>1, <1>3
  <1> QED BY <1>2, <1>3, <1>4

\* The greatest of the numbers up to k, among some of them that k is one of, is k.
LEMMA GreatestIsLast ==
  ASSUME NEW k \in Nat, NEW T \in SUBSET (1 .. k), k \in T
  PROVE  Max(T) = k
  <1>1. k \in T /\ \A y \in T : k >= y
    OBVIOUS
  <1>2. \A x \in T : x \in Int
    OBVIOUS
  <1>3. \A x \in T : (\A y \in T : x >= y) => x = k
    BY <1>1, <1>2
  <1> QED BY <1>1, <1>3 DEF Max

\* Unique appends the values one after another.
UniqueStep(g, values, T) == IF T = {} THEN <<>> ELSE AppendNew(g[T \ {Max(T)}], values[Max(T)])

LEMMA UniqueFolds ==
  ASSUME NEW V, NEW values \in Seq(V)
  PROVE  \E g : /\ g[0] = <<>>
                /\ \A k \in 1 .. Len(values) : g[k] = AppendNew(g[k - 1], values[k])
                /\ Unique(values) = g[Len(values)]
  <1> DEFINE Solves(g, k) == g = [T \in SUBSET (1 .. k) |-> UniqueStep(g, values, T)]
             Bad == {k \in Nat : ~ \E g : Solves(g, k)}
             n == Len(values)
  <1>1. n \in Nat /\ DOMAIN values = 1 .. n
    OBVIOUS
  <1>2. Bad = {}
    <2> SUFFICES ASSUME Bad # {} PROVE FALSE
      OBVIOUS
    <2>1. 0 \notin Bad
      <3>1. Solves([T \in {{}} |-> <<>>], 0)
        <4>1. SUBSET (1 .. 0) = {{}}
          OBVIOUS
        <4> QED BY <4>1 DEF UniqueStep
      <3> QED BY <3>1
    <2>2. PICK k \in Bad : k \in Nat /\ k # 0 /\ k - 1 \in Nat /\ k - 1 \notin Bad
      <3>1. Bad \subseteq Nat
        OBVIOUS
      <3> HIDE DEF Bad
      <3> QED BY <2>1, <3>1, FirstFailure
    <2>3. PICK g : Solves(g, k - 1)
      BY <2>2
    <2> DEFINE h == [T \in SUBSET (1 .. k) |-> IF k \in T THEN AppendNew(g[T \ {k}], values[k]) ELSE g[T]]
    <2>4. ASSUME NEW T \in SUBSET (1 .. k) PROVE h[T] = UniqueStep(h, values, T)
      <3>1. CASE k \in T
        <4>1. Max(T) = k
          BY <3>1, <2>2, GreatestIsLast
        <4>2. T \ {k} \in SUBSET (1 .. k) /\ k \notin T \ {k}
          OBVIOUS
        <4>3. h[T \ {k}] = g[T \ {k}]
          BY <4>2
        <4> QED BY <3>1, <4>1, <4>3 DEF UniqueStep
      <3>2. CASE k \notin T
        <4>1. T \in SUBSET (1 .. k - 1)
          BY <3>2, <2>2
        <4>2. h[T] = g[T] /\ g[T] = UniqueStep(g, values, T)
          BY <3>2, <4>1, <2>3
        <4>3. T \ {Max(T)} \in SUBSET (1 .. k) /\ k \notin T \ {Max(T)}
          BY <3>2
        <4>4. h[T \ {Max(T)}] = g[T \ {Max(T)}]
          BY <4>3
        <4> HIDE DEF h
        <4> QED BY <4>2, <4>4 DEF UniqueStep
      <3> QED BY <3>1, <3>2
    <2>5. Solves(h, k)
      BY <2>4
    <2> QED BY <2>5, <2>2
  <1>3. PICK g : Solves(g, n) /\ Unique(values) = g[1 .. n]
    <2>1. \E g : Solves(g, n)
      BY <1>1, <1>2
    <2> DEFINE f == CHOOSE g : Solves(g, n)
    <2>2. Solves(f, n)
      BY <2>1
    <2>3. Unique(values) = f[1 .. n]
      BY <1>1 DEF Unique, FoldLeft, MapThenFoldSet, UniqueStep
    <2> QED BY <2>2, <2>3
  <1> DEFINE u == [k \in 0 .. n |-> g[1 .. k]]
  <1>4. u[0] = <<>>
    <2>1. 1 .. 0 = {} /\ {} \in SUBSET (1 .. n)
      OBVIOUS
    <2> QED BY <2>1, <1>3, <1>1 DEF UniqueStep
  <1>5. ASSUME NEW k \in 1 .. n PROVE u[k] = AppendNew(u[k - 1], values[k])
    <2>1. k \in Nat /\ k \in 1 .. k /\ 1 .. k \in SUBSET (1 .. n)
      <3>1. k \in Nat /\ 1 <= k /\ k <= n
        BY <1>1
      <3>2. \A i \in 1 .. k : i \in 1 .. n
        BY <3>1, <1>1
      <3> QED BY <3>1, <3>2
    <2>2. Max(1 .. k) = k
      BY <2>1, GreatestIsLast
    <2>3. (1 .. k) \ {k} = 1 .. (k - 1) /\ k - 1 \in 0 .. n /\ k \in 0 .. n
      BY <2>1, <1>1
    <2> QED BY <2>1, <2>2, <2>3, <1>3 DEF UniqueStep
  <1>6. Unique(values) = u[n]
    BY <1>3, <1>1
  <1> HIDE DEF u
  <1> QED BY <1>4, <1>5, <1>6

LEMMA UniqueKeeps ==
  ASSUME NEW V, NEW values \in Seq(V)
  PROVE  Unique(values) \in Seq(V) /\ Range(Unique(values)) \subseteq Range(values)
  <1> DEFINE n == Len(values)
  <1>1. PICK g : /\ g[0] = <<>>
                 /\ \A k \in 1 .. n : g[k] = AppendNew(g[k - 1], values[k])
                 /\ Unique(values) = g[n]
    BY UniqueFolds
  <1> DEFINE Fine(k) == g[k] \in Seq(V) /\ Range(g[k]) \subseteq Range(values)
             Bad == {k \in 0 .. n : ~Fine(k)}
  <1>2. n \in Nat
    OBVIOUS
  <1>3. Bad = {}
    <2> SUFFICES ASSUME Bad # {} PROVE FALSE
      OBVIOUS
    <2>1. 0 \notin Bad
      <3>1. <<>> \in Seq(V) /\ Range(<<>>) = {}
        BY DEF Range
      <3> QED BY <3>1, <1>1
    <2>2. PICK k \in Bad : k \in Nat /\ k # 0 /\ k - 1 \in Nat /\ k - 1 \notin Bad
      <3>1. Bad \subseteq Nat
        BY <1>2
      <3> HIDE DEF Bad
      <3> QED BY <2>1, <3>1, FirstFailure
    <2>3. k \in 1 .. n /\ k - 1 \in 0 .. n
      BY <2>2, <1>2
    <2>4. Fine(k - 1)
      BY <2>2, <2>3
    <2>5. g[k] = AppendNew(g[k - 1], values[k]) /\ values[k] \in V /\ values[k] \in Range(values)
      BY <2>3, <1>1 DEF Range
    <2>6. ASSUME NEW s \in Seq(V), NEW x \in V
          PROVE  AppendNew(s, x) \in Seq(V) /\ Range(AppendNew(s, x)) \subseteq Range(s) \union {x}
      BY DEF AppendNew, Range
    <2>7. Fine(k)
      <3>1. g[k - 1] \in Seq(V) /\ Range(g[k - 1]) \subseteq Range(values)
        BY <2>4
      <3>2. /\ AppendNew(g[k - 1], values[k]) \in Seq(V)
            /\ Range(AppendNew(g[k - 1], values[k])) \subseteq Range(g[k - 1]) \union {values[k]}
        BY ONLY <3>1, <2>5, <2>6, Zenon
      <3>3. g[k] \in Seq(V) /\ Range(g[k]) \subseteq Range(values)
        BY ONLY <3>1, <3>2, <2>5
      <3> QED BY <3>3
    <2> QED BY <2>7
  <1>4. n \in 0 .. n
    BY <1>2
  <1>5. Fine(n)
    BY <1>3, <1>4
  <1> QED BY <1>1, <1>5

------------------------------------------------------------------------------
(* Merging *)

\* Earlier is a strict order.
LEMMA EarlierOrders ==
  ASSUME NEW T, \A e \in T : e.id \in Int \X Int
  PROVE  /\ \A e \in T : ~Earlier(e, e)
         /\ \A d, e, f \in T : Earlier(d, e) /\ Earlier(e, f) => Earlier(d, f)
  <1>1. \A e \in T : e.id[1] \in Int /\ e.id[2] \in Int
    OBVIOUS
  <1>2. ASSUME NEW e \in T PROVE ~Earlier(e, e)
    BY <1>1 DEF Earlier
  <1>3. ASSUME NEW d \in T, NEW e \in T, NEW f \in T, Earlier(d, e), Earlier(e, f)
        PROVE  Earlier(d, f)
    BY <1>1, <1>3 DEF Earlier
  <1> QED BY <1>2, <1>3

\* Of entries that are finitely many, and some, one is the latest.
LEMMA LatestThere ==
  ASSUME NEW S, IsFiniteSet(S), S # {}, \A e \in S : e.id \in Int \X Int
  PROVE  Latest(S) \in S /\ \A d \in S : ~Earlier(Latest(S), d)
  <1> DEFINE Top(T) == \E e \in T : \A d \in T : ~Earlier(e, d)
             Bad == {k \in Nat : \E T \in SUBSET S : T # {} /\ Cardinality(T) = k /\ ~Top(T)}
  <1>1. /\ \A e \in S : ~Earlier(e, e)
        /\ \A d, e, f \in S : Earlier(d, e) /\ Earlier(e, f) => Earlier(d, f)
    BY EarlierOrders
  <1>2. Bad = {}
    <2> SUFFICES ASSUME Bad # {} PROVE FALSE
      OBVIOUS
    <2>1. 0 \notin Bad
      <3>1. \A T \in SUBSET S : IsFiniteSet(T) /\ (Cardinality(T) = 0 => T = {})
        BY FS_Subset, FS_EmptySet
      <3> QED BY <3>1
    <2>2. PICK k \in Bad : k \in Nat /\ k # 0 /\ k - 1 \in Nat /\ k - 1 \notin Bad
      <3>1. Bad \subseteq Nat
        OBVIOUS
      <3> HIDE DEF Bad
      <3> QED BY <2>1, <3>1, FirstFailure
    <2>3. PICK T \in SUBSET S : T # {} /\ Cardinality(T) = k /\ ~Top(T)
      OBVIOUS
    <2>4. PICK x \in T : TRUE
      BY <2>3
    <2> DEFINE U == T \ {x}
    <2>5. U \in SUBSET S /\ IsFiniteSet(T) /\ Cardinality(U) = k - 1
      BY <2>3, <2>4, FS_Subset, FS_RemoveElement
    <2>6. U = {} \/ Top(U)
      BY <2>5, <2>2
    <2>7. CASE U = {}
      <3>1. \A d \in T : d = x
        BY <2>7
      <3> QED BY <3>1, <1>1, <2>3, <2>4
    <2>8. CASE Top(U)
      <3>1. PICK m \in U : \A d \in U : ~Earlier(m, d)
        BY <2>8
      <3>2. CASE Earlier(m, x)
        <4>1. \A d \in U : ~Earlier(x, d)
          BY <3>1, <3>2, <1>1, <2>3, <2>4
        <4>2. \A d \in T : ~Earlier(x, d)
          BY <4>1, <1>1, <2>3, <2>4
        <4> QED BY <4>2, <2>3, <2>4
      <3>3. CASE ~Earlier(m, x)
        <4>1. m \in T /\ \A d \in T : ~Earlier(m, d)
          BY <3>1, <3>3
        <4> QED BY <4>1, <2>3
      <3> QED BY <3>2, <3>3
    <2> QED BY <2>6, <2>7, <2>8
  <1>3. Top(S)
    <2>1. Cardinality(S) \in Nat
      BY FS_CardinalityType
    <2> QED BY <1>2, <2>1
  <1> QED BY <1>3 DEF Latest

\* The merge of the entries of a set, the latest last.
MergeStep(g, T) == IF T = {} THEN Nothing ELSE Merge(g[T \ {Latest(T)}], Latest(T))

LEMMA MergedFolds ==
  ASSUME NEW S, IsFiniteSet(S), \A e \in S : e.id \in Int \X Int
  PROVE  \E g : Merged(S) = g[S] /\ \A T \in SUBSET S : g[T] = MergeStep(g, T)
  <1> DEFINE Upto(k) == {T \in SUBSET S : Cardinality(T) <= k}
             Solves(g, k) == g = [T \in Upto(k) |-> MergeStep(g, T)]
             Bad == {k \in Nat : ~ \E g : Solves(g, k)}
  <1>1. \A T \in SUBSET S : IsFiniteSet(T) /\ Cardinality(T) \in Nat /\ (Cardinality(T) = 0 <=> T = {})
    BY FS_Subset, FS_EmptySet, FS_CardinalityType
  <1>2. ASSUME NEW T \in SUBSET S, T # {}
        PROVE  Latest(T) \in T /\ T \ {Latest(T)} \in SUBSET S /\ Cardinality(T \ {Latest(T)}) = Cardinality(T) - 1
    <2>1. Latest(T) \in T
      BY <1>1, <1>2, LatestThere
    <2> QED BY <2>1, <1>1, FS_RemoveElement
  <1>3. Bad = {}
    <2> SUFFICES ASSUME Bad # {} PROVE FALSE
      OBVIOUS
    <2>1. 0 \notin Bad
      <3>1. Upto(0) = {{}}
        BY <1>1
      <3>2. Solves([T \in {{}} |-> Nothing], 0)
        BY <3>1 DEF MergeStep
      <3> QED BY <3>2
    <2>2. PICK k \in Bad : k \in Nat /\ k # 0 /\ k - 1 \in Nat /\ k - 1 \notin Bad
      <3>1. Bad \subseteq Nat
        OBVIOUS
      <3> HIDE DEF Bad
      <3> QED BY <2>1, <3>1, FirstFailure
    <2>3. PICK g : Solves(g, k - 1)
      BY <2>2
    <2> DEFINE h == [T \in Upto(k) |-> MergeStep(g, T)]
    <2>4. ASSUME NEW T \in Upto(k) PROVE h[T] = MergeStep(h, T)
      <3>1. CASE T = {}
        BY <3>1 DEF MergeStep
      <3>2. CASE T # {}
        <4> DEFINE U == T \ {Latest(T)}
        <4>1. U \in SUBSET S /\ Cardinality(U) = Cardinality(T) - 1
          BY <3>2, <1>2
        <4>2. Cardinality(U) <= k - 1 /\ Cardinality(U) <= k
          BY <4>1, <1>1, <2>2
        <4>3. g[U] = MergeStep(g, U) /\ h[U] = MergeStep(g, U)
          BY <4>1, <4>2, <2>3
        <4>4. h[T] = MergeStep(g, T)
          OBVIOUS
        <4> HIDE DEF h
        <4> QED BY <4>3, <4>4 DEF MergeStep
      <3> QED BY <3>1, <3>2
    <2>5. Solves(h, k)
      BY <2>4
    <2> QED BY <2>5, <2>2
  <1>4. Upto(Cardinality(S)) = SUBSET S /\ Cardinality(S) \in Nat
    BY <1>1, FS_Subset, FS_CardinalityType
  <1>5. \E g : g = [T \in SUBSET S |-> MergeStep(g, T)]
    <2>1. \E g : Solves(g, Cardinality(S))
      BY <1>3, <1>4
    <2> QED BY <2>1, <1>4
  <1> DEFINE f == CHOOSE g : g = [T \in SUBSET S |-> MergeStep(g, T)]
  <1>6. f = [T \in SUBSET S |-> MergeStep(f, T)]
    BY <1>5
  <1>7. Merged(S) = f[S]
    BY DEF Merged, MapThenFoldSet, MergeStep
  <1>8. \A T \in SUBSET S : f[T] = MergeStep(f, T)
    BY <1>6
  <1> QED BY <1>7, <1>8

\* Every value some content has in a field.
AllValues == UNION {UNION {Range(c.fields[f].of) : f \in DOMAIN c.fields} : c \in Contents}

LEMMA ContentsTyped ==
  ASSUME NEW c \in Contents, NEW f \in DOMAIN c.fields
  PROVE  c.fields[f].of \in Seq(AllValues)
  <1>1. PICK s : s = c.fields[f].of
    OBVIOUS
  <1>2. s \in Seq(Range(s)) /\ Range(s) \subseteq AllValues
    BY <1>1, MemoryAssumption DEF AllValues
  <1>3. s \in [1 .. Len(s) -> AllValues] /\ Len(s) \in Nat
    BY <1>2
  <1> QED BY <1>1, <1>3

\* What is merged has the form of a merge, and each of its values stands in a content of E.
Said(E, f, x) == \E e \in E : f \in DOMAIN e.content.fields /\ x \in Range(e.content.fields[f].of)
Rests(m, E) ==
    /\ m = [fields |-> m.fields, sources |-> m.sources, conflict |-> m.conflict]
    /\ \A f \in DOMAIN m.fields : m.fields[f].of \in Seq(AllValues) /\ \A x \in Range(m.fields[f].of) : Said(E, f, x)

LEMMA JoinedRange ==
  ASSUME NEW V, NEW s \in Seq(V), NEW t \in Seq(V)
  PROVE  s \o t \in Seq(V) /\ Range(s \o t) \subseteq Range(s) \union Range(t)
  <1>1. s \o t \in Seq(V) /\ DOMAIN (s \o t) = 1 .. Len(s) + Len(t) /\ DOMAIN s = 1 .. Len(s) /\ DOMAIN t = 1 .. Len(t)
    OBVIOUS
  <1>2. ASSUME NEW i \in 1 .. Len(s) + Len(t) PROVE (s \o t)[i] \in Range(s) \union Range(t)
    <2>1. CASE i <= Len(s)
      <3>1. i \in DOMAIN s /\ (s \o t)[i] = s[i]
        BY <2>1
      <3> QED BY <3>1 DEF Range
    <2>2. CASE ~(i <= Len(s))
      <3>1. i - Len(s) \in DOMAIN t /\ (s \o t)[i] = t[i - Len(s)]
        BY <2>2
      <3> QED BY <3>1 DEF Range
    <2> QED BY <2>1, <2>2
  <1> QED BY <1>1, <1>2 DEF Range

LEMMA MergeRests ==
  ASSUME NEW E, NEW m, Rests(m, E), NEW e, e.content \in Contents
  PROVE  Rests(Merge(m, e), E \union {e})
  <1> DEFINE old == m.fields
             new == e.content.fields
             both == DOMAIN old \intersect DOMAIN new
             F == E \union {e}
  <1>1. \A f \in DOMAIN old : old[f].of \in Seq(AllValues) /\ \A x \in Range(old[f].of) : Said(F, f, x)
    BY DEF Rests, Said
  <1>2. \A f \in DOMAIN new : new[f].of \in Seq(AllValues) /\ \A x \in Range(new[f].of) : Said(F, f, x)
    BY ContentsTyped DEF Said
  <1>3. ASSUME NEW f \in both
        PROVE  /\ Joined(old[f], new[f]).of \in Seq(AllValues)
               /\ \A x \in Range(Joined(old[f], new[f]).of) : Said(F, f, x)
    <2> DEFINE all == old[f].of \o new[f].of
    <2>1. old[f].of \in Seq(AllValues) /\ new[f].of \in Seq(AllValues)
      BY <1>1, <1>2
    <2>2. all \in Seq(AllValues) /\ Range(all) \subseteq Range(old[f].of) \union Range(new[f].of)
      BY <2>1, JoinedRange
    <2>3. Joined(old[f], new[f]).of = Unique(all)
      BY DEF Joined
    <2>4. Unique(all) \in Seq(AllValues) /\ Range(Unique(all)) \subseteq Range(all)
      BY <2>2, UniqueKeeps
    <2>5. \A x \in Range(old[f].of) \union Range(new[f].of) : Said(F, f, x)
      BY <1>1, <1>2
    <2> HIDE DEF all, old, new, F
    <2> QED BY <2>2, <2>3, <2>4, <2>5
  <1>4. m = [fields |-> m.fields, sources |-> m.sources, conflict |-> m.conflict]
    BY DEF Rests
  <1>5. CASE Merge(m, e) = [m EXCEPT !.conflict = TRUE]
    <2>1. Merge(m, e) = [fields |-> m.fields, sources |-> m.sources, conflict |-> TRUE]
      BY <1>4, <1>5
    <2> HIDE DEF F
    <2>2. PICK r : r = Merge(m, e)
      OBVIOUS
    <2>3. r.fields = old /\ r.sources = m.sources /\ r.conflict = TRUE
      BY <2>1, <2>2
    <2>4. r = [fields |-> r.fields, sources |-> r.sources, conflict |-> r.conflict]
      BY <2>1, <2>2, <2>3
    <2>5. \A f \in DOMAIN r.fields : r.fields[f].of \in Seq(AllValues) /\ \A x \in Range(r.fields[f].of) : Said(F, f, x)
      BY ONLY <2>3, <1>1, Zenon
    <2>6. Rests(r, F)
      BY <2>4, <2>5 DEF Rests
    <2> QED BY <2>2, <2>6 DEF F
  <1>6. CASE Merge(m, e) # [m EXCEPT !.conflict = TRUE]
    <2> DEFINE Since(f) == m.sources[f][1]
               chapter == e.id[1]
               Value(f) == CASE f \notin DOMAIN old -> new[f]
                             [] f \in both \intersect Additive -> Joined(old[f], new[f])
                             [] f \in both \ Additive /\ chapter > Since(f) -> new[f]
                             [] OTHER -> old[f]
               Renewed(f) == f \in DOMAIN new /\ (f \in DOMAIN old => chapter >= Since(f))
               names == DOMAIN old \union DOMAIN new
               fields == [f \in names |-> Value(f)]
               sources == [f \in names |-> IF Renewed(f) THEN e.id ELSE m.sources[f]]
    <2>1. Merge(m, e) = [fields |-> fields, sources |-> sources, conflict |-> FALSE]
      BY <1>6 DEF Merge
    <2>3. ASSUME NEW f \in names
          PROVE  Value(f).of \in Seq(AllValues) /\ \A x \in Range(Value(f).of) : Said(F, f, x)
      <3>1. CASE f \notin DOMAIN old
        BY <3>1, <1>2
      <3>2. CASE f \in both \intersect Additive
        BY <3>2, <1>3
      <3>3. CASE f \in both \ Additive /\ chapter > Since(f)
        BY <3>3, <1>2
      <3>4. CASE f \in DOMAIN old /\ ~(f \in both \intersect Additive) /\ ~(f \in both \ Additive /\ chapter > Since(f))
        BY <3>4, <1>1
      <3> QED BY <3>1, <3>2, <3>3, <3>4
    <2> HIDE DEF Value, names, sources, F
    <2>4. \A f \in DOMAIN fields : fields[f].of \in Seq(AllValues) /\ \A x \in Range(fields[f].of) : Said(F, f, x)
      BY <2>3
    <2> HIDE DEF fields
    <2>5. Rests(Merge(m, e), F)
      BY <2>1, <2>4 DEF Rests
    <2> QED BY <2>5 DEF F
  <1> QED BY <1>5, <1>6

\* What entries are merged to rests on them.
LEMMA MergedRests ==
  ASSUME NEW S, IsFiniteSet(S), \A e \in S : e.id \in Int \X Int /\ e.content \in Contents
  PROVE  Rests(Merged(S), S)
  <1>1. PICK g : Merged(S) = g[S] /\ \A T \in SUBSET S : g[T] = MergeStep(g, T)
    BY MergedFolds
  <1> DEFINE Bad == {k \in Nat : \E T \in SUBSET S : Cardinality(T) = k /\ ~Rests(g[T], T)}
  <1>2. \A T \in SUBSET S : IsFiniteSet(T) /\ Cardinality(T) \in Nat /\ (Cardinality(T) = 0 => T = {})
    BY FS_Subset, FS_EmptySet, FS_CardinalityType
  <1>3. ASSUME NEW T \in SUBSET S, T = {} PROVE Rests(g[T], T)
    <2>1. g[T] = Nothing
      BY <1>1, <1>3 DEF MergeStep
    <2>2. DOMAIN Nothing.fields = {}
      BY DEF Nothing
    <2> QED BY <2>1, <2>2 DEF Rests, Nothing
  <1>4. Bad = {}
    <2> SUFFICES ASSUME Bad # {} PROVE FALSE
      OBVIOUS
    <2>1. 0 \notin Bad
      BY <1>2, <1>3
    <2>2. PICK k \in Bad : k \in Nat /\ k # 0 /\ k - 1 \in Nat /\ k - 1 \notin Bad
      <3>1. Bad \subseteq Nat
        OBVIOUS
      <3> HIDE DEF Bad
      <3> QED BY <2>1, <3>1, FirstFailure
    <2>3. PICK T \in SUBSET S : Cardinality(T) = k /\ ~Rests(g[T], T)
      OBVIOUS
    <2>4. T # {}
      BY <2>3, <1>3
    <2> DEFINE e == Latest(T)
               U == T \ {e}
    <2>5. e \in T
      BY <2>4, <1>2, LatestThere
    <2>6. U \in SUBSET S /\ Cardinality(U) = k - 1
      BY <2>3, <2>5, <1>2, FS_RemoveElement
    <2>7. Rests(g[U], U)
      BY <2>6, <2>2
    <2>8. g[T] = Merge(g[U], e)
      BY <1>1, <2>4 DEF MergeStep
    <2> HIDE DEF e
    <2>9. Rests(Merge(g[U], e), U \union {e})
      <3> HIDE DEF U
      <3> QED BY <2>5, <2>7, MergeRests
    <2>10. U \union {e} = T
      BY <2>5
    <2> QED BY <2>3, <2>8, <2>9, <2>10
  <1>5. S \in SUBSET S /\ Cardinality(S) \in Nat
    BY <1>2
  <1> QED BY <1>1, <1>4, <1>5

(* The inductive invariant of the memory *)

\* What a user is about to do: all but the reading is on its record.
Jobs == [at : {"add", "keep", "write", "audit"}, op : {"add"} \union DOMAIN Allowed, id : Items,
         old : Files \union {NoItem}, new : Files]

FilesTyped == items \in [Items -> Files \union {NoItem}] /\ work \in [Users -> Jobs \union {Idle}]

\* Only what a human approved is active, or about to be.
Approved(i, file) == [id |-> i, content |-> file.content] \in decided
ActiveIsApproved ==
    /\ decided \subseteq [id : Items, content : Contents]
    /\ \A i \in Items : items[i].status = "active" => Approved(i, items[i])
    /\ \A u \in Users : work[u] # Idle /\ work[u].new.status = "active" => Approved(work[u].id, work[u].new)

\* A run of the materialiser works with entries that were all approved.
BuilderHolds ==
    \/ builder = Idle
    \/ /\ builder.at \in {"open", "text"} /\ builder = BuilderIs(builder.at, builder.seen, builder.left)
       /\ builder.seen \subseteq decided /\ IsFiniteSet(builder.seen)
       /\ Mentioned(builder.seen) \subseteq Range(Subjects)
       /\ builder.left # {} /\ builder.left \subseteq Mentioned(builder.seen)

\* A snapshot is what some approved entries of its subject are merged to, in the subject's file.
MadeOf(file, f, S) ==
    /\ S # {} /\ IsFiniteSet(S) /\ file = SnapshotOf(S)
    /\ FileOf(file.subject) = f /\ \A e \in S : e.content.subject = file.subject
SnapshotsMade ==
    /\ DOMAIN snapshots = SnapshotFiles /\ snapshots = [f \in SnapshotFiles |-> snapshots[f]]
    /\ \A f \in SnapshotFiles :
        snapshots[f] \in {Missing, Torn} \/ \E S \in SUBSET decided : MadeOf(snapshots[f], f, S)

\* The snapshot of a subject says what some entries say, and they agree.
Matches(s, noted) == Snapshot(s) = SnapshotOf(EntriesOf(noted, s)) /\ ~Merged(EntriesOf(noted, s)).conflict
\* Of some subjects that do, those another one took the file of are left out.
MatchAmong(written, touched, noted) == \A s \in written : KeepsItsFile(s, touched) => Matches(s, noted)
AllMatch(noted) == MatchAmong(Mentioned(noted), Mentioned(noted), noted)

\* What a run wrote, and what files it opened; it goes through the subjects in their order.
Written(run) == Mentioned(run.seen) \ run.left
Touched(run) == Written(run) \union (IF run.at = "text" THEN {FirstOf(run.left)} ELSE {})
InOrder(run) == \A q \in Written(run), r \in run.left : FirstOf({q, r}) = q

\* As long as no item is written, what the materialiser wrote matches what is active.
BuildingCurrent ==
    /\ built \in {"no", "reading", "yes"}
    /\ builder # Idle => built # "yes"
    /\ builder # Idle /\ builder.at = "text" => ~Merged(EntriesOf(builder.seen, FirstOf(builder.left))).conflict
    /\ builder # Idle => InOrder(builder)
    /\ builder # Idle /\ built = "reading" =>
          builder.seen = ActiveEntries /\ MatchAmong(Written(builder), Touched(builder), builder.seen)
    /\ built = "yes" => AllMatch(ActiveEntries)

MemoryIInv == FilesTyped /\ ActiveIsApproved /\ BuilderHolds /\ SnapshotsMade /\ BuildingCurrent

------------------------------------------------------------------------------
(* Small facts the steps need *)

LEMMA ItemIds == ASSUME NEW e, e \in [id : Items, content : Contents]
                 PROVE  e.id \in Int \X Int /\ e.content \in Contents
  BY MemoryAssumption

\* What is active is finite, and of known subjects.
LEMMA ActiveFinite ==
  /\ IsFiniteSet(ActiveEntries)
  /\ Mentioned(ActiveEntries) \subseteq Range(Subjects)
  <1>1. IsFiniteSet(ActiveIds)
    BY MemoryAssumption, FS_Subset DEF ActiveIds
  <1>2. IsFiniteSet(ActiveEntries)
    <2> DEFINE f == [i \in ActiveIds |-> [id |-> i, content |-> items[i].content]]
    <2>1. f \in Surjection(ActiveIds, ActiveEntries)
      BY DEF Surjection, ActiveEntries
    <2> QED BY <1>1, <2>1, FS_Surjection
  <1>3. Mentioned(ActiveEntries) \subseteq Range(Subjects)
    BY DEF Mentioned, ActiveEntries, ActiveIds, IsState
  <1> QED BY <1>2, <1>3

\* The first of the subjects that are left is one of them.
LEMMA FirstIsLeft ==
  ASSUME NEW left, left # {}, left \subseteq Range(Subjects)
  PROVE  FirstOf(left) \in left
  <1> DEFINE K == {k \in DOMAIN Subjects : Subjects[k] \in left}
  <1>1. DOMAIN Subjects = 1 .. Len(Subjects) /\ Len(Subjects) \in Nat
    BY MemoryAssumption
  <1>2. K \subseteq Nat /\ K # {}
    BY <1>1 DEF Range
  <1>3. \E n \in K : \A m \in K : n <= m
    <2> HIDE DEF K
    <2> QED BY <1>2, LeastNumber
  <1>4. Min(K) \in K
    BY <1>3 DEF Min
  <1> QED BY <1>4 DEF FirstOf

\* It comes before each other of them.
LEMMA FirstComesFirst ==
  ASSUME NEW left, left \subseteq Range(Subjects), NEW r \in left
  PROVE  FirstOf({FirstOf(left), r}) = FirstOf(left)
  <1> DEFINE s == FirstOf(left)
             K == {k \in DOMAIN Subjects : Subjects[k] \in left}
             L == {k \in DOMAIN Subjects : Subjects[k] \in {s, r}}
  <1>1. DOMAIN Subjects = 1 .. Len(Subjects) /\ Len(Subjects) \in Nat
    BY MemoryAssumption
  <1>2. K \subseteq Nat /\ K # {}
    BY <1>1 DEF Range
  <1>3. \E n \in K : \A m \in K : n <= m
    <2> HIDE DEF K
    <2> QED BY <1>2, LeastNumber
  <1>4. Min(K) \in K /\ \A m \in K : Min(K) <= m
    BY <1>3 DEF Min
  <1>5. s = Subjects[Min(K)] /\ s \in left
    BY <1>4 DEF FirstOf
  <1> HIDE DEF s
  <1>6. L \subseteq K /\ Min(K) \in L
    BY <1>4, <1>5
  <1>7. Min(L) = Min(K)
    <2>1. Min(L) \in L /\ \A m \in L : Min(L) <= m
      <3> HIDE DEF K, L
      <3> QED BY <1>4, <1>6 DEF Min
    <2> HIDE DEF K, L
    <2>2. Min(L) <= Min(K) /\ Min(K) <= Min(L) /\ Min(L) \in Nat /\ Min(K) \in Nat
      BY <1>2, <1>4, <1>6, <2>1
    <2> QED BY <2>2
  <1>8. FirstOf({s, r}) = Subjects[Min(L)]
    BY DEF FirstOf
  <1> QED BY <1>5, <1>7, <1>8 DEF s

\* A subject that is still to be written takes the file of one that was.
LEMMA TakesFile ==
  ASSUME NEW q, NEW s, NEW touched, FirstOf({q, s}) = q, q # s, s \in touched, KeepsItsFile(q, touched)
  PROVE  FileOf(s) # FileOf(q)
  <1>1. FileOf(s) = FileOf(q) => FirstOf({s, q}) = s
    BY DEF KeepsItsFile
  <1>2. {s, q} = {q, s}
    OBVIOUS
  <1> QED BY <1>1, <1>2

\* The entries of a subject that is mentioned.
LEMMA EntriesThere ==
  ASSUME NEW noted, IsFiniteSet(noted), NEW s \in Mentioned(noted)
  PROVE  /\ EntriesOf(noted, s) # {} /\ EntriesOf(noted, s) \subseteq noted /\ IsFiniteSet(EntriesOf(noted, s))
         /\ \A e \in EntriesOf(noted, s) : e.content.subject = s
  <1>1. EntriesOf(noted, s) \subseteq noted
    BY DEF EntriesOf
  <1> QED BY <1>1, FS_Subset DEF EntriesOf, Mentioned

\* Nothing but a file is a snapshot.
LEMMA SnapshotIsFile ==
  ASSUME NEW S
  PROVE  /\ SnapshotOf(S).is = "file" /\ SnapshotOf(S).fields = Merged(S).fields
         /\ SnapshotOf(S).subject = Latest(S).content.subject
  BY DEF SnapshotOf

------------------------------------------------------------------------------
(* Steps *)

LEMMA MemoryStarts == MemoryInit => MemoryIInv
  <1> SUFFICES ASSUME MemoryInit PROVE MemoryIInv
    OBVIOUS
  <1>1. FilesTyped
    BY MemoryAssumption DEF MemoryInit, FilesTyped
  <1>2. ActiveIsApproved
    <2>1. \A i \in Items : items[i] \in Files \union {NoItem}
      BY <1>1 DEF FilesTyped
    <2>2. \A i \in Items : items[i].status = "active" => items[i].content \in Contents
      BY <2>1 DEF Files, NoItem
    <2>3. decided \subseteq [id : Items, content : Contents]
      BY <2>2 DEF MemoryInit
    <2>4. \A i \in Items : items[i].status = "active" => Approved(i, items[i])
      BY DEF MemoryInit, Approved
    <2>5. \A u \in Users : work[u] = Idle
      BY DEF MemoryInit
    <2> QED BY <2>3, <2>4, <2>5 DEF ActiveIsApproved
  <1>3. BuilderHolds
    BY DEF MemoryInit, BuilderHolds
  <1>4. SnapshotsMade
    BY DEF MemoryInit, SnapshotsMade
  <1>5. BuildingCurrent
    BY DEF MemoryInit, BuildingCurrent
  <1> QED BY <1>1, <1>2, <1>3, <1>4, <1>5 DEF MemoryIInv

\* More decisions take nothing away from what rests on those before.
LEMMA MoreDecided ==
  ASSUME MemoryIInv, decided \subseteq decided', UNCHANGED <<snapshots, builder>>
  PROVE  BuilderHolds' /\ SnapshotsMade'
  <1>1. BuilderHolds'
    BY DEF MemoryIInv, BuilderHolds
  <1>2. SnapshotsMade'
    BY DEF MemoryIInv, SnapshotsMade, MadeOf
  <1> QED BY <1>1, <1>2

\* Without an item or a snapshot written, what is current stays current.
LEMMA StaysCurrent ==
  ASSUME MemoryIInv, UNCHANGED <<items, snapshots, builder, built>>
  PROVE  BuildingCurrent'
  <1>1. ActiveEntries' = ActiveEntries
    BY DEF ActiveEntries, ActiveIds
  <1>2. /\ \A written, touched, noted : MatchAmong(written, touched, noted)' = MatchAmong(written, touched, noted)
        /\ \A noted : AllMatch(noted)' = AllMatch(noted)
    BY DEF MatchAmong, AllMatch, Matches, Snapshot
  <1>3. BuildingCurrent
    BY DEF MemoryIInv
  <1> QED BY <1>1, <1>2, <1>3 DEF BuildingCurrent

\* A user takes a job, or goes on with the one it has.
LEMMA UserMoves ==
  ASSUME MemoryIInv, NEW u \in Users, NEW job \in Jobs \union {Idle}, work' = [work EXCEPT ![u] = job],
         decided \subseteq decided', decided' \subseteq [id : Items, content : Contents],
         job # Idle /\ job.new.status = "active" => [id |-> job.id, content |-> job.new.content] \in decided',
         UNCHANGED <<items, snapshots, builder, built>>
  PROVE  MemoryIInv'
  <1>1. FilesTyped'
    BY DEF MemoryIInv, FilesTyped
  <1>2. \A q \in Users : work'[q] = IF q = u THEN job ELSE work[q]
    BY DEF MemoryIInv, FilesTyped
  <1>3. \A i \in Items : (items[i].status = "active" => Approved(i, items[i]))'
    BY DEF MemoryIInv, ActiveIsApproved, Approved
  <1>4. ASSUME NEW q \in Users PROVE (work[q] # Idle /\ work[q].new.status = "active" => Approved(work[q].id, work[q].new))'
    <2>1. CASE q = u
      BY <2>1, <1>2 DEF Approved
    <2>2. CASE q # u
      BY <2>2, <1>2 DEF MemoryIInv, ActiveIsApproved, Approved
    <2> QED BY <2>1, <2>2
  <1>5. ActiveIsApproved'
    BY <1>3, <1>4 DEF ActiveIsApproved
  <1>6. BuilderHolds' /\ SnapshotsMade'
    BY MoreDecided
  <1>7. BuildingCurrent'
    BY StaysCurrent
  <1> QED BY <1>1, <1>5, <1>6, <1>7 DEF MemoryIInv

\* What is not NoItem is a file.
LEMMA FileThere ==
  ASSUME MemoryIInv, NEW i \in Items, items[i].status \in Statuses
  PROVE  items[i] \in Files
  <1>1. items[i] \in Files \union {NoItem}
    BY DEF MemoryIInv, FilesTyped
  <1>2. NoItem.status \notin Statuses
    BY DEF NoItem, Statuses
  <1> QED BY <1>1, <1>2

LEMMA FindFreeStep ==
  ASSUME MemoryIInv, NEW u \in Users, NEW i \in Items, NEW content \in Contents, FindFree(u, i, content)
  PROVE  MemoryIInv'
  <1> DEFINE new == [status |-> "candidate", content |-> content, version |-> 1]
             job == [at |-> "add", op |-> "add", id |-> i, old |-> NoItem, new |-> new]
  <1>1. new \in Files
    BY MemoryAssumption DEF Files, Statuses
  <1>2. job \in Jobs
    BY <1>1 DEF Jobs
  <1>3. work' = [work EXCEPT ![u] = job] /\ UNCHANGED <<items, snapshots, builder, built, decided>>
    BY DEF FindFree, Start
  <1>4. job.new.status # "active"
    OBVIOUS
  <1>5. decided \subseteq [id : Items, content : Contents]
    BY DEF MemoryIInv, ActiveIsApproved
  <1> HIDE DEF job, new
  <1> QED BY <1>2, <1>3, <1>4, <1>5, UserMoves

LEMMA DecideItemStep ==
  ASSUME MemoryIInv, NEW u \in Users, NEW op \in DOMAIN Becomes, NEW actor \in Actors, NEW i \in Items,
         Decide(u, op, actor, i)
  PROVE  MemoryIInv'
  <1> DEFINE new == [items[i] EXCEPT !.status = Becomes[op]]
             job == [at |-> "write", op |-> op, id |-> i, old |-> items[i], new |-> new]
  <1>1. op \in {"approve", "reject", "archive"}
    BY DEF Becomes
  <1>2. Becomes[op] \in Statuses /\ (Becomes[op] = "active" <=> op = "approve") /\ Allowed[op] \subseteq Statuses
    BY <1>1 DEF Becomes, Allowed, Statuses
  <1>3. items[i] \in Files
    BY <1>2, FileThere DEF Decide
  <1>4. new \in Files /\ new.content = items[i].content /\ new.status = Becomes[op] /\ items[i].content \in Contents
    BY <1>2, <1>3 DEF Files
  <1>5. job \in Jobs
    <2>1. op \in {"add"} \union DOMAIN Allowed
      BY <1>1 DEF Allowed
    <2> QED BY <1>3, <1>4, <2>1 DEF Jobs
  <1>6. work' = [work EXCEPT ![u] = job] /\ UNCHANGED <<items, snapshots, builder, built>>
    BY DEF Decide, Start
  <1>7. decided' = IF op = "approve" THEN decided \union {[id |-> i, content |-> items[i].content]} ELSE decided
    BY DEF Decide
  <1>8. decided \subseteq [id : Items, content : Contents]
    BY DEF MemoryIInv, ActiveIsApproved
  <1>9. decided \subseteq decided' /\ decided' \subseteq [id : Items, content : Contents]
    BY <1>4, <1>7, <1>8
  <1>10. job.id = i /\ job.new = new
    OBVIOUS
  <1>11. job.new.status = "active" => [id |-> job.id, content |-> job.new.content] \in decided'
    <2>1. new.status = "active" => decided' = decided \union {[id |-> i, content |-> items[i].content]}
      BY <1>2, <1>4, <1>7
    <2>2. [id |-> job.id, content |-> job.new.content] = [id |-> i, content |-> items[i].content]
      <3> HIDE DEF job, new
      <3> QED BY <1>4, <1>10
    <2> HIDE DEF job, new
    <2> QED BY <2>1, <2>2, <1>10
  <1> HIDE DEF job, new
  <1> QED BY <1>5, <1>6, <1>9, <1>11, UserMoves

LEMMA ReviseStep ==
  ASSUME MemoryIInv, NEW u \in Users, NEW i \in Items, NEW content \in Contents, Revise(u, i, content)
  PROVE  MemoryIInv'
  <1> DEFINE new == Revised(items[i], content)
             job == [at |-> "keep", op |-> "revise", id |-> i, old |-> items[i], new |-> new]
  <1>1. items[i] \in Files /\ items[i].version \in 1 .. MaxVersion /\ items[i].version < MaxVersion
    <2>1. items[i] \in Files
      BY FileThere DEF Revise, Allowed
    <2> QED BY <2>1 DEF Revise, Files
  <1>2. items[i].version + 1 \in 1 .. MaxVersion
    BY <1>1, MemoryAssumption
  <1>3. new \in Files /\ new.status = "candidate"
    BY <1>2 DEF Revised, Files, Statuses
  <1>4. job \in Jobs
    BY <1>1, <1>3 DEF Jobs, Allowed
  <1>5. work' = [work EXCEPT ![u] = job] /\ UNCHANGED <<items, snapshots, builder, built, decided>>
    BY DEF Revise, Start
  <1>6. job.new.status # "active"
    BY <1>3
  <1>7. decided \subseteq [id : Items, content : Contents]
    BY DEF MemoryIInv, ActiveIsApproved
  <1> HIDE DEF job, new
  <1> QED BY <1>4, <1>5, <1>6, <1>7, UserMoves

\* A job goes on to its next step.
LEMMA JobGoesOn ==
  ASSUME MemoryIInv, NEW u \in Users, NEW at \in {"keep", "write", "audit", "idle"}, work[u] # Idle, Go(u, at),
         UNCHANGED <<items, snapshots, builder, built, decided>>
  PROVE  MemoryIInv'
  <1>1. work[u] \in Jobs
    BY DEF MemoryIInv, FilesTyped
  <1> DEFINE job == IF at = "idle" THEN Idle ELSE [work[u] EXCEPT !.at = at]
  <1>2. work' = [work EXCEPT ![u] = job]
    BY DEF Go
  <1>3. job \in Jobs \union {Idle} /\ (job # Idle => job.new = work[u].new /\ job.id = work[u].id)
    BY <1>1 DEF Jobs
  <1>4. work[u].new.status = "active" => [id |-> work[u].id, content |-> work[u].new.content] \in decided
    BY DEF MemoryIInv, ActiveIsApproved, Approved
  <1>5. decided \subseteq [id : Items, content : Contents]
    BY DEF MemoryIInv, ActiveIsApproved
  <1> HIDE DEF job
  <1> QED BY <1>2, <1>3, <1>4, <1>5, UserMoves

LEMMA WriteItemStep ==
  ASSUME MemoryIInv, NEW u \in Users, WriteItem(u)
  PROVE  MemoryIInv'
  <1>1. work[u] \in Jobs /\ work[u] # Idle
    BY DEF MemoryIInv, FilesTyped, WriteItem, Idle
  <1>2. work[u].id \in Items /\ work[u].new \in Files
    BY <1>1 DEF Jobs
  <1>3. PICK i \in Items, file \in Files : i = work[u].id /\ file = work[u].new
    BY <1>2
  <1>4. items' = [items EXCEPT ![i] = file]
    BY <1>3 DEF WriteItem
  <1> DEFINE at == IF work[u].at = "add" THEN "idle" ELSE "audit"
             job == IF at = "idle" THEN Idle ELSE [work[u] EXCEPT !.at = at]
  <1>5. work' = [work EXCEPT ![u] = job]
    BY DEF WriteItem, Go
  <1>6. job \in Jobs \union {Idle} /\ (job # Idle => job.new = file /\ job.id = i)
    BY <1>1, <1>3 DEF Jobs
  <1> HIDE DEF job
  <1>7. FilesTyped'
    BY <1>4, <1>5, <1>6 DEF MemoryIInv, FilesTyped
  <1>8. UNCHANGED <<decided, snapshots, builder>> /\ built' = "no"
    BY DEF WriteItem
  <1>9. file.status = "active" => [id |-> i, content |-> file.content] \in decided
    BY <1>1, <1>3 DEF MemoryIInv, ActiveIsApproved, Approved
  <1>10. ActiveIsApproved'
    <2>1. \A j \in Items : items'[j] = IF j = i THEN file ELSE items[j]
      BY <1>4 DEF MemoryIInv, FilesTyped
    <2>2. \A q \in Users : work'[q] = IF q = u THEN job ELSE work[q]
      BY <1>5 DEF MemoryIInv, FilesTyped
    <2>3. (\A j \in Items : items[j].status = "active" => Approved(j, items[j]))'
      BY <2>1, <1>8, <1>9 DEF MemoryIInv, ActiveIsApproved, Approved
    <2>4. (\A q \in Users : work[q] # Idle /\ work[q].new.status = "active" => Approved(work[q].id, work[q].new))'
      BY <2>2, <1>6, <1>8, <1>9 DEF MemoryIInv, ActiveIsApproved, Approved
    <2> QED BY <2>3, <2>4, <1>8 DEF MemoryIInv, ActiveIsApproved
  <1>11. BuilderHolds' /\ SnapshotsMade'
    BY <1>8, MoreDecided
  <1>12. BuildingCurrent'
    <2>1. BuildingCurrent /\ built' # "yes" /\ built' # "reading" /\ builder' = builder
      BY <1>8 DEF MemoryIInv
    <2> QED BY <2>1, <1>8 DEF BuildingCurrent
  <1> QED BY <1>7, <1>10, <1>11, <1>12 DEF MemoryIInv

LEMMA BuilderEnds ==
  ASSUME MemoryIInv, builder' = Idle, UNCHANGED <<items, snapshots, work, decided>>,
         built' \in {"no", "reading", "yes"}, built' = "yes" => AllMatch(ActiveEntries)
  PROVE  MemoryIInv'
  <1>1. FilesTyped' /\ ActiveIsApproved'
    BY DEF MemoryIInv, FilesTyped, ActiveIsApproved, Approved
  <1>2. BuilderHolds'
    BY DEF BuilderHolds
  <1>3. SnapshotsMade'
    BY DEF MemoryIInv, SnapshotsMade, MadeOf
  <1>4. ActiveEntries' = ActiveEntries /\ \A noted : AllMatch(noted)' = AllMatch(noted)
    BY DEF ActiveEntries, ActiveIds, MatchAmong, AllMatch, Matches, Snapshot
  <1>5. BuildingCurrent'
    BY <1>4 DEF BuildingCurrent
  <1> QED BY <1>1, <1>2, <1>3, <1>5 DEF MemoryIInv

LEMMA ReadActiveStep ==
  ASSUME MemoryIInv, ReadActive
  PROVE  MemoryIInv'
  <1>1. UNCHANGED <<items, snapshots, work, decided>>
    BY DEF ReadActive, users
  <1>2. CASE ActiveEntries = {}
    <2>1. builder' = Idle /\ built' = "yes"
      BY <1>2 DEF ReadActive
    <2>2. Mentioned(ActiveEntries) = {}
      BY <1>2 DEF Mentioned
    <2>3. AllMatch(ActiveEntries)
      BY <2>2 DEF AllMatch, MatchAmong
    <2> QED BY <1>1, <2>1, <2>3, BuilderEnds
  <1>3. CASE ActiveEntries # {}
    <2>1. builder' = BuilderIs("open", ActiveEntries, Mentioned(ActiveEntries)) /\ built' = "reading"
      BY <1>3 DEF ReadActive
    <2>2. /\ builder'.at = "open" /\ builder'.seen = ActiveEntries /\ builder'.left = Mentioned(ActiveEntries)
          /\ builder' = BuilderIs(builder'.at, builder'.seen, builder'.left) /\ builder' # Idle
      BY <2>1 DEF BuilderIs, Idle
    <2>3. FilesTyped' /\ ActiveIsApproved'
      BY <1>1 DEF MemoryIInv, FilesTyped, ActiveIsApproved, Approved
    <2>4. Mentioned(ActiveEntries) # {}
      BY <1>3 DEF Mentioned
    <2>5. ActiveEntries \subseteq decided
      BY DEF MemoryIInv, ActiveIsApproved, Approved, ActiveEntries, ActiveIds
    <2>6. BuilderHolds'
      BY <1>1, <2>2, <2>4, <2>5, ActiveFinite DEF BuilderHolds
    <2>7. SnapshotsMade'
      BY <1>1 DEF MemoryIInv, SnapshotsMade, MadeOf
    <2>8. ActiveEntries' = ActiveEntries
      BY <1>1 DEF ActiveEntries, ActiveIds
    <2>9. BuildingCurrent'
      <3>1. builder'.at # "text" /\ built' # "yes"
        BY <2>1, <2>2
      <3>2. Written(builder') = {}
        BY <2>2 DEF Written
      <3>3. InOrder(builder') /\ MatchAmong(Written(builder), Touched(builder), builder.seen)'
        BY <3>2 DEF InOrder, MatchAmong
      <3> QED BY <2>1, <2>2, <2>8, <3>1, <3>3 DEF BuildingCurrent
    <2> QED BY <2>3, <2>6, <2>7, <2>9 DEF MemoryIInv
  <1> QED BY <1>2, <1>3

LEMMA BuilderStops ==
  ASSUME MemoryIInv, Conflict \/ CrashBuilder
  PROVE  MemoryIInv'
  <1>1. builder' = Idle /\ UNCHANGED <<items, snapshots, work, decided, built>>
    BY DEF Conflict, CrashBuilder, users
  <1>2. built \in {"no", "reading", "yes"} /\ (built = "yes" => AllMatch(ActiveEntries))
    BY DEF MemoryIInv, BuildingCurrent
  <1> QED BY <1>1, <1>2, BuilderEnds

\* The run that is under way, and the subject it is at.
LEMMA BuilderThere ==
  ASSUME MemoryIInv, builder # Idle
  PROVE  /\ builder.at \in {"open", "text"} /\ builder = BuilderIs(builder.at, builder.seen, builder.left)
         /\ builder.seen \subseteq decided /\ IsFiniteSet(builder.seen)
         /\ Mentioned(builder.seen) \subseteq Range(Subjects)
         /\ builder.left # {} /\ builder.left \subseteq Mentioned(builder.seen)
         /\ FirstOf(builder.left) \in builder.left
         /\ built \in {"no", "reading"} /\ InOrder(builder)
  <1>1. /\ builder.at \in {"open", "text"} /\ builder = BuilderIs(builder.at, builder.seen, builder.left)
        /\ builder.seen \subseteq decided /\ IsFiniteSet(builder.seen)
        /\ Mentioned(builder.seen) \subseteq Range(Subjects)
        /\ builder.left # {} /\ builder.left \subseteq Mentioned(builder.seen)
    BY DEF MemoryIInv, BuilderHolds
  <1>2. builder.left \subseteq Range(Subjects)
    BY <1>1
  <1>3. FirstOf(builder.left) \in builder.left
    BY <1>1, <1>2, FirstIsLeft
  <1>4. built \in {"no", "reading"} /\ InOrder(builder)
    BY DEF MemoryIInv, BuildingCurrent
  <1> QED BY <1>1, <1>3, <1>4

LEMMA OpenSnapshotStep ==
  ASSUME MemoryIInv, OpenSnapshot
  PROVE  MemoryIInv'
  <1>1. builder # Idle /\ builder.at = "open"
    BY DEF OpenSnapshot, Idle
  <1>2. PICK s, noted, left : /\ s = FirstOf(left) /\ noted = builder.seen /\ left = builder.left
                             /\ builder = BuilderIs("open", noted, left)
    BY <1>1, BuilderThere
  <1>3. s \in left /\ s \in Range(Subjects) /\ noted \subseteq decided /\ built \in {"no", "reading"}
    BY <1>1, <1>2, BuilderThere
  <1>4. /\ ~Merged(EntriesOf(noted, s)).conflict /\ snapshots' = [snapshots EXCEPT ![FileOf(s)] = Torn]
        /\ UNCHANGED <<items, work, decided, built>>
    BY <1>2 DEF OpenSnapshot, users
  <1>5. builder' = BuilderIs("text", noted, left)
    BY <1>2 DEF OpenSnapshot, BuilderIs
  <1>6. builder'.at = "text" /\ builder'.seen = noted /\ builder'.left = left /\ builder' # Idle
    BY <1>5 DEF BuilderIs, Idle
  <1>7. FilesTyped' /\ ActiveIsApproved'
    BY <1>4 DEF MemoryIInv, FilesTyped, ActiveIsApproved, Approved
  <1>8. BuilderHolds'
    <2>1. IsFiniteSet(noted) /\ Mentioned(noted) \subseteq Range(Subjects) /\ left # {} /\ left \subseteq Mentioned(noted)
      BY <1>1, <1>2, BuilderThere
    <2> QED BY <2>1, <1>3, <1>4, <1>5, <1>6 DEF BuilderHolds
  <1>9. /\ DOMAIN snapshots' = SnapshotFiles /\ snapshots' = [f \in SnapshotFiles |-> snapshots'[f]]
        /\ \A f \in SnapshotFiles : snapshots'[f] = IF f = FileOf(s) THEN Torn ELSE snapshots[f]
    BY <1>4 DEF MemoryIInv, SnapshotsMade
  <1>10. SnapshotsMade'
    BY <1>4, <1>9 DEF MemoryIInv, SnapshotsMade, MadeOf
  <1>11. ActiveEntries' = ActiveEntries
    BY <1>4 DEF ActiveEntries, ActiveIds
  <1>12. BuildingCurrent'
    <2>1. built' \in {"no", "reading"}
      BY <1>3, <1>4
    <2>2. /\ Written(builder) = Mentioned(noted) \ left /\ Written(builder') = Mentioned(noted) \ left
          /\ Touched(builder) = Mentioned(noted) \ left /\ Touched(builder') = (Mentioned(noted) \ left) \union {s}
      BY <1>1, <1>2, <1>6 DEF Written, Touched
    <2>3. InOrder(builder) /\ InOrder(builder')
      <3>1. InOrder(builder)
        BY <1>1, BuilderThere
      <3> QED BY <3>1, <2>2, <1>2, <1>6 DEF InOrder
    <2>4. ASSUME built' = "reading", NEW q \in Mentioned(noted) \ left, KeepsItsFile(q, (Mentioned(noted) \ left) \union {s})
          PROVE  Matches(q, noted)'
      <3>1. KeepsItsFile(q, Mentioned(noted) \ left)
        BY <2>4 DEF KeepsItsFile
      <3>2. Matches(q, noted)
        BY <3>1, <2>2, <2>4, <1>1, <1>2, <1>4 DEF MemoryIInv, BuildingCurrent, MatchAmong
      <3>3. q \in Range(Subjects) /\ q # s /\ FirstOf({q, s}) = q
        BY <2>2, <2>3, <1>1, <1>2, <1>3, BuilderThere DEF InOrder
      <3>4. FileOf(s) # FileOf(q) /\ FileOf(q) \in SnapshotFiles
        BY <2>4, <3>3, TakesFile DEF SnapshotFiles
      <3>5. Snapshot(q)' = Snapshot(q)
        BY <1>9, <3>4 DEF Snapshot
      <3> QED BY <3>2, <3>5 DEF Matches
    <2>5. built' = "reading" => MatchAmong(Written(builder), Touched(builder), noted)'
      BY <2>2, <2>4 DEF MatchAmong
    <2>6. built' = "reading" => builder'.seen = ActiveEntries'
      BY <1>1, <1>2, <1>4, <1>6, <1>11 DEF MemoryIInv, BuildingCurrent
    <2>7. ~Merged(EntriesOf(builder'.seen, FirstOf(builder'.left))).conflict
      BY <1>2, <1>4, <1>6
    <2> QED BY <2>1, <2>3, <2>5, <2>6, <2>7, <1>6 DEF BuildingCurrent
  <1> QED BY <1>7, <1>8, <1>10, <1>12 DEF MemoryIInv

LEMMA WriteSnapshotStep ==
  ASSUME MemoryIInv, WriteSnapshot
  PROVE  MemoryIInv'
  <1>1. builder # Idle /\ builder.at = "text"
    BY DEF WriteSnapshot, Idle
  <1>2. PICK s, noted, left : s = FirstOf(left) /\ noted = builder.seen /\ left = builder.left
    OBVIOUS
  <1> DEFINE E == EntriesOf(noted, s)
             rest == left \ {s}
  <1>3. /\ s \in left /\ s \in Range(Subjects) /\ noted \subseteq decided /\ built \in {"no", "reading"}
        /\ IsFiniteSet(noted) /\ Mentioned(noted) \subseteq Range(Subjects) /\ left \subseteq Mentioned(noted)
        /\ s \in Mentioned(noted) /\ InOrder(builder)
    BY <1>1, <1>2, BuilderThere
  <1>4. /\ snapshots' = [snapshots EXCEPT ![FileOf(s)] = SnapshotOf(E)] /\ UNCHANGED <<items, work, decided>>
        /\ builder' = (IF rest = {} THEN Idle ELSE BuilderIs("open", noted, rest))
        /\ built' = (IF rest = {} /\ built = "reading" THEN "yes" ELSE built)
    BY <1>2 DEF WriteSnapshot, users
  <1>5. E # {} /\ E \subseteq decided /\ IsFiniteSet(E) /\ \A e \in E : e.content.subject = s
    BY <1>3, EntriesThere
  <1>6. ~Merged(E).conflict
    BY <1>1, <1>2 DEF MemoryIInv, BuildingCurrent
  <1>7. built = "reading" => noted = ActiveEntries /\ MatchAmong(Mentioned(noted) \ left, Mentioned(noted) \ rest, noted)
    <2>1. Written(builder) = Mentioned(noted) \ left /\ Touched(builder) = Mentioned(noted) \ rest
      BY <1>1, <1>2, <1>3 DEF Written, Touched
    <2> QED BY <2>1, <1>1, <1>2 DEF MemoryIInv, BuildingCurrent
  <1> HIDE DEF E, rest
  <1>8. FilesTyped' /\ ActiveIsApproved'
    BY <1>4 DEF MemoryIInv, FilesTyped, ActiveIsApproved, Approved
  <1>9. /\ DOMAIN snapshots' = SnapshotFiles /\ snapshots' = [f \in SnapshotFiles |-> snapshots'[f]]
        /\ \A f \in SnapshotFiles : snapshots'[f] = IF f = FileOf(s) THEN SnapshotOf(E) ELSE snapshots[f]
        /\ FileOf(s) \in SnapshotFiles
    BY <1>3, <1>4 DEF MemoryIInv, SnapshotsMade, SnapshotFiles
  <1>10. SnapshotsMade'
    <2>1. ASSUME NEW f \in SnapshotFiles
          PROVE  snapshots'[f] \in {Missing, Torn} \/ \E S \in SUBSET decided : MadeOf(snapshots'[f], f, S)
      <3>1. CASE f = FileOf(s)
        <4>1. \A e \in E : e.id \in Int \X Int
          BY <1>5, ItemIds DEF MemoryIInv, ActiveIsApproved
        <4>2. Latest(E) \in E
          BY <4>1, <1>5, LatestThere
        <4>3. SnapshotOf(E).subject = s
          BY <4>2, <1>5, SnapshotIsFile
        <4> QED BY <3>1, <4>3, <1>5, <1>9 DEF MadeOf
      <3>2. CASE f # FileOf(s)
        BY <3>2, <1>9 DEF MemoryIInv, SnapshotsMade
      <3> QED BY <3>1, <3>2
    <2>2. decided' = decided
      BY <1>4
    <2>3. PICK files, known : files = snapshots' /\ known = decided'
      OBVIOUS
    <2>4. \A f \in SnapshotFiles : files[f] \in {Missing, Torn} \/ \E S \in SUBSET known : MadeOf(files[f], f, S)
      BY <2>1, <2>2, <2>3
    <2> QED BY <1>9, <2>3, <2>4 DEF SnapshotsMade, MadeOf
  <1>11. ActiveEntries' = ActiveEntries
    BY <1>4 DEF ActiveEntries, ActiveIds
  <1>12. ASSUME built = "reading", NEW q \in Mentioned(noted) \ rest, KeepsItsFile(q, Mentioned(noted) \ rest)
         PROVE  Matches(q, noted)'
    <2>1. CASE q = s
      BY <2>1, <1>6, <1>9 DEF Matches, Snapshot, E
    <2>2. CASE q # s
      <3>1. q \in Range(Subjects) /\ q \in Mentioned(noted) \ left /\ s \in Mentioned(noted) \ rest
        BY <2>2, <1>3, <1>12 DEF rest
      <3>2. Matches(q, noted)
        BY <3>1, <1>7, <1>12 DEF MatchAmong
      <3>3. FirstOf({q, s}) = q
        BY <3>1, <1>2, <1>3 DEF InOrder, Written
      <3>4. FileOf(s) # FileOf(q) /\ FileOf(q) \in SnapshotFiles
        BY <2>2, <3>1, <3>3, <1>12, TakesFile DEF SnapshotFiles
      <3>5. Snapshot(q)' = Snapshot(q)
        BY <3>4, <1>9 DEF Snapshot
      <3> QED BY <3>2, <3>5 DEF Matches
    <2> QED BY <2>1, <2>2
  <1>13. CASE rest = {}
    <2>1. builder' = Idle /\ built' \in {"no", "yes"} /\ (built' = "yes" => built = "reading")
      BY <1>3, <1>4, <1>13
    <2>2. BuilderHolds'
      BY <2>1 DEF BuilderHolds
    <2>3. built' = "yes" => AllMatch(ActiveEntries)'
      <3>1. SUFFICES ASSUME built' = "yes", NEW q \in Mentioned(noted), KeepsItsFile(q, Mentioned(noted))
                     PROVE  Matches(q, noted)'
        BY <2>1, <1>7, <1>11 DEF AllMatch, MatchAmong
      <3>2. Mentioned(noted) \ rest = Mentioned(noted) /\ built = "reading"
        BY <3>1, <2>1, <1>13
      <3> QED BY <3>1, <3>2, <1>12
    <2>4. BuildingCurrent'
      BY <2>1, <2>3 DEF BuildingCurrent
    <2> QED BY <1>8, <1>10, <2>2, <2>4 DEF MemoryIInv
  <1>14. CASE rest # {}
    <2>1. builder' = BuilderIs("open", noted, rest) /\ built' = built
      BY <1>4, <1>14
    <2>2. builder'.at = "open" /\ builder'.seen = noted /\ builder'.left = rest /\ builder' # Idle
      BY <2>1 DEF BuilderIs, Idle
    <2>3. BuilderHolds'
      <3>1. rest \subseteq Mentioned(noted)
        BY <1>3 DEF rest
      <3> QED BY <3>1, <2>1, <2>2, <1>3, <1>4, <1>14 DEF BuilderHolds
    <2>4. Written(builder') = Mentioned(noted) \ rest /\ Touched(builder') = Mentioned(noted) \ rest
      BY <2>2 DEF Written, Touched
    <2>5. built' = "reading" =>
            builder'.seen = ActiveEntries' /\ MatchAmong(Mentioned(noted) \ rest, Mentioned(noted) \ rest, noted)'
      <3>1. SUFFICES ASSUME built' = "reading"
                     PROVE  builder'.seen = ActiveEntries' /\ MatchAmong(Mentioned(noted) \ rest, Mentioned(noted) \ rest, noted)'
        OBVIOUS
      <3>2. built = "reading"
        BY <3>1, <2>1
      <3>3. MatchAmong(Mentioned(noted) \ rest, Mentioned(noted) \ rest, noted)'
        BY <3>2, <1>12 DEF MatchAmong
      <3> QED BY <3>2, <3>3, <2>2, <1>7, <1>11
    <2>6. InOrder(builder')
      <3>1. SUFFICES ASSUME NEW q \in Mentioned(noted) \ rest, NEW r \in rest PROVE FirstOf({q, r}) = q
        BY <2>2, <2>4 DEF InOrder
      <3>2. r \in left
        BY DEF rest
      <3>3. CASE q = s
        <4>1. left \subseteq Range(Subjects)
          BY <1>3
        <4> QED BY <3>2, <3>3, <4>1, <1>2, FirstComesFirst
      <3>4. CASE q # s
        <4>1. q \in Written(builder)
          BY <3>4, <1>2 DEF Written, rest
        <4> QED BY <3>2, <4>1, <1>2, <1>3 DEF InOrder
      <3> QED BY <3>3, <3>4
    <2>7. BuildingCurrent'
      <3>1. built' \in {"no", "reading"} /\ builder'.at # "text"
        BY <1>3, <2>1, <2>2
      <3> QED BY <3>1, <2>2, <2>4, <2>5, <2>6 DEF BuildingCurrent
    <2> QED BY <1>8, <1>10, <2>3, <2>7 DEF MemoryIInv
  <1> QED BY <1>13, <1>14

LEMMA MemoryHolds == MemorySpec => []MemoryIInv
  <1>1. ASSUME MemoryIInv, [MemoryNext]_memoryVars PROVE MemoryIInv'
    <2>1. ASSUME NEW u \in Users, UserNext(u) PROVE MemoryIInv'
      <3>1. ASSUME NEW i \in Items, NEW content \in Contents, FindFree(u, i, content) PROVE MemoryIInv'
        BY <1>1, <3>1, FindFreeStep
      <3>2. ASSUME NEW op \in DOMAIN Becomes, NEW actor \in Actors, NEW i \in Items, Decide(u, op, actor, i)
            PROVE  MemoryIInv'
        BY <1>1, <3>2, DecideItemStep
      <3>3. ASSUME NEW i \in Items, NEW content \in Contents, Revise(u, i, content) PROVE MemoryIInv'
        BY <1>1, <3>3, ReviseStep
      <3>4. CASE KeepRevision(u)
        <4>1. work[u] # Idle /\ Go(u, "write") /\ UNCHANGED <<items, snapshots, builder, built, decided>>
          BY <3>4 DEF KeepRevision, Idle
        <4> QED BY <1>1, <4>1, JobGoesOn
      <3>5. CASE WriteItem(u)
        BY <1>1, <3>5, WriteItemStep
      <3>6. CASE AppendAudit(u)
        <4>1. work[u] # Idle /\ Go(u, "idle") /\ UNCHANGED <<items, snapshots, builder, built, decided>>
          BY <3>6 DEF AppendAudit, Idle
        <4> QED BY <1>1, <4>1, JobGoesOn
      <3>7. CASE CrashUser(u)
        <4>1. work[u] # Idle /\ Go(u, "idle") /\ UNCHANGED <<items, snapshots, builder, built, decided>>
          BY <3>7 DEF CrashUser
        <4> QED BY <1>1, <4>1, JobGoesOn
      <3> QED BY <2>1, <3>1, <3>2, <3>3, <3>4, <3>5, <3>6, <3>7 DEF UserNext
    <2>2. CASE ReadActive
      BY <1>1, <2>2, ReadActiveStep
    <2>3. CASE Conflict \/ CrashBuilder
      BY <1>1, <2>3, BuilderStops
    <2>4. CASE OpenSnapshot
      BY <1>1, <2>4, OpenSnapshotStep
    <2>5. CASE WriteSnapshot
      BY <1>1, <2>5, WriteSnapshotStep
    <2>6. CASE UNCHANGED memoryVars
      <3>1. UNCHANGED <<items, snapshots, work, builder, built, decided>>
        BY <2>6 DEF memoryVars
      <3>2. FilesTyped' /\ ActiveIsApproved'
        BY <1>1, <3>1 DEF MemoryIInv, FilesTyped, ActiveIsApproved, Approved
      <3>3. BuilderHolds' /\ SnapshotsMade'
        BY <1>1, <3>1, MoreDecided
      <3>4. BuildingCurrent'
        BY <1>1, <3>1, StaysCurrent
      <3> QED BY <3>2, <3>3, <3>4 DEF MemoryIInv
    <2> QED BY <1>1, <2>1, <2>2, <2>3, <2>4, <2>5, <2>6 DEF MemoryNext
  <1> QED BY MemoryStarts, <1>1, PTL DEF MemorySpec

------------------------------------------------------------------------------
(* What follows *)

LEMMA MemoryTyped == MemoryIInv => TypeOK
  <1> SUFFICES ASSUME MemoryIInv PROVE TypeOK
    OBVIOUS
  <1>1. ASSUME NEW i \in Items PROVE items[i] = NoItem \/ (items[i].status \in Statuses /\ items[i].version \in 1 .. MaxVersion)
    BY DEF MemoryIInv, FilesTyped, Files
  <1>2. ASSUME NEW f \in SnapshotFiles PROVE snapshots[f].is \in {"missing", "torn", "file"}
    <2>1. CASE snapshots[f] \in {Missing, Torn}
      BY <2>1 DEF Missing, Torn
    <2>2. CASE \E S : MadeOf(snapshots[f], f, S)
      BY <2>2, SnapshotIsFile DEF MadeOf
    <2> QED BY <2>1, <2>2 DEF MemoryIInv, SnapshotsMade
  <1>3. ASSUME NEW u \in Users PROVE work[u].at \in {"idle", "add", "keep", "write", "audit"}
    BY DEF MemoryIInv, FilesTyped, Jobs, Idle
  <1>4. builder.at \in {"idle", "open", "text"}
    BY DEF MemoryIInv, BuilderHolds, Idle
  <1>5. built \in {"no", "reading", "yes"}
    BY DEF MemoryIInv, BuildingCurrent
  <1> QED BY <1>1, <1>2, <1>3, <1>4, <1>5 DEF TypeOK

\* A snapshot file is what approved entries of its subject are merged to.
LEMMA FileIsMade ==
  ASSUME MemoryIInv, NEW f \in SnapshotFiles, snapshots[f].is = "file"
  PROVE  \E S \in SUBSET decided : MadeOf(snapshots[f], f, S) /\ S \subseteq [id : Items, content : Contents]
  <1>1. snapshots[f] \notin {Missing, Torn}
    BY DEF Missing, Torn
  <1> QED BY <1>1 DEF MemoryIInv, SnapshotsMade, ActiveIsApproved

LEMMA SnapshotsRest == MemoryIInv => SnapshotsRestOnDecisions
  <1> SUFFICES ASSUME MemoryIInv, NEW file \in Range(snapshots), file.is = "file",
                      NEW f \in DOMAIN file.fields, NEW x \in Range(file.fields[f].of)
               PROVE  \E d \in decided : /\ d.content.subject = file.subject /\ f \in DOMAIN d.content.fields
                                         /\ x \in Range(d.content.fields[f].of)
    BY DEF SnapshotsRestOnDecisions
  <1>1. PICK name \in SnapshotFiles : file = snapshots[name]
    BY DEF MemoryIInv, SnapshotsMade, Range
  <1>2. PICK S \in SUBSET decided : MadeOf(file, name, S) /\ S \subseteq [id : Items, content : Contents]
    BY <1>1, FileIsMade
  <1>3. IsFiniteSet(S) /\ file.fields = Merged(S).fields /\ \A e \in S : e.content.subject = file.subject
    BY <1>2, SnapshotIsFile DEF MadeOf
  <1>4. \A e \in S : e.id \in Int \X Int /\ e.content \in Contents
    BY <1>2, ItemIds
  <1>5. Rests(Merged(S), S)
    BY <1>3, <1>4, MergedRests
  <1>6. Said(S, f, x)
    BY <1>3, <1>5 DEF Rests
  <1> QED BY <1>2, <1>3, <1>6 DEF Said

\* Every variable of the memory holds what its file or process can hold (TypeOK).
THEOREM MemoryIsTyped == MemorySpec => []TypeOK
  BY MemoryHolds, MemoryTyped, PTL

\* Nothing reaches a snapshot that a human did not approve in that very text, however reviews,
\* revisions and runs of the materialiser interleave or die (SnapshotsRestOnDecisions).
THEOREM SnapshotsRestOnHumans == MemorySpec => []SnapshotsRestOnDecisions
  BY MemoryHolds, SnapshotsRest, PTL

------------------------------------------------------------------------------
(* Folding over the numbers up to n *)

\* A step on a set of states is folded over the numbers up to n.
Folds(g, St, base, n, step) ==
    /\ g \in [SUBSET (1 .. n) -> St]
    /\ \A T \in SUBSET (1 .. n) : g[T] = IF T = {} THEN base ELSE step[<<g[T \ {Max(T)}], Max(T)>>]

LEMMA FoldThere ==
  ASSUME NEW St, NEW base \in St, NEW n \in Nat, NEW step \in [St \X (1 .. n) -> St]
  PROVE  \E g : Folds(g, St, base, n, step)
  <1> DEFINE Folded(g, T) == IF T = {} THEN base ELSE step[<<g[T \ {Max(T)}], Max(T)>>]
             Solves(g, k) == g \in [SUBSET (1 .. k) -> St] /\ \A T \in SUBSET (1 .. k) : g[T] = Folded(g, T)
             Bad == {k \in 0 .. n : ~ \E g : Solves(g, k)}
  <1>1. Bad = {}
    <2> SUFFICES ASSUME Bad # {} PROVE FALSE
      OBVIOUS
    <2>1. 0 \notin Bad
      <3>1. SUBSET (1 .. 0) = {{}}
        OBVIOUS
      <3>2. Solves([T \in {{}} |-> base], 0)
        BY <3>1
      <3> QED BY <3>2
    <2>2. PICK k \in Bad : k \in Nat /\ k # 0 /\ k - 1 \in Nat /\ k - 1 \notin Bad
      <3>1. Bad \subseteq Nat
        OBVIOUS
      <3> HIDE DEF Bad
      <3> QED BY <2>1, <3>1, FirstFailure
    <2>3. k - 1 \in 0 .. n /\ k \in 1 .. n
      BY <2>2
    <2>4. PICK g : Solves(g, k - 1)
      BY <2>2, <2>3
    <2> DEFINE h == [T \in SUBSET (1 .. k) |-> IF k \in T THEN step[<<g[T \ {k}], k>>] ELSE g[T]]
    <2>5. \A T \in SUBSET (1 .. k) : k \notin T => T \in SUBSET (1 .. k - 1) /\ g[T] \in St /\ g[T] = Folded(g, T)
      <3>1. \A i \in 1 .. k : i # k => i \in 1 .. k - 1
        BY <2>2
      <3>2. \A T \in SUBSET (1 .. k) : k \notin T => T \in SUBSET (1 .. k - 1)
        BY <3>1
      <3> QED BY <3>2, <2>4
    <2>6. \A T \in SUBSET (1 .. k) : T \ {k} \in SUBSET (1 .. k) /\ k \notin T \ {k}
      OBVIOUS
    <2>7. h \in [SUBSET (1 .. k) -> St]
      <3>1. ASSUME NEW T \in SUBSET (1 .. k) PROVE (IF k \in T THEN step[<<g[T \ {k}], k>>] ELSE g[T]) \in St
        <4>1. g[T \ {k}] \in St
          BY <2>5, <2>6
        <4>2. step[<<g[T \ {k}], k>>] \in St
          BY <4>1, <2>3
        <4> QED BY <4>2, <2>5
      <3> QED BY <3>1
    <2>8. ASSUME NEW T \in SUBSET (1 .. k) PROVE h[T] = Folded(h, T)
      <3>1. CASE k \in T
        <4>1. Max(T) = k
          BY <3>1, <2>2, GreatestIsLast
        <4>2. h[T \ {k}] = g[T \ {k}]
          BY <2>6
        <4> QED BY <3>1, <4>1, <4>2
      <3>2. CASE k \notin T
        <4>1. h[T] = g[T] /\ g[T] = Folded(g, T)
          BY <3>2, <2>5
        <4>2. T \ {Max(T)} \in SUBSET (1 .. k) /\ k \notin T \ {Max(T)}
          BY <3>2
        <4>3. h[T \ {Max(T)}] = g[T \ {Max(T)}]
          BY <4>2
        <4> HIDE DEF h
        <4> QED BY <4>1, <4>3
      <3> QED BY <3>1, <3>2
    <2>9. Solves(h, k)
      <3> HIDE DEF h
      <3> QED BY <2>7, <2>8
    <2> HIDE DEF h, Solves
    <2> QED BY <2>9, <2>2
  <1>2. PICK g : Solves(g, n)
    <2> HIDE DEF Solves
    <2>1. n \in 0 .. n
      OBVIOUS
    <2> QED BY <1>1, <2>1
  <1>3. Folds(g, St, base, n, step)
    BY <1>2 DEF Folds
  <1> QED BY <1>3

\* Numbers up to a bound, if there are any, have a greatest.
LEMMA GreatestThere ==
  ASSUME NEW n \in Nat, NEW T \in SUBSET (1 .. n), T # {}
  PROVE  Max(T) \in T
  <1> DEFINE Above == {d \in Nat : n - d \in T}
  <1>1. Above \subseteq Nat /\ Above # {}
    <2>1. PICK x \in T : TRUE
      OBVIOUS
    <2>2. n - x \in Nat /\ n - (n - x) = x
      OBVIOUS
    <2> QED BY <2>1, <2>2
  <1>2. \E d \in Above : \A c \in Above : d <= c
    <2> HIDE DEF Above
    <2> QED BY <1>1, LeastNumber
  <1>3. PICK d \in Above : \A c \in Above : d <= c
    BY <1>2
  <1>4. ASSUME NEW y \in T PROVE n - d >= y
    <2>1. n - y \in Nat /\ n - (n - y) = y /\ y \in Nat
      OBVIOUS
    <2>2. n - y \in Above
      BY <2>1
    <2>3. d <= n - y
      BY <1>3, <2>2
    <2> QED BY <2>1, <2>3
  <1>5. n - d \in T /\ \A y \in T : n - d >= y
    BY <1>4
  <1> QED BY <1>5 DEF Max

\* The numbers up to k are those up to k - 1, and k, their greatest.
LEMMA UptoSplits ==
  ASSUME NEW n \in Nat, NEW k \in 1 .. n
  PROVE  1 .. k \in SUBSET (1 .. n) /\ 1 .. k # {} /\ Max(1 .. k) = k /\ (1 .. k) \ {k} = 1 .. (k - 1)
  <1>1. k \in Nat /\ k \in 1 .. k
    OBVIOUS
  <1>2. Max(1 .. k) = k
    BY <1>1, GreatestIsLast
  <1> QED BY <1>1, <1>2

------------------------------------------------------------------------------
(* What a context takes *)

SumStep(g, taken, T) == IF T = {} THEN 0 ELSE g[T \ {Max(T)}] + Size(Snapshot(taken[Max(T)]))
Sum(taken) == FoldLeft(LAMBDA sum, s : sum + Size(Snapshot(s)), 0, taken)

LEMMA SumFolds ==
  ASSUME NEW S, NEW taken \in Seq(S), \A s \in S : Size(Snapshot(s)) \in Nat
  PROVE  \E u : /\ u[0] = 0 /\ Sum(taken) = u[Len(taken)]
                /\ \A k \in 1 .. Len(taken) : u[k] = u[k - 1] + Size(Snapshot(taken[k]))
                /\ \A k \in 0 .. Len(taken) : u[k] \in Nat
  <1> DEFINE n == Len(taken)
             step == [p \in Nat \X (1 .. n) |-> p[1] + Size(Snapshot(taken[p[2]]))]
  <1>1. n \in Nat /\ DOMAIN taken = 1 .. n /\ \A k \in 1 .. n : taken[k] \in S
    OBVIOUS
  <1>2. step \in [Nat \X (1 .. n) -> Nat]
    BY <1>1
  <1>3. PICK g : g \in [SUBSET (1 .. n) -> Nat] /\
            \A T \in SUBSET (1 .. n) : g[T] = IF T = {} THEN 0 ELSE step[<<g[T \ {Max(T)}], Max(T)>>]
    <2> HIDE DEF step, n
    <2>1. \E g : Folds(g, Nat, 0, n, step)
      BY <1>1, <1>2, FoldThere
    <2> QED BY <2>1 DEF Folds
  <1>4. \A T \in SUBSET (1 .. n) : g[T] = SumStep(g, taken, T)
    <2> SUFFICES ASSUME NEW T \in SUBSET (1 .. n) PROVE g[T] = SumStep(g, taken, T)
      OBVIOUS
    <2>1. CASE T = {}
      BY <2>1, <1>3 DEF SumStep
    <2>2. CASE T # {}
      <3>1. Max(T) \in T
        BY <2>2, <1>1, GreatestThere
      <3>2. T \ {Max(T)} \in SUBSET (1 .. n) /\ Max(T) \in 1 .. n
        BY <3>1
      <3>3. g[T \ {Max(T)}] \in Nat
        BY <3>2, <1>3
      <3> QED BY <2>2, <3>2, <3>3, <1>3 DEF SumStep
    <2> QED BY <2>1, <2>2
  <1>5. PICK f : (\A T \in SUBSET (1 .. n) : f[T] = SumStep(f, taken, T)) /\ Sum(taken) = f[1 .. n]
    <2> DEFINE Is(h) == h = [T \in SUBSET (1 .. n) |-> SumStep(h, taken, T)]
    <2>1. Is(g)
      <3>1. g = [T \in SUBSET (1 .. n) |-> g[T]]
        BY <1>3
      <3> QED BY <3>1, <1>4
    <2> DEFINE f == CHOOSE h : Is(h)
    <2>2. Is(f)
      BY <2>1
    <2>3. Sum(taken) = f[1 .. n]
      BY <1>1 DEF Sum, FoldLeft, MapThenFoldSet, SumStep
    <2>4. \A T \in SUBSET (1 .. n) : f[T] = SumStep(f, taken, T)
      BY <2>2
    <2> QED BY <2>3, <2>4
  <1> DEFINE u == [k \in 0 .. n |-> f[1 .. k]]
  <1>6. u[0] = 0
    <2>1. 1 .. 0 = {} /\ {} \in SUBSET (1 .. n)
      OBVIOUS
    <2>2. 0 \in 0 .. n
      BY <1>1
    <2>3. f[{}] = 0
      BY <2>1, <1>5 DEF SumStep
    <2> QED BY <2>1, <2>2, <2>3
  <1>7. ASSUME NEW k \in 1 .. n PROVE u[k] = u[k - 1] + Size(Snapshot(taken[k]))
    <2>1. k - 1 \in 0 .. n /\ k \in 0 .. n
      BY <1>1
    <2>2. 1 .. k \in SUBSET (1 .. n) /\ 1 .. k # {} /\ Max(1 .. k) = k /\ (1 .. k) \ {k} = 1 .. (k - 1)
      BY <1>1, UptoSplits
    <2>3. f[1 .. k] = SumStep(f, taken, 1 .. k)
      BY <2>2, <1>5
    <2>4. u[k] = f[1 .. k] /\ u[k - 1] = f[1 .. (k - 1)]
      BY <2>1
    <2> HIDE DEF u, n
    <2> QED BY <2>2, <2>3, <2>4 DEF SumStep
  <1>8. Sum(taken) = u[n]
    BY <1>5, <1>1
  <1> HIDE DEF u, step
  <1> DEFINE Bad == {k \in 0 .. n : u[k] \notin Nat}
  <1>9. Bad = {}
    <2> SUFFICES ASSUME Bad # {} PROVE FALSE
      OBVIOUS
    <2>1. 0 \notin Bad
      BY <1>6
    <2>2. PICK k \in Bad : k \in Nat /\ k # 0 /\ k - 1 \in Nat /\ k - 1 \notin Bad
      <3>1. Bad \subseteq Nat
        OBVIOUS
      <3> HIDE DEF Bad
      <3> QED BY <2>1, <3>1, FirstFailure
    <2>3. k \in 1 .. n /\ k - 1 \in 0 .. n
      BY <2>2
    <2>4. u[k - 1] \in Nat /\ Size(Snapshot(taken[k])) \in Nat
      BY <2>2, <2>3, <1>1
    <2> QED BY <2>2, <2>3, <2>4, <1>7
  <1>10. \A k \in 0 .. n : u[k] \in Nat
    BY <1>9
  <1> QED BY <1>6, <1>7, <1>8, <1>10

\* What is appended is counted.
LEMMA SumAppends ==
  ASSUME NEW S, \A s \in S : Size(Snapshot(s)) \in Nat, NEW taken \in Seq(S), NEW s \in S
  PROVE  Sum(taken) \in Nat /\ Sum(Append(taken, s)) = Sum(taken) + Size(Snapshot(s))
  <1> DEFINE n == Len(taken)
             more == Append(taken, s)
  <1>1. n \in Nat /\ more \in Seq(S) /\ Len(more) = n + 1 /\ more[n + 1] = s /\ \A k \in 1 .. n : more[k] = taken[k]
    OBVIOUS
  <1> HIDE DEF more
  <1>2. PICK u : /\ u[0] = 0 /\ Sum(taken) = u[n]
                 /\ \A k \in 1 .. n : u[k] = u[k - 1] + Size(Snapshot(taken[k]))
                 /\ \A k \in 0 .. n : u[k] \in Nat
    BY SumFolds
  <1>3. PICK v : /\ v[0] = 0 /\ Sum(more) = v[Len(more)]
                 /\ \A k \in 1 .. Len(more) : v[k] = v[k - 1] + Size(Snapshot(more[k]))
                 /\ \A k \in 0 .. Len(more) : v[k] \in Nat
    BY <1>1, SumFolds
  <1> DEFINE Bad == {k \in 0 .. n : u[k] # v[k]}
  <1>4. Bad = {}
    <2> SUFFICES ASSUME Bad # {} PROVE FALSE
      OBVIOUS
    <2>1. 0 \notin Bad
      BY <1>2, <1>3
    <2>2. PICK k \in Bad : k \in Nat /\ k # 0 /\ k - 1 \in Nat /\ k - 1 \notin Bad
      <3>1. Bad \subseteq Nat
        BY <1>1
      <3> HIDE DEF Bad
      <3> QED BY <2>1, <3>1, FirstFailure
    <2>3. k \in 1 .. n /\ k - 1 \in 0 .. n /\ k \in 1 .. Len(more)
      BY <2>2, <1>1
    <2>4. u[k - 1] = v[k - 1] /\ more[k] = taken[k]
      BY <2>2, <2>3, <1>1
    <2>5. u[k] = u[k - 1] + Size(Snapshot(taken[k])) /\ v[k] = v[k - 1] + Size(Snapshot(more[k]))
      BY <2>3, <1>2, <1>3
    <2>6. u[k] = v[k]
      BY ONLY <2>4, <2>5
    <2> QED BY <2>6
  <1>5. u[n] = v[n] /\ n \in 0 .. n /\ n + 1 \in 1 .. Len(more) /\ n + 1 - 1 = n
    BY <1>1, <1>4
  <1>6. v[n + 1] = v[n] + Size(Snapshot(s))
    <2>1. v[n + 1] = v[n + 1 - 1] + Size(Snapshot(more[n + 1]))
      BY <1>5, <1>3
    <2> QED BY ONLY <2>1, <1>5, <1>1
  <1>7. Sum(taken) \in Nat /\ Sum(more) = Sum(taken) + Size(Snapshot(s))
    BY <1>1, <1>2, <1>3, <1>5, <1>6
  <1> QED BY <1>7 DEF more

TakeStep(g, T) == IF T = {} THEN [used |-> 2, of |-> <<>>] ELSE Take(g[T \ {Max(T)}], ByPriority[Max(T)])

\* What was taken so far has a length, and consists of what can be loaded.
Takings == [used : Nat, of : Seq(Loaded)]

LEMMA TakeTyped ==
  ASSUME \A s \in Loaded : Size(Snapshot(s)) \in Nat, NEW taken \in Takings, NEW s
  PROVE  Take(taken, s) \in Takings
  <1>1. CASE Take(taken, s) = taken
    BY <1>1
  <1>2. CASE Take(taken, s) # taken
    <2> DEFINE used == taken.used + (IF taken.of = <<>> THEN 0 ELSE 2) + Size(Snapshot(s))
    <2>1. s \in Loaded /\ Take(taken, s) = [used |-> used, of |-> Append(taken.of, s)]
      BY <1>2 DEF Take
    <2>2. taken.used \in Nat /\ taken.of \in Seq(Loaded) /\ Size(Snapshot(s)) \in Nat
      BY <2>1 DEF Takings
    <2>3. used \in Nat /\ Append(taken.of, s) \in Seq(Loaded)
      BY <2>1, <2>2
    <2> HIDE DEF used
    <2> QED BY <2>1, <2>3 DEF Takings
  <1> QED BY <1>1, <1>2

LEMMA TakeFolds ==
  ASSUME \A s \in Loaded : Size(Snapshot(s)) \in Nat
  PROVE  \E u : /\ u[0] = [used |-> 2, of |-> <<>>] /\ Compact = u[Len(ByPriority)].of
                /\ \A k \in 1 .. Len(ByPriority) : u[k] = Take(u[k - 1], ByPriority[k])
  <1> DEFINE n == Len(ByPriority)
             base == [used |-> 2, of |-> <<>>]
             step == [p \in Takings \X (1 .. n) |-> Take(p[1], ByPriority[p[2]])]
  <1>1. n \in Nat /\ DOMAIN ByPriority = 1 .. n
    BY MemoryAssumption
  <1>2. step \in [Takings \X (1 .. n) -> Takings] /\ base \in Takings
    <2>1. base \in Takings
      BY DEF Takings
    <2>2. step \in [Takings \X (1 .. n) -> Takings]
      BY TakeTyped
    <2> QED BY <2>1, <2>2
  <1>3. PICK g : g \in [SUBSET (1 .. n) -> Takings] /\
            \A T \in SUBSET (1 .. n) : g[T] = IF T = {} THEN base ELSE step[<<g[T \ {Max(T)}], Max(T)>>]
    <2> HIDE DEF step, n, base
    <2>1. \E g : Folds(g, Takings, base, n, step)
      BY <1>1, <1>2, FoldThere
    <2> QED BY <2>1 DEF Folds
  <1>4. \A T \in SUBSET (1 .. n) : g[T] = TakeStep(g, T)
    <2> SUFFICES ASSUME NEW T \in SUBSET (1 .. n) PROVE g[T] = TakeStep(g, T)
      OBVIOUS
    <2>1. CASE T = {}
      BY <2>1, <1>3 DEF TakeStep
    <2>2. CASE T # {}
      <3>1. Max(T) \in T
        BY <2>2, <1>1, GreatestThere
      <3>2. T \ {Max(T)} \in SUBSET (1 .. n) /\ Max(T) \in 1 .. n
        BY <3>1
      <3>3. g[T \ {Max(T)}] \in Takings
        BY <3>2, <1>3
      <3> QED BY <2>2, <3>2, <3>3, <1>3 DEF TakeStep
    <2> QED BY <2>1, <2>2
  <1>5. PICK f : (\A T \in SUBSET (1 .. n) : f[T] = TakeStep(f, T)) /\ Compact = f[1 .. n].of
    <2> DEFINE Is(h) == h = [T \in SUBSET (1 .. n) |-> TakeStep(h, T)]
    <2>1. Is(g)
      <3>1. g = [T \in SUBSET (1 .. n) |-> g[T]]
        BY <1>3
      <3> QED BY <3>1, <1>4
    <2> DEFINE f == CHOOSE h : Is(h)
    <2>2. Is(f)
      BY <2>1
    <2>3. Compact = f[1 .. n].of
      BY <1>1 DEF Compact, FoldLeft, MapThenFoldSet, TakeStep
    <2>4. \A T \in SUBSET (1 .. n) : f[T] = TakeStep(f, T)
      BY <2>2
    <2> QED BY <2>3, <2>4
  <1> DEFINE u == [k \in 0 .. n |-> f[1 .. k]]
  <1>6. u[0] = base
    <2>1. 1 .. 0 = {} /\ {} \in SUBSET (1 .. n)
      OBVIOUS
    <2>2. 0 \in 0 .. n
      BY <1>1
    <2>3. f[{}] = base
      BY <2>1, <1>5 DEF TakeStep
    <2> QED BY <2>1, <2>2, <2>3
  <1>7. ASSUME NEW k \in 1 .. n PROVE u[k] = Take(u[k - 1], ByPriority[k])
    <2>1. k - 1 \in 0 .. n /\ k \in 0 .. n
      BY <1>1
    <2>2. 1 .. k \in SUBSET (1 .. n) /\ 1 .. k # {} /\ Max(1 .. k) = k /\ (1 .. k) \ {k} = 1 .. (k - 1)
      BY <1>1, UptoSplits
    <2>3. f[1 .. k] = TakeStep(f, 1 .. k)
      BY <2>2, <1>5
    <2>4. u[k] = f[1 .. k] /\ u[k - 1] = f[1 .. (k - 1)]
      BY <2>1
    <2> HIDE DEF u, n
    <2> QED BY <2>2, <2>3, <2>4 DEF TakeStep
  <1>8. Compact = u[n].of
    BY <1>5, <1>1
  <1> HIDE DEF u
  <1> QED BY <1>6, <1>7, <1>8

\* What was taken so far is as long as it says, and fits.
Fits(taken) ==
    taken.of \in Seq(Loaded) /\ taken.used \in Nat /\ taken.used = Rendered(taken.of) /\ taken.used <= MaxChars

\* What one more snapshot makes of the length.
LEMMA RenderedGrows ==
  ASSUME \A s \in Loaded : Size(Snapshot(s)) \in Nat, NEW of \in Seq(Loaded), NEW s \in Loaded
  PROVE  /\ Append(of, s) \in Seq(Loaded) /\ Rendered(of) \in Nat
         /\ Rendered(Append(of, s)) = Rendered(of) + (IF of = <<>> THEN 0 ELSE 2) + Size(Snapshot(s))
  <1>1. PICK t : t = Append(of, s)
    OBVIOUS
  <1>2. t \in Seq(Loaded) /\ Len(t) = Len(of) + 1 /\ t # <<>> /\ Len(of) \in Nat /\ (of = <<>> <=> Len(of) = 0)
    BY <1>1
  <1>3. Sum(of) \in Nat /\ Sum(t) = Sum(of) + Size(Snapshot(s))
    BY <1>1, SumAppends
  <1>4. \A q : Rendered(q) = 2 + Sum(q) + (IF q = <<>> THEN 0 ELSE 2 * (Len(q) - 1))
    BY DEF Rendered, Sum
  <1>5. Rendered(of) \in Nat
    <2>1. Rendered(of) = 2 + Sum(of) + (IF of = <<>> THEN 0 ELSE 2 * (Len(of) - 1))
      BY <1>4
    <2> QED BY ONLY <2>1, <1>2, <1>3
  <1>6. Rendered(t) = Rendered(of) + (IF of = <<>> THEN 0 ELSE 2) + Size(Snapshot(s))
    <2>1. /\ Rendered(of) = 2 + Sum(of) + (IF of = <<>> THEN 0 ELSE 2 * (Len(of) - 1))
          /\ Rendered(t) = 2 + Sum(t) + (IF t = <<>> THEN 0 ELSE 2 * (Len(t) - 1))
      BY <1>4
    <2>2. Size(Snapshot(s)) \in Nat
      OBVIOUS
    <2> QED BY ONLY <2>1, <2>2, <1>2, <1>3
  <1> QED BY <1>1, <1>2, <1>5, <1>6

LEMMA TakeFits ==
  ASSUME \A s \in Loaded : Size(Snapshot(s)) \in Nat, NEW taken, Fits(taken), NEW s
  PROVE  Fits(Take(taken, s))
  <1>1. CASE Take(taken, s) = taken
    BY <1>1
  <1>2. CASE Take(taken, s) # taken
    <2> DEFINE used == taken.used + (IF taken.of = <<>> THEN 0 ELSE 2) + Size(Snapshot(s))
    <2>1. s \in Loaded /\ ~(used > MaxChars) /\ Take(taken, s) = [used |-> used, of |-> Append(taken.of, s)]
      BY <1>2 DEF Take
    <2>2. taken.of \in Seq(Loaded) /\ taken.used \in Nat /\ taken.used = Rendered(taken.of) /\ Size(Snapshot(s)) \in Nat
      BY <2>1 DEF Fits
    <2>3. Append(taken.of, s) \in Seq(Loaded) /\ Rendered(Append(taken.of, s)) = used
      BY <2>1, <2>2, RenderedGrows
    <2>4. used \in Nat /\ used <= MaxChars
      BY <2>1, <2>2, BudgetAssumption
    <2> HIDE DEF used
    <2> QED BY <2>1, <2>3, <2>4 DEF Fits
  <1> QED BY <1>1, <1>2

LEMMA CompactFits ==
  ASSUME \A s \in Loaded : Size(Snapshot(s)) \in Nat
  PROVE  Rendered(Compact) <= MaxChars
  <1> DEFINE n == Len(ByPriority)
  <1>1. n \in Nat
    BY MemoryAssumption
  <1>2. PICK u : /\ u[0] = [used |-> 2, of |-> <<>>] /\ Compact = u[n].of
                 /\ \A k \in 1 .. n : u[k] = Take(u[k - 1], ByPriority[k])
    BY TakeFolds
  <1> DEFINE Bad == {k \in 0 .. n : ~Fits(u[k])}
  <1>3. Bad = {}
    <2> SUFFICES ASSUME Bad # {} PROVE FALSE
      OBVIOUS
    <2>1. 0 \notin Bad
      <3>1. <<>> \in Seq(Loaded) /\ Len(<<>>) = 0
        OBVIOUS
      <3>2. Sum(<<>>) = 0
        BY <3>1, SumFolds
      <3>3. Rendered(<<>>) = 2
        <4>1. \A q : Rendered(q) = 2 + Sum(q) + (IF q = <<>> THEN 0 ELSE 2 * (Len(q) - 1))
          BY DEF Rendered, Sum
        <4>2. Rendered(<<>>) = 2 + Sum(<<>>) + 0
          BY <4>1
        <4> QED BY ONLY <4>2, <3>2
      <3>4. Fits([used |-> 2, of |-> <<>>])
        BY <3>1, <3>3, BudgetAssumption DEF Fits
      <3> QED BY <3>4, <1>2
    <2>2. PICK k \in Bad : k \in Nat /\ k # 0 /\ k - 1 \in Nat /\ k - 1 \notin Bad
      <3>1. Bad \subseteq Nat
        OBVIOUS
      <3> HIDE DEF Bad
      <3> QED BY <2>1, <3>1, FirstFailure
    <2>3. k \in 1 .. n /\ k - 1 \in 0 .. n
      BY <2>2, <1>1
    <2>4. Fits(u[k - 1]) /\ u[k] = Take(u[k - 1], ByPriority[k])
      BY <2>2, <2>3, <1>2
    <2>5. Fits(u[k])
      BY <2>4, TakeFits
    <2> QED BY <2>5
  <1>4. Fits(u[n])
    BY <1>1, <1>3
  <1> QED BY <1>2, <1>4 DEF Fits

LEMMA Fitting ==
  ASSUME MemoryIInv
  PROVE  ContextFits
  <1>1. ASSUME NEW s \in Loaded PROVE Size(Snapshot(s)) \in Nat
    <2>1. FileOf(s) \in SnapshotFiles /\ Snapshot(s) = snapshots[FileOf(s)] /\ Snapshot(s).is = "file"
      BY DEF Loaded, Snapshot, SnapshotFiles
    <2>2. PICK S \in SUBSET decided : MadeOf(Snapshot(s), FileOf(s), S) /\ S \subseteq [id : Items, content : Contents]
      BY <2>1, FileIsMade
    <2> QED BY <2>2, SizeAssumption DEF MadeOf
  <1>2. Rendered(Compact) <= MaxChars
    BY <1>1, CompactFits
  <1> QED BY <1>2 DEF ContextFits

\* What a context takes of the snapshots, with its brackets and separators, fits its budget
\* (ContextFits), whatever length the snapshots have.
THEOREM ContextFitsBudget == MemorySpec => []ContextFits
  <1>1. MemoryIInv => ContextFits
    BY Fitting
  <1> QED BY <1>1, MemoryHolds, PTL

------------------------------------------------------------------------------
(* The order in which lists are collected *)

\* The first place of a value in a sequence.
FirstAt(sq, k) == \A i \in 1 .. k - 1 : sq[i] # sq[k]

\* A sequence picks the values of another at their first places, in their order.
Picks(p, u, sq, n) ==
    /\ DOMAIN p = DOMAIN u
    /\ \A j \in DOMAIN u : p[j] \in 1 .. n /\ FirstAt(sq, p[j]) /\ u[j] = sq[p[j]]
    /\ \A j, l \in DOMAIN u : j < l => p[j] < p[l]

LEMMA PickStep ==
  ASSUME NEW V, NEW sq \in Seq(V), NEW k \in 1 .. Len(sq), NEW u \in Seq(V), NEW p, Picks(p, u, sq, k - 1),
         \A i \in 1 .. k - 1 : sq[i] \in Range(u)
  PROVE  LET v == AppendNew(u, sq[k]) IN
         v \in Seq(V) /\ (\E q : Picks(q, v, sq, k)) /\ \A i \in 1 .. k : sq[i] \in Range(v)
  <1> DEFINE x == sq[k]
             n == Len(u)
  <1>1. k \in Nat /\ x \in V /\ n \in Nat /\ DOMAIN u = 1 .. n
    OBVIOUS
  <1>2. CASE x \in Range(u)
    <2>1. AppendNew(u, x) = u
      BY <1>2 DEF AppendNew
    <2>2. Picks(p, u, sq, k)
      <3>1. \A j \in DOMAIN u : p[j] \in 1 .. k
        BY <1>1 DEF Picks
      <3> QED BY <3>1 DEF Picks
    <2>3. \A i \in 1 .. k : sq[i] \in Range(u)
      <3>1. \A i \in 1 .. k : i \in 1 .. k - 1 \/ i = k
        BY <1>1
      <3> QED BY <3>1, <1>2
    <2> QED BY <2>1, <2>2, <2>3
  <1>3. CASE x \notin Range(u)
    <2> DEFINE v == Append(u, x)
               q == [j \in 1 .. n + 1 |-> IF j = n + 1 THEN k ELSE p[j]]
    <2>1. AppendNew(u, x) = v
      BY <1>3 DEF AppendNew
    <2>2. v \in Seq(V) /\ DOMAIN v = 1 .. n + 1 /\ v[n + 1] = x /\ \A j \in 1 .. n : v[j] = u[j]
      BY <1>1
    <2>3. Range(v) = Range(u) \union {x}
      <3>1. \A j \in 1 .. n + 1 : j \in 1 .. n \/ j = n + 1
        BY <1>1
      <3>2. n + 1 \in 1 .. n + 1 /\ 1 .. n \subseteq 1 .. n + 1
        BY <1>1
      <3> HIDE DEF v, x, n
      <3> QED BY <1>1, <2>2, <3>1, <3>2 DEF Range
    <2>4. FirstAt(sq, k)
      BY <1>3 DEF FirstAt
    <2>5. \A j \in 1 .. n : j \in 1 .. n + 1 /\ j # n + 1 /\ q[j] = p[j]
      BY <1>1
    <2>6. q[n + 1] = k /\ DOMAIN q = 1 .. n + 1
      BY <1>1
    <2>7. \A j \in 1 .. n : p[j] \in 1 .. k - 1 /\ FirstAt(sq, p[j]) /\ u[j] = sq[p[j]]
      BY <1>1 DEF Picks
    <2> HIDE DEF q, v
    <2>8. ASSUME NEW j \in 1 .. n + 1 PROVE q[j] \in 1 .. k /\ FirstAt(sq, q[j]) /\ v[j] = sq[q[j]]
      <3>1. CASE j \in 1 .. n
        <4>1. q[j] = p[j] /\ p[j] \in 1 .. k - 1
          BY <3>1, <2>5, <2>7
        <4>2. q[j] \in 1 .. k
          BY ONLY <4>1, <1>1
        <4> QED BY <3>1, <4>1, <4>2, <2>2, <2>7
      <3>2. CASE j = n + 1
        BY <3>2, <2>2, <2>4, <2>6, <1>1
      <3> QED BY <3>1, <3>2, <1>1
    <2>9. ASSUME NEW j \in 1 .. n + 1, NEW l \in 1 .. n + 1, j < l PROVE q[j] < q[l]
      <3>1. j \in 1 .. n
        BY <2>9, <1>1
      <3>2. CASE l \in 1 .. n
        BY <3>1, <3>2, <2>5, <2>9, <1>1 DEF Picks
      <3>3. CASE l = n + 1
        <4>1. q[j] = p[j] /\ p[j] \in 1 .. k - 1 /\ q[l] = k
          BY <3>1, <3>3, <2>5, <2>6, <2>7
        <4> QED BY ONLY <4>1, <1>1
      <3> QED BY <3>2, <3>3, <1>1
    <2>10. Picks(q, v, sq, k)
      BY <2>2, <2>6, <2>8, <2>9 DEF Picks
    <2>11. \A i \in 1 .. k : sq[i] \in Range(v)
      <3>1. \A i \in 1 .. k : i \in 1 .. k - 1 \/ i = k
        BY <1>1
      <3> QED BY <3>1, <2>3
    <2> QED BY <2>1, <2>2, <2>10, <2>11
  <1> QED BY <1>2, <1>3

LEMMA UniquePicks ==
  ASSUME NEW V, NEW sq \in Seq(V)
  PROVE  /\ Unique(sq) \in Seq(V) /\ Range(Unique(sq)) = Range(sq)
         /\ \E p : Picks(p, Unique(sq), sq, Len(sq))
  <1> DEFINE n == Len(sq)
  <1>1. PICK g : /\ g[0] = <<>>
                 /\ \A k \in 1 .. n : g[k] = AppendNew(g[k - 1], sq[k])
                 /\ Unique(sq) = g[n]
    BY UniqueFolds
  <1> DEFINE Fine(k) == g[k] \in Seq(V) /\ (\E p : Picks(p, g[k], sq, k)) /\ \A i \in 1 .. k : sq[i] \in Range(g[k])
             Bad == {k \in 0 .. n : ~Fine(k)}
  <1>2. n \in Nat /\ DOMAIN sq = 1 .. n
    OBVIOUS
  <1>3. Bad = {}
    <2> SUFFICES ASSUME Bad # {} PROVE FALSE
      OBVIOUS
    <2>1. 0 \notin Bad
      <3>1. <<>> \in Seq(V) /\ DOMAIN <<>> = {} /\ 1 .. 0 = {}
        OBVIOUS
      <3>2. Picks(<<>>, <<>>, sq, 0)
        BY <3>1 DEF Picks
      <3> QED BY <3>1, <3>2, <1>1
    <2>2. PICK k \in Bad : k \in Nat /\ k # 0 /\ k - 1 \in Nat /\ k - 1 \notin Bad
      <3>1. Bad \subseteq Nat
        BY <1>2
      <3> HIDE DEF Bad
      <3> QED BY <2>1, <3>1, FirstFailure
    <2>3. k \in 1 .. n /\ k - 1 \in 0 .. n
      BY <2>2, <1>2
    <2>4. Fine(k - 1)
      BY <2>2, <2>3
    <2>5. PICK u, p : u \in Seq(V) /\ u = g[k - 1] /\ Picks(p, u, sq, k - 1) /\ \A i \in 1 .. k - 1 : sq[i] \in Range(u)
      BY <2>4
    <2>6. PICK v : v = AppendNew(u, sq[k]) /\ v = g[k]
      BY <2>3, <2>5, <1>1
    <2>7. v \in Seq(V) /\ (\E q : Picks(q, v, sq, k)) /\ \A i \in 1 .. k : sq[i] \in Range(v)
      BY <2>3, <2>5, <2>6, PickStep
    <2>8. Fine(k)
      BY <2>6, <2>7
    <2> QED BY <2>8
  <1>4. Fine(n)
    <2>1. n \in 0 .. n
      BY <1>2
    <2> QED BY <2>1, <1>3
  <1>5. Range(Unique(sq)) \subseteq Range(sq)
    BY UniqueKeeps
  <1>6. Range(sq) \subseteq Range(Unique(sq))
    BY <1>1, <1>2, <1>4 DEF Range
  <1> QED BY <1>1, <1>4, <1>5, <1>6

\* A sequence has what was said of a field, in the order it was first said.
Ordered(sq, D, f) ==
    /\ Range(sq) = UNION {Range(ListOf(e, f)) : e \in D}
    /\ \A k \in DOMAIN sq : FirstAt(sq, k) => \E d \in D : \E i \in DOMAIN ListOf(d, f) : FirstSaid(D, f, sq[k], d, i)
    /\ \A j, k \in DOMAIN sq : j < k /\ FirstAt(sq, j) /\ FirstAt(sq, k) => SaidBefore(D, f, sq[j], sq[k])

Distinct(sq) == \A k \in DOMAIN sq : FirstAt(sq, k)

\* What one says alone is in its order.
LEMMA OneOrdered ==
  ASSUME NEW e, NEW f, ~Earlier(e, e)
  PROVE  Ordered(ListOf(e, f), {e}, f)
  <1> DEFINE t == ListOf(e, f)
  <1>1. Range(t) = UNION {Range(ListOf(d, f)) : d \in {e}}
    OBVIOUS
  <1>2. ASSUME NEW k \in DOMAIN t, FirstAt(t, k) PROVE FirstSaid({e}, f, t[k], e, k)
    BY <1>2 DEF FirstSaid, FirstAt
  <1>3. ASSUME NEW j \in DOMAIN t, NEW k \in DOMAIN t, j < k, FirstAt(t, j), FirstAt(t, k)
        PROVE  SaidBefore({e}, f, t[j], t[k])
    BY <1>2, <1>3 DEF SaidBefore
  <1> HIDE DEF t
  <1>4. \A k \in DOMAIN t : FirstAt(t, k) => \E d \in {e} : \E i \in DOMAIN ListOf(d, f) : FirstSaid({e}, f, t[k], d, i)
    BY <1>2 DEF t
  <1>5. Ordered(t, {e}, f)
    BY <1>1, <1>3, <1>4 DEF Ordered
  <1> QED BY <1>5 DEF t

\* What one says last is collected after all else.
LEMMA JoinOrdered ==
  ASSUME NEW V, NEW s \in Seq(V), NEW D, NEW f, Ordered(s, D, f),
         NEW e, ListOf(e, f) \in Seq(V), ~Earlier(e, e), \A d \in D : Earlier(d, e) /\ ~Earlier(e, d)
  PROVE  Ordered(Unique(s \o ListOf(e, f)), D \union {e}, f) /\ Distinct(Unique(s \o ListOf(e, f)))
  <1> DEFINE t == ListOf(e, f)
             sq == s \o t
             m == Len(s)
             n == Len(t)
             E == D \union {e}
             Place(x, d, i) == d \in E /\ i \in DOMAIN ListOf(d, f) /\ FirstSaid(E, f, x, d, i)
  <1>1. /\ m \in Nat /\ n \in Nat /\ DOMAIN s = 1 .. m /\ DOMAIN t = 1 .. n
        /\ sq \in Seq(V) /\ Len(sq) = m + n /\ DOMAIN sq = 1 .. m + n
    OBVIOUS
  <1>2. \A a \in 1 .. m + n : IF a <= m THEN a \in 1 .. m /\ sq[a] = s[a] ELSE a - m \in 1 .. n /\ sq[a] = t[a - m]
    OBVIOUS
  <1>3. Range(sq) = Range(s) \union Range(t)
    <2>1. Range(sq) \subseteq Range(s) \union Range(t)
      BY JoinedRange
    <2>2. \A a \in 1 .. m : a \in 1 .. m + n /\ sq[a] = s[a]
      BY <1>1, <1>2
    <2>3. \A a \in 1 .. n : a + m \in 1 .. m + n /\ sq[a + m] = t[a]
      OBVIOUS
    <2> HIDE DEF sq, t, m, n
    <2>4. Range(s) \subseteq Range(sq) /\ Range(t) \subseteq Range(sq)
      BY <1>1, <2>2, <2>3 DEF Range
    <2> QED BY <2>1, <2>4 DEF sq, t
  <1>4. Range(sq) = UNION {Range(ListOf(d, f)) : d \in E}
    BY <1>3 DEF Ordered
  <1>5. ASSUME NEW x, NEW d \in D, NEW i, FirstSaid(D, f, x, d, i) PROVE FirstSaid(E, f, x, d, i)
    BY <1>5 DEF FirstSaid
  <1>6. ASSUME NEW a \in 1 .. m, FirstAt(sq, a) PROVE FirstAt(s, a) /\ sq[a] = s[a]
    <2>1. a \in 1 .. m + n /\ \A b \in 1 .. a - 1 : b \in 1 .. m /\ sq[b] = s[b]
      BY <1>1, <1>2
    <2> QED BY <2>1, <1>2, <1>6 DEF FirstAt
  <1>7. ASSUME NEW a \in 1 .. m + n, ~(a <= m), FirstAt(sq, a)
        PROVE  Place(sq[a], e, a - m)
    <2>1. a - m \in 1 .. n /\ sq[a] = t[a - m]
      BY <1>2, <1>7
    <2>2. \A j \in 1 .. (a - m) - 1 : t[j] # sq[a]
      <3>1. SUFFICES ASSUME NEW j \in 1 .. (a - m) - 1 PROVE t[j] # sq[a]
        OBVIOUS
      <3>2. j + m \in 1 .. a - 1 /\ j \in 1 .. n
        BY <1>1, <2>1
      <3>3. sq[j + m] = t[j]
        BY <3>2
      <3> QED BY <3>2, <3>3, <1>7 DEF FirstAt
    <2>3. sq[a] \notin Range(s)
      <3>1. ASSUME NEW b \in 1 .. m PROVE s[b] # sq[a]
        <4>1. b \in 1 .. a - 1 /\ b \in 1 .. m + n
          BY <1>1, <1>7
        <4>2. sq[b] = s[b]
          BY <4>1, <1>2
        <4> QED BY <4>1, <4>2, <1>7 DEF FirstAt
      <3> HIDE DEF sq
      <3> QED BY <3>1, <1>1 DEF Range
    <2>4. \A d \in E : Earlier(d, e) => sq[a] \notin Range(ListOf(d, f))
      BY <2>3 DEF Ordered
    <2>5. FirstSaid(E, f, sq[a], e, a - m)
      BY <2>1, <2>2, <2>4 DEF FirstSaid
    <2> QED BY <2>1, <2>5, <1>1
  <1>8. ASSUME NEW a \in 1 .. m, FirstAt(sq, a) PROVE \E d \in D : \E i : Place(sq[a], d, i)
    <2>1. PICK d \in D : \E i \in DOMAIN ListOf(d, f) : FirstSaid(D, f, s[a], d, i)
      BY <1>1, <1>6, <1>8 DEF Ordered
    <2>2. PICK i \in DOMAIN ListOf(d, f) : FirstSaid(D, f, s[a], d, i)
      BY <2>1
    <2>3. Place(sq[a], d, i)
      BY <2>2, <1>5, <1>6, <1>8
    <2> QED BY <2>3
  <1> HIDE DEF sq, t, m, n
  <1>9. ASSUME NEW a \in 1 .. m + n, FirstAt(sq, a) PROVE \E d, i : Place(sq[a], d, i)
    <2>1. a \in 1 .. m \/ ~(a <= m)
      BY <1>1
    <2> QED BY <2>1, <1>7, <1>8, <1>9
  <1>10. ASSUME NEW a \in 1 .. m + n, NEW b \in 1 .. m + n, a < b, FirstAt(sq, a), FirstAt(sq, b)
         PROVE  SaidBefore(E, f, sq[a], sq[b])
    <2>1. SUFFICES \E d, i, c, k : Place(sq[a], d, i) /\ Place(sq[b], c, k) /\ (Earlier(d, c) \/ (d = c /\ i < k))
      BY DEF SaidBefore
    <2>2. CASE b <= m
      <3>1. a \in 1 .. m /\ b \in 1 .. m
        BY <2>2, <1>1, <1>10
      <3>2. FirstAt(s, a) /\ FirstAt(s, b) /\ sq[a] = s[a] /\ sq[b] = s[b]
        BY <3>1, <1>6, <1>10
      <3>3. SaidBefore(D, f, s[a], s[b])
        BY <3>1, <3>2, <1>1, <1>10 DEF Ordered
      <3>4. PICK d \in D, c \in D : \E i \in DOMAIN ListOf(d, f), k \in DOMAIN ListOf(c, f) :
                FirstSaid(D, f, s[a], d, i) /\ FirstSaid(D, f, s[b], c, k) /\ (Earlier(d, c) \/ (d = c /\ i < k))
        BY <3>3 DEF SaidBefore
      <3>5. PICK i \in DOMAIN ListOf(d, f), k \in DOMAIN ListOf(c, f) :
                FirstSaid(D, f, s[a], d, i) /\ FirstSaid(D, f, s[b], c, k) /\ (Earlier(d, c) \/ (d = c /\ i < k))
        BY <3>4
      <3>6. Place(sq[a], d, i) /\ Place(sq[b], c, k)
        BY <3>2, <3>5, <1>5
      <3> QED BY <3>5, <3>6
    <2>3. CASE a <= m /\ ~(b <= m)
      <3>1. a \in 1 .. m
        BY <2>3, <1>1
      <3>2. PICK d \in D : \E i : Place(sq[a], d, i)
        BY <3>1, <1>8, <1>10
      <3>3. Place(sq[b], e, b - m)
        BY <2>3, <1>7, <1>10
      <3> QED BY <3>2, <3>3
    <2>4. CASE ~(a <= m)
      <3>1. ~(b <= m) /\ a - m < b - m
        BY <2>4, <1>1, <1>10
      <3>2. Place(sq[a], e, a - m) /\ Place(sq[b], e, b - m)
        BY <2>4, <3>1, <1>7, <1>10
      <3> QED BY <3>1, <3>2
    <2> QED BY <2>2, <2>3, <2>4
  <1>11. PICK u, p : u = Unique(sq) /\ u \in Seq(V) /\ Range(u) = Range(sq) /\ Picks(p, u, sq, m + n)
    <2>1. \E p : Picks(p, Unique(sq), sq, m + n)
      BY <1>1, UniquePicks
    <2>2. Unique(sq) \in Seq(V) /\ Range(Unique(sq)) = Range(sq)
      BY <1>1, UniquePicks
    <2> QED BY <2>1, <2>2
  <1>12. \A j \in DOMAIN u : p[j] \in 1 .. m + n /\ FirstAt(sq, p[j]) /\ u[j] = sq[p[j]]
    BY <1>11 DEF Picks
  <1>13. \A j, k \in DOMAIN u : j < k => p[j] < p[k]
    BY <1>11 DEF Picks
  <1>14. Distinct(u)
    <2> SUFFICES ASSUME NEW k \in DOMAIN u, NEW j \in 1 .. k - 1 PROVE u[j] # u[k]
      BY DEF Distinct, FirstAt
    <2>1. DOMAIN u = 1 .. Len(u) /\ Len(u) \in Nat
      BY <1>11
    <2>2. j \in DOMAIN u /\ j < k
      BY <2>1
    <2>3. p[j] < p[k] /\ p[j] \in 1 .. m + n /\ p[k] \in 1 .. m + n
      BY <2>2, <1>12, <1>13
    <2>4. p[j] \in 1 .. p[k] - 1
      BY <2>3, <1>1
    <2>5. sq[p[j]] # sq[p[k]]
      BY <2>4, <1>12 DEF FirstAt
    <2> QED BY <2>2, <2>5, <1>12
  <1>15. \A k \in DOMAIN u : \E d \in E : \E i \in DOMAIN ListOf(d, f) : FirstSaid(E, f, u[k], d, i)
    BY <1>9, <1>12
  <1>16. \A j, k \in DOMAIN u : j < k => SaidBefore(E, f, u[j], u[k])
    BY <1>10, <1>12, <1>13
  <1>17. Ordered(u, E, f)
    BY <1>4, <1>11, <1>15, <1>16 DEF Ordered
  <1> QED BY <1>11, <1>14, <1>17 DEF sq, t

------------------------------------------------------------------------------
(* What is merged says what the entries say together *)

\* A field has the value, and the source, that what was said of it makes.
FieldSays(value, source, D, f) ==
    /\ source = Latest(D).id
    /\ ~(f \in Additive /\ Cardinality(D) > 1) => value = Latest(D).content.fields[f]
    /\ f \in Additive => /\ value.of \in Seq(AllValues) /\ Ordered(value.of, D, f)
                         /\ Cardinality(D) > 1 => value.list /\ Distinct(value.of)

Formed(m) == m = [fields |-> m.fields, sources |-> m.sources, conflict |-> m.conflict]
Says(m, T) ==
    /\ DOMAIN m.fields = UNION {DOMAIN d.content.fields : d \in T}
    /\ \A f \in DOMAIN m.fields : FieldSays(m.fields[f], m.sources[f], Saying(T, f), f)

\* The entries are finitely many, and none has the id of another.
Entries(T) ==
    /\ IsFiniteSet(T)
    /\ \A e \in T : e.id \in Int \X Int /\ e.content \in Contents
    /\ \A d, e \in T : d # e => d.id # e.id

LEMMA EarlierOrLater ==
  ASSUME NEW T, Entries(T), NEW d \in T, NEW e \in T, d # e
  PROVE  Earlier(d, e) \/ Earlier(e, d)
  <1>1. d.id \in Int \X Int /\ e.id \in Int \X Int /\ d.id # e.id
    BY DEF Entries
  <1>2. d.id[1] # e.id[1] \/ d.id[2] # e.id[2]
    BY <1>1
  <1> QED BY <1>1, <1>2 DEF Earlier

\* The latest of some entries is later than each other one.
LEMMA LatestIsLast ==
  ASSUME NEW T, Entries(T), T # {}
  PROVE  /\ Latest(T) \in T
         /\ \A d \in T \ {Latest(T)} : Earlier(d, Latest(T)) /\ ~Earlier(Latest(T), d)
  <1>1. IsFiniteSet(T) /\ \A e \in T : e.id \in Int \X Int
    BY DEF Entries
  <1>2. Latest(T) \in T /\ \A d \in T : ~Earlier(Latest(T), d)
    BY <1>1, LatestThere
  <1>3. \A d \in T \ {Latest(T)} : Earlier(d, Latest(T))
    BY <1>2, EarlierOrLater
  <1> QED BY <1>2, <1>3

LEMMA LastIsLatest ==
  ASSUME NEW T, Entries(T), NEW e \in T, \A d \in T \ {e} : Earlier(d, e)
  PROVE  Latest(T) = e
  <1>1. ~Earlier(Latest(T), e) \/ Latest(T) = e
    BY LatestIsLast
  <1>2. Latest(T) \in T
    BY LatestIsLast
  <1> QED BY <1>1, <1>2

LEMMA SayingGrows ==
  ASSUME NEW U, NEW e, NEW f
  PROVE  Saying(U \union {e}, f) = IF f \in DOMAIN e.content.fields THEN Saying(U, f) \union {e} ELSE Saying(U, f)
  BY DEF Saying

LEMMA FewerEntries ==
  ASSUME NEW T, Entries(T), NEW U \in SUBSET T
  PROVE  Entries(U)
  BY FS_Subset DEF Entries

LEMMA MergeSays ==
  ASSUME NEW U, NEW e, Entries(U \union {e}), e \notin U, \A d \in U : Earlier(d, e) /\ ~Earlier(e, d),
         NEW m, Formed(m), ~Merge(m, e).conflict, Says(m, U)
  PROVE  Says(Merge(m, e), U \union {e})
  <1> DEFINE old == m.fields
             new == e.content.fields
             both == DOMAIN old \intersect DOMAIN new
             T == U \union {e}
             Since(f) == m.sources[f][1]
             chapter == e.id[1]
             Clash(f) == IF f \in Additive THEN ~(old[f].list /\ new[f].list)
                         ELSE old[f] # new[f] /\ Since(f) = chapter
             Value(f) == CASE f \notin DOMAIN old -> new[f]
                           [] f \in both \intersect Additive -> Joined(old[f], new[f])
                           [] f \in both \ Additive /\ chapter > Since(f) -> new[f]
                           [] OTHER -> old[f]
             Renewed(f) == f \in DOMAIN new /\ (f \in DOMAIN old => chapter >= Since(f))
             names == DOMAIN old \union DOMAIN new
             fields == [f \in names |-> Value(f)]
             sources == [f \in names |-> IF Renewed(f) THEN e.id ELSE m.sources[f]]
  <1>1. ~(m.conflict \/ \E f \in both : Clash(f))
    <2> SUFFICES ASSUME m.conflict \/ \E f \in both : Clash(f) PROVE FALSE
      OBVIOUS
    <2>1. Merge(m, e) = [m EXCEPT !.conflict = TRUE]
      BY DEF Merge
    <2>2. Merge(m, e) = [fields |-> m.fields, sources |-> m.sources, conflict |-> TRUE]
      <3> HIDE DEF old
      <3>1. m = [fields |-> m.fields, sources |-> m.sources, conflict |-> m.conflict]
        BY DEF Formed
      <3> QED BY ONLY <2>1, <3>1
    <2> QED BY <2>2
  <1>2. Merge(m, e) = [fields |-> fields, sources |-> sources, conflict |-> FALSE]
    BY <1>1 DEF Merge
  <1>3. Entries(U) /\ e \in T /\ e.content \in Contents /\ e.id \in Int \X Int
    BY FewerEntries DEF Entries
  <1>4. ~Earlier(e, e)
    BY <1>3, EarlierOrders
  <1>5. DOMAIN old = UNION {DOMAIN d.content.fields : d \in U}
    BY DEF Says
  <1>6. names = UNION {DOMAIN d.content.fields : d \in T}
    BY <1>5
  <1>7. ASSUME NEW f \in DOMAIN old PROVE FieldSays(old[f], m.sources[f], Saying(U, f), f) /\ Saying(U, f) # {}
    <2>1. FieldSays(m.fields[f], m.sources[f], Saying(U, f), f)
      BY DEF Says
    <2>2. \E d \in U : f \in DOMAIN d.content.fields
      BY <1>5
    <2>3. Saying(U, f) # {}
      BY <2>2 DEF Saying
    <2> QED BY <2>1, <2>3
  <1>8. ASSUME NEW f \in DOMAIN new PROVE new[f].of \in Seq(AllValues)
    BY <1>3, ContentsTyped
  <1>9. ASSUME NEW f \in names PROVE FieldSays(Value(f), IF Renewed(f) THEN e.id ELSE m.sources[f], Saying(T, f), f)
    <2>1. CASE f \notin DOMAIN new
      <3>1. f \in DOMAIN old /\ Saying(T, f) = Saying(U, f)
        BY <2>1, SayingGrows
      <3>2. Value(f) = old[f] /\ ~Renewed(f)
        BY <2>1, <3>1
      <3> QED BY <3>1, <3>2, <1>7
    <2>2. CASE f \in DOMAIN new /\ f \notin DOMAIN old
      <3>1. Saying(U, f) = {}
        BY <2>2, <1>5 DEF Saying
      <3>2. Saying(T, f) = {e}
        BY <2>2, <3>1, SayingGrows
      <3>3. Latest({e}) = e
        <4>1. Entries({e})
          BY FewerEntries
        <4> QED BY <4>1, LastIsLatest
      <3>4. Value(f) = new[f] /\ Renewed(f)
        BY <2>2
      <3>5. Cardinality({e}) = 1 /\ ~(1 > 1)
        BY FS_Singleton
      <3>6. Ordered(new[f].of, {e}, f)
        <4>1. ListOf(e, f) = new[f].of
          BY DEF ListOf
        <4> QED BY <1>4, <4>1, OneOrdered
      <3>7. new[f].of \in Seq(AllValues)
        BY <1>8, <2>2
      <3>8. FieldSays(new[f], e.id, {e}, f)
        BY <3>3, <3>5, <3>6, <3>7 DEF FieldSays
      <3> QED BY ONLY <3>2, <3>4, <3>8
    <2>3. CASE f \in both
      <3> DEFINE D == Saying(U, f)
      <3>1. Saying(T, f) = D \union {e} /\ D \subseteq U /\ D # {} /\ e \notin D
        BY <2>3, <1>7, SayingGrows DEF Saying
      <3>2. Entries(D) /\ Entries(D \union {e})
        BY <1>3, <3>1, FewerEntries DEF Saying
      <3>3. Latest(D \union {e}) = e
        BY <3>1, <3>2, LastIsLatest
      <3>4. Cardinality(D \union {e}) > 1
        <4>1. IsFiniteSet(D)
          BY <3>2 DEF Entries
        <4>2. Cardinality(D \union {e}) = Cardinality(D) + 1 /\ Cardinality(D) \in Nat /\ Cardinality(D) # 0
          BY <4>1, <3>1, FS_AddElement, FS_EmptySet, FS_CardinalityType
        <4> QED BY <4>2
      <3>5. FieldSays(old[f], m.sources[f], D, f)
        BY <2>3, <1>7
      <3>6. chapter \in Int /\ Since(f) \in Int /\ chapter >= Since(f)
        <4>1. Latest(D) \in D /\ m.sources[f] = Latest(D).id
          BY <3>1, <3>2, <3>5, LatestIsLast DEF FieldSays
        <4>2. Latest(D) \in U /\ Earlier(Latest(D), e) /\ Latest(D).id \in Int \X Int
          BY <4>1, <3>1, <3>2 DEF Entries
        <4>3. Latest(D).id[1] \in Int /\ e.id[1] \in Int
          BY <4>2, <1>3
        <4>4. Latest(D).id[1] <= e.id[1]
          BY <4>2, <4>3 DEF Earlier
        <4> QED BY <4>1, <4>3, <4>4
      <3>7. Renewed(f)
        BY <2>3, <3>6
      <3>8. CASE f \in Additive
        <4>1. Value(f) = Joined(old[f], new[f])
          BY <2>3, <3>8
        <4>2. ListOf(e, f) = new[f].of /\ new[f].of \in Seq(AllValues) /\ old[f].of \in Seq(AllValues) /\ Ordered(old[f].of, D, f)
          BY <2>3, <3>5, <3>8, <1>8 DEF FieldSays, ListOf
        <4> DEFINE all == Unique(old[f].of \o new[f].of)
        <4>3. Ordered(all, D \union {e}, f) /\ Distinct(all)
          <5>1. \A d \in D : Earlier(d, e) /\ ~Earlier(e, d)
            BY <3>1
          <5> HIDE DEF old, new, D
          <5> QED BY <4>2, <5>1, <1>4, JoinOrdered
        <4>4. all \in Seq(AllValues)
          <5>1. old[f].of \o new[f].of \in Seq(AllValues)
            BY <4>2, JoinedRange
          <5> QED BY <5>1, UniqueKeeps
        <4>5. Joined(old[f], new[f]).of = all /\ Joined(old[f], new[f]).list
          BY DEF Joined
        <4> HIDE DEF all
        <4>6. FieldSays(Joined(old[f], new[f]), e.id, D \union {e}, f)
          BY <3>3, <3>4, <3>8, <4>3, <4>4, <4>5 DEF FieldSays
        <4> QED BY ONLY <3>1, <3>7, <4>1, <4>6
      <3>9. CASE f \notin Additive
        <4>1. Value(f) = new[f]
          <5>1. CASE chapter > Since(f)
            BY <2>3, <3>9, <5>1
          <5>2. CASE ~(chapter > Since(f))
            <6>1. chapter = Since(f)
              BY <3>6, <5>2
            <6>2. ~Clash(f)
              BY <1>1, <2>3
            <6>3. old[f] = new[f]
              BY <3>9, <6>1, <6>2
            <6>4. Value(f) = old[f]
              BY <2>3, <3>9, <5>2
            <6> QED BY <6>3, <6>4
          <5> QED BY <5>1, <5>2
        <4>2. FieldSays(new[f], e.id, D \union {e}, f)
          BY <3>3, <3>9 DEF FieldSays
        <4> QED BY ONLY <3>1, <3>7, <4>1, <4>2
      <3> QED BY <3>8, <3>9
    <2> QED BY <2>1, <2>2, <2>3
  <1> HIDE DEF Value, Renewed, T, old, new
  <1>10. PICK r : r = Merge(m, e)
    OBVIOUS
  <1>11. /\ DOMAIN r.fields = names
         /\ \A f \in names : r.fields[f] = Value(f) /\ r.sources[f] = IF Renewed(f) THEN e.id ELSE m.sources[f]
    BY <1>2, <1>10
  <1>12. Says(r, T)
    <2> HIDE DEF names
    <2> QED BY <1>6, <1>9, <1>11 DEF Says, names
  <1> QED BY <1>10, <1>12 DEF T

LEMMA MergedSays ==
  ASSUME NEW S, Entries(S), ~Merged(S).conflict
  PROVE  Says(Merged(S), S)
  <1>1. IsFiniteSet(S) /\ \A e \in S : e.id \in Int \X Int
    BY DEF Entries
  <1>2. PICK g : Merged(S) = g[S] /\ \A T \in SUBSET S : g[T] = MergeStep(g, T)
    BY <1>1, MergedFolds
  <1> DEFINE Fine(T) == Formed(g[T]) /\ (~g[T].conflict => Says(g[T], T))
             Bad == {k \in Nat : \E T \in SUBSET S : Cardinality(T) = k /\ ~Fine(T)}
  <1>3. \A T \in SUBSET S : Entries(T) /\ IsFiniteSet(T) /\ Cardinality(T) \in Nat /\ (Cardinality(T) = 0 => T = {})
    BY <1>1, FewerEntries, FS_Subset, FS_EmptySet, FS_CardinalityType
  <1>4. ASSUME NEW T \in SUBSET S, T = {} PROVE Fine(T)
    <2>1. g[T] = Nothing
      BY <1>2, <1>4 DEF MergeStep
    <2>2. DOMAIN Nothing.fields = {} /\ Formed(Nothing)
      BY DEF Nothing, Formed
    <2>3. Says(Nothing, T)
      BY <1>4, <2>2 DEF Says
    <2> QED BY <2>1, <2>2, <2>3
  <1>5. Bad = {}
    <2> SUFFICES ASSUME Bad # {} PROVE FALSE
      OBVIOUS
    <2>1. 0 \notin Bad
      BY <1>3, <1>4
    <2>2. PICK k \in Bad : k \in Nat /\ k # 0 /\ k - 1 \in Nat /\ k - 1 \notin Bad
      <3>1. Bad \subseteq Nat
        OBVIOUS
      <3> HIDE DEF Bad
      <3> QED BY <2>1, <3>1, FirstFailure
    <2>3. PICK T \in SUBSET S : Cardinality(T) = k /\ ~Fine(T)
      OBVIOUS
    <2>4. T # {} /\ Entries(T)
      BY <1>3, <1>4, <2>3
    <2> DEFINE e == Latest(T)
               U == T \ {e}
    <2>5. e \in T /\ \A d \in U : Earlier(d, e) /\ ~Earlier(e, d)
      BY <2>4, LatestIsLast
    <2>6. U \in SUBSET S /\ Cardinality(U) = k - 1
      BY <2>3, <2>5, <1>3, FS_RemoveElement
    <2>7. Fine(U)
      BY <2>2, <2>6
    <2>8. PICK m, r : m = g[U] /\ r = g[T] /\ r = Merge(m, e)
      BY <1>2, <2>4 DEF MergeStep
    <2>9. Formed(m) /\ (~m.conflict => Says(m, U))
      BY <2>7, <2>8
    <2>10. Formed(r) /\ (~r.conflict => ~m.conflict)
      <3>1. CASE r = [m EXCEPT !.conflict = TRUE]
        <4>1. r = [fields |-> m.fields, sources |-> m.sources, conflict |-> TRUE]
          BY <2>9, <3>1 DEF Formed
        <4> QED BY <4>1 DEF Formed
      <3>2. CASE r # [m EXCEPT !.conflict = TRUE]
        <4>1. ~m.conflict
          BY <2>8, <3>2 DEF Merge
        <4>2. \E a, b : r = [fields |-> a, sources |-> b, conflict |-> FALSE]
          BY <2>8, <3>2 DEF Merge
        <4> QED BY <4>1, <4>2 DEF Formed
      <3> QED BY <3>1, <3>2
    <2> HIDE DEF e
    <2>11. e \notin U /\ U \union {e} = T
      BY <2>5
    <2>12. ~r.conflict => Says(r, T)
      <3> SUFFICES ASSUME ~r.conflict PROVE Says(r, T)
        OBVIOUS
      <3>1. Says(m, U) /\ ~Merge(m, e).conflict
        BY <2>8, <2>9, <2>10
      <3>2. Entries(U \union {e})
        BY <2>4, <2>11
      <3> HIDE DEF U
      <3>3. Says(Merge(m, e), U \union {e})
        BY <2>5, <2>9, <2>11, <3>1, <3>2, MergeSays
      <3> QED BY <2>8, <2>11, <3>3
    <2> QED BY <2>3, <2>8, <2>10, <2>12
  <1>6. S \in SUBSET S /\ Cardinality(S) \in Nat
    BY <1>3
  <1>7. Fine(S)
    BY <1>5, <1>6
  <1> QED BY <1>2, <1>7

\* Each active item is an entry of its own.
LEMMA ActiveAreEntries == MemoryIInv => Entries(ActiveEntries)
  <1> SUFFICES ASSUME MemoryIInv PROVE Entries(ActiveEntries)
    OBVIOUS
  <1>1. ActiveEntries \subseteq [id : Items, content : Contents]
    BY DEF MemoryIInv, ActiveIsApproved, Approved, ActiveEntries, ActiveIds
  <1>2. \A e \in ActiveEntries : e.id \in Int \X Int /\ e.content \in Contents
    BY <1>1, ItemIds
  <1>3. \A d, e \in ActiveEntries : d # e => d.id # e.id
    BY DEF ActiveEntries
  <1> QED BY <1>2, <1>3, ActiveFinite DEF Entries

LEMMA CurrentSnapshots == MemoryIInv => SnapshotsAreCurrent
  <1> SUFFICES ASSUME MemoryIInv, built = "yes", NEW s \in Mentioned(ActiveEntries),
                      KeepsItsFile(s, Mentioned(ActiveEntries))
               PROVE  LET entries == EntriesOf(ActiveEntries, s) IN
                      /\ s \in Loaded
                      /\ DOMAIN Snapshot(s).fields = UNION {DOMAIN e.content.fields : e \in entries}
                      /\ \A f \in DOMAIN Snapshot(s).fields :
                          LET said == Saying(entries, f) IN
                          /\ Snapshot(s).sources[f] = Latest(said).id
                          /\ IF f \in Additive /\ Cardinality(said) > 1
                             THEN Collects(Snapshot(s).fields[f], said, f)
                             ELSE Snapshot(s).fields[f] = Latest(said).content.fields[f]
    BY DEF SnapshotsAreCurrent
  <1> DEFINE entries == EntriesOf(ActiveEntries, s)
  <1>1. entries # {} /\ entries \in SUBSET ActiveEntries /\ Entries(entries)
    BY ActiveFinite, ActiveAreEntries, EntriesThere, FewerEntries
  <1>2. Snapshot(s) = SnapshotOf(entries) /\ ~Merged(entries).conflict
    BY DEF MemoryIInv, BuildingCurrent, AllMatch, MatchAmong, Matches
  <1> HIDE DEF entries
  <1>3. PICK m : m = Merged(entries) /\ Says(m, entries)
    BY <1>1, <1>2, MergedSays
  <1>4. Snapshot(s) = [is |-> "file", subject |-> s, fields |-> m.fields, sources |-> m.sources, latest |-> Latest(entries).id]
    <2>1. Latest(entries) \in entries
      BY <1>1, LatestIsLast
    <2>2. Latest(entries).content.subject = s
      BY <2>1 DEF entries, EntriesOf
    <2> QED BY <2>2, <1>2, <1>3 DEF SnapshotOf
  <1>5. s \in Loaded
    <2>1. /\ Latest(entries) \in ActiveEntries /\ Snapshot(s).latest = Latest(entries).id
          /\ Snapshot(s).is = "file" /\ Snapshot(s).subject = s
      BY <1>1, <1>4, LatestIsLast
    <2>2. items[Snapshot(s).latest].status = "active"
      BY <2>1 DEF ActiveEntries, ActiveIds
    <2>3. s \in Range(Subjects)
      BY ActiveFinite
    <2> QED BY <2>1, <2>2, <2>3 DEF Loaded
  <1>6. ASSUME NEW f \in DOMAIN m.fields
        PROVE  /\ m.sources[f] = Latest(Saying(entries, f)).id
               /\ IF f \in Additive /\ Cardinality(Saying(entries, f)) > 1
                  THEN Collects(m.fields[f], Saying(entries, f), f)
                  ELSE m.fields[f] = Latest(Saying(entries, f)).content.fields[f]
    <2> DEFINE D == Saying(entries, f)
               value == m.fields[f]
    <2>1. FieldSays(value, m.sources[f], D, f)
      BY <1>3 DEF Says
    <2> HIDE DEF D, value
    <2>2. ASSUME f \in Additive, Cardinality(D) > 1 PROVE Collects(value, D, f)
      BY <2>1, <2>2 DEF FieldSays, Ordered, Distinct, Collects
    <2> QED BY <2>1, <2>2 DEF FieldSays, D, value
  <1>7. DOMAIN m.fields = UNION {DOMAIN e.content.fields : e \in entries}
    BY <1>3 DEF Says
  <1>8. Snapshot(s).fields = m.fields /\ Snapshot(s).sources = m.sources
    BY <1>4
  <1> QED BY <1>5, <1>6, <1>7, <1>8 DEF entries

\* When a run of the materialiser ended and no item was written since it read them, the
\* snapshots say exactly what the approved changes say together (SnapshotsAreCurrent), however
\* many subjects share a file: only one whose file a later subject took over has none.
THEOREM SnapshotsStayCurrent == MemorySpec => []SnapshotsAreCurrent
  BY MemoryHolds, CurrentSnapshots, PTL

------------------------------------------------------------------------------
(* What folding makes of the memory of a context: ContextRules *)

\* One more element of a sequence is kept, or not.
Kept(kept, x, S) == IF x \in S THEN Append(kept, x) ELSE kept
OnlyStep(g, sq, S, T) == IF T = {} THEN <<>> ELSE Kept(g[T \ {Max(T)}], sq[Max(T)], S)

\* What is kept so far stays a sequence.
LEMMA KeptTyped ==
  ASSUME NEW V, NEW kept \in Seq(V), NEW x \in V, NEW S
  PROVE  Kept(kept, x, S) \in Seq(V)
  BY DEF Kept

\* Only goes through the sequence one by one.
LEMMA OnlyFolds ==
  ASSUME NEW V, NEW sq \in Seq(V), NEW S
  PROVE  \E u : /\ u[0] = <<>> /\ Only(sq, S) = u[Len(sq)]
                /\ \A k \in 1 .. Len(sq) : u[k] = Kept(u[k - 1], sq[k], S)
  <1> DEFINE n == Len(sq)
             step == [p \in Seq(V) \X (1 .. n) |-> Kept(p[1], sq[p[2]], S)]
  <1>1. n \in Nat /\ DOMAIN sq = 1 .. n
    OBVIOUS
  <1>2. step \in [Seq(V) \X (1 .. n) -> Seq(V)]
    <2>1. ASSUME NEW p \in Seq(V) \X (1 .. n) PROVE Kept(p[1], sq[p[2]], S) \in Seq(V)
      <3>1. p[1] \in Seq(V) /\ sq[p[2]] \in V
        OBVIOUS
      <3> QED BY <3>1, KeptTyped
    <2> QED BY <2>1
  <1>3. PICK g : g \in [SUBSET (1 .. n) -> Seq(V)] /\
            \A T \in SUBSET (1 .. n) : g[T] = IF T = {} THEN <<>> ELSE step[<<g[T \ {Max(T)}], Max(T)>>]
    <2> HIDE DEF step, n
    <2>1. \E g : Folds(g, Seq(V), <<>>, n, step)
      <3>1. <<>> \in Seq(V)
        OBVIOUS
      <3> QED BY <3>1, <1>1, <1>2, FoldThere
    <2> QED BY <2>1 DEF Folds
  <1>4. \A T \in SUBSET (1 .. n) : g[T] = OnlyStep(g, sq, S, T)
    <2> SUFFICES ASSUME NEW T \in SUBSET (1 .. n) PROVE g[T] = OnlyStep(g, sq, S, T)
      OBVIOUS
    <2>1. CASE T = {}
      BY <2>1, <1>3 DEF OnlyStep
    <2>2. CASE T # {}
      <3>1. Max(T) \in T
        BY <2>2, <1>1, GreatestThere
      <3>2. T \ {Max(T)} \in SUBSET (1 .. n) /\ Max(T) \in 1 .. n
        BY <3>1
      <3>3. g[T \ {Max(T)}] \in Seq(V)
        BY <3>2, <1>3
      <3> QED BY <2>2, <3>2, <3>3, <1>3 DEF OnlyStep
    <2> QED BY <2>1, <2>2
  <1>5. PICK f : (\A T \in SUBSET (1 .. n) : f[T] = OnlyStep(f, sq, S, T)) /\ Only(sq, S) = f[1 .. n]
    <2> DEFINE Is(h) == h = [T \in SUBSET (1 .. n) |-> OnlyStep(h, sq, S, T)]
    <2>1. Is(g)
      <3>1. g = [T \in SUBSET (1 .. n) |-> g[T]]
        BY <1>3
      <3> QED BY <3>1, <1>4
    <2> DEFINE f == CHOOSE h : Is(h)
    <2>2. Is(f)
      BY <2>1
    <2>3. Only(sq, S) = f[1 .. n]
      BY <1>1 DEF Only, FoldLeft, MapThenFoldSet, OnlyStep, Kept
    <2>4. \A T \in SUBSET (1 .. n) : f[T] = OnlyStep(f, sq, S, T)
      BY <2>2
    <2> QED BY <2>3, <2>4
  <1> DEFINE u == [k \in 0 .. n |-> f[1 .. k]]
  <1>6. u[0] = <<>>
    <2>1. 1 .. 0 = {} /\ {} \in SUBSET (1 .. n)
      OBVIOUS
    <2>2. 0 \in 0 .. n
      BY <1>1
    <2>3. f[{}] = <<>>
      BY <2>1, <1>5 DEF OnlyStep
    <2> QED BY <2>1, <2>2, <2>3
  <1>7. ASSUME NEW k \in 1 .. n PROVE u[k] = Kept(u[k - 1], sq[k], S)
    <2>1. k - 1 \in 0 .. n /\ k \in 0 .. n
      BY <1>1
    <2>2. 1 .. k \in SUBSET (1 .. n) /\ 1 .. k # {} /\ Max(1 .. k) = k /\ (1 .. k) \ {k} = 1 .. (k - 1)
      BY <1>1, UptoSplits
    <2>3. f[1 .. k] = OnlyStep(f, sq, S, 1 .. k)
      BY <2>2, <1>5
    <2>4. u[k] = f[1 .. k] /\ u[k - 1] = f[1 .. (k - 1)]
      BY <2>1
    <2> HIDE DEF u, n
    <2> QED BY <2>2, <2>3, <2>4 DEF OnlyStep
  <1>8. Only(sq, S) = u[n]
    BY <1>5, <1>1
  <1> HIDE DEF u
  <1> QED BY <1>6, <1>7, <1>8

SizeStep(g, taken, T) == IF T = {} THEN 0 ELSE g[T \ {Max(T)}] + taken[Max(T)].size

\* The sizes are added one by one.
LEMMA SizesFold ==
  ASSUME NEW S, NEW taken \in Seq(S), \A x \in S : x.size \in Nat
  PROVE  \E u : /\ u[0] = 0 /\ SizeOf(taken) = u[Len(taken)]
                /\ \A k \in 1 .. Len(taken) : u[k] = u[k - 1] + taken[k].size
                /\ \A k \in 0 .. Len(taken) : u[k] \in Nat
  <1> DEFINE n == Len(taken)
             step == [p \in Nat \X (1 .. n) |-> p[1] + taken[p[2]].size]
  <1>1. n \in Nat /\ DOMAIN taken = 1 .. n /\ \A k \in 1 .. n : taken[k] \in S
    OBVIOUS
  <1>2. step \in [Nat \X (1 .. n) -> Nat]
    BY <1>1
  <1>3. PICK g : g \in [SUBSET (1 .. n) -> Nat] /\
            \A T \in SUBSET (1 .. n) : g[T] = IF T = {} THEN 0 ELSE step[<<g[T \ {Max(T)}], Max(T)>>]
    <2> HIDE DEF step, n
    <2>1. \E g : Folds(g, Nat, 0, n, step)
      BY <1>1, <1>2, FoldThere
    <2> QED BY <2>1 DEF Folds
  <1>4. \A T \in SUBSET (1 .. n) : g[T] = SizeStep(g, taken, T)
    <2> SUFFICES ASSUME NEW T \in SUBSET (1 .. n) PROVE g[T] = SizeStep(g, taken, T)
      OBVIOUS
    <2>1. CASE T = {}
      BY <2>1, <1>3 DEF SizeStep
    <2>2. CASE T # {}
      <3>1. Max(T) \in T
        BY <2>2, <1>1, GreatestThere
      <3>2. T \ {Max(T)} \in SUBSET (1 .. n) /\ Max(T) \in 1 .. n
        BY <3>1
      <3>3. g[T \ {Max(T)}] \in Nat
        BY <3>2, <1>3
      <3> QED BY <2>2, <3>2, <3>3, <1>3 DEF SizeStep
    <2> QED BY <2>1, <2>2
  <1>5. PICK f : (\A T \in SUBSET (1 .. n) : f[T] = SizeStep(f, taken, T)) /\ SizeOf(taken) = f[1 .. n]
    <2> DEFINE Is(h) == h = [T \in SUBSET (1 .. n) |-> SizeStep(h, taken, T)]
    <2>1. Is(g)
      <3>1. g = [T \in SUBSET (1 .. n) |-> g[T]]
        BY <1>3
      <3> QED BY <3>1, <1>4
    <2> DEFINE f == CHOOSE h : Is(h)
    <2>2. Is(f)
      BY <2>1
    <2>3. SizeOf(taken) = f[1 .. n]
      BY <1>1 DEF SizeOf, FoldLeft, MapThenFoldSet, SizeStep
    <2>4. \A T \in SUBSET (1 .. n) : f[T] = SizeStep(f, taken, T)
      BY <2>2
    <2> QED BY <2>3, <2>4
  <1> DEFINE u == [k \in 0 .. n |-> f[1 .. k]]
  <1>6. u[0] = 0
    <2>1. 1 .. 0 = {} /\ {} \in SUBSET (1 .. n)
      OBVIOUS
    <2>2. 0 \in 0 .. n
      BY <1>1
    <2>3. f[{}] = 0
      BY <2>1, <1>5 DEF SizeStep
    <2> QED BY <2>1, <2>2, <2>3
  <1>7. ASSUME NEW k \in 1 .. n PROVE u[k] = u[k - 1] + taken[k].size
    <2>1. k - 1 \in 0 .. n /\ k \in 0 .. n
      BY <1>1
    <2>2. 1 .. k \in SUBSET (1 .. n) /\ 1 .. k # {} /\ Max(1 .. k) = k /\ (1 .. k) \ {k} = 1 .. (k - 1)
      BY <1>1, UptoSplits
    <2>3. f[1 .. k] = SizeStep(f, taken, 1 .. k)
      BY <2>2, <1>5
    <2>4. u[k] = f[1 .. k] /\ u[k - 1] = f[1 .. (k - 1)]
      BY <2>1
    <2> HIDE DEF u, n
    <2> QED BY <2>2, <2>3, <2>4 DEF SizeStep
  <1>8. SizeOf(taken) = u[n]
    BY <1>5, <1>1
  <1> HIDE DEF u, step
  <1> DEFINE Bad == {k \in 0 .. n : u[k] \notin Nat}
  <1>9. Bad = {}
    <2> SUFFICES ASSUME Bad # {} PROVE FALSE
      OBVIOUS
    <2>1. 0 \notin Bad
      BY <1>6
    <2>2. PICK k \in Bad : k \in Nat /\ k # 0 /\ k - 1 \in Nat /\ k - 1 \notin Bad
      <3>1. Bad \subseteq Nat
        OBVIOUS
      <3> HIDE DEF Bad
      <3> QED BY <2>1, <3>1, FirstFailure
    <2>3. k \in 1 .. n /\ k - 1 \in 0 .. n
      BY <2>2
    <2>4. u[k - 1] \in Nat /\ taken[k].size \in Nat
      BY <2>2, <2>3, <1>1
    <2> QED BY <2>2, <2>3, <2>4, <1>7
  <1>10. \A k \in 0 .. n : u[k] \in Nat
    BY <1>9
  <1> QED BY <1>6, <1>7, <1>8, <1>10

LEMMA SizeAppends ==
  ASSUME NEW S, \A x \in S : x.size \in Nat, NEW taken \in Seq(S), NEW s \in S
  PROVE  SizeOf(taken) \in Nat /\ SizeOf(Append(taken, s)) = SizeOf(taken) + s.size
  <1> DEFINE n == Len(taken)
             more == Append(taken, s)
  <1>1. n \in Nat /\ more \in Seq(S) /\ Len(more) = n + 1 /\ more[n + 1] = s /\ \A k \in 1 .. n : more[k] = taken[k]
    OBVIOUS
  <1> HIDE DEF more
  <1>2. PICK u : /\ u[0] = 0 /\ SizeOf(taken) = u[n]
                 /\ \A k \in 1 .. n : u[k] = u[k - 1] + taken[k].size
                 /\ \A k \in 0 .. n : u[k] \in Nat
    BY SizesFold
  <1>3. PICK v : /\ v[0] = 0 /\ SizeOf(more) = v[Len(more)]
                 /\ \A k \in 1 .. Len(more) : v[k] = v[k - 1] + more[k].size
                 /\ \A k \in 0 .. Len(more) : v[k] \in Nat
    BY <1>1, SizesFold
  <1> DEFINE Bad == {k \in 0 .. n : u[k] # v[k]}
  <1>4. Bad = {}
    <2> SUFFICES ASSUME Bad # {} PROVE FALSE
      OBVIOUS
    <2>1. 0 \notin Bad
      BY <1>2, <1>3
    <2>2. PICK k \in Bad : k \in Nat /\ k # 0 /\ k - 1 \in Nat /\ k - 1 \notin Bad
      <3>1. Bad \subseteq Nat
        BY <1>1
      <3> HIDE DEF Bad
      <3> QED BY <2>1, <3>1, FirstFailure
    <2>3. k \in 1 .. n /\ k - 1 \in 0 .. n /\ k \in 1 .. Len(more)
      BY <2>2, <1>1
    <2>4. u[k - 1] = v[k - 1] /\ more[k] = taken[k]
      BY <2>2, <2>3, <1>1
    <2>5. u[k] = u[k - 1] + taken[k].size /\ v[k] = v[k - 1] + more[k].size
      BY <2>3, <1>2, <1>3
    <2>6. u[k] = v[k]
      BY ONLY <2>4, <2>5
    <2> QED BY <2>6
  <1>5. u[n] = v[n] /\ n \in 0 .. n /\ n + 1 \in 1 .. Len(more) /\ n + 1 - 1 = n
    BY <1>1, <1>4
  <1>6. v[n + 1] = v[n] + s.size
    <2>1. v[n + 1] = v[n + 1 - 1] + more[n + 1].size
      BY <1>5, <1>3
    <2> QED BY ONLY <2>1, <1>5, <1>1
  <1>7. SizeOf(taken) \in Nat /\ SizeOf(more) = SizeOf(taken) + s.size
    BY <1>1, <1>2, <1>3, <1>5, <1>6
  <1> QED BY <1>7 DEF more

Taken(V) == [size : Int, of : Seq(V)]
Taking(base, sq, max) == FoldLeft(LAMBDA t, i : TakeMemory(t, i, max), base, sq)
TakingStep(g, base, sq, max, T) == IF T = {} THEN base ELSE TakeMemory(g[T \ {Max(T)}], sq[Max(T)], max)

\* What was taken so far has a size and is of the memory.
LEMMA TakingTyped ==
  ASSUME NEW V, \A x \in V : x.size \in Nat, NEW taken \in Taken(V), NEW x \in V, NEW max
  PROVE  TakeMemory(taken, x, max) \in Taken(V)
  <1>1. CASE TakeMemory(taken, x, max) = taken
    BY <1>1
  <1>2. CASE TakeMemory(taken, x, max) # taken
    <2>1. TakeMemory(taken, x, max) = [size |-> taken.size + x.size, of |-> Append(taken.of, x)]
      BY <1>2 DEF TakeMemory
    <2>2. taken.size + x.size \in Int /\ Append(taken.of, x) \in Seq(V)
      BY DEF Taken
    <2> QED BY <2>1, <2>2 DEF Taken
  <1> QED BY <1>1, <1>2

\* The memory is taken item by item.
LEMMA TakingFolds ==
  ASSUME NEW V, \A x \in V : x.size \in Nat, NEW sq \in Seq(V), NEW base \in Taken(V), NEW max
  PROVE  \E u : /\ u[0] = base /\ Taking(base, sq, max) = u[Len(sq)]
                /\ \A k \in 1 .. Len(sq) : u[k] = TakeMemory(u[k - 1], sq[k], max)
  <1> DEFINE n == Len(sq)
             step == [p \in Taken(V) \X (1 .. n) |-> TakeMemory(p[1], sq[p[2]], max)]
  <1>1. n \in Nat /\ DOMAIN sq = 1 .. n
    OBVIOUS
  <1>2. step \in [Taken(V) \X (1 .. n) -> Taken(V)]
    <2>1. ASSUME NEW p \in Taken(V) \X (1 .. n) PROVE TakeMemory(p[1], sq[p[2]], max) \in Taken(V)
      <3>1. p[1] \in Taken(V) /\ sq[p[2]] \in V
        OBVIOUS
      <3> QED BY <3>1, TakingTyped
    <2> QED BY <2>1
  <1>3. PICK g : g \in [SUBSET (1 .. n) -> Taken(V)] /\
            \A T \in SUBSET (1 .. n) : g[T] = IF T = {} THEN base ELSE step[<<g[T \ {Max(T)}], Max(T)>>]
    <2> HIDE DEF step, n
    <2>1. \E g : Folds(g, Taken(V), base, n, step)
      BY <1>1, <1>2, FoldThere
    <2> QED BY <2>1 DEF Folds
  <1>4. \A T \in SUBSET (1 .. n) : g[T] = TakingStep(g, base, sq, max, T)
    <2> SUFFICES ASSUME NEW T \in SUBSET (1 .. n) PROVE g[T] = TakingStep(g, base, sq, max, T)
      OBVIOUS
    <2>1. CASE T = {}
      BY <2>1, <1>3 DEF TakingStep
    <2>2. CASE T # {}
      <3>1. Max(T) \in T
        BY <2>2, <1>1, GreatestThere
      <3>2. T \ {Max(T)} \in SUBSET (1 .. n) /\ Max(T) \in 1 .. n
        BY <3>1
      <3>3. g[T \ {Max(T)}] \in Taken(V)
        BY <3>2, <1>3
      <3> QED BY <2>2, <3>2, <3>3, <1>3 DEF TakingStep
    <2> QED BY <2>1, <2>2
  <1>5. PICK f : (\A T \in SUBSET (1 .. n) : f[T] = TakingStep(f, base, sq, max, T)) /\ Taking(base, sq, max) = f[1 .. n]
    <2> DEFINE Is(h) == h = [T \in SUBSET (1 .. n) |-> TakingStep(h, base, sq, max, T)]
    <2>1. Is(g)
      <3>1. g = [T \in SUBSET (1 .. n) |-> g[T]]
        BY <1>3
      <3> QED BY <3>1, <1>4
    <2> DEFINE f == CHOOSE h : Is(h)
    <2>2. Is(f)
      BY <2>1
    <2>3. Taking(base, sq, max) = f[1 .. n]
      BY <1>1 DEF Taking, FoldLeft, MapThenFoldSet, TakingStep
    <2>4. \A T \in SUBSET (1 .. n) : f[T] = TakingStep(f, base, sq, max, T)
      BY <2>2
    <2> QED BY <2>3, <2>4
  <1> DEFINE u == [k \in 0 .. n |-> f[1 .. k]]
  <1>6. u[0] = base
    <2>1. 1 .. 0 = {} /\ {} \in SUBSET (1 .. n)
      OBVIOUS
    <2>2. 0 \in 0 .. n
      BY <1>1
    <2>3. f[{}] = base
      BY <2>1, <1>5 DEF TakingStep
    <2> QED BY <2>1, <2>2, <2>3
  <1>7. ASSUME NEW k \in 1 .. n PROVE u[k] = TakeMemory(u[k - 1], sq[k], max)
    <2>1. k - 1 \in 0 .. n /\ k \in 0 .. n
      BY <1>1
    <2>2. 1 .. k \in SUBSET (1 .. n) /\ 1 .. k # {} /\ Max(1 .. k) = k /\ (1 .. k) \ {k} = 1 .. (k - 1)
      BY <1>1, UptoSplits
    <2>3. f[1 .. k] = TakingStep(f, base, sq, max, 1 .. k)
      BY <2>2, <1>5
    <2>4. u[k] = f[1 .. k] /\ u[k - 1] = f[1 .. (k - 1)]
      BY <2>1
    <2> HIDE DEF u, n
    <2> QED BY <2>2, <2>3, <2>4 DEF TakingStep
  <1>8. Taking(base, sq, max) = u[n]
    BY <1>5, <1>1
  <1> HIDE DEF u
  <1> QED BY <1>6, <1>7, <1>8
\* What is kept of a sequence is of it and of the set.
LEMMA OnlyKeeps ==
  ASSUME NEW V, NEW sq \in Seq(V), NEW S
  PROVE  Only(sq, S) \in Seq(V \intersect S)
  <1> DEFINE n == Len(sq)
  <1>1. n \in Nat /\ \A k \in 1 .. n : sq[k] \in V
    OBVIOUS
  <1>2. PICK u : /\ u[0] = <<>> /\ Only(sq, S) = u[n]
                 /\ \A k \in 1 .. n : u[k] = Kept(u[k - 1], sq[k], S)
    BY OnlyFolds
  <1> DEFINE Bad == {k \in 0 .. n : u[k] \notin Seq(V \intersect S)}
  <1>3. Bad = {}
    <2> SUFFICES ASSUME Bad # {} PROVE FALSE
      OBVIOUS
    <2>1. 0 \notin Bad
      <3>1. <<>> \in Seq(V \intersect S)
        OBVIOUS
      <3> QED BY <3>1, <1>2
    <2>2. PICK k \in Bad : k \in Nat /\ k # 0 /\ k - 1 \in Nat /\ k - 1 \notin Bad
      <3>1. Bad \subseteq Nat
        OBVIOUS
      <3> HIDE DEF Bad
      <3> QED BY <2>1, <3>1, FirstFailure
    <2>3. k \in 1 .. n /\ k - 1 \in 0 .. n
      BY <2>2, <1>1
    <2>4. u[k - 1] \in Seq(V \intersect S) /\ sq[k] \in V /\ u[k] = Kept(u[k - 1], sq[k], S)
      BY <2>2, <2>3, <1>1, <1>2
    <2>5. u[k] \in Seq(V \intersect S)
      BY <2>4 DEF Kept
    <2> QED BY <2>5
  <1>4. u[n] \in Seq(V \intersect S)
    BY <1>1, <1>3
  <1> QED BY <1>2, <1>4

\* What is taken says its size, and fits when what it begins with does.
LEMMA TakingFits ==
  ASSUME NEW V, \A x \in V : x.size \in Nat, NEW sq \in Seq(V), NEW required \in Int, NEW max \in Int, required <= max
  PROVE  LET taken == Taking([size |-> required, of |-> <<>>], sq, max) IN
         taken.of \in Seq(V) /\ taken.size = required + SizeOf(taken.of) /\ taken.size <= max
  <1> DEFINE n == Len(sq)
             base == [size |-> required, of |-> <<>>]
             Fine(t) == t.of \in Seq(V) /\ t.size \in Int /\ t.size = required + SizeOf(t.of) /\ t.size <= max
  <1>1. n \in Nat /\ \A k \in 1 .. n : sq[k] \in V
    OBVIOUS
  <1>2. PICK u : u[0] = base /\ Taking(base, sq, max) = u[n] /\ \A k \in 1 .. n : u[k] = TakeMemory(u[k - 1], sq[k], max)
    <2>1. base \in Taken(V)
      BY DEF Taken
    <2> HIDE DEF base
    <2>2. \E u : /\ u[0] = base /\ Taking(base, sq, max) = u[Len(sq)]
                /\ \A k \in 1 .. Len(sq) : u[k] = TakeMemory(u[k - 1], sq[k], max)
      BY <2>1, TakingFolds
    <2> QED BY <2>2
  <1>3. Fine(base)
    <2>1. <<>> \in Seq(V) /\ Len(<<>>) = 0
      OBVIOUS
    <2>2. SizeOf(<<>>) = 0
      BY <2>1, SizesFold
    <2> QED BY <2>1, <2>2
  <1>4. ASSUME NEW t, Fine(t), NEW x \in V PROVE Fine(TakeMemory(t, x, max))
    <2>1. CASE TakeMemory(t, x, max) = t
      BY <2>1, <1>4
    <2>2. CASE TakeMemory(t, x, max) # t
      <3>1. ~(t.size + x.size > max) /\ TakeMemory(t, x, max) = [size |-> t.size + x.size, of |-> Append(t.of, x)]
        BY <2>2 DEF TakeMemory
      <3>2. SizeOf(t.of) \in Nat /\ SizeOf(Append(t.of, x)) = SizeOf(t.of) + x.size
        BY <1>4, SizeAppends
      <3>3. Append(t.of, x) \in Seq(V) /\ t.size + x.size \in Int /\ t.size + x.size <= max
        BY <3>1, <1>4
      <3>4. t.size + x.size = required + SizeOf(Append(t.of, x))
        BY <3>2, <1>4
      <3> QED BY <3>1, <3>3, <3>4
    <2> QED BY <2>1, <2>2
  <1> HIDE DEF Fine
  <1> DEFINE Bad == {k \in 0 .. n : ~Fine(u[k])}
  <1>5. Bad = {}
    <2> SUFFICES ASSUME Bad # {} PROVE FALSE
      OBVIOUS
    <2>1. 0 \notin Bad
      BY <1>2, <1>3
    <2>2. PICK k \in Bad : k \in Nat /\ k # 0 /\ k - 1 \in Nat /\ k - 1 \notin Bad
      <3>1. Bad \subseteq Nat
        OBVIOUS
      <3> HIDE DEF Bad
      <3> QED BY <2>1, <3>1, FirstFailure
    <2>3. k \in 1 .. n /\ k - 1 \in 0 .. n
      BY <2>2, <1>1
    <2>4. Fine(u[k - 1]) /\ sq[k] \in V /\ u[k] = TakeMemory(u[k - 1], sq[k], max)
      BY <2>2, <2>3, <1>1, <1>2
    <2>5. Fine(u[k])
      BY <2>4, <1>4
    <2> QED BY <2>5
  <1>6. Fine(u[n])
    BY <1>1, <1>5
  <1> QED BY <1>2, <1>6 DEF Fine

------------------------------------------------------------------------------
(* What is retrieved *)

\* Of what is counted from a bound on, something has the least count.
LEMMA LeastOf ==
  ASSUME NEW L, L # {}, NEW r \in [L -> Int], NEW m \in Int, \A a \in L : m <= r[a]
  PROVE  \E a \in L : \A b \in L : r[a] <= r[b]
  <1> DEFINE T == {d \in Nat : \E a \in L : r[a] = m + d}
  <1>1. \A a \in L : r[a] - m \in Nat /\ r[a] = m + (r[a] - m)
    OBVIOUS
  <1>2. T \subseteq Nat /\ T # {}
    BY <1>1
  <1>3. \E d \in T : \A e \in T : d <= e
    <2> HIDE DEF T
    <2> QED BY <1>2, LeastNumber
  <1>4. PICK d \in T : \A e \in T : d <= e
    BY <1>3
  <1>5. PICK a \in L : r[a] = m + d
    OBVIOUS
  <1>6. ASSUME NEW b \in L PROVE r[a] <= r[b]
    <2>1. r[b] - m \in T
      BY <1>1
    <2>2. d <= r[b] - m /\ d \in Nat
      BY <1>4, <2>1
    <2>3. r[b] \in Int
      OBVIOUS
    <2> QED BY <2>2, <2>3, <1>5
  <1> QED BY <1>6

\* What an item is ranked by.
Ranked(i, query) ==
    i.scope \in DOMAIN ScopeRank /\ i.confidence \in 0 .. 10 /\ i.rank \in Nat

\* An item is ranked by four numbers, each with a bound below.
LEMMA RelevanceCounts ==
  ASSUME NEW query, IsFiniteSet(query.tags), NEW i, Ranked(i, query)
  PROVE  LET r == Relevance(i, query) IN
         /\ DOMAIN r = 1 .. 4 /\ r[1] \in Int /\ r[2] \in Int /\ r[3] \in Int /\ r[4] \in Int
         /\ -Cardinality(query.tags) <= r[1] /\ 0 <= r[2] /\ -10 <= r[3] /\ 0 <= r[4]
  <1> DEFINE c == Cardinality(i.tags \intersect query.tags)
             s == ScopeRank[i.scope]
  <1>1. c \in Nat /\ Cardinality(query.tags) \in Nat /\ c <= Cardinality(query.tags)
    <2>1. i.tags \intersect query.tags \subseteq query.tags
      OBVIOUS
    <2>2. IsFiniteSet(i.tags \intersect query.tags) /\ c <= Cardinality(query.tags)
      BY <2>1, FS_Subset
    <2> QED BY <2>2, FS_CardinalityType
  <1>2. s \in Nat
    BY DEF Ranked, ScopeRank
  <1>3. i.confidence \in 0 .. 10 /\ i.rank \in Nat
    BY DEF Ranked
  <1>4. Relevance(i, query) = <<-c, s, -i.confidence, i.rank>>
    BY DEF Relevance
  <1> HIDE DEF c, s
  <1> QED BY <1>1, <1>2, <1>3, <1>4

\* Of some items one is such that no other is sooner.
LEMMA SoonestThere ==
  ASSUME NEW query, IsFiniteSet(query.tags), NEW left, left # {}, \A i \in left : Ranked(i, query)
  PROVE  \E a \in left : \A b \in left : ~Sooner(Relevance(b, query), Relevance(a, query))
  <1> DEFINE R(k) == [i \in left |-> Relevance(i, query)[k]]
             L1 == {a \in left : \A b \in left : R(1)[a] <= R(1)[b]}
             L2 == {a \in L1 : \A b \in L1 : R(2)[a] <= R(2)[b]}
             L3 == {a \in L2 : \A b \in L2 : R(3)[a] <= R(3)[b]}
             L4 == {a \in L3 : \A b \in L3 : R(4)[a] <= R(4)[b]}
  <1>1. PICK m : m \in [1 .. 4 -> Int] /\ \A i \in left : \A k \in 1 .. 4 :
            Relevance(i, query)[k] \in Int /\ m[k] <= Relevance(i, query)[k] /\ DOMAIN Relevance(i, query) = 1 .. 4
    <2> DEFINE m == <<-Cardinality(query.tags), 0, -10, 0>>
    <2>1. Cardinality(query.tags) \in Nat
      BY FS_CardinalityType
    <2>2. m \in [1 .. 4 -> Int]
      BY <2>1
    <2>3. ASSUME NEW i \in left, NEW k \in 1 .. 4
          PROVE  Relevance(i, query)[k] \in Int /\ m[k] <= Relevance(i, query)[k] /\ DOMAIN Relevance(i, query) = 1 .. 4
      <3>1. PICK r : r = Relevance(i, query)
        OBVIOUS
      <3>2. /\ DOMAIN r = 1 .. 4 /\ r[1] \in Int /\ r[2] \in Int /\ r[3] \in Int /\ r[4] \in Int
            /\ -Cardinality(query.tags) <= r[1] /\ 0 <= r[2] /\ -10 <= r[3] /\ 0 <= r[4]
        BY <3>1, RelevanceCounts
      <3>3. k = 1 \/ k = 2 \/ k = 3 \/ k = 4
        OBVIOUS
      <3>4. r[k] \in Int
        BY <3>2, <3>3
      <3>5. m[k] <= r[k]
        BY <3>2, <3>3
      <3> QED BY <3>1, <3>2, <3>4, <3>5
    <2> HIDE DEF m
    <2> QED BY <2>2, <2>3
  <1>2. \A k \in 1 .. 4 : \A L \in SUBSET left : L # {} => \E a \in L : \A b \in L : R(k)[a] <= R(k)[b]
    <2> SUFFICES ASSUME NEW k \in 1 .. 4, NEW L \in SUBSET left, L # {} PROVE \E a \in L : \A b \in L : R(k)[a] <= R(k)[b]
      OBVIOUS
    <2> DEFINE r == [i \in L |-> Relevance(i, query)[k]]
    <2>1. r \in [L -> Int] /\ m[k] \in Int /\ \A a \in L : m[k] <= r[a]
      BY <1>1
    <2>2. \E a \in L : \A b \in L : r[a] <= r[b]
      <3> HIDE DEF r
      <3> QED BY <2>1, LeastOf
    <2> QED BY <2>2
  <1>3. L1 \in SUBSET left /\ L2 \in SUBSET left /\ L3 \in SUBSET left /\ L4 \in SUBSET left
    OBVIOUS
  <1>4. L1 # {}
    <2>1. 1 \in 1 .. 4 /\ left \in SUBSET left /\ left # {}
      BY <1>3
    <2>2. \E a \in left : \A b \in left : R(1)[a] <= R(1)[b]
      <3> QED BY <2>1, <1>2
    <2> QED BY <2>2
  <1>5. L2 # {}
    <2>1. 2 \in 1 .. 4 /\ L1 \in SUBSET left /\ L1 # {}
      BY <1>3, <1>4
    <2>2. \E a \in L1 : \A b \in L1 : R(2)[a] <= R(2)[b]
      <3> HIDE DEF L1
      <3> QED BY <2>1, <1>2
    <2> QED BY <2>2
  <1>6. L3 # {}
    <2>1. 3 \in 1 .. 4 /\ L2 \in SUBSET left /\ L2 # {}
      BY <1>3, <1>5
    <2>2. \E a \in L2 : \A b \in L2 : R(3)[a] <= R(3)[b]
      <3> HIDE DEF L1, L2
      <3> QED BY <2>1, <1>2
    <2> QED BY <2>2
  <1>7. L4 # {}
    <2>1. 4 \in 1 .. 4 /\ L3 \in SUBSET left /\ L3 # {}
      BY <1>3, <1>6
    <2>2. \E a \in L3 : \A b \in L3 : R(4)[a] <= R(4)[b]
      <3> HIDE DEF L1, L2, L3
      <3> QED BY <2>1, <1>2
    <2> QED BY <2>2
  <1>8. PICK a \in L4 : a \in L3 /\ a \in L2 /\ a \in L1 /\ a \in left
    BY <1>7
  <1>9. ASSUME NEW b \in left, Sooner(Relevance(b, query), Relevance(a, query)) PROVE FALSE
    <2>1. PICK k \in 1 .. 4 : R(k)[b] < R(k)[a] /\ \A j \in 1 .. k - 1 : R(j)[b] = R(j)[a]
      BY <1>1, <1>8, <1>9 DEF Sooner
    <2>2. \A j \in 1 .. 4 : R(j)[a] \in Int /\ R(j)[b] \in Int
      BY <1>1, <1>8
    <2>3. k # 1
      BY <1>8, <2>1, <2>2
    <2>4. R(1)[b] = R(1)[a]
      BY <2>1, <2>3
    <2>5. b \in L1
      BY <1>8, <2>4
    <2>6. k # 2
      BY <1>8, <2>1, <2>2, <2>5
    <2>7. R(2)[b] = R(2)[a]
      BY <2>1, <2>3, <2>6
    <2>8. b \in L2
      BY <1>8, <2>5, <2>7
    <2>9. k # 3
      BY <1>8, <2>1, <2>2, <2>8
    <2>10. R(3)[b] = R(3)[a]
      BY <2>1, <2>3, <2>6, <2>9
    <2>11. b \in L3
      BY <1>8, <2>8, <2>10
    <2>12. k = 4
      BY <2>3, <2>6, <2>9
    <2> QED BY <1>8, <2>1, <2>2, <2>11, <2>12
  <1> QED BY <1>8, <1>9

BestStep(g, all, query, k) ==
    IF k = 0 THEN <<>>
    ELSE LET found == g[k - 1]
             left == all \ ToSet(found)
         IN IF left = {} THEN found
            ELSE Append(found, CHOOSE a \in left : \A b \in left : ~Sooner(Relevance(b, query), Relevance(a, query)))

\* What is retrieved is the last of the growing selections.
LEMMA RetrieveFolds ==
  ASSUME NEW pool, NEW query
  PROVE  \E f : /\ Retrieve(pool, query) = f[Retrieved]
                /\ \A k \in 0 .. Retrieved : f[k] = BestStep(f, {i \in pool : Answers(i, query)}, query, k)
  <1> DEFINE all == {i \in pool : Answers(i, query)}
             Solves(g, n) == g = [k \in 0 .. n |-> BestStep(g, all, query, k)]
             Bad == {n \in Nat : ~ \E g : Solves(g, n)}
  <1>1. Retrieved \in Nat
    BY RetrievedAssumption
  <1>2. Bad = {}
    <2> SUFFICES ASSUME Bad # {} PROVE FALSE
      OBVIOUS
    <2>1. 0 \notin Bad
      <3>1. Solves([k \in 0 .. 0 |-> <<>>], 0)
        <4>1. \A k \in 0 .. 0 : k = 0
          OBVIOUS
        <4> QED BY <4>1 DEF BestStep
      <3> QED BY <3>1
    <2>2. PICK n \in Bad : n \in Nat /\ n # 0 /\ n - 1 \in Nat /\ n - 1 \notin Bad
      <3>1. Bad \subseteq Nat
        OBVIOUS
      <3> HIDE DEF Bad
      <3> QED BY <2>1, <3>1, FirstFailure
    <2>3. PICK g : Solves(g, n - 1)
      BY <2>2
    <2> HIDE DEF all
    <2>4. \A k \in 0 .. n - 1 : g[k] = BestStep(g, all, query, k)
      BY <2>3
    <2> DEFINE new == BestStep(g, all, query, n)
               h == [k \in 0 .. n |-> IF k = n THEN new ELSE g[k]]
    <2>5. ASSUME NEW k \in 0 .. n PROVE h[k] = BestStep(h, all, query, k)
      <3>1. k # 0 => k - 1 \in 0 .. n /\ k - 1 # n
        BY <2>2
      <3>2. k # 0 => h[k - 1] = g[k - 1]
        BY <3>1
      <3>3. h[k] = BestStep(g, all, query, k)
        <4>1. CASE k = n
          BY <4>1
        <4>2. CASE k # n
          <5>1. k \in 0 .. n - 1
            BY <4>2, <2>2
          <5> QED BY <4>2, <5>1, <2>4
        <4> QED BY <4>1, <4>2
      <3> HIDE DEF h
      <3> QED BY <3>2, <3>3 DEF BestStep
    <2>6. Solves(h, n)
      <3>1. h = [k \in 0 .. n |-> h[k]]
        OBVIOUS
      <3> HIDE DEF h
      <3> QED BY <2>5, <3>1
    <2> QED BY <2>2, <2>6
  <1>3. \E g : Solves(g, Retrieved)
    BY <1>1, <1>2
  <1> DEFINE f == CHOOSE g : Solves(g, Retrieved)
  <1>4. Solves(f, Retrieved)
    BY <1>3
  <1>5. Retrieve(pool, query) = f[Retrieved]
    BY DEF Retrieve, BestStep
  <1>6. \A k \in 0 .. Retrieved : f[k] = BestStep(f, all, query, k)
    <2> HIDE DEF f, all
    <2> QED BY <1>4
  <1> QED BY <1>5, <1>6

\* What is retrieved answers the query.
LEMMA RetrieveAnswers ==
  ASSUME NEW pool, NEW query, IsFiniteSet(query.tags), \A i \in pool : Ranked(i, query)
  PROVE  Retrieve(pool, query) \in Seq({i \in pool : Answers(i, query)})
  <1> DEFINE all == {i \in pool : Answers(i, query)}
  <1>1. Retrieved \in Nat
    BY RetrievedAssumption
  <1>2. \A i \in all : Ranked(i, query)
    OBVIOUS
  <1>3. PICK f : /\ Retrieve(pool, query) = f[Retrieved]
                 /\ \A k \in 0 .. Retrieved : f[k] = BestStep(f, all, query, k)
    BY RetrieveFolds
  <1> HIDE DEF all
  <1> DEFINE Bad == {k \in 0 .. Retrieved : f[k] \notin Seq(all)}
  <1>4. Bad = {}
    <2> SUFFICES ASSUME Bad # {} PROVE FALSE
      OBVIOUS
    <2>1. 0 \notin Bad
      <3>1. 0 \in 0 .. Retrieved /\ <<>> \in Seq(all)
        BY <1>1
      <3> QED BY <3>1, <1>3 DEF BestStep
    <2>2. PICK k \in Bad : k \in Nat /\ k # 0 /\ k - 1 \in Nat /\ k - 1 \notin Bad
      <3>1. Bad \subseteq Nat
        BY <1>1
      <3> HIDE DEF Bad
      <3> QED BY <2>1, <3>1, FirstFailure
    <2>3. k \in 0 .. Retrieved /\ k - 1 \in 0 .. Retrieved
      BY <2>2, <1>1
    <2> DEFINE left == all \ ToSet(f[k - 1])
    <2>4. f[k - 1] \in Seq(all) /\ f[k] = BestStep(f, all, query, k)
      BY <2>2, <2>3, <1>3
    <2>5. CASE left = {}
      BY <2>2, <2>4, <2>5 DEF BestStep
    <2>6. CASE left # {}
      <3> DEFINE a == CHOOSE x \in left : \A b \in left : ~Sooner(Relevance(b, query), Relevance(x, query))
      <3>1. \A i \in left : Ranked(i, query)
        BY <1>2
      <3>2. f[k] = Append(f[k - 1], a)
        BY <2>2, <2>4, <2>6 DEF BestStep
      <3>3. a \in left
        <4> HIDE DEF left
        <4>1. \E x \in left : \A b \in left : ~Sooner(Relevance(b, query), Relevance(x, query))
          BY <2>6, <3>1, SoonestThere
        <4> QED BY <4>1
      <3>4. a \in all
        BY <3>3
      <3> HIDE DEF a, left
      <3>5. Append(f[k - 1], a) \in Seq(all)
        BY <2>4, <3>4
      <3> QED BY <2>2, <3>2, <3>5
    <2> QED BY <2>5, <2>6
  <1>5. f[Retrieved] \in Seq(all)
    BY <1>1, <1>4
  <1> QED BY <1>3, <1>5 DEF all

------------------------------------------------------------------------------
(* What a context is compiled of *)

\* The size of what is counted is a number.
LEMMA SizeCounts ==
  ASSUME NEW V, \A x \in V : x.size \in Nat, NEW sq \in Seq(V)
  PROVE  SizeOf(sq) \in Nat
  <1>1. PICK u : SizeOf(sq) = u[Len(sq)] /\ \A k \in 0 .. Len(sq) : u[k] \in Nat
    BY SizesFold
  <1>2. Len(sq) \in 0 .. Len(sq)
    OBVIOUS
  <1> QED BY <1>1, <1>2

\* What is in a sequence over a set is in the set.
LEMMA ListedIsOf ==
  ASSUME NEW V, NEW sq \in Seq(V)
  PROVE  ToSet(sq) \subseteq V
  BY DEF ToSet

Plain(known, grant) == {k \in ToSet(known) : k.kind # "narrative_decision" /\ ~IsOf(k, {grant.of})}

\* Under a grant the knowledge has the granted contract once, and no other version of it.
LEMMA KnowledgeGranted ==
  ASSUME NEW known, known \in Seq(ToSet(known)), NEW grant, grant # NoGrant
  PROVE  LET knowledge == Knowledge(known, grant) IN
         /\ knowledge \in Seq(Plain(known, grant) \union {Frozen(grant)})
         /\ Frozen(grant) \in ToSet(knowledge)
         /\ Cardinality({i \in DOMAIN knowledge : knowledge[i] = Frozen(grant)}) = 1
  <1> DEFINE S == Plain(known, grant)
             kept == Only(known, S)
             fz == Frozen(grant)
             n == Len(kept)
             all == Append(kept, fz)
  <1>1. kept \in Seq(S)
    <2>1. kept \in Seq(ToSet(known) \intersect S)
      <3> HIDE DEF S
      <3> QED BY OnlyKeeps
    <2>2. ToSet(known) \intersect S = S
      BY DEF Plain
    <2> QED BY <2>1, <2>2
  <1>2. Knowledge(known, grant) = all
    BY DEF Knowledge, Plain
  <1>3. fz.kind = "narrative_decision" /\ \A x \in S : x # fz
    BY DEF Frozen, Plain
  <1> HIDE DEF kept, S, fz
  <1>4. n \in Nat /\ all \in Seq(S \union {fz}) /\ DOMAIN all = 1 .. n + 1 /\ all[n + 1] = fz /\ \A i \in 1 .. n : all[i] = kept[i] /\ kept[i] \in S
    BY <1>1
  <1> HIDE DEF all, n
  <1>5. {i \in DOMAIN all : all[i] = fz} = {n + 1}
    <2>1. \A i \in 1 .. n + 1 : i \in 1 .. n \/ i = n + 1
      BY <1>4
    <2>2. n + 1 \in 1 .. n + 1
      BY <1>4
    <2> QED BY <2>1, <2>2, <1>3, <1>4
  <1>6. Cardinality({n + 1}) = 1
    BY FS_Singleton
  <1>7. fz \in ToSet(all)
    BY <1>5 DEF ToSet
  <1> QED BY <1>2, <1>4, <1>5, <1>6, <1>7 DEF fz, S

\* A context that was built, and what it was built of.
LEMMA BuiltOf ==
  ASSUME NEW c, ContextTyped(c), c.about = "context", NEW context,
         context = BuildNextChapter(c.project, c.items, c.known, c.grant, c.required, c.query, c.max), context # NoContext
  PROVE  LET excluded == IF c.grant = NoGrant THEN {} ELSE {c.grant.of}
             Stays == {i \in c.items : /\ Answers(i, c.query) /\ i.form \notin {"old state", "pov"} /\ ~IsOf(i, excluded)}
         IN /\ MayBuild(c.project, c.grant, c.required)
            /\ context.knowledge = Knowledge(c.known, c.grant)
            /\ context.working \in Seq(Stays) /\ context.memory \in Seq(Stays)
            /\ context.size = c.project.asked + SizeOf(context.knowledge) + SizeOf(context.working) + SizeOf(context.memory)
            /\ context.size <= c.max
  <1> DEFINE excluded == IF c.grant = NoGrant THEN {} ELSE {c.grant.of}
             A == {i \in c.items : Answers(i, c.query)}
             B == {i \in A : i.form \notin {"old state", "pov"}}
             Stays == {i \in c.items : /\ Answers(i, c.query) /\ i.form \notin {"old state", "pov"} /\ ~IsOf(i, excluded)}
             retrieved == Retrieve(c.items, c.query)
             found == Retained(retrieved)
             working == Working(found, excluded)
             optional == Optional(found, excluded)
             knowledge == Knowledge(c.known, c.grant)
             required == c.project.asked + SizeOf(knowledge) + SizeOf(working)
             taken == Taking([size |-> required, of |-> <<>>], optional, c.max)
  <1>1. /\ MayBuild(c.project, c.grant, c.required) /\ context = Compile(found, c.known, c.grant, c.project.asked, c.max)
    BY DEF BuildNextChapter
  <1>2. /\ ~(required > c.max)
        /\ context = [is |-> "context", working |-> working, knowledge |-> knowledge, memory |-> taken.of, size |-> taken.size]
    BY <1>1 DEF Compile, Taking
  <1>3. retrieved \in Seq(A)
    <2>1. \A i \in c.items : Ranked(i, c.query)
      BY DEF ContextTyped, Ranked
    <2>2. IsFiniteSet(c.query.tags)
      BY DEF ContextTyped
    <2> QED BY <2>1, <2>2, RetrieveAnswers
  <1>4. found \in Seq(B)
    <2> HIDE DEF A, retrieved
    <2> DEFINE S == {i \in ToSet(retrieved) : i.form \notin {"old state", "pov"}}
    <2>1. found = Only(retrieved, S)
      BY DEF Retained
    <2>2. A \intersect S \subseteq B
      OBVIOUS
    <2> HIDE DEF S
    <2>3. Only(retrieved, S) \in Seq(A \intersect S)
      BY <1>3, OnlyKeeps
    <2> HIDE DEF found, B
    <2> QED BY <2>1, <2>2, <2>3
  <1>5. working \in Seq(Stays) /\ optional \in Seq(Stays)
    <2> DEFINE S == {i \in ToSet(found) : i.kind = "working" /\ ~IsOf(i, excluded)}
               T == {i \in ToSet(found) : i.kind # "working" /\ ~IsOf(i, excluded)}
    <2>1. B \intersect S \subseteq Stays /\ B \intersect T \subseteq Stays
      OBVIOUS
    <2> HIDE DEF found, B, Stays, excluded
    <2>2. working = Only(found, S) /\ optional = Only(found, T)
      BY DEF Working, Optional
    <2> HIDE DEF S, T, working, optional
    <2>3. Only(found, S) \in Seq(B \intersect S) /\ Only(found, T) \in Seq(B \intersect T)
      BY <1>4, OnlyKeeps
    <2> QED BY <2>1, <2>2, <2>3
  <1>6. SizeOf(knowledge) \in Nat
    <2>1. c.known \in Seq(ToSet(c.known)) /\ \A x \in ToSet(c.known) : x.size \in Nat
      BY DEF ContextTyped
    <2>2. CASE c.grant = NoGrant
      <3>1. knowledge = c.known
        BY <2>2 DEF Knowledge
      <3> QED BY <3>1, <2>1, SizeCounts
    <2>3. CASE c.grant # NoGrant
      <3> DEFINE K == Plain(c.known, c.grant) \union {Frozen(c.grant)}
      <3>1. \A x \in K : x.size \in Nat
        BY <2>1, <2>3 DEF Plain, Frozen, ContextTyped
      <3>2. knowledge \in Seq(K)
        BY <2>1, <2>3, KnowledgeGranted
      <3> HIDE DEF K, knowledge
      <3> QED BY <3>1, <3>2, SizeCounts
    <2> QED BY <2>2, <2>3
  <1>7. \A x \in Stays : x.size \in Nat
    BY DEF ContextTyped
  <1>8. SizeOf(working) \in Nat
    <2> HIDE DEF working, Stays
    <2> QED BY <1>5, <1>7, SizeCounts
  <1>9. c.project.asked \in Nat /\ c.max \in Int
    BY DEF ContextTyped
  <1> HIDE DEF working, optional, knowledge, Stays
  <1>10. required \in Int /\ required <= c.max
    BY <1>2, <1>6, <1>8, <1>9
  <1> HIDE DEF required
  <1>11. taken.of \in Seq(Stays) /\ taken.size = required + SizeOf(taken.of) /\ taken.size <= c.max
    BY <1>5, <1>7, <1>9, <1>10, TakingFits
  <1> HIDE DEF taken
  <1>12. /\ context.knowledge = knowledge /\ context.working = working /\ context.memory = taken.of /\ context.size = taken.size
    BY <1>2
  <1>13. context.size = c.project.asked + SizeOf(context.knowledge) + SizeOf(context.working) + SizeOf(context.memory)
    BY <1>11, <1>12 DEF required
  <1> QED BY <1>1, <1>5, <1>11, <1>12, <1>13 DEF knowledge, Stays

\* A context of any typed case is admitted.
LEMMA ContextHolds ==
  ASSUME ContextTyped(case)
  PROVE  ContextIsAdmitted
  <1> DEFINE c == case
             context == BuildNextChapter(c.project, c.items, c.known, c.grant, c.required, c.query, c.max)
             excluded == IF c.grant = NoGrant THEN {} ELSE {c.grant.of}
             Stays == {i \in c.items : /\ Answers(i, c.query) /\ i.form \notin {"old state", "pov"} /\ ~IsOf(i, excluded)}
             memory == ToSet(context.working) \union ToSet(context.memory)
             all == ToSet(context.knowledge) \union memory
  <1> SUFFICES ASSUME About("context"), context # NoContext
               PROVE  /\ c.required => c.grant # NoGrant
                      /\ c.grant # NoGrant =>
                            /\ {x \in all : x.id.of = c.grant.of \/ x.kind = "narrative_decision"} = {Frozen(c.grant)}
                            /\ Cardinality({i \in DOMAIN context.knowledge : context.knowledge[i] = Frozen(c.grant)}) = 1
                            /\ c.grant.chapter = LastChapterOf(c.project) + 1
                      /\ \A m \in memory : /\ m \in c.items /\ m.status = "active" /\ m.form # "old state"
                                           /\ m.scope # "global" => m.owner = c.query.owners[m.scope]
                      /\ context.size = c.project.asked + SizeOf(context.knowledge) + SizeOf(context.working) + SizeOf(context.memory)
                      /\ context.size <= c.max
    BY DEF ContextIsAdmitted
  <1>1. PICK ctx : ctx = context
    OBVIOUS
  <1>2. /\ MayBuild(c.project, c.grant, c.required)
        /\ ctx.knowledge = Knowledge(c.known, c.grant)
        /\ ctx.working \in Seq(Stays) /\ ctx.memory \in Seq(Stays)
        /\ ctx.size = c.project.asked + SizeOf(ctx.knowledge) + SizeOf(ctx.working) + SizeOf(ctx.memory)
        /\ ctx.size <= c.max
    <2>1. ctx # NoContext /\ case.about = "context"
      BY <1>1 DEF About
    <2> QED BY <1>1, <2>1, BuiltOf
  <1>3. memory \subseteq Stays
    <2> HIDE DEF Stays, context
    <2> QED BY <1>1, <1>2, ListedIsOf
  <1>4. c.required => c.grant # NoGrant
    BY <1>2 DEF MayBuild
  <1>5. ASSUME c.grant # NoGrant
        PROVE  /\ {x \in all : x.id.of = c.grant.of \/ x.kind = "narrative_decision"} = {Frozen(c.grant)}
               /\ Cardinality({i \in DOMAIN context.knowledge : context.knowledge[i] = Frozen(c.grant)}) = 1
               /\ c.grant.chapter = LastChapterOf(c.project) + 1
    <2>1. c.grant.chapter = LastChapterOf(c.project) + 1
      BY <1>2, <1>5 DEF MayBuild, GrantFits
    <2> DEFINE knowledge == Knowledge(c.known, c.grant)
               K == Plain(c.known, c.grant) \union {Frozen(c.grant)}
    <2>2. c.known \in Seq(ToSet(c.known))
      BY <1>2 DEF ContextTyped, About
    <2>3. /\ knowledge \in Seq(K) /\ Frozen(c.grant) \in ToSet(knowledge)
          /\ Cardinality({i \in DOMAIN knowledge : knowledge[i] = Frozen(c.grant)}) = 1
      BY <1>5, <2>2, KnowledgeGranted
    <2>4. ToSet(knowledge) \subseteq K
      <3> HIDE DEF knowledge, K
      <3> QED BY <2>3, ListedIsOf
    <2>5. context.knowledge = knowledge
      BY <1>1, <1>2
    <2>6. Frozen(c.grant).kind = "narrative_decision"
      BY DEF Frozen
    <2>7. \A x \in K : x.id.of = c.grant.of \/ x.kind = "narrative_decision" => x = Frozen(c.grant)
      BY DEF Plain, IsOf
    <2>8. \A x \in Stays : x.id.of # c.grant.of /\ x.kind # "narrative_decision"
      BY <1>5 DEF IsOf, ContextTyped, About
    <2> HIDE DEF knowledge, K, Stays, context, memory
    <2>9. {x \in all : x.id.of = c.grant.of \/ x.kind = "narrative_decision"} = {Frozen(c.grant)}
      BY <1>3, <2>3, <2>4, <2>5, <2>6, <2>7, <2>8
    <2> QED BY <2>1, <2>3, <2>5, <2>9
  <1>6. \A m \in memory : /\ m \in c.items /\ m.status = "active" /\ m.form # "old state"
                          /\ m.scope # "global" => m.owner = c.query.owners[m.scope]
    BY <1>3 DEF Answers
  <1> HIDE DEF context, Stays
  <1> QED BY <1>1, <1>2, <1>4, <1>5, <1>6

\* Of any memory, knowledge, grant and budget (build_next_chapter, ContextCompiler.compile): a
\* context under a grant has the granted contract once and no other version of it, only approved
\* memory in its scope, and a true size within the budget (ContextIsAdmitted).
THEOREM ContextsAreAdmitted == TableSpec => []ContextIsAdmitted
  <1> DEFINE Typed == case = NoCase \/ ContextTyped(case)
  <1>1. TableInit => Typed
    BY DEF TableInit
  <1>2. Typed /\ [Draw]_case => Typed'
    BY ContextAssumption DEF Draw, ContextTyped
  <1>3. Typed => ContextIsAdmitted
    <2>1. case = NoCase => ContextIsAdmitted
      <3>1. case = NoCase => ~About("context")
        BY DEF About, NoCase
      <3> QED BY <3>1 DEF ContextIsAdmitted
    <2> QED BY <2>1, ContextHolds
  <1> QED BY <1>1, <1>2, <1>3, PTL DEF TableSpec
================================================================================
