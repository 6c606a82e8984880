--------------------------- MODULE WriterDesk_proofs ---------------------------
(***************************************************************************)
(* Proofs about the writing desk for every number of requests, keys,       *)
(* commands, texts and restarts: the drafts stay one line of versions with *)
(* nobody's text overwritten unread, what was accepted is stored, and the  *)
(* results file implements idempotency keys.                               *)
(*                                                                         *)
(* Two locks carry the argument.  Who has opened the lock file of the      *)
(* results has read what is there now, so a reservation belongs to one     *)
(* request; and who holds the desk is the only one to append, so what it   *)
(* checked when it took the desk still holds when it writes.               *)
(***************************************************************************)
EXTENDS WriterDesk, SequenceTheorems, TLAPS

(***************************************************************************)
(* The inductive invariant: the results file                               *)
(***************************************************************************)

Called == \A r \in Requests : pc[r] = "new" <=> call[r] = None

\* Who has the lock file open is its maker, and has read what the file holds.
LockMine ==
    \A r \in Requests : Opened(r) =>
        /\ lock = r
        /\ pc[r] \notin {"new", "handle", "append", "publish"}
        /\ pc[r] \in StoreSteps => read[r] = records

\* From the reservation to the answer.
Owning(r) == pc[r] \notin {"new", "reserve", "done", "dead"}

Reservation(r) == [command |-> Command(r), result |-> None]

\* The reservation on disk is the owner's, and nothing was written before its handler.
OwnersReserved ==
    \A r \in Requests : Owning(r) =>
        /\ records[Key(r)] = Reservation(r)
        /\ pc[r] # "complete" => effects[Key(r)] = 0
        /\ pc[r] \in {"complete", "release"} => result[r] # None
        /\ \A q \in Requests : Owning(q) /\ Key(q) = Key(r) => q = r

FreeKeysUnused == \A k \in Keys : records[k] = NoRecord => effects[k] = 0

(***************************************************************************)
(* The inductive invariant: the desk                                       *)
(***************************************************************************)

DeskHeld ==
    /\ \A r \in Requests : pc[r] \in HandlerSteps => desk = r
    /\ agent.step = "append" => desk = Agent

\* What a command refers to is there.
Present(lines, c) == c.op # "save" => c.version \in 1..Len(lines)

TextFor(lines, c) == IF c.op = "save" THEN c.text ELSE lines[c.version].text

NextLine(lines, text) == [version |-> Len(lines) + 1, text |-> text, parent |-> Len(lines)]

\* What was checked when the desk was taken still holds.
ChecksHold ==
    /\ \A r \in Requests :
          /\ pc[r] = "append" =>
                /\ Command(r).op # "publish" /\ Present(drafts, Command(r)) /\ Command(r).expected = Actual
                /\ writing = NextLine(drafts, TextFor(drafts, Command(r)))
          /\ pc[r] = "publish" => Command(r).op = "publish" /\ Present(drafts, Command(r))
    /\ agent.step = "append" =>
          /\ agent.expected = Actual
          /\ writing.text \in Texts /\ writing = NextLine(drafts, writing.text)

\* What a result promises about the drafts.
Holds(lines, c, res) ==
    res # None /\ res.code = "accepted" =>
        /\ Present(lines, c) /\ res.ref \in 1..Len(lines)
        /\ c.op # "publish" => lines[res.ref].text = TextFor(lines, c)
        /\ c.op = "publish" => res.ref = c.version

ResultsHold ==
    /\ \A k \in Keys : records[k].command # None => Holds(drafts, records[k].command, records[k].result)
    /\ \A r \in Requests : call[r] # None => Holds(drafts, Command(r), result[r])
    /\ \A r \in Requests : result[r] # None => call[r] # None

IInv ==
    /\ TypeOK
    /\ Called /\ LockMine /\ OwnersReserved /\ FreeKeysUnused
    /\ DeskHeld /\ LinearHistory /\ ChecksHold /\ ResultsHold

BoundaryInv ==
    BoundaryTypeOK(HandlerSteps) /\ Called /\ LockMine /\ OwnersReserved /\ FreeKeysUnused

(***************************************************************************)
(* Lemmas about one request                                                *)
(***************************************************************************)

LEMMA RequestTyped ==
    ASSUME IInv, NEW r \in Requests, call[r] # None
    PROVE  Key(r) \in Keys /\ Command(r) \in Commands /\ Command(r) # None /\ Command(r) \in Requested
           /\ call[r] = [key |-> Key(r), command |-> Command(r)]
<1>1. call[r] \in Calls
  BY DEF IInv, TypeOK, BoundaryTypeOK
<1>2. None \notin Commands /\ Commands \subseteq Requested
  BY BoundaryAssumption, DeskAssumption
<1> QED
  BY <1>1, <1>2 DEF Key, Command, Calls

\* A reservation is a record, and no key with one is free.
LEMMA ReservationTyped ==
    ASSUME IInv, NEW r \in Requests, call[r] # None
    PROVE  Reservation(r) \in Records /\ Reservation(r) # NoRecord
BY RequestTyped DEF Reservation, Records, NoRecord

\* Whoever has the file open replaces what is there, and sees what is there.
LEMMA StoreSees ==
    ASSUME IInv, NEW r \in Requests, pc[r] \in StoreSteps, Opened(r)
    PROVE  /\ read[r] = records /\ Found(r) = records[Key(r)]
           /\ call[r] # None /\ Key(r) \in Keys /\ Command(r) \in Commands
           /\ \A q \in Requests \ {r} : ~Opened(q)
<1>1. read[r] = records /\ lock = r
  BY DEF IInv, LockMine
<1>2. call[r] # None
  BY DEF IInv, Called, StoreSteps
<1>3. \A q \in Requests \ {r} : ~Opened(q)
  BY <1>1 DEF IInv, LockMine
<1> QED
  BY <1>1, <1>2, <1>3, RequestTyped DEF Found

\* A request moves without touching the results file; its handler may have written.
LEMMA OwnMove ==
    ASSUME IInv, NEW r \in Requests, NEW step \in BoundarySteps \union HandlerSteps,
           pc' = [pc EXCEPT ![r] = step], step \notin {"new", "reserve"},
           UNCHANGED <<call, records, read, lock, crashes>>,
           result' = result \/ \E res \in CommandResults : result' = [result EXCEPT ![r] = res],
           pc[r] \notin {"new", "dead"},
           Opened(r) => step \notin StoreSteps \union {"handle", "append", "publish"},
           step \notin {"done", "dead"} => Owning(r) /\ pc[r] # "complete",
           step \in {"complete", "release"} => result'[r] # None,
           effects' = effects \/ (Owning(r) /\ step = "complete" /\ effects' = [effects EXCEPT ![Key(r)] = @ + 1])
    PROVE  BoundaryInv'
<1>1. /\ pc'[r] = step /\ \A q \in Requests \ {r} : pc'[q] = pc[q] /\ result'[q] = result[q]
      /\ call[r] # None
  BY DEF IInv, TypeOK, BoundaryTypeOK, Called
<1>2. Key(r) \in Keys /\ Reservation(r) # NoRecord
  BY <1>1, RequestTyped, ReservationTyped
<1>3. /\ pc' \in [Requests -> BoundarySteps \union HandlerSteps]
      /\ result' \in [Requests -> CommandResults \union {None}]
      /\ effects' \in [Keys -> Nat]
  <2>1. pc' \in [Requests -> BoundarySteps \union HandlerSteps]
    BY DEF IInv, TypeOK, BoundaryTypeOK
  <2>2. result' \in [Requests -> CommandResults \union {None}]
    BY DEF IInv, TypeOK, BoundaryTypeOK
  <2>3. effects \in [Keys -> Nat] /\ effects[Key(r)] + 1 \in Nat
    BY <1>2 DEF IInv, TypeOK, BoundaryTypeOK
  <2>4. effects' \in [Keys -> Nat]
    BY <2>3
  <2> QED
    BY <2>1, <2>2, <2>4
<1>4. BoundaryTypeOK(HandlerSteps)'
  BY <1>3 DEF IInv, TypeOK, BoundaryTypeOK
<1>5. Called'
  BY <1>1 DEF IInv, Called
<1>6. LockMine'
  BY <1>1 DEF IInv, LockMine, Opened
<1>7. \A q \in Requests : Owning(q)' => Owning(q) /\ Key(q)' = Key(q) /\ Reservation(q)' = Reservation(q)
  BY <1>1 DEF Owning, Key, Command, Reservation
<1>8. ASSUME NEW q \in Requests, Owning(q)'
      PROVE  /\ records'[Key(q)'] = Reservation(q)'
             /\ pc'[q] # "complete" => effects'[Key(q)'] = 0
             /\ pc'[q] \in {"complete", "release"} => result'[q] # None
             /\ \A p \in Requests : Owning(p)' /\ Key(p)' = Key(q)' => p = q
  <2>1. records'[Key(q)'] = Reservation(q)'
    BY <1>7, <1>8 DEF IInv, OwnersReserved
  <2>2. pc'[q] # "complete" => effects'[Key(q)'] = 0
    <3>1. CASE q = r
      BY <1>1, <1>7, <1>8, <3>1 DEF IInv, OwnersReserved, Owning
    <3>2. CASE q # r
      <4>1. pc'[q] = pc[q] /\ Owning(q) /\ Key(q)' = Key(q)
        BY <1>1, <1>7, <1>8, <3>2
      <4>2. pc[q] # "complete" => effects[Key(q)] = 0
        BY <4>1 DEF IInv, OwnersReserved
      <4>3. Owning(r) => Key(q) # Key(r)
        BY <3>2, <4>1 DEF IInv, OwnersReserved
      <4>4. Key(q) \in Keys
        BY <4>1, RequestTyped DEF IInv, Called, Owning
      <4>5. Owning(r) => [effects EXCEPT ![Key(r)] = @ + 1][Key(q)] = effects[Key(q)]
        BY <4>3, <4>4 DEF IInv, TypeOK, BoundaryTypeOK
      <4> QED
        BY <4>1, <4>2, <4>5
    <3> QED
      BY <3>1, <3>2
  <2>3. pc'[q] \in {"complete", "release"} => result'[q] # None
    BY <1>1, <1>7, <1>8 DEF IInv, OwnersReserved
  <2>4. \A p \in Requests : Owning(p)' /\ Key(p)' = Key(q)' => p = q
    BY <1>7, <1>8 DEF IInv, OwnersReserved
  <2> QED
    BY <2>1, <2>2, <2>3, <2>4
<1>9. OwnersReserved'
  BY <1>8 DEF OwnersReserved
<1>10. FreeKeysUnused'
  <2>1. ASSUME NEW k \in Keys, records[k] = NoRecord
        PROVE  effects'[k] = 0
    <3>1. Owning(r) => k # Key(r)
      BY <1>2, <2>1 DEF IInv, OwnersReserved
    <3>2. effects[k] = 0
      BY <2>1 DEF IInv, FreeKeysUnused
    <3> QED
      BY <3>1, <3>2 DEF IInv, TypeOK, BoundaryTypeOK
  <2> QED
    BY <2>1 DEF FreeKeysUnused
<1> QED
  BY <1>4, <1>5, <1>6, <1>9, <1>10 DEF BoundaryInv

\* The desk while nobody touches it.
LEMMA DeskStays ==
    ASSUME IInv, UNCHANGED <<drafts, desk, writing, agent>>,
           \A q \in Requests : pc'[q] \in HandlerSteps => pc'[q] = pc[q] /\ call'[q] = call[q]
    PROVE  DeskHeld' /\ LinearHistory' /\ ChecksHold'
<1>1. DeskHeld'
  BY DEF IInv, DeskHeld
<1>2. LinearHistory'
  BY DEF IInv, LinearHistory
<1>3. ChecksHold'
  BY DEF IInv, ChecksHold, Command, Present, TextFor, NextLine, Actual, Latest, HandlerSteps
<1> QED
  BY <1>1, <1>2, <1>3

\* Results that hold go on holding.
LEMMA ResultsStay ==
    ASSUME IInv, drafts' = drafts,
           \A k \in Keys : records'[k] = records[k] \/ Holds(drafts, records'[k].command, records'[k].result),
           \A q \in Requests : \/ call'[q] = call[q] /\ result'[q] = result[q]
                               \/ call'[q] # None /\ Holds(drafts, call'[q].command, result'[q])
    PROVE  ResultsHold'
BY DEF IInv, ResultsHold, Command

(***************************************************************************)
(* Steps of the boundary                                                   *)
(***************************************************************************)

DeskTyped ==
    /\ drafts \in Seq(Lines) /\ torn \in BOOLEAN /\ formal \in Texts \union {None, "torn"}
    /\ desk \in Requests \union {Agent, None} /\ writing \in Lines \union {NoLine} /\ agent \in AgentJobs

LEMMA Together ==
    ASSUME BoundaryInv', DeskTyped', DeskHeld', LinearHistory', ChecksHold', ResultsHold'
    PROVE  IInv'
BY DEF BoundaryInv, DeskTyped, IInv, TypeOK

LEMMA ArriveStep ==
    ASSUME IInv, NEW r \in Requests, NEW k \in Keys, NEW c \in Commands, Arrive(r, k, c), UNCHANGED deskVars
    PROVE  IInv'
<1>1. /\ pc[r] = "new" /\ pc' = [pc EXCEPT ![r] = "reserve"] /\ result' = result
      /\ call' = [call EXCEPT ![r] = [key |-> k, command |-> c]]
      /\ UNCHANGED <<records, read, lock, effects, crashes, drafts, torn, formal, desk, writing, agent>>
  BY DEF Arrive, Goto, deskVars
<1>2. [key |-> k, command |-> c] \in Calls /\ [key |-> k, command |-> c] # None
  BY BoundaryAssumption DEF Calls
<1>3. /\ pc'[r] = "reserve" /\ call'[r] = [key |-> k, command |-> c]
      /\ \A q \in Requests \ {r} : pc'[q] = pc[q] /\ call'[q] = call[q]
  BY <1>1 DEF IInv, TypeOK, BoundaryTypeOK
<1>4. BoundaryTypeOK(HandlerSteps)'
  <2>1. pc' \in [Requests -> BoundarySteps \union HandlerSteps] /\ call' \in [Requests -> Calls \union {None}]
    BY <1>1, <1>2 DEF IInv, TypeOK, BoundaryTypeOK, BoundarySteps, StoreSteps
  <2> QED
    BY <1>1, <2>1 DEF IInv, TypeOK, BoundaryTypeOK
<1>5. Called'
  BY <1>2, <1>3 DEF IInv, Called
<1>6. LockMine'
  BY <1>1, <1>3 DEF IInv, LockMine, Opened
<1>7. OwnersReserved'
  <2>1. \A q \in Requests : Owning(q)' => /\ q # r /\ Owning(q) /\ pc'[q] = pc[q]
                                          /\ Key(q)' = Key(q) /\ Reservation(q)' = Reservation(q)
    BY <1>3 DEF Owning, Key, Command, Reservation
  <2> QED
    BY <1>1, <2>1 DEF IInv, OwnersReserved
<1>8. FreeKeysUnused'
  BY <1>1 DEF IInv, FreeKeysUnused
<1>9. DeskTyped'
  BY <1>1 DEF IInv, TypeOK, DeskTyped
<1>10. DeskHeld' /\ LinearHistory' /\ ChecksHold'
  BY <1>1, <1>3, DeskStays DEF HandlerSteps
<1>11. ResultsHold'
  <2>1. result[r] = None
    BY <1>1 DEF IInv, Called, ResultsHold
  <2> QED
    BY <1>1, <1>2, <1>3, <2>1, ResultsStay DEF Holds
<1> QED
  BY <1>4, <1>5, <1>6, <1>7, <1>8, <1>9, <1>10, <1>11, Together DEF BoundaryInv

\* The lock file is made or removed.
LEMMA LockFileStep ==
    ASSUME IInv, NEW r \in Requests, Acquire(r) \/ Unlock(r), UNCHANGED deskVars
    PROVE  IInv'
<1>1. UNCHANGED <<call, records, pc, result, effects, crashes, drafts, torn, formal, desk, writing, agent>>
  BY DEF Acquire, Unlock, deskVars
<1>2. ASSUME Acquire(r)
      PROVE  LockMine' /\ BoundaryTypeOK(HandlerSteps)'
  <2>1. pc[r] \in StoreSteps /\ lock = None /\ lock' = r /\ read' = [read EXCEPT ![r] = records]
    BY <1>2 DEF Acquire, LockFree
  <2>2. read'[r] = records /\ \A q \in Requests \ {r} : read'[q] = read[q]
    BY <2>1 DEF IInv, TypeOK, BoundaryTypeOK
  <2>3. \A q \in Requests : read[q] = None
    BY <2>1, DeskAssumption DEF IInv, LockMine, Opened
  <2>4. LockMine'
    BY <1>1, <2>1, <2>2, <2>3 DEF LockMine, Opened, StoreSteps
  <2>5. BoundaryTypeOK(HandlerSteps)'
    BY <1>1, <2>1 DEF IInv, TypeOK, BoundaryTypeOK
  <2> QED
    BY <2>4, <2>5
<1>3. ASSUME Unlock(r)
      PROVE  LockMine' /\ BoundaryTypeOK(HandlerSteps)'
  <2>1. pc[r] \notin StoreSteps /\ lock' = None /\ read' = [read EXCEPT ![r] = None] /\ read[r] # None
    BY <1>3 DEF Unlock, Opened
  <2>2. read'[r] = None /\ \A q \in Requests \ {r} : read'[q] = read[q]
    BY <2>1 DEF IInv, TypeOK, BoundaryTypeOK
  <2>3. \A q \in Requests : read'[q] = None
    BY <2>1, <2>2 DEF IInv, LockMine, Opened
  <2>4. LockMine'
    BY <2>3 DEF LockMine, Opened
  <2>5. BoundaryTypeOK(HandlerSteps)'
    BY <1>1, <2>1 DEF IInv, TypeOK, BoundaryTypeOK
  <2> QED
    BY <2>4, <2>5
<1>4. LockMine' /\ BoundaryTypeOK(HandlerSteps)'
  BY <1>2, <1>3
<1>5. Called' /\ OwnersReserved' /\ FreeKeysUnused'
  BY <1>1 DEF IInv, Called, OwnersReserved, Owning, Key, Command, Reservation, FreeKeysUnused
<1>6. DeskHeld' /\ LinearHistory' /\ ChecksHold'
  BY <1>1, DeskStays
<1>7. ResultsHold'
  BY <1>1, ResultsStay
<1>8. DeskTyped'
  BY <1>1 DEF IInv, TypeOK, DeskTyped
<1> QED
  BY <1>4, <1>5, <1>6, <1>7, <1>8, Together DEF BoundaryInv

LEMMA FailureTyped ==
    /\ \A code \in Codes : Failure(code) \in CommandResults
    /\ Unknown \in CommandResults
    /\ \A code : code # "accepted" => \A c : Holds(drafts, c, Failure(code))
    /\ \A c : Holds(drafts, c, Unknown)
BY DEF Failure, Unknown, CommandResults, Codes, Holds

\* A request is answered, or goes on, with a result about which nothing is promised, or
\* which holds already.
LEMMA MoveStep ==
    ASSUME IInv, NEW r \in Requests, NEW step \in BoundarySteps, NEW res \in CommandResults,
           pc' = [pc EXCEPT ![r] = step], step \notin {"new", "reserve"},
           UNCHANGED <<call, records, read, lock, effects, crashes, drafts, torn, formal, desk, writing, agent>>,
           result' = result \/ (result' = [result EXCEPT ![r] = res] /\ Holds(drafts, Command(r), res)),
           pc[r] \notin {"new", "dead"},
           Opened(r) => step \notin StoreSteps \union {"handle"},
           step \notin {"done", "dead"} => Owning(r) /\ pc[r] # "complete",
           step \in {"complete", "release"} => result' = [result EXCEPT ![r] = res]
    PROVE  IInv'
<1>1. result' = [result EXCEPT ![r] = res] => result'[r] # None
  BY BoundaryAssumption DEF IInv, TypeOK, BoundaryTypeOK
<1>2. BoundaryInv'
  <2>1. step \notin {"append", "publish"} /\ step \in BoundarySteps \union HandlerSteps
    BY DEF BoundarySteps, StoreSteps, HandlerSteps
  <2> QED
    BY <1>1, <2>1, OwnMove
<1>3. pc'[r] = step /\ \A q \in Requests \ {r} : pc'[q] = pc[q] /\ result'[q] = result[q]
  BY DEF IInv, TypeOK, BoundaryTypeOK
<1>4. DeskHeld' /\ LinearHistory' /\ ChecksHold'
  <2>1. step \notin HandlerSteps
    BY DEF BoundarySteps, StoreSteps, HandlerSteps
  <2> QED
    BY <1>3, <2>1, DeskStays
<1>5. ResultsHold'
  <2>1. call[r] # None
    BY DEF IInv, Called
  <2>2. result'[r] = result[r] \/ Holds(drafts, call[r].command, result'[r])
    BY DEF IInv, TypeOK, BoundaryTypeOK, Command
  <2> QED
    BY <1>3, <2>1, <2>2, ResultsStay
<1>6. DeskTyped'
  BY DEF IInv, TypeOK, DeskTyped
<1> QED
  BY <1>2, <1>4, <1>5, <1>6, Together

LEMMA BusyStep ==
    ASSUME IInv, NEW r \in Requests, Busy(r), UNCHANGED deskVars
    PROVE  IInv'
<1>1. PICK res \in {Failure("command_store_busy"), Unknown} :
         pc' = [pc EXCEPT ![r] = "done"] /\ result' = [result EXCEPT ![r] = res]
  BY DEF Busy, Return, Finish
<1>2. res \in CommandResults /\ Holds(drafts, Command(r), res)
  BY <1>1, FailureTyped DEF Codes
<1>3. /\ pc[r] \in StoreSteps
      /\ UNCHANGED <<call, records, read, lock, effects, crashes, drafts, torn, formal, desk, writing, agent>>
  BY DEF Busy, deskVars
<1>4. "done" \in BoundarySteps /\ "done" \notin StoreSteps /\ pc[r] \notin {"new", "dead"}
  BY <1>3 DEF BoundarySteps, StoreSteps
<1> QED
  BY <1>1, <1>2, <1>3, <1>4, MoveStep

\* The results file is replaced by one with another record for the key of r.
LEMMA StoreStep ==
    ASSUME IInv, NEW r \in Requests, pc[r] \in StoreSteps, Opened(r), UNCHANGED deskVars,
           UNCHANGED <<call, read, lock, effects, crashes>>,
           NEW record \in Records \union {NoRecord}, Store(r, record),
           NEW step \in {"version", "done"}, pc' = [pc EXCEPT ![r] = step],
           result' = result \/ (result[r] # None /\ result' = [result EXCEPT ![r] = result[r]]),
           step = "version" => records[Key(r)] = NoRecord /\ record = Reservation(r),
           step = "done" => Owning(r),
           record = NoRecord => effects[Key(r)] = 0,
           Holds(drafts, record.command, record.result)
    PROVE  IInv'
<1>1. /\ read[r] = records /\ call[r] # None /\ Key(r) \in Keys
      /\ \A q \in Requests \ {r} : ~Opened(q)
  BY StoreSees
<1>2. records' = [records EXCEPT ![Key(r)] = record] /\ result' = result
  BY <1>1 DEF Store, IInv, TypeOK, BoundaryTypeOK
<1>3. /\ records'[Key(r)] = record /\ records' \in Tables
      /\ \A k \in Keys \ {Key(r)} : records'[k] = records[k]
  BY <1>1, <1>2 DEF IInv, TypeOK, BoundaryTypeOK, Tables
<1>4. pc'[r] = step /\ pc' \in [Requests -> BoundarySteps \union HandlerSteps]
      /\ \A q \in Requests \ {r} : pc'[q] = pc[q]
  BY DEF IInv, TypeOK, BoundaryTypeOK, BoundarySteps
<1>5. BoundaryTypeOK(HandlerSteps)'
  BY <1>2, <1>3, <1>4 DEF IInv, TypeOK, BoundaryTypeOK
<1>6. Called'
  BY <1>1, <1>4 DEF IInv, Called
<1>7. LockMine'
  BY <1>1, <1>4 DEF IInv, LockMine, Opened, StoreSteps
<1>8. \A q \in Requests \ {r} : Owning(q) => Key(q) # Key(r)
  <2>1. CASE step = "version"
    <3>1. ASSUME NEW q \in Requests, Owning(q)
          PROVE  records[Key(q)] # NoRecord
      BY <3>1, ReservationTyped DEF IInv, OwnersReserved, Called, Owning
    <3> QED
      BY <2>1, <3>1
  <2>2. CASE step = "done"
    BY <2>2 DEF IInv, OwnersReserved
  <2> QED
    BY <2>1, <2>2
<1>9. OwnersReserved'
  <2>1. ASSUME NEW q \in Requests, q # r, Owning(q)'
        PROVE  /\ Owning(q) /\ Key(q)' = Key(q) /\ Key(q) # Key(r)
               /\ records'[Key(q)'] = Reservation(q)'
               /\ pc'[q] # "complete" => effects'[Key(q)'] = 0
               /\ pc'[q] \in {"complete", "release"} => result'[q] # None
    <3>1. Owning(q) /\ Key(q)' = Key(q) /\ Reservation(q)' = Reservation(q) /\ pc'[q] = pc[q]
      BY <1>4, <2>1 DEF Owning, Key, Command, Reservation
    <3>2. Key(q) \in Keys /\ Key(q) # Key(r)
      BY <1>8, <2>1, <3>1, RequestTyped DEF IInv, Called, Owning
    <3> QED
      BY <1>2, <1>3, <3>1, <3>2 DEF IInv, OwnersReserved
  <2>2. ASSUME Owning(r)'
        PROVE  /\ Key(r)' = Key(r) /\ records'[Key(r)'] = Reservation(r)'
               /\ effects'[Key(r)'] = 0 /\ pc'[r] \notin {"complete", "release"}
    <3>1. step = "version"
      BY <1>4, <2>2 DEF Owning
    <3>2. effects[Key(r)] = 0
      BY <1>1, <3>1 DEF IInv, FreeKeysUnused
    <3> QED
      BY <1>3, <1>4, <3>1, <3>2 DEF Key, Command, Reservation
  <2>3. ASSUME NEW p \in Requests, NEW q \in Requests, Owning(p)', Owning(q)', Key(p)' = Key(q)'
        PROVE  p = q
    <3>1. CASE p # r /\ q # r
      BY <2>1, <2>3, <3>1 DEF IInv, OwnersReserved
    <3>2. CASE p = r \/ q = r
      BY <2>1, <2>2, <2>3, <3>2
    <3> QED
      BY <3>1, <3>2
  <2> QED
    BY <2>1, <2>2, <2>3 DEF OwnersReserved
<1>10. FreeKeysUnused'
  BY <1>3 DEF IInv, FreeKeysUnused
<1>11. UNCHANGED <<drafts, torn, formal, desk, writing, agent>>
  BY DEF deskVars
<1>12. DeskHeld' /\ LinearHistory' /\ ChecksHold'
  BY <1>4, <1>11, DeskStays DEF HandlerSteps
<1>13. ResultsHold'
  BY <1>2, <1>3, <1>11, ResultsStay
<1>14. DeskTyped'
  BY <1>11 DEF IInv, TypeOK, DeskTyped
<1> QED
  BY <1>5, <1>6, <1>7, <1>9, <1>10, <1>12, <1>13, <1>14, Together DEF BoundaryInv

LEMMA ReserveStep ==
    ASSUME IInv, NEW r \in Requests, Reserve(r), UNCHANGED deskVars
    PROVE  IInv'
<1>1. /\ pc[r] = "reserve" /\ pc[r] \in StoreSteps /\ Opened(r) /\ UNCHANGED <<call, read, lock, effects, crashes>>
  BY DEF Reserve, StoreSteps
<1>2. read[r] = records /\ Found(r) = records[Key(r)] /\ call[r] # None /\ Key(r) \in Keys
  BY <1>1, StoreSees
<1>3. CASE ReserveNew(r)
  <2>1. Reservation(r) \in Records /\ Reservation(r) # NoRecord /\ Holds(drafts, Reservation(r).command, Reservation(r).result)
    BY <1>2, ReservationTyped DEF Holds, Reservation
  <2>2. Found(r) = NoRecord /\ Store(r, Reservation(r)) /\ pc' = [pc EXCEPT ![r] = "version"] /\ result' = result
    BY <1>3 DEF ReserveNew, Reservation, Goto
  <2> QED
    BY <1>1, <1>2, <2>1, <2>2, StoreStep
<1>4. CASE ReserveTaken(r)
  <2>1. AnswerFor(r) \in CommandResults /\ Holds(drafts, Command(r), AnswerFor(r))
    <3>1. CASE Found(r).command # Command(r)
      BY <3>1, FailureTyped DEF AnswerFor, Codes
    <3>2. CASE Found(r).command = Command(r) /\ Found(r).result # None
      <4>1. Found(r) \in Records
        BY <1>2, <1>4 DEF IInv, TypeOK, BoundaryTypeOK, Tables, ReserveTaken
      <4>2. Command(r) # None
        BY <1>2, RequestTyped
      <4> QED
        BY <1>2, <3>2, <4>1, <4>2 DEF AnswerFor, Records, IInv, ResultsHold
    <3>3. CASE Found(r).command = Command(r) /\ Found(r).result = None
      BY <3>3, FailureTyped DEF AnswerFor
    <3> QED
      BY <3>1, <3>2, <3>3
  <2>2. pc' = [pc EXCEPT ![r] = "done"] /\ result' = [result EXCEPT ![r] = AnswerFor(r)] /\ records' = records
    BY <1>4 DEF ReserveTaken, Return, Finish
  <2>3. UNCHANGED <<call, records, read, lock, effects, crashes, drafts, torn, formal, desk, writing, agent>>
    BY <1>1, <2>2 DEF deskVars
  <2>4. "done" \in BoundarySteps /\ "done" \notin StoreSteps
    BY DEF BoundarySteps, StoreSteps
  <2> QED
    BY <1>1, <2>1, <2>2, <2>3, <2>4, MoveStep
<1> QED
  BY <1>3, <1>4 DEF Reserve

LEMMA CompleteStep ==
    ASSUME IInv, NEW r \in Requests, Complete(r) \/ Release(r), UNCHANGED deskVars
    PROVE  IInv'
<1>1. /\ pc[r] \in {"complete", "release"} /\ pc[r] \in StoreSteps /\ Owning(r) /\ Opened(r)
      /\ UNCHANGED <<call, read, lock, effects, crashes>>
  BY DEF Complete, Release, StoreSteps, Owning
<1>2. Found(r) = records[Key(r)] /\ call[r] # None /\ Key(r) \in Keys /\ Command(r) \in Commands
  BY <1>1, StoreSees
<1>3. Found(r) = Reservation(r) /\ result[r] # None
  BY <1>1, <1>2 DEF IInv, OwnersReserved
<1>4. result[r] \in CommandResults /\ Holds(drafts, Command(r), result[r])
  BY <1>2, <1>3 DEF IInv, TypeOK, BoundaryTypeOK, ResultsHold
<1>5. CASE Complete(r)
  <2> DEFINE record == [command |-> Command(r), result |-> result[r]]
  <2>1. record \in Records /\ record # NoRecord /\ Holds(drafts, record.command, record.result)
    BY <1>2, <1>3, <1>4 DEF Records, NoRecord
  <2>2. Store(r, record) /\ pc' = [pc EXCEPT ![r] = "done"] /\ result' = [result EXCEPT ![r] = result[r]]
    BY <1>3, <1>5 DEF Complete, Return, Finish, Reservation
  <2> HIDE DEF record
  <2> QED
    BY <1>1, <1>3, <2>1, <2>2, StoreStep
<1>6. CASE Release(r)
  <2>1. Store(r, NoRecord) /\ pc' = [pc EXCEPT ![r] = "done"] /\ result' = [result EXCEPT ![r] = result[r]]
    BY <1>6 DEF Release, Return, Finish
  <2>2. effects[Key(r)] = 0
    BY <1>1, <1>6 DEF Release, IInv, OwnersReserved
  <2>3. Holds(drafts, NoRecord.command, NoRecord.result)
    BY DEF Holds, NoRecord
  <2> QED
    BY <1>1, <1>3, <2>1, <2>2, <2>3, StoreStep
<1> QED
  BY <1>5, <1>6

(***************************************************************************)
(* Steps of the desk                                                       *)
(***************************************************************************)

\* In one line of versions the last version is their number, and a version is its place.
LEMMA Versions ==
    ASSUME IInv
    PROVE  /\ drafts \in Seq(Lines) /\ Len(drafts) \in Nat
           /\ Latest = Len(drafts) /\ Actual = (IF drafts = <<>> THEN None ELSE Len(drafts))
           /\ (drafts = <<>> <=> Len(drafts) = 0)
           /\ \A v \in Nat : Selected(v) = {v} \cap (1..Len(drafts))
<1>1. drafts \in Seq(Lines) /\ Len(drafts) \in Nat /\ \A i \in 1..Len(drafts) : drafts[i].version = i
  BY DEF IInv, TypeOK, LinearHistory
<1>2. drafts = <<>> <=> Len(drafts) = 0
  BY <1>1, EmptySeq
<1>3. Latest = Len(drafts)
  BY <1>1, <1>2 DEF Latest
<1>4. ASSUME NEW v \in Nat
      PROVE  Selected(v) = {v} \cap (1..Len(drafts))
  <2>1. \A i \in 1..Len(drafts) : drafts[i].version = v <=> i = v
    BY <1>1
  <2>2. \A i \in 1..Len(drafts) : i = v => \A j \in 1..(i - 1) : drafts[j].version # v
    BY <1>1
  <2> QED
    BY <2>1, <2>2 DEF Selected
<1> QED
  BY <1>1, <1>2, <1>3, <1>4 DEF Actual

\* The text of a version is the text of its place.
LEMMA TextOfPlace ==
    ASSUME IInv, NEW c \in Requested, Present(drafts, c)
    PROVE  NewText(c) = TextFor(drafts, c) /\ TextFor(drafts, c) \in Texts
           /\ (c.op # "save" => TextOf(c.version) = drafts[c.version].text)
<1>1. CASE c.op = "save"
  BY <1>1 DEF NewText, TextFor, Requested
<1>2. CASE c.op # "save"
  <2>1. c.version \in 1..Len(drafts) /\ c.version \in Nat
    BY <1>2 DEF Present, Requested
  <2>2. Selected(c.version) = {c.version}
    BY <2>1, Versions
  <2>3. TextOf(c.version) = drafts[c.version].text
    BY <2>2 DEF TextOf
  <2>4. drafts[c.version] \in Lines
    BY <2>1, Versions, ElementOfSeq
  <2> QED
    BY <1>2, <2>3, <2>4 DEF NewText, TextFor, Lines
<1> QED
  BY <1>1, <1>2

\* A command that does not raise finds what it refers to, and saw the last version.
LEMMA NotRaised ==
    ASSUME IInv, NEW c \in Requested, ~Raises(c)
    PROVE  Present(drafts, c) /\ c.expected = Actual
<1>1. c.expected = Actual /\ c.version \in Nat /\ c.op \in {"save", "restore", "publish"}
  BY DEF Raises, Requested
<1>2. c.op # "save" => Selected(c.version) # {}
  BY <1>1 DEF Raises
<1> QED
  BY <1>1, <1>2, Versions DEF Present

\* One more line: the history stays linear and what was promised stays true.
LEMMA LineAppended ==
    ASSUME IInv, NEW text \in Texts, writing = NextLine(drafts, text), drafts' = Append(drafts, writing)
    PROVE  /\ drafts' \in Seq(Lines) /\ LinearHistory'
           /\ Len(drafts') = Len(drafts) + 1 /\ drafts'[Len(drafts) + 1].text = text
           /\ \A c \in Requested : Present(drafts, c) => Present(drafts', c) /\ TextFor(drafts', c) = TextFor(drafts, c)
           /\ \A c \in Requested, res \in CommandResults \union {None} : Holds(drafts, c, res) => Holds(drafts', c, res)
<1>1. drafts \in Seq(Lines) /\ Len(drafts) \in Nat
  BY Versions
<1>2. writing \in Lines /\ writing.version = Len(drafts) + 1 /\ writing.parent = Len(drafts) /\ writing.text = text
  BY <1>1 DEF NextLine, Lines
<1>3. /\ drafts' \in Seq(Lines) /\ Len(drafts') = Len(drafts) + 1
      /\ drafts'[Len(drafts) + 1] = writing /\ \A i \in 1..Len(drafts) : drafts'[i] = drafts[i]
  BY <1>1, <1>2, AppendProperties
<1>4. LinearHistory'
  <2>1. ASSUME NEW i \in 1..Len(drafts')
        PROVE  drafts'[i].version = i /\ drafts'[i].parent = i - 1
    <3>1. CASE i \in 1..Len(drafts)
      BY <1>3, <3>1 DEF IInv, LinearHistory
    <3>2. CASE i = Len(drafts) + 1
      BY <1>1, <1>2, <1>3, <3>2
    <3> QED
      BY <1>1, <1>3, <3>1, <3>2
  <2> QED
    BY <2>1 DEF LinearHistory
<1>5. ASSUME NEW c \in Requested, Present(drafts, c)
      PROVE  Present(drafts', c) /\ TextFor(drafts', c) = TextFor(drafts, c)
  BY <1>1, <1>3, <1>5 DEF Present, TextFor, Requested
<1>6. ASSUME NEW c \in Requested, NEW res \in CommandResults \union {None}, Holds(drafts, c, res)
      PROVE  Holds(drafts', c, res)
  <2>1. \A i \in 1..Len(drafts) : i \in 1..Len(drafts') /\ drafts'[i] = drafts[i]
    BY <1>1, <1>3
  <2> QED
    BY <1>5, <1>6, <2>1 DEF Holds
<1> QED
  BY <1>2, <1>3, <1>4, <1>5, <1>6

\* What was promised stays true when what a promise rests on stays.
LEMMA ResultsGrow ==
    ASSUME IInv, UNCHANGED <<call, records>>,
           \A c \in Requested, res \in CommandResults \union {None} : Holds(drafts, c, res) => Holds(drafts', c, res),
           \A q \in Requests : result'[q] = result[q] \/ (call[q] # None /\ Holds(drafts', Command(q), result'[q]))
    PROVE  ResultsHold'
<1>1. ASSUME NEW k \in Keys, records'[k].command # None
      PROVE  Holds(drafts', records'[k].command, records'[k].result)
  <2>1. records[k] \in Records
    BY <1>1 DEF IInv, TypeOK, BoundaryTypeOK, Tables, NoRecord
  <2>2. records[k].command \in Requested /\ records[k].result \in CommandResults \union {None}
    BY <2>1, DeskAssumption DEF Records
  <2>3. Holds(drafts, records[k].command, records[k].result)
    BY <1>1 DEF IInv, ResultsHold
  <2> QED
    BY <2>2, <2>3
<1>2. ASSUME NEW q \in Requests, call'[q] # None
      PROVE  Holds(drafts', Command(q)', result'[q])
  <2>1. Command(q) \in Requested /\ result[q] \in CommandResults \union {None} /\ Holds(drafts, Command(q), result[q])
    BY <1>2, RequestTyped DEF IInv, TypeOK, BoundaryTypeOK, ResultsHold
  <2>2. Holds(drafts', Command(q), result[q])
    BY <2>1
  <2> QED
    BY <2>2 DEF Command
<1>3. \A q \in Requests : result'[q] # None => call'[q] # None
  BY DEF IInv, ResultsHold
<1> QED
  BY <1>1, <1>2, <1>3 DEF ResultsHold

LEMMA VersionStep ==
    ASSUME IInv, NEW r \in Requests, ReadVersion(r)
    PROVE  IInv'
<1>1. /\ pc[r] = "version" /\ ~Opened(r) /\ Owning(r)
      /\ UNCHANGED <<call, records, read, lock, effects, crashes, drafts, torn, formal, desk, writing, agent>>
  BY DEF ReadVersion, CheckVersion, VersionUnavailable, deskVars, Owning
<1>2. \/ pc' = [pc EXCEPT ![r] = "handle"] /\ result' = result
      \/ \E step \in {"complete", "release"}, code \in {"version_conflict", "command_version_unavailable"} :
            pc' = [pc EXCEPT ![r] = step] /\ result' = [result EXCEPT ![r] = Failure(code)]
  BY DEF ReadVersion, CheckVersion, VersionUnavailable, Goto, Finish
<1>3. {"handle", "complete", "release"} \subseteq BoundarySteps
  BY DEF BoundarySteps, StoreSteps
<1>4. CASE pc' = [pc EXCEPT ![r] = "handle"] /\ result' = result
  BY <1>1, <1>3, <1>4, FailureTyped, MoveStep
<1>5. ASSUME NEW step \in {"complete", "release"}, NEW code \in {"version_conflict", "command_version_unavailable"},
             pc' = [pc EXCEPT ![r] = step], result' = [result EXCEPT ![r] = Failure(code)]
      PROVE  IInv'
  <2>1. Failure(code) \in CommandResults /\ Holds(drafts, Command(r), Failure(code))
    BY FailureTyped DEF Codes
  <2> QED
    BY <1>1, <1>3, <1>5, <2>1, MoveStep
<1> QED
  BY <1>2, <1>4, <1>5

\* The handler of r: it raises, has nothing to add, or takes the desk.
LEMMA HandleStep ==
    ASSUME IInv, NEW r \in Requests, Handle(r)
    PROVE  IInv'
<1> DEFINE c == Command(r)
<1>1. /\ pc[r] = "handle" /\ desk = None /\ ~Opened(r) /\ Owning(r)
      /\ UNCHANGED <<call, records, read, lock, effects, crashes, drafts, torn, formal, agent>>
  BY DEF Handle, DeskFree, Owning, IInv, LockMine
<1>2. c \in Requested /\ call[r] # None
  BY <1>1, RequestTyped DEF IInv, Called
<1>3. {"done", "complete"} \subseteq BoundarySteps /\ {"append", "publish"} \subseteq HandlerSteps /\ "done" \notin StoreSteps
  BY DEF BoundarySteps, StoreSteps, HandlerSteps
<1>4. CASE HandlerRaises(r) /\ UNCHANGED <<desk, writing>>
  <2>1. pc' = [pc EXCEPT ![r] = "done"] /\ result' = [result EXCEPT ![r] = Unknown]
    BY <1>4 DEF HandlerRaises, Return, Finish
  <2> QED
    BY <1>1, <1>3, <1>4, <2>1, FailureTyped, MoveStep
<1>5. CASE /\ ~Raises(c) /\ c.op # "publish" /\ Unchanged(NewText(c))
           /\ HandlerAccepts(r, Latest, "complete") /\ UNCHANGED <<desk, writing>>
  <2> DEFINE res == [code |-> "accepted", ref |-> Latest]
  <2>1. Present(drafts, c) /\ NewText(c) = TextFor(drafts, c)
    BY <1>2, <1>5, NotRaised, TextOfPlace
  <2>2. Latest \in 1..Len(drafts) /\ drafts[Latest].text = TextFor(drafts, c)
    BY <1>5, <2>1, Versions DEF Unchanged
  <2>3. res \in CommandResults /\ Holds(drafts, c, res)
    BY <1>5, <2>1, <2>2, Versions DEF CommandResults, Codes, Holds
  <2>4. pc' = [pc EXCEPT ![r] = "complete"] /\ result' = [result EXCEPT ![r] = res]
    BY <1>5 DEF HandlerAccepts, Finish
  <2> HIDE DEF res, c
  <2> QED
    BY <1>1, <1>3, <1>5, <2>3, <2>4, MoveStep DEF c
<1>6. ASSUME NEW step \in HandlerSteps, pc' = [pc EXCEPT ![r] = step], result' = result, desk' = r,
             ~Raises(c),
             \/ step = "publish" /\ c.op = "publish" /\ writing' = writing
             \/ step = "append" /\ c.op # "publish" /\ writing' = NextLine(drafts, TextFor(drafts, c))
      PROVE  IInv'
  <2>1. Present(drafts, c) /\ c.expected = Actual /\ TextFor(drafts, c) \in Texts
    BY <1>2, <1>6, NotRaised, TextOfPlace
  <2>2. BoundaryInv'
    <3>1. step \in BoundarySteps \union HandlerSteps /\ step \notin {"new", "reserve", "complete", "release", "done", "dead"}
      BY DEF HandlerSteps
    <3> QED
      BY <1>1, <1>6, <3>1, OwnMove
  <2>3. pc'[r] = step /\ \A q \in Requests \ {r} : pc'[q] = pc[q] /\ pc'[q] \notin HandlerSteps
    BY <1>1, <1>6, DeskAssumption DEF IInv, TypeOK, BoundaryTypeOK, DeskHeld
  <2>4. agent.step # "append"
    BY <1>1, DeskAssumption DEF IInv, DeskHeld
  <2>5. DeskHeld' /\ LinearHistory'
    BY <1>1, <1>6, <2>3, <2>4 DEF IInv, DeskHeld, LinearHistory
  <2>6. Command(r)' = c /\ Actual' = Actual
    BY <1>1 DEF Command, Actual, Latest
  <2>7. ChecksHold'
    <3> HIDE DEF c
    <3>1. ASSUME NEW q \in Requests, pc'[q] = "append"
          PROVE  q = r /\ step = "append"
      BY <2>3, <3>1 DEF HandlerSteps
    <3>2. ASSUME NEW q \in Requests, pc'[q] = "publish"
          PROVE  q = r /\ step = "publish"
      BY <2>3, <3>2 DEF HandlerSteps
    <3> QED
      BY <1>1, <1>6, <2>1, <2>4, <2>6, <3>1, <3>2 DEF ChecksHold
  <2>8. ResultsHold'
    BY <1>1, <1>6, ResultsStay
  <2>9. DeskTyped'
    <3>1. NextLine(drafts, TextFor(drafts, c)) \in Lines
      BY <2>1, Versions DEF NextLine, Lines
    <3> QED
      BY <1>1, <1>6, <3>1 DEF IInv, TypeOK, DeskTyped
  <2> QED
    BY <2>2, <2>5, <2>7, <2>8, <2>9, Together
<1>7. CASE ~Raises(c) /\ c.op = "publish" /\ Goto(r, "publish") /\ desk' = r /\ UNCHANGED writing
  BY <1>3, <1>6, <1>7 DEF Goto
<1>8. CASE ~Raises(c) /\ c.op # "publish" /\ Goto(r, "append") /\ TakeDesk(r, NewText(c))
  <2>1. NewText(c) = TextFor(drafts, c)
    BY <1>2, <1>8, NotRaised, TextOfPlace
  <2>2. writing' = NextLine(drafts, TextFor(drafts, c)) /\ desk' = r
    BY <1>8, <2>1, Versions DEF TakeDesk, NextLine
  <2> QED
    BY <1>3, <1>6, <1>8, <2>2 DEF Goto
<1> QED
  BY <1>4, <1>5, <1>7, <1>8 DEF Handle

\* The desk is left by the one that held it.
LEMMA DeskLeft ==
    ASSUME IInv, LeaveDesk, \/ agent' = AgentIdle /\ desk = Agent /\ pc' = pc
                            \/ \E r \in Requests : /\ desk = r /\ pc' = [pc EXCEPT ![r] = "complete"] /\ agent' = agent
    PROVE  DeskHeld' /\ ChecksHold' /\ desk' = None /\ writing' = NoLine
<1>1. ASSUME NEW q \in Requests
      PROVE  pc'[q] \notin HandlerSteps
  <2>1. CASE desk = Agent /\ pc' = pc
    BY <2>1, DeskAssumption DEF IInv, DeskHeld
  <2>2. ASSUME NEW r \in Requests, desk = r, pc' = [pc EXCEPT ![r] = "complete"]
        PROVE  pc'[q] \notin HandlerSteps
    BY <2>2 DEF IInv, DeskHeld, TypeOK, BoundaryTypeOK, HandlerSteps
  <2> QED
    BY <2>1, <2>2
<1>2. agent'.step # "append"
  BY DeskAssumption DEF IInv, DeskHeld, AgentIdle
<1> QED
  BY <1>1, <1>2 DEF LeaveDesk, DeskHeld, ChecksHold, HandlerSteps

LEMMA AppendStep ==
    ASSUME IInv, NEW r \in Requests, AppendDraft(r)
    PROVE  IInv'
<1> DEFINE c == Command(r)
           res == [code |-> "accepted", ref |-> writing.version]
<1>1. /\ pc[r] = "append" /\ drafts' = Append(drafts, writing) /\ LeaveDesk
      /\ pc' = [pc EXCEPT ![r] = "complete"] /\ result' = [result EXCEPT ![r] = res]
      /\ effects' = [effects EXCEPT ![Key(r)] = @ + 1]
      /\ UNCHANGED <<call, records, read, lock, crashes, torn, formal, agent>>
  BY DEF AppendDraft, HandlerAccepts, Finish, Effect
<1>2. desk = r /\ ~Opened(r) /\ Owning(r) /\ call[r] # None
  BY <1>1 DEF IInv, DeskHeld, HandlerSteps, LockMine, Owning, Called
<1>3. c \in Requested /\ c.op # "publish" /\ Present(drafts, c) /\ writing = NextLine(drafts, TextFor(drafts, c)) /\ TextFor(drafts, c) \in Texts
  BY <1>1, <1>2, RequestTyped, TextOfPlace DEF IInv, ChecksHold
<1>4. /\ drafts' \in Seq(Lines) /\ LinearHistory'
      /\ Len(drafts') = Len(drafts) + 1 /\ drafts'[Len(drafts) + 1].text = TextFor(drafts, c)
      /\ Present(drafts', c) /\ TextFor(drafts', c) = TextFor(drafts, c)
      /\ \A d \in Requested, x \in CommandResults \union {None} : Holds(drafts, d, x) => Holds(drafts', d, x)
  BY <1>1, <1>3, LineAppended
<1>5. res \in CommandResults /\ res.ref = Len(drafts) + 1 /\ res.code = "accepted" /\ res # None
  <2>1. writing.version = Len(drafts) + 1 /\ Len(drafts) + 1 \in Nat
    BY <1>3, Versions DEF NextLine
  <2>2. res \in CommandResults
    BY <2>1 DEF CommandResults, Codes
  <2> QED
    BY <2>1, <2>2, BoundaryAssumption
<1>6. Holds(drafts', c, res)
  <2>1. Len(drafts) + 1 \in 1..Len(drafts')
    BY <1>4, Versions
  <2> HIDE DEF c, res
  <2> QED
    BY <1>3, <1>4, <1>5, <2>1 DEF Holds
<1>7. BoundaryInv'
  <2>1. result'[r] # None
    BY <1>1, <1>5 DEF IInv, TypeOK, BoundaryTypeOK
  <2>2. "complete" \in BoundarySteps
    BY DEF BoundarySteps, StoreSteps
  <2> HIDE DEF c, res
  <2> QED
    BY <1>1, <1>2, <1>5, <2>1, <2>2, OwnMove
<1>8. DeskHeld' /\ ChecksHold' /\ desk' = None /\ writing' = NoLine
  BY <1>1, <1>2, DeskLeft
<1>9. ResultsHold'
  <2>1. \A q \in Requests \ {r} : result'[q] = result[q]
    BY <1>1 DEF IInv, TypeOK, BoundaryTypeOK
  <2>2. result'[r] = res
    BY <1>1 DEF IInv, TypeOK, BoundaryTypeOK
  <2> HIDE DEF res
  <2> QED
    BY <1>1, <1>2, <1>4, <1>6, <2>1, <2>2, ResultsGrow
<1>10. DeskTyped'
  BY <1>1, <1>4, <1>8 DEF IInv, TypeOK, DeskTyped
<1> QED
  BY <1>4, <1>7, <1>8, <1>9, <1>10, Together

LEMMA FormalStep ==
    ASSUME IInv, NEW r \in Requests, WriteFormal(r)
    PROVE  IInv'
<1> DEFINE c == Command(r)
           res == [code |-> "accepted", ref |-> c.version]
<1>1. /\ pc[r] = "publish" /\ formal' = TextOf(c.version) /\ LeaveDesk
      /\ pc' = [pc EXCEPT ![r] = "complete"] /\ result' = [result EXCEPT ![r] = res]
      /\ effects' = [effects EXCEPT ![Key(r)] = @ + 1]
      /\ UNCHANGED <<call, records, read, lock, crashes, drafts, torn, agent>>
  BY DEF WriteFormal, HandlerAccepts, Finish, Effect
<1>2. desk = r /\ ~Opened(r) /\ Owning(r) /\ call[r] # None
  BY <1>1 DEF IInv, DeskHeld, HandlerSteps, LockMine, Owning, Called
<1>3. c \in Requested /\ c.op = "publish" /\ Present(drafts, c)
  BY <1>1, <1>2, RequestTyped DEF IInv, ChecksHold
<1>4. c.version \in 1..Len(drafts) /\ c.version \in Nat /\ TextOf(c.version) \in Texts
  BY <1>3, TextOfPlace DEF Present, Requested, TextFor
<1>5. res \in CommandResults /\ res # None /\ Holds(drafts, c, res)
  <2>1. res \in CommandResults
    BY <1>4 DEF CommandResults, Codes
  <2> QED
    BY <1>3, <1>4, <2>1, BoundaryAssumption DEF Holds
<1>6. BoundaryInv'
  <2>1. result'[r] # None
    BY <1>1, <1>5 DEF IInv, TypeOK, BoundaryTypeOK
  <2>2. "complete" \in BoundarySteps
    BY DEF BoundarySteps, StoreSteps
  <2> HIDE DEF c, res
  <2> QED
    BY <1>1, <1>2, <1>5, <2>1, <2>2, OwnMove
<1>7. DeskHeld' /\ ChecksHold' /\ desk' = None /\ writing' = NoLine
  BY <1>1, <1>2, DeskLeft
<1>8. ResultsHold'
  <2>1. result'[r] = res /\ \A q \in Requests \ {r} : result'[q] = result[q]
    BY <1>1 DEF IInv, TypeOK, BoundaryTypeOK
  <2> HIDE DEF res
  <2> QED
    BY <1>1, <1>2, <1>5, <2>1, ResultsGrow
<1>9. DeskTyped' /\ LinearHistory'
  BY <1>1, <1>4, <1>7 DEF IInv, TypeOK, DeskTyped, LinearHistory
<1> QED
  BY <1>6, <1>7, <1>8, <1>9, Together

\* The boundary and the results while it stands still.
LEMMA BoundaryStays ==
    ASSUME IInv, UNCHANGED boundaryVars
    PROVE  BoundaryInv'
BY DEF boundaryVars, IInv, BoundaryInv, TypeOK, BoundaryTypeOK, Called, LockMine, Opened, OwnersReserved,
       Owning, Reservation, Key, Command, FreeKeysUnused

\* The agent reads, or its job ends without a draft.
LEMMA AgentMoves ==
    ASSUME IInv,
           UNCHANGED <<call, records, read, lock, pc, result, effects, crashes, drafts, torn, formal, desk, writing>>,
           agent' \in AgentJobs, agent'.step # "append"
    PROVE  IInv'
<1>1. BoundaryInv'
  BY BoundaryStays DEF boundaryVars
<1>2. ResultsHold'
  BY ResultsStay
<1>3. DeskHeld' /\ LinearHistory'
  BY DEF IInv, DeskHeld, LinearHistory
<1>4. ChecksHold'
  BY DEF IInv, ChecksHold, Actual, Latest, Command
<1>5. DeskTyped'
  BY DEF IInv, TypeOK, DeskTyped
<1> QED
  BY <1>1, <1>2, <1>3, <1>4, <1>5, Together

LEMMA AgentSavesStep ==
    ASSUME IInv, NEW t \in Generated, AgentSaves(t)
    PROVE  IInv'
<1>1. /\ UNCHANGED <<call, records, read, lock, pc, result, effects, crashes, drafts, torn, formal>>
      /\ agent.step = "save" /\ desk = None /\ agent.expected = Actual
      /\ agent' = [agent EXCEPT !.step = "append"] /\ desk' = Agent /\ writing' = NextLine(drafts, t)
  BY Versions DEF AgentSaves, TakeDesk, DeskFree, NextLine, boundaryVars
<1>2. agent' \in AgentJobs /\ agent'.step = "append" /\ agent'.expected = Actual /\ Actual' = Actual
  BY <1>1 DEF IInv, TypeOK, AgentJobs, Actual, Latest
<1>3. \A q \in Requests : pc'[q] \notin HandlerSteps
  BY <1>1, DeskAssumption DEF IInv, DeskHeld
<1>4. t \in Texts /\ writing'.text = t /\ writing' \in Lines
  BY <1>1, Versions, DeskAssumption DEF NextLine, Lines
<1>5. BoundaryInv'
  BY <1>1, BoundaryStays DEF boundaryVars
<1>6. DeskHeld' /\ LinearHistory'
  BY <1>1, <1>3 DEF IInv, DeskHeld, LinearHistory
<1>7. ChecksHold'
  BY <1>1, <1>2, <1>3, <1>4 DEF ChecksHold, HandlerSteps
<1>8. ResultsHold'
  BY <1>1, ResultsStay
<1>9. DeskTyped'
  BY <1>1, <1>2, <1>4 DEF IInv, TypeOK, DeskTyped
<1> QED
  BY <1>5, <1>6, <1>7, <1>8, <1>9, Together

LEMMA AgentAppendsStep ==
    ASSUME IInv, AgentAppends
    PROVE  IInv'
<1>1. /\ agent.step = "append" /\ drafts' = Append(drafts, writing) /\ agent' = AgentIdle /\ LeaveDesk
      /\ UNCHANGED <<call, records, read, lock, pc, result, effects, crashes, torn, formal>>
  BY DEF AgentAppends, boundaryVars
<1>2. desk = Agent /\ writing.text \in Texts /\ writing = NextLine(drafts, writing.text)
  BY <1>1 DEF IInv, DeskHeld, ChecksHold
<1>3. /\ drafts' \in Seq(Lines) /\ LinearHistory'
      /\ \A d \in Requested, x \in CommandResults \union {None} : Holds(drafts, d, x) => Holds(drafts', d, x)
  BY <1>1, <1>2, LineAppended
<1>4. BoundaryInv'
  BY <1>1, BoundaryStays DEF boundaryVars
<1>5. DeskHeld' /\ ChecksHold' /\ desk' = None /\ writing' = NoLine
  BY <1>1, <1>2, DeskLeft
<1>6. ResultsHold'
  BY <1>1, <1>3, ResultsGrow
<1>7. DeskTyped'
  BY <1>1, <1>3, <1>5 DEF IInv, TypeOK, DeskTyped, AgentJobs, AgentIdle
<1> QED
  BY <1>3, <1>4, <1>5, <1>6, <1>7, Together

\* A restart forgets every request that is not answered, and every lock.
LEMMA CrashStep ==
    ASSUME IInv, Crash
    PROVE  IInv'
<1>1. /\ crashes < MaxCrashes /\ crashes' = crashes + 1 /\ lock' = (IF lock = None THEN None ELSE "left")
      /\ pc' = [q \in Requests |-> IF pc[q] = "new" \/ Answered(q) THEN pc[q] ELSE "dead"]
      /\ read' = [q \in Requests |-> None]
      /\ agent' = AgentIdle /\ desk' = None /\ writing' = NoLine
      /\ UNCHANGED <<call, records, result, effects, drafts>>
  BY DEF Crash, Restart, LeaveDesk
<1>2. \A q \in Requests : /\ ~Opened(q)' /\ pc'[q] \in {"new", "done", "dead"}
                          /\ (pc'[q] = "new" <=> pc[q] = "new")
  BY <1>1 DEF Opened, Answered
<1>3. BoundaryTypeOK(HandlerSteps)'
  <2>1. pc' \in [Requests -> BoundarySteps \union HandlerSteps]
    BY <1>1, <1>2 DEF BoundarySteps
  <2>2. read' \in [Requests -> Tables \union {None}] /\ lock' \in Requests \union {None, "left"}
    BY <1>1
  <2>3. crashes' \in 0..MaxCrashes
    BY <1>1, BoundaryAssumption DEF IInv, TypeOK, BoundaryTypeOK
  <2> QED
    BY <1>1, <2>1, <2>2, <2>3 DEF IInv, TypeOK, BoundaryTypeOK
<1>4. Called' /\ LockMine' /\ OwnersReserved'
  BY <1>1, <1>2 DEF IInv, Called, LockMine, OwnersReserved, Owning
<1>5. FreeKeysUnused' /\ LinearHistory'
  BY <1>1 DEF IInv, FreeKeysUnused, LinearHistory
<1>6. DeskHeld' /\ ChecksHold'
  BY <1>1, <1>2 DEF DeskHeld, ChecksHold, HandlerSteps, AgentIdle
<1>7. ResultsHold'
  BY <1>1, ResultsStay
<1>8. DeskTyped'
  <2>1. torn' \in BOOLEAN /\ formal' \in Texts \union {None, "torn"}
    BY DEF Crash, IInv, TypeOK
  <2> QED
    BY <1>1, <2>1 DEF IInv, TypeOK, DeskTyped, AgentJobs, AgentIdle
<1> QED
  BY <1>3, <1>4, <1>5, <1>6, <1>7, <1>8, Together DEF BoundaryInv

(***************************************************************************)
(* The invariant                                                           *)
(***************************************************************************)

LEMMA StandsStill ==
    ASSUME IInv, UNCHANGED vars
    PROVE  IInv'
<1>1. /\ UNCHANGED <<call, records, read, lock, pc, result, effects, crashes>>
      /\ UNCHANGED <<drafts, torn, formal, desk, writing, agent>>
  BY DEF vars, boundaryVars, deskVars
<1>2. BoundaryInv'
  BY <1>1, BoundaryStays DEF boundaryVars
<1>3. DeskHeld' /\ LinearHistory' /\ ChecksHold'
  BY <1>1, DeskStays
<1>4. ResultsHold'
  BY <1>1, ResultsStay
<1>5. DeskTyped'
  BY <1>1 DEF IInv, TypeOK, DeskTyped
<1> QED
  BY <1>2, <1>3, <1>4, <1>5, Together

LEMMA InitIInv == Init => IInv
<1> SUFFICES ASSUME Init PROVE IInv
  OBVIOUS
<1>1. /\ call = [r \in Requests |-> None] /\ records = [k \in Keys |-> NoRecord]
      /\ read = [r \in Requests |-> None] /\ lock = None /\ pc = [r \in Requests |-> "new"]
      /\ result = [r \in Requests |-> None] /\ effects = [k \in Keys |-> 0] /\ crashes = 0
      /\ drafts = <<>> /\ torn = FALSE /\ formal = None /\ desk = None /\ writing = NoLine /\ agent = AgentIdle
  BY DEF Init, BoundaryInit
<1>2. BoundaryTypeOK(HandlerSteps)
  <2>1. records \in Tables /\ 0 \in 0..MaxCrashes /\ "new" \in BoundarySteps
    BY <1>1, BoundaryAssumption DEF Tables, BoundarySteps
  <2> QED
    BY <1>1, <2>1 DEF BoundaryTypeOK
<1>3. TypeOK
  BY <1>1, <1>2, EmptySeq DEF TypeOK, AgentJobs, AgentIdle
<1>4. Called /\ LockMine /\ OwnersReserved /\ FreeKeysUnused
  BY <1>1 DEF Called, LockMine, OwnersReserved, FreeKeysUnused, Opened, Owning
<1>5. DeskHeld /\ LinearHistory /\ ChecksHold
  BY <1>1 DEF DeskHeld, LinearHistory, ChecksHold, HandlerSteps, AgentIdle
<1>6. ResultsHold
  BY <1>1 DEF ResultsHold, NoRecord
<1> QED
  BY <1>3, <1>4, <1>5, <1>6 DEF IInv

LEMMA StepIInv == IInv /\ [Next]_vars => IInv'
<1> SUFFICES ASSUME IInv, [Next]_vars PROVE IInv'
  OBVIOUS
<1>1. ASSUME NEW r \in Requests, NEW k \in Keys, NEW c \in Commands, Arrive(r, k, c), UNCHANGED deskVars
      PROVE  IInv'
  BY <1>1, ArriveStep
<1>2. ASSUME NEW r \in Requests, BoundaryStep(r), UNCHANGED deskVars
      PROVE  IInv'
  BY <1>2, LockFileStep, BusyStep, ReserveStep, CompleteStep DEF BoundaryStep
<1>3. ASSUME NEW r \in Requests, ReadVersion(r) \/ Handle(r) \/ AppendDraft(r) \/ WriteFormal(r)
      PROVE  IInv'
  BY <1>3, VersionStep, HandleStep, AppendStep, FormalStep
<1>4. ASSUME NEW r \in Requests, Step(r)
      PROVE  IInv'
  BY <1>2, <1>3, <1>4 DEF Step
<1>5. CASE AgentReads
  <2>1. /\ UNCHANGED <<call, records, read, lock, pc, result, effects, crashes, drafts, torn, formal, desk, writing>>
        /\ agent' \in AgentJobs /\ agent'.step # "append"
    BY <1>5, Versions DEF AgentReads, AgentIdle, AgentJobs, boundaryVars
  <2> QED
    BY <2>1, AgentMoves
<1>6. ASSUME NEW t \in Generated, AgentStops(t) \/ AgentSaves(t)
      PROVE  IInv'
  <2>1. CASE AgentStops(t)
    <3>1. /\ UNCHANGED <<call, records, read, lock, pc, result, effects, crashes, drafts, torn, formal, desk, writing>>
          /\ agent' \in AgentJobs /\ agent'.step # "append"
      BY <2>1 DEF AgentStops, AgentIdle, AgentJobs, boundaryVars
    <3> QED
      BY <3>1, AgentMoves
  <2>2. CASE AgentSaves(t)
    BY <2>2, AgentSavesStep
  <2> QED
    BY <1>6, <2>1, <2>2
<1>7. CASE AgentAppends
  BY <1>7, AgentAppendsStep
<1>8. CASE Crash
  BY <1>8, CrashStep
<1>9. CASE UNCHANGED vars
  BY <1>9, StandsStill
<1>10. CASE AgentStep
  BY <1>5, <1>6, <1>7, <1>10 DEF AgentStep
<1> QED
  BY <1>1, <1>4, <1>8, <1>9, <1>10 DEF Next

\* The desk never leaves its invariant.
THEOREM DeskInvariant == Spec => []IInv
BY InitIInv, StepIInv, PTL DEF Spec

\* Whatever the requests, the agent and the restarts do, every variable of the desk and of
\* the results file keeps its type (the records of both files, the locks, the steps).
THEOREM DeskTypedAlways == Spec => []TypeOK
<1>1. IInv => TypeOK
  BY DEF IInv
<1> QED
  BY <1>1, DeskInvariant, PTL

\* The drafts that save, restore and the agent append stay one line of versions, each made
\* from the one before it.
THEOREM HistoryAlwaysLinear == Spec => []LinearHistory
<1>1. IInv => LinearHistory
  BY DEF IInv
<1> QED
  BY <1>1, DeskInvariant, PTL

\* At most one request of a key is past the reservation, and the reservation on disk is its own.
THEOREM AlwaysOneRunner == Spec => []OneRunner
<1>1. IInv => OneRunner
  <2>1. \A r \in Requests : Running(r) => Owning(r)
    BY DEF Running, Owning
  <2> QED
    BY <2>1 DEF IInv, OwnersReserved, OneRunner, Reservation
<1> QED
  BY <1>1, DeskInvariant, PTL

\* A draft is appended by an author, or by the agent, that saw the draft before it.
THEOREM NothingOverwrittenUnread == Spec => SavedOverSeen
<1>1. ASSUME IInv
      PROVE  Seen(Actual) = Len(drafts)
  BY <1>1, Versions, DeskAssumption DEF Seen
<1>2. IInv /\ [Next]_vars => [/\ \A r \in Requests : pc[r] = "append" /\ drafts' # drafts /\ pc'[r] # "append" =>
                                     Seen(Command(r).expected) = Len(drafts)
                              /\ agent.step = "append" /\ drafts' # drafts /\ agent' = AgentIdle =>
                                     Seen(agent.expected) = Len(drafts)]_vars
  BY <1>1 DEF IInv, ChecksHold
<1> QED
  BY <1>2, DeskInvariant, PTL DEF Spec, SavedOverSeen

(***************************************************************************)
(* What an answer says                                                     *)
(***************************************************************************)

Forgettable == {"command_store_busy", "command_version_unavailable", "command_outcome_unknown",
                "idempotency_conflict"}

\* Who has an answer that the store remembers finds it there.
AnswersStored ==
    \A r \in Requests : pc[r] = "done" =>
        /\ result[r] # None
        /\ result[r].code \notin Forgettable => records[Key(r)] = [command |-> Command(r), result |-> result[r]]

\* A key is only given back with an answer that is not remembered.
BackForgotten == \A r \in Requests : pc[r] = "release" => result[r].code \in Forgettable

\* A key with a result keeps it.
LEMMA ResultsFinal ==
    ASSUME IInv, [Next]_vars, NEW k \in Keys, records[k].result # None
    PROVE  records'[k] = records[k]
<1>1. ASSUME NEW r \in Requests, BoundaryStep(r), records' # records
      PROVE  /\ pc[r] \in StoreSteps /\ Opened(r)
             /\ \E record : Store(r, record)
             /\ Found(r) = NoRecord \/ pc[r] \in {"complete", "release"}
  BY <1>1 DEF BoundaryStep, Acquire, Unlock, Busy, Reserve, ReserveNew, ReserveTaken, Complete, Release, StoreSteps
<1>2. ASSUME NEW r \in Requests, BoundaryStep(r), records' # records
      PROVE  records'[k] = records[k]
  <2>1. read[r] = records /\ Found(r) = records[Key(r)] /\ Key(r) \in Keys
    BY <1>1, <1>2, StoreSees
  <2>2. PICK record : records' = [records EXCEPT ![Key(r)] = record]
    BY <1>1, <1>2, <2>1 DEF Store
  <2>3. Found(r) = NoRecord \/ pc[r] \in {"complete", "release"}
    BY <1>1, <1>2
  <2>4. Found(r) = NoRecord \/ Found(r) = Reservation(r)
    BY <2>1, <2>3 DEF IInv, OwnersReserved, Owning
  <2>5. Key(r) # k
    BY <2>1, <2>4 DEF NoRecord, Reservation
  <2> QED
    BY <2>2, <2>5 DEF IInv, TypeOK, BoundaryTypeOK, Tables
<1>3. ASSUME ~\E r \in Requests : BoundaryStep(r)
      PROVE  records' = records
  BY <1>3 DEF Next, Step, Arrive, ReadVersion, CheckVersion, VersionUnavailable, Handle, AppendDraft, WriteFormal,
              AgentStep, AgentReads, AgentStops, AgentSaves, AgentAppends, Crash, Restart, vars, boundaryVars
<1> QED
  BY <1>2, <1>3

Answering(r) == Busy(r) \/ Reserve(r) \/ Complete(r) \/ Release(r) \/ HandlerRaises(r)

\* What a step does to one request: nothing, or it goes on, gives its key back or is answered.
LEMMA OneRequest ==
    ASSUME IInv, [Next]_vars, NEW r \in Requests
    PROVE  \/ pc'[r] = pc[r] /\ result'[r] = result[r] /\ call'[r] = call[r]
           \/ pc'[r] \notin {"done", "release"}
           \/ pc'[r] = "release" /\ result'[r] = Failure("command_version_unavailable")
           \/ pc[r] # "done" /\ pc'[r] = "done" /\ call' = call /\ Answering(r)
<1> DEFINE Same == pc'[r] = pc[r] /\ result'[r] = result[r] /\ call'[r] = call[r]
           On == pc'[r] \notin {"done", "release"}
           Back == pc'[r] = "release" /\ result'[r] = Failure("command_version_unavailable")
           Answer == pc[r] # "done" /\ pc'[r] = "done" /\ call' = call /\ Answering(r)
<1>1. /\ pc \in [Requests -> BoundarySteps \union HandlerSteps]
      /\ result \in [Requests -> CommandResults \union {None}]
      /\ call \in [Requests -> Calls \union {None}]
  BY DEF IInv, TypeOK, BoundaryTypeOK
<1>2. ASSUME NEW q \in Requests, q # r,
             pc' = pc \/ (\E step : pc' = [pc EXCEPT ![q] = step]),
             result' = result \/ (\E res : result' = [result EXCEPT ![q] = res]),
             call' = call \/ (\E c : call' = [call EXCEPT ![q] = c])
      PROVE  Same
  BY <1>1, <1>2
<1>3. ASSUME NEW q \in Requests, NEW k \in Keys, NEW c \in Commands, Arrive(q, k, c)
      PROVE  Same \/ On
  <2>1. /\ pc' = [pc EXCEPT ![q] = "reserve"] /\ result' = result
        /\ call' = [call EXCEPT ![q] = [key |-> k, command |-> c]]
    BY <1>3 DEF Arrive, Goto
  <2> QED
    BY <1>1, <2>1
<1>4. ASSUME NEW q \in Requests, BoundaryStep(q)
      PROVE  Same \/ On \/ Answer
  <2>1. CASE Acquire(q) \/ Unlock(q)
    BY <2>1 DEF Acquire, Unlock
  <2>2. CASE Busy(q) \/ Reserve(q) \/ Complete(q) \/ Release(q)
    <3>1. /\ call' = call /\ pc[q] \in StoreSteps
          /\ result' = result \/ (\E res : result' = [result EXCEPT ![q] = res])
          /\ \E step \in {"version", "done"} : pc' = [pc EXCEPT ![q] = step]
      BY <2>2 DEF Busy, Reserve, ReserveNew, ReserveTaken, Complete, Release, Goto, Return, Finish, StoreSteps
    <3>2. CASE q = r
      <4>1. pc'[r] \in {"version", "done"} /\ pc[r] # "done"
        BY <1>1, <3>1, <3>2 DEF StoreSteps
      <4> QED
        BY <2>2, <3>1, <3>2, <4>1 DEF Answering
    <3> QED
      BY <1>2, <3>1, <3>2
  <2> QED
    BY <1>4, <2>1, <2>2 DEF BoundaryStep
<1>5. ASSUME NEW q \in Requests, ReadVersion(q)
      PROVE  Same \/ On \/ Back
  <2>1. /\ call' = call
        /\ \/ pc' = [pc EXCEPT ![q] = "handle"] /\ result' = result
           \/ \E res : pc' = [pc EXCEPT ![q] = "complete"] /\ result' = [result EXCEPT ![q] = res]
           \/ /\ pc' = [pc EXCEPT ![q] = "release"]
              /\ result' = [result EXCEPT ![q] = Failure("command_version_unavailable")]
    BY <1>5 DEF ReadVersion, CheckVersion, VersionUnavailable, Goto, Finish
  <2>2. CASE q = r
    BY <1>1, <2>1, <2>2
  <2> QED
    BY <1>2, <2>1, <2>2
<1>6. ASSUME NEW q \in Requests, Handle(q)
      PROVE  Same \/ On \/ Answer
  <2>1. /\ call' = call /\ pc[q] = "handle"
        /\ result' = result \/ (\E res : result' = [result EXCEPT ![q] = res])
        /\ \/ HandlerRaises(q) /\ pc' = [pc EXCEPT ![q] = "done"]
           \/ \E step \in {"publish", "complete", "append"} : pc' = [pc EXCEPT ![q] = step]
    BY <1>6 DEF Handle, HandlerRaises, Return, HandlerAccepts, Goto, Finish
  <2>2. CASE q = r
    BY <1>1, <2>1, <2>2 DEF Answering
  <2> QED
    BY <1>2, <2>1, <2>2
<1>7. ASSUME NEW q \in Requests, AppendDraft(q) \/ WriteFormal(q)
      PROVE  Same \/ On
  <2>1. /\ call' = call /\ pc' = [pc EXCEPT ![q] = "complete"]
        /\ \E res : result' = [result EXCEPT ![q] = res]
    BY <1>7 DEF AppendDraft, WriteFormal, HandlerAccepts, Finish
  <2>2. CASE q = r
    BY <1>1, <2>1, <2>2
  <2> QED
    BY <1>2, <2>1, <2>2
<1>8. ASSUME AgentStep \/ UNCHANGED vars
      PROVE  Same
  BY <1>8 DEF AgentStep, AgentReads, AgentStops, AgentSaves, AgentAppends, vars, boundaryVars
<1>9. ASSUME Crash
      PROVE  Same \/ On
  BY <1>1, <1>9 DEF Crash, Restart, Answered
<1>10. Same \/ On \/ Back \/ Answer
  <2> HIDE DEF Same, On, Back, Answer
  <2> QED
    BY <1>3, <1>4, <1>5, <1>6, <1>7, <1>8, <1>9 DEF Next, Step
<1> QED
  BY <1>10

\* Who is answered in a step stored the answer, found it, or has one that nobody remembers.
LEMMA AnswerComes ==
    ASSUME IInv, BackForgotten, NEW r \in Requests, call' = call, Answering(r), pc'[r] = "done"
    PROVE  /\ result'[r] # None /\ call'[r] = call[r]
           /\ result'[r].code \notin Forgettable => records'[Key(r)] = [command |-> Command(r), result |-> result'[r]]
<1>1. /\ pc \in [Requests -> BoundarySteps \union HandlerSteps]
      /\ result \in [Requests -> CommandResults \union {None}]
  BY DEF IInv, TypeOK, BoundaryTypeOK
<1>2. ASSUME NEW code \in Forgettable, result' = [result EXCEPT ![r] = Failure(code)], call' = call
      PROVE  result'[r] # None /\ call'[r] = call[r] /\ result'[r].code \in Forgettable
  <2>1. Failure(code).code = code /\ Failure(code) \in CommandResults
    BY DEF Failure, CommandResults, Codes, Forgettable
  <2> QED
    BY <1>1, <1>2, <2>1, BoundaryAssumption
<1>3. CASE Busy(r) \/ HandlerRaises(r)
  BY <1>2, <1>3 DEF Busy, HandlerRaises, Return, Finish, Unknown, Forgettable
<1>4. CASE Reserve(r)
  <2>1. pc[r] \in StoreSteps /\ Opened(r)
    BY <1>4 DEF Reserve, StoreSteps
  <2>2. Found(r) = records[Key(r)] /\ Key(r) \in Keys /\ Command(r) \in Commands
    BY <2>1, StoreSees
  <2>3. Found(r) # NoRecord /\ result' = [result EXCEPT ![r] = AnswerFor(r)] /\ records' = records /\ call' = call
    BY <1>1, <1>4 DEF Reserve, ReserveNew, ReserveTaken, Goto, Return, Finish
  <2>4. Found(r) \in Records
    BY <2>2, <2>3 DEF IInv, TypeOK, BoundaryTypeOK, Tables
  <2>5. CASE Found(r).command # Command(r) \/ Found(r).result = None
    BY <1>2, <2>3, <2>5 DEF AnswerFor, Unknown, Forgettable
  <2>6. CASE Found(r).command = Command(r) /\ Found(r).result # None
    <3>1. result'[r] = Found(r).result /\ call'[r] = call[r]
      BY <1>1, <2>3, <2>6 DEF AnswerFor
    <3>2. Found(r) = [command |-> Command(r), result |-> Found(r).result]
      BY <2>4, <2>6 DEF Records
    <3> QED
      BY <2>2, <2>3, <2>6, <3>1, <3>2
  <2> QED
    BY <2>5, <2>6
<1>5. CASE Complete(r)
  <2>1. pc[r] = "complete" /\ pc[r] \in StoreSteps /\ Opened(r) /\ Owning(r) /\ call' = call
    BY <1>5 DEF Complete, StoreSteps, Owning
  <2>2. Found(r) = Reservation(r) /\ result[r] # None /\ read[r] = records /\ Key(r) \in Keys
    BY <2>1, StoreSees DEF IInv, OwnersReserved
  <2>3. result'[r] = result[r] /\ records' = [records EXCEPT ![Key(r)] = [command |-> Command(r), result |-> result[r]]]
    BY <1>1, <1>5, <2>2 DEF Complete, Return, Finish, Store, Reservation
  <2> QED
    BY <2>1, <2>2, <2>3 DEF IInv, TypeOK, BoundaryTypeOK, Tables
<1>6. CASE Release(r)
  <2>1. pc[r] = "release" /\ pc[r] \in StoreSteps /\ Opened(r) /\ Owning(r) /\ call' = call
    BY <1>6 DEF Release, StoreSteps, Owning
  <2>2. result[r] # None /\ result'[r] = result[r] /\ result[r].code \in Forgettable
    BY <1>1, <1>6, <2>1 DEF Release, Return, Finish, IInv, OwnersReserved, BackForgotten
  <2> QED
    BY <2>1, <2>2
<1> QED
  BY <1>3, <1>4, <1>5, <1>6 DEF Answering

LEMMA AnswersGrow == IInv /\ AnswersStored /\ BackForgotten /\ [Next]_vars => (AnswersStored /\ BackForgotten)'
<1> SUFFICES ASSUME IInv, AnswersStored, BackForgotten, [Next]_vars
             PROVE  AnswersStored' /\ BackForgotten'
  OBVIOUS
<1>1. BackForgotten'
  <2>1. Failure("command_version_unavailable").code \in Forgettable
    BY DEF Failure, Forgettable
  <2> QED
    BY <2>1, OneRequest DEF BackForgotten
<1>2. ASSUME NEW r \in Requests, pc'[r] = "done"
      PROVE  /\ result'[r] # None
             /\ result'[r].code \notin Forgettable =>
                   records'[Key(r)'] = [command |-> Command(r)', result |-> result'[r]]
  <2>1. CASE pc[r] = "done" /\ result'[r] = result[r] /\ call'[r] = call[r]
    <3>1. result[r] # None /\ Key(r)' = Key(r) /\ Command(r)' = Command(r) /\ Key(r) \in Keys
      BY <2>1, RequestTyped DEF AnswersStored, Key, Command, IInv, Called
    <3>2. ASSUME result[r].code \notin Forgettable
          PROVE  records'[Key(r)] = [command |-> Command(r), result |-> result[r]]
      <4>1. records[Key(r)] = [command |-> Command(r), result |-> result[r]]
        BY <2>1, <3>2 DEF AnswersStored
      <4> QED
        BY <3>1, <4>1, ResultsFinal
    <3> QED
      BY <2>1, <3>1, <3>2
  <2>2. CASE call' = call /\ Answering(r)
    BY <1>2, <2>2, AnswerComes DEF Key, Command
  <2> QED
    BY <1>2, <2>1, <2>2, OneRequest
<1> QED
  BY <1>1, <1>2 DEF AnswersStored

LEMMA AnswersInvariant == Spec => [](IInv /\ AnswersStored)
<1>1. Init => AnswersStored /\ BackForgotten
  BY DEF Init, BoundaryInit, AnswersStored, BackForgotten
<1> QED
  BY <1>1, AnswersGrow, DeskInvariant, PTL DEF Spec

\* Whoever repeats a command under its key gets the same answer, if the store remembers one.
THEOREM SameAnswerAlways == Spec => []SameAnswer
<1>1. ASSUME AnswersStored, NEW r \in Requests, Remembered(r)
      PROVE  records[call[r].key] = [command |-> call[r].command, result |-> result[r]]
  BY <1>1 DEF AnswersStored, Remembered, Answered, Forgettable, Key, Command
<1>2. ASSUME AnswersStored, NEW q \in Requests, NEW r \in Requests, Remembered(q), Remembered(r), call[q] = call[r]
      PROVE  result[q] = result[r]
  <2>1. records[call[q].key] = [command |-> call[q].command, result |-> result[q]]
    BY <1>1, <1>2
  <2>2. records[call[r].key] = [command |-> call[r].command, result |-> result[r]]
    BY <1>1, <1>2
  <2> QED
    BY <1>2, <2>1, <2>2
<1>3. AnswersStored => SameAnswer
  BY <1>2 DEF SameAnswer
<1> QED
  BY <1>3, AnswersInvariant, PTL

\* An accepted save or restore is a line of the draft file with the text that was asked for,
\* after any restart, and an accepted publication has a line to show.
THEOREM AcceptedStaysStored == Spec => []AcceptedIsStored
<1>1. IInv /\ AnswersStored => AcceptedIsStored
  <2> SUFFICES ASSUME IInv, AnswersStored, NEW r \in Requests, Answered(r), result[r].code = "accepted"
               PROVE  /\ result[r].ref \in 1..Len(drafts)
                      /\ Command(r).op # "publish" => drafts[result[r].ref].text = NewText(Command(r))
                      /\ Command(r).op = "publish" => result[r].ref = Command(r).version
    BY DEF AcceptedIsStored
  <2>1. result[r] # None /\ call[r] # None
    BY DEF AnswersStored, Answered, IInv, Called
  <2>2. Holds(drafts, Command(r), result[r])
    BY <2>1 DEF IInv, ResultsHold
  <2>3. Present(drafts, Command(r)) /\ Command(r) \in Requested
    BY <2>1, <2>2, RequestTyped DEF Holds
  <2>4. NewText(Command(r)) = TextFor(drafts, Command(r))
    BY <2>3, TextOfPlace
  <2> QED
    BY <2>1, <2>2, <2>4 DEF Holds
<1> QED
  BY <1>1, AnswersInvariant, PTL

(***************************************************************************)
(* The results file implements idempotency keys                            *)
(***************************************************************************)

Owners == [k \in Keys |-> records[k].command]
Outcomes == [k \in Keys |-> records[k].result]

LEMMA StoredBars ==
    ASSUME IInv, NEW k \in Keys, NEW record, records' = [records EXCEPT ![k] = record]
    PROVE  /\ Owners' = [Owners EXCEPT ![k] = record.command]
           /\ Outcomes' = [Outcomes EXCEPT ![k] = record.result]
           /\ Owners[k] = records[k].command /\ Outcomes[k] = records[k].result
BY DEF IInv, TypeOK, BoundaryTypeOK, Tables, Owners, Outcomes

LEMMA StoreRefines ==
    ASSUME IInv, NEW r \in Requests, Reserve(r) \/ Complete(r) \/ Release(r)
    PROVE  [Idempotent!Next]_(Idempotent!vars)
<1>1. /\ pc[r] \in StoreSteps /\ Opened(r) /\ effects' = effects
      /\ pc[r] \in {"complete", "release"} => Owning(r)
  BY DEF Reserve, Complete, Release, StoreSteps, Owning
<1>2. PICK k \in Keys, c \in Commands :
         /\ Key(r) = k /\ Command(r) = c
         /\ read[r] = records /\ Found(r) = records[k] /\ call[r] # None
  BY <1>1, StoreSees
<1>3. records \in Tables /\ effects \in [Keys -> Nat] /\ Command(r) # None
  BY <1>2, RequestTyped DEF IInv, TypeOK, BoundaryTypeOK
<1>4. CASE Reserve(r) /\ ReserveNew(r)
  <2>1. records[k] = NoRecord /\ records' = [records EXCEPT ![k] = Reservation(r)]
    BY <1>2, <1>4 DEF ReserveNew, Store, Reservation
  <2>2. /\ Owners[k] = None /\ Owners' = [Owners EXCEPT ![k] = Command(r)]
        /\ Outcomes' = [Outcomes EXCEPT ![k] = None] /\ Outcomes[k] = None
    <3>1. /\ Owners' = [Owners EXCEPT ![k] = Reservation(r).command]
          /\ Outcomes' = [Outcomes EXCEPT ![k] = Reservation(r).result]
          /\ Owners[k] = NoRecord.command /\ Outcomes[k] = NoRecord.result
      BY <1>2, <2>1, StoredBars
    <3> QED
      BY <3>1 DEF Reservation, NoRecord
  <2>3. Outcomes' = Outcomes
    BY <2>2 DEF Outcomes
  <2>4. Idempotent!Claim(k, c)
    BY <1>1, <1>2, <2>2, <2>3 DEF Idempotent!Claim, Owners, Outcomes
  <2>5. Idempotent!Next
    BY <1>2, <2>4 DEF Idempotent!Next
  <2> QED
    BY <2>5
<1>5. CASE records' = records
  BY <1>1, <1>5 DEF Idempotent!vars
<1>6. CASE Complete(r) /\ records' # records
  <2>1. records[k] = Reservation(r) /\ result[r] \in CommandResults
    BY <1>1, <1>2, <1>6 DEF Complete, IInv, OwnersReserved, TypeOK, BoundaryTypeOK
  <2>2. records' = [records EXCEPT ![k] = [command |-> Command(r), result |-> result[r]]]
    BY <1>2, <1>6 DEF Complete, Store
  <2>3. /\ Owners[k] = Command(r) /\ Outcomes[k] = None
        /\ Owners' = [Owners EXCEPT ![k] = Command(r)] /\ Outcomes' = [Outcomes EXCEPT ![k] = result[r]]
    <3> DEFINE record == [command |-> Command(r), result |-> result[r]]
    <3>1. record.command = Command(r) /\ record.result = result[r]
      OBVIOUS
    <3> HIDE DEF record
    <3>2. /\ Owners' = [Owners EXCEPT ![k] = record.command] /\ Outcomes' = [Outcomes EXCEPT ![k] = record.result]
          /\ Owners[k] = Reservation(r).command /\ Outcomes[k] = Reservation(r).result
      BY <1>2, <2>1, <2>2, StoredBars DEF record
    <3> QED
      BY <3>1, <3>2 DEF Reservation
  <2>4. Owners' = Owners /\ Outcomes'[k] = result[r]
    BY <1>2, <2>3 DEF Owners, Outcomes
  <2>5. Idempotent!Settle(k)
    BY <1>1, <1>3, <2>1, <2>3, <2>4 DEF Idempotent!Settle, Owners, Outcomes
  <2>6. Idempotent!Next
    BY <1>2, <2>5 DEF Idempotent!Next
  <2> QED
    BY <2>6
<1>7. CASE Release(r)
  <2>1. records[k] = Reservation(r) /\ effects[k] = 0 /\ records' = [records EXCEPT ![k] = NoRecord]
    BY <1>1, <1>2, <1>7 DEF Release, Store, IInv, OwnersReserved
  <2>2. /\ Owners[k] = Command(r) /\ Outcomes[k] = None
        /\ Owners' = [Owners EXCEPT ![k] = None] /\ Outcomes' = [Outcomes EXCEPT ![k] = None]
    <3>1. /\ Owners' = [Owners EXCEPT ![k] = NoRecord.command] /\ Outcomes' = [Outcomes EXCEPT ![k] = NoRecord.result]
          /\ Owners[k] = Reservation(r).command /\ Outcomes[k] = Reservation(r).result
      BY <1>2, <2>1, StoredBars
    <3> QED
      BY <3>1 DEF Reservation, NoRecord
  <2>3. Outcomes' = Outcomes
    BY <2>2 DEF Outcomes
  <2>4. Idempotent!Free(k)
    BY <1>1, <1>3, <2>1, <2>2, <2>3 DEF Idempotent!Free, Owners, Outcomes
  <2>5. Idempotent!Next
    BY <1>2, <2>4 DEF Idempotent!Next
  <2> QED
    BY <2>5
<1> QED
  BY <1>4, <1>5, <1>6, <1>7 DEF Reserve, ReserveTaken

\* A handler writes under a reservation, and once.
LEMMA EffectRefines ==
    ASSUME IInv, NEW r \in Requests, pc[r] \in HandlerSteps, Effect(r), records' = records
    PROVE  Idempotent!Next
<1>1. Owning(r) /\ call[r] # None /\ pc[r] # "complete"
  BY DEF Owning, HandlerSteps, IInv, Called
<1>2. Key(r) \in Keys /\ Command(r) # None
  BY <1>1, RequestTyped
<1>3. records[Key(r)] = Reservation(r) /\ effects[Key(r)] = 0
  BY <1>1 DEF IInv, OwnersReserved
<1>4. effects' = [effects EXCEPT ![Key(r)] = 1]
  BY <1>2, <1>3 DEF Effect, IInv, TypeOK, BoundaryTypeOK
<1>5. Idempotent!Run(Key(r))
  BY <1>2, <1>3, <1>4 DEF Idempotent!Run, Reservation
<1> QED
  BY <1>2, <1>5 DEF Idempotent!Next

\* A reservation claims the key, a handler that writes runs it, completing settles it, and
\* giving the key back frees it; every other step, and a restart, leaves the keys as they are.
LEMMA StepRefines == IInv /\ [Next]_vars => [Idempotent!Next]_(Idempotent!vars)
<1> SUFFICES ASSUME IInv, [Next]_vars PROVE [Idempotent!Next]_(Idempotent!vars)
  OBVIOUS
<1>1. CASE UNCHANGED <<records, effects>>
  BY <1>1 DEF Idempotent!vars
<1>2. ASSUME NEW r \in Requests, BoundaryStep(r)
      PROVE  [Idempotent!Next]_(Idempotent!vars)
  <2>1. CASE Acquire(r) \/ Unlock(r) \/ Busy(r)
    BY <1>1, <2>1 DEF Acquire, Unlock, Busy
  <2> QED
    BY <1>2, <2>1, StoreRefines DEF BoundaryStep
<1>3. ASSUME NEW r \in Requests, AppendDraft(r) \/ WriteFormal(r)
      PROVE  Idempotent!Next
  BY <1>3, EffectRefines DEF AppendDraft, WriteFormal, HandlerSteps
<1>4. ASSUME NEW r \in Requests, ReadVersion(r) \/ Handle(r)
      PROVE  UNCHANGED <<records, effects>>
  BY <1>4 DEF ReadVersion, CheckVersion, VersionUnavailable, Handle
<1>5. ASSUME AgentStep \/ Crash \/ UNCHANGED vars
      PROVE  UNCHANGED <<records, effects>>
  BY <1>5 DEF AgentStep, AgentReads, AgentStops, AgentSaves, AgentAppends, Crash, Restart, vars, boundaryVars
<1>6. ASSUME NEW r \in Requests, NEW k \in Keys, NEW c \in Commands, Arrive(r, k, c)
      PROVE  UNCHANGED <<records, effects>>
  BY <1>6 DEF Arrive
<1> QED
  BY <1>1, <1>2, <1>3, <1>4, <1>5, <1>6 DEF Next, Step

\* The results file gives a key to one command, which writes at most once while it owns it,
\* and whose outcome is final: the boundary implements idempotency keys.
THEOREM DeskImplementsIdempotency == Spec => ImplementsIdempotentCommands
<1>1. Init => Idempotent!Init
  BY DEF Init, BoundaryInit, Idempotent!Init, NoRecord
<1> QED
  BY <1>1, StepRefines, DeskInvariant, PTL DEF Spec, ImplementsIdempotentCommands, Idempotent!Spec

==============================================================================
