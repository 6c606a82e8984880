--------------------------- MODULE CommandBoundary ---------------------------
(***************************************************************************)
(* The CommandBoundary and its FileCommandResultStore (creative_os/        *)
(* workspace_command.py): every write of the web workspace is a command    *)
(* with an idempotency key, which is reserved in a results file before its *)
(* handler runs and completed with the handler's result afterwards.        *)
(*                                                                         *)
(* The requests are threads of one web server, and the results file is     *)
(* shared by the boundaries of all commands.  It is read and replaced      *)
(* under a lock file that is created exclusively and removed at the end;   *)
(* a request that finds it there tries again a hundred times and gives up. *)
(* Nothing removes the lock file of a process that died.                   *)
(*                                                                         *)
(* The handler, and what it writes, is a parameter: the modules that       *)
(* extend this one give its steps, and count in effects what it wrote.     *)
(***************************************************************************)
EXTENDS Naturals, FiniteSets

CONSTANTS Requests,     \* the requests of a behaviour, in no order
          Keys,         \* idempotency keys
          Commands,     \* what a request asks for: the fingerprint covers all of it
          MaxCrashes,   \* bound on the restarts of the server
          None          \* no request, no command, no result

VARIABLES call,       \* the key and the command of each request
          records,    \* the results file: what is stored for each key
          read,       \* what each request has read of it
          lock,       \* its lock file: who made it, "left" when that process is gone
          pc,         \* where each request is
          result,     \* the result each request is about to store or to return
          effects,    \* how many times a command of each key wrote something
          crashes     \* restarts so far

boundaryVars == <<call, records, read, lock, pc, result, effects, crashes>>

------------------------------------------------------------------------------
(* Types *)

Codes == {"accepted", "rejected", "failed", "version_conflict", "idempotency_conflict",
          "command_version_unavailable", "command_store_busy", "command_outcome_unknown"}

\* An accepted result refers to a version.
CommandResults == [code : Codes, ref : Nat \union {None}]
Failure(code) == [code |-> code, ref |-> None]
Unknown == Failure("command_outcome_unknown")

\* A reservation has no result yet.
Records == [command : Commands, result : CommandResults \union {None}]
NoRecord == [command |-> None, result |-> None]
Calls == [key : Keys, command : Commands]
Tables == [Keys -> Records \union {NoRecord}]

ASSUME BoundaryAssumption ==
    /\ MaxCrashes \in Nat
    /\ None \notin Commands \union CommandResults \union Calls \union Tables

\* The steps that need the lock file.
StoreSteps == {"reserve", "complete", "release"}
BoundarySteps == {"new", "version", "handle", "refresh", "done", "dead"} \union StoreSteps

BoundaryTypeOK(handlerSteps) ==
    /\ call \in [Requests -> Calls \union {None}]
    /\ records \in Tables
    /\ read \in [Requests -> Tables \union {None}]
    /\ lock \in Requests \union {None, "left"}
    /\ pc \in [Requests -> BoundarySteps \union handlerSteps]
    /\ result \in [Requests -> CommandResults \union {None}]
    /\ effects \in [Keys -> Nat]
    /\ crashes \in 0..MaxCrashes

BoundaryInit ==
    /\ call = [r \in Requests |-> None]
    /\ records = [k \in Keys |-> NoRecord]
    /\ read = [r \in Requests |-> None]
    /\ lock = None
    /\ pc = [r \in Requests |-> "new"]
    /\ result = [r \in Requests |-> None]
    /\ effects = [k \in Keys |-> 0]
    /\ crashes = 0

------------------------------------------------------------------------------
(* The results file *)

Key(r) == call[r].key
Command(r) == call[r].command

\* The file that r read is replaced by one with another record for its key.
Found(r) == read[r][Key(r)]
Store(r, record) == records' = [read[r] EXCEPT ![Key(r)] = record]

Goto(r, step) == pc' = [pc EXCEPT ![r] = step] /\ UNCHANGED result
Finish(r, step, res) == pc' = [pc EXCEPT ![r] = step] /\ result' = [result EXCEPT ![r] = res]
Return(r, res) == Finish(r, "done", res)

\* r has created the lock file and not removed it yet.
Opened(r) == read[r] # None

\* The lock file may still have to be removed when pc is "done".
Answered(r) == pc[r] = "done" /\ ~Opened(r)

\* The reservation is on disk and the result is not.
Running(r) == pc[r] \notin {"new", "reserve", "release", "done", "dead"}

\* Answers that come from the results file.
Remembered(r) ==
    /\ Answered(r)
    /\ result[r].code \notin {"command_store_busy", "command_version_unavailable",
                             "command_outcome_unknown", "idempotency_conflict"}

\* The file is created whether or not it is there.
LockIgnored(r) == TRUE

\* O_EXCL: nobody else has created the file.
LockFree(r) == lock = None

Acquire(r) ==
    /\ pc[r] \in StoreSteps /\ ~Opened(r)
    /\ LockFree(r)
    /\ lock' = r
    /\ read' = [read EXCEPT ![r] = records]
    /\ UNCHANGED <<call, records, pc, result, effects, crashes>>

Unlock(r) ==
    /\ Opened(r)
    /\ pc[r] \notin StoreSteps
    /\ lock' = None
    /\ read' = [read EXCEPT ![r] = None]
    /\ UNCHANGED <<call, records, pc, result, effects, crashes>>

\* A lock that was left behind is waited for.
BusyWithLiving(r) ==
    /\ pc[r] \in StoreSteps /\ ~Opened(r)
    /\ lock \in Requests
    /\ Return(r, IF pc[r] = "reserve" THEN Failure("command_store_busy") ELSE Unknown)
    /\ UNCHANGED <<call, records, read, lock, effects, crashes>>

\* All attempts failed.  Before the handler this is harmless; after it, what the
\* handler did stays unknown to the store.
Busy(r) ==
    /\ pc[r] \in StoreSteps /\ ~Opened(r)
    /\ lock # None
    /\ Return(r, IF pc[r] = "reserve" THEN Failure("command_store_busy") ELSE Unknown)
    /\ UNCHANGED <<call, records, read, lock, effects, crashes>>

\* A reservation without a result runs again.
ReserveAgain(r) ==
    /\ Found(r) = NoRecord \/ Found(r) = [command |-> Command(r), result |-> None]
    /\ Store(r, [command |-> Command(r), result |-> None])
    /\ Goto(r, "version")

\* A reservation is on disk, the handler has not run.
ReserveNew(r) ==
    /\ Found(r) = NoRecord
    /\ Store(r, [command |-> Command(r), result |-> None])
    /\ Goto(r, "version")

\* The key belongs to a command: its result is returned if this is the same
\* command and the result is there, and nothing runs again.
AnswerFor(r) ==
    IF Found(r).command # Command(r) THEN Failure("idempotency_conflict")
    ELSE IF Found(r).result # None THEN Found(r).result
    ELSE Unknown

ReserveTaken(r) ==
    /\ Found(r) # NoRecord
    /\ Return(r, AnswerFor(r))
    /\ UNCHANGED records

Reserve(r) ==
    /\ pc[r] = "reserve" /\ Opened(r)
    /\ ReserveNew(r) \/ ReserveTaken(r)
    /\ UNCHANGED <<call, read, lock, effects, crashes>>

\* The result is stored and then returned.
Complete(r) ==
    /\ pc[r] = "complete" /\ Opened(r)
    /\ IF Found(r).command # Command(r)
       THEN Return(r, Unknown) /\ UNCHANGED records
       ELSE Return(r, result[r]) /\ Store(r, [command |-> Command(r), result |-> result[r]])
    /\ UNCHANGED <<call, read, lock, effects, crashes>>

\* The handler has not started: the key is free again.
Release(r) ==
    /\ pc[r] = "release" /\ Opened(r)
    /\ Store(r, NoRecord)
    /\ Return(r, result[r])
    /\ UNCHANGED <<call, read, lock, effects, crashes>>

------------------------------------------------------------------------------
(* The boundary *)

\* A request arrives; what it asks for has been validated.
Arrive(r, k, c) ==
    /\ pc[r] = "new"
    /\ call' = [call EXCEPT ![r] = [key |-> k, command |-> c]]
    /\ Goto(r, "reserve")
    /\ UNCHANGED <<records, read, lock, effects, crashes>>

\* A version conflict may be repeated, so the key is given back.
CheckVersionRetry(r, current) ==
    /\ pc[r] = "version" /\ ~Opened(r)
    /\ IF Command(r).expected \in {None, current}
       THEN Goto(r, "handle")
       ELSE Finish(r, "release", Failure("version_conflict"))
    /\ UNCHANGED <<call, records, read, lock, effects, crashes>>

\* The handler of a command that carries no version, or whose version is the one
\* that the version reader finds.
CheckVersion(r, current) ==
    /\ pc[r] = "version" /\ ~Opened(r)
    /\ IF Command(r).expected \in {None, current}
       THEN Goto(r, "handle")
       ELSE Finish(r, "complete", Failure("version_conflict"))
    /\ UNCHANGED <<call, records, read, lock, effects, crashes>>

VersionUnavailable(r) ==
    /\ pc[r] = "version" /\ ~Opened(r)
    /\ Command(r).expected # None
    /\ Finish(r, "release", Failure("command_version_unavailable"))
    /\ UNCHANGED <<call, records, read, lock, effects, crashes>>

\* What the handler's outcome means to the boundary.
HandlerRaises(r) == Return(r, Unknown)
HandlerAccepts(r, ref, next) == Finish(r, next, [code |-> "accepted", ref |-> ref])

\* The command of r wrote something.
Effect(r) == effects' = [effects EXCEPT ![Key(r)] = @ + 1]

\* The projections are rebuilt before the result is stored.
Refresh(r) ==
    /\ pc[r] = "refresh"
    /\ Goto(r, "complete") \/ Return(r, Unknown)
    /\ UNCHANGED <<call, records, read, lock, effects, crashes>>

\* The server dies with everything in memory and starts again.
Restart ==
    /\ crashes < MaxCrashes
    /\ crashes' = crashes + 1
    /\ lock' = IF lock = None THEN None ELSE "left"
    /\ pc' = [r \in Requests |-> IF pc[r] = "new" \/ Answered(r) THEN pc[r] ELSE "dead"]
    /\ read' = [r \in Requests |-> None]
    /\ UNCHANGED <<call, records, result, effects>>

BoundaryStep(r) ==
    \/ Acquire(r) \/ Unlock(r) \/ Busy(r)
    \/ Reserve(r) \/ Complete(r) \/ Release(r)

==============================================================================
