---------------------------- MODULE WriterAdmission ----------------------------
(***************************************************************************)
(* The gate in front of every writer: WriterAdmissionService (creative_os/ *)
(* domains/writer_admission.py) over the contract that ContractLifecycle   *)
(* keeps current.  A run is granted admission, compiles its context,       *)
(* exchanges the grant for a token, and presents the token to each exit    *)
(* that writes (novel_continuation_runner.py, llm_writer.py), which runs   *)
(* inside the check.  A run whose contract is replaced needs a human's     *)
(* authorization to go on under the old one.                               *)
(*                                                                         *)
(* Every check takes project_authority_lock, which the coordinator holds   *)
(* for a whole transaction and an exit for as long as it writes.  Between  *)
(* two checks of a run anything may happen to the contract.  Tokens live   *)
(* in memory and are signed with a key of the process.                     *)
(***************************************************************************)
EXTENDS ContractLifecycle

CONSTANTS Runs,              \* writer runs
          AuthorizationIds,  \* authorizations a human may give
          Lifetime,          \* of a grant and of a token, five minutes in the code
          MaxTime            \* bound on the clock

ASSUME AdmissionAssumption == Lifetime \in Nat \ {0} /\ MaxTime \in Nat

VARIABLES runs,         \* what each run holds: nothing, a grant or a token
          restricted,   \* its restricted token
          authorized,   \* the continuation authorizations on record
          revoked,      \* those of them that a later record revokes
          writing,      \* the runs inside an exit
          clock

tokenVars == <<runs, restricted>>
humanVars == <<authorized, revoked>>
admissionVars == <<tokenVars, humanVars, writing, clock>>
allVars == <<vars, admissionVars>>

------------------------------------------------------------------------------
(* Types *)

Times == 0..(MaxTime + Lifetime)

\* "granted" and "compiled" hold a grant, "prepared" a token.  The signed
\* authority_state_hash is a function of the pointer: the approvals, the
\* dispositions and the pending revisions under it are those of an admissible one.
RunStates == [step : {"new", "granted", "compiled", "prepared"},
              state : Pointers \union {NoPointer}, admitted : Times, expires : Times]
NewRun == [step |-> "new", state |-> NoPointer, admitted |-> 0, expires |-> 0]

RestrictedTokens == [id : AuthorizationIds \union {None}, expires : Times]
NoRestricted == [id |-> None, expires |-> 0]

\* version and decision name the old contract; it has a date of its own, which
\* the clock may never reach.
Permissions == [run : Runs, version : Versions, decision : Decisions, expires : 1..(MaxTime + 1)]

AdmissionTypeOK ==
    /\ TypeOK
    /\ runs \in [Runs -> RunStates]
    /\ restricted \in [Runs -> RestrictedTokens]
    /\ authorized \in [AuthorizationIds -> Permissions \union {None}]
    /\ revoked \subseteq AuthorizationIds
    /\ writing \subseteq Runs
    /\ clock \in 0..MaxTime

AdmissionInit ==
    /\ Init
    /\ runs = [r \in Runs |-> NewRun]
    /\ restricted = [r \in Runs |-> NoRestricted]
    /\ authorized = [a \in AuthorizationIds |-> None]
    /\ revoked = {}
    /\ writing = {}
    /\ clock = 0

------------------------------------------------------------------------------
(* The checks *)

\* The exit runs after the check has released the lock.
ExitAfterTheLock == TRUE

\* The exit runs inside the check, which holds project_authority_lock.
NoExitInside == writing = {}

LockFree == pc = "idle" /\ NoExitInside

\* _pending: candidates of a later version.
Pending == {v \in Versions : v > pointer.version /\ status[v] = "candidate"}

\* _evaluate_authority_locked: the pointer and everything under it, read again.
Admissible ==
    /\ pointer # NoPointer
    /\ PointerReadable
    /\ ExactRecords(pointer.version)
    /\ dispositions[pointer.version] = pointer.dispositions
    /\ ManifestResolves
    /\ GateReady(pointer.version)
    /\ Pending = {}

Unexpired(time) == time > clock

\* The grant or the token of r is still good, and so is what it was issued for.
StillAdmitted(r) ==
    /\ Unexpired(runs[r].expires)
    /\ Admissible
    /\ pointer = runs[r].state

\* Any authorization of the run.
AuthorizationOfRun(r, a) ==
    /\ authorized[a] # None
    /\ authorized[a].run = r
    /\ a \notin revoked
    /\ Unexpired(authorized[a].expires)

\* find_exact_continuation_authorization, and its expiry.
Authorization(r, a) ==
    /\ authorized[a] # None
    /\ authorized[a].run = r
    /\ authorized[a].version = runs[r].state.version
    /\ authorized[a].decision = runs[r].state.decision
    /\ a \notin revoked
    /\ Unexpired(authorized[a].expires)

\* The contract of r is no longer the current one.
Replaced(r) ==
    /\ pointer # NoPointer
    /\ PointerReadable
    /\ <<pointer.version, pointer.decision>> # <<runs[r].state.version, runs[r].state.decision>>

\* The human's date alone.
Second(s, t) == t

Earlier(s, t) == IF s < t THEN s ELSE t

------------------------------------------------------------------------------
(* Admission in two phases *)

PreAdmit(r) ==
    /\ LockFree
    /\ runs[r].step = "new"
    /\ Admissible
    /\ runs' = [runs EXCEPT ![r] = [step |-> "granted", state |-> pointer,
                                    admitted |-> clock, expires |-> clock + Lifetime]]
    /\ UNCHANGED <<vars, restricted, humanVars, writing, clock>>

\* build_next_chapter validates the grant before it compiles the context.
ValidateGrantForContext(r) ==
    /\ LockFree
    /\ runs[r].step = "granted"
    /\ StillAdmitted(r)
    /\ runs' = [runs EXCEPT ![r].step = "compiled"]
    /\ UNCHANGED <<vars, restricted, humanVars, writing, clock>>

\* What the grant had left is added to the token's time.
FinalizeLonger(r) ==
    /\ LockFree
    /\ runs[r].step = "compiled"
    /\ StillAdmitted(r)
    /\ runs' = [runs EXCEPT ![r].step = "prepared", ![r].expires = @ + Lifetime]
    /\ UNCHANGED <<vars, restricted, humanVars, writing, clock>>

\* The token has a lifetime of its own.
FinalizeAdmission(r) ==
    /\ LockFree
    /\ runs[r].step = "compiled"
    /\ StillAdmitted(r)
    /\ runs' = [runs EXCEPT ![r].step = "prepared", ![r].expires = clock + Lifetime]
    /\ UNCHANGED <<vars, restricted, humanVars, writing, clock>>

\* The preparation fails on a grant that does not hold any more.
PreparationFails(r) ==
    /\ LockFree
    /\ runs[r].step \in {"granted", "compiled"}
    /\ ~StillAdmitted(r)
    /\ runs' = [runs EXCEPT ![r] = NewRun]
    /\ UNCHANGED <<vars, restricted, humanVars, writing, clock>>

\* validate_token with a handoff: an exit checks the token and writes.  A token
\* may be presented any number of times.
ValidateToken(r) ==
    /\ LockFree
    /\ runs[r].step = "prepared"
    /\ StillAdmitted(r)
    /\ writing' = writing \union {r}
    /\ UNCHANGED <<vars, tokenVars, humanVars, clock>>

\* The exit returns, or raises, and the lock is released.
ExitReturns(r) ==
    /\ r \in writing
    /\ writing' = writing \ {r}
    /\ UNCHANGED <<vars, tokenVars, humanVars, clock>>

\* The run is over, or its process died with the tokens in it.
RunEnds(r) ==
    /\ runs[r].step = "prepared"
    /\ runs' = [runs EXCEPT ![r] = NewRun]
    /\ restricted' = [restricted EXCEPT ![r] = NoRestricted]
    /\ writing' = writing \ {r}
    /\ UNCHANGED <<vars, humanVars, clock>>

------------------------------------------------------------------------------
(* A run whose contract was replaced *)

\* A human's record, append-only: save_continuation_authorization.
Authorize(a, p) ==
    /\ LockFree
    /\ authorized[a] = None
    /\ authorized' = [authorized EXCEPT ![a] = p]
    /\ UNCHANGED <<vars, tokenVars, revoked, writing, clock>>

\* A record that supersedes it.
Revoke(a) ==
    /\ LockFree
    /\ authorized[a] # None
    /\ revoked' = revoked \union {a}
    /\ UNCHANGED <<vars, tokenVars, authorized, writing, clock>>

\* The old token must not have expired; the contract it names is not compared
\* with anything but the authorization.
IssueRestrictedContinuationToken(r, a) ==
    /\ LockFree
    /\ runs[r].step = "prepared"
    /\ Unexpired(runs[r].expires)
    /\ Authorization(r, a)
    /\ Replaced(r)
    /\ restricted' = [restricted EXCEPT ![r] =
          [id |-> a, expires |-> Earlier(runs[r].expires, authorized[a].expires)]]
    /\ UNCHANGED <<vars, runs, humanVars, writing, clock>>

\* validate_token with a restricted token: nothing of the current contract but
\* that it is another one.
ValidateRestrictedToken(r) ==
    /\ LockFree
    /\ restricted[r] # NoRestricted
    /\ Unexpired(restricted[r].expires)
    /\ Authorization(r, restricted[r].id)
    /\ Replaced(r)
    /\ writing' = writing \union {r}
    /\ UNCHANGED <<vars, tokenVars, humanVars, clock>>

------------------------------------------------------------------------------

Tick ==
    /\ clock < MaxTime
    /\ clock' = clock + 1
    /\ UNCHANGED <<vars, tokenVars, humanVars, writing>>

\* Steps on the contract that do not ask for the lock.
Unlocked == SourcesChange \/ \E d \in Decisions : CreateInitialCandidate(d)

LifecycleStep ==
    /\ \/ NoExitInside /\ Next
       \/ Unlocked
    /\ UNCHANGED admissionVars

RunStep(r) ==
    \/ PreAdmit(r) \/ ValidateGrantForContext(r) \/ FinalizeAdmission(r) \/ PreparationFails(r)
    \/ ValidateToken(r) \/ ExitReturns(r) \/ RunEnds(r)
    \/ \E a \in AuthorizationIds : IssueRestrictedContinuationToken(r, a)
    \/ ValidateRestrictedToken(r)

AdmissionNext ==
    \/ LifecycleStep
    \/ \E r \in Runs : RunStep(r)
    \/ \E a \in AuthorizationIds, p \in Permissions : Authorize(a, p)
    \/ \E a \in AuthorizationIds : Revoke(a)
    \/ Tick

AdmissionSpec == AdmissionInit /\ [][AdmissionNext]_allVars

------------------------------------------------------------------------------
(* Safety *)

\* An exit that was opened by a restricted token: the run's own is for another pointer.
Restricted(r) == r \in writing /\ pointer # runs[r].state

\* While a chapter is written under a token, the contract it was admitted under
\* stays current, with the review, the dispositions and the text it was admitted
\* with: no switch, no disposition and no other writer comes in between.
WriterKeepsItsContract ==
    \A r \in writing :
        /\ writing = {r} /\ pc = "idle"
        /\ ~Restricted(r) =>
              /\ PointsToActive(pointer) /\ pointer.version \in recorded
              /\ dispositions[pointer.version] = pointer.dispositions
              /\ GateReady(pointer.version)

\* A chapter is written under an old contract only by a run that a human has
\* authorized for exactly that contract, and has not revoked while it writes;
\* and the contract has been replaced by a later one.
OldContractNeedsHuman ==
    \A r \in writing : Restricted(r) =>
        /\ runs[r].state.version < pointer.version
        /\ \E a \in AuthorizationIds \ revoked :
              /\ authorized[a] # None
              /\ authorized[a].run = r
              /\ authorized[a].version = runs[r].state.version
              /\ authorized[a].decision = runs[r].state.decision

\* However an admission is prolonged, by a token for a grant or by a restricted
\* token for a token, no writer starts later than two lifetimes after it.
ShortLived ==
    [][\A r \in writing' \ writing : clock < runs[r].admitted + 2 * Lifetime]_allVars

\* What an activation verified, an admission verifies again: once a version is
\* current, only a change of its sources or its dispositions, or a candidate for
\* the next version, keeps the writers out.
OnlyDriftBlocks ==
    LockFree /\ pointer # NoPointer /\ ~Admissible =>
        \/ ~sourcesExact
        \/ dispositions[pointer.version] # pointer.dispositions
        \/ Pending # {}

\* No chapter is started while a revision of its contract is pending, whether the
\* next version waits for its switch or the switch was interrupted.
NoRevisionPending ==
    [][\A r \in writing' \ writing : pointer = runs[r].state =>
          \A v \in Versions : v > pointer.version => status[v] \notin {"candidate", "active"}
      ]_allVars
================================================================================
