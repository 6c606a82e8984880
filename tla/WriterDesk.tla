------------------------------ MODULE WriterDesk ------------------------------
(***************************************************************************)
(* The writing desk of one chapter: the working drafts that the            *)
(* WriterDraftStore (creative_os/writer_draft_store.py) appends to a file, *)
(* the formal chapter that publishing writes, the commands that reach them *)
(* through the CommandBoundary (writer_command.py), and the writer agent   *)
(* (agent_runtime.py) that saves drafts without it.                        *)
(*                                                                         *)
(* The store checks and writes under project_authority_lock; the version   *)
(* reader of the boundary, and the agent, read the drafts without it.      *)
(***************************************************************************)
EXTENDS CommandBoundary, Sequences

CONSTANTS Texts,        \* the texts of a draft
          Generated,    \* those that the agent generates
          MaxVersion,   \* bound on the drafts of the chapter
          Agent         \* the agent's thread, one job at a time

\* What an author can ask for: a text, or a version, and the version seen before.
Requested == {c \in [op : {"save", "restore", "publish"}, text : Texts \union {None},
                     version : Nat, expected : Nat \union {None}] : c.op = "save" => c.text \in Texts}

ASSUME DeskAssumption ==
    /\ Generated \subseteq Texts /\ MaxVersion \in Nat
    /\ Commands \subseteq Requested
    /\ None \notin Nat \union Requests
    /\ Agent \notin Requests \union {None}

VARIABLES drafts,     \* the lines of the draft file
          torn,       \* its last line is only half there
          formal,     \* the formal chapter
          desk,       \* who holds project_authority_lock
          writing,    \* the line its holder is about to append
          agent       \* the agent's job

deskVars == <<drafts, torn, formal, desk, writing, agent>>
vars == <<boundaryVars, deskVars>>

------------------------------------------------------------------------------
(* Types *)

Lines == [version : Nat, text : Texts, parent : Nat]
NoLine == [version |-> 0, text |-> None, parent |-> 0]

HandlerSteps == {"append", "publish"}

\* What the agent read before it saves.
AgentJobs == [step : {"idle", "save", "append"}, expected : Nat \union {None}]
AgentIdle == [step |-> "idle", expected |-> None]

TypeOK ==
    /\ BoundaryTypeOK(HandlerSteps)
    /\ drafts \in Seq(Lines)
    /\ torn \in BOOLEAN
    /\ formal \in Texts \union {None, "torn"}
    /\ desk \in Requests \union {Agent, None}
    /\ writing \in Lines \union {NoLine}
    /\ agent \in AgentJobs

Init ==
    /\ BoundaryInit
    /\ drafts = <<>>
    /\ torn = FALSE
    /\ formal = None
    /\ desk = None
    /\ writing = NoLine
    /\ agent = AgentIdle

------------------------------------------------------------------------------
(* WriterDraftStore *)

\* The version of the last line, 0 when there is none.
Latest == IF drafts = <<>> THEN 0 ELSE drafts[Len(drafts)].version

\* The version that save and promote expect: None, not 0, when there is no draft.
Actual == IF drafts = <<>> THEN None ELSE Latest

\* The line of a version; the first one, should there be two.
Selected(v) == {i \in 1..Len(drafts) :
                   drafts[i].version = v /\ \A j \in 1..(i - 1) : drafts[j].version # v}
TextOf(v) == drafts[CHOOSE i \in Selected(v) : TRUE].text

\* A half-written line cannot be decoded, and nothing repairs it.
Readable == ~torn

\* The text has been a draft before.
EverSaved(text) == \E i \in 1..Len(drafts) : drafts[i].text = text

\* The text of the last draft again makes no new one.
Unchanged(text) == drafts # <<>> /\ drafts[Len(drafts)].text = text

\* The text a save or a restore is to append.
NewText(c) == IF c.op = "save" THEN c.text ELSE TextOf(c.version)

\* The version that was expected is not compared.
RaisesIfMissing(c) ==
    \/ ~Readable
    \/ c.op \in {"restore", "publish"} /\ Selected(c.version) = {}

\* What makes save, restore and promote raise.
Raises(c) ==
    \/ ~Readable
    \/ c.op \in {"restore", "publish"} /\ Selected(c.version) = {}
    \/ c.expected # Actual

\* No lock.
DeskAnytime == TRUE

DeskFree == desk = None

\* The lock is taken with the drafts read and checked, and kept until the write.
TakeDesk(who, text) ==
    /\ desk' = who
    /\ writing' = [version |-> Latest + 1, text |-> text, parent |-> Latest]

\* The line is cleared to something else.
LeaveNothing == desk' = None /\ writing' = None

LeaveDesk == desk' = None /\ writing' = NoLine

\* The version an author had seen, 0 for none.
Seen(expected) == IF expected = None THEN 0 ELSE expected

------------------------------------------------------------------------------
(* The commands *)

\* Reading the version fails on a half-written line, and may fail on one that is
\* being written.
ReadVersion(r) ==
    /\ pc[r] = "version"
    /\ \/ Readable /\ CheckVersion(r, Latest)
       \/ Command(r).expected = None /\ CheckVersion(r, Latest)
       \/ (~Readable \/ writing # NoLine) /\ VersionUnavailable(r)
    /\ UNCHANGED deskVars

Handle(r) ==
    /\ pc[r] = "handle"
    /\ DeskFree
    /\ \/ /\ Raises(Command(r))
          /\ HandlerRaises(r)
          /\ UNCHANGED <<desk, writing>>
       \/ /\ ~Raises(Command(r))
          /\ Command(r).op = "publish"
          /\ Goto(r, "publish")
          /\ desk' = r
          /\ UNCHANGED writing
       \/ /\ ~Raises(Command(r))
          /\ Command(r).op # "publish"
          /\ IF Unchanged(NewText(Command(r)))
             THEN HandlerAccepts(r, Latest, "complete") /\ UNCHANGED <<desk, writing>>
             ELSE Goto(r, "append") /\ TakeDesk(r, NewText(Command(r)))
    /\ UNCHANGED <<call, records, read, lock, effects, crashes, drafts, torn, formal, agent>>

AppendDraft(r) ==
    /\ pc[r] = "append"
    /\ drafts' = Append(drafts, writing)
    /\ HandlerAccepts(r, writing.version, "complete")
    /\ Effect(r)
    /\ LeaveDesk
    /\ UNCHANGED <<call, records, read, lock, crashes, torn, formal, agent>>

WriteFormal(r) ==
    /\ pc[r] = "publish"
    /\ formal' = TextOf(Command(r).version)
    /\ HandlerAccepts(r, Command(r).version, "complete")
    /\ Effect(r)
    /\ LeaveDesk
    /\ UNCHANGED <<call, records, read, lock, crashes, drafts, torn, agent>>

------------------------------------------------------------------------------
(* The agent *)

\* The text is generated, and the latest version read without the lock.
AgentReads ==
    /\ agent = AgentIdle
    /\ Readable
    /\ agent' = [step |-> "save", expected |-> Actual]
    /\ UNCHANGED <<boundaryVars, drafts, torn, formal, desk, writing>>

\* The job completes without a new version, or fails.
AgentStops(t) ==
    /\ agent.step = "save"
    /\ DeskFree
    /\ ~Readable \/ agent.expected # Actual \/ Unchanged(t)
    /\ agent' = AgentIdle
    /\ UNCHANGED <<boundaryVars, drafts, torn, formal, desk, writing>>

AgentSaves(t) ==
    /\ agent.step = "save"
    /\ DeskFree
    /\ Readable /\ agent.expected = Actual /\ ~Unchanged(t)
    /\ Len(drafts) < MaxVersion
    /\ agent' = [agent EXCEPT !.step = "append"]
    /\ TakeDesk(Agent, t)
    /\ UNCHANGED <<boundaryVars, drafts, torn, formal>>

AgentAppends ==
    /\ agent.step = "append"
    /\ drafts' = Append(drafts, writing)
    /\ agent' = AgentIdle
    /\ LeaveDesk
    /\ UNCHANGED <<boundaryVars, torn, formal>>

------------------------------------------------------------------------------

\* A write in progress may have reached the disk in part.
Crash ==
    /\ Restart
    /\ torn' \in {torn, torn \/ writing # NoLine}
    /\ formal' \in {formal} \union {"torn" : r \in {q \in Requests : pc[q] = "publish"}}
    /\ LeaveDesk
    /\ agent' = AgentIdle
    /\ UNCHANGED drafts

Step(r) ==
    \/ BoundaryStep(r) /\ UNCHANGED deskVars
    \/ ReadVersion(r) \/ Handle(r) \/ AppendDraft(r) \/ WriteFormal(r)

AgentStep == AgentReads \/ (\E t \in Generated : AgentStops(t) \/ AgentSaves(t)) \/ AgentAppends

Next ==
    \/ \E r \in Requests, k \in Keys, c \in Commands : Arrive(r, k, c) /\ UNCHANGED deskVars
    \/ \E r \in Requests : Step(r)
    \/ AgentStep
    \/ Crash

Spec == Init /\ [][Next]_vars

\* Every thread that can go on does, and flock lets a waiting one in sooner or later.
Fairness ==
    /\ \A r \in Requests : WF_vars(Step(r)) /\ SF_vars(Handle(r))
    /\ WF_vars(AgentAppends)

FairSpec == Spec /\ Fairness

------------------------------------------------------------------------------
(* Safety *)

\* Whatever requests share a key, and whatever dies in between, at most one of
\* them is past the reservation, and the reservation on disk is its own.
OneRunner ==
    \A r \in Requests : Running(r) =>
        /\ records[Key(r)] = [command |-> Command(r), result |-> None]
        /\ \A q \in Requests : Running(q) /\ Key(q) = Key(r) => q = r

\* Requests that repeat a command under its key get the same answer, if they get
\* one that the store remembers.
SameAnswer ==
    \A q, r \in Requests :
        Remembered(q) /\ Remembered(r) /\ call[q] = call[r] => result[q] = result[r]

\* An accepted save or restore is a line of the draft file with the text that was
\* asked for, after any restart, and an accepted publication has a line to show.
AcceptedIsStored ==
    \A r \in Requests : Answered(r) /\ result[r].code = "accepted" =>
        /\ result[r].ref \in 1..Len(drafts)
        /\ Command(r).op # "publish" => drafts[result[r].ref].text = NewText(Command(r))
        /\ Command(r).op = "publish" => result[r].ref = Command(r).version

\* The drafts are one line of versions, each made from the one before it, with
\* the requests and the agent saving at the same time.
LinearHistory ==
    \A i \in 1..Len(drafts) : drafts[i].version = i /\ drafts[i].parent = i - 1

\* A new draft replaces exactly the version that its author had seen: nobody's
\* text is overwritten unread.
SavedOverSeen ==
    [][/\ \A r \in Requests : pc[r] = "append" /\ drafts' # drafts /\ pc'[r] # "append" =>
              Seen(Command(r).expected) = Len(drafts)
       /\ agent.step = "append" /\ drafts' # drafts /\ agent' = AgentIdle =>
              Seen(agent.expected) = Len(drafts)]_vars

\* The results file implements idempotency keys for all the commands.
Idempotent == INSTANCE IdempotentCommands WITH
    Outcomes <- CommandResults,
    owner    <- [k \in Keys |-> records[k].command],
    outcome  <- [k \in Keys |-> records[k].result],
    ran      <- effects

ImplementsIdempotentCommands == Idempotent!Spec

\* A save that another one has overtaken is told so.
OvertakenSaveIsConflict ==
    [][\A r \in Requests :
        /\ pc[r] = "handle" /\ pc'[r] = "done"
        /\ Command(r).op = "save" /\ Readable
        /\ Command(r).expected # None /\ Command(r).expected # Actual
        => result'[r].code = "version_conflict"]_vars

------------------------------------------------------------------------------
(* Liveness *)

\* Every request that arrives is answered, unless the server is restarted: also
\* when a lock file was left behind.
EveryRequestAnswered ==
    \A r \in Requests : pc[r] = "reserve" ~> Answered(r) \/ pc[r] = "dead"
==============================================================================
