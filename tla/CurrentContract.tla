--------------------------- MODULE CurrentContract ---------------------------
(***************************************************************************)
(* What the contract lifecycle of one chapter promises to its readers,     *)
(* whatever happens on disk: there is at most one current contract, it is  *)
(* one that people approved, it is replaced only by its successor, and the *)
(* text of a version that has ever been current never changes.             *)
(***************************************************************************)
EXTENDS Naturals

CONSTANTS MaxVersion,  \* bound on the versions of one contract
          Decisions,   \* the possible texts (content hashes) of a version
          None         \* no text

VARIABLES current,     \* the version readers see, 0 before the first one
          history,     \* history[v]: the text of v once v has been current
          approved     \* the <<version, text>> pairs that people approved

vars == <<current, history, approved>>

Versions == 1..MaxVersion

Init ==
    /\ current = 0
    /\ history = [v \in Versions |-> None]
    /\ approved = {}

\* People approve a text for a version.
Approve ==
    /\ \E v \in Versions, d \in Decisions : approved' = approved \union {<<v, d>>}
    /\ UNCHANGED <<current, history>>

\* The next version becomes the current one, with an approved text.
Publish ==
    /\ current + 1 \in Versions
    /\ current' = current + 1
    /\ \E d \in Decisions :
          /\ <<current', d>> \in approved
          /\ history' = [history EXCEPT ![current'] = d]
    /\ UNCHANGED approved

Next == Approve \/ Publish

Spec == Init /\ [][Next]_vars
==============================================================================
