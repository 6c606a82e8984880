---------------------------- MODULE PublicationLog ----------------------------
(***************************************************************************)
(* What the stores of a publication migration promise together: for each   *)
(* store a log that is only ever appended to and where a key is given one  *)
(* meaning, and one active edition, which is a manifest of the log that    *)
(* was verified.                                                           *)
(***************************************************************************)
EXTENDS Sequences, SequencesExt

CONSTANTS Stores,          \* the stores, each with a log of its own
          Entries,         \* what may be appended
          StoreOf(_),      \* the store an entry belongs to
          Key(_),          \* the logical key of an entry
          Admits(_, _),    \* a log accepts an entry
          Verified,        \* the manifests that may become active
          EntryOf(_),      \* the entry that records a manifest
          None             \* no edition is active

VARIABLES log, active

Init ==
    /\ log = [s \in Stores |-> <<>>]
    /\ active = None

\* A key is used once, and the log so far admits the entry.
AppendEntry(e) ==
    LET s == StoreOf(e) IN
    /\ \A i \in DOMAIN log[s] : Key(log[s][i]) # Key(e)
    /\ Admits(e, log[s])
    /\ log' = [log EXCEPT ![s] = Append(@, e)]
    /\ UNCHANGED active

Activate(m) ==
    /\ m \in Verified
    /\ EntryOf(m) \in Range(log[StoreOf(EntryOf(m))])
    /\ active' = m
    /\ UNCHANGED log

Next ==
    \/ \E e \in Entries : AppendEntry(e)
    \/ \E m \in Verified : Activate(m)

Spec == Init /\ [][Next]_<<log, active>>
==============================================================================
