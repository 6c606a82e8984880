-------------------------- MODULE IdempotentCommands --------------------------
(***************************************************************************)
(* What a store of idempotency keys promises: a key belongs to one         *)
(* command, the command writes at most once while it owns the key, and the *)
(* outcome of a key is final.                                              *)
(***************************************************************************)
EXTENDS Naturals

CONSTANTS Keys, Commands, Outcomes, None

VARIABLES owner,     \* the command of each key
          outcome,   \* the outcome stored for it
          ran        \* how many times it wrote

vars == <<owner, outcome, ran>>

Init ==
    /\ owner = [k \in Keys |-> None]
    /\ outcome = [k \in Keys |-> None]
    /\ ran = [k \in Keys |-> 0]

\* A command takes a key that nobody has.
Claim(k, c) ==
    /\ owner[k] = None
    /\ owner' = [owner EXCEPT ![k] = c]
    /\ UNCHANGED <<outcome, ran>>

\* It gives the key back before it wrote anything.
Free(k) ==
    /\ owner[k] # None /\ outcome[k] = None /\ ran[k] = 0
    /\ owner' = [owner EXCEPT ![k] = None]
    /\ UNCHANGED <<outcome, ran>>

\* It writes, once.
Run(k) ==
    /\ owner[k] # None /\ outcome[k] = None /\ ran[k] = 0
    /\ ran' = [ran EXCEPT ![k] = 1]
    /\ UNCHANGED <<owner, outcome>>

Settle(k) ==
    /\ owner[k] # None /\ outcome[k] = None
    /\ outcome'[k] \in Outcomes
    /\ outcome' = [outcome EXCEPT ![k] = outcome'[k]]
    /\ UNCHANGED <<owner, ran>>

Next ==
    \E k \in Keys :
        \/ \E c \in Commands : Claim(k, c)
        \/ Free(k)
        \/ Run(k)
        \/ Settle(k)

Spec == Init /\ [][Next]_vars
==============================================================================
