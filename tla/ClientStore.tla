---------------------------- MODULE ClientStore ----------------------------
(***************************************************************************)
(* What the OAuth clients file promises to those who register: a client    *)
(* that is told of its registration has been stored, one that is told of a *)
(* failure never will be, there is never more than the Gateway can load,   *)
(* and only what has not settled on the disk can ever be lost.             *)
(***************************************************************************)
EXTENDS Integers, FiniteSets

CONSTANTS
    Clients,
    Capacity

VARIABLES
    known,     \* clients the next start will load
    settled,   \* clients no power failure can take away
    told,      \* clients that were told of their registration
    denied     \* clients that were told that it failed

storeVars == <<known, settled, told, denied>>

Init == known = {} /\ settled = {} /\ told = {} /\ denied = {}

Unheard(c) == c \notin known \cup told \cup denied

Admit(c) ==
    /\ Unheard(c)
    /\ Cardinality(known) < Capacity
    /\ known' = known \cup {c}
    /\ UNCHANGED <<settled, told, denied>>

Confirm(c) ==
    /\ c \in known
    /\ told' = told \cup {c}
    /\ UNCHANGED <<known, settled, denied>>

Deny(c) ==
    /\ Unheard(c)
    /\ denied' = denied \cup {c}
    /\ UNCHANGED <<known, settled, told>>

Settle ==
    /\ settled' = known
    /\ UNCHANGED <<known, told, denied>>

\* What has not settled may be lost, and what is left has settled.
Lose ==
    /\ settled \subseteq known' /\ known' \subseteq known
    /\ settled' = known'
    /\ UNCHANGED <<told, denied>>

Next == (\E c \in Clients : Admit(c) \/ Confirm(c) \/ Deny(c)) \/ Settle \/ Lose

Spec == Init /\ [][Next]_storeVars
============================================================================
