---------------------------- MODULE OrderedLink ----------------------------
(***************************************************************************)
(* What a transport promises to the senders of a session: messages are     *)
(* sent one at a time, each sender is told once, the peer receives in the  *)
(* order of the sends, none twice and perhaps not all, and a chunk is      *)
(* reported delivered only when the peer has fetched its bytes.            *)
(***************************************************************************)
EXTENDS Integers, Sequences, SequencesExt

CONSTANTS
    MaxSent,
    Chunks

VARIABLES
    begun,     \* the message sent last
    told,      \* told[n]: what the sender of n was told
    got,       \* the messages the peer has received
    have       \* the chunks whose bytes it has

linkVars == <<begun, told, got, have>>

Init ==
    /\ begun = 0
    /\ told = [n \in 1..MaxSent |-> "none"]
    /\ got = <<>> /\ have = {}

Begin ==
    /\ begun < MaxSent
    /\ begun = 0 \/ told[begun] # "none"
    /\ begun' = begun + 1
    /\ UNCHANGED <<told, got, have>>

Arrive(n) ==
    /\ n \in 1..begun
    /\ \A i \in DOMAIN got : got[i] < n
    /\ got' = Append(got, n)
    /\ UNCHANGED <<begun, told, have>>

Fetch(n) ==
    /\ n \in Chunks \cap ToSet(got)
    /\ have' = have \cup {n}
    /\ UNCHANGED <<begun, told, got>>

Tell(verdict) ==
    /\ begun # 0 /\ told[begun] = "none"
    /\ verdict = "ok" /\ begun \in Chunks => begun \in have
    /\ told' = [told EXCEPT ![begun] = verdict]
    /\ UNCHANGED <<begun, got, have>>

Next ==
    \/ Begin
    \/ \E n \in 1..MaxSent : Arrive(n) \/ Fetch(n)
    \/ \E verdict \in {"ok", "error"} : Tell(verdict)

Spec == Init /\ [][Next]_linkVars
============================================================================
