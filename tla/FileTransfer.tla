---------------------------- MODULE FileTransfer ----------------------------
(***************************************************************************)
(* What the Gateway promises about file transfers, without sessions,       *)
(* messages, locks or goroutines: a transfer reserves two devices, moves   *)
(* at most the declared number of bytes, is verified only when it moved    *)
(* them all, and ends exactly once, releasing both devices.  It is the     *)
(* contract of StartTransfer, TransferStatus and CancelTransfer, as the    *)
(* MCP tools see it.                                                       *)
(***************************************************************************)
EXTENDS Naturals

CONSTANTS Devices, Transfers, NoTransfer

VARIABLES
    phase,      \* phase[t]: the status a client reads
    holder,     \* holder[d]: the transfer device d takes part in
    size,       \* size[t]: what the source declared
    moved       \* moved[t]: bytes handed to the target

vars == <<phase, holder, size, moved>>

Underway == {"preparing", "transferring", "verifying"}

Init ==
    /\ phase = [t \in Transfers |-> "none"]
    /\ holder = [d \in Devices |-> NoTransfer]
    /\ size = [t \in Transfers |-> 0]
    /\ moved = [t \in Transfers |-> 0]

\* Two free devices are reserved together.
Start(t) ==
    /\ phase[t] = "none"
    /\ \E from, to \in Devices :
        /\ from # to
        /\ holder[from] = NoTransfer /\ holder[to] = NoTransfer
        /\ holder' = [holder EXCEPT ![from] = t, ![to] = t]
    /\ phase' = [phase EXCEPT ![t] = "preparing"]
    /\ UNCHANGED <<size, moved>>

\* Both devices are ready, and the size is known from now on.
Begin(t) ==
    /\ phase[t] = "preparing"
    /\ phase' = [phase EXCEPT ![t] = "transferring"]
    /\ size'[t] \in Nat
    /\ size' = [size EXCEPT ![t] = size'[t]]
    /\ UNCHANGED <<holder, moved>>

Move(t) ==
    /\ phase[t] = "transferring"
    /\ \E n \in 1..(size[t] - moved[t]) : moved' = [moved EXCEPT ![t] = @ + n]
    /\ UNCHANGED <<phase, holder, size>>

Verify(t) ==
    /\ phase[t] = "transferring"
    /\ moved[t] = size[t]
    /\ phase' = [phase EXCEPT ![t] = "verifying"]
    /\ UNCHANGED <<holder, size, moved>>

\* The transfer leaves both devices free, in one step with its last state.
End(t, last) ==
    /\ phase' = [phase EXCEPT ![t] = last]
    /\ holder' = [d \in Devices |-> IF holder[d] = t THEN NoTransfer ELSE holder[d]]
    /\ UNCHANGED <<size, moved>>

Complete(t) == phase[t] = "verifying" /\ End(t, "completed")

Abort(t) == phase[t] \in Underway /\ \E last \in {"failed", "cancelled"} : End(t, last)

Next ==
    \E t \in Transfers :
        Start(t) \/ Begin(t) \/ Move(t) \/ Verify(t) \/ Complete(t) \/ Abort(t)

Spec == Init /\ [][Next]_vars
=============================================================================
