--------------------------- MODULE DeviceSession ---------------------------
(***************************************************************************)
(* One session between the Gateway and a Core, with the tool calls and the *)
(* heartbeats that share it: Session, Manager.Call, Manager.Serve and      *)
(* Manager.Monitor of internal/device/manager.go.                          *)
(*                                                                         *)
(* Callers and the monitor register a slot, take sendMu and put a request  *)
(* on the transport; the Core answers in order; the only reader hands each *)
(* answer to the slot with its id.  A caller that gives up leaves its slot *)
(* behind, and while a call's slot exists (activeCalls) the monitor sends  *)
(* no heartbeat.                                                           *)
(*                                                                         *)
(* Request ids are fresh, so a call is its own id.  The one ping that may  *)
(* be pending is "ping"; when its slot is given up, what is still under    *)
(* way for it becomes "stale", an id that no slot has.                     *)
(***************************************************************************)
EXTENDS Integers, FiniteSets, Sequences

CONSTANTS
    Calls,        \* the tool calls made on this session
    Transports,   \* the transports the session may be on: "http", "websocket"
    QueueSize,    \* requests the transport takes before it blocks the sender
    FailLimit,    \* heartbeatFailLimit
    Faults        \* "stop": the Core may stop; "shutdown": Manager.Close

ASSUME SessionAssumption ==
    /\ IsFiniteSet(Calls)
    /\ Transports \subseteq {"http", "websocket"}
    /\ QueueSize \in Nat \ {0}
    /\ FailLimit \in Nat \ {0}
    /\ Faults \subseteq {"stop", "shutdown"}
    /\ Calls \cap {"ping", "stale", "none", "monitor", "nobody"} = {}

VARIABLES
    transport,    \* Session.transport: on HTTP a Core that stops just stops polling
    bound,        \* the registry resolves the device to this session
    closing,      \* Detach: unbound, then done closed, then slots dropped
    core,         \* the Core process
    executing,    \* the request the Core works on
    outbound,     \* requests the transport has taken
    inbound,      \* answers the reader has not taken
    reader,       \* Manager.Serve
    pending,      \* keys of Session.pending
    activeCalls,  \* Session.activeCalls
    sendMu,       \* who holds Session.sendMu
    caller,       \* caller[c]: where the Call of c is
    answer,       \* answer[c]: what arrived on the channel of c's slot
    monitor,      \* Manager.Monitor
    failures,     \* its count of missed heartbeats
    pong          \* the ping's channel has its answer

slots == <<pending, activeCalls>>
peer == <<transport, core, executing>>
calls == <<caller, answer>>
heartbeat == <<monitor, failures, pong>>
vars == <<bound, closing, peer, outbound, inbound, reader, slots, sendMu, calls, heartbeat>>

Requests == Calls \cup {"ping"}
InFlight == Requests \cup {"stale"}

\* A call that has not returned yet, and one that has.
Running == {"resolved", "registered", "counted", "sending", "waiting"}
Returned == {"answered", "gone", "failed"}

Closed == closing \in {"done", "reset"}

TypeOK ==
    /\ transport \in Transports
    /\ bound \in BOOLEAN
    /\ closing \in {"open", "unbound", "done", "reset"}
    /\ core \in {"up", "down"}
    /\ executing \in InFlight \cup {"none"}
    /\ outbound \in Seq(InFlight) /\ Len(outbound) <= QueueSize
    /\ inbound \in Seq(InFlight)
    /\ reader \in {"reading", "broken"}
    /\ pending \subseteq Requests
    /\ activeCalls \in Int
    /\ sendMu \in Calls \cup {"monitor", "nobody"}
    /\ caller \in [Calls -> {"idle"} \cup Running \cup Returned]
    /\ answer \in [Calls -> Calls \cup {"none"}]
    /\ monitor \in {"tick", "register", "lock", "send", "wait", "detach", "over"}
    /\ failures \in 0..FailLimit
    /\ pong \in BOOLEAN

Init ==
    /\ transport \in Transports
    /\ bound = TRUE /\ closing = "open"
    /\ core = "up" /\ executing = "none"
    /\ outbound = <<>> /\ inbound = <<>>
    /\ reader = "reading"
    /\ pending = {} /\ activeCalls = 0
    /\ sendMu = "nobody"
    /\ caller = [c \in Calls |-> "idle"]
    /\ answer = [c \in Calls |-> "none"]
    /\ monitor = "tick" /\ failures = 0 /\ pong = FALSE

----------------------------------------------------------------------------
(* Slots and the transport. *)

\* Variant of DropSlot that forgets the counter.
DropSlotUncounted(id) == pending' = pending \ {id} /\ UNCHANGED activeCalls

\* unregisterPending and the first half of takePending: the slot goes, and with
\* the slot of a call its part of activeCalls.  No slot, no effect.
DropSlot(id) ==
    /\ pending' = pending \ {id}
    /\ activeCalls' = IF id \in pending /\ id \in Calls THEN activeCalls - 1 ELSE activeCalls

Lock(who) == sendMu = "nobody" /\ sendMu' = who
Unlock == sendMu' = "nobody"

\* The transport takes the request, also one whose sender looked at done before
\* the session was closed; with its queue full the sender is stuck, holding
\* sendMu, and looks at nothing but the end of the session.
Put(id) ==
    /\ Len(outbound) < QueueSize
    /\ outbound' = Append(outbound, id)

\* Variant of PutFails: a sender stuck on a full queue does not notice the close.
PutFailsUnlessFull ==
    /\ \/ Closed /\ Len(outbound) < QueueSize
       \/ transport = "websocket" /\ core = "down"
    /\ UNCHANGED outbound

PutFails ==
    /\ Closed \/ (transport = "websocket" /\ core = "down")
    /\ UNCHANGED outbound

----------------------------------------------------------------------------
(* Manager.Call and Session.call. *)

\* resolve finds the session.
Resolve(c) ==
    /\ caller[c] = "idle"
    /\ bound
    /\ caller' = [caller EXCEPT ![c] = "resolved"]
    /\ UNCHANGED <<bound, closing, peer, outbound, inbound, reader, slots, sendMu, answer, heartbeat>>

\* registerPending refuses a session that is done, but it looks before it takes
\* pendingMu: the session may be closed in between.
Register(c) ==
    /\ caller[c] = "resolved"
    /\ \/ Closed /\ caller' = [caller EXCEPT ![c] = "failed"] /\ UNCHANGED pending
       \/ caller' = [caller EXCEPT ![c] = "registered"] /\ pending' = pending \cup {c}
    /\ UNCHANGED <<bound, closing, peer, outbound, inbound, reader, activeCalls, sendMu, answer,
                   heartbeat>>

Count(c) ==
    /\ caller[c] = "registered"
    /\ activeCalls' = activeCalls + 1
    /\ caller' = [caller EXCEPT ![c] = "counted"]
    /\ UNCHANGED <<bound, closing, peer, outbound, inbound, reader, pending, sendMu, answer,
                   heartbeat>>

LockCall(c) ==
    /\ caller[c] = "counted"
    /\ Lock(c)
    /\ caller' = [caller EXCEPT ![c] = "sending"]
    /\ UNCHANGED <<bound, closing, peer, outbound, inbound, reader, slots, answer, heartbeat>>

SendCall(c) ==
    /\ caller[c] = "sending"
    /\ Unlock
    /\ \/ Put(c) /\ caller' = [caller EXCEPT ![c] = "waiting"] /\ UNCHANGED slots
       \/ PutFails /\ caller' = [caller EXCEPT ![c] = "failed"] /\ DropSlot(c)
    /\ UNCHANGED <<bound, closing, peer, inbound, reader, answer, heartbeat>>

\* The select at the end of Session.call.  A caller whose request was cancelled
\* leaves its slot to the answer that may still come.
Finish(c) ==
    /\ caller[c] = "waiting"
    /\ \/ answer[c] # "none" /\ caller' = [caller EXCEPT ![c] = "answered"]
       \/ Closed /\ caller' = [caller EXCEPT ![c] = "failed"]
    /\ UNCHANGED <<bound, closing, peer, outbound, inbound, reader, slots, sendMu, answer, heartbeat>>

CancelCall(c) ==
    /\ caller[c] = "waiting"
    /\ caller' = [caller EXCEPT ![c] = "gone"]
    /\ UNCHANGED <<bound, closing, peer, outbound, inbound, reader, slots, sendMu, answer, heartbeat>>

----------------------------------------------------------------------------
(* The Core: one request at a time, in order. *)

CoreTakes ==
    /\ core = "up" /\ executing = "none"
    /\ outbound # <<>>
    /\ executing' = Head(outbound)
    /\ outbound' = Tail(outbound)
    /\ UNCHANGED <<bound, closing, transport, core, inbound, reader, slots, sendMu, calls, heartbeat>>

CoreAnswers ==
    /\ core = "up" /\ executing # "none"
    /\ inbound' = Append(inbound, executing)
    /\ executing' = "none"
    /\ UNCHANGED <<bound, closing, transport, core, outbound, reader, slots, sendMu, calls, heartbeat>>

CoreStops ==
    /\ "stop" \in Faults
    /\ core = "up"
    /\ core' = "down" /\ executing' = "none"
    /\ UNCHANGED <<bound, closing, transport, outbound, inbound, reader, slots, sendMu, calls, heartbeat>>

----------------------------------------------------------------------------
(* Manager.Serve. *)

\* Variant of Deliver that hands the answer to whichever slot there is.
DeliverToAny(id) ==
    \E any \in IF pending = {} THEN {id} ELSE pending :
        /\ DropSlot(any)
        /\ answer' = IF any \in pending \cap Calls /\ id \in Calls
                     THEN [answer EXCEPT ![any] = id] ELSE answer
        /\ pong' = (pong \/ any = "ping")

\* Variant of Deliver that keeps the slot of a caller that is gone.
DeliverToWaiting(id) ==
    /\ IF id \in Calls /\ caller[id] = "gone" THEN UNCHANGED slots ELSE DropSlot(id)
    /\ answer' = IF id \in pending \cap Calls THEN [answer EXCEPT ![id] = id] ELSE answer
    /\ pong' = (pong \/ (id = "ping" /\ id \in pending))

\* takePending and the send to the slot's channel; an answer without a slot is
\* dropped.
Deliver(id) ==
    /\ DropSlot(id)
    /\ answer' = IF id \in pending \cap Calls THEN [answer EXCEPT ![id] = id] ELSE answer
    /\ pong' = (pong \/ (id = "ping" /\ id \in pending))

Read ==
    /\ reader = "reading"
    /\ inbound # <<>>
    /\ Deliver(Head(inbound))
    /\ inbound' = Tail(inbound)
    /\ UNCHANGED <<bound, closing, peer, outbound, reader, sendMu, caller, monitor, failures>>

\* Variant of ReadFails: a reader that does not notice a stopped Core.
ReadFailsWhenClosed ==
    /\ reader = "reading"
    /\ Closed
    /\ reader' = "broken"
    /\ UNCHANGED <<bound, closing, peer, outbound, inbound, slots, sendMu, calls, heartbeat>>

\* ReceiveFrame fails: the session is closed, or a WebSocket peer is gone.  A
\* Core that polls over HTTP just stops polling.
ReadFails ==
    /\ reader = "reading"
    /\ Closed \/ (transport = "websocket" /\ core = "down" /\ inbound = <<>>)
    /\ reader' = "broken"
    /\ UNCHANGED <<bound, closing, peer, outbound, inbound, slots, sendMu, calls, heartbeat>>

----------------------------------------------------------------------------
(* Manager.Detach, once for the session: by Serve, by the monitor, by a call  *)
(* that met a closed transport, or by Manager.Close.                          *)

Detachable ==
    \/ reader = "broken" \/ monitor = "detach" \/ "shutdown" \in Faults
    \/ \E c \in Calls : caller[c] = "failed"

Unbind ==
    /\ closing = "open"
    /\ Detachable
    /\ bound' = FALSE /\ closing' = "unbound"
    /\ UNCHANGED <<peer, outbound, inbound, reader, slots, sendMu, calls, heartbeat>>

\* Session.close: done and the transport first ...
CloseTransport ==
    /\ closing = "unbound"
    /\ closing' = "done"
    /\ UNCHANGED <<bound, peer, outbound, inbound, reader, slots, sendMu, calls, heartbeat>>

\* ... then the slots, while calls may still be registering theirs.
DropSlots ==
    /\ closing = "done"
    /\ closing' = "reset"
    /\ pending' = {} /\ activeCalls' = 0
    /\ UNCHANGED <<bound, peer, outbound, inbound, reader, sendMu, calls, heartbeat>>

----------------------------------------------------------------------------
(* Manager.Monitor. *)

MonitorGoes(to) == monitor' = to

\* What is under way for a ping that was given up answers no slot any more.
Stale(queue) == [i \in DOMAIN queue |-> IF queue[i] = "ping" THEN "stale" ELSE queue[i]]

Abandoned ==
    /\ outbound' = Stale(outbound) /\ inbound' = Stale(inbound)
    /\ executing' = IF executing = "ping" THEN "stale" ELSE executing

\* Ten seconds pass or the session is done; with both, either is taken.
Tick ==
    /\ monitor = "tick"
    /\ \/ Closed /\ MonitorGoes("over") /\ UNCHANGED failures
       \/ activeCalls > 0 /\ failures' = 0 /\ UNCHANGED monitor
       \/ activeCalls <= 0 /\ ~bound /\ MonitorGoes("detach") /\ UNCHANGED failures
       \/ activeCalls <= 0 /\ bound /\ MonitorGoes("register") /\ UNCHANGED failures
    /\ UNCHANGED <<bound, closing, peer, outbound, inbound, reader, slots, sendMu, calls, pong>>

RegisterPing ==
    /\ monitor = "register"
    /\ \/ Closed /\ MonitorGoes("detach") /\ UNCHANGED <<pending, pong>>
       \/ MonitorGoes("lock") /\ pending' = pending \cup {"ping"} /\ pong' = FALSE
    /\ UNCHANGED <<bound, closing, peer, outbound, inbound, reader, activeCalls, sendMu, calls,
                   failures>>

LockPing ==
    /\ monitor = "lock"
    /\ Lock("monitor")
    /\ MonitorGoes("send")
    /\ UNCHANGED <<bound, closing, peer, outbound, inbound, reader, slots, calls, failures, pong>>

SendPing ==
    /\ monitor = "send"
    /\ Unlock
    /\ \/ Put("ping") /\ MonitorGoes("wait") /\ UNCHANGED slots
       \/ PutFails /\ MonitorGoes("detach") /\ DropSlot("ping")
    /\ UNCHANGED <<bound, closing, peer, inbound, reader, calls, failures, pong>>

PongArrives ==
    /\ monitor = "wait"
    /\ pong
    /\ MonitorGoes("tick") /\ failures' = 0
    /\ UNCHANGED <<bound, closing, peer, outbound, inbound, reader, slots, sendMu, calls, pong>>

\* Variant of PingTimesOut that detaches one heartbeat too late.
PingTimesOutLate ==
    /\ monitor = "wait"
    /\ DropSlot("ping")
    /\ Abandoned
    /\ failures' = failures + 1
    /\ MonitorGoes(IF failures + 1 > FailLimit THEN "detach" ELSE "tick")
    /\ UNCHANGED <<bound, closing, transport, core, reader, sendMu, calls, pong>>

PingTimesOut ==
    /\ monitor = "wait"
    /\ DropSlot("ping")
    /\ Abandoned
    /\ failures' = failures + 1
    /\ MonitorGoes(IF failures + 1 >= FailLimit THEN "detach" ELSE "tick")
    /\ UNCHANGED <<bound, closing, transport, core, reader, sendMu, calls, pong>>

PingCutOff ==
    /\ monitor = "wait"
    /\ Closed
    /\ DropSlot("ping")
    /\ Abandoned
    /\ MonitorGoes("detach")
    /\ UNCHANGED <<bound, closing, transport, core, reader, sendMu, calls, failures, pong>>

----------------------------------------------------------------------------
CallStep(c) == Register(c) \/ Count(c) \/ LockCall(c) \/ SendCall(c) \/ Finish(c)
CoreStep == CoreTakes \/ CoreAnswers
ReaderStep == Read \/ ReadFails
DetachStep == Unbind \/ CloseTransport \/ DropSlots
MonitorStep ==
    Tick \/ RegisterPing \/ LockPing \/ SendPing \/ PongArrives \/ PingTimesOut \/ PingCutOff

Next ==
    \/ \E c \in Calls : Resolve(c) \/ CallStep(c) \/ CancelCall(c)
    \/ CoreStep \/ CoreStops
    \/ ReaderStep \/ DetachStep \/ MonitorStep

Spec == Init /\ [][Next]_vars

\* Every goroutine that can go on does, also one that competes for sendMu, and a
\* Core that runs answers.  Callers need not give up, and the Core need not stop.
Fairness ==
    /\ \A c \in Calls : WF_vars(CallStep(c)) /\ SF_vars(LockCall(c))
    /\ WF_vars(CoreStep) /\ WF_vars(ReaderStep) /\ WF_vars(MonitorStep) /\ SF_vars(LockPing)
    /\ WF_vars(reader = "broken" /\ Unbind)
    /\ WF_vars(monitor = "detach" /\ Unbind)
    /\ WF_vars((\E c \in Calls : caller[c] = "failed") /\ Unbind)
    /\ WF_vars(CloseTransport) /\ WF_vars(DropSlots)

LiveSpec == Spec /\ Fairness

----------------------------------------------------------------------------
(* Properties. *)

\* As long as the session's slots stand, activeCalls counts the slots of calls,
\* except those whose call has not been counted yet; it is what the monitor
\* trusts before it sends a heartbeat (call, takePending, unregisterPending).
CountMatches ==
    closing # "reset" =>
        activeCalls = Cardinality(pending \cap Calls)
                        - Cardinality({c \in Calls : caller[c] = "registered"})

\* After the slots were dropped under registering calls the counter may keep a
\* remainder, but it never goes below zero.
CountNeverNegative == activeCalls >= 0

\* A call still waiting has its slot, or its answer has arrived, or the session
\* is closed: no answer can be lost between the reader and the caller.
WaitersAreAnswerable ==
    \A c \in Calls : caller[c] = "waiting" => c \in pending \/ answer[c] = c \/ Closed

\* Whatever happens to the session while a call runs on it, also while it is
\* stuck in a send, the call returns once the session is being closed.
CallersReturn ==
    \A c \in Calls : (caller[c] \in Running /\ closing # "open") ~> caller[c] \in Returned

\* "Stopping a Core closes its active transport session and removes the device
\* from the live registry." (README.md:137)
StoppedCoreIsRemoved == (core = "down") ~> ~bound

\* The same for a Core on a WebSocket, whose reader notices (readLoop, Serve):
\* neither calls that were given up nor a blocked sender keep it registered.
StoppedWebSocketIsRemoved == (core = "down" /\ transport = "websocket") ~> ~bound

\* A call that was given up leaves its slot, and with it the heartbeat off, only
\* until the Core has answered or the session is closed (the comment in
\* Session.call, manager.go:434), except for an HTTP Core that stopped.
AbandonedSlotsAreFreed ==
    \A c \in Calls : (caller[c] = "gone" /\ c \in pending) ~>
        (c \notin pending \/ closing = "reset" \/ (transport = "http" /\ core = "down"))
============================================================================
