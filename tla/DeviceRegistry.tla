--------------------------- MODULE DeviceRegistry ---------------------------
(***************************************************************************)
(* The registry of devices and what binds and unbinds them: the handshakes  *)
(* of both transports, Manager.Attach, Detach and Close, and the tool calls *)
(* that are routed by it (Manager.Call under registerDeviceTool).           *)
(*                                                                         *)
(* A session is one hello of a Core and what the Gateway makes of it.  The  *)
(* hello and its reply may get lost, a Core says hello again, and two Cores *)
(* may give the same name.  Whatever happens on one session in detail (its  *)
(* slots, heartbeats, queues) is DeviceSession's; here a heartbeat fails or *)
(* a send does.                                                             *)
(***************************************************************************)
EXTENDS FiniteSets

CONSTANTS
    Names,        \* names of devices
    Sessions,     \* hellos made during the run
    NameOf,       \* NameOf[s]: the name given with it
    HTTP,         \* those made over HTTP; the others came over WebSocket
    Callers,      \* clients, which make one tool call after another
    NoSession, AnyDevice

ASSUME RegistryAssumption ==
    /\ NameOf \in [Sessions -> Names]
    /\ HTTP \subseteq Sessions
    /\ NoSession \notin Sessions
    /\ AnyDevice \notin Names

VARIABLES
    bound,     \* devices[name].session
    peer,      \* peer[s]: what the Core makes of its hello
    gate,      \* gate[s]: how far the Gateway's handler is with it
    stage,     \* stage[s]: Detach of the session, Session.close
    listed,    \* httpHandler.sessions
    shut,      \* Manager.Close has been called
    at,        \* at[c]: where the call of c is, or the error it ended with
    asked,     \* the device it names
    route,     \* the session it was routed to
    abandoned, \* sessions with slots of calls that were cancelled
    truths     \* history: routing errors that were true while the call ran

sessions == <<peer, gate, stage, listed>>
registry == <<bound, shut>>
calls == <<at, asked, route, abandoned>>
system == <<registry, sessions, calls>>
vars == <<system, truths>>

RoutingErrors == {"NoDeviceConnected", "DeviceRequired", "DeviceNotFound"}
UnderWay == {"routed", "waiting", "broken"}

TypeOK ==
    /\ bound \in [Names -> Sessions \cup {NoSession}]
    /\ peer \in [Sessions -> {"idle", "hello", "online", "quit"}]
    /\ gate \in [Sessions -> {"none", "hello", "refused", "attached", "serving", "failed"}]
    /\ stage \in [Sessions -> {"open", "unbound", "closed"}]
    /\ listed \subseteq HTTP
    /\ shut \in BOOLEAN
    /\ at \in [Callers -> {"idle"} \cup UnderWay \cup RoutingErrors]
    /\ asked \in [Callers -> Names \cup {AnyDevice}]
    /\ route \in [Callers -> Sessions \cup {NoSession}]
    /\ \A c \in Callers : at[c] \in UnderWay => route[c] # NoSession
    /\ abandoned \subseteq Sessions
    /\ truths \in [Callers -> SUBSET RoutingErrors]

Init ==
    /\ bound = [n \in Names |-> NoSession]
    /\ peer = [s \in Sessions |-> "idle"]
    /\ gate = [s \in Sessions |-> "none"]
    /\ stage = [s \in Sessions |-> "open"]
    /\ listed = {} /\ shut = FALSE
    /\ at = [c \in Callers |-> "idle"]
    /\ asked = [c \in Callers |-> AnyDevice]
    /\ route = [c \in Callers |-> NoSession]
    /\ abandoned = {}
    /\ truths = [c \in Callers |-> {}]

Online == {n \in Names : bound[n] # NoSession}

----------------------------------------------------------------------------
(* The Core. *)

\* A hello that is malformed (its protocol, or a field of its info) is refused
\* without a look at the registry.
Hello(s) ==
    /\ peer[s] = "idle"
    /\ \/ gate' = [gate EXCEPT ![s] = "hello"] /\ peer' = [peer EXCEPT ![s] = "hello"]
       \/ gate' = [gate EXCEPT ![s] = "refused"] /\ peer' = [peer EXCEPT ![s] = "quit"]
    /\ UNCHANGED <<registry, stage, listed, calls>>

\* The reply arrives, with the session id of an HTTP Core.
Accepted(s) ==
    /\ peer[s] = "hello" /\ gate[s] = "serving"
    /\ peer' = [peer EXCEPT ![s] = "online"]
    /\ UNCHANGED <<registry, gate, stage, listed, calls>>

\* The reply does not arrive, the connection is lost, or the Core stops.
Quit(s) ==
    /\ peer[s] \in {"hello", "online"}
    /\ peer' = [peer EXCEPT ![s] = "quit"]
    /\ UNCHANGED <<registry, gate, stage, listed, calls>>

----------------------------------------------------------------------------
(* The handlers of the two transports. *)

\* Manager.Attach; a name with a live session is refused, whose ever it is.
Attach(s) ==
    /\ gate[s] = "hello"
    /\ IF bound[NameOf[s]] = NoSession
       THEN /\ bound' = [bound EXCEPT ![NameOf[s]] = s]
            /\ gate' = [gate EXCEPT ![s] = "attached"]
            /\ UNCHANGED peer
       ELSE /\ gate' = [gate EXCEPT ![s] = "refused"]
            /\ peer' = [peer EXCEPT ![s] = "quit"]
            /\ UNCHANGED bound
    /\ UNCHANGED <<shut, stage, listed, calls>>

\* handleHello over HTTP: onClose is set, the session listed, Monitor and Serve
\* started, and the reply written without a look at whether it can be.
Publish(s) ==
    /\ s \in HTTP /\ gate[s] = "attached"
    /\ gate' = [gate EXCEPT ![s] = "serving"]
    /\ listed' = listed \cup {s}
    /\ UNCHANGED <<registry, peer, stage, calls>>

\* Variant of Acknowledge that lists the session like one over HTTP.
AcknowledgeLists(s) ==
    /\ s \notin HTTP /\ gate[s] = "attached"
    /\ stage[s] # "closed"
    /\ gate' = [gate EXCEPT ![s] = "serving"]
    /\ listed' = listed \cup {s}
    /\ UNCHANGED <<registry, peer, stage, calls>>

\* Over WebSocket Monitor and Serve start once hello_ack has been sent.
Acknowledge(s) ==
    /\ s \notin HTTP /\ gate[s] = "attached"
    /\ stage[s] # "closed"
    /\ gate' = [gate EXCEPT ![s] = "serving"]
    /\ UNCHANGED <<registry, peer, stage, listed, calls>>

\* Variant of AcknowledgeFails that returns without Detach.
AcknowledgeGivesUp(s) ==
    /\ s \notin HTTP /\ gate[s] = "attached"
    /\ peer[s] = "quit" \/ stage[s] = "closed"
    /\ gate' = [gate EXCEPT ![s] = "refused"]
    /\ UNCHANGED <<registry, peer, stage, listed, calls>>

\* hello_ack does not get out, and the handler goes on to Detach.
AcknowledgeFails(s) ==
    /\ s \notin HTTP /\ gate[s] = "attached"
    /\ peer[s] = "quit" \/ stage[s] = "closed"
    /\ gate' = [gate EXCEPT ![s] = "failed"]
    /\ UNCHANGED <<registry, peer, stage, listed, calls>>

----------------------------------------------------------------------------
(* Manager.Detach and Manager.Close.  Several of the threads below may detach *)
(* one session, the last of them when its name is bound again.               *)

\* Monitor after missed pings, also of a Core that was only slow or got a call, or
\* when its ping meets the end of the session.
ByMonitor(s) == gate[s] = "serving"

\* Serve, whose ReceiveFrame fails when the session is closed or its WebSocket is.
ByServe(s) ==
    /\ gate[s] = "serving"
    /\ stage[s] = "closed" \/ (s \notin HTTP /\ peer[s] = "quit")

ByHandler(s) == gate[s] = "failed"

ByCaller(s) == \E c \in Callers : at[c] = "broken" /\ route[c] = s

\* Variant of Detach that unbinds the name, whatever session it has by now.
DetachName(s) ==
    /\ ByMonitor(s) \/ ByServe(s) \/ ByHandler(s) \/ ByCaller(s)
    /\ bound' = [bound EXCEPT ![NameOf[s]] = NoSession]
    /\ stage' = [stage EXCEPT ![s] = IF @ = "open" THEN "unbound" ELSE @]
    /\ UNCHANGED <<shut, peer, gate, listed, calls>>

Detach(s) ==
    /\ ByMonitor(s) \/ ByServe(s) \/ ByHandler(s) \/ ByCaller(s)
    /\ bound' = [bound EXCEPT ![NameOf[s]] = IF @ = s THEN NoSession ELSE @]
    /\ stage' = [stage EXCEPT ![s] = IF @ = "open" THEN "unbound" ELSE @]
    /\ UNCHANGED <<shut, peer, gate, listed, calls>>

\* Session.close: done, the transport with its onClose, and the slots.  The Core
\* has lost its connection, or its session id.
Close(s) ==
    /\ stage[s] = "unbound"
    /\ stage' = [stage EXCEPT ![s] = "closed"]
    /\ peer' = [peer EXCEPT ![s] = "quit"]
    /\ listed' = listed \ {s}
    /\ abandoned' = abandoned \ {s}
    /\ UNCHANGED <<registry, gate, at, asked, route>>

\* Manager.Close, while handlers and calls still run.
ShutDown ==
    /\ ~shut
    /\ shut' = TRUE
    /\ bound' = [n \in Names |-> NoSession]
    /\ stage' = [s \in Sessions |-> IF bound[NameOf[s]] = s THEN "unbound" ELSE stage[s]]
    /\ UNCHANGED <<peer, gate, listed, calls>>

----------------------------------------------------------------------------
(* Tool calls. *)

\* Call c begins: it is routed to session s, or ends with an error of resolve.
Begin(c, name, where, s) ==
    /\ asked' = [asked EXCEPT ![c] = name]
    /\ at' = [at EXCEPT ![c] = where]
    /\ route' = [route EXCEPT ![c] = s]

RouteNamed(c, n) ==
    IF bound[n] = NoSession
    THEN Begin(c, n, "DeviceNotFound", NoSession)
    ELSE Begin(c, n, "routed", bound[n])

RouteAny(c) ==
    \/ Online = {} /\ Begin(c, AnyDevice, "NoDeviceConnected", NoSession)
    \/ /\ \E m, n \in Online : m # n
       /\ Begin(c, AnyDevice, "DeviceRequired", NoSession)
    \/ \E n \in Online : Online = {n} /\ Begin(c, AnyDevice, "routed", bound[n])

Route(c) ==
    /\ at[c] = "idle"
    /\ RouteAny(c) \/ \E n \in Names : RouteNamed(c, n)
    /\ UNCHANGED <<registry, sessions, abandoned>>

\* The call gets its slot and is sent, over WebSocket maybe before hello_ack.
Post(c) ==
    /\ at[c] = "routed"
    /\ stage[route[c]] # "closed"
    /\ at' = [at EXCEPT ![c] = "waiting"]
    /\ UNCHANGED <<registry, sessions, asked, route, abandoned>>

\* ErrTransportClosed: the session is done, or a WebSocket no longer takes the call.
Break(c) ==
    /\ \/ at[c] \in {"routed", "waiting"} /\ stage[route[c]] = "closed"
       \/ at[c] = "routed" /\ route[c] \notin HTTP /\ peer[route[c]] = "quit"
    /\ at' = [at EXCEPT ![c] = "broken"]
    /\ UNCHANGED <<registry, sessions, asked, route, abandoned>>

\* The result of a call is handed on as it is.
Ended(c) ==
    /\ at' = [at EXCEPT ![c] = "idle"]
    /\ asked' = [asked EXCEPT ![c] = AnyDevice]
    /\ route' = [route EXCEPT ![c] = NoSession]

Reachable(s) ==
    /\ peer[s] = "online" /\ stage[s] # "closed"
    /\ s \in HTTP => s \in listed

Answer(c) ==
    /\ at[c] = "waiting"
    /\ Reachable(route[c])
    /\ Ended(c)
    /\ UNCHANGED <<registry, sessions, abandoned>>

\* Cancellation of the request is no evidence against the transport, and the slot
\* is kept for the answer.
Cancel(c) ==
    /\ at[c] = "waiting"
    /\ Ended(c)
    /\ abandoned' = IF stage[route[c]] = "closed" THEN abandoned
                    ELSE abandoned \cup {route[c]}
    /\ UNCHANGED <<registry, sessions>>

\* The Core has answered all cancelled calls.
AnswerLate(s) ==
    /\ s \in abandoned
    /\ Reachable(s)
    /\ abandoned' = abandoned \ {s}
    /\ UNCHANGED <<registry, sessions, at, asked, route>>

\* Variant of Report that does not detach the session first.
ReportAtOnce(c) ==
    /\ at[c] = "broken"
    /\ at' = [at EXCEPT ![c] =
                  IF asked[c] = AnyDevice THEN "NoDeviceConnected" ELSE "DeviceNotFound"]
    /\ UNCHANGED <<registry, sessions, asked, route, abandoned>>

\* After its own Detach, the call returns what registerDeviceTool reports.
Report(c) ==
    /\ at[c] = "broken"
    /\ stage[route[c]] = "closed"
    /\ at' = [at EXCEPT ![c] =
                  IF asked[c] = AnyDevice THEN "NoDeviceConnected" ELSE "DeviceNotFound"]
    /\ UNCHANGED <<registry, sessions, asked, route, abandoned>>

\* registerDeviceTool has answered with the error.
Return(c) ==
    /\ at[c] \in RoutingErrors
    /\ Ended(c)
    /\ UNCHANGED <<registry, sessions, abandoned>>

----------------------------------------------------------------------------
Holds(error, name) ==
    CASE error = "NoDeviceConnected" -> name = AnyDevice /\ Online = {}
      [] error = "DeviceRequired" -> name = AnyDevice /\ \E m, n \in Online : m # n
      [] error = "DeviceNotFound" -> name \in Names /\ bound[name] = NoSession

\* What is true at this moment is recorded for the calls that run.
Record ==
    truths' = [c \in Callers |->
                 IF at'[c] = "idle" THEN {}
                 ELSE IF at[c] \in RoutingErrors THEN truths[c]
                 ELSE truths[c] \cup {error \in RoutingErrors : Holds(error, asked[c])'}]

PeerStep(s) == Hello(s) \/ Accepted(s) \/ Quit(s) \/ AnswerLate(s)
HandlerStep(s) == Attach(s) \/ Publish(s) \/ Acknowledge(s) \/ AcknowledgeFails(s)
Progress(c) == Post(c) \/ Break(c) \/ Report(c)

Next ==
    /\ \/ \E s \in Sessions : PeerStep(s) \/ HandlerStep(s) \/ Detach(s) \/ Close(s)
       \/ \E c \in Callers : Route(c) \/ Progress(c) \/ Answer(c) \/ Cancel(c) \/ Return(c)
       \/ ShutDown
    /\ Record

Spec == Init /\ [][Next]_vars

\* Some call has a slot on the session, and no heartbeat is sent (activeCalls).
Held(s) == s \in abandoned \/ \E c \in Callers : at[c] = "waiting" /\ route[c] = s

\* Some thread is bound to detach: heartbeats miss a Core that is gone.
Due(s) ==
    \/ ByServe(s) \/ ByHandler(s) \/ ByCaller(s)
    \/ ByMonitor(s) /\ peer[s] = "quit" /\ ~Held(s)

\* Every goroutine that can go on does, and a ping returns.  Cores and clients need not
\* do anything.
Fairness ==
    /\ \A s \in Sessions :
          /\ WF_system(HandlerStep(s))
          /\ WF_system(Due(s) /\ Detach(s))
          /\ WF_system(Close(s))
    /\ \A c \in Callers : WF_system(Progress(c))

LiveSpec == Spec /\ Fairness

----------------------------------------------------------------------------
(* Properties. *)

Live(s) == gate[s] \in {"attached", "serving", "failed"} /\ stage[s] = "open"

\* No session is left behind: one that nobody has begun to detach is the one
\* bound to its name, so a call or the next Detach reaches it, and no thread
\* that detaches an earlier session of the name takes its place away; and the
\* HTTP handler lists no session that is closed, unless Manager.Close came
\* between Attach and onClose (Manager.Detach, httpTransport.onClose).
NoForgottenSession ==
    /\ \A s \in Sessions : Live(s) <=> bound[NameOf[s]] = s
    /\ \A s \in listed : stage[s] = "closed" => shut

\* What a tool call reports about the registry was true while it ran; only a
\* call without a device, whose one device was lost on the way, says that none
\* is connected though another may be (Manager.Call, registerDeviceTool).
RoutingErrorsWereTrue ==
    \A c \in Callers : at[c] \in RoutingErrors =>
        \/ at[c] \in truths[c]
        \/ /\ at[c] = "NoDeviceConnected" /\ asked[c] = AnyDevice
           /\ route[c] # NoSession /\ stage[route[c]] = "closed"

\* A Core that is gone frees its name for the next hello, wherever in the
\* handshake it was lost; over HTTP unless a call was sent to it, which switches
\* its heartbeat off (handleHello, webSocketHandler.handle, Monitor).  Over HTTP that
\* assumes room for the ping: one that meets a full queue (http.go:53) hangs, and the
\* name stays bound; queues are in RelayTiming.
GhostsGo ==
    \A s \in Sessions :
        (bound[NameOf[s]] = s /\ peer[s] = "quit") ~>
            (bound[NameOf[s]] # s \/ (s \in HTTP /\ Held(s)))
=============================================================================
