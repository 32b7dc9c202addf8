----------------------- MODULE DeviceRegistryProofs -----------------------
(***************************************************************************)
(* The registry for any devices, any number of hellos over either transport *)
(* and any number of clients: no session is left behind, and no tool call   *)
(* reports an error of routing that was not true.                           *)
(*                                                                         *)
(* Detach closes a session in two steps and several threads run it, so the  *)
(* invariant says of each session how far its handler and its Detach can be *)
(* apart; for a call it says that the session it was routed to is bound     *)
(* until the record has seen the name without one.                          *)
(***************************************************************************)
EXTENDS DeviceRegistry, TLAPS

Early == {"none", "hello", "refused"}

BoundByName == \A n \in Names : bound[n] # NoSession => NameOf[bound[n]] = n

HelloFirst == \A s \in Sessions : peer[s] = "idle" => gate[s] = "none"

\* A hello that was not attached has nothing to detach.
EarlyIsOpen == \A s \in Sessions : gate[s] \in Early => stage[s] = "open"

\* Between Attach and onClose only Manager.Close reaches an HTTP session: a send
\* on it fails only when it is done.
UnlistedIsOpen ==
    \A s \in HTTP : gate[s] = "attached" /\ ~shut => stage[s] = "open"

Routed ==
    \A c \in Callers : at[c] \in UnderWay =>
        /\ gate[route[c]] \notin Early
        /\ at[c] = "broken" /\ route[c] \in HTTP => stage[route[c]] = "closed"

SessionsInv ==
    /\ TypeOK /\ BoundByName /\ HelloFirst /\ EarlyIsOpen /\ UnlistedIsOpen /\ Routed
    /\ NoForgottenSession

\* The named device of a call still has the session the call was routed to, or
\* was seen without one.
RouteStands ==
    \A c \in Callers : at[c] \in UnderWay /\ asked[c] \in Names =>
        bound[asked[c]] = route[c] \/ "DeviceNotFound" \in truths[c]

----------------------------------------------------------------------------
(* Types. *)

LEMMA RecordType == ASSUME TypeOK, Record PROVE truths' \in [Callers -> SUBSET RoutingErrors]
  BY DEF TypeOK, Record

LEMMA SessionStepTypes ==
    ASSUME TypeOK, NEW s \in Sessions, Record,
           PeerStep(s) \/ HandlerStep(s) \/ Detach(s) \/ Close(s)
    PROVE  TypeOK'
  <1> USE RecordType, RegistryAssumption DEF RegistryAssumption, TypeOK, calls, registry, sessions
  <1>1. CASE Hello(s) \/ Accepted(s) \/ Quit(s) \/ AnswerLate(s)
    BY <1>1 DEF Hello, Accepted, Quit, AnswerLate
  <1>2. CASE Attach(s)
    BY <1>2 DEF Attach
  <1>3. CASE Publish(s) \/ Acknowledge(s) \/ AcknowledgeFails(s)
    BY <1>3 DEF Publish, Acknowledge, AcknowledgeFails
  <1>4. CASE Detach(s)
    BY <1>4 DEF Detach
  <1>5. CASE Close(s)
    BY <1>5 DEF Close
  <1> QED
    BY <1>1, <1>2, <1>3, <1>4, <1>5 DEF PeerStep, HandlerStep

LEMMA CallStepTypes ==
    ASSUME TypeOK, NEW c \in Callers, Record,
           Route(c) \/ Progress(c) \/ Answer(c) \/ Cancel(c) \/ Return(c)
    PROVE  TypeOK'
  <1> USE RecordType, RegistryAssumption
      DEF RegistryAssumption, TypeOK, calls, registry, sessions, UnderWay, RoutingErrors
  <1>1. CASE Route(c)
    <2>1. CASE RouteAny(c)
      BY <1>1, <2>1 DEF Route, RouteAny, Begin, Online
    <2>2. CASE \E n \in Names : RouteNamed(c, n)
      BY <1>1, <2>2 DEF Route, RouteNamed, Begin
    <2> QED
      BY <1>1, <2>1, <2>2 DEF Route
  <1>2. CASE Post(c) \/ Break(c) \/ Report(c)
    BY <1>2 DEF Post, Break, Report
  <1>3. CASE Answer(c) \/ Return(c)
    BY <1>3 DEF Answer, Return, Ended
  <1>4. CASE Cancel(c)
    <2>1. abandoned' \subseteq Sessions
      BY <1>4 DEF Cancel
    <2> QED
      BY <1>4, <2>1 DEF Cancel, Ended
  <1> QED
    BY <1>1, <1>2, <1>3, <1>4 DEF Progress

LEMMA StepTypes == ASSUME TypeOK, [Next]_vars PROVE TypeOK'
  <1>1. CASE UNCHANGED vars
    BY <1>1 DEF TypeOK, vars, system, registry, sessions, calls
  <1>2. CASE ShutDown /\ Record
    BY <1>2, RecordType DEF TypeOK, ShutDown, calls
  <1> QED
    BY <1>1, <1>2, SessionStepTypes, CallStepTypes DEF Next

LEMMA InitTypes == Init => TypeOK
  <1> SUFFICES ASSUME Init PROVE TypeOK
    OBVIOUS
  <1>1. truths \in [Callers -> SUBSET RoutingErrors] /\ listed \subseteq HTTP
    BY DEF Init
  <1> QED
    BY <1>1 DEF Init, TypeOK, UnderWay

\* Every variable stays within its type (device/manager.go, http.go, websocket.go).
THEOREM TypeCorrect == Spec => []TypeOK
  BY InitTypes, StepTypes, PTL DEF Spec

----------------------------------------------------------------------------
(* No session is left behind. *)

LEMMA InitSessions == Init => SessionsInv
  <1> SUFFICES ASSUME Init PROVE SessionsInv
    OBVIOUS
  <1>1. TypeOK
    BY InitTypes
  <1>2. BoundByName /\ HelloFirst /\ EarlyIsOpen /\ UnlistedIsOpen /\ Routed
    BY RegistryAssumption
    DEF RegistryAssumption, Init, BoundByName, HelloFirst, EarlyIsOpen, UnlistedIsOpen, Routed,
        UnderWay
  <1>3. NoForgottenSession
    BY RegistryAssumption DEF RegistryAssumption, Init, NoForgottenSession, Live
  <1> QED
    BY <1>1, <1>2, <1>3 DEF SessionsInv

LEMMA PeerStepSessions ==
    ASSUME SessionsInv, TypeOK', NEW s \in Sessions, PeerStep(s)
    PROVE  SessionsInv'
  <1> USE RegistryAssumption
      DEF RegistryAssumption, SessionsInv, TypeOK, BoundByName, HelloFirst, EarlyIsOpen,
          UnlistedIsOpen, Routed, NoForgottenSession, Live, Early, UnderWay,
          registry, calls
  <1>1. CASE Hello(s)
    BY <1>1 DEF Hello
  <1>2. CASE Accepted(s) \/ Quit(s)
    BY <1>2 DEF Accepted, Quit
  <1>3. CASE AnswerLate(s)
    BY <1>3 DEF AnswerLate, sessions
  <1> QED
    BY <1>1, <1>2, <1>3 DEF PeerStep

LEMMA HandlerStepSessions ==
    ASSUME SessionsInv, TypeOK', NEW s \in Sessions, HandlerStep(s)
    PROVE  SessionsInv'
  <1> USE RegistryAssumption
      DEF RegistryAssumption, SessionsInv, TypeOK, BoundByName, HelloFirst, EarlyIsOpen,
          UnlistedIsOpen, Routed, NoForgottenSession, Live, Early, UnderWay,
          registry, calls
  <1>1. CASE Attach(s)
    BY <1>1 DEF Attach
  <1>2. CASE Publish(s)
    BY <1>2 DEF Publish
  <1>3. CASE Acknowledge(s) \/ AcknowledgeFails(s)
    BY <1>3 DEF Acknowledge, AcknowledgeFails
  <1> QED
    BY <1>1, <1>2, <1>3 DEF HandlerStep

LEMMA DetachSessions ==
    ASSUME SessionsInv, TypeOK', NEW s \in Sessions, Detach(s) \/ Close(s)
    PROVE  SessionsInv'
  <1> USE RegistryAssumption
      DEF RegistryAssumption, SessionsInv, TypeOK, BoundByName, HelloFirst, EarlyIsOpen,
          UnlistedIsOpen, Routed, NoForgottenSession, Live, Early, UnderWay,
          registry, calls
  <1>1. CASE Detach(s)
    <2>1. gate[s] \notin Early
      BY <1>1 DEF Detach, ByMonitor, ByServe, ByHandler, ByCaller
    <2>2. ~(s \in HTTP /\ gate[s] = "attached" /\ ~shut)
      BY <1>1 DEF Detach, ByMonitor, ByServe, ByHandler, ByCaller
    <2> QED
      BY <1>1, <2>1, <2>2 DEF Detach
  <1>2. CASE Close(s)
    BY <1>2 DEF Close
  <1> QED
    BY <1>1, <1>2

LEMMA ShutDownSessions ==
    ASSUME SessionsInv, TypeOK', ShutDown
    PROVE  SessionsInv'
  BY RegistryAssumption
  DEF RegistryAssumption, SessionsInv, TypeOK, BoundByName, HelloFirst, EarlyIsOpen,
      UnlistedIsOpen, Routed, NoForgottenSession, Live, Early, UnderWay, calls, ShutDown

LEMMA CallStepSessions ==
    ASSUME SessionsInv, TypeOK', NEW c \in Callers,
           Route(c) \/ Progress(c) \/ Answer(c) \/ Cancel(c) \/ Return(c)
    PROVE  SessionsInv'
  <1>1. UNCHANGED <<registry, sessions>>
    BY DEF Route, Progress, Post, Break, Report, Answer, Cancel, Return
  <1>2. BoundByName' /\ HelloFirst' /\ EarlyIsOpen' /\ UnlistedIsOpen' /\ NoForgottenSession'
    BY <1>1
    DEF SessionsInv, BoundByName, HelloFirst, EarlyIsOpen, UnlistedIsOpen, NoForgottenSession,
        Live, registry, sessions
  <1>3. Routed'
    <2> USE RegistryAssumption, <1>1
        DEF RegistryAssumption, SessionsInv, TypeOK, Routed, UnderWay, RoutingErrors, Early,
            registry, sessions
    <2>1. CASE Route(c)
      <3>1. \A n \in Names : bound[n] # NoSession => gate[bound[n]] \notin Early
        BY DEF BoundByName, NoForgottenSession, Live
      <3>2. CASE RouteAny(c)
        BY <2>1, <3>1, <3>2 DEF Route, RouteAny, Begin, Online
      <3>3. CASE \E n \in Names : RouteNamed(c, n)
        BY <2>1, <3>1, <3>3 DEF Route, RouteNamed, Begin
      <3> QED
        BY <2>1, <3>2, <3>3 DEF Route
    <2>2. CASE Post(c) \/ Report(c)
      BY <2>2 DEF Post, Report
    <2>3. CASE Break(c)
      BY <2>3 DEF Break
    <2>4. CASE Answer(c) \/ Cancel(c) \/ Return(c)
      BY <2>4 DEF Answer, Cancel, Return, Ended
    <2> QED
      BY <2>1, <2>2, <2>3, <2>4 DEF Progress
  <1> QED
    BY <1>2, <1>3 DEF SessionsInv

LEMMA StepSessions == ASSUME SessionsInv, [Next]_vars PROVE SessionsInv'
  <1>1. TypeOK'
    BY StepTypes DEF SessionsInv
  <1>2. CASE UNCHANGED vars
    BY <1>1, <1>2
    DEF SessionsInv, BoundByName, HelloFirst, EarlyIsOpen, UnlistedIsOpen, Routed,
        NoForgottenSession, Live, vars, system, registry, sessions, calls
  <1>3. CASE Next
    BY <1>1, <1>3, PeerStepSessions, HandlerStepSessions, DetachSessions, CallStepSessions,
       ShutDownSessions
    DEF Next
  <1> QED
    BY <1>2, <1>3

\* A session nobody has begun to detach is the one bound to its name, and the
\* HTTP handler lists none that is closed (Manager.Attach, Detach, handleHello).
THEOREM NothingForgotten == Spec => []NoForgottenSession
  <1>1. SessionsInv => NoForgottenSession
    BY DEF SessionsInv
  <1> QED
    BY <1>1, InitSessions, StepSessions, PTL DEF Spec

----------------------------------------------------------------------------
(* Errors of routing. *)

CallsInv == SessionsInv /\ RouteStands /\ RoutingErrorsWereTrue

\* The record of a call that runs only grows, and takes in what is true now.
LEMMA Recorded ==
    ASSUME TypeOK, Record, NEW c \in Callers, at'[c] # "idle"
    PROVE  /\ truths[c] \subseteq truths'[c]
           /\ at[c] \notin RoutingErrors =>
                 \A error \in RoutingErrors : Holds(error, asked[c])' => error \in truths'[c]
  <1>1. truths'[c] = IF at'[c] = "idle" THEN {}
                     ELSE IF at[c] \in RoutingErrors THEN truths[c]
                     ELSE truths[c] \cup {error \in RoutingErrors : Holds(error, asked[c])'}
    BY DEF Record
  <1> QED
    BY <1>1

\* Steps of sessions: a name is unbound, or bound when it was not, and a closed
\* session stays closed.
LEMMA SessionStepCalls ==
    ASSUME CallsInv, TypeOK', Record, UNCHANGED <<at, asked, route>>,
           \A n \in Names : bound'[n] = bound[n] \/ bound[n] = NoSession \/ bound'[n] = NoSession,
           \A s \in Sessions : stage[s] = "closed" => stage'[s] = "closed"
    PROVE  RouteStands' /\ RoutingErrorsWereTrue'
  <1> USE DEF CallsInv, SessionsInv
  <1>1. ASSUME NEW c \in Callers, at'[c] \in UnderWay, asked'[c] \in Names
        PROVE  bound'[asked'[c]] = route'[c] \/ "DeviceNotFound" \in truths'[c]
    <2>1. at'[c] # "idle" /\ at[c] \notin RoutingErrors /\ route[c] # NoSession
      BY <1>1 DEF UnderWay, RoutingErrors, TypeOK
    <2>2. CASE bound'[asked[c]] = NoSession
      <3>1. Holds("DeviceNotFound", asked[c])'
        BY <1>1, <2>2 DEF Holds
      <3> QED
        BY <2>1, <3>1, Recorded DEF RoutingErrors
    <2>3. CASE bound'[asked[c]] # NoSession
      BY <1>1, <2>1, <2>3, Recorded DEF RouteStands
    <2> QED
      BY <2>2, <2>3
  <1>2. ASSUME NEW c \in Callers, at'[c] \in RoutingErrors
        PROVE  \/ at'[c] \in truths'[c]
               \/ /\ at'[c] = "NoDeviceConnected" /\ asked'[c] = AnyDevice
                  /\ route'[c] # NoSession /\ stage'[route'[c]] = "closed"
    <2>1. at'[c] # "idle" /\ at[c] \in RoutingErrors
      BY <1>2 DEF RoutingErrors
    <2>2. route[c] # NoSession => route[c] \in Sessions
      BY DEF TypeOK
    <2> QED
      BY <1>2, <2>1, <2>2, Recorded DEF RoutingErrorsWereTrue
  <1> QED
    BY <1>1, <1>2 DEF RouteStands, RoutingErrorsWereTrue

\* Route: what resolve reports is true when it looks.
LEMMA RouteIsTrue ==
    ASSUME CallsInv, TypeOK', Record, NEW c \in Callers, Route(c)
    PROVE  /\ at'[c] \in UnderWay /\ asked'[c] \in Names => bound'[asked'[c]] = route'[c]
           /\ at'[c] \in RoutingErrors => at'[c] \in truths'[c]
  <1> USE DEF CallsInv, SessionsInv
  <1>1. bound' = bound /\ at[c] = "idle" /\ c \in DOMAIN at /\ c \in DOMAIN asked
        /\ c \in DOMAIN route
    BY DEF Route, registry, TypeOK
  <1>2. at'[c] \in RoutingErrors => Holds(at[c], asked[c])'
    <2>1. CASE RouteAny(c)
      BY <1>1, <2>1 DEF RouteAny, Begin, Holds, Online, RoutingErrors
    <2>2. CASE \E n \in Names : RouteNamed(c, n)
      BY <1>1, <2>2 DEF RouteNamed, Begin, Holds, RoutingErrors
    <2> QED
      BY <2>1, <2>2 DEF Route
  <1>3. at'[c] \in UnderWay /\ asked'[c] \in Names => bound'[asked'[c]] = route'[c]
    <2>1. CASE RouteAny(c)
      BY <1>1, <2>1, RegistryAssumption DEF RouteAny, Begin, RegistryAssumption
    <2>2. CASE \E n \in Names : RouteNamed(c, n)
      BY <1>1, <2>2 DEF RouteNamed, Begin, UnderWay
    <2> QED
      BY <2>1, <2>2 DEF Route
  <1>4. at'[c] \in RoutingErrors => at'[c] \in truths'[c]
    BY <1>1, <1>2, Recorded DEF RoutingErrors
  <1> QED
    BY <1>3, <1>4

\* Report: the session of the call is closed by now, so its name has lost it.
LEMMA ReportIsTrue ==
    ASSUME CallsInv, TypeOK', Record, NEW c \in Callers, Report(c)
    PROVE  \/ at'[c] \in truths'[c]
           \/ /\ at'[c] = "NoDeviceConnected" /\ asked'[c] = AnyDevice
              /\ route'[c] # NoSession /\ stage'[route'[c]] = "closed"
  <1> USE DEF CallsInv, SessionsInv
  <1>1. /\ at[c] = "broken" /\ c \in DOMAIN at /\ stage[route[c]] = "closed"
        /\ route[c] # NoSession /\ route[c] \in Sessions
        /\ UNCHANGED <<asked, route, stage>>
        /\ at'[c] = IF asked[c] = AnyDevice THEN "NoDeviceConnected" ELSE "DeviceNotFound"
    BY DEF Report, TypeOK, UnderWay, sessions
  <1>2. CASE asked[c] = AnyDevice
    BY <1>1, <1>2
  <1>3. CASE asked[c] # AnyDevice
    <2>1. asked[c] \in Names
      BY <1>3 DEF TypeOK
    <2>2. bound[asked[c]] # route[c]
      BY <1>1, <2>1 DEF BoundByName, NoForgottenSession, Live
    <2>3. "DeviceNotFound" \in truths[c]
      BY <1>1, <2>1, <2>2 DEF RouteStands, UnderWay
    <2> QED
      BY <1>1, <1>3, <2>3, Recorded
  <1> QED
    BY <1>2, <1>3

LEMMA CallStepCalls ==
    ASSUME CallsInv, TypeOK', Record, NEW c \in Callers,
           Route(c) \/ Progress(c) \/ Answer(c) \/ Cancel(c) \/ Return(c)
    PROVE  RouteStands' /\ RoutingErrorsWereTrue'
  <1> USE DEF CallsInv, SessionsInv
  <1>1. /\ UNCHANGED <<bound, stage>>
        /\ \A d \in Callers \ {c} :
              at'[d] = at[d] /\ asked'[d] = asked[d] /\ route'[d] = route[d]
    BY DEF Route, RouteAny, RouteNamed, Begin, Progress, Post, Break, Report, Answer, Cancel,
           Return, Ended, registry, sessions, TypeOK
  <1>2. ASSUME NEW d \in Callers, d # c
        PROVE  /\ at'[d] \in UnderWay /\ asked'[d] \in Names =>
                     bound'[asked'[d]] = route'[d] \/ "DeviceNotFound" \in truths'[d]
               /\ at'[d] \in RoutingErrors =>
                     \/ at'[d] \in truths'[d]
                     \/ /\ at'[d] = "NoDeviceConnected" /\ asked'[d] = AnyDevice
                        /\ route'[d] # NoSession /\ stage'[route'[d]] = "closed"
    <2>1. at'[d] \in UnderWay \cup RoutingErrors => truths[d] \subseteq truths'[d]
      BY Recorded DEF UnderWay, RoutingErrors
    <2> QED
      BY <1>1, <1>2, <2>1 DEF RouteStands, RoutingErrorsWereTrue
  <1>3. /\ at'[c] \in UnderWay /\ asked'[c] \in Names =>
              bound'[asked'[c]] = route'[c] \/ "DeviceNotFound" \in truths'[c]
        /\ at'[c] \in RoutingErrors =>
              \/ at'[c] \in truths'[c]
              \/ /\ at'[c] = "NoDeviceConnected" /\ asked'[c] = AnyDevice
                 /\ route'[c] # NoSession /\ stage'[route'[c]] = "closed"
    <2>1. CASE Route(c)
      BY <2>1, RouteIsTrue
    <2>2. CASE Post(c) \/ Break(c)
      <3>1. /\ at[c] \in UnderWay /\ at'[c] \in {"waiting", "broken"}
            /\ UNCHANGED <<asked, route>>
        BY <2>2 DEF Post, Break, UnderWay, TypeOK
      <3>2. truths[c] \subseteq truths'[c]
        BY <3>1, Recorded
      <3> QED
        BY <1>1, <3>1, <3>2 DEF RouteStands, RoutingErrors
    <2>3. CASE Report(c)
      <3>1. at'[c] \notin UnderWay
        BY <2>3 DEF Report, UnderWay, TypeOK
      <3> QED
        BY <2>3, <3>1, ReportIsTrue
    <2>4. CASE Answer(c) \/ Cancel(c) \/ Return(c)
      BY <2>4 DEF Answer, Cancel, Return, Ended, UnderWay, RoutingErrors, TypeOK
    <2> QED
      BY <2>1, <2>2, <2>3, <2>4 DEF Progress
  <1> QED
    BY <1>2, <1>3 DEF RouteStands, RoutingErrorsWereTrue

LEMMA StepCalls == ASSUME CallsInv, [Next]_vars PROVE CallsInv'
  <1>1. SessionsInv' /\ TypeOK'
    BY StepSessions DEF CallsInv, SessionsInv
  <1>2. CASE UNCHANGED vars
    BY <1>1, <1>2
    DEF CallsInv, RouteStands, RoutingErrorsWereTrue, vars, system, registry, sessions, calls
  <1>3. ASSUME NEW s \in Sessions, Record,
               PeerStep(s) \/ HandlerStep(s) \/ Detach(s) \/ Close(s)
        PROVE  RouteStands' /\ RoutingErrorsWereTrue'
    <2>1. UNCHANGED <<at, asked, route>>
      BY <1>3
      DEF PeerStep, Hello, Accepted, Quit, AnswerLate, HandlerStep, Attach, Publish,
          Acknowledge, AcknowledgeFails, Detach, Close, calls
    <2>2. \A n \in Names :
            bound'[n] = bound[n] \/ bound[n] = NoSession \/ bound'[n] = NoSession
      BY <1>3, RegistryAssumption
      DEF PeerStep, Hello, Accepted, Quit, AnswerLate, HandlerStep, Attach, Publish,
          Acknowledge, AcknowledgeFails, Detach, Close, registry, CallsInv, SessionsInv, TypeOK,
          RegistryAssumption
    <2>3. \A q \in Sessions : stage[q] = "closed" => stage'[q] = "closed"
      BY <1>3
      DEF PeerStep, Hello, Accepted, Quit, AnswerLate, HandlerStep, Attach, Publish,
          Acknowledge, AcknowledgeFails, Detach, Close, sessions, CallsInv, SessionsInv, TypeOK
    <2> QED
      BY <1>1, <1>3, <2>1, <2>2, <2>3, SessionStepCalls
  <1>4. CASE ShutDown /\ Record
    <2>1. \A q \in Sessions : stage[q] = "closed" => stage'[q] = "closed"
      BY <1>4
      DEF ShutDown, CallsInv, SessionsInv, TypeOK, NoForgottenSession, Live
    <2>2. RouteStands' /\ RoutingErrorsWereTrue'
      BY <1>1, <1>4, <2>1, SessionStepCalls DEF ShutDown, calls
    <2> QED
      BY <1>1, <2>2 DEF CallsInv
  <1>5. ASSUME NEW c \in Callers, Record,
               Route(c) \/ Progress(c) \/ Answer(c) \/ Cancel(c) \/ Return(c)
        PROVE  RouteStands' /\ RoutingErrorsWereTrue'
    BY <1>1, <1>5, CallStepCalls
  <1> QED
    BY <1>1, <1>2, <1>3, <1>4, <1>5 DEF CallsInv, Next

\* What a tool call reports about the registry was true while it ran
\* (Manager.resolve, Manager.Call, registerDeviceTool).
THEOREM ErrorsWereTrue == Spec => []RoutingErrorsWereTrue
  <1>1. Init => CallsInv
    BY InitSessions DEF Init, CallsInv, RouteStands, RoutingErrorsWereTrue, UnderWay, RoutingErrors
  <1>2. CallsInv => RoutingErrorsWereTrue
    BY DEF CallsInv
  <1> QED
    BY <1>1, <1>2, StepCalls, PTL DEF Spec
=============================================================================
