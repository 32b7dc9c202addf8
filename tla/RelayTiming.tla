----------------------------- MODULE RelayTiming -----------------------------
(***************************************************************************)
(* The clocks of a session that takes part in a transfer: the heartbeats    *)
(* of Manager.Monitor, the time a chunk holds up the reader and sendMu, the *)
(* acknowledgement of an HTTP target and the idle expiry of the transfer.   *)
(*                                                                         *)
(* One session is observed.  Its device is the source of a running transfer *)
(* (over WebSocket, and its reader relays the chunks itself) or the target  *)
(* (over either transport).  The Core works on one request at a time; its   *)
(* answers travel behind the chunks it streams, its requests behind the     *)
(* chunks it is sent.                                                       *)
(*                                                                         *)
(* Time passes in units while nothing is due: goroutines of the Gateway     *)
(* take no time, a running Core takes at most Delay or Command.  Whatever   *)
(* becomes due in the same unit happens in any order.                       *)
(***************************************************************************)
EXTENDS Integers, Sequences

CONSTANTS
    Interval,     \* heartbeatInterval
    Timeout,      \* heartbeatTimeout
    FailLimit,    \* heartbeatFailLimit
    AckTimeout,   \* how long an HTTP target has to acknowledge a chunk
    IdleTimeout,  \* transferIdleTimeout
    Delay,        \* longest time a running Core takes to store a chunk
    Command,      \* longest time it takes to execute a call
    ToBuffer,     \* messages a connection holds on the way to a Core
    FromBuffer,   \* messages it holds on the way from a Core
    Calls         \* bound on the tool calls made meanwhile

Limits == {Interval, Timeout, FailLimit, AckTimeout, IdleTimeout, ToBuffer, FromBuffer}

ASSUME TimingAssumption ==
    /\ Limits \subseteq Nat \ {0}
    /\ {Delay, Command, Calls} \subseteq Nat
    /\ Timeout <= Interval

Roles == {"source", "target"}

VARIABLES
    role,         \* the part of the observed device in the transfer
    carrier,      \* the transport of the target: "http", "websocket"
    up,           \* up[r]: the Core at that end runs; one that stops is silent
    to, from,     \* messages on their way to the observed Core and from it
    work,         \* the request it works on, and since when
    calls,        \* tool calls still to come, and those waiting to be sent
    activeCalls,  \* Session.activeCalls
    running,      \* the transfer is not final
    relay,        \* relayMu: who holds it, and since when
    idle,         \* time since t.updatedAt
    stuck,        \* how long the send at work waited for the connection alone
    timer,        \* time until t.timer fires
    ticker,       \* Monitor's ticker: its phase, and a tick not taken yet
    monitor,      \* Monitor: where it is, the age of its ping, its failures
    excuse,       \* what may delay that ping though the Core runs
    attached,     \* the session is in the registry
    silent        \* time since the Core stopped with no call outstanding

setting == <<role, carrier>>
core == <<up, work>>
pipes == <<to, from>>
requests == <<calls, activeCalls>>
transfer == <<running, relay, idle, stuck, timer>>
heartbeat == <<ticker, monitor, excuse, attached>>
vars == <<setting, core, pipes, requests, transfer, heartbeat, silent>>

\* A ping that was given up is stale, and so is its pong.
Answered == {"ping", "stale", "call"}
Messages == Answered \cup {"chunk", "cancel"}

IdleLimit == IdleTimeout + AckTimeout

\* Where the count of idle time stops.
IdleCap == IdleLimit + AckTimeout

\* The ticks of the pings the Core did not answer, and the wait for the last of
\* them; a chunk that holds sendMu may delay them.
RemovalLimit ==
    FailLimit * Interval + Timeout
        + (IF role = "target" /\ carrier = "http" THEN AckTimeout ELSE 0)

SilentBound == FailLimit * Interval + Timeout + AckTimeout + 1

TypeOK ==
    /\ role \in Roles /\ carrier \in {"http", "websocket"}
    /\ up \in [Roles -> BOOLEAN]
    /\ to \in Seq(Messages) /\ Len(to) <= ToBuffer
    /\ from \in Seq(Answered \cup {"chunk"}) /\ Len(from) <= FromBuffer
    /\ work \in [on : Messages \cup {"none"}, age : Nat]
    /\ calls \in [left : 0..Calls, waiting : 0..Calls]
    /\ activeCalls \in 0..Calls
    /\ running \in BOOLEAN
    /\ relay \in [pc : {"free", "put", "send", "ack", "cancel"}, age : 0..AckTimeout]
    /\ idle \in 0..IdleCap /\ stuck \in 0..IdleCap /\ timer \in 0..IdleTimeout
    /\ ticker \in [phase : 1..Interval, ticked : BOOLEAN]
    /\ monitor \in [pc : {"select", "lock", "wait"}, age : 0..Timeout,
                    failures : 0..FailLimit - 1]
    /\ excuse \in [overtaken : BOOLEAN, held : Nat]
    /\ attached \in BOOLEAN
    /\ silent \in 0..SilentBound

Resting == [on |-> "none", age |-> 0]
Free == [pc |-> "free", age |-> 0]
NoExcuse == [overtaken |-> FALSE, held |-> 0]

\* The transfer is running and its timer armed; the session may be of any age.
Init ==
    /\ role \in Roles /\ carrier \in {"http", "websocket"}
    /\ up = [r \in Roles |-> TRUE]
    /\ to = <<>> /\ from = <<>> /\ work = Resting
    /\ calls = [left |-> Calls, waiting |-> 0] /\ activeCalls = 0
    /\ running = TRUE /\ relay = Free
    /\ idle = 0 /\ stuck = 0 /\ timer = IdleTimeout
    /\ ticker \in [phase : 1..Interval, ticked : {FALSE}]
    /\ monitor = [pc |-> "select", age |-> 0, failures |-> 0] /\ excuse = NoExcuse
    /\ attached = TRUE /\ silent = 0

RoomTo == Len(to) < ToBuffer
RoomFrom == Len(from) < FromBuffer

\* Session.send gets sendMu and the message a place on the connection.  sendMu is
\* held for longer only by a chunk waiting for its acknowledgement, or by a sender
\* that waits for room, which then nobody has.
CanSend == RoomTo /\ ~(role = "target" /\ relay.pc = "ack")

----------------------------------------------------------------------------
(* The Core at the other end of the session. *)

\* How long the Core may work on a request.
Allowed(request) ==
    CASE request = "call" -> Command
      [] request = "chunk" -> Delay
      [] OTHER -> 0

Worked == work.on # "none" /\ work.age >= Allowed(work.on)

\* A finished answer waits for room on the connection.
Replying == Worked /\ work.on \in Answered

Take ==
    /\ up[role]
    /\ work.on = "none"
    /\ to # <<>>
    /\ work' = [on |-> Head(to), age |-> 0]
    /\ to' = Tail(to)
    /\ UNCHANGED <<setting, up, from, requests, transfer, heartbeat, silent>>

Answer ==
    /\ up[role]
    /\ work.on \in Answered
    /\ RoomFrom
    /\ from' = Append(from, work.on)
    /\ work' = Resting
    /\ UNCHANGED <<setting, up, to, requests, transfer, heartbeat, silent>>

\* handleTransferChunk counts a chunk the target took.
Progress == relay' = Free /\ idle' = 0 /\ stuck' = 0

\* The target stored a chunk; over HTTP it acknowledges it now.
Store ==
    /\ up[role]
    /\ work.on \in {"chunk", "cancel"}
    /\ work' = Resting
    /\ IF work.on = "chunk" /\ relay.pc = "ack" THEN Progress ELSE UNCHANGED <<relay,
                                                                               idle, stuck>>
    /\ UNCHANGED <<setting, up, pipes, requests, running, timer, heartbeat, silent>>

\* The source streams; frames leave the Core in the order they became ready.
Stream ==
    /\ role = "source" /\ up[role]
    /\ running
    /\ RoomFrom
    /\ ~Replying
    /\ from' = Append(from, "chunk")
    /\ UNCHANGED <<setting, up, work, to, requests, transfer, heartbeat, silent>>

\* A Core stops reading and answering while its connection stays.
Stop(r) ==
    /\ up[r]
    /\ up' = [up EXCEPT ![r] = FALSE]
    /\ UNCHANGED <<setting, work, pipes, requests, transfer, heartbeat, silent>>

----------------------------------------------------------------------------
(* Session.readLoop. *)

\* The reader of a source is away while it relays a chunk.
ReaderFree == ~(role = "source" /\ relay.pc = "send")

\* A pong that comes late belongs to no ping any more.
ReadAnswer ==
    /\ attached /\ ReaderFree
    /\ from # <<>> /\ Head(from) \in Answered
    /\ from' = Tail(from)
    /\ activeCalls' = IF Head(from) = "call" THEN activeCalls - 1 ELSE activeCalls
    /\ monitor' = IF Head(from) = "ping"
                  THEN [pc |-> "select", age |-> 0, failures |-> 0] ELSE monitor
    /\ excuse' = IF Head(from) = "ping" THEN NoExcuse ELSE excuse
    /\ UNCHANGED <<setting, core, to, calls, transfer, ticker, attached, silent>>

\* handleTransferBinary waits for relayMu, and drops the chunk of a final transfer.
ReadChunk ==
    /\ attached
    /\ from # <<>> /\ Head(from) = "chunk"
    /\ relay.pc = "free"
    /\ from' = Tail(from)
    /\ relay' = IF running THEN [pc |-> "send", age |-> 0] ELSE relay
    /\ UNCHANGED <<setting, core, to, requests, running, idle, stuck, timer, heartbeat,
                   silent>>

----------------------------------------------------------------------------
(* The relay. *)

\* releaseTransferDevicesLocked: the timer is stopped, and updatedAt matters no more.
End == running' = FALSE /\ idle' = 0 /\ stuck' = 0 /\ timer' = 0

\* failTransferRelayLocked: final first, then transfer_cancel under relayMu.
Fail == End /\ relay' = [pc |-> "cancel", age |-> 0]

\* The target of the observed source takes the chunk the reader is sending.
PeerTakes ==
    /\ role = "source" /\ relay.pc = "send"
    /\ up["target"]
    /\ Progress
    /\ UNCHANGED <<setting, core, pipes, requests, running, timer, heartbeat, silent>>

\* The source's chunk for the observed target arrives at the relay.
ChunkArrives ==
    /\ role = "target" /\ attached /\ running
    /\ relay.pc = "free"
    /\ relay' = [pc |-> "put", age |-> 0]
    /\ UNCHANGED <<setting, up, work, pipes, requests, running, idle, stuck, timer, heartbeat,
                   silent>>

\* sendTransferChunk: a frame on a WebSocket, or the announcement over HTTP and
\* then the wait for the acknowledgement.
PutChunk ==
    /\ relay.pc = "put"
    /\ RoomTo
    /\ to' = Append(to, "chunk")
    /\ IF carrier = "http"
       THEN relay' = [pc |-> "ack", age |-> 0] /\ UNCHANGED <<idle, stuck>>
       ELSE Progress
    /\ UNCHANGED <<setting, core, from, requests, running, timer, heartbeat, silent>>

AwaitingAck == carrier = "http" /\ relay.pc \in {"send", "ack"}

AckTimesOut ==
    /\ AwaitingAck
    /\ relay.age >= AckTimeout
    /\ Fail
    /\ UNCHANGED <<setting, core, pipes, requests, heartbeat, silent>>

PutCancel ==
    /\ relay.pc = "cancel"
    /\ CanSend
    /\ to' = Append(to, "cancel")
    /\ relay' = Free
    /\ UNCHANGED <<setting, core, from, requests, running, idle, stuck, timer,
                   heartbeat, silent>>

\* The transfer ends in another way: completed, or cancelled by then.
Complete ==
    /\ running /\ relay.pc = "free"
    /\ End
    /\ UNCHANGED <<setting, core, pipes, requests, relay, heartbeat, silent>>

Expired == running /\ timer = 0 /\ relay.pc = "free"

\* Variant of Expire that arms the timer again for the whole two minutes.
ExpireFromNow ==
    /\ Expired
    /\ IF idle < IdleTimeout
       THEN timer' = IdleTimeout /\ UNCHANGED <<running, relay, idle, stuck>>
       ELSE Fail
    /\ UNCHANGED <<setting, core, pipes, requests, heartbeat, silent>>

\* expireTransfer, once it has relayMu.
Expire ==
    /\ Expired
    /\ IF idle < IdleTimeout
       THEN timer' = IdleTimeout - idle /\ UNCHANGED <<running, relay, idle, stuck>>
       ELSE Fail
    /\ UNCHANGED <<setting, core, pipes, requests, heartbeat, silent>>

----------------------------------------------------------------------------
(* Session.call: counted first, sent when sendMu and the connection allow. *)

CountCall ==
    /\ attached
    /\ calls.left > 0
    /\ calls' = [left |-> calls.left - 1, waiting |-> calls.waiting + 1]
    /\ activeCalls' = activeCalls + 1
    /\ excuse' = [excuse EXCEPT !.overtaken = @ \/ monitor.pc = "lock"]
    /\ UNCHANGED <<setting, core, pipes, transfer, ticker, monitor, attached, silent>>

PutCall ==
    /\ calls.waiting > 0
    /\ CanSend
    /\ to' = Append(to, "call")
    /\ calls' = [calls EXCEPT !.waiting = @ - 1]
    /\ UNCHANGED <<setting, core, from, activeCalls, transfer, heartbeat, silent>>

----------------------------------------------------------------------------
(* Manager.Monitor. *)

\* Variant of Load that does not look at activeCalls.
LoadAlways ==
    /\ monitor.pc = "select" /\ ticker.ticked
    /\ ticker' = [ticker EXCEPT !.ticked = FALSE]
    /\ monitor' = [monitor EXCEPT !.pc = "lock"]
    /\ UNCHANGED <<setting, core, pipes, requests, transfer, excuse, attached, silent>>

\* A tick is taken and activeCalls read; a call may still overtake the ping.
Load ==
    /\ monitor.pc = "select" /\ ticker.ticked
    /\ ticker' = [ticker EXCEPT !.ticked = FALSE]
    /\ monitor' = IF activeCalls > 0 THEN [monitor EXCEPT !.failures = 0]
                                     ELSE [monitor EXCEPT !.pc = "lock"]
    /\ UNCHANGED <<setting, core, pipes, requests, transfer, excuse, attached, silent>>

\* The timer of a ping starts when it has been sent.
PutPing ==
    /\ monitor.pc = "lock"
    /\ CanSend
    /\ to' = Append(to, "ping")
    /\ monitor' = [monitor EXCEPT !.pc = "wait", !.age = 0]
    /\ UNCHANGED <<setting, core, from, requests, transfer, ticker, excuse, attached,
                   silent>>

Stale(pipe) == [i \in DOMAIN pipe |-> IF pipe[i] = "ping" THEN "stale" ELSE pipe[i]]

\* Detach: the session and its transfer end, and nothing here goes on.
Detach ==
    /\ attached' = FALSE
    /\ End
    /\ to' = <<>> /\ from' = <<>> /\ work' = Resting
    /\ monitor' = [monitor EXCEPT !.pc = "select", !.age = 0]
    /\ calls' = [calls EXCEPT !.waiting = 0]
    /\ activeCalls' = 0
    /\ UNCHANGED <<up, relay>>

MissUpTo(limit) ==
    /\ monitor.pc = "wait" /\ monitor.age >= Timeout
    /\ IF monitor.failures + 1 >= limit
       THEN Detach
       ELSE /\ monitor' = [pc |-> "select", age |-> 0, failures |-> monitor.failures + 1]
            /\ to' = Stale(to) /\ from' = Stale(from)
            /\ work' = IF work.on = "ping" THEN [work EXCEPT !.on = "stale"] ELSE work
            /\ UNCHANGED <<up, requests, transfer, attached>>
    /\ excuse' = NoExcuse
    /\ UNCHANGED <<setting, ticker, silent>>

\* Variant of Miss that waits for one more.
MissOneMore == MissUpTo(FailLimit + 1)

Miss == MissUpTo(FailLimit)

----------------------------------------------------------------------------
(* The clock. *)

\* What takes no time, or has taken all the time it may take.
Due ==
    \/ up[role] /\ (work.on = "none" /\ to # <<>>)
    \/ up[role] /\ Worked /\ (work.on \in Answered => RoomFrom)
    \/ from # <<>> /\ ReaderFree /\ (Head(from) = "chunk" => relay.pc = "free")
    \/ role = "source" /\ relay.pc = "send" /\ up["target"] /\ relay.age >= Delay
    \/ relay.pc = "put" /\ RoomTo
    \/ relay.pc = "cancel" /\ CanSend
    \/ AwaitingAck /\ relay.age >= AckTimeout
    \/ Expired
    \/ calls.waiting > 0 /\ CanSend
    \/ monitor.pc = "select" /\ ticker.ticked
    \/ monitor.pc = "lock" /\ CanSend
    \/ monitor.pc = "wait" /\ monitor.age >= Timeout

Older(age, bound) == IF age < bound THEN age + 1 ELSE age

\* Only the connection, and not the clock, ends this wait: for a place on it, or for
\* the end of a write.
OnConnection == relay.pc = "put" \/ (relay.pc = "send" /\ carrier = "websocket")

\* The transfer keeps the Core from taking a ping, or the reader from taking its pong.
HeldUp == work.on = "chunk" \/ (role = "source" /\ relay.pc \in {"send", "cancel"})

Pass ==
    /\ attached
    /\ ~Due
    /\ work' = IF work.on = "none" THEN work
               ELSE [work EXCEPT !.age = Older(@, Allowed(work.on))]
    /\ relay' = IF relay.pc \in {"send", "ack"}
                THEN [relay EXCEPT !.age = Older(@, AckTimeout)] ELSE relay
    /\ idle' = IF running THEN Older(idle, IdleCap) ELSE idle
    /\ stuck' = IF OnConnection THEN Older(stuck, IdleCap) ELSE stuck
    /\ timer' = IF running /\ timer > 0 THEN timer - 1 ELSE timer
    /\ ticker' = IF ticker.phase = Interval
                 THEN [phase |-> 1, ticked |-> TRUE]
                 ELSE [ticker EXCEPT !.phase = @ + 1]
    /\ monitor' = IF monitor.pc = "wait" THEN [monitor EXCEPT !.age = @ + 1] ELSE monitor
    /\ excuse' = IF monitor.pc = "wait" /\ HeldUp
                 THEN [excuse EXCEPT !.held = @ + 1] ELSE excuse
    /\ silent' = IF up[role] \/ activeCalls > 0 THEN 0 ELSE Older(silent, SilentBound)
    /\ UNCHANGED <<setting, up, pipes, requests, running, attached>>

CoreStep == Take \/ Answer \/ Store \/ Stream
ReaderStep == ReadAnswer \/ ReadChunk
RelayStep ==
    PeerTakes \/ ChunkArrives \/ PutChunk \/ AckTimesOut \/ PutCancel \/ Complete \/ Expire
MonitorStep == Load \/ PutPing \/ Miss

Next ==
    /\ attached
    /\ \/ CoreStep \/ ReaderStep \/ RelayStep \/ MonitorStep
       \/ CountCall \/ PutCall
       \/ \E r \in {role, "target"} : Stop(r)
       \/ Pass

Spec == Init /\ [][Next]_vars

----------------------------------------------------------------------------
(* Properties. *)

\* While both Cores run, no heartbeat is missed, much less a session detached, because
\* of a command, of old pongs or of what else waits in line ("Do not inject a
\* heartbeat behind an active command and then mistake the delayed pong for death",
\* Manager.Monitor).  The code has two exceptions: a call that came between the look
\* at activeCalls and the ping, and a transfer that kept the Core from the ping, or
\* the reader from the pong, for the whole of heartbeatTimeout.
KeptWhileAnswering ==
    [][(\A r \in Roles : up[r]) =>
          \/ attached' /\ monitor'.failures <= monitor.failures
          \/ excuse.overtaken
          \/ excuse.held >= Timeout]_vars

PingHangs == monitor.pc = "lock" /\ ~RoomTo

\* A Core that went silent is out of the registry in time, unless it owes a
\* call, which switches the heartbeat off, or the connection takes no more, so
\* that the ping itself hangs (Manager.Monitor; README.md:137).
DeadCoreRemovedInTime ==
    attached /\ silent > RemovalLimit => activeCalls > 0 \/ PingHangs

\* A transfer that made no progress for two minutes waits for nothing but the send
\* that holds relayMu.
HeldWhenIdle == running /\ idle > IdleTimeout => relay.pc # "free"

\* A transfer is over two minutes after its last progress, or as soon as the send
\* that then holds relayMu is: by the acknowledgement's time later at the latest, not
\* counting the time that send waits for a place on the connection, or in a write to
\* it, for which the code sets no limit (expireTransfer; ARCHITECTURE.md:60).
IdleTransfersEnd ==
    /\ HeldWhenIdle
    /\ running => idle <= IdleLimit + stuck
==============================================================================
