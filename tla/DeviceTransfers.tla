-------------------------- MODULE DeviceTransfers --------------------------
(***************************************************************************)
(* File transfers between two connected devices, as the Gateway relays     *)
(* them: internal/device/transfer.go, with the part of manager.go that     *)
(* attaches, detaches and closes the sessions a transfer runs on.          *)
(*                                                                         *)
(* The threads are the goroutines of the program: one reader per session   *)
(* (Manager.Serve), one that detaches the session for another reason       *)
(* (Manager.Monitor or a failed Call), one StartTransfer per transfer, the *)
(* timer goroutine of each transfer, Manager.Close, and tool calls that    *)
(* cancel.  A section under transferMu is one step, and every send to a    *)
(* device is a step of its own, between the section that decided it and    *)
(* the one that follows; `relay' is the transfer's relayMu, held across    *)
(* both.                                                                   *)
(***************************************************************************)
EXTENDS Naturals, FiniteSets, SequencesExt

CONSTANTS
    Devices,      \* the names devices register under
    Sessions,     \* every session that is ever attached
    Name,         \* Name[s] is the device name of session s
    HTTP,         \* the sessions carried by HTTP polling, not by WebSocket
    Monitored,    \* the sessions a Monitor or a failed Call may detach as well
    Transfers,    \* transfer ids
    Digests,      \* well-formed SHA-256 values
    MaxSize,      \* bound on the size a source declares
    MaxHistory,   \* maxTransferHistory
    Faults,       \* the faults that may happen, of AllFaults
    NoSession, NoTransfer, NoDigest

\* The network cuts a session off, a read loop or a monitor gives a session up,
\* Manager.Close is called, a Core breaks the protocol, a Core reports failure,
\* two minutes pass without progress.
AllFaults == {"loss", "detach", "close", "protocol", "peer", "idle"}

\* The goroutines that detach a session: its reader, and one of the others.
Detachers == {"serve", "caller"}

ASSUME ConstantsAssumption ==
    /\ Name \in [Sessions -> Devices]
    /\ HTTP \subseteq Sessions
    /\ Monitored \subseteq Sessions
    /\ IsFiniteSet(Transfers)
    /\ MaxSize \in Nat
    /\ MaxHistory \in Nat \ {0}
    /\ Faults \subseteq AllFaults
    /\ NoSession \notin Sessions
    /\ NoTransfer \notin Transfers
    /\ NoDigest \notin Digests

\* For the bound of the table: it is a number of devices.
ASSUME DevicesAssumption == IsFiniteSet(Devices)

VARIABLES
    \* registry and session life (manager.go)
    session,          \* session[d]: Device.session of the device named d
    life,             \* life[s]: not attached yet, healthy, cut off, closed
    detach,           \* detach[s][w]: where goroutine w is inside Detach(s)
    doomed,           \* doomed[s][w]: the ids it has still to fail
    closing,          \* Manager.Close
    \* the table of transfers (transfer.go, under transferMu)
    transfers,        \* keys of m.transfers
    activeTransfer,   \* m.activeTransfer
    history,          \* the final entries of m.transfers, by updatedAt
    state, cause,     \* t.State, and what t.Error was set for
    source, target,   \* t.source, t.target as StartTransfer resolved them
    prog,             \* what t records of its progress
    fresh,            \* t.updatedAt lies within transferIdleTimeout
    late,             \* late[t]: bytes a GET still writes whose sender gave up, or 0
    timer,            \* t.timer
    \* goroutines working on a transfer
    starter,          \* starter[t]: where the StartTransfer of t is
    relay,            \* t.relayMu, and the send made under it
    \* what was put on each session
    wire

registry == <<session, life>>
detaching == <<detach, doomed, closing>>
table == <<transfers, activeTransfer, history, state, cause>>
ends == <<source, target>>
work == <<prog, fresh, late>>
vars == <<registry, detaching, table, ends, work, timer, starter, relay, wire>>

----------------------------------------------------------------------------
ActiveStates == {"preparing", "transferring", "verifying"}
FinalStates == {"completed", "failed", "cancelled"}
Causes == {"none", "send", "protocol", "peer", "timeout", "disconnected",
           "shutdown", "cancelled"}

\* The sends made while relayMu is held.
SendSteps == {"startTarget", "startSource", "send", "chunk", "commit",
              "cancelSource", "cancelTarget"}

MessageTypes == {"start", "send", "chunk", "commit", "cancel"}
Message(type, t, seq, len) == [type |-> type, id |-> t, seq |-> seq, len |-> len]

SourceDevice(t) == Name[source[t]]
TargetDevice(t) == Name[target[t]]
Parties(t) == {SourceDevice(t), TargetDevice(t)}

\* m.transfers[id] == t && !isFinalTransferState(t.State)
Live(t) == t \in transfers /\ state[t] \in ActiveStates

\* t.ready is closed: the transfer left preparing, whichever way.
Ready(t) == state[t] \notin {"none", "preparing"}

Unlocked(t) == relay[t].pc = "free"
Unheld == [pc |-> "free", by |-> NoSession, len |-> 0]

NoProgress == [Size |-> 0, Transferred |-> 0, nextSeq |-> 0, SHA256 |-> NoDigest,
               sourceReady |-> FALSE, targetReady |-> FALSE]

RegistryOK ==
    /\ session \in [Devices -> Sessions \cup {NoSession}]
    /\ life \in [Sessions -> {"new", "open", "lost", "closed"}]

DetachingOK ==
    /\ detach \in [Sessions -> [Detachers -> {"idle", "close", "scan", "fail", "done"}]]
    /\ doomed \in [Sessions -> [Detachers -> SUBSET Transfers]]
    /\ closing \in [pc : {"idle", "fail", "close"}, at : Transfers \cup {NoTransfer},
                    doomed : SUBSET Transfers, sessions : SUBSET Sessions]

TableOK ==
    /\ transfers \in SUBSET Transfers
    /\ activeTransfer \in [Devices -> Transfers \cup {NoTransfer}]
    /\ history \in Seq(Transfers)
    /\ state \in [Transfers -> {"none"} \cup ActiveStates \cup FinalStates]
    /\ cause \in [Transfers -> Causes]

EndsOK ==
    /\ source \in [Transfers -> Sessions \cup {NoSession}]
    /\ target \in [Transfers -> Sessions \cup {NoSession}]

WorkOK ==
    /\ prog \in [Transfers -> [Size : Nat, Transferred : Nat, nextSeq : Nat,
                               SHA256 : Digests \cup {NoDigest},
                               sourceReady : BOOLEAN, targetReady : BOOLEAN]]
    /\ fresh \in [Transfers -> BOOLEAN]
    /\ late \in [Transfers -> Nat]

TimerOK == timer \in [Transfers -> {"off", "armed"}]

StarterOK == starter \in [Transfers -> {"idle", "resolve", "reserve", "lock", "starting",
                                        "waiting", "returned"}]

RelayOK == relay \in [Transfers -> [pc : SendSteps \cup {"free"},
                                    by : Sessions \cup {NoSession}, len : Nat]]

WireOK ==
    wire \in [Sessions -> Seq([type : MessageTypes, id : Transfers, seq : Nat, len : Nat])]

\* Every variable keeps its type: in particular sizes, byte counts and sequence
\* numbers stay natural numbers and a device is reserved for a transfer or none.
TypeOK ==
    /\ RegistryOK /\ DetachingOK /\ TableOK /\ EndsOK /\ WorkOK
    /\ TimerOK /\ StarterOK /\ RelayOK /\ WireOK

Init ==
    /\ session = [d \in Devices |-> NoSession]
    /\ life = [s \in Sessions |-> "new"]
    /\ detach = [s \in Sessions |-> [w \in Detachers |-> "idle"]]
    /\ doomed = [s \in Sessions |-> [w \in Detachers |-> {}]]
    /\ closing = [pc |-> "idle", at |-> NoTransfer, doomed |-> {}, sessions |-> {}]
    /\ transfers = {}
    /\ activeTransfer = [d \in Devices |-> NoTransfer]
    /\ history = <<>>
    /\ state = [t \in Transfers |-> "none"]
    /\ cause = [t \in Transfers |-> "none"]
    /\ source = [t \in Transfers |-> NoSession]
    /\ target = [t \in Transfers |-> NoSession]
    /\ prog = [t \in Transfers |-> NoProgress]
    /\ fresh = [t \in Transfers |-> FALSE]
    /\ late = [t \in Transfers |-> 0]
    /\ timer = [t \in Transfers |-> "off"]
    /\ starter = [t \in Transfers |-> "idle"]
    /\ relay = [t \in Transfers |-> Unheld]
    /\ wire = [s \in Sessions |-> <<>>]

----------------------------------------------------------------------------
(* Pieces of steps. *)

\* Variant of Settle that forgets the target's reservation.
SettleHalf(t, final, why) ==
    /\ state' = [state EXCEPT ![t] = final]
    /\ cause' = [cause EXCEPT ![t] = why]
    /\ history' = Append(history, t)
    /\ activeTransfer' = [activeTransfer EXCEPT ![SourceDevice(t)] = NoTransfer]
    /\ timer' = [timer EXCEPT ![t] = "off"]
    /\ UNCHANGED transfers

\* The transferMu section that makes t final.  releaseTransferDevicesLocked
\* stops the timer; one that already fired finds t final and does nothing, so
\* it is off as well.
Settle(t, final, why) ==
    /\ state' = [state EXCEPT ![t] = final]
    /\ cause' = [cause EXCEPT ![t] = why]
    /\ history' = Append(history, t)
    /\ activeTransfer' = [d \in Devices |->
            IF d \in Parties(t) /\ activeTransfer[d] = t
            THEN NoTransfer ELSE activeTransfer[d]]
    /\ timer' = [timer EXCEPT ![t] = "off"]
    /\ UNCHANGED transfers

Hold(t, step, by, len) ==
    relay' = [relay EXCEPT ![t] = [pc |-> step, by |-> by, len |-> len]]

\* relayMu is released; the StartTransfer that held it goes on to wait.
Release(t) ==
    /\ relay' = [relay EXCEPT ![t] = Unheld]
    /\ starter' = [starter EXCEPT ![t] = IF @ = "starting" THEN "waiting" ELSE @]

\* Variant of FailRelayLocked that does not look at the state again.
FailRelayLockedBlindly(t, why, by) ==
    /\ Settle(t, "failed", why)
    /\ Hold(t, "cancelSource", by, 0)
    /\ UNCHANGED starter

\* failTransferRelayLocked by goroutine `by': final first, then both peers are
\* sent transfer_cancel.  On a transfer that is already final it does nothing.
FailRelayLocked(t, why, by) ==
    IF Live(t)
    THEN /\ Settle(t, "failed", why)
         /\ Hold(t, "cancelSource", by, 0)
         /\ UNCHANGED starter
    ELSE /\ Release(t)
         /\ UNCHANGED <<table, timer>>

\* failTransfer: the same, once relayMu is free.
FailTransfer(t, why, by) == Unlocked(t) /\ FailRelayLocked(t, why, by)

\* A send to a session.  A closed session refuses; a connection that is cut off
\* swallows the message, and a WebSocket one may also report it.
Sent(s, message) ==
    /\ life[s] # "closed"
    /\ wire' = IF life[s] = "open" THEN [wire EXCEPT ![s] = Append(@, message)] ELSE wire

SendFails(s) ==
    /\ life[s] = "closed" \/ (life[s] = "lost" /\ s \notin HTTP)
    /\ UNCHANGED wire

\* An HTTP chunk is sent once the Core acknowledged it.
ChunkSent(s, message) == (s \in HTTP => life[s] = "open") /\ Sent(s, message)

\* The acknowledgement says no, does not come within 30 s, or the session closes.
\* The Core has not asked for the chunk by then, has its bytes, or waits for a GET
\* that looked the chunk up and has still to write it.
ChunkSendFails(t, chunk) ==
    LET s == target[t]
    IN \/ SendFails(s) /\ UNCHANGED late
       \/ s \in HTTP /\ life[s] # "closed" /\ UNCHANGED <<wire, late>>
       \/ s \in HTTP /\ life[s] = "open" /\ Sent(s, chunk) /\ UNCHANGED late
       \/ s \in HTTP /\ life[s] # "lost" /\ late' = [late EXCEPT ![t] = chunk.len]
                                        /\ UNCHANGED wire

----------------------------------------------------------------------------
(* The registry: Attach, the network, Detach, Close. *)

Attach(s) ==
    /\ life[s] = "new"
    /\ session[Name[s]] = NoSession
    /\ session' = [session EXCEPT ![Name[s]] = s]
    /\ life' = [life EXCEPT ![s] = "open"]
    /\ UNCHANGED <<detaching, table, ends, work, timer, starter, relay, wire>>

\* The Core dies or its network does; nothing in the Gateway knows yet.
ConnectionLost(s) ==
    /\ "loss" \in Faults
    /\ life[s] = "open"
    /\ life' = [life EXCEPT ![s] = "lost"]
    /\ UNCHANGED <<session, detaching, table, ends, work, timer, starter, relay, wire>>

\* The reader of s is between two frames.
Reading(s) ==
    /\ life[s] # "new"
    /\ detach[s]["serve"] = "idle"
    /\ \A t \in Transfers : relay[t].by # s

\* Detach begins: Serve when the read loop ends (receive or decode error),
\* another goroutine after missed heartbeats or ErrTransportClosed, which
\* includes a session that is detached already.
DetachUnbind(s, w) ==
    /\ life[s] # "new"
    /\ detach[s][w] = "idle"
    /\ w = "serve" => Reading(s)
    /\ w = "caller" => s \in Monitored
    /\ "detach" \in Faults \/ life[s] # "open"
    /\ session' = [session EXCEPT ![Name[s]] = IF @ = s THEN NoSession ELSE @]
    /\ detach' = [detach EXCEPT ![s][w] = "close"]
    /\ UNCHANGED <<life, doomed, closing, table, ends, work, timer, starter, relay, wire>>

DetachClose(s, w) ==
    /\ detach[s][w] = "close"
    /\ life' = [life EXCEPT ![s] = "closed"]
    /\ detach' = [detach EXCEPT ![s][w] = "scan"]
    /\ UNCHANGED <<session, doomed, closing, table, ends, work, timer, starter, relay, wire>>

\* Variant of DetachScan that takes a transfer in preparation for harmless.
DetachScanRunning(s, w) ==
    /\ detach[s][w] = "scan"
    /\ LET ids == {t \in transfers : Live(t) /\ Name[s] \in Parties(t) /\ Ready(t)}
       IN /\ doomed' = [doomed EXCEPT ![s][w] = ids]
          /\ detach' = [detach EXCEPT ![s][w] = IF ids = {} THEN "done" ELSE "fail"]
    /\ UNCHANGED <<registry, closing, table, ends, work, timer, starter, relay, wire>>

\* failTransfersForDevice collects the transfers of the device NAME ...
DetachScan(s, w) ==
    /\ detach[s][w] = "scan"
    /\ LET ids == {t \in transfers : Live(t) /\ Name[s] \in Parties(t)}
       IN /\ doomed' = [doomed EXCEPT ![s][w] = ids]
          /\ detach' = [detach EXCEPT ![s][w] = IF ids = {} THEN "done" ELSE "fail"]
    /\ UNCHANGED <<registry, closing, table, ends, work, timer, starter, relay, wire>>

\* ... and then fails them one by one.
DetachFail(s, w, t) ==
    /\ detach[s][w] = "fail"
    /\ t \in doomed[s][w]
    /\ FailTransfer(t, "disconnected", NoSession)
    /\ doomed' = [doomed EXCEPT ![s][w] = @ \ {t}]
    /\ detach' = [detach EXCEPT ![s][w] = IF doomed[s][w] = {t} THEN "done" ELSE "fail"]
    /\ UNCHANGED <<registry, closing, ends, work, wire>>

CloseScan ==
    /\ "close" \in Faults
    /\ closing.pc = "idle"
    /\ closing' = [closing EXCEPT !.pc = "fail", !.doomed = {t \in transfers : Live(t)}]
    /\ UNCHANGED <<registry, detach, doomed, table, ends, work, timer, starter, relay, wire>>

\* Close has left the failTransfer of the last id it took.
CloserFree == closing.at # NoTransfer => Unlocked(closing.at)

CloseFail(t) ==
    /\ closing.pc = "fail"
    /\ t \in closing.doomed
    /\ CloserFree
    /\ FailTransfer(t, "shutdown", NoSession)
    /\ closing' = [closing EXCEPT !.at = t, !.doomed = @ \ {t}]
    /\ UNCHANGED <<registry, detach, doomed, ends, work, wire>>

CloseUnbind ==
    /\ closing.pc = "fail"
    /\ closing.doomed = {}
    /\ CloserFree
    /\ closing' = [closing EXCEPT !.pc = "close",
                                  !.sessions = {s \in Sessions : session[Name[s]] = s}]
    /\ session' = [d \in Devices |-> NoSession]
    /\ UNCHANGED <<life, detach, doomed, table, ends, work, timer, starter, relay, wire>>

CloseSession(s) ==
    /\ closing.pc = "close"
    /\ s \in closing.sessions
    /\ closing' = [closing EXCEPT !.sessions = @ \ {s}]
    /\ life' = [life EXCEPT ![s] = "closed"]
    /\ UNCHANGED <<session, detach, doomed, table, ends, work, timer, starter, relay, wire>>

----------------------------------------------------------------------------
(* StartTransfer. *)

ResolveSource(t, d) ==
    /\ starter[t] = "idle"
    /\ session[d] # NoSession
    /\ source' = [source EXCEPT ![t] = session[d]]
    /\ starter' = [starter EXCEPT ![t] = "resolve"]
    /\ UNCHANGED <<registry, detaching, table, target, work, timer, relay, wire>>

ResolveTarget(t, d) ==
    /\ starter[t] = "resolve"
    /\ d # SourceDevice(t)
    /\ session[d] # NoSession
    /\ target' = [target EXCEPT ![t] = session[d]]
    /\ starter' = [starter EXCEPT ![t] = "reserve"]
    /\ UNCHANGED <<registry, detaching, table, source, work, timer, relay, wire>>

\* Variant of Busy that checks the source device only.
BusySource(t) == activeTransfer[SourceDevice(t)] # NoTransfer

Busy(t) == \E d \in Parties(t) : activeTransfer[d] # NoTransfer

\* ErrTransferDeviceBusy.
Refuse(t) ==
    /\ starter[t] = "reserve"
    /\ Busy(t)
    /\ starter' = [starter EXCEPT ![t] = "returned"]
    /\ UNCHANGED <<registry, detaching, table, ends, work, timer, relay, wire>>

\* Variant of PruneCount that keeps one entry too many.
PruneCountLate ==
    LET over == Cardinality(transfers) - MaxHistory
    IN IF Cardinality(transfers) < MaxHistory THEN 0
       ELSE IF over <= Len(history) THEN over ELSE Len(history)

\* pruneTransferHistoryLocked: the number of entries it deletes, the oldest
\* final ones first, to make room for one more.
PruneCount ==
    LET over == Cardinality(transfers) + 1 - MaxHistory
    IN IF Cardinality(transfers) < MaxHistory THEN 0
       ELSE IF over <= Len(history) THEN over ELSE Len(history)

Reserve(t) ==
    /\ starter[t] = "reserve"
    /\ ~Busy(t)
    /\ transfers' = (transfers \ {history[i] : i \in 1..PruneCount}) \cup {t}
    /\ history' = SubSeq(history, PruneCount + 1, Len(history))
    /\ activeTransfer' = [d \in Devices |-> IF d \in Parties(t) THEN t ELSE activeTransfer[d]]
    /\ state' = [state EXCEPT ![t] = "preparing"]
    /\ fresh' = [fresh EXCEPT ![t] = TRUE]
    /\ timer' = [timer EXCEPT ![t] = "armed"]
    /\ starter' = [starter EXCEPT ![t] = "lock"]
    /\ UNCHANGED <<registry, detaching, cause, ends, prog, late, relay, wire>>

\* transferMu was released before relayMu is taken, and the state is not
\* looked at again.
StartRelay(t) ==
    /\ starter[t] = "lock"
    /\ Unlocked(t)
    /\ Hold(t, "startTarget", NoSession, 0)
    /\ starter' = [starter EXCEPT ![t] = "starting"]
    /\ UNCHANGED <<registry, detaching, table, ends, work, timer, wire>>

\* The end of StartTransfer when t.ready is closed.
Return(t) ==
    /\ starter[t] = "waiting"
    /\ Ready(t)
    /\ starter' = [starter EXCEPT ![t] = "returned"]
    /\ UNCHANGED <<registry, detaching, table, ends, work, timer, relay, wire>>

\* Variant of CancelTransfer that does not take relayMu.
CancelTransferUnlocked(t) ==
    /\ starter[t] \in {"waiting", "returned"}
    /\ Live(t)
    /\ Settle(t, "cancelled", "cancelled")
    /\ wire' = [s \in Sessions |-> IF s \in {source[t], target[t]} /\ life[s] = "open"
                                   THEN Append(wire[s], Message("cancel", t, 0, 0))
                                   ELSE wire[s]]
    /\ UNCHANGED <<registry, detaching, ends, work, starter, relay>>

\* CancelTransfer: by StartTransfer itself when the request's context is done,
\* or by a later tool call (only StartTransfer's answer tells the id).
CancelTransfer(t) ==
    /\ starter[t] \in {"waiting", "returned"}
    /\ Unlocked(t)
    /\ Live(t)
    /\ Settle(t, "cancelled", "cancelled")
    /\ Hold(t, "cancelSource", NoSession, 0)
    /\ UNCHANGED <<registry, detaching, ends, work, starter, wire>>

----------------------------------------------------------------------------
(* The sends made under relayMu. *)

\* Variant of SendThen that ignores the error of the send.
SendThenIgnoring(t, step, s, type, next) ==
    /\ relay[t].pc = step
    /\ Sent(s, Message(type, t, 0, 0)) \/ SendFails(s)
    /\ IF next = "free" THEN Release(t)
       ELSE relay' = [relay EXCEPT ![t].pc = next] /\ UNCHANGED starter
    /\ UNCHANGED <<registry, detaching, table, ends, work, timer>>

\* A control message that is followed by `next', or by the end of the section.
SendThen(t, step, s, type, next) ==
    /\ relay[t].pc = step
    /\ \/ /\ Sent(s, Message(type, t, 0, 0))
          /\ IF next = "free" THEN Release(t)
             ELSE relay' = [relay EXCEPT ![t].pc = next] /\ UNCHANGED starter
          /\ UNCHANGED <<table, timer>>
       \/ /\ SendFails(s)
          /\ FailRelayLocked(t, "send", relay[t].by)
    /\ UNCHANGED <<registry, detaching, ends, work>>

SendTargetStart(t) == SendThen(t, "startTarget", target[t], "start", "startSource")
SendSourceStart(t) == SendThen(t, "startSource", source[t], "start", "free")
SendSend(t) == SendThen(t, "send", source[t], "send", "free")
SendCommit(t) == SendThen(t, "commit", target[t], "commit", "free")

\* Variant of Counted that forgets the sequence number.
CountedBytesOnly(t) == [prog[t] EXCEPT !.Transferred = @ + relay[t].len]

\* What t records once its chunk is relayed.
Counted(t) == [prog[t] EXCEPT !.nextSeq = @ + 1, !.Transferred = @ + relay[t].len]

\* The chunk goes to the target, then it is counted.
SendChunk(t) ==
    LET chunk == Message("chunk", t, prog[t].nextSeq, relay[t].len)
    IN /\ relay[t].pc = "chunk"
       /\ \/ /\ ChunkSent(target[t], chunk)
             /\ prog' = [prog EXCEPT ![t] = Counted(t)]
             /\ fresh' = [fresh EXCEPT ![t] = TRUE]
             /\ Release(t)
             /\ UNCHANGED <<late, table, timer>>
          \/ /\ ChunkSendFails(t, chunk)
             /\ FailRelayLocked(t, "send", relay[t].by)
             /\ UNCHANGED <<prog, fresh>>
       /\ UNCHANGED <<registry, detaching, ends>>

\* The GET writes the bytes it holds: it looks neither at the slot nor at the
\* transfer again, which has failed, nor at the session, which may be closed.
LateChunk(t) ==
    /\ late[t] # 0
    /\ life[target[t]] # "lost"
    /\ wire' = [wire EXCEPT ![target[t]] =
                    Append(@, Message("chunk", t, prog[t].nextSeq, late[t]))]
    /\ late' = [late EXCEPT ![t] = 0]
    /\ UNCHANGED <<registry, detaching, table, ends, prog, fresh, timer, starter, relay>>

\* transfer_cancel: its failure is ignored.
SendCancelSource(t) ==
    /\ relay[t].pc = "cancelSource"
    /\ Sent(source[t], Message("cancel", t, 0, 0)) \/ SendFails(source[t])
    /\ relay' = [relay EXCEPT ![t].pc = "cancelTarget"]
    /\ UNCHANGED <<registry, detaching, table, ends, work, timer, starter>>

SendCancelTarget(t) ==
    /\ relay[t].pc = "cancelTarget"
    /\ Sent(target[t], Message("cancel", t, 0, 0)) \/ SendFails(target[t])
    /\ Release(t)
    /\ UNCHANGED <<registry, detaching, table, ends, work, timer>>

----------------------------------------------------------------------------
(* What a Core says about a transfer it was told of.  Messages that the       *)
(* handlers drop, because the transfer is final or in another state or the    *)
(* session is not the one they expect, change nothing and are left out.       *)

Told(s, t, type) == \E i \in DOMAIN wire[s] : wire[s][i].type = type /\ wire[s][i].id = t

\* The reader of s hands a message about t to a handler that takes relayMu.
Handling(s, t) ==
    /\ Reading(s)
    /\ Told(s, t, "start")
    /\ Unlocked(t)
    /\ Live(t)

\* The state moves to transferring once both ends are ready.
BecomeReady(s, t, ready) ==
    /\ prog' = [prog EXCEPT ![t] = ready]
    /\ fresh' = [fresh EXCEPT ![t] = TRUE]
    /\ IF ready.sourceReady /\ ready.targetReady
       THEN /\ state' = [state EXCEPT ![t] = "transferring"]
            /\ Hold(t, "send", s, 0)
       ELSE UNCHANGED <<state, relay>>
    /\ UNCHANGED <<registry, detaching, transfers, activeTransfer, history, cause, ends,
                   late, timer, starter, wire>>

\* Variant of SourceReady that declares one byte less.
SourceReadyShort(s, t, size) ==
    /\ Handling(s, t)
    /\ s = source[t]
    /\ state[t] = "preparing"
    /\ BecomeReady(s, t, [prog[t] EXCEPT !.sourceReady = TRUE, !.Size = size - 1])

SourceReady(s, t, size) ==
    /\ Handling(s, t)
    /\ s = source[t]
    /\ state[t] = "preparing"
    /\ BecomeReady(s, t, [prog[t] EXCEPT !.sourceReady = TRUE, !.Size = size])

TargetReady(s, t) ==
    /\ Handling(s, t)
    /\ s = target[t]
    /\ state[t] = "preparing"
    /\ BecomeReady(s, t, [prog[t] EXCEPT !.targetReady = TRUE])

\* Variant of SourceChunk that does not bound the bytes by the declared size.
SourceChunkUnbounded(s, t, seq, len) ==
    LET by == IF s \in HTTP THEN NoSession ELSE s
    IN /\ IF s \in HTTP THEN Told(s, t, "start") /\ Unlocked(t) /\ Live(t)
                        ELSE Handling(s, t)
       /\ s = source[t]
       /\ state[t] = "transferring"
       /\ seq = prog[t].nextSeq
       /\ Hold(t, "chunk", by, len)
       /\ UNCHANGED <<registry, detaching, table, ends, work, timer, starter, wire>>

\* handleTransferChunk: on the reader of a WebSocket session, on a request's
\* own goroutine (by = NoSession) for HTTP, where chunks may overlap anything.
SourceChunk(s, t, seq, len) ==
    LET by == IF s \in HTTP THEN NoSession ELSE s
    IN /\ IF s \in HTTP THEN Told(s, t, "start") /\ Unlocked(t) /\ Live(t)
                        ELSE Handling(s, t)
       /\ s = source[t]
       /\ state[t] = "transferring"
       /\ IF seq = prog[t].nextSeq /\ prog[t].Transferred + len <= prog[t].Size
          THEN Hold(t, "chunk", by, len) /\ UNCHANGED <<table, timer, starter>>
          ELSE "protocol" \in Faults /\ FailRelayLocked(t, "protocol", by)
       /\ UNCHANGED <<registry, detaching, ends, work, wire>>

\* transferSourceFinish: a malformed digest fails the transfer whatever its
\* state and whichever peer sent it.
SourceFinish(s, t, size, digest) ==
    /\ Handling(s, t)
    /\ \/ /\ digest = NoDigest
          /\ "protocol" \in Faults
          /\ FailRelayLocked(t, "protocol", s)
          /\ UNCHANGED work
       \/ /\ digest # NoDigest
          /\ s = source[t]
          /\ state[t] = "transferring"
          /\ IF size = prog[t].Size /\ prog[t].Transferred = prog[t].Size
             THEN /\ state' = [state EXCEPT ![t] = "verifying"]
                  /\ prog' = [prog EXCEPT ![t].SHA256 = digest]
                  /\ fresh' = [fresh EXCEPT ![t] = TRUE]
                  /\ Hold(t, "commit", s, 0)
                  /\ UNCHANGED <<late, transfers, activeTransfer, history, cause, timer,
                                 starter>>
             ELSE /\ "protocol" \in Faults
                  /\ FailRelayLocked(t, "protocol", s)
                  /\ UNCHANGED work
    /\ UNCHANGED <<registry, detaching, ends, wire>>

\* transferTargetFinish completes without relayMu; only a mismatch needs it.  That the
\* Core was told to commit is an assumption on it: the handler looks at the state only,
\* which turns before the commit is sent.
TargetFinish(s, t, size, digest) ==
    /\ Reading(s)
    /\ Told(s, t, "commit")
    /\ Live(t)
    /\ s = target[t]
    /\ state[t] = "verifying"
    /\ IF size = prog[t].Size /\ digest = prog[t].SHA256
       THEN /\ Settle(t, "completed", "none")
            /\ prog' = [prog EXCEPT ![t].Transferred = prog[t].Size]
            /\ UNCHANGED <<fresh, late, relay, starter>>
       ELSE /\ "protocol" \in Faults
            /\ FailTransfer(t, "protocol", s)
            /\ UNCHANGED work
    /\ UNCHANGED <<registry, detaching, ends, wire>>

\* transfer_failed from either end, transfer_source_cancelled from the source.
PeerFailed(s, t) ==
    /\ "peer" \in Faults
    /\ Handling(s, t)
    /\ s \in {source[t], target[t]}
    /\ FailRelayLocked(t, "peer", s)
    /\ UNCHANGED <<registry, detaching, ends, work, wire>>

----------------------------------------------------------------------------
(* Timers. *)

\* Two minutes pass since t.updatedAt.
GoIdle(t) ==
    /\ "idle" \in Faults
    /\ Live(t)
    /\ fresh[t]
    /\ fresh' = [fresh EXCEPT ![t] = FALSE]
    /\ UNCHANGED <<registry, detaching, table, ends, prog, late, timer, starter, relay, wire>>

\* Variant of Expire that is not armed again after progress.
ExpireOnce(t) ==
    /\ timer[t] = "armed"
    /\ Unlocked(t)
    /\ IF fresh[t]
       THEN timer' = [timer EXCEPT ![t] = "off"] /\ UNCHANGED <<table, starter, relay>>
       ELSE FailRelayLocked(t, "timeout", NoSession)
    /\ UNCHANGED <<registry, detaching, ends, work, wire>>

\* expireTransfer, run by the timer once it has relayMu: armed again for the
\* rest of the two minutes if there was progress, else the transfer fails.  How
\* long the goroutine waits for relayMu is not visible to anything.
Expire(t) ==
    /\ timer[t] = "armed"
    /\ Unlocked(t)
    /\ IF fresh[t]
       THEN timer' = [timer EXCEPT ![t] = "armed"] /\ UNCHANGED <<table, starter, relay>>
       ELSE FailRelayLocked(t, "timeout", NoSession)
    /\ UNCHANGED <<registry, detaching, ends, work, wire>>

----------------------------------------------------------------------------
Sizes == 0..MaxSize

RelayStep(t) ==
    \/ SendTargetStart(t) \/ SendSourceStart(t) \/ SendSend(t) \/ SendChunk(t)
    \/ SendCommit(t) \/ SendCancelSource(t) \/ SendCancelTarget(t)

StartStep(t) == Refuse(t) \/ Reserve(t) \/ StartRelay(t) \/ Return(t)

CoreStep(s, t) ==
    \/ \E n \in Sizes : SourceReady(s, t, n)
    \/ TargetReady(s, t)
    \/ \E seq \in Sizes, n \in Sizes \ {0} : SourceChunk(s, t, seq, n)
    \/ \E n \in Sizes, h \in Digests \cup {NoDigest} : SourceFinish(s, t, n, h)
    \/ \E n \in Sizes, h \in Digests \cup {NoDigest} : TargetFinish(s, t, n, h)
    \/ PeerFailed(s, t)

DetachStep(s, w) ==
    \/ DetachClose(s, w) \/ DetachScan(s, w) \/ \E t \in Transfers : DetachFail(s, w, t)

CloseStep ==
    CloseUnbind \/ (\E t \in Transfers : CloseFail(t)) \/ (\E s \in Sessions : CloseSession(s))

Next ==
    \/ \E s \in Sessions : Attach(s) \/ ConnectionLost(s)
    \/ \E s \in Sessions, w \in Detachers : DetachUnbind(s, w) \/ DetachStep(s, w)
    \/ CloseScan \/ CloseStep
    \/ \E t \in Transfers, d \in Devices : ResolveSource(t, d) \/ ResolveTarget(t, d)
    \/ \E t \in Transfers : StartStep(t) \/ CancelTransfer(t) \/ RelayStep(t) \/ LateChunk(t)
    \/ \E s \in Sessions, t \in Transfers : CoreStep(s, t)
    \/ \E t \in Transfers : GoIdle(t) \/ Expire(t)

Spec == Init /\ [][Next]_vars
----------------------------------------------------------------------------
(* Properties. *)

\* The messages about t that s was sent, in order.
About(s, t) == SelectSeq(wire[s], LAMBDA m : m.id = t)

\* Where the chunks of t are among what s was sent.
ChunksAt(s, t) == {i \in DOMAIN wire[s] : wire[s][i].id = t /\ wire[s][i].type = "chunk"}

\* offset[i] is the place in the file of the chunk at i: the chunks of t are laid
\* end to end in the order of their numbers, and none goes past the declared size.
Laid(t, offset) ==
    LET w == wire[target[t]]
    IN /\ offset \in [ChunksAt(target[t], t) -> 0..prog[t].Size]
       /\ \A i \in DOMAIN offset :
             /\ w[i].seq = 0 => offset[i] = 0
             /\ offset[i] + w[i].len <= prog[t].Size
             /\ \A j \in DOMAIN offset :
                   w[j].seq = w[i].seq + 1 => offset[j] = offset[i] + w[i].len

\* The first n bytes of the file are in the chunks.
Covered(t, offset, n) ==
    \A byte \in 1..n : \E i \in DOMAIN offset :
        offset[i] < byte /\ byte <= offset[i] + wire[target[t]][i].len

\* A device is reserved for a transfer exactly while that transfer is in the
\* table, is not final, and has the device as one of its two ends: two live
\* transfers never share a device and no reservation outlives its transfer
\* (activeTransfer, releaseTransferDevicesLocked).
ReservationsMatch ==
    \A t \in Transfers :
        /\ state[t] \in ActiveStates => t \in transfers
        /\ \A d \in Devices :
              activeTransfer[d] = t <=> state[t] \in ActiveStates /\ d \in Parties(t)

\* What makes the match inductive.  A StartTransfer that has not reserved yet has
\* no state and no lock, one that has reserved has two sessions of different
\* devices, and the entries that may be pruned are final.
Early == {"idle", "resolve", "reserve"}

StartOrder ==
    \A t \in Transfers :
        /\ starter[t] # "idle" => source[t] \in Sessions
        /\ starter[t] \notin {"idle", "resolve"} =>
              target[t] \in Sessions /\ SourceDevice(t) # TargetDevice(t)
        /\ starter[t] \in Early => state[t] = "none" /\ Unlocked(t)

HistoryFinal == \A i \in DOMAIN history : state[history[i]] \in FinalStates

\* A device is bound only to a session that registered under its name.
RegisteredByName == \A d \in Devices : session[d] # NoSession => Name[session[d]] = d

Inductive == TypeOK /\ RegisteredByName /\ StartOrder /\ HistoryFinal /\ ReservationsMatch

\* The table keeps at most maxTransferHistory entries, unless every one of them
\* was live at once, and each live transfer takes two devices
\* (pruneTransferHistoryLocked).
TableBounded ==
    \/ Cardinality(transfers) <= MaxHistory
    \/ 2 * Cardinality(transfers) <= Cardinality(Devices)

\* Whatever races with the relay, the target's session carries the chunks of a
\* transfer numbered from 0 without a gap, after its start, and the source's
\* session carries none (handleTransferChunk).
RelayedInOrder ==
    \A t \in Transfers : source[t] # NoSession /\ target[t] # NoSession =>
        LET w == wire[target[t]]
            at == ChunksAt(target[t], t)
        IN /\ \A i, j \in at : i < j => w[i].seq < w[j].seq
           /\ \A i \in at : w[i].seq = 0 \/ \E j \in at : w[j].seq = w[i].seq - 1
           /\ \A i \in at : \E j \in DOMAIN w : j < i /\ w[j].type = "start" /\ w[j].id = t
           /\ ChunksAt(source[t], t) = {}

\* The target is relayed no more than the declared bytes, and a transfer is
\* completed only after its target was told to start, was relayed every one of
\* them, and was told to commit, with no cancel in between (transferSourceFinish,
\* transferTargetFinish; ARCHITECTURE.md:58).  That the commit comes before the
\* completion rests on a Core that finishes only when told to (TargetFinish).
DeliveredAsDeclared ==
    \A t \in Transfers : target[t] # NoSession =>
        LET w == wire[target[t]]
        IN /\ \E offset \in [ChunksAt(target[t], t) -> 0..prog[t].Size] :
                 /\ Laid(t, offset)
                 /\ state[t] = "completed" => Covered(t, offset, prog[t].Size)
           /\ state[t] = "completed" =>
                 \E first, last \in DOMAIN w :
                    /\ first < last
                    /\ w[first].type = "start" /\ w[first].id = t
                    /\ w[last].type = "commit" /\ w[last].id = t
                    /\ \A i \in DOMAIN w \ {first, last} : w[i].id = t =>
                          first < i /\ i < last /\ w[i].type = "chunk"

\* Once a session was sent transfer_cancel, no commit and no request to send
\* follows for that transfer, and no chunk is sent (the reason relayMu spans the
\* sends; ARCHITECTURE.md:60).  Bytes may still arrive, against that text: those of
\* the one chunk whose failed send ended the transfer, at a Core that polls, from a
\* GET that was under way (http.go:313, http.go:328).
NoNewDataAfterCancel ==
    \A s \in Sessions : \A i, j \in DOMAIN wire[s] :
        LET t == wire[s][i].id
        IN i < j /\ wire[s][j].id = t /\ wire[s][i].type = "cancel"
            => /\ wire[s][j].type \notin {"commit", "send"}
               /\ wire[s][j].type = "chunk" =>
                    /\ s \in HTTP /\ s = target[t] /\ cause[t] = "send"
                    /\ wire[s][j].seq = prog[t].nextSeq
                    /\ \A k \in DOMAIN wire[s] : wire[s][k].id = t /\ wire[s][k].type = "chunk"
                            => k <= j

\* A live transfer whose session was closed still has a goroutine that will end
\* it: the StartTransfer whose next send fails, or a Detach of that session
\* that has not looked at the table yet or holds the id (the order of Detach:
\* unbind, close, then scan).
NoOrphanReservation ==
    \A t \in Transfers : Live(t) => \A s \in {source[t], target[t]} :
        life[s] = "closed" =>
            \/ starter[t] \in {"lock", "starting"}
            \/ detach[s]["serve"] \in {"idle", "close", "scan"}
            \/ t \in doomed[s]["serve"]

\* A final transfer keeps its state and its error, whatever message, timer,
\* cancel or disconnect was already on its way.
FinalIsForever ==
    [][\A t \in Transfers : state[t] \in FinalStates =>
            state'[t] = state[t] /\ cause'[t] = cause[t]]_vars

\* "losing a transport marks the device offline without conflating the device
\* identity with that particular socket" (manager.go:52): a transfer fails with
\* "device disconnected" only if one of its own two sessions is gone.
DisconnectMeansGone ==
    \A t \in Transfers : cause[t] = "disconnected" =>
        \E s \in {source[t], target[t]} : life[s] \in {"lost", "closed"}

\* "Cancellation/failure removes the temporary file" (README.md:107): when every
\* goroutine is done with a failed or cancelled transfer, a Core that is still
\* connected and was told to start was told to cancel afterwards.
StartedPeersAreCancelled ==
    \A t \in Transfers :
        /\ state[t] \in {"failed", "cancelled"}
        /\ starter[t] \in {"waiting", "returned"}
        /\ Unlocked(t)
        => \A s \in {source[t], target[t]} :
              life[s] = "open" /\ About(s, t) # <<>> => Last(About(s, t)).type = "cancel"

----------------------------------------------------------------------------
(* Liveness. *)

\* Scheduled goroutines run, sends return, timers fire, and the reader of a
\* closed session gets its error.
Fairness ==
    /\ \A t \in Transfers :
        /\ WF_vars(StartStep(t))
        /\ WF_vars(RelayStep(t))
        /\ WF_vars(Expire(t))
    /\ \A s \in Sessions :
        /\ WF_vars(life[s] = "closed" /\ DetachUnbind(s, "serve"))
        /\ \A w \in Detachers : WF_vars(DetachStep(s, w))
    /\ WF_vars(CloseStep)

LiveSpec == Spec /\ Fairness

\* "Transfers with no preparation or data progress for two minutes fail
\* automatically and release both device reservations" (ARCHITECTURE.md:60).
StaleTransfersEnd ==
    \A t \in Transfers : (Live(t) /\ ~fresh[t]) ~> (~Live(t) \/ fresh[t])

\* When the session of one end is closed, the transfer ends, whatever it was
\* doing, and a StartTransfer that waits for its peers returns.
ClosedSessionEndsTransfer ==
    \A t \in Transfers :
        (Live(t) /\ \E s \in {source[t], target[t]} : life[s] = "closed")
            ~> (~Live(t) /\ starter[t] = "returned" /\ Unlocked(t))

----------------------------------------------------------------------------
(* The contract.  A client sees a size once the transfer runs. *)

SizeSeen == [t \in Transfers |->
    IF prog[t].sourceReady /\ prog[t].targetReady THEN prog[t].Size ELSE 0]

Contract == INSTANCE FileTransfer WITH
    phase <- state, holder <- activeTransfer, size <- SizeSeen,
    moved <- [t \in Transfers |-> prog[t].Transferred]

\* Every step of the relay, with its sessions, locks and races, is a step of
\* FileTransfer or leaves what a client sees alone.
ImplementsContract == Contract!Spec
============================================================================
