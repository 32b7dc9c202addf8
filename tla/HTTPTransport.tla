--------------------------- MODULE HTTPTransport ---------------------------
(***************************************************************************)
(* The Gateway's end of a session with a Core that polls over HTTP:        *)
(* httpTransport and httpHandler of internal/device/http.go.               *)
(*                                                                         *)
(* A message is queued until a poll takes it.  A chunk is offered in one   *)
(* slot and announced through the queue; the Core fetches it with a GET    *)
(* and acknowledges it with a POST, and its sender waits for that.  Every  *)
(* request of the Core runs on a goroutine of its own, so one whose        *)
(* connection broke may still be at work while the Core repeats it.        *)
(*                                                                         *)
(* Messages are numbered in the order in which Session.sendMu lets their   *)
(* senders through, so there is one sender at a time.                      *)
(***************************************************************************)
EXTENDS Integers, Sequences, SequencesExt, FiniteSets

CONSTANTS
    MaxSent,      \* messages sent on the session
    Chunks,       \* which of them are chunks of a transfer
    QueueSize,    \* httpOutboundQueue
    MaxRequests,  \* requests about chunks under way at a time
    Faults        \* "loss": a connection of the Core breaks; "close"

ASSUME TransportAssumption ==
    /\ MaxSent \in Nat
    /\ Chunks \subseteq 1..MaxSent
    /\ QueueSize \in Nat \ {0}
    /\ MaxRequests \in Nat
    /\ Faults \subseteq {"loss", "close"}

VARIABLES
    hello,        \* how far handleHello is
    entry,        \* httpHandler.sessions has the session: lookup finds it
    done,         \* httpTransport.done is closed
    closing,      \* Close has closed it and not yet called onClose
    outbound,     \* httpTransport.outbound
    slot,         \* httpTransport.chunk, 0 for nil
    ack,          \* ack[n]: what is in the ack channel of chunk n
    sender,       \* where the goroutine in Send or SendTransferChunk is
    current,      \* the message it sends
    result,       \* result[n]: what its caller was told
    polling,      \* the poll the Core waits for
    stray,        \* an older poll, of a connection that broke
    gets,         \* <<n, live>>: chunk n was looked up and is being written
    ackers,       \* <<n, verdict>>: an acknowledgement that found chunk n
    received,     \* what the Core's polls returned to it
    held          \* the chunks whose bytes the Core has

chunk == <<slot, ack>>
sending == <<sender, current, result>>
polls == <<polling, stray>>
peer == <<received, held>>
session == <<hello, entry, done, closing>>
vars == <<session, outbound, chunk, sending, polls, gets, ackers, peer>>

Messages == 1..MaxSent
Verdicts == {"ok", "error"}

TypeOK ==
    /\ hello \in {"attached", "hooked", "listed"}
    /\ entry \in BOOLEAN /\ done \in BOOLEAN /\ closing \in BOOLEAN
    /\ outbound \in Seq(Messages) /\ Len(outbound) <= QueueSize
    /\ slot \in Chunks \cup {0}
    /\ ack \in [Chunks -> Verdicts \cup {"empty"}]
    /\ sender \in {"idle", "putting", "waiting", "clearing"}
    /\ current \in 0..MaxSent
    /\ result \in [Messages -> Verdicts \cup {"none"}]
    /\ polling \in BOOLEAN /\ stray \in BOOLEAN
    /\ gets \subseteq Chunks \X BOOLEAN
    /\ ackers \subseteq Chunks \X Verdicts
    /\ received \in Seq(Messages)
    /\ held \subseteq Chunks

Init ==
    /\ hello = "attached" /\ entry = FALSE /\ done = FALSE /\ closing = FALSE
    /\ outbound = <<>>
    /\ slot = 0 /\ ack = [n \in Chunks |-> "empty"]
    /\ sender = "idle" /\ current = 0 /\ result = [n \in Messages |-> "none"]
    /\ polling = FALSE /\ stray = FALSE
    /\ gets = {} /\ ackers = {}
    /\ received = <<>> /\ held = {}

Loss == "loss" \in Faults

RoomForRequest == Cardinality(gets) + Cardinality(ackers) < MaxRequests

----------------------------------------------------------------------------
(* The session.  Manager.Attach has already made it known, so messages may be *)
(* queued, and Manager.Close may close it, before the Core can poll for them. *)

\* transport.onClose is set ...
Hook ==
    /\ hello = "attached"
    /\ hello' = "hooked"
    /\ UNCHANGED <<entry, done, closing, outbound, chunk, sending, polls, gets, ackers, peer>>

\* ... and the entry is made, whether or not the transport was closed meanwhile.
List ==
    /\ hello = "hooked"
    /\ hello' = "listed" /\ entry' = TRUE
    /\ UNCHANGED <<done, closing, outbound, chunk, sending, polls, gets, ackers, peer>>

\* By Serve or Monitor, which start once the session is listed, or by Manager.Close,
\* which does not wait for that.
Close ==
    /\ "close" \in Faults
    /\ ~done
    /\ done' = TRUE /\ closing' = TRUE
    /\ UNCHANGED <<hello, entry, outbound, chunk, sending, polls, gets, ackers, peer>>

\* The rest of Close: onClose removes the entry.  Before the hook there is no onClose
\* to call, and before the listing nothing to remove: the entry is then made later
\* and stays.
Unlist ==
    /\ closing
    /\ closing' = FALSE
    /\ entry' = FALSE
    /\ UNCHANGED <<hello, done, outbound, chunk, sending, polls, gets, ackers, peer>>

----------------------------------------------------------------------------
(* Send and SendTransferChunk. *)

Told(n, verdict) == result' = [result EXCEPT ![n] = verdict]

\* A chunk takes the slot, which must be free.
Offer ==
    LET n == current + 1 IN
    /\ sender = "idle" /\ n \in Messages
    /\ current' = n
    /\ \/ n \notin Chunks /\ sender' = "putting" /\ UNCHANGED <<slot, result>>
       \/ n \in Chunks /\ slot = 0 /\ slot' = n /\ sender' = "putting" /\ UNCHANGED result
       \/ n \in Chunks /\ slot # 0 /\ Told(n, "error") /\ UNCHANGED <<slot, sender>>
    /\ UNCHANGED <<session, outbound, ack, polls, gets, ackers, peer>>

\* Variant of Put that waits for the queue alone.
PutWhenRoom ==
    /\ sender = "putting"
    /\ Len(outbound) < QueueSize
    /\ outbound' = Append(outbound, current)
    /\ IF current \in Chunks THEN sender' = "waiting" /\ UNCHANGED result
       ELSE sender' = "idle" /\ Told(current, "ok")
    /\ UNCHANGED <<session, chunk, current, polls, gets, ackers, peer>>

\* Variant of Put with a queue that takes one message too many.
PutOneMore ==
    /\ sender = "putting"
    /\ Len(outbound) <= QueueSize
    /\ outbound' = Append(outbound, current)
    /\ IF current \in Chunks THEN sender' = "waiting" /\ UNCHANGED result
       ELSE sender' = "idle" /\ Told(current, "ok")
    /\ UNCHANGED <<session, chunk, current, polls, gets, ackers, peer>>

\* With the queue full only the close of the transport ends the wait.
Put ==
    /\ sender = "putting"
    /\ \/ /\ Len(outbound) < QueueSize
          /\ outbound' = Append(outbound, current)
          /\ IF current \in Chunks THEN sender' = "waiting" /\ UNCHANGED result
             ELSE sender' = "idle" /\ Told(current, "ok")
       \/ /\ done
          /\ Told(current, "error")
          /\ sender' = IF current \in Chunks THEN "clearing" ELSE "idle"
          /\ UNCHANGED outbound
    /\ UNCHANGED <<session, chunk, current, polls, gets, ackers, peer>>

\* The select at the end of SendTransferChunk: the acknowledgement ...
TakeAck ==
    /\ sender = "waiting"
    /\ ack[current] # "empty"
    /\ Told(current, ack[current])
    /\ ack' = [ack EXCEPT ![current] = "empty"]
    /\ sender' = "clearing"
    /\ UNCHANGED <<session, outbound, slot, current, polls, gets, ackers, peer>>

\* Variant of GiveUp that returns without the deferred reset of the slot.
GiveUpHoldingSlot ==
    /\ sender = "waiting"
    /\ Told(current, "error")
    /\ sender' = "idle"
    /\ UNCHANGED <<session, outbound, chunk, current, polls, gets, ackers, peer>>

\* ... or the thirty seconds of its timer ...
GiveUp ==
    /\ sender = "waiting"
    /\ Told(current, "error")
    /\ sender' = "clearing"
    /\ UNCHANGED <<session, outbound, chunk, current, polls, gets, ackers, peer>>

\* ... or the close.
CutOff ==
    /\ sender = "waiting" /\ done
    /\ Told(current, "error")
    /\ sender' = "clearing"
    /\ UNCHANGED <<session, outbound, chunk, current, polls, gets, ackers, peer>>

Clear ==
    /\ sender = "clearing"
    /\ slot' = IF slot = current THEN 0 ELSE slot
    /\ sender' = "idle"
    /\ UNCHANGED <<session, outbound, ack, current, result, polls, gets, ackers, peer>>

----------------------------------------------------------------------------
(* handlePoll.  The payload has left the queue when it is written: if the     *)
(* connection is gone by then, it is lost.                                    *)

Poll ==
    /\ entry /\ ~polling
    /\ polling' = TRUE
    /\ UNCHANGED <<session, outbound, chunk, sending, stray, gets, ackers, peer>>

PollTakes ==
    /\ polling /\ outbound # <<>>
    /\ received' = Append(received, Head(outbound))
    /\ outbound' = Tail(outbound)
    /\ polling' = FALSE
    /\ UNCHANGED <<session, chunk, sending, stray, gets, ackers, held>>

\* Twenty seconds without a message.
PollTimesOut ==
    /\ polling
    /\ polling' = FALSE
    /\ UNCHANGED <<session, outbound, chunk, sending, stray, gets, ackers, peer>>

\* The session is closed.
PollClosed ==
    /\ polling /\ done
    /\ polling' = FALSE
    /\ UNCHANGED <<session, outbound, chunk, sending, stray, gets, ackers, peer>>

PollBreaks ==
    /\ Loss /\ polling /\ ~stray
    /\ polling' = FALSE /\ stray' = TRUE
    /\ UNCHANGED <<session, outbound, chunk, sending, gets, ackers, peer>>

StrayTakes ==
    /\ stray /\ outbound # <<>>
    /\ outbound' = Tail(outbound)
    /\ stray' = FALSE
    /\ UNCHANGED <<session, chunk, sending, polling, gets, ackers, peer>>

\* Its twenty seconds are over, or its request's context is.
StrayLeaves ==
    /\ stray
    /\ stray' = FALSE
    /\ UNCHANGED <<session, outbound, chunk, sending, polling, gets, ackers, peer>>

StrayClosed ==
    /\ stray /\ done
    /\ stray' = FALSE
    /\ UNCHANGED <<session, outbound, chunk, sending, polling, gets, ackers, peer>>

----------------------------------------------------------------------------
(* handleTransferChunk, GET: the slot is read under chunkMu, the bytes are    *)
(* written later, whether or not the chunk is still the one in the slot.      *)

\* The Core asks for a chunk it was told of; any other than the slot's is refused.
Get(n) ==
    /\ entry /\ RoomForRequest
    /\ n \in ToSet(received) /\ slot = n
    /\ gets' = gets \cup {<<n, TRUE>>}
    /\ UNCHANGED <<session, outbound, chunk, sending, polls, ackers, peer>>

Written(n) ==
    /\ <<n, TRUE>> \in gets
    /\ gets' = gets \ {<<n, TRUE>>}
    /\ held' = held \cup {n}
    /\ UNCHANGED <<session, outbound, chunk, sending, polls, ackers, received>>

GetBreaks(n) ==
    /\ Loss /\ <<n, TRUE>> \in gets
    /\ gets' = (gets \ {<<n, TRUE>>}) \cup {<<n, FALSE>>}
    /\ UNCHANGED <<session, outbound, chunk, sending, polls, ackers, peer>>

\* Nobody reads: the write fails and says so if the channel is empty, or it goes
\* unnoticed.
WrittenInVain(n) ==
    /\ <<n, FALSE>> \in gets
    /\ gets' = gets \ {<<n, FALSE>>}
    /\ \/ ack[n] = "empty" /\ ack' = [ack EXCEPT ![n] = "error"]
       \/ UNCHANGED ack
    /\ UNCHANGED <<session, outbound, slot, sending, polls, ackers, peer>>

----------------------------------------------------------------------------
(* handleTransferChunkAck. *)

\* Variant of Acknowledge that takes any acknowledgement for the chunk in the slot.
AcknowledgeSlot(n, verdict) ==
    /\ entry /\ RoomForRequest
    /\ n \in ToSet(received) /\ slot # 0
    /\ verdict = "ok" => n \in held
    /\ ackers' = ackers \cup {<<slot, verdict>>}
    /\ UNCHANGED <<session, outbound, chunk, sending, polls, gets, peer>>

\* The Core says ok once it has the bytes, and may repeat itself at any time; only
\* an acknowledgement of the chunk in the slot is accepted.
Acknowledge(n, verdict) ==
    /\ entry /\ RoomForRequest
    /\ n \in ToSet(received) /\ slot = n
    /\ verdict = "ok" => n \in held
    /\ ackers' = ackers \cup {<<n, verdict>>}
    /\ UNCHANGED <<session, outbound, chunk, sending, polls, gets, peer>>

AckArrives(n, verdict) ==
    /\ <<n, verdict>> \in ackers
    /\ ack[n] = "empty"
    /\ ack' = [ack EXCEPT ![n] = verdict]
    /\ ackers' = ackers \ {<<n, verdict>>}
    /\ UNCHANGED <<session, outbound, slot, sending, polls, gets, peer>>

\* The channel holds one verdict; a second one waits for the close ...
AckCutOff(n, verdict) ==
    /\ done
    /\ <<n, verdict>> \in ackers
    /\ ackers' = ackers \ {<<n, verdict>>}
    /\ UNCHANGED <<session, outbound, chunk, sending, polls, gets, peer>>

\* ... or for its client to leave.
AckGivesUp(n, verdict) ==
    /\ Loss
    /\ <<n, verdict>> \in ackers
    /\ ackers' = ackers \ {<<n, verdict>>}
    /\ UNCHANGED <<session, outbound, chunk, sending, polls, gets, peer>>

----------------------------------------------------------------------------
HelloStep == Hook \/ List
SenderStep == Put \/ TakeAck \/ GiveUp \/ CutOff \/ Clear
PollStep == PollTakes \/ PollTimesOut \/ PollClosed
StrayStep == StrayTakes \/ StrayLeaves \/ StrayClosed
GetStep(n) == Written(n) \/ WrittenInVain(n)
AckStep(n, verdict) == AckArrives(n, verdict) \/ AckCutOff(n, verdict)

Next ==
    \/ HelloStep \/ Close \/ Unlist
    \/ Offer \/ SenderStep
    \/ Poll \/ PollStep \/ PollBreaks \/ StrayStep
    \/ \E n \in Chunks : Get(n) \/ GetBreaks(n) \/ GetStep(n)
    \/ \E n \in Chunks, verdict \in Verdicts :
          Acknowledge(n, verdict) \/ AckStep(n, verdict) \/ AckGivesUp(n, verdict)

Spec == Init /\ [][Next]_vars

\* Every goroutine goes on when a case of its select is ready.  Nothing is assumed of
\* the Core or of the timers: what they would end may last.
Fairness ==
    /\ WF_vars(Unlist)
    /\ WF_vars(Put \/ TakeAck \/ CutOff \/ Clear)
    /\ WF_vars(PollTakes \/ PollClosed) /\ WF_vars(StrayTakes \/ StrayClosed)
    /\ \A n \in Chunks, verdict \in Verdicts : WF_vars(AckStep(n, verdict))

LiveSpec == Spec /\ Fairness

----------------------------------------------------------------------------
(* Properties. *)

\* SendTransferChunk reports success only for a chunk whose bytes the Core has,
\* whatever acknowledgements of this and of earlier chunks arrive twice or after
\* their sender gave up; the relay counts bytes on the strength of it.
AckedMeansHeld == \A n \in Chunks : result[n] = "ok" => n \in held

\* The polls hand the messages to the Core in the order of their sends, each at
\* most once, though some may be lost with a broken connection.
ReceivedInOrder ==
    \A i, j \in DOMAIN received : i < j => received[i] < received[j]

\* The slot belongs to the sender at work: no chunk meets the slot of a sender
\* that gave up ("http transfer chunk already pending").
SlotOfTheSender == slot # 0 => slot = current /\ sender # "idle"

\* The close of the transport frees everyone who waits in it, with no Core answering
\* and no timer running out: the sender, on a full queue or for its acknowledgement,
\* a poll without a message and an acknowledgement nobody takes; and a session that
\* is listed while it is closed leaves the list.
ClosedFreesAll ==
    /\ (done /\ sender # "idle") ~> (sender = "idle")
    /\ (done /\ polling) ~> ~polling
    /\ (done /\ stray) ~> ~stray
    /\ \A n \in Chunks, verdict \in Verdicts :
          (done /\ <<n, verdict>> \in ackers) ~> <<n, verdict>> \notin ackers
    /\ (closing /\ entry) ~> ~entry

Link == INSTANCE OrderedLink WITH
    begun <- current, told <- result, got <- received, have <- held

\* Queue, slot, polls and acknowledgements together are a link that keeps the order:
\* one message is under way at a time, its sender is told once, and neither a broken
\* connection, nor a repeated request, nor a late verdict lets the next one past it.
ImplementsLink == Link!Spec
============================================================================
