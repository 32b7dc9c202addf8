---------------------------- MODULE RelayProofs ----------------------------
(***************************************************************************)
(* Four properties of the relay that rest on the order of its steps, for    *)
(* every value of the constants: nothing new is sent after a cancel, no     *)
(* transfer whose session was closed is left without a goroutine that will  *)
(* end it, the target gets its chunks in order, and a transfer that is      *)
(* completed was delivered.                                                 *)
(*                                                                         *)
(* The first is what relayMu is for.  A cancel goes out while relayMu is    *)
(* held and the transfer is final already; from then on nobody takes        *)
(* relayMu for data, because that is only done for a live transfer.  What   *)
(* can still come is the chunk of a GET that outlived the send it was for:  *)
(* there is one such chunk at most, since its send ended the transfer.  The *)
(* second is the order of Detach: close before scan.  The third is nextSeq, *)
(* which relayMu keeps one above the last chunk that was sent.  The fourth  *)
(* follows the chunks to the commit: those the target was sent cover the    *)
(* file up to Transferred, and the commit goes out when that is the size.   *)
(***************************************************************************)
EXTENDS ContractProofs

Data == {"send", "chunk", "commit"}
Cancelling == {"cancelSource", "cancelTarget"}

CancelSent(s, t) == \E i \in DOMAIN wire[s] : wire[s][i].type = "cancel" /\ wire[s][i].id = t

\* transfer_cancel is sent for final transfers only ...
CancelsFinal == \A t \in Transfers : relay[t].pc \in Cancelling => state[t] \in FinalStates

\* ... and a section that sends data does not begin after it.
DataStops ==
    \A s \in Sessions, t \in Transfers :
        CancelSent(s, t) => state[t] \in FinalStates /\ relay[t].pc \notin Data

\* A GET that outlived its sender carries a chunk the transfer failed over ...
Late(u) ==
    late[u] # 0 =>
        /\ starter[u] \notin Early /\ target[u] \in HTTP
        /\ state[u] = "failed" /\ cause[u] = "send"
        /\ prog[u].targetReady /\ prog[u].Transferred + late[u] <= prog[u].Size

\* ... and no other chunk of it came after a cancel.
LateOnce(u) ==
    late[u] # 0 =>
        \A s \in Sessions : \A i, j \in DOMAIN wire[s] :
            ~ /\ i < j /\ wire[s][i].id = u /\ wire[s][j].id = u
              /\ wire[s][i].type = "cancel" /\ wire[s][j].type = "chunk"

LateInv == \A u \in Transfers : Late(u) /\ LateOnce(u)

DataInv == CancelsFinal /\ DataStops /\ LateInv /\ NoNewDataAfterCancel

----------------------------------------------------------------------------
(* How relayMu changes hands. *)

\* What a step may make of the relay of u.
Handover(u) ==
    /\ relay'[u].pc \in Data => relay'[u].pc = relay[u].pc \/ Live(u)
    /\ relay'[u].pc \in Cancelling => state'[u] \in FinalStates

LEMMA KeptHandover ==
  ASSUME Inductive, CancelsFinal, [Next]_vars, NEW u \in Transfers, relay'[u].pc = relay[u].pc
  PROVE  Handover(u)
  BY NextKeepsFinal DEF Handover, CancelsFinal

LEMMA FailHandover ==
  ASSUME Inductive, CancelsFinal, [Next]_vars, NEW t \in Transfers, NEW why, NEW by,
         FailRelayLocked(t, why, by), NEW u \in Transfers
  PROVE  Handover(u)
  <1>1. relay \in [Transfers -> [pc : SendSteps \cup {"free"}, by : Sessions \cup {NoSession}, len : Nat]]
        /\ state \in [Transfers -> {"none"} \cup ActiveStates \cup FinalStates]
    BY DEF Inductive, TypeOK, RelayOK, TableOK
  <1>2. CASE u # t
    <2>1. relay'[u] = relay[u]
      BY <1>1, <1>2 DEF FailRelayLocked, Hold, Release
    <2> QED
      BY <2>1, KeptHandover
  <1>3. CASE u = t /\ Live(t)
    <2>1. relay'[t].pc = "cancelSource" /\ state'[t] = "failed"
      BY <1>1, <1>3 DEF FailRelayLocked, Hold, Settle
    <2> QED
      BY <1>3, <2>1 DEF Handover, Data, FinalStates
  <1>4. CASE u = t /\ ~Live(t)
    <2>1. relay'[t].pc = "free"
      BY <1>1, <1>4 DEF FailRelayLocked, Release, Unheld
    <2> QED
      BY <1>4, <2>1 DEF Handover, Data, Cancelling
  <1> QED
    BY <1>2, <1>3, <1>4

\* relayMu is taken for a live transfer, or a start or release makes no matter.
LEMMA PlainHandover ==
  ASSUME Inductive, CancelsFinal, [Next]_vars, NEW t \in Transfers, NEW u \in Transfers,
         \A v \in Transfers \ {t} : relay'[v].pc = relay[v].pc,
         relay'[t].pc \notin Cancelling, relay'[t].pc \in Data => Live(t)
  PROVE  Handover(u)
  BY KeptHandover DEF Handover

LEMMA RelayHandover ==
  ASSUME Inductive, CancelsFinal, [Next]_vars, NEW t \in Transfers, RelayStep(t),
         NEW u \in Transfers
  PROVE  Handover(u)
  <1>1. relay \in [Transfers -> [pc : SendSteps \cup {"free"}, by : Sessions \cup {NoSession}, len : Nat]]
    BY DEF Inductive, TypeOK, RelayOK
  <1>2. CASE FailRelayLocked(t, "send", relay[t].by)
    BY <1>2, FailHandover
  <1>3. CASE Release(t)
    <2>1. relay'[t].pc = "free" /\ \A v \in Transfers \ {t} : relay'[v].pc = relay[v].pc
      BY <1>1, <1>3 DEF Release, Unheld
    <2> QED
      BY <2>1, PlainHandover DEF Cancelling, Data
  <1>4. CASE relay' = [relay EXCEPT ![t].pc = "startSource"]
    <2>1. relay'[t].pc = "startSource" /\ \A v \in Transfers \ {t} : relay'[v].pc = relay[v].pc
      BY <1>1, <1>4
    <2> QED
      BY <2>1, PlainHandover DEF Cancelling, Data
  <1>5. CASE SendCancelSource(t)
    <2>1. /\ relay'[t].pc = "cancelTarget" /\ relay[t].pc = "cancelSource"
          /\ \A v \in Transfers \ {t} : relay'[v].pc = relay[v].pc
      BY <1>1, <1>5 DEF SendCancelSource
    <2>2. CASE u = t
      <3>1. state[t] \in FinalStates
        BY <2>1 DEF CancelsFinal, Cancelling
      <3> QED
        BY <2>1, <2>2, <3>1, NextKeepsFinal DEF Handover, Data
    <2> QED
      BY <2>1, <2>2, KeptHandover
  <1> QED
    BY <1>2, <1>3, <1>4, <1>5
    DEF RelayStep, SendTargetStart, SendSourceStart, SendSend, SendCommit, SendThen, SendChunk,
        SendCancelTarget

LEMMA HoldHandover ==
  ASSUME Inductive, CancelsFinal, [Next]_vars, NEW t \in Transfers, NEW u \in Transfers,
         NEW step, NEW by, NEW len, Hold(t, step, by, len),
         step \notin Cancelling, Live(t) \/ step \notin Data
  PROVE  Handover(u)
  <1>1. relay'[t].pc = step /\ \A v \in Transfers \ {t} : relay'[v].pc = relay[v].pc
    BY DEF Hold, Inductive, TypeOK, RelayOK
  <1> QED
    BY <1>1, PlainHandover

LEMMA CoreHandover ==
  ASSUME Inductive, CancelsFinal, [Next]_vars, NEW s \in Sessions, NEW t \in Transfers,
         CoreStep(s, t), NEW u \in Transfers
  PROVE  Handover(u)
  <1>1. ASSUME NEW why, NEW by, FailRelayLocked(t, why, by) PROVE Handover(u)
    BY <1>1, FailHandover
  <1>2. ASSUME NEW step \in Data, NEW by, NEW len, Live(t), Hold(t, step, by, len)
        PROVE  Handover(u)
    BY <1>2, HoldHandover DEF Data, Cancelling
  <1>3. CASE UNCHANGED relay
    BY <1>3, KeptHandover
  <1>4. ASSUME NEW ready, Live(t), BecomeReady(s, t, ready) PROVE Handover(u)
    BY <1>2, <1>3, <1>4 DEF BecomeReady, Data
  <1>5. ASSUME NEW n \in Sizes, SourceReady(s, t, n) PROVE Handover(u)
    BY <1>4, <1>5 DEF SourceReady, Handling
  <1>6. CASE TargetReady(s, t)
    BY <1>4, <1>6 DEF TargetReady, Handling
  <1>7. ASSUME NEW seq \in Sizes, NEW n \in Sizes, SourceChunk(s, t, seq, n) PROVE Handover(u)
    BY <1>1, <1>2, <1>7 DEF SourceChunk, Handling, Data
  <1>8. ASSUME NEW n \in Sizes, NEW h \in Digests \cup {NoDigest}, SourceFinish(s, t, n, h)
        PROVE  Handover(u)
    BY <1>1, <1>2, <1>8 DEF SourceFinish, Handling, Data
  <1>9. ASSUME NEW n \in Sizes, NEW h \in Digests \cup {NoDigest}, TargetFinish(s, t, n, h)
        PROVE  Handover(u)
    BY <1>1, <1>3, <1>9 DEF TargetFinish, FailTransfer
  <1>10. CASE PeerFailed(s, t)
    BY <1>1, <1>10 DEF PeerFailed
  <1> QED
    BY <1>5, <1>6, <1>7, <1>8, <1>9, <1>10 DEF CoreStep

LEMMA StepHandover ==
  ASSUME Inductive, CancelsFinal, [Next]_vars, NEW u \in Transfers
  PROVE  Handover(u)
  <1>1. CASE UNCHANGED relay
    BY <1>1, KeptHandover
  <1>2. CASE UNCHANGED vars
    BY <1>1, <1>2 DEF vars
  <1>3. ASSUME NEW s \in Sessions, Attach(s) \/ ConnectionLost(s) PROVE Handover(u)
    BY <1>1, <1>3 DEF Attach, ConnectionLost
  <1>4. ASSUME NEW s \in Sessions, NEW w \in Detachers, DetachUnbind(s, w) \/ DetachStep(s, w)
        PROVE  Handover(u)
    <2>1. ASSUME NEW t \in Transfers, DetachFail(s, w, t) PROVE Handover(u)
      BY <2>1, FailHandover DEF DetachFail, FailTransfer
    <2> QED
      BY <1>1, <1>4, <2>1 DEF DetachStep, DetachUnbind, DetachClose, DetachScan
  <1>5. CASE CloseScan \/ CloseStep
    <2>1. ASSUME NEW t \in Transfers, CloseFail(t) PROVE Handover(u)
      BY <2>1, FailHandover DEF CloseFail, FailTransfer
    <2> QED
      BY <1>1, <1>5, <2>1 DEF CloseStep, CloseScan, CloseUnbind, CloseSession
  <1>6. ASSUME NEW t \in Transfers, NEW d \in Devices, ResolveSource(t, d) \/ ResolveTarget(t, d)
        PROVE  Handover(u)
    BY <1>1, <1>6 DEF ResolveSource, ResolveTarget
  <1>7. ASSUME NEW t \in Transfers, StartStep(t) PROVE Handover(u)
    <2>1. CASE StartRelay(t)
      BY <2>1, HoldHandover DEF StartRelay, Cancelling, Data
    <2> QED
      BY <1>1, <1>7, <2>1 DEF StartStep, Refuse, Reserve, Return
  <1>8. ASSUME NEW t \in Transfers, CancelTransfer(t) PROVE Handover(u)
    <2>1. /\ relay'[t].pc = "cancelSource" /\ state'[t] = "cancelled"
          /\ \A v \in Transfers \ {t} : relay'[v].pc = relay[v].pc
      BY <1>8 DEF CancelTransfer, Hold, Settle, Inductive, TypeOK, RelayOK, TableOK
    <2>2. CASE u = t
      BY <2>1, <2>2 DEF Handover, Data, FinalStates
    <2> QED
      BY <2>1, <2>2, KeptHandover
  <1>9. ASSUME NEW t \in Transfers, RelayStep(t) PROVE Handover(u)
    BY <1>9, RelayHandover
  <1>10. ASSUME NEW s \in Sessions, NEW t \in Transfers, CoreStep(s, t) PROVE Handover(u)
    BY <1>10, CoreHandover
  <1>11. ASSUME NEW t \in Transfers, GoIdle(t) \/ Expire(t) PROVE Handover(u)
    BY <1>1, <1>11, FailHandover DEF GoIdle, Expire
  <1>12. ASSUME NEW t \in Transfers, LateChunk(t) PROVE Handover(u)
    BY <1>1, <1>12 DEF LateChunk
  <1> QED
    BY <1>2, <1>3, <1>4, <1>5, <1>6, <1>7, <1>8, <1>9, <1>10, <1>11, <1>12 DEF Next
----------------------------------------------------------------------------
(* What is put on a session. *)

\* One message about t is put on one session, by the section that holds relayMu.
Puts(t) ==
    \E s \in Sessions, m \in [type : MessageTypes, id : {t}, seq : Nat, len : Nat] :
        /\ wire' = [wire EXCEPT ![s] = Append(@, m)]
        /\ m.type \in Data => relay[t].pc \in Data
        /\ m.type = "cancel" => relay[t].pc \in Cancelling /\ relay'[t].pc \notin Data

LEMMA SentPuts ==
  ASSUME NEW t \in Transfers, NEW s \in Sessions, NEW type \in MessageTypes, NEW seq \in Nat,
         NEW len \in Nat,
         \/ Sent(s, Message(type, t, seq, len)) \/ SendFails(s)
         \/ ChunkSent(s, Message(type, t, seq, len))
         \/ s = target[t] /\ ChunkSendFails(t, Message(type, t, seq, len)),
         type \in Data => relay[t].pc \in Data,
         type = "cancel" => relay[t].pc \in Cancelling /\ relay'[t].pc \notin Data
  PROVE  UNCHANGED wire \/ Puts(t)
  <1> DEFINE m == Message(type, t, seq, len)
  <1>1. /\ m \in [type : MessageTypes, id : {t}, seq : Nat, len : Nat]
        /\ m.type = type
    BY DEF Message
  <1>2. UNCHANGED wire \/ wire' = [wire EXCEPT ![s] = Append(@, m)]
    BY DEF Sent, SendFails, ChunkSent, ChunkSendFails
  <1> HIDE DEF m
  <1> QED
    BY <1>1, <1>2 DEF Puts

LEMMA RelayPuts ==
  ASSUME Inductive, NEW t \in Transfers, RelayStep(t)
  PROVE  UNCHANGED wire \/ Puts(t)
  <1>1. /\ relay \in [Transfers -> [pc : SendSteps \cup {"free"},
                                    by : Sessions \cup {NoSession}, len : Nat]]
        /\ prog[t].nextSeq \in Nat
    BY DEF Inductive, TypeOK, RelayOK, WorkOK
  <1>2. relay[t].pc # "free" /\ relay[t].len \in Nat
    BY <1>1 DEF RelayStep, SendTargetStart, SendSourceStart, SendSend, SendCommit, SendThen, SendChunk,
                SendCancelSource, SendCancelTarget
  <1>3. source[t] \in Sessions /\ target[t] \in Sessions
    BY <1>2, PastReservation
  <1>4. CASE SendTargetStart(t) \/ SendSourceStart(t)
    BY <1>3, <1>4, SentPuts DEF SendTargetStart, SendSourceStart, SendThen, MessageTypes, Data
  <1>5. CASE SendSend(t)
    BY <1>3, <1>5, SentPuts DEF SendSend, SendThen, MessageTypes, Data
  <1>6. CASE SendCommit(t)
    BY <1>3, <1>6, SentPuts DEF SendCommit, SendThen, MessageTypes, Data
  <1>7. CASE SendChunk(t)
    BY <1>1, <1>2, <1>3, <1>7, SentPuts DEF SendChunk, MessageTypes, Data
  <1>8. CASE SendCancelSource(t)
    <2>1. relay[t].pc \in Cancelling /\ relay'[t].pc \notin Data
      BY <1>1, <1>8 DEF SendCancelSource, Cancelling, Data
    <2> QED
      BY <1>3, <1>8, <2>1, SentPuts DEF SendCancelSource, MessageTypes, Data
  <1>9. CASE SendCancelTarget(t)
    <2>1. relay[t].pc \in Cancelling /\ relay'[t].pc \notin Data
      BY <1>1, <1>9 DEF SendCancelTarget, Release, Unheld, Cancelling, Data
    <2> QED
      BY <1>3, <1>9, <2>1, SentPuts DEF SendCancelTarget, MessageTypes, Data
  <1> QED
    BY <1>4, <1>5, <1>6, <1>7, <1>8, <1>9 DEF RelayStep

\* Only a section that holds relayMu sends, but a GET may write after it.
LEMMA OnlyRelaySends ==
  ASSUME [Next]_vars
  PROVE  UNCHANGED wire \/ \E t \in Transfers : RelayStep(t) \/ LateChunk(t)
  <1>1. ASSUME NEW s \in Sessions, Attach(s) \/ ConnectionLost(s) PROVE UNCHANGED wire
    BY <1>1 DEF Attach, ConnectionLost
  <1>2. ASSUME NEW s \in Sessions, NEW w \in Detachers, DetachUnbind(s, w) \/ DetachStep(s, w)
        PROVE  UNCHANGED wire
    BY <1>2 DEF DetachStep, DetachUnbind, DetachClose, DetachScan, DetachFail
  <1>3. ASSUME CloseScan \/ CloseStep PROVE UNCHANGED wire
    BY <1>3 DEF CloseScan, CloseStep, CloseUnbind, CloseFail, CloseSession
  <1>4. ASSUME NEW t \in Transfers, NEW d \in Devices, ResolveSource(t, d) \/ ResolveTarget(t, d)
        PROVE  UNCHANGED wire
    BY <1>4 DEF ResolveSource, ResolveTarget
  <1>5. ASSUME NEW t \in Transfers, StartStep(t) \/ CancelTransfer(t) PROVE UNCHANGED wire
    BY <1>5 DEF StartStep, Refuse, Reserve, StartRelay, Return, CancelTransfer
  <1>6. ASSUME NEW s \in Sessions, NEW t \in Transfers, CoreStep(s, t) PROVE UNCHANGED wire
    BY <1>6 DEF CoreStep, SourceReady, TargetReady, BecomeReady, SourceChunk, SourceFinish,
                TargetFinish, PeerFailed
  <1>7. ASSUME NEW t \in Transfers, GoIdle(t) \/ Expire(t) PROVE UNCHANGED wire
    BY <1>7 DEF GoIdle, Expire
  <1> QED
    BY <1>1, <1>2, <1>3, <1>4, <1>5, <1>6, <1>7 DEF Next, vars

LEMMA StepPuts ==
  ASSUME Inductive, [Next]_vars
  PROVE  UNCHANGED wire \/ \E t \in Transfers : Puts(t) \/ LateChunk(t)
  BY OnlyRelaySends, RelayPuts

\* What is on a connection is a message, at a natural number.
LEMMA WirePlaces ==
  ASSUME Inductive, NEW s \in Sessions, NEW i \in DOMAIN wire[s]
  PROVE  i \in Nat /\ wire[s][i] \in [type : MessageTypes, id : Transfers, seq : Nat, len : Nat]
  <1> DEFINE T == [type : MessageTypes, id : Transfers, seq : Nat, len : Nat]
  <1>1. wire[s] \in Seq(T)
    BY DEF Inductive, TypeOK, WireOK
  <1> HIDE DEF T
  <1>2. DOMAIN wire[s] = 1..Len(wire[s]) /\ Len(wire[s]) \in Nat
    BY <1>1
  <1>3. wire[s][i] \in T
    BY <1>1, <1>2
  <1> QED
    BY <1>2, <1>3 DEF T

LEMMA PrimedPlaces ==
  ASSUME Inductive', NEW s \in Sessions, NEW i \in DOMAIN wire'[s]
  PROVE  wire'[s][i] \in [type : MessageTypes, id : Transfers, seq : Nat, len : Nat]
  <1> DEFINE T == [type : MessageTypes, id : Transfers, seq : Nat, len : Nat]
  <1>1. wire'[s] \in Seq(T)
    BY DEF Inductive, TypeOK, WireOK
  <1> HIDE DEF T
  <1>2. wire'[s][i] \in T
    BY <1>1
  <1> QED
    BY <1>2 DEF T

\* The messages that were there keep their places, before the new one.
LEMMA PutsAppends ==
  ASSUME TypeOK, NEW s \in Sessions, NEW m, wire' = [wire EXCEPT ![s] = Append(@, m)],
         NEW r \in Sessions, NEW j \in DOMAIN wire'[r]
  PROVE  /\ \A i \in DOMAIN wire'[r] : i < j => i \in DOMAIN wire[r] /\ wire'[r][i] = wire[r][i]
         /\ \/ j \in DOMAIN wire[r] /\ wire'[r][j] = wire[r][j]
            \/ r = s /\ wire'[r][j] = m /\ \A i \in DOMAIN wire'[r] : i <= j
  <1>1. wire[r] \in Seq([type : MessageTypes, id : Transfers, seq : Nat, len : Nat])
    BY DEF TypeOK, WireOK
  <1>2. DOMAIN wire[r] = 1..Len(wire[r]) /\ Len(wire[r]) \in Nat
    BY <1>1
  <1>3. CASE r # s
    <2>1. wire'[r] = wire[r]
      BY <1>3 DEF TypeOK, WireOK
    <2>2. j \in Nat /\ \A i \in 1..Len(wire[r]) : i \in Nat
      BY <1>2, <2>1
    <2> QED
      BY <1>2, <2>1, <2>2
  <1>4. CASE r = s
    <2>1. wire'[r] = Append(wire[r], m)
      BY <1>4 DEF TypeOK, WireOK
    <2>2. /\ DOMAIN wire'[r] = 1..Len(wire[r]) + 1
          /\ \A i \in 1..Len(wire[r]) : wire'[r][i] = wire[r][i]
          /\ wire'[r][Len(wire[r]) + 1] = m
      BY <1>1, <1>2, <2>1
    <2> QED
      BY <1>2, <1>4, <2>2
  <1> QED
    BY <1>3, <1>4

----------------------------------------------------------------------------
(* What the steps change of a transfer's ends and progress. *)

\* What a step that is not the sending of a chunk may change for the transfer u.
Resolves(u) ==
    /\ starter[u] = "resolve"
    /\ \E d \in Devices : session[d] # NoSession /\ target'[u] = session[d]
    /\ UNCHANGED <<registry, wire, prog>>

Moves(u) ==
    /\ starter'[u] \in Early => starter[u] \in Early
    /\ target'[u] = target[u] \/ Resolves(u)
    /\ prog'[u].nextSeq = prog[u].nextSeq \/ SendChunk(u)
    /\ late'[u] = late[u] \/ SendChunk(u) \/ LateChunk(u)
    /\ prog'[u] = prog[u] \/ SendChunk(u) \/ Live(u)
    /\ prog'[u].targetReady =>
          prog[u].targetReady \/ (Told(target[u], u, "start") /\ starter'[u] \notin Early)

LEMMA SameMoves ==
  ASSUME NEW u \in Transfers, starter'[u] \in Early => starter[u] \in Early,
         UNCHANGED <<target, prog>>, late'[u] = late[u] \/ SendChunk(u) \/ LateChunk(u)
  PROVE  Moves(u)
  BY DEF Moves

LEMMA FailMoves ==
  ASSUME Inductive, NEW t \in Transfers, NEW why, NEW by, FailRelayLocked(t, why, by),
         UNCHANGED <<target, prog>>, NEW u \in Transfers,
         late'[u] = late[u] \/ SendChunk(u) \/ LateChunk(u)
  PROVE  Moves(u)
  <1>1. starter'[u] \in Early => starter[u] \in Early
    BY DEF FailRelayLocked, Release, Inductive, TypeOK, StarterOK, Early
  <1> QED
    BY <1>1, SameMoves

LEMMA RelayMoves ==
  ASSUME Inductive, NEW t \in Transfers, RelayStep(t), NEW u \in Transfers
  PROVE  Moves(u)
  <1>1. UNCHANGED target
    BY DEF RelayStep, SendTargetStart, SendSourceStart, SendSend, SendCommit, SendThen, SendChunk,
           SendCancelSource, SendCancelTarget, ends
  <1>0. late'[u] = late[u] \/ SendChunk(u)
    <2>1. CASE SendChunk(t)
      <3>1. u # t => late'[u] = late[u]
        BY <2>1 DEF SendChunk, ChunkSendFails, Inductive, TypeOK, WorkOK
      <3> QED
        BY <2>1, <3>1
    <2> QED
      BY <2>1 DEF RelayStep, SendTargetStart, SendSourceStart, SendSend, SendCommit, SendThen,
         SendCancelSource, SendCancelTarget, work
  <1>2. CASE FailRelayLocked(t, "send", relay[t].by) /\ UNCHANGED prog
    BY <1>0, <1>1, <1>2, FailMoves
  <1>3. CASE (UNCHANGED starter \/ Release(t)) /\ UNCHANGED prog
    <2>1. starter'[u] \in Early => starter[u] \in Early
      BY <1>3 DEF Release, Inductive, TypeOK, StarterOK, Early
    <2> QED
      BY <1>0, <1>1, <1>3, <2>1, SameMoves
  <1>4. CASE SendChunk(t) /\ Release(t) /\ prog' = [prog EXCEPT ![t] = Counted(t)]
    <2>1. starter'[u] \in Early => starter[u] \in Early
      BY <1>4 DEF Release, Inductive, TypeOK, StarterOK, Early
    <2>2. prog'[u] = prog[u] \/ SendChunk(u)
      BY <1>4, Typed DEF Counted
    <2>3. prog'[u].targetReady = prog[u].targetReady
      BY <1>4, Typed DEF Counted
    <2> QED
      BY <1>0, <1>1, <2>1, <2>2, <2>3 DEF Moves
  <1> QED
    BY <1>2, <1>3, <1>4 DEF RelayStep, SendTargetStart, SendSourceStart, SendSend, SendCommit,
       SendThen, SendChunk, SendCancelSource, SendCancelTarget, work

LEMMA CoreMoves ==
  ASSUME Inductive, NEW s \in Sessions, NEW t \in Transfers, CoreStep(s, t), NEW u \in Transfers
  PROVE  Moves(u)
  <1>1. ASSUME NEW why, NEW by, FailRelayLocked(t, why, by), UNCHANGED <<target, prog, late>> PROVE Moves(u)
    BY <1>1, FailMoves
  <1>2. CASE UNCHANGED <<target, prog, late, starter>>
    BY <1>2, SameMoves
  <1>3. ASSUME NEW n \in Sizes, SourceReady(s, t, n) PROVE Moves(u)
    <2>1. UNCHANGED <<starter, target, late>>
      BY <1>3 DEF SourceReady, BecomeReady, ends
    <2>2. /\ prog'[u].nextSeq = prog[u].nextSeq /\ prog'[u].targetReady = prog[u].targetReady
          /\ prog'[u] = prog[u] \/ Live(u)
      BY <1>3, Typed DEF SourceReady, BecomeReady, Handling
    <2> QED
      BY <2>1, <2>2 DEF Moves
  <1>4. CASE TargetReady(s, t)
    <2>1. UNCHANGED <<starter, target, late>>
      BY <1>4 DEF TargetReady, BecomeReady, ends
    <2>2. /\ prog'[u].nextSeq = prog[u].nextSeq
          /\ u # t => prog'[u].targetReady = prog[u].targetReady
          /\ prog'[u] = prog[u] \/ Live(u)
      BY <1>4, Typed DEF TargetReady, BecomeReady, Handling
    <2>3. Told(target[t], t, "start") /\ starter[t] \notin Early
      BY <1>4, HandlingLive DEF TargetReady, Handling
    <2> QED
      BY <2>1, <2>2, <2>3 DEF Moves
  <1>5. ASSUME NEW seq \in Sizes, NEW n \in Sizes, SourceChunk(s, t, seq, n) PROVE Moves(u)
    BY <1>1, <1>2, <1>5 DEF SourceChunk, work, ends
  <1>6. ASSUME NEW n \in Sizes, NEW h \in Digests \cup {NoDigest}, SourceFinish(s, t, n, h)
        PROVE  Moves(u)
    <2>1. CASE prog' = [prog EXCEPT ![t].SHA256 = h] /\ UNCHANGED <<starter, target, late>>
      <3>1. /\ prog'[u].nextSeq = prog[u].nextSeq /\ prog'[u].targetReady = prog[u].targetReady
            /\ prog'[u] = prog[u] \/ Live(u)
        BY <1>6, <2>1, Typed DEF SourceFinish, Handling
      <3> QED
        BY <2>1, <3>1 DEF Moves
    <2> QED
      BY <1>1, <1>6, <2>1 DEF SourceFinish, work, ends
  <1>7. ASSUME NEW n \in Sizes, NEW h \in Digests \cup {NoDigest}, TargetFinish(s, t, n, h)
        PROVE  Moves(u)
    <2>1. CASE /\ prog' = [prog EXCEPT ![t].Transferred = prog[t].Size]
               /\ UNCHANGED <<starter, target, late>>
      <3>1. /\ prog'[u].nextSeq = prog[u].nextSeq /\ prog'[u].targetReady = prog[u].targetReady
            /\ prog'[u] = prog[u] \/ Live(u)
        BY <1>7, <2>1, Typed DEF TargetFinish
      <3> QED
        BY <2>1, <3>1 DEF Moves
    <2> QED
      BY <1>1, <1>7, <2>1 DEF TargetFinish, FailTransfer, work, ends
  <1>8. CASE PeerFailed(s, t)
    BY <1>1, <1>8 DEF PeerFailed, work, ends
  <1> QED
    BY <1>3, <1>4, <1>5, <1>6, <1>7, <1>8 DEF CoreStep

LEMMA StepMoves ==
  ASSUME Inductive, [Next]_vars, NEW u \in Transfers
  PROVE  Moves(u)
  <1>1. CASE UNCHANGED <<starter, target, prog, late>>
    BY <1>1, SameMoves
  <1>2. ASSUME NEW t \in Transfers, NEW why, NEW by, FailRelayLocked(t, why, by),
               UNCHANGED <<target, prog, late>>
        PROVE  Moves(u)
    BY <1>2, FailMoves
  <1>3. ASSUME NEW s \in Sessions, Attach(s) \/ ConnectionLost(s) PROVE Moves(u)
    BY <1>1, <1>3 DEF Attach, ConnectionLost, ends, work
  <1>4. ASSUME NEW s \in Sessions, NEW w \in Detachers, DetachUnbind(s, w) \/ DetachStep(s, w)
        PROVE  Moves(u)
    BY <1>1, <1>2, <1>4
       DEF DetachStep, DetachUnbind, DetachClose, DetachScan, DetachFail, FailTransfer, ends, work
  <1>5. CASE CloseScan \/ CloseStep
    BY <1>1, <1>2, <1>5
       DEF CloseScan, CloseStep, CloseUnbind, CloseFail, CloseSession, FailTransfer, ends, work
  <1>6. ASSUME NEW t \in Transfers, NEW d \in Devices, ResolveSource(t, d) \/ ResolveTarget(t, d)
        PROVE  Moves(u)
    <2>1. CASE ResolveSource(t, d)
      BY <2>1 DEF ResolveSource, Inductive, TypeOK, StarterOK, Early, work, Moves
    <2>2. CASE ResolveTarget(t, d)
      <3>1. target'[u] = target[u] \/ Resolves(u)
        BY <2>2 DEF ResolveTarget, Inductive, TypeOK, EndsOK, work, Resolves
      <3>2. starter'[u] \in Early => starter[u] \in Early
        BY <2>2 DEF ResolveTarget, Inductive, TypeOK, StarterOK, Early
      <3> QED
        BY <2>2, <3>1, <3>2 DEF ResolveTarget, work, Moves
    <2> QED
      BY <1>6, <2>1, <2>2
  <1>7. ASSUME NEW t \in Transfers, StartStep(t) \/ CancelTransfer(t) PROVE Moves(u)
    <2>1. starter'[u] \in Early => starter[u] \in Early
      BY <1>7 DEF StartStep, Refuse, Reserve, StartRelay, Return, CancelTransfer, Inductive, TypeOK,
                  StarterOK, Early
    <2>2. UNCHANGED <<target, prog, late>>
      BY <1>7 DEF StartStep, Refuse, Reserve, StartRelay, Return, CancelTransfer, ends, work
    <2> QED
      BY <2>1, <2>2, SameMoves
  <1>8. ASSUME NEW t \in Transfers, GoIdle(t) \/ Expire(t) PROVE Moves(u)
    BY <1>1, <1>2, <1>8 DEF GoIdle, Expire, ends, work
  <1>9. CASE UNCHANGED vars
    BY <1>1, <1>9 DEF vars, ends, work
  <1>10. ASSUME NEW t \in Transfers, LateChunk(t) PROVE Moves(u)
    <2>1. UNCHANGED <<starter, target, prog>> /\ (u # t => late'[u] = late[u])
      BY <1>10 DEF LateChunk, ends, Inductive, TypeOK, WorkOK
    <2> QED
      BY <1>10, <2>1, SameMoves
  <1> QED
    BY <1>3, <1>4, <1>5, <1>6, <1>7, <1>8, <1>9, <1>10, RelayMoves, CoreMoves DEF Next

----------------------------------------------------------------------------
(* A GET that outlives the send. *)

\* Chunks are sent for a transfer that moves, and only such a send leaves bytes
\* with a GET; when it does, the transfer has failed over it.
LEMMA ChunkLeavesLate ==
  ASSUME Inductive, ProgressInv, NEW u \in Transfers, SendChunk(u), Late(u)
  PROVE  /\ Live(u) /\ late[u] = 0 /\ relay[u].pc = "chunk"
         /\ state'[u] # "transferring" => state'[u] = "failed" /\ cause'[u] = "send" /\ prog' = prog
         /\ late'[u] # 0 => state'[u] = "failed" /\ target[u] \in HTTP /\ late'[u] = relay[u].len
  <1>1. relay[u].pc = "chunk" /\ state[u] = "transferring"
    BY DEF SendChunk, ProgressInv, ProgressAt
  <1>2. Live(u) /\ late[u] = 0
    BY <1>1 DEF Live, Inductive, ReservationsMatch, ActiveStates, Late
  <1>3. CASE Release(u) /\ UNCHANGED <<late, table, timer>>
    BY <1>1, <1>2, <1>3 DEF table
  <1>4. CASE /\ ChunkSendFails(u, Message("chunk", u, prog[u].nextSeq, relay[u].len))
             /\ FailRelayLocked(u, "send", relay[u].by) /\ UNCHANGED <<prog, fresh>>
    <2>1. state'[u] = "failed" /\ cause'[u] = "send"
      BY <1>2, <1>4 DEF FailRelayLocked, Settle, Inductive, TypeOK, TableOK
    <2>2. late'[u] # 0 => target[u] \in HTTP /\ late'[u] = relay[u].len
      BY <1>2, <1>4 DEF ChunkSendFails, Message, Inductive, TypeOK, WorkOK
    <2> QED
      BY <1>1, <1>2, <1>4, <2>1, <2>2
  <1> QED
    BY <1>3, <1>4 DEF SendChunk

LEMMA LateEnds ==
  ASSUME Inductive, NEW t \in Transfers, LateChunk(t)
  PROVE  late[t] # 0 /\ late'[t] = 0
  BY DEF LateChunk, Inductive, TypeOK, WorkOK

LEMMA LateStep ==
  ASSUME Inductive, ProgressInv, [Next]_vars, NEW u \in Transfers, Late(u)
  PROVE  Late(u)'
  <1> SUFFICES ASSUME late'[u] # 0
               PROVE  /\ starter'[u] \notin Early /\ target'[u] \in HTTP
                      /\ state'[u] = "failed" /\ cause'[u] = "send"
                      /\ prog'[u].targetReady
                      /\ prog'[u].Transferred + late'[u] <= prog'[u].Size
    BY DEF Late, Early
  <1>1. Moves(u)
    BY StepMoves
  <1>2. CASE SendChunk(u)
    <2>1. /\ late'[u] = relay[u].len /\ target[u] \in HTTP /\ relay[u].pc = "chunk"
          /\ state'[u] = "failed" /\ cause'[u] = "send" /\ prog' = prog
      BY <1>2, ChunkLeavesLate
    <2>2. starter[u] \notin Early
      BY <2>1, PastReservation
    <2>3. target' = target
      BY <1>2 DEF SendChunk, ends
    <2>4. prog[u].targetReady /\ prog[u].Transferred + relay[u].len <= prog[u].Size
      BY <2>1 DEF ProgressInv, ProgressAt, BothReady
    <2> QED
      BY <1>1, <2>1, <2>2, <2>3, <2>4 DEF Moves
  <1>3. CASE late'[u] = late[u] /\ ~SendChunk(u)
    <2>1. /\ starter[u] \notin Early /\ target[u] \in HTTP /\ state[u] = "failed" /\ cause[u] = "send"
          /\ prog[u].targetReady /\ prog[u].Transferred + late[u] <= prog[u].Size
      BY <1>3 DEF Late
    <2>2. state'[u] = "failed" /\ cause'[u] = "send" /\ ~Live(u)
      BY <2>1, NextKeepsFinal DEF FinalStates, Live, ActiveStates
    <2> QED
      BY <1>1, <1>3, <2>1, <2>2 DEF Moves, Resolves, Early
  <1> QED
    BY <1>1, <1>2, <1>3, LateEnds DEF Moves

\* With a cancel on one of its sessions a transfer is final and stays as it is.
LEMMA CancelledStays ==
  ASSUME Inductive, DataInv, [Next]_vars, NEW s \in Sessions, NEW u \in Transfers, CancelSent(s, u)
  PROVE  /\ relay[u].pc \notin Data
         /\ cause'[u] = cause[u] /\ target'[u] = target[u] /\ prog'[u] = prog[u]
  <1>1. state[u] \in FinalStates /\ relay[u].pc \notin Data
    BY DEF DataInv, DataStops
  <1>2. ~Live(u) /\ state[u] # "none"
    BY <1>1 DEF Live, FinalStates, ActiveStates
  <1>3. starter[u] \notin Early /\ ~SendChunk(u)
    BY <1>1, <1>2 DEF Inductive, StartOrder, SendChunk, Data
  <1>4. Moves(u)
    BY StepMoves
  <1> QED
    BY <1>1, <1>2, <1>3, <1>4, NextKeepsFinal DEF Moves, Resolves, Early

\* The parts of NoNewDataAfterCancel.
Latecomer(s, t, j) ==
    /\ wire[s][j].type \notin {"commit", "send"}
    /\ wire[s][j].type = "chunk" =>
          /\ s \in HTTP /\ s = target[t] /\ cause[t] = "send"
          /\ wire[s][j].seq = prog[t].nextSeq
          /\ \A k \in DOMAIN wire[s] : wire[s][k].id = t /\ wire[s][k].type = "chunk" => k <= j

\* Who the new message is from: a section under relayMu, or a GET.
From(t, s, m) ==
    \/ m.type \in Data => relay[t].pc \in Data
    \/ LateChunk(t) /\ s = target[t] /\ m = Message("chunk", t, prog[t].nextSeq, late[t])

LEMMA OneChunkLate ==
  ASSUME Inductive, ProgressInv, DataInv, [Next]_vars,
         \/ UNCHANGED wire
         \/ \E t \in Transfers, s \in Sessions :
               \E m \in [type : MessageTypes, id : {t}, seq : Nat, len : Nat] :
                  wire' = [wire EXCEPT ![s] = Append(@, m)] /\ From(t, s, m)
  PROVE  LateInv'
  <1>1. ASSUME NEW u \in Transfers PROVE Late(u)'
    BY LateStep DEF DataInv, LateInv
  <1>2. ASSUME NEW u \in Transfers, late'[u] # 0, NEW r \in Sessions,
               NEW i \in DOMAIN wire'[r], NEW j \in DOMAIN wire'[r],
               i < j, wire'[r][i].id = u, wire'[r][j].id = u,
               wire'[r][i].type = "cancel", wire'[r][j].type = "chunk"
        PROVE  FALSE
    <2>1. ASSUME CancelSent(r, u) PROVE late[u] # 0 /\ ~LateChunk(u)
      BY <1>2, <2>1, CancelledStays, StepMoves, LateEnds DEF Moves, SendChunk, Data
    <2>2. CASE UNCHANGED wire
      <3>1. CancelSent(r, u)
        BY <1>2, <2>2 DEF CancelSent
      <3> QED
        BY <1>2, <2>1, <2>2, <3>1 DEF DataInv, LateInv, LateOnce
    <2>3. ASSUME NEW t \in Transfers, NEW s \in Sessions,
                 NEW m \in [type : MessageTypes, id : {t}, seq : Nat, len : Nat],
                 wire' = [wire EXCEPT ![s] = Append(@, m)], From(t, s, m)
          PROVE  FALSE
      <3>1. TypeOK
        BY DEF Inductive
      <3>2. i \in DOMAIN wire[r] /\ wire'[r][i] = wire[r][i]
        BY <1>2, <2>3, <3>1, PutsAppends
      <3>3. CancelSent(r, u)
        BY <1>2, <3>2 DEF CancelSent
      <3>4. CASE j \in DOMAIN wire[r] /\ wire'[r][j] = wire[r][j]
        BY <1>2, <2>1, <3>2, <3>3, <3>4 DEF DataInv, LateInv, LateOnce
      <3>5. CASE wire'[r][j] = m
        <4>1. m.type = "chunk" /\ t = u
          BY <1>2, <2>3, <3>5
        <4>2. relay[u].pc \notin Data
          BY <3>3, CancelledStays
        <4> QED
          BY <2>1, <2>3, <3>3, <4>1, <4>2 DEF From, Data
      <3> QED
        BY <1>2, <2>3, <3>1, <3>4, <3>5, PutsAppends
    <2> QED
      BY <2>2, <2>3
  <1> QED
    BY <1>1, <1>2 DEF LateInv, LateOnce

LEMMA AppendedData ==
  ASSUME Inductive, DataInv, [Next]_vars, NEW t \in Transfers, NEW s \in Sessions,
         NEW m \in [type : MessageTypes, id : {t}, seq : Nat, len : Nat],
         wire' = [wire EXCEPT ![s] = Append(@, m)], From(t, s, m)
  PROVE  NoNewDataAfterCancel'
  <1>1. TypeOK /\ m.id = t
    BY DEF Inductive
  <1>2. ASSUME NEW r \in Sessions, NEW i \in DOMAIN wire'[r], NEW j \in DOMAIN wire'[r],
               NEW u \in Transfers, i < j, wire'[r][i].id = u, wire'[r][j].id = u,
               wire'[r][i].type = "cancel"
        PROVE  Latecomer(r, u, j)'
    <2>1. i \in DOMAIN wire[r] /\ wire'[r][i] = wire[r][i]
      BY <1>1, <1>2, PutsAppends
    <2>2. CancelSent(r, u)
      BY <1>2, <2>1 DEF CancelSent
    <2>3. /\ relay[u].pc \notin Data
          /\ cause'[u] = cause[u] /\ target'[u] = target[u] /\ prog'[u] = prog[u]
      BY <2>2, CancelledStays
    <2>4. CASE j \in DOMAIN wire[r] /\ wire'[r][j] = wire[r][j]
      <3>1. Latecomer(r, u, j)
        BY <1>2, <2>1, <2>4 DEF DataInv, NoNewDataAfterCancel, Latecomer
      <3>2. ASSUME wire'[r][j].type = "chunk", NEW k \in DOMAIN wire'[r],
                   wire'[r][k].id = u, wire'[r][k].type = "chunk"
            PROVE  k <= j
        <4>1. CASE k \in DOMAIN wire[r] /\ wire'[r][k] = wire[r][k]
          BY <2>4, <3>1, <3>2, <4>1 DEF Latecomer
        <4>2. CASE wire'[r][k] = m
          <5>1. t = u /\ m.type = "chunk"
            BY <1>1, <3>2, <4>2
          <5>2. late[u] # 0
            BY <2>3, <5>1, LateEnds DEF From, Data
          <5> QED
            BY <1>2, <2>1, <2>4, <3>2, <5>2 DEF DataInv, LateInv, LateOnce
        <4> QED
          BY <1>1, <4>1, <4>2, PutsAppends
      <3> QED
        BY <2>3, <2>4, <3>1, <3>2 DEF Latecomer
    <2>5. CASE r = s /\ wire'[r][j] = m /\ \A k \in DOMAIN wire'[r] : k <= j
      <3>1. t = u
        BY <1>1, <1>2, <2>5
      <3>2. CASE m.type \in Data => relay[t].pc \in Data
        BY <2>3, <2>5, <3>1, <3>2 DEF Latecomer, Data
      <3>3. CASE LateChunk(t) /\ s = target[t] /\ m = Message("chunk", t, prog[t].nextSeq, late[t])
        <4>1. late[t] # 0
          BY <3>3, LateEnds
        <4>2. target[t] \in HTTP /\ cause[t] = "send"
          BY <4>1 DEF DataInv, LateInv, Late
        <4>3. m.type = "chunk" /\ m.seq = prog[t].nextSeq
          BY <3>3 DEF Message
        <4> QED
          BY <2>3, <2>5, <3>1, <3>3, <4>2, <4>3 DEF Latecomer
      <3> QED
        BY <3>2, <3>3 DEF From
    <2> QED
      BY <1>1, <1>2, <2>4, <2>5, PutsAppends
  <1>4. \A r \in Sessions : \A i \in DOMAIN wire'[r] : wire'[r][i].id \in Transfers
    BY NextInductive, PrimedPlaces
  <1> QED
    BY <1>2, <1>4 DEF NoNewDataAfterCancel, Latecomer

LEMMA DataStep ==
  ASSUME Inductive, ProgressInv, DataInv, [Next]_vars
  PROVE  DataInv'
  <1>1. \A u \in Transfers : Handover(u)
    BY StepHandover DEF DataInv
  <1>2. CancelsFinal'
    BY <1>1 DEF Handover, CancelsFinal
  <1>3. \A u \in Transfers : state[u] \in FinalStates => state'[u] \in FinalStates
    BY NextKeepsFinal
  <1>4. ASSUME NEW u \in Transfers, state[u] \in FinalStates, relay[u].pc \notin Data
        PROVE  state'[u] \in FinalStates /\ relay'[u].pc \notin Data
    <2>1. ~Live(u)
      BY <1>4 DEF Live, FinalStates, ActiveStates
    <2> QED
      BY <1>1, <1>3, <1>4, <2>1 DEF Handover
  <1>5. CASE UNCHANGED wire
    <2>1. \A s \in Sessions, t \in Transfers : CancelSent(s, t)' => CancelSent(s, t)
      BY <1>5 DEF CancelSent
    <2>2. DataStops'
      BY <1>4, <2>1 DEF DataInv, DataStops
    <2>3. NoNewDataAfterCancel'
      <3>1. ASSUME NEW s \in Sessions, NEW i \in DOMAIN wire[s], NEW j \in DOMAIN wire[s],
                   NEW u \in Transfers, i < j, wire[s][i].id = u, wire[s][j].id = u,
                   wire[s][i].type = "cancel"
            PROVE  Latecomer(s, u, j)'
        <4>1. CancelSent(s, u) /\ Latecomer(s, u, j)
          BY <3>1 DEF CancelSent, DataInv, NoNewDataAfterCancel, Latecomer
        <4> QED
          BY <1>5, <4>1, CancelledStays DEF Latecomer
      <3>2. \A s \in Sessions : \A i \in DOMAIN wire[s] : wire[s][i].id \in Transfers
        BY WirePlaces
      <3> QED
        BY <1>5, <3>1, <3>2 DEF NoNewDataAfterCancel, Latecomer
    <2> QED
      BY <1>2, <1>5, <2>2, <2>3, OneChunkLate DEF DataInv
  <1>6. ASSUME NEW t \in Transfers, NEW s \in Sessions,
               NEW m \in [type : MessageTypes, id : {t}, seq : Nat, len : Nat],
               wire' = [wire EXCEPT ![s] = Append(@, m)], From(t, s, m),
               m.type = "cancel" => relay[t].pc \in Cancelling /\ relay'[t].pc \notin Data
        PROVE  DataInv'
    <2>1. TypeOK /\ m.id = t
      BY DEF Inductive
    <2>2. DataStops'
      <3>1. ASSUME NEW r \in Sessions, NEW u \in Transfers, CancelSent(r, u)'
            PROVE  state'[u] \in FinalStates /\ relay'[u].pc \notin Data
        <4>1. PICK j \in DOMAIN wire'[r] : wire'[r][j].type = "cancel" /\ wire'[r][j].id = u
          BY <3>1 DEF CancelSent
        <4>2. CASE j \in DOMAIN wire[r] /\ wire'[r][j] = wire[r][j]
          <5>1. CancelSent(r, u)
            BY <4>1, <4>2 DEF CancelSent
          <5> QED
            BY <1>4, <5>1 DEF DataInv, DataStops
        <4>3. CASE wire'[r][j] = m
          <5>1. u = t /\ relay[t].pc \in Cancelling /\ relay'[t].pc \notin Data
            BY <1>6, <2>1, <4>1, <4>3
          <5>2. state'[t] \in FinalStates
            BY <1>3, <5>1 DEF DataInv, CancelsFinal
          <5> QED
            BY <5>1, <5>2
        <4> QED
          BY <1>6, <2>1, <4>2, <4>3, PutsAppends
      <3> QED
        BY <3>1 DEF DataStops
    <2>3. LateInv'
      BY <1>6, OneChunkLate
    <2>4. NoNewDataAfterCancel'
      BY <1>6, AppendedData
    <2> QED
      BY <1>2, <2>2, <2>3, <2>4 DEF DataInv
  <1>7. ASSUME NEW t \in Transfers, Puts(t) PROVE DataInv'
    BY <1>6, <1>7 DEF Puts, From
  <1>8. ASSUME NEW t \in Transfers, LateChunk(t) PROVE DataInv'
    <2> DEFINE m == Message("chunk", t, prog[t].nextSeq, late[t])
    <2>1. m \in [type : MessageTypes, id : {t}, seq : Nat, len : Nat] /\ m.type = "chunk"
      BY Typed DEF Message, MessageTypes, Inductive, TypeOK, WorkOK
    <2>2. target[t] \in Sessions
      <3>1. starter[t] \notin Early
        BY <1>8, LateEnds DEF DataInv, LateInv, Late
      <3> QED
        BY <3>1 DEF Inductive, TypeOK, StarterOK, StartOrder, Early
    <2>3. wire' = [wire EXCEPT ![target[t]] = Append(@, m)]
      BY <1>8 DEF LateChunk
    <2> HIDE DEF m
    <2>4. From(t, target[t], m)
      BY <1>8 DEF From, m
    <2> QED
      BY <1>6, <2>1, <2>2, <2>3, <2>4
  <1> QED
    BY <1>5, <1>7, <1>8, StepPuts

LEMMA InitProgress == Init => ProgressInv
  BY DEF Init, ProgressInv, ProgressAt, BothReady, NoProgress, Unheld

LEMMA InitData == Init => DataInv
  BY DEF Init, DataInv, CancelsFinal, DataStops, CancelSent, LateInv, Late, LateOnce,
         NoNewDataAfterCancel, Unheld, Cancelling

\* Once a session was sent transfer_cancel no commit and no request to send follows
\* for that transfer, and no chunk either except, to a Core that polls, the one whose
\* failed send ended it, whichever goroutines race for relayMu (handleTransferChunk
\* against CancelTransfer, expireTransfer, Detach and the GETs of the Core).
THEOREM NoDataFollows == Spec => []NoNewDataAfterCancel
  <1>1. Init => Inductive /\ ProgressInv /\ DataInv
    BY InitInductive, InitProgress, InitData
  <1>2. Inductive /\ ProgressInv /\ DataInv /\ [Next]_vars =>
            Inductive' /\ ProgressInv' /\ DataInv'
    BY NextInductive, NextRefines, DataStep
  <1>3. DataInv => NoNewDataAfterCancel
    BY DEF DataInv
  <1> QED
    BY <1>1, <1>2, <1>3, PTL DEF Spec
----------------------------------------------------------------------------
(* Transfers on closed sessions. *)

Starts == {"startTarget", "startSource"}

\* The reader of s has still to look for u, or found it.
Watched(s, u) == detach[s]["serve"] \in {"idle", "close", "scan"} \/ u \in doomed[s]["serve"]

\* A live transfer on a closed session: StartTransfer has its send to that very
\* session before it, or the session is watched.
Guarded(u) ==
    Live(u) =>
        /\ life[target[u]] = "closed" =>
              \/ starter[u] = "lock" \/ relay[u].pc = "startTarget"
              \/ Watched(target[u], u)
        /\ life[source[u]] = "closed" =>
              \/ starter[u] = "lock" \/ relay[u].pc \in Starts
              \/ Watched(source[u], u)

StartingHolds(u) == relay[u].pc \in Starts => starter[u] = "starting"

Kept(u) == Guarded(u) /\ StartingHolds(u)

ClosedFirst ==
    \A s \in Sessions, w \in Detachers :
        detach[s][w] \in {"scan", "fail", "done"} => life[s] = "closed"

OrphanInv == ClosedFirst /\ \A u \in Transfers : Kept(u)

\* A step that has nothing to do with u's sessions, nor with its start.
LEMMA AsideKept ==
  ASSUME NEW u \in Transfers, Kept(u), UNCHANGED <<life, detach, doomed, ends>>,
         Live(u)' => Live(u), starter'[u] = starter[u],
         relay'[u].pc = relay[u].pc \/ {relay[u].pc, relay'[u].pc} \cap Starts = {}
  PROVE  Kept(u)'
  BY DEF Kept, Guarded, StartingHolds, Watched, Starts, ends

LEMMA EndedKept ==
  ASSUME NEW u \in Transfers, ~Live(u)', relay'[u].pc \notin Starts
  PROVE  Kept(u)'
  BY DEF Kept, Guarded, StartingHolds

\* A failure ends one transfer, and leaves the others alone.
LEMMA FailApart ==
  ASSUME Inductive, NEW t \in Transfers, NEW why, NEW by, FailRelayLocked(t, why, by)
  PROVE  /\ ~Live(t)' /\ relay'[t].pc \notin Starts
         /\ \A u \in Transfers \ {t} :
               /\ Live(u)' => Live(u)
               /\ starter'[u] = starter[u] /\ relay'[u] = relay[u]
  <1>1. /\ relay \in [Transfers -> [pc : SendSteps \cup {"free"},
                                    by : Sessions \cup {NoSession}, len : Nat]]
        /\ state \in [Transfers -> {"none"} \cup ActiveStates \cup FinalStates]
        /\ DOMAIN starter = Transfers
    BY DEF Inductive, TypeOK, RelayOK, TableOK, StarterOK
  <1>2. CASE Live(t)
    <2>1. /\ transfers' = transfers /\ state' = [state EXCEPT ![t] = "failed"]
          /\ relay' = [relay EXCEPT ![t] = [pc |-> "cancelSource", by |-> by, len |-> 0]]
          /\ starter' = starter
      BY <1>2 DEF FailRelayLocked, Settle, Hold
    <2>2. state'[t] = "failed" /\ \A u \in Transfers \ {t} : state'[u] = state[u]
      BY <1>1, <2>1
    <2>3. relay'[t].pc = "cancelSource" /\ \A u \in Transfers \ {t} : relay'[u] = relay[u]
      BY <1>1, <2>1
    <2> QED
      BY <2>1, <2>2, <2>3 DEF Live, ActiveStates, Starts
  <1>3. CASE ~Live(t)
    <2>1. /\ transfers' = transfers /\ state' = state
          /\ relay' = [relay EXCEPT ![t] = Unheld]
          /\ starter' = [starter EXCEPT ![t] = IF @ = "starting" THEN "waiting" ELSE @]
      BY <1>3 DEF FailRelayLocked, Release, table
    <2>2. relay'[t].pc = "free"
      BY <1>1, <2>1 DEF Unheld
    <2> QED
      BY <1>1, <1>3, <2>1, <2>2 DEF Live, Starts
  <1> QED
    BY <1>2, <1>3

LEMMA FailKept ==
  ASSUME Inductive, NEW t \in Transfers, NEW why, NEW by, FailRelayLocked(t, why, by),
         UNCHANGED <<life, detach, doomed, ends>>,
         NEW u \in Transfers, Kept(u)
  PROVE  Kept(u)'
  BY FailApart, AsideKept, EndedKept

LEMMA ReleaseKept ==
  ASSUME Inductive, NEW t \in Transfers, relay[t].pc \notin Starts, Release(t),
         UNCHANGED <<life, detach, doomed, ends, transfers, state>>,
         NEW u \in Transfers, Kept(u)
  PROVE  Kept(u)'
  <1>1. /\ relay'[t].pc = "free" /\ starter'[t] = IF starter[t] = "starting" THEN "waiting" ELSE starter[t]
        /\ \A v \in Transfers \ {t} : relay'[v] = relay[v] /\ starter'[v] = starter[v]
    BY DEF Release, Unheld, Inductive, TypeOK, RelayOK, StarterOK
  <1>2. Live(u)' <=> Live(u)
    BY DEF Live
  <1>3. CASE u = t
    BY <1>1, <1>2, <1>3 DEF Kept, Guarded, StartingHolds, Watched, Starts, ends
  <1> QED
    BY <1>1, <1>2, <1>3, AsideKept

\* A start that went out, went to a session that was not closed.
LEMMA StartsKept ==
  ASSUME Inductive, NEW t \in Transfers, SendTargetStart(t) \/ SendSourceStart(t),
         NEW u \in Transfers, Kept(u)
  PROVE  Kept(u)'
  <1>1. UNCHANGED <<life, detach, doomed, ends>>
    BY DEF SendTargetStart, SendSourceStart, SendThen, registry, detaching
  <1>2. CASE FailRelayLocked(t, "send", relay[t].by)
    BY <1>1, <1>2, FailKept
  <1>3. relay[t].pc # "free" /\ DOMAIN starter = Transfers
        /\ relay \in [Transfers -> [pc : SendSteps \cup {"free"},
                                    by : Sessions \cup {NoSession}, len : Nat]]
    BY DEF SendTargetStart, SendSourceStart, SendThen, Inductive, TypeOK, RelayOK, StarterOK
  <1>4. CASE /\ relay[t].pc = "startTarget" /\ life[target[t]] # "closed"
             /\ relay' = [relay EXCEPT ![t].pc = "startSource"] /\ UNCHANGED <<starter, table>>
    <2>1. Live(u)' <=> Live(u)
      BY <1>4 DEF Live, table
    <2>2. relay'[t].pc = "startSource" /\ \A v \in Transfers \ {t} : relay'[v] = relay[v]
      BY <1>3, <1>4
    <2>3. CASE u = t
      BY <1>1, <1>4, <2>1, <2>2, <2>3 DEF Kept, Guarded, StartingHolds, Watched, Starts, ends
    <2> QED
      BY <1>1, <1>4, <2>1, <2>2, <2>3, AsideKept
  <1>5. CASE /\ relay[t].pc = "startSource" /\ life[source[t]] # "closed"
             /\ Release(t) /\ UNCHANGED table
    <2>1. Live(u)' <=> Live(u)
      BY <1>5 DEF Live, table
    <2>2. /\ relay'[t].pc = "free"
          /\ \A v \in Transfers \ {t} : relay'[v] = relay[v] /\ starter'[v] = starter[v]
      BY <1>3, <1>5 DEF Release, Unheld
    <2>3. CASE u = t
      BY <1>1, <1>5, <2>1, <2>2, <2>3 DEF Kept, Guarded, StartingHolds, Watched, Starts, ends
    <2> QED
      BY <1>1, <2>1, <2>2, <2>3, AsideKept
  <1> QED
    BY <1>2, <1>4, <1>5 DEF SendTargetStart, SendSourceStart, SendThen, Sent

LEMMA RelayStepKept ==
  ASSUME Inductive, NEW t \in Transfers, RelayStep(t), NEW u \in Transfers, Kept(u)
  PROVE  Kept(u)'
  <1>1. CASE SendTargetStart(t) \/ SendSourceStart(t)
    BY <1>1, StartsKept
  <1>2. CASE SendSend(t) \/ SendCommit(t) \/ SendChunk(t) \/ SendCancelTarget(t)
    <2>1. UNCHANGED <<life, detach, doomed, ends>> /\ relay[t].pc \notin Starts
      BY <1>2 DEF SendSend, SendCommit, SendChunk, SendCancelTarget, SendThen, registry, detaching,
                  Starts
    <2>2. CASE FailRelayLocked(t, "send", relay[t].by)
      BY <2>1, <2>2, FailKept
    <2>3. CASE Release(t) /\ UNCHANGED table
      BY <2>1, <2>3, ReleaseKept DEF table
    <2> QED
      BY <1>2, <2>2, <2>3 DEF SendSend, SendCommit, SendChunk, SendCancelTarget, SendThen
  <1>3. CASE SendCancelSource(t)
    <2>1. /\ UNCHANGED <<life, detach, doomed, ends, starter>>
          /\ relay[t].pc = "cancelSource" /\ relay'[t].pc = "cancelTarget"
          /\ \A v \in Transfers \ {t} : relay'[v].pc = relay[v].pc
      BY <1>3 DEF SendCancelSource, registry, detaching, Inductive, TypeOK, RelayOK
    <2>2. Live(u)' <=> Live(u)
      BY <1>3 DEF SendCancelSource, table, Live
    <2>3. relay'[u].pc = relay[u].pc \/ {relay[u].pc, relay'[u].pc} \cap Starts = {}
      BY <2>1 DEF Starts
    <2> QED
      BY <2>1, <2>2, <2>3, AsideKept
  <1> QED
    BY <1>1, <1>2, <1>3 DEF RelayStep

\* A handler takes relayMu for a live transfer, or makes it final.
LEMMA TakenKept ==
  ASSUME Inductive, NEW t \in Transfers, NEW step \in Data, NEW by, NEW len, Unlocked(t),
         Live(t), Hold(t, step, by, len), UNCHANGED <<life, detach, doomed, ends, transfers, starter>>,
         \A v \in Transfers \ {t} : state'[v] = state[v],
         NEW u \in Transfers, Kept(u)
  PROVE  Kept(u)'
  <1>1. relay'[t].pc = step /\ \A v \in Transfers \ {t} : relay'[v] = relay[v]
    BY DEF Hold, Inductive, TypeOK, RelayOK
  <1>2. relay[t].pc = "free" /\ step \notin Starts
    BY DEF Unlocked, Data, Starts
  <1>3. {relay[t].pc, relay'[t].pc} \cap Starts = {}
    BY <1>1, <1>2 DEF Starts
  <1>4. Live(u)' => Live(u)
    BY DEF Live
  <1> QED
    BY <1>1, <1>3, <1>4, AsideKept

LEMMA CoreStepKept ==
  ASSUME Inductive, NEW s \in Sessions, NEW t \in Transfers, CoreStep(s, t),
         NEW u \in Transfers, Kept(u)
  PROVE  Kept(u)'
  <1>1. UNCHANGED <<life, detach, doomed, ends>>
    BY DEF CoreStep, SourceReady, TargetReady, BecomeReady, SourceChunk, SourceFinish,
           TargetFinish, PeerFailed, registry, detaching
  <1>2. ASSUME NEW why, NEW by, FailRelayLocked(t, why, by) PROVE Kept(u)'
    BY <1>1, <1>2, FailKept
  <1>3. ASSUME NEW ready, Live(t), Unlocked(t), BecomeReady(s, t, ready) PROVE Kept(u)'
    <2>1. UNCHANGED <<transfers, starter>>
      BY <1>3 DEF BecomeReady
    <2>2. CASE state' = [state EXCEPT ![t] = "transferring"] /\ Hold(t, "send", s, 0)
      <3>1. \A v \in Transfers \ {t} : state'[v] = state[v]
        BY <2>2 DEF Inductive, TypeOK, TableOK
      <3> QED
        BY <1>1, <1>3, <2>1, <2>2, <3>1, TakenKept DEF Data
    <2>3. CASE UNCHANGED <<state, relay>>
      BY <1>1, <2>1, <2>3, AsideKept DEF Live
    <2> QED
      BY <1>3, <2>2, <2>3 DEF BecomeReady
  <1>4. ASSUME NEW n \in Sizes, SourceReady(s, t, n) PROVE Kept(u)'
    BY <1>3, <1>4 DEF SourceReady, Handling
  <1>5. CASE TargetReady(s, t)
    BY <1>3, <1>5 DEF TargetReady, Handling
  <1>6. ASSUME NEW seq \in Sizes, NEW n \in Sizes, SourceChunk(s, t, seq, n) PROVE Kept(u)'
    <2> DEFINE by == IF s \in HTTP THEN NoSession ELSE s
    <2>1. Live(t) /\ Unlocked(t)
      BY <1>6 DEF SourceChunk, Handling
    <2>2. CASE Hold(t, "chunk", by, n) /\ UNCHANGED <<table, timer, starter>>
      BY <1>1, <2>1, <2>2, TakenKept DEF Data, table
    <2> QED
      BY <1>2, <1>6, <2>2 DEF SourceChunk
  <1>7. ASSUME NEW n \in Sizes, NEW h \in Digests \cup {NoDigest}, SourceFinish(s, t, n, h)
        PROVE  Kept(u)'
    <2>1. CASE state' = [state EXCEPT ![t] = "verifying"] /\ Hold(t, "commit", s, 0)
               /\ UNCHANGED <<transfers, starter>>
      <3>1. \A v \in Transfers \ {t} : state'[v] = state[v]
        BY <2>1 DEF Inductive, TypeOK, TableOK
      <3>2. Live(t) /\ Unlocked(t)
        BY <1>7 DEF SourceFinish, Handling
      <3> QED
        BY <1>1, <2>1, <3>1, <3>2, TakenKept DEF Data
    <2> QED
      BY <1>2, <1>7, <2>1 DEF SourceFinish
  <1>8. ASSUME NEW n \in Sizes, NEW h \in Digests \cup {NoDigest}, TargetFinish(s, t, n, h)
        PROVE  Kept(u)'
    <2>1. CASE Settle(t, "completed", "none") /\ UNCHANGED <<relay, starter>>
      <3>1. Live(u)' => Live(u)
        BY <1>8, <2>1 DEF TargetFinish, Settle, Live, Inductive, TypeOK, TableOK, ActiveStates
      <3> QED
        BY <1>1, <2>1, <3>1, AsideKept
    <2> QED
      BY <1>2, <1>8, <2>1 DEF TargetFinish, FailTransfer
  <1>9. CASE PeerFailed(s, t)
    BY <1>2, <1>9 DEF PeerFailed
  <1> QED
    BY <1>4, <1>5, <1>6, <1>7, <1>8, <1>9 DEF CoreStep

LEMMA ResolveKept ==
  ASSUME Inductive, NEW t \in Transfers, NEW d \in Devices, ResolveSource(t, d) \/ ResolveTarget(t, d),
         NEW u \in Transfers, Kept(u)
  PROVE  Kept(u)'
  <1>1. /\ UNCHANGED <<life, detach, doomed, relay>> /\ state' = state /\ transfers' = transfers
        /\ starter[t] \in Early
    BY DEF ResolveSource, ResolveTarget, registry, detaching, table, Early
  <1>2. state[t] = "none" /\ relay[t].pc = "free"
    BY <1>1 DEF Inductive, StartOrder, Unlocked
  <1>3. CASE u = t
    BY <1>1, <1>2, <1>3, EndedKept DEF Live, ActiveStates, Starts
  <1>4. CASE u # t
    <2>1. source'[u] = source[u] /\ target'[u] = target[u] /\ starter'[u] = starter[u]
      BY <1>4 DEF ResolveSource, ResolveTarget, Inductive, TypeOK, EndsOK, StarterOK
    <2>2. Live(u)' <=> Live(u)
      BY <1>1 DEF Live
    <2> QED
      BY <1>1, <2>1, <2>2 DEF Kept, Guarded, StartingHolds, Watched
  <1> QED
    BY <1>3, <1>4

LEMMA StartStepKept ==
  ASSUME Inductive, NEW t \in Transfers, StartStep(t) \/ CancelTransfer(t),
         NEW u \in Transfers, Kept(u)
  PROVE  Kept(u)'
  <1>1. UNCHANGED <<life, detach, doomed, ends>>
    BY DEF StartStep, Refuse, Reserve, StartRelay, Return, CancelTransfer, registry, detaching
  <1>2. /\ starter \in [Transfers -> {"idle", "resolve", "reserve", "lock", "starting",
                                        "waiting", "returned"}]
        /\ relay \in [Transfers -> [pc : SendSteps \cup {"free"},
                                    by : Sessions \cup {NoSession}, len : Nat]]
        /\ state \in [Transfers -> {"none"} \cup ActiveStates \cup FinalStates]
    BY DEF Inductive, TypeOK, StarterOK, RelayOK, TableOK
  <1>3. CASE Refuse(t) \/ Return(t)
    <2>1. /\ UNCHANGED relay /\ (Live(u)' <=> Live(u))
          /\ \A v \in Transfers \ {t} : starter'[v] = starter[v]
      BY <1>2, <1>3 DEF Refuse, Return, table, Live
    <2>2. CASE u = t
      <3>1. relay[t].pc \notin Starts
        BY <1>3, <2>2 DEF Refuse, Return, Kept, StartingHolds
      <3>2. starter[t] # "lock"
        BY <1>3 DEF Refuse, Return
      <3> QED
        BY <1>1, <2>1, <2>2, <3>1, <3>2 DEF Kept, Guarded, StartingHolds, Watched, Starts, ends
    <2> QED
      BY <1>1, <2>1, <2>2, AsideKept
  <1>4. CASE Reserve(t)
    <2>1. UNCHANGED relay /\ \A v \in Transfers \ {t} :
              starter'[v] = starter[v] /\ (Live(v)' => Live(v))
      BY <1>2, <1>4 DEF Reserve, Live
    <2>2. relay[t].pc = "free" /\ starter'[t] = "lock"
      BY <1>2, <1>4 DEF Reserve, Inductive, StartOrder, Early, Unlocked
    <2>3. CASE u = t
      BY <2>1, <2>2, <2>3 DEF Kept, Guarded, StartingHolds, Starts
    <2> QED
      BY <1>1, <2>1, <2>3, AsideKept
  <1>5. CASE StartRelay(t)
    <2>1. /\ relay'[t].pc = "startTarget" /\ starter'[t] = "starting"
          /\ \A v \in Transfers \ {t} : starter'[v] = starter[v] /\ relay'[v] = relay[v]
          /\ Live(u)' <=> Live(u)
      BY <1>2, <1>5 DEF StartRelay, Hold, table, Live
    <2>2. CASE u = t
      BY <2>1, <2>2 DEF Kept, Guarded, StartingHolds, Starts
    <2> QED
      BY <1>1, <2>1, <2>2, AsideKept
  <1>6. CASE CancelTransfer(t)
    <2>1. /\ relay'[t].pc = "cancelSource" /\ ~Live(t)' /\ UNCHANGED starter
          /\ \A v \in Transfers \ {t} : relay'[v] = relay[v] /\ (Live(v)' => Live(v))
      BY <1>2, <1>6 DEF CancelTransfer, Hold, Settle, Live, ActiveStates
    <2>2. relay'[t].pc \notin Starts
      BY <2>1 DEF Starts
    <2> QED
      BY <1>1, <2>1, <2>2, AsideKept, EndedKept
  <1> QED
    BY <1>3, <1>4, <1>5, <1>6 DEF StartStep

\* The sessions close, and who watches them moves on.
LEMMA WatchKept ==
  ASSUME NEW u \in Transfers, Kept(u), UNCHANGED <<ends, relay, starter, transfers, state>>,
         \A s \in Sessions : life'[s] = "closed" /\ life[s] # "closed" => Watched(s, u)',
         Live(u) => source[u] \in Sessions /\ target[u] \in Sessions,
         Live(u) => \A s \in {source[u], target[u]} : Watched(s, u) => Watched(s, u)'
  PROVE  Kept(u)'
  <1>1. Live(u)' <=> Live(u)
    BY DEF Live
  <1> QED
    BY <1>1 DEF Kept, Guarded, StartingHolds, ends

LEMMA LiveOnSessions ==
  ASSUME Inductive, NEW u \in Transfers, Live(u)
  PROVE  source[u] \in Sessions /\ target[u] \in Sessions
  BY HandlingLive, PastReservation DEF Live, ActiveStates

LEMMA DetachKept ==
  ASSUME Inductive, OrphanInv, NEW s \in Sessions, NEW w \in Detachers,
         DetachUnbind(s, w) \/ DetachStep(s, w), NEW u \in Transfers
  PROVE  Kept(u)'
  <1> USE LiveOnSessions DEF OrphanInv
  <1>1. /\ detach \in [Sessions -> [Detachers -> {"idle", "close", "scan", "fail", "done"}]]
        /\ doomed \in [Sessions -> [Detachers -> SUBSET Transfers]]
        /\ life \in [Sessions -> {"new", "open", "lost", "closed"}]
        /\ "serve" \in Detachers
    BY DEF Inductive, TypeOK, DetachingOK, RegistryOK, Detachers
  <1>2. CASE DetachUnbind(s, w)
    <2>1. UNCHANGED <<life, doomed, ends, relay, starter, transfers, state>>
      BY <1>2 DEF DetachUnbind, table
    <2>2. \A r \in Sessions : Watched(r, u) => Watched(r, u)'
      BY <1>1, <1>2, <2>1 DEF DetachUnbind, Watched
    <2> QED
      BY <2>1, <2>2, WatchKept
  <1>3. CASE DetachClose(s, w)
    <2>1. /\ UNCHANGED <<doomed, ends, relay, starter, transfers, state>>
          /\ \A r \in Sessions \ {s} : life'[r] = life[r]
      BY <1>1, <1>3 DEF DetachClose, table
    <2>2. \A r \in Sessions : Watched(r, u) => Watched(r, u)'
      BY <1>1, <1>3, <2>1 DEF DetachClose, Watched
    <2>3. life[s] # "closed" => Watched(s, u)
      BY <1>1 DEF ClosedFirst, Watched
    <2> QED
      BY <2>1, <2>2, <2>3, WatchKept
  <1>4. CASE DetachScan(s, w)
    <2>1. UNCHANGED <<life, ends, relay, starter, transfers, state>>
      BY <1>4 DEF DetachScan, registry, table
    <2>2. ASSUME Live(u), NEW r \in {source[u], target[u]}, Watched(r, u)
          PROVE  Watched(r, u)'
      <3>1. r \in Sessions
        BY <2>2
      <3>2. CASE r = s /\ w = "serve"
        <4>1. u \in {t \in transfers : Live(t) /\ Name[s] \in Parties(t)}
          BY <2>2, <3>2 DEF Live, Parties, SourceDevice, TargetDevice
        <4> QED
          BY <1>1, <1>4, <3>2, <4>1 DEF DetachScan, Watched
      <3>3. CASE r # s \/ w # "serve"
        <4>1. detach'[r]["serve"] = detach[r]["serve"] /\ doomed'[r]["serve"] = doomed[r]["serve"]
          BY <1>1, <1>4, <3>1, <3>3 DEF DetachScan
        <4> QED
          BY <2>2, <4>1 DEF Watched
      <3> QED
        BY <3>2, <3>3
    <2> QED
      BY <2>1, <2>2, WatchKept
  <1>5. ASSUME NEW t \in Transfers, DetachFail(s, w, t) PROVE Kept(u)'
    <2>1. FailRelayLocked(t, "disconnected", NoSession) /\ UNCHANGED <<life, ends>>
      BY <1>5 DEF DetachFail, FailTransfer, registry
    <2>2. CASE u = t
      BY <2>1, <2>2, FailApart, EndedKept
    <2>3. CASE u # t
      <3>1. (Live(u)' => Live(u)) /\ starter'[u] = starter[u] /\ relay'[u] = relay[u]
        BY <2>1, <2>3, FailApart
      <3>2. ASSUME NEW r \in Sessions, Watched(r, u) PROVE Watched(r, u)'
        <4>1. CASE r = s /\ w = "serve"
          BY <1>1, <1>5, <2>3, <3>2, <4>1 DEF DetachFail, Watched
        <4>2. CASE r # s \/ w # "serve"
          <5>1. /\ detach'[r]["serve"] = detach[r]["serve"]
                /\ doomed'[r]["serve"] = doomed[r]["serve"]
            BY <1>1, <1>5, <3>2, <4>2 DEF DetachFail
          <5> QED
            BY <3>2, <5>1 DEF Watched
        <4> QED
          BY <4>1, <4>2
      <3> QED
        BY <2>1, <3>1, <3>2 DEF Kept, Guarded, StartingHolds, ends
    <2> QED
      BY <2>2, <2>3
  <1> QED
    BY <1>2, <1>3, <1>4, <1>5 DEF DetachStep

LEMMA CloseKept ==
  ASSUME Inductive, OrphanInv, CloseScan \/ CloseStep, NEW u \in Transfers
  PROVE  Kept(u)'
  <1> USE DEF OrphanInv
  <1>1. ASSUME NEW t \in Transfers, CloseFail(t) PROVE Kept(u)'
    BY <1>1, FailKept DEF CloseFail, FailTransfer, registry
  <1>2. CASE CloseScan \/ CloseUnbind
    BY <1>2, AsideKept DEF CloseScan, CloseUnbind, registry, table, Live
  <1>3. ASSUME NEW s \in Sessions, CloseSession(s) PROVE Kept(u)'
    <2>1. /\ UNCHANGED <<detach, doomed, ends, relay, starter, transfers, state>>
          /\ \A r \in Sessions \ {s} : life'[r] = life[r]
      BY <1>3 DEF CloseSession, table, Inductive, TypeOK, RegistryOK
    <2>2. \A r \in Sessions : Watched(r, u)' <=> Watched(r, u)
      BY <2>1 DEF Watched
    <2>3. detach[s]["serve"] \in {"idle", "close", "scan", "fail", "done"} /\ "serve" \in Detachers
      BY DEF Inductive, TypeOK, DetachingOK, Detachers
    <2>4. life[s] # "closed" => Watched(s, u)
      BY <2>3 DEF ClosedFirst, Watched
    <2> QED
      BY <2>1, <2>2, <2>4, LiveOnSessions, WatchKept
  <1> QED
    BY <1>1, <1>2, <1>3 DEF CloseStep

LEMMA ClosedFirstStep ==
  ASSUME Inductive, ClosedFirst, [Next]_vars
  PROVE  ClosedFirst'
  <1>1. /\ detach \in [Sessions -> [Detachers -> {"idle", "close", "scan", "fail", "done"}]]
        /\ life \in [Sessions -> {"new", "open", "lost", "closed"}]
    BY DEF Inductive, TypeOK, DetachingOK, RegistryOK
  <1>2. CASE UNCHANGED <<life, detach>>
    BY <1>2 DEF ClosedFirst
  <1>3. ASSUME NEW s \in Sessions, Attach(s) \/ ConnectionLost(s) PROVE ClosedFirst'
    BY <1>1, <1>3 DEF Attach, ConnectionLost, ClosedFirst, detaching
  <1>4. ASSUME NEW s \in Sessions, NEW w \in Detachers, DetachUnbind(s, w) \/ DetachStep(s, w)
        PROVE  ClosedFirst'
    <2>1. CASE DetachUnbind(s, w)
      BY <1>1, <2>1 DEF DetachUnbind, ClosedFirst
    <2>2. CASE DetachClose(s, w)
      BY <1>1, <2>2 DEF DetachClose, ClosedFirst
    <2>3. CASE DetachScan(s, w)
      BY <1>1, <2>3 DEF DetachScan, ClosedFirst, registry
    <2>4. ASSUME NEW t \in Transfers, DetachFail(s, w, t) PROVE ClosedFirst'
      BY <1>1, <2>4 DEF DetachFail, ClosedFirst, registry
    <2> QED
      BY <1>4, <2>1, <2>2, <2>3, <2>4 DEF DetachStep
  <1>5. CASE CloseScan \/ CloseStep
    <2>1. ASSUME NEW s \in Sessions, CloseSession(s) PROVE ClosedFirst'
      BY <1>1, <2>1 DEF CloseSession, ClosedFirst
    <2> QED
      BY <1>2, <1>5, <2>1 DEF CloseScan, CloseStep, CloseUnbind, CloseFail, registry
  <1>6. ASSUME NEW t \in Transfers, NEW d \in Devices, ResolveSource(t, d) \/ ResolveTarget(t, d)
        PROVE  ClosedFirst'
    BY <1>2, <1>6 DEF ResolveSource, ResolveTarget, registry, detaching
  <1>7. ASSUME NEW t \in Transfers, StartStep(t) \/ CancelTransfer(t) PROVE ClosedFirst'
    BY <1>2, <1>7 DEF StartStep, Refuse, Reserve, StartRelay, Return, CancelTransfer, registry, detaching
  <1>8. ASSUME NEW t \in Transfers, RelayStep(t) PROVE ClosedFirst'
    BY <1>2, <1>8
    DEF RelayStep, SendTargetStart, SendSourceStart, SendSend, SendCommit, SendThen, SendChunk,
        SendCancelSource, SendCancelTarget, registry, detaching
  <1>9. ASSUME NEW s \in Sessions, NEW t \in Transfers, CoreStep(s, t) PROVE ClosedFirst'
    BY <1>2, <1>9
    DEF CoreStep, SourceReady, TargetReady, BecomeReady, SourceChunk, SourceFinish, TargetFinish,
        PeerFailed, registry, detaching
  <1>10. ASSUME NEW t \in Transfers, GoIdle(t) \/ Expire(t) PROVE ClosedFirst'
    BY <1>2, <1>10 DEF GoIdle, Expire, registry, detaching
  <1>11. ASSUME NEW t \in Transfers, LateChunk(t) PROVE ClosedFirst'
    BY <1>2, <1>11 DEF LateChunk, registry, detaching
  <1> QED
    BY <1>2, <1>3, <1>4, <1>5, <1>6, <1>7, <1>8, <1>9, <1>10, <1>11
    DEF Next, vars, registry, detaching

LEMMA OrphanStep ==
  ASSUME Inductive, OrphanInv, [Next]_vars
  PROVE  OrphanInv'
  <1>1. SUFFICES ASSUME NEW u \in Transfers PROVE Kept(u)'
    BY ClosedFirstStep DEF OrphanInv
  <1>2. Kept(u)
    BY DEF OrphanInv
  <1>3. CASE UNCHANGED vars
    BY <1>2, <1>3, AsideKept DEF vars, registry, detaching, table, Live
  <1>4. ASSUME NEW s \in Sessions, Attach(s) \/ ConnectionLost(s) PROVE Kept(u)'
    <2>1. /\ UNCHANGED <<detach, doomed, ends, relay, starter, transfers, state>>
          /\ \A r \in Sessions : life'[r] = "closed" => life[r] = "closed"
      BY <1>4 DEF Attach, ConnectionLost, detaching, table, Inductive, TypeOK, RegistryOK
    <2>2. \A r \in Sessions : Watched(r, u)' <=> Watched(r, u)
      BY <2>1 DEF Watched
    <2> QED
      BY <1>2, <2>1, <2>2, LiveOnSessions, WatchKept
  <1>5. ASSUME NEW s \in Sessions, NEW w \in Detachers, DetachUnbind(s, w) \/ DetachStep(s, w)
        PROVE  Kept(u)'
    BY <1>5, DetachKept
  <1>6. CASE CloseScan \/ CloseStep
    BY <1>6, CloseKept
  <1>7. ASSUME NEW t \in Transfers, NEW d \in Devices, ResolveSource(t, d) \/ ResolveTarget(t, d)
        PROVE  Kept(u)'
    BY <1>2, <1>7, ResolveKept
  <1>8. ASSUME NEW t \in Transfers, StartStep(t) \/ CancelTransfer(t) PROVE Kept(u)'
    BY <1>2, <1>8, StartStepKept
  <1>9. ASSUME NEW t \in Transfers, RelayStep(t) PROVE Kept(u)'
    BY <1>2, <1>9, RelayStepKept
  <1>10. ASSUME NEW s \in Sessions, NEW t \in Transfers, CoreStep(s, t) PROVE Kept(u)'
    BY <1>2, <1>10, CoreStepKept
  <1>11. ASSUME NEW t \in Transfers, GoIdle(t) \/ Expire(t) PROVE Kept(u)'
    <2>1. UNCHANGED <<life, detach, doomed, ends>>
      BY <1>11 DEF GoIdle, Expire, registry, detaching
    <2>2. CASE FailRelayLocked(t, "timeout", NoSession)
      BY <1>2, <2>1, <2>2, FailKept
    <2>3. CASE UNCHANGED <<table, starter, relay>>
      BY <1>2, <2>1, <2>3, AsideKept DEF table, Live
    <2> QED
      BY <1>11, <2>2, <2>3 DEF GoIdle, Expire
  <1>12. ASSUME NEW t \in Transfers, LateChunk(t) PROVE Kept(u)'
    BY <1>2, <1>12, AsideKept DEF LateChunk, registry, detaching, table, Live
  <1> QED
    BY <1>3, <1>4, <1>5, <1>6, <1>7, <1>8, <1>9, <1>10, <1>11, <1>12 DEF Next

\* A live transfer whose session was closed always has a goroutine that will end
\* it, however Detach, Manager.Close and StartTransfer are ordered (Detach:
\* unbind, close, scan; StartTransfer: resolve, reserve, send).
THEOREM NoOrphans == Spec => []NoOrphanReservation
  <1>1. Init => Inductive /\ OrphanInv
    <2>1. ASSUME Init PROVE OrphanInv
      BY <2>1 DEF Init, OrphanInv, ClosedFirst, Kept, Guarded, StartingHolds, Live, Starts, Unheld,
                  ActiveStates
    <2> QED
      BY <2>1, InitInductive
  <1>2. Inductive /\ OrphanInv /\ [Next]_vars => Inductive' /\ OrphanInv'
    BY NextInductive, OrphanStep
  <1>3. OrphanInv => NoOrphanReservation
    BY DEF OrphanInv, Kept, Guarded, StartingHolds, Watched, NoOrphanReservation, Starts
  <1> QED
    BY <1>1, <1>2, <1>3, PTL DEF Spec

----------------------------------------------------------------------------
(* The chunks on the wire.  A device is not heard of before it attached, a     *)
(* transfer not before it is reserved, and its target is ready only after it   *)
(* was told to start; nextSeq is one above the last chunk that was sent, or is *)
(* the number of the one that a GET has still to write.                        *)

Attached ==
    /\ \A d \in Devices : session[d] # NoSession => life[session[d]] # "new"
    /\ \A u \in Transfers : target[u] # NoSession => life[target[u]] # "new"

Untouched == \A u \in Transfers :
    starter[u] \in Early => prog[u].nextSeq = 0 /\ ~prog[u].targetReady

Invited == \A u \in Transfers : prog[u].targetReady => Told(target[u], u, "start")

ToTarget == \A s \in Sessions, u \in Transfers :
    ChunksAt(s, u) # {} => s = target[u] /\ starter[u] \notin Early

NumberedAt(u) ==
    LET w == wire[target[u]]
        at == ChunksAt(target[u], u)
    IN /\ \A i, j \in at : i < j => w[i].seq < w[j].seq
       /\ \A i \in at : w[i].seq = 0 \/ \E j \in at : w[j].seq = w[i].seq - 1
       /\ \A i \in at : \E j \in DOMAIN w : j < i /\ w[j].type = "start" /\ w[j].id = u

\* Chunks of u may still be put on the wire, and what is sent on s gets there.
Moving(u) == state[u] \notin FinalStates \/ late[u] # 0
Reaches(s) == life[s] = "open" \/ s \in HTTP

\* The steps that put a chunk, and the bytes it carries.
PutsChunk(u) == SendChunk(u) \/ LateChunk(u)
Bytes(u) == IF late[u] # 0 THEN late[u] ELSE relay[u].len

LastAt(u) ==
    Moving(u) =>
        LET w == wire[target[u]]
            at == ChunksAt(target[u], u)
        IN /\ \A i \in at : w[i].seq < prog[u].nextSeq
           /\ Reaches(target[u]) /\ prog[u].nextSeq > 0 =>
                 \E i \in at : w[i].seq = prog[u].nextSeq - 1

ChunksInv ==
    /\ Attached /\ Untouched /\ Invited /\ ToTarget
    /\ \A u \in Transfers : target[u] # NoSession => NumberedAt(u) /\ LastAt(u)

\* Messages stay where they are, and no chunk is added.
WireGrows == \A r \in Sessions : \A i \in DOMAIN wire[r] :
    i \in DOMAIN wire'[r] /\ wire'[r][i] = wire[r][i]

NoChunk ==
    /\ WireGrows
    /\ \A r \in Sessions : \A i \in DOMAIN wire'[r] :
          i \in DOMAIN wire[r] \/ wire'[r][i].type # "chunk"

LEMMA AppendGrows ==
  ASSUME TypeOK, NEW s \in Sessions, NEW m, wire' = [wire EXCEPT ![s] = Append(@, m)]
  PROVE  WireGrows /\ (m.type # "chunk" => NoChunk)
  <1>1. \A r \in Sessions : wire[r] \in Seq([type : MessageTypes, id : Transfers, seq : Nat, len : Nat])
    BY DEF TypeOK, WireOK
  <1>2. ASSUME NEW r \in Sessions, r # s PROVE wire'[r] = wire[r]
    BY <1>2 DEF TypeOK, WireOK
  <1>3. wire'[s] = Append(wire[s], m)
    BY DEF TypeOK, WireOK
  <1>4. /\ DOMAIN wire[s] = 1..Len(wire[s]) /\ Len(wire[s]) \in Nat
        /\ DOMAIN wire'[s] = 1..Len(wire[s]) + 1
        /\ \A i \in 1..Len(wire[s]) : wire'[s][i] = wire[s][i]
        /\ wire'[s][Len(wire[s]) + 1] = m
    BY <1>1, <1>3
  <1> QED
    BY <1>2, <1>4 DEF WireGrows, NoChunk

LEMMA ControlGrows ==
  ASSUME TypeOK, NEW s \in Sessions, NEW t, NEW type, type # "chunk",
         Sent(s, Message(type, t, 0, 0)) \/ SendFails(s)
  PROVE  NoChunk
  <1> DEFINE m == Message(type, t, 0, 0)
  <1>1. m.type # "chunk"
    BY DEF Message
  <1>2. UNCHANGED wire \/ wire' = [wire EXCEPT ![s] = Append(@, m)]
    BY DEF Sent, SendFails
  <1> HIDE DEF m
  <1>3. UNCHANGED wire => NoChunk
    BY DEF NoChunk, WireGrows
  <1> QED
    BY <1>1, <1>2, <1>3, AppendGrows

LEMMA RelayGrows ==
  ASSUME Inductive, NEW t \in Transfers, RelayStep(t)
  PROVE  SendChunk(t) \/ NoChunk
  <1>1. relay[t].pc # "free"
    BY DEF RelayStep, SendTargetStart, SendSourceStart, SendSend, SendCommit, SendThen, SendChunk,
           SendCancelSource, SendCancelTarget
  <1>2. source[t] \in Sessions /\ target[t] \in Sessions /\ TypeOK
    BY <1>1, PastReservation DEF Inductive
  <1>3. ASSUME NEW step, NEW s \in {source[t], target[t]}, NEW type, type # "chunk", NEW next,
               SendThen(t, step, s, type, next)
        PROVE  NoChunk
    BY <1>2, <1>3, ControlGrows DEF SendThen
  <1>4. CASE SendTargetStart(t) \/ SendSourceStart(t) \/ SendSend(t) \/ SendCommit(t)
    BY <1>3, <1>4 DEF SendTargetStart, SendSourceStart, SendSend, SendCommit
  <1>5. CASE SendCancelSource(t) \/ SendCancelTarget(t)
    BY <1>2, <1>5, ControlGrows DEF SendCancelSource, SendCancelTarget
  <1> QED
    BY <1>4, <1>5 DEF RelayStep

LEMMA StepGrows ==
  ASSUME Inductive, [Next]_vars
  PROVE  NoChunk \/ \E t \in Transfers : PutsChunk(t)
  <1>1. UNCHANGED wire => NoChunk
    BY DEF NoChunk, WireGrows
  <1> QED
    BY <1>1, OnlyRelaySends, RelayGrows DEF PutsChunk

\* A session is new, then open, then cut off or closed.
LEMMA LifeMoves ==
  ASSUME Inductive, [Next]_vars
  PROVE  /\ \A s \in Sessions : life'[s] = life[s] \/ life'[s] # "new"
         /\ \A s \in Sessions : life'[s] = "open" => life[s] \in {"new", "open"}
         /\ \A d \in Devices : session'[d] \in {session[d], NoSession} \/ life'[session'[d]] # "new"
  <1> DEFINE Goal == /\ \A s \in Sessions : life'[s] = life[s] \/ life'[s] # "new"
                     /\ \A s \in Sessions : life'[s] = "open" => life[s] \in {"new", "open"}
                     /\ \A d \in Devices : \/ session'[d] \in {session[d], NoSession}
                                           \/ life'[session'[d]] # "new"
  <1>0. /\ session \in [Devices -> Sessions \cup {NoSession}]
        /\ life \in [Sessions -> {"new", "open", "lost", "closed"}]
        /\ Name \in [Sessions -> Devices]
    BY ConstantsAssumption DEF Inductive, TypeOK, RegistryOK
  <1>1. CASE UNCHANGED registry
    BY <1>1 DEF registry
  <1>2. ASSUME NEW s \in Sessions, Attach(s) \/ ConnectionLost(s) PROVE Goal
    BY <1>0, <1>2 DEF Attach, ConnectionLost
  <1>3. ASSUME NEW s \in Sessions, NEW w \in Detachers, DetachUnbind(s, w) \/ DetachStep(s, w)
        PROVE  Goal
    <2>1. CASE DetachUnbind(s, w)
      BY <1>0, <2>1 DEF DetachUnbind
    <2>2. CASE DetachClose(s, w)
      BY <1>0, <2>2 DEF DetachClose
    <2> QED
      BY <1>1, <1>3, <2>1, <2>2 DEF DetachStep, DetachScan, DetachFail
  <1>4. CASE CloseScan \/ CloseStep
    <2>1. CASE CloseUnbind
      BY <1>0, <2>1 DEF CloseUnbind
    <2>2. ASSUME NEW s \in Sessions, CloseSession(s) PROVE Goal
      BY <1>0, <2>2 DEF CloseSession
    <2> QED
      BY <1>1, <1>4, <2>1, <2>2 DEF CloseScan, CloseStep, CloseFail
  <1>5. ASSUME NEW t \in Transfers, NEW d \in Devices, ResolveSource(t, d) \/ ResolveTarget(t, d)
        PROVE  Goal
    BY <1>1, <1>5 DEF ResolveSource, ResolveTarget
  <1>6. ASSUME NEW t \in Transfers, StartStep(t) \/ CancelTransfer(t) PROVE Goal
    BY <1>1, <1>6 DEF StartStep, Refuse, Reserve, StartRelay, Return, CancelTransfer
  <1>7. ASSUME NEW t \in Transfers, RelayStep(t) PROVE Goal
    BY <1>1, <1>7 DEF RelayStep, SendTargetStart, SendSourceStart, SendSend, SendCommit, SendThen,
       SendChunk, SendCancelSource, SendCancelTarget
  <1>8. ASSUME NEW s \in Sessions, NEW t \in Transfers, CoreStep(s, t) PROVE Goal
    BY <1>1, <1>8 DEF CoreStep, SourceReady, TargetReady, BecomeReady, SourceChunk, SourceFinish,
       TargetFinish, PeerFailed
  <1>9. ASSUME NEW t \in Transfers, GoIdle(t) \/ Expire(t) \/ LateChunk(t) PROVE Goal
    BY <1>1, <1>9 DEF GoIdle, Expire, LateChunk
  <1> QED
    BY <1>1, <1>2, <1>3, <1>4, <1>5, <1>6, <1>7, <1>8, <1>9 DEF Next, vars

\* Only the sending of a chunk sets a transfer in motion again, and it moved before.
LEMMA MovedBefore ==
  ASSUME Inductive, ProgressInv, [Next]_vars, NEW u \in Transfers, Moving(u)'
  PROVE  Moving(u)
  <1>1. SendChunk(u) => state[u] \notin FinalStates
    BY DEF SendChunk, ProgressInv, ProgressAt, FinalStates
  <1>2. LateChunk(u) => late[u] # 0
    BY DEF LateChunk
  <1> QED
    BY <1>1, <1>2, StepMoves, NextKeepsFinal DEF Moving, Moves, FinalStates

\* With the messages in place and no chunk of u added, nothing changes for u.
LEMMA KeptChunks ==
  ASSUME ChunksInv, NEW u \in Transfers, NEW s \in Sessions, target[u] = s, target'[u] = s,
         s # NoSession, Moves(u), ~PutsChunk(u), Moving(u)' => Moving(u),
         life'[s] = "open" => life[s] \in {"new", "open"},
         WireGrows, ChunksAt(s, u)' = ChunksAt(s, u)
  PROVE  NumberedAt(u)' /\ LastAt(u)'
  <1> DEFINE at == ChunksAt(s, u)
  <1>1. /\ \A i \in at : i \in DOMAIN wire[s] /\ wire'[s][i] = wire[s][i]
        /\ \A i \in DOMAIN wire[s] : i \in DOMAIN wire'[s] /\ wire'[s][i] = wire[s][i]
    BY DEF WireGrows, ChunksAt
  <1>2. NumberedAt(u) /\ LastAt(u) /\ life[s] # "new"
    BY DEF ChunksInv, Attached
  <1>3. /\ \A i, j \in at : i < j => wire[s][i].seq < wire[s][j].seq
        /\ \A i \in at : wire[s][i].seq = 0 \/ \E j \in at : wire[s][j].seq = wire[s][i].seq - 1
        /\ \A i \in at : \E j \in DOMAIN wire[s] :
              j < i /\ wire[s][j].type = "start" /\ wire[s][j].id = u
    BY <1>2 DEF NumberedAt
  <1>4. Moving(u) =>
            /\ \A i \in at : wire[s][i].seq < prog[u].nextSeq
            /\ Reaches(s) /\ prog[u].nextSeq > 0 =>
                  \E i \in at : wire[s][i].seq = prog[u].nextSeq - 1
    BY <1>2 DEF LastAt
  <1>5. prog'[u].nextSeq = prog[u].nextSeq
    BY DEF Moves, PutsChunk
  <1>6. {i \in DOMAIN wire'[s] : wire'[s][i].id = u /\ wire'[s][i].type = "chunk"} = at
    BY DEF ChunksAt
  <1> HIDE DEF at
  <1>7. NumberedAt(u)'
    <2>1. \A i, j \in at : i < j => wire'[s][i].seq < wire'[s][j].seq
      BY <1>1, <1>3
    <2>2. \A i \in at : wire'[s][i].seq = 0 \/ \E j \in at : wire'[s][j].seq = wire'[s][i].seq - 1
      BY <1>1, <1>3
    <2>3. \A i \in at : \E j \in DOMAIN wire'[s] :
              j < i /\ wire'[s][j].type = "start" /\ wire'[s][j].id = u
      BY <1>1, <1>3
    <2> QED
      BY <1>6, <2>1, <2>2, <2>3 DEF NumberedAt, ChunksAt
  <1>8. LastAt(u)'
    <2>1. Reaches(s)' => Reaches(s)
      BY <1>2 DEF Reaches
    <2> QED
      BY <1>1, <1>4, <1>5, <1>6, <2>1 DEF LastAt, ChunksAt
  <1> QED
    BY <1>7, <1>8

\* What the steps that put a chunk do.
LEMMA ChunkPut ==
  ASSUME Inductive, ProgressInv, LateInv, NEW u \in Transfers, PutsChunk(u)
  PROVE  /\ target[u] \in Sessions /\ starter[u] \notin Early /\ prog[u].targetReady
         /\ Moving(u) /\ Bytes(u) \in Nat /\ prog[u].Transferred + Bytes(u) <= prog[u].Size
         /\ UNCHANGED <<life, target>>
         /\ \/ UNCHANGED wire
            \/ /\ Reaches(target[u])
               /\ wire' = [wire EXCEPT ![target[u]] =
                              Append(@, Message("chunk", u, prog[u].nextSeq, Bytes(u)))]
         /\ \/ ~Moving(u)'
            \/ UNCHANGED wire /\ prog'[u] = prog[u]
            \/ /\ SendChunk(u) /\ late[u] = 0
               /\ prog'[u].nextSeq = prog[u].nextSeq + 1
               /\ Reaches(target[u]) => wire' # wire
  <1> DEFINE m == Message("chunk", u, prog[u].nextSeq, Bytes(u))
  <1>1. UNCHANGED <<life, target>>
    BY DEF PutsChunk, SendChunk, LateChunk, registry, ends
  <1>2. CASE SendChunk(u)
    <2>1. Late(u)
      BY DEF LateInv
    <2>2. /\ Live(u) /\ late[u] = 0 /\ relay[u].pc = "chunk"
          /\ state'[u] # "transferring" => prog' = prog
          /\ Bytes(u) = relay[u].len
      BY <1>2, <2>1, ChunkLeavesLate DEF Bytes
    <2>3. target[u] \in Sessions /\ starter[u] \notin Early
      BY <2>2, PastReservation
    <2>4. /\ state[u] = "transferring" /\ BothReady(u)
          /\ prog[u].Transferred + Bytes(u) <= prog[u].Size
      BY <2>2 DEF ProgressInv, ProgressAt
    <2>5. Moving(u) /\ prog[u].targetReady /\ Bytes(u) \in Nat
      BY <2>2, <2>4, Typed DEF BothReady, Moving, FinalStates
    <2>6. [wire EXCEPT ![target[u]] = Append(@, m)] # wire
      <3>1. wire[target[u]] \in Seq([type : MessageTypes, id : Transfers, seq : Nat, len : Nat])
        BY <2>3 DEF Inductive, TypeOK, WireOK
      <3>2. Len(Append(wire[target[u]], m)) # Len(wire[target[u]])
        BY <3>1
      <3>3. [wire EXCEPT ![target[u]] = Append(@, m)][target[u]] = Append(wire[target[u]], m)
        BY <2>3 DEF Inductive, TypeOK, WireOK
      <3> QED
        BY <3>2, <3>3
    <2>7. CASE ChunkSent(target[u], m) /\ prog' = [prog EXCEPT ![u] = Counted(u)]
      <3>1. prog'[u].nextSeq = prog[u].nextSeq + 1
        BY <2>7, Typed DEF Counted
      <3>2. \/ UNCHANGED wire /\ ~Reaches(target[u])
            \/ Reaches(target[u]) /\ wire' = [wire EXCEPT ![target[u]] = Append(@, m)]
        BY <2>7 DEF ChunkSent, Sent, Reaches
      <3> HIDE DEF m
      <3> QED
        BY <1>1, <1>2, <2>2, <2>3, <2>4, <2>5, <2>6, <3>1, <3>2 DEF m
    <2>8. CASE ChunkSendFails(u, m) /\ FailRelayLocked(u, "send", relay[u].by) /\ UNCHANGED prog
      <3>1. state'[u] \in FinalStates
        BY <2>2, <2>8, Typed DEF FailRelayLocked, Settle, FinalStates
      <3>2. \/ UNCHANGED wire
            \/ /\ late' = late /\ Reaches(target[u])
               /\ wire' = [wire EXCEPT ![target[u]] = Append(@, m)]
        BY <2>8 DEF ChunkSendFails, Sent, SendFails, Reaches
      <3>3. UNCHANGED wire \/ ~Moving(u)'
        BY <2>2, <3>1, <3>2 DEF Moving, FinalStates
      <3> HIDE DEF m
      <3> QED
        BY <1>1, <2>3, <2>4, <2>5, <2>8, <3>2, <3>3 DEF m
    <2> QED
      BY <1>2, <2>2, <2>7, <2>8 DEF SendChunk
  <1>3. CASE LateChunk(u)
    <2>1. late[u] # 0 /\ late'[u] = 0 /\ Bytes(u) = late[u] /\ late[u] \in Nat
      BY <1>3, LateEnds DEF Bytes, Inductive, TypeOK, WorkOK
    <2>2. /\ starter[u] \notin Early /\ target[u] \in HTTP /\ state[u] = "failed"
          /\ prog[u].targetReady /\ prog[u].Transferred + late[u] <= prog[u].Size
      BY <2>1 DEF LateInv, Late
    <2>3. target[u] \in Sessions
      BY <2>2 DEF Inductive, TypeOK, StarterOK, StartOrder, Early
    <2>4. wire' = [wire EXCEPT ![target[u]] = Append(@, m)] /\ state' = state
      BY <1>3, <2>1 DEF LateChunk, table
    <2>5. Moving(u) /\ ~Moving(u)' /\ Reaches(target[u])
      BY <2>1, <2>2, <2>4 DEF Moving, FinalStates, Reaches
    <2> HIDE DEF m
    <2> QED
      BY <1>1, <2>1, <2>2, <2>3, <2>4, <2>5 DEF m
  <1> QED
    BY <1>2, <1>3 DEF PutsChunk

LEMMA BelowNext ==
  ASSUME NEW k \in Nat, NEW n \in Nat, k < n
  PROVE  k < n + 1
  OBVIOUS

\* A new chunk continues the sequence.
LEMMA NewChunk ==
  ASSUME Inductive, ProgressInv, LateInv, ChunksInv, NEW u \in Transfers, PutsChunk(u),
         NEW s \in Sessions, target[u] = s
  PROVE  /\ NumberedAt(u)' /\ LastAt(u)'
         /\ WireGrows
         /\ \A r \in Sessions, v \in Transfers :
               (r # s \/ v # u) => ChunksAt(r, v)' = ChunksAt(r, v)
  <1> DEFINE m == Message("chunk", u, prog[u].nextSeq, Bytes(u))
             at == ChunksAt(s, u)
             n == Len(wire[s]) + 1
  <1>1. /\ s \in Sessions /\ prog[u].targetReady /\ Moving(u)
        /\ life' = life /\ target'[u] = s
        /\ UNCHANGED wire \/ (Reaches(s) /\ wire' = [wire EXCEPT ![s] = Append(@, m)])
        /\ \/ ~Moving(u)'
           \/ UNCHANGED wire /\ prog'[u] = prog[u]
           \/ /\ prog'[u].nextSeq = prog[u].nextSeq + 1
              /\ Reaches(s) => wire' # wire
    BY ChunkPut
  <1>2. s # NoSession
    BY <1>1, ConstantsAssumption
  <1>3. /\ \A i, j \in at : i < j => wire[s][i].seq < wire[s][j].seq
        /\ \A i \in at : wire[s][i].seq = 0 \/ \E j \in at : wire[s][j].seq = wire[s][i].seq - 1
        /\ \A i \in at : \E j \in DOMAIN wire[s] :
              j < i /\ wire[s][j].type = "start" /\ wire[s][j].id = u
    BY <1>2 DEF ChunksInv, NumberedAt
  <1>4. /\ \A i \in at : wire[s][i].seq < prog[u].nextSeq
        /\ Reaches(s) /\ prog[u].nextSeq > 0 =>
              \E i \in at : wire[s][i].seq = prog[u].nextSeq - 1
    BY <1>1, <1>2 DEF ChunksInv, LastAt
  <1>5. PICK k \in DOMAIN wire[s] : wire[s][k].type = "start" /\ wire[s][k].id = u
    BY <1>1 DEF ChunksInv, Invited, Told
  <1>6. /\ DOMAIN wire[s] = 1..Len(wire[s]) /\ Len(wire[s]) \in Nat
        /\ \A i \in DOMAIN wire[s] : wire[s][i].seq \in Nat
        /\ prog[u].nextSeq \in Nat
        /\ wire[s] \in Seq([type : MessageTypes, id : Transfers, seq : Nat, len : Nat])
    <2>1. wire[s] \in Seq([type : MessageTypes, id : Transfers, seq : Nat, len : Nat])
      BY DEF Inductive, TypeOK, WireOK
    <2>2. prog[u].nextSeq \in Nat
      BY Typed
    <2>3. DOMAIN wire[s] = 1..Len(wire[s]) /\ Len(wire[s]) \in Nat
      BY <2>1
    <2>4. ASSUME NEW i \in DOMAIN wire[s] PROVE wire[s][i].seq \in Nat
      BY <2>4, WirePlaces
    <2> QED
      BY <2>1, <2>2, <2>3, <2>4
  <1>7. /\ at \subseteq DOMAIN wire[s]
         /\ \A i \in at : wire[s][i].seq \in Nat /\ wire[s][i].seq < prog[u].nextSeq + 1
    <2>1. at \subseteq DOMAIN wire[s]
      BY DEF ChunksAt
    <2>2. ASSUME NEW i \in at
          PROVE  wire[s][i].seq \in Nat /\ wire[s][i].seq < prog[u].nextSeq + 1
      <3>1. wire[s][i].seq \in Nat /\ wire[s][i].seq < prog[u].nextSeq
        BY <1>4, <1>6, <2>1, <2>2
      <3>2. wire[s][i].seq < prog[u].nextSeq + 1
        BY <1>6, <3>1, BelowNext
      <3> QED
        BY <3>1, <3>2
    <2> HIDE DEF at
    <2> QED
      BY <2>1, <2>2
  <1>8. m.type = "chunk" /\ m.id = u /\ m.seq = prog[u].nextSeq
    BY DEF Message
  <1> HIDE DEF m
  <1>9. CASE UNCHANGED wire
    <2>1. NumberedAt(u)'
      BY <1>1, <1>3, <1>9 DEF NumberedAt, ChunksAt
    <2>2. Moving(u)' =>
              \/ prog'[u] = prog[u]
              \/ ~Reaches(s) /\ prog'[u].nextSeq = prog[u].nextSeq + 1
      BY <1>1, <1>9
    <2>3. \A i \in at : wire[s][i].seq < prog'[u].nextSeq \/ ~Moving(u)'
      BY <1>4, <1>7, <2>2
    <2>4. Reaches(s)' = Reaches(s)
      BY <1>1 DEF Reaches
    <2>5. LastAt(u)'
      BY <1>1, <1>4, <1>9, <2>2, <2>3, <2>4 DEF LastAt, ChunksAt
    <2> QED
      BY <1>9, <2>1, <2>5 DEF WireGrows, ChunksAt
  <1>10. CASE Reaches(s) /\ wire' # wire /\ wire' = [wire EXCEPT ![s] = Append(@, m)]
    <2>1. /\ wire'[s] = Append(wire[s], m)
          /\ \A r \in Sessions \ {s} : wire'[r] = wire[r]
      BY <1>1, <1>10 DEF Inductive, TypeOK, WireOK
    <2>2. /\ DOMAIN wire'[s] = DOMAIN wire[s] \cup {n}
          /\ \A i \in DOMAIN wire[s] : wire'[s][i] = wire[s][i] /\ i < n
          /\ wire'[s][n] = m
      <3>1. /\ Len(wire[s]) \in Nat /\ DOMAIN wire[s] = 1..Len(wire[s])
            /\ DOMAIN wire'[s] = 1..Len(wire[s]) + 1
            /\ \A i \in 1..Len(wire[s]) : wire'[s][i] = wire[s][i]
            /\ wire'[s][Len(wire[s]) + 1] = m
        BY <1>6, <2>1
      <3> QED
        BY <3>1
    <2>3. at \subseteq DOMAIN wire[s] /\ n \notin at /\ k < n
      BY <1>5, <1>6 DEF ChunksAt
    <2> HIDE DEF n
    <2>4. ChunksAt(s, u)' = at \cup {n}
      BY <1>1, <1>8, <2>2 DEF ChunksAt
    <2>5. \A v \in Transfers \ {u} : ChunksAt(s, v)' = ChunksAt(s, v)
      BY <1>1, <1>8, <2>2 DEF ChunksAt
    <2>6. \A r \in Sessions \ {s}, v \in Transfers : ChunksAt(r, v)' = ChunksAt(r, v)
      BY <2>1 DEF ChunksAt
    <2>7. WireGrows
      BY <2>1, <2>2 DEF WireGrows
    <2>8. NumberedAt(u)'
      <3> DEFINE w == wire'[s]
                 new == at \cup {n}
      <3>1. /\ \A i \in at : w[i] = wire[s][i] /\ i < n /\ i \in Nat
            /\ w[n].seq = prog[u].nextSeq /\ n \in Nat
        BY <1>6, <1>8, <2>2, <2>3 DEF n
      <3>2. \A i, j \in new : i < j => w[i].seq < w[j].seq
        <4>1. ASSUME NEW i \in new, NEW j \in new, i < j PROVE w[i].seq < w[j].seq
          <5>1. i # n
            BY <3>1, <4>1
          <5> QED
            BY <1>3, <1>4, <3>1, <4>1, <5>1
        <4> QED
          BY <4>1
      <3>3. \A i \in new : w[i].seq = 0 \/ \E j \in new : w[j].seq = w[i].seq - 1
        <4>1. \A i \in at : w[i].seq = 0 \/ \E j \in new : w[j].seq = w[i].seq - 1
          BY <1>3, <3>1
        <4>2. w[n].seq = 0 \/ \E j \in new : w[j].seq = w[n].seq - 1
          <5>1. CASE prog[u].nextSeq = 0
            BY <3>1, <5>1
          <5>2. CASE prog[u].nextSeq > 0
            <6>1. PICK j \in at : wire[s][j].seq = prog[u].nextSeq - 1
              BY <1>4, <1>10, <5>2
            <6>2. w[j].seq = w[n].seq - 1
              BY <3>1, <6>1
            <6> QED
              BY <6>2
          <5> QED
            BY <1>6, <5>1, <5>2
        <4> QED
          BY <4>1, <4>2
      <3>4. \A i \in new : \E j \in DOMAIN w : j < i /\ w[j].type = "start" /\ w[j].id = u
        BY <1>3, <1>5, <2>2, <2>3
      <3> QED
        BY <1>1, <2>4, <3>2, <3>3, <3>4 DEF NumberedAt
    <2>9. LastAt(u)'
      <3>1. CASE ~Moving(u)'
        BY <3>1 DEF LastAt
      <3>2. CASE prog'[u].nextSeq = prog[u].nextSeq + 1
        <4>0. prog[u].nextSeq < prog[u].nextSeq + 1
          BY <1>6
        <4>1. \A i \in at \cup {n} : wire'[s][i].seq < prog[u].nextSeq + 1
          BY <1>8, <1>7, <2>2, <4>0
        <4>2. wire'[s][n].seq = prog'[u].nextSeq - 1
          BY <1>6, <1>8, <2>2, <3>2
        <4> QED
          BY <1>1, <2>4, <3>2, <4>1, <4>2 DEF LastAt
      <3> QED
        BY <1>1, <1>10, <3>1, <3>2
    <2> QED
      BY <2>5, <2>6, <2>7, <2>8, <2>9
  <1> QED
    BY <1>1, <1>9, <1>10

\* Whatever the step, the messages stay, and the chunks that are new are those of
\* the one transfer that sent one.
LEMMA StepPutsOne ==
  ASSUME Inductive, ProgressInv, LateInv, ChunksInv, [Next]_vars
  PROVE  /\ WireGrows
         /\ \A s \in Sessions, u \in Transfers :
               ~(PutsChunk(u) /\ s = target[u]) => ChunksAt(s, u)' = ChunksAt(s, u)
  <1>1. CASE NoChunk
    <2>1. ASSUME NEW s \in Sessions, NEW u \in Transfers PROVE ChunksAt(s, u)' = ChunksAt(s, u)
      BY <1>1 DEF NoChunk, WireGrows, ChunksAt
    <2> QED
      BY <1>1, <2>1 DEF NoChunk
  <1>2. ASSUME NEW t \in Transfers, PutsChunk(t)
        PROVE  /\ WireGrows
               /\ \A s \in Sessions, u \in Transfers :
                     ~(PutsChunk(u) /\ s = target[u]) => ChunksAt(s, u)' = ChunksAt(s, u)
    <2>1. target[t] \in Sessions
      BY <1>2, ChunkPut
    <2> QED
      BY <1>2, <2>1, NewChunk
  <1> QED
    BY <1>1, <1>2, StepGrows

LEMMA ChunksStep ==
  ASSUME Inductive, Inductive', ProgressInv, LateInv, ChunksInv, [Next]_vars
  PROVE  ChunksInv'
  <1>1. /\ \A d \in Devices : session[d] \in Sessions \cup {NoSession}
        /\ \A u \in Transfers : target[u] \in Sessions \cup {NoSession}
        /\ \A d \in Devices : session'[d] \in Sessions \cup {NoSession}
        /\ \A u \in Transfers : target'[u] \in Sessions \cup {NoSession}
    BY DEF Inductive, TypeOK, RegistryOK, EndsOK
  <1>2. /\ \A s \in Sessions : life'[s] = life[s] \/ life'[s] # "new"
        /\ \A s \in Sessions : life'[s] = "open" => life[s] \in {"new", "open"}
        /\ \A d \in Devices : session'[d] \in {session[d], NoSession} \/ life'[session'[d]] # "new"
    BY LifeMoves
  <1>3. \A u \in Transfers : Moves(u)
    BY StepMoves
  <1>4. ASSUME NEW u \in Transfers, PutsChunk(u)
        PROVE  starter[u] \notin Early /\ target[u] \in Sessions /\ target'[u] = target[u]
    BY <1>4, ChunkPut
  <1>5. /\ WireGrows
        /\ \A s \in Sessions, u \in Transfers :
              ~(PutsChunk(u) /\ s = target[u]) => ChunksAt(s, u)' = ChunksAt(s, u)
    BY StepPutsOne
  <1>6. ASSUME NEW u \in Transfers, Resolves(u)
        PROVE  /\ starter[u] \in Early /\ prog'[u].nextSeq = 0 /\ ~prog'[u].targetReady
               /\ \A s \in Sessions : ChunksAt(s, u)' = {}
               /\ target'[u] # NoSession => life'[target'[u]] # "new"
    <2>1. starter[u] \in Early /\ prog' = prog /\ wire' = wire /\ life' = life
      BY <1>6 DEF Resolves, Early, registry
    <2>2. \A s \in Sessions : ChunksAt(s, u) = {}
      BY <2>1 DEF ChunksInv, ToTarget
    <2> QED
      BY <1>6, <2>1, <2>2 DEF Resolves, ChunksInv, Untouched, Attached, ChunksAt
  <1>7. Attached'
    <2>1. ASSUME NEW d \in Devices, session'[d] # NoSession PROVE life'[session'[d]] # "new"
      BY <1>1, <1>2, <2>1 DEF ChunksInv, Attached
    <2>2. ASSUME NEW u \in Transfers, target'[u] # NoSession PROVE life'[target'[u]] # "new"
      <3>1. CASE target'[u] = target[u]
        BY <1>1, <1>2, <2>2, <3>1 DEF ChunksInv, Attached
      <3> QED
        BY <1>3, <1>6, <2>2, <3>1 DEF Moves
    <2> QED
      BY <2>1, <2>2 DEF Attached
  <1>8. Untouched'
    <2>1. ASSUME NEW u \in Transfers, starter'[u] \in Early
          PROVE  prog'[u].nextSeq = 0 /\ ~prog'[u].targetReady
      <3>1. starter[u] \in Early /\ ~SendChunk(u)
        BY <1>3, <1>4, <2>1 DEF Moves, PutsChunk
      <3> QED
        BY <1>3, <2>1, <3>1 DEF Moves, ChunksInv, Untouched
    <2> QED
      BY <2>1 DEF Untouched, Early
  <1>9. Invited'
    <2>1. ASSUME NEW u \in Transfers, prog'[u].targetReady PROVE Told(target[u], u, "start")'
      <3>1. Told(target[u], u, "start")
        BY <1>3, <2>1 DEF Moves, ChunksInv, Invited
      <3>2. target'[u] = target[u]
        BY <1>3, <1>6, <2>1 DEF Moves
      <3>3. target'[u] \in Sessions
        <4>1. starter'[u] \notin Early
          BY <1>8, <2>1 DEF Untouched, Early
        <4>2. starter'[u] \in {"idle", "resolve", "reserve", "lock", "starting", "waiting", "returned"}
          BY DEF Inductive, TypeOK, StarterOK
        <4> QED
          BY <4>1, <4>2 DEF Inductive, StartOrder, Early
      <3> QED
        BY <1>5, <3>1, <3>2, <3>3 DEF Told, WireGrows
    <2>2. \A u \in Transfers : prog'[u].targetReady => Told(target[u], u, "start")'
      BY <2>1
    <2> QED
      BY <2>2 DEF Invited
  <1>10. ToTarget'
    <2>1. ASSUME NEW s \in Sessions, NEW u \in Transfers, ChunksAt(s, u)' # {}
          PROVE  s = target'[u] /\ starter'[u] \notin Early
      <3>1. s = target[u] /\ starter[u] \notin Early
        BY <1>4, <1>5, <2>1 DEF ChunksInv, ToTarget
      <3> QED
        BY <1>3, <1>6, <3>1 DEF Moves
    <2>2. \A s \in Sessions, u \in Transfers :
              ChunksAt(s, u)' # {} => s = target'[u] /\ starter'[u] \notin Early
      BY <2>1
    <2> QED
      BY <2>2 DEF ToTarget, Early
  <1>11. ASSUME NEW u \in Transfers, target'[u] # NoSession PROVE NumberedAt(u)' /\ LastAt(u)'
    <2>1. CASE target'[u] # target[u]
      <3>1. Resolves(u) /\ target'[u] \in Sessions
        BY <1>1, <1>3, <1>11, <2>1 DEF Moves
      <3>2. ChunksAt(target[u], u)' = {}
        BY <1>6, <3>1 DEF ChunksAt
      <3> QED
        BY <1>6, <3>1, <3>2 DEF NumberedAt, LastAt
    <2>2. CASE target'[u] = target[u] /\ PutsChunk(u)
      BY <1>4, <2>2, NewChunk
    <2>3. CASE target'[u] = target[u] /\ ~PutsChunk(u)
      <3>1. target[u] \in Sessions
        BY <1>1, <1>11, <2>3
      <3>2. Moving(u)' => Moving(u)
        BY MovedBefore
      <3> QED
        BY <1>2, <1>3, <1>5, <1>11, <2>3, <3>1, <3>2, KeptChunks
    <2> QED
      BY <2>1, <2>2, <2>3
  <1> QED
    <2>1. \A u \in Transfers : target'[u] # NoSession => NumberedAt(u)' /\ LastAt(u)'
      BY <1>11
    <2> QED
      BY <1>7, <1>8, <1>9, <1>10, <2>1 DEF ChunksInv

LEMMA InitChunks == Init => ChunksInv
  BY DEF Init, ChunksInv, Attached, Untouched, Invited, ToTarget, ChunksAt, NoProgress

\* Whatever races with the relay, the chunks on the target's connection are
\* numbered without a gap and follow the start, and the source's carries none
\* (handleTransferChunk; the sends under relayMu).
THEOREM RelayIsInOrder == Spec => []RelayedInOrder
  <1>1. Init => Inductive /\ ProgressInv /\ DataInv /\ ChunksInv
    BY InitInductive, InitProgress, InitData, InitChunks
  <1>2. Inductive /\ ProgressInv /\ DataInv /\ ChunksInv /\ [Next]_vars =>
            Inductive' /\ ProgressInv' /\ DataInv' /\ ChunksInv'
    BY NextInductive, NextRefines, DataStep, ChunksStep DEF DataInv
  <1>3. Inductive /\ ChunksInv => RelayedInOrder
    <2>1. ASSUME Inductive, ChunksInv, NEW t \in Transfers, source[t] # NoSession,
                 target[t] # NoSession
          PROVE  ChunksAt(source[t], t) = {}
      <3>1. source[t] \in Sessions
        BY <2>1 DEF Inductive, TypeOK, EndsOK
      <3>2. starter[t] \in {"idle", "resolve", "reserve", "lock", "starting", "waiting", "returned"}
        BY <2>1 DEF Inductive, TypeOK, StarterOK
      <3>3. starter[t] \notin Early => source[t] # target[t]
        BY <2>1, <3>2 DEF Inductive, StartOrder, Early, SourceDevice, TargetDevice
      <3> QED
        BY <2>1, <3>1, <3>3 DEF ChunksInv, ToTarget
    <2>2. ASSUME Inductive, ChunksInv, NEW t \in Transfers, target[t] # NoSession
          PROVE  NumberedAt(t)
      BY <2>2 DEF ChunksInv
    <2> QED
      BY <2>1, <2>2 DEF RelayedInOrder, NumberedAt
  <1> QED
    BY <1>1, <1>2, <1>3, PTL DEF Spec
----------------------------------------------------------------------------
(* What a completed transfer delivered.  On the target's connection the start  *)
(* is first and the commit last, because each is the only step that leads to   *)
(* the state in which the next may be sent; and the chunks cover the file up   *)
(* to Transferred, which is the size when the commit goes out.                 *)

Aborted == {"failed", "cancelled"}
Relayed == {"start", "chunk", "commit"}

Heard(s, u) == \E i \in DOMAIN wire[s] : wire[s][i].id = u

Unheard == \A s \in Sessions, u \in Transfers : Heard(s, u) => starter[u] \notin Early

\* What a section under relayMu means for the state of its transfer.
Turned(u) ==
    /\ state[u] \in {"none", "preparing"} => prog[u].nextSeq = 0 /\ prog[u].Transferred = 0
    /\ relay[u].pc = "commit" => state[u] = "verifying"
    /\ relay[u].pc \in Cancelling => state[u] \in Aborted
    /\ relay[u].pc = "startTarget" => starter[u] # "lock"

OneStart(u) == LET w == wire[target[u]] IN
    \A i, j \in DOMAIN w :
        /\ w[i].id = u /\ w[i].type = "start"
        /\ w[j].id = u /\ w[j].type = "start"
        => i = j

CommitLast(u) == LET w == wire[target[u]] IN
    \A i, j \in DOMAIN w :
        /\ w[i].id = u /\ w[i].type \in Relayed
        /\ w[j].id = u /\ w[j].type = "commit"
        => i <= j

NoCancelYet(u) == LET w == wire[target[u]] IN
    state[u] \notin Aborted =>
        \A i \in DOMAIN w : w[i].id = u => w[i].type \in Relayed

\* How far the messages that the target was sent bind the state.
Sealed(u) ==
    /\ Told(target[u], u, "start") => starter[u] # "lock" /\ relay[u].pc # "startTarget"
    /\ Told(target[u], u, "commit") =>
          /\ state[u] \in {"verifying"} \cup FinalStates
          /\ relay[u].pc \in {"free"} \cup Cancelling
          /\ Told(target[u], u, "start")
    /\ state[u] = "completed" => Told(target[u], u, "commit")
    /\ late[u] # 0 => ~Told(target[u], u, "commit")

\* The chunks reach as far as Transferred says.
Frontier(u, offset) == LET w == wire[target[u]] IN
    /\ prog[u].nextSeq = 0 => prog[u].Transferred = 0
    /\ \A i \in DOMAIN offset :
          w[i].seq + 1 = prog[u].nextSeq => offset[i] + w[i].len = prog[u].Transferred
    /\ Covered(u, offset, prog[u].Transferred)

Placed(u) ==
    \E offset \in [ChunksAt(target[u], u) -> 0..prog[u].Size] :
        /\ Laid(u, offset)
        /\ Moving(u) /\ Reaches(target[u]) => Frontier(u, offset)
        /\ Told(target[u], u, "commit") => Covered(u, offset, prog[u].Size)

Ordered(u) == OneStart(u) /\ CommitLast(u) /\ NoCancelYet(u) /\ Sealed(u)

DeliveryInv ==
    /\ Unheard
    /\ \A u \in Transfers : Turned(u)
    /\ \A u \in Transfers : target[u] # NoSession => Ordered(u) /\ Placed(u)

\* What one step makes of the section, the state and the StartTransfer of u.
Turn(u) ==
    \/ state'[u] = state[u] /\ relay'[u].pc \in {relay[u].pc, "free"}
    \/ state[u] = "none" /\ state'[u] = "preparing" /\ relay'[u].pc = relay[u].pc
    \/ /\ starter[u] = "lock" /\ starter'[u] = "starting"
       /\ state'[u] = state[u] /\ relay'[u].pc = "startTarget"
    \/ Live(u) /\ state'[u] \in Aborted /\ relay'[u].pc = "cancelSource"
    \/ /\ state'[u] = state[u]
       /\ \/ relay[u].pc = "startTarget" /\ relay'[u].pc = "startSource"
          \/ relay[u].pc = "cancelSource" /\ relay'[u].pc = "cancelTarget"
    \/ state[u] = "preparing" /\ state'[u] = "transferring" /\ relay'[u].pc = "send"
    \/ state[u] = "transferring" /\ state'[u] = "transferring" /\ relay'[u].pc = "chunk"
    \/ state[u] = "transferring" /\ state'[u] = "verifying" /\ relay'[u].pc = "commit"
    \/ /\ state[u] = "verifying" /\ state'[u] = "completed" /\ relay'[u].pc = relay[u].pc
       /\ Told(target[u], u, "commit")

LockMoves(u) == starter'[u] = "lock" => starter[u] \in {"lock", "reserve"}

LEMMA SameTurn ==
  ASSUME NEW u \in Transfers, UNCHANGED <<state, relay>>
  PROVE  Turn(u)
  BY DEF Turn

LEMMA FailTurn ==
  ASSUME Inductive, NEW t \in Transfers, NEW why, NEW by, FailRelayLocked(t, why, by),
         why \in {"send", "protocol", "peer", "timeout", "disconnected", "shutdown"},
         NEW u \in Transfers
  PROVE  Turn(u) /\ LockMoves(u)
  <1>1. LockMoves(u)
    BY DEF FailRelayLocked, Release, LockMoves, Inductive, TypeOK, StarterOK
  <1>2. CASE Live(t)
    <2>1. /\ state'[t] = "failed" /\ relay'[t].pc = "cancelSource"
          /\ u # t => state'[u] = state[u] /\ relay'[u] = relay[u]
      BY <1>2, Typed DEF FailRelayLocked, Settle, Hold
    <2> QED
      BY <1>1, <1>2, <2>1 DEF Turn, Aborted
  <1>3. CASE ~Live(t)
    <2>1. /\ state' = state /\ relay'[t].pc = "free"
          /\ u # t => relay'[u] = relay[u]
      BY <1>3, Typed DEF FailRelayLocked, Release, Unheld, table
    <2> QED
      BY <1>1, <2>1 DEF Turn
  <1> QED
    BY <1>2, <1>3

LEMMA ReleaseTurn ==
  ASSUME Inductive, NEW t \in Transfers, Release(t), UNCHANGED state, NEW u \in Transfers
  PROVE  Turn(u) /\ LockMoves(u)
  <1>1. LockMoves(u)
    BY DEF Release, LockMoves, Inductive, TypeOK, StarterOK
  <1>2. relay'[t].pc = "free" /\ (u # t => relay'[u] = relay[u])
    BY Typed DEF Release, Unheld
  <1> QED
    BY <1>1, <1>2 DEF Turn

LEMMA NextSendTurn ==
  ASSUME Inductive, NEW t \in Transfers, UNCHANGED <<state, starter>>,
         \/ relay[t].pc = "startTarget" /\ relay' = [relay EXCEPT ![t].pc = "startSource"]
         \/ relay[t].pc = "cancelSource" /\ relay' = [relay EXCEPT ![t].pc = "cancelTarget"],
         NEW u \in Transfers
  PROVE  Turn(u) /\ LockMoves(u)
  <1>1. \/ relay[t].pc = "startTarget" /\ relay'[t].pc = "startSource"
        \/ relay[t].pc = "cancelSource" /\ relay'[t].pc = "cancelTarget"
    BY Typed
  <1>2. u # t => relay'[u] = relay[u]
    BY Typed
  <1> QED
    BY <1>1, <1>2 DEF Turn, LockMoves

LEMMA RelayTurn ==
  ASSUME Inductive, NEW t \in Transfers, RelayStep(t), NEW u \in Transfers
  PROVE  Turn(u) /\ LockMoves(u)
  <1>1. CASE FailRelayLocked(t, "send", relay[t].by)
    BY <1>1, FailTurn
  <1>2. CASE Release(t) /\ UNCHANGED state
    BY <1>2, ReleaseTurn
  <1>3. ASSUME NEW step, NEW s, NEW type, SendThen(t, step, s, type, "free")
        PROVE  Turn(u) /\ LockMoves(u)
    BY <1>1, <1>2, <1>3 DEF SendThen, table
  <1>4. CASE SendTargetStart(t)
    BY <1>1, <1>4, NextSendTurn DEF SendTargetStart, SendThen, table
  <1>5. CASE SendCancelSource(t)
    BY <1>5, NextSendTurn DEF SendCancelSource, table
  <1>6. CASE SendChunk(t)
    BY <1>1, <1>2, <1>6 DEF SendChunk, table
  <1>7. CASE SendCancelTarget(t)
    BY <1>2, <1>7 DEF SendCancelTarget, table
  <1> QED
    BY <1>3, <1>4, <1>5, <1>6, <1>7 DEF RelayStep, SendSourceStart, SendSend, SendCommit

LEMMA CoreTurn ==
  ASSUME Inductive, NEW s \in Sessions, NEW t \in Transfers, CoreStep(s, t), NEW u \in Transfers
  PROVE  Turn(u) /\ LockMoves(u)
  <1>1. ASSUME NEW why \in {"protocol", "peer"}, NEW by, FailRelayLocked(t, why, by)
        PROVE  Turn(u) /\ LockMoves(u)
    BY <1>1, FailTurn
  <1>2. CASE UNCHANGED <<state, relay, starter>>
    BY <1>2, SameTurn DEF LockMoves
  <1>3. ASSUME NEW ready, state[t] = "preparing", BecomeReady(s, t, ready)
        PROVE  Turn(u) /\ LockMoves(u)
    <2>1. UNCHANGED starter
      BY <1>3 DEF BecomeReady
    <2>2. CASE ready.sourceReady /\ ready.targetReady
      <3>1. /\ state'[t] = "transferring" /\ relay'[t].pc = "send"
            /\ u # t => state'[u] = state[u] /\ relay'[u] = relay[u]
        BY <1>3, <2>2, Typed DEF BecomeReady, Hold
      <3> QED
        BY <1>3, <2>1, <3>1 DEF Turn, LockMoves
    <2>3. CASE ~(ready.sourceReady /\ ready.targetReady)
      BY <1>2, <1>3, <2>1, <2>3 DEF BecomeReady
    <2> QED
      BY <2>2, <2>3
  <1>4. ASSUME NEW n \in Sizes, SourceReady(s, t, n) PROVE Turn(u) /\ LockMoves(u)
    BY <1>3, <1>4 DEF SourceReady
  <1>5. CASE TargetReady(s, t)
    BY <1>3, <1>5 DEF TargetReady
  <1>6. ASSUME NEW seq \in Sizes, NEW n \in Sizes, SourceChunk(s, t, seq, n)
        PROVE  Turn(u) /\ LockMoves(u)
    <2>1. ASSUME NEW by, Hold(t, "chunk", by, n), UNCHANGED <<table, timer, starter>>
          PROVE  Turn(u) /\ LockMoves(u)
      <3>1. relay'[t].pc = "chunk" /\ (u # t => relay'[u] = relay[u]) /\ state' = state
        BY <2>1, Typed DEF Hold, table
      <3>2. state[t] = "transferring"
        BY <1>6 DEF SourceChunk
      <3> QED
        BY <2>1, <3>1, <3>2 DEF Turn, LockMoves
    <2> QED
      BY <1>1, <1>6, <2>1 DEF SourceChunk
  <1>7. ASSUME NEW n \in Sizes, NEW h \in Digests \cup {NoDigest}, SourceFinish(s, t, n, h)
        PROVE  Turn(u) /\ LockMoves(u)
    <2>1. CASE /\ state[t] = "transferring" /\ state' = [state EXCEPT ![t] = "verifying"]
               /\ Hold(t, "commit", s, 0) /\ UNCHANGED starter
      <3>1. /\ relay'[t].pc = "commit" /\ state'[t] = "verifying"
            /\ u # t => relay'[u] = relay[u] /\ state'[u] = state[u]
        BY <2>1, Typed DEF Hold
      <3> QED
        BY <2>1, <3>1 DEF Turn, LockMoves
    <2> QED
      BY <1>1, <1>7, <2>1 DEF SourceFinish
  <1>8. ASSUME NEW n \in Sizes, NEW h \in Digests \cup {NoDigest}, TargetFinish(s, t, n, h)
        PROVE  Turn(u) /\ LockMoves(u)
    <2>1. CASE Settle(t, "completed", "none") /\ UNCHANGED <<relay, starter>>
      <3>1. state'[t] = "completed" /\ (u # t => state'[u] = state[u])
        BY <2>1, Typed DEF Settle
      <3>2. state[t] = "verifying" /\ Told(target[t], t, "commit")
        BY <1>8 DEF TargetFinish
      <3> QED
        BY <2>1, <3>1, <3>2 DEF Turn, LockMoves
    <2> QED
      BY <1>1, <1>8, <2>1 DEF TargetFinish, FailTransfer
  <1>9. CASE PeerFailed(s, t)
    BY <1>1, <1>9 DEF PeerFailed
  <1> QED
    BY <1>4, <1>5, <1>6, <1>7, <1>8, <1>9 DEF CoreStep

LEMMA StartTurn ==
  ASSUME Inductive, NEW t \in Transfers, StartStep(t) \/ CancelTransfer(t), NEW u \in Transfers
  PROVE  Turn(u) /\ LockMoves(u)
  <1>1. LockMoves(u)
    BY DEF StartStep, Refuse, Reserve, StartRelay, Return, CancelTransfer, LockMoves, Inductive,
           TypeOK, StarterOK
  <1>2. CASE Refuse(t) \/ Return(t)
    BY <1>1, <1>2, SameTurn DEF Refuse, Return, table
  <1>3. CASE Reserve(t)
    <2>1. state[t] = "none" /\ relay' = relay
      BY <1>3 DEF Reserve, Inductive, StartOrder, Early
    <2>2. state'[t] = "preparing" /\ (u # t => state'[u] = state[u])
      BY <1>3, Typed DEF Reserve
    <2> QED
      BY <1>1, <2>1, <2>2 DEF Turn
  <1>4. CASE StartRelay(t)
    <2>1. /\ relay'[t].pc = "startTarget" /\ state' = state
          /\ u # t => relay'[u] = relay[u]
      BY <1>4, Typed DEF StartRelay, Hold, table
    <2>2. starter[t] = "lock" /\ starter'[t] = "starting"
      BY <1>4 DEF StartRelay, Inductive, TypeOK, StarterOK
    <2> QED
      BY <1>1, <2>1, <2>2 DEF Turn
  <1>5. CASE CancelTransfer(t)
    <2>1. /\ relay'[t].pc = "cancelSource" /\ state'[t] = "cancelled" /\ Live(t)
          /\ u # t => relay'[u] = relay[u] /\ state'[u] = state[u]
      BY <1>5, Typed DEF CancelTransfer, Hold, Settle
    <2> QED
      BY <1>1, <2>1 DEF Turn, Aborted
  <1> QED
    BY <1>2, <1>3, <1>4, <1>5 DEF StartStep

LEMMA StepTurns ==
  ASSUME Inductive, [Next]_vars, NEW u \in Transfers
  PROVE  Turn(u) /\ LockMoves(u)
  <1> DEFINE Goal == Turn(u) /\ LockMoves(u)
  <1>1. ASSUME UNCHANGED <<state, relay, starter>> PROVE Goal
    BY <1>1, SameTurn DEF LockMoves
  <1>2. CASE UNCHANGED vars
    BY <1>1, <1>2 DEF vars, table
  <1>3. ASSUME NEW s \in Sessions, Attach(s) \/ ConnectionLost(s) PROVE Goal
    BY <1>1, <1>3 DEF Attach, ConnectionLost, table
  <1>4. ASSUME NEW s \in Sessions, NEW w \in Detachers, DetachUnbind(s, w) \/ DetachStep(s, w)
        PROVE  Goal
    <2>1. ASSUME NEW t \in Transfers, DetachFail(s, w, t) PROVE Goal
      BY <2>1, FailTurn DEF DetachFail, FailTransfer
    <2> QED
      BY <1>1, <1>4, <2>1 DEF DetachStep, DetachUnbind, DetachClose, DetachScan, table
  <1>5. CASE CloseScan \/ CloseStep
    <2>1. ASSUME NEW t \in Transfers, CloseFail(t) PROVE Goal
      BY <2>1, FailTurn DEF CloseFail, FailTransfer
    <2> QED
      BY <1>1, <1>5, <2>1 DEF CloseStep, CloseScan, CloseUnbind, CloseSession, table
  <1>6. ASSUME NEW t \in Transfers, NEW d \in Devices, ResolveSource(t, d) \/ ResolveTarget(t, d)
        PROVE  Goal
    <2>1. LockMoves(u)
      BY <1>6 DEF ResolveSource, ResolveTarget, LockMoves, Inductive, TypeOK, StarterOK
    <2> QED
      BY <1>6, <2>1, SameTurn DEF ResolveSource, ResolveTarget, table
  <1>7. ASSUME NEW t \in Transfers, StartStep(t) \/ CancelTransfer(t) PROVE Goal
    BY <1>7, StartTurn
  <1>8. ASSUME NEW t \in Transfers, RelayStep(t) PROVE Goal
    BY <1>8, RelayTurn
  <1>9. ASSUME NEW s \in Sessions, NEW t \in Transfers, CoreStep(s, t) PROVE Goal
    BY <1>9, CoreTurn
  <1>10. ASSUME NEW t \in Transfers, GoIdle(t) \/ Expire(t) \/ LateChunk(t) PROVE Goal
    BY <1>1, <1>10, FailTurn DEF GoIdle, Expire, LateChunk, table
  <1> QED
    BY <1>2, <1>3, <1>4, <1>5, <1>6, <1>7, <1>8, <1>9, <1>10 DEF Next

----------------------------------------------------------------------------
(* What a step puts on the target's connection, and what it counts. *)

\* The messages about u on the connection s stay, and there is no other.
Quiet(s, u) ==
    /\ \A i \in DOMAIN wire[s] : i \in DOMAIN wire'[s] /\ wire'[s][i] = wire[s][i]
    /\ \A i \in DOMAIN wire'[s] : i \in DOMAIN wire[s] \/ wire'[s][i].id # u

\* The message m is the new one, at n.
Added(s, n, m) ==
    /\ DOMAIN wire'[s] = DOMAIN wire[s] \cup {n}
    /\ \A i \in DOMAIN wire[s] : i < n /\ wire'[s][i] = wire[s][i]
    /\ n \notin DOMAIN wire[s]
    /\ wire'[s][n] = m

Gets(u) ==
    \/ Quiet(target[u], u)
    \/ \E n \in Nat, m \in [type : MessageTypes, id : {u}, seq : Nat, len : Nat] :
          /\ Added(target[u], n, m)
          /\ Reaches(target[u])
          /\ \/ /\ m.type = "start"
                /\ relay[u].pc = "startTarget" /\ relay'[u].pc = "startSource"
             \/ m = Message("chunk", u, prog[u].nextSeq, Bytes(u)) /\ PutsChunk(u)
             \/ /\ m.type = "commit" /\ relay[u].pc = "commit" /\ relay'[u].pc = "free"
                /\ state' = state /\ prog' = prog
             \/ m.type = "cancel" /\ relay[u].pc = "cancelTarget"

LEMMA AppendAdds ==
  ASSUME TypeOK, NEW s \in Sessions, NEW m, wire' = [wire EXCEPT ![s] = Append(@, m)]
  PROVE  \E n \in Nat : Added(s, n, m)
  <1>1. wire[s] \in Seq([type : MessageTypes, id : Transfers, seq : Nat, len : Nat])
    BY DEF TypeOK, WireOK
  <1>2. wire'[s] = Append(wire[s], m)
    BY DEF TypeOK, WireOK
  <1>3. /\ Len(wire[s]) \in Nat /\ DOMAIN wire[s] = 1..Len(wire[s])
        /\ DOMAIN wire'[s] = 1..Len(wire[s]) + 1
        /\ \A i \in 1..Len(wire[s]) : wire'[s][i] = wire[s][i]
        /\ wire'[s][Len(wire[s]) + 1] = m
    BY <1>1, <1>2
  <1>4. Added(s, Len(wire[s]) + 1, m)
    BY <1>3 DEF Added
  <1> QED
    BY <1>3, <1>4

LEMMA SameQuiet ==
  ASSUME NEW s, NEW u, wire'[s] = wire[s]
  PROVE  Quiet(s, u)
  BY DEF Quiet

\* A message to the other end, or about another transfer.
LEMMA ElsewhereQuiet ==
  ASSUME TypeOK, NEW r \in Sessions, NEW m, wire' = [wire EXCEPT ![r] = Append(@, m)],
         NEW s \in Sessions, NEW u, r # s \/ m.id # u
  PROVE  Quiet(s, u)
  <1>1. CASE r # s
    BY <1>1, SameQuiet DEF TypeOK, WireOK
  <1>2. CASE r = s /\ m.id # u
    BY <1>2, AppendAdds DEF Added, Quiet
  <1> QED
    BY <1>1, <1>2

LEMMA PutGets ==
  ASSUME TypeOK, NEW u \in Transfers, NEW type \in MessageTypes, NEW seq \in Nat, NEW len \in Nat,
         target[u] \in Sessions,
         wire' = [wire EXCEPT ![target[u]] = Append(@, Message(type, u, seq, len))]
  PROVE  \E n \in Nat, m \in [type : MessageTypes, id : {u}, seq : Nat, len : Nat] :
            Added(target[u], n, m) /\ m = Message(type, u, seq, len) /\ m.type = type
  <1> DEFINE m == Message(type, u, seq, len)
  <1>1. m \in [type : MessageTypes, id : {u}, seq : Nat, len : Nat] /\ m.type = type
    BY DEF Message
  <1>2. PICK n \in Nat : Added(target[u], n, m)
    BY AppendAdds
  <1> HIDE DEF m
  <1> QED
    BY <1>1, <1>2 DEF m

LEMMA RelayGets ==
  ASSUME Inductive, ProgressInv, LateInv, NEW u \in Transfers, RelayStep(u)
  PROVE  Gets(u)
  <1>1. relay[u].pc # "free" /\ relay[u].len \in Nat /\ prog[u].nextSeq \in Nat
    BY Typed DEF RelayStep, SendTargetStart, SendSourceStart, SendSend, SendCommit, SendThen, SendChunk,
                SendCancelSource, SendCancelTarget
  <1>2. source[u] \in Sessions /\ target[u] \in Sessions /\ source[u] # target[u] /\ TypeOK
    BY <1>1, PastReservation DEF Inductive, SourceDevice, TargetDevice
  <1>3. CASE UNCHANGED wire
    BY <1>3, SameQuiet DEF Gets
  <1>4. ASSUME NEW type \in MessageTypes, Sent(source[u], Message(type, u, 0, 0))
        PROVE  Gets(u)
    <2>1. UNCHANGED wire \/ wire' = [wire EXCEPT ![source[u]] = Append(@, Message(type, u, 0, 0))]
      BY <1>4 DEF Sent
    <2> QED
      BY <1>2, <1>3, <2>1, ElsewhereQuiet DEF Gets
  <1>5. CASE SendSourceStart(u) \/ SendSend(u) \/ SendCancelSource(u)
    BY <1>3, <1>4, <1>5 DEF SendSourceStart, SendSend, SendCancelSource, SendThen, SendFails, MessageTypes
  <1>6. ASSUME NEW type \in MessageTypes, NEW seq \in Nat, NEW len \in Nat,
               Sent(target[u], Message(type, u, seq, len))
        PROVE  \/ UNCHANGED wire
               \/ /\ Reaches(target[u])
                  /\ \E n \in Nat, m \in [type : MessageTypes, id : {u}, seq : Nat, len : Nat] :
                        Added(target[u], n, m) /\ m = Message(type, u, seq, len) /\ m.type = type
    <2>1. \/ UNCHANGED wire
          \/ /\ life[target[u]] = "open"
             /\ wire' = [wire EXCEPT ![target[u]] = Append(@, Message(type, u, seq, len))]
      BY <1>6 DEF Sent
    <2> QED
      BY <1>2, <2>1, PutGets DEF Reaches
  <1>7. CASE SendTargetStart(u)
    <2>1. CASE Sent(target[u], Message("start", u, 0, 0)) /\ relay' = [relay EXCEPT ![u].pc = "startSource"]
      <3>1. relay[u].pc = "startTarget" /\ relay'[u].pc = "startSource"
        BY <1>7, <2>1, Typed DEF SendTargetStart, SendThen
      <3> QED
        BY <1>3, <1>6, <2>1, <3>1 DEF Gets, MessageTypes
    <2> QED
      BY <1>3, <1>7, <2>1 DEF SendTargetStart, SendThen, SendFails
  <1>8. CASE SendCommit(u)
    <2>1. CASE Sent(target[u], Message("commit", u, 0, 0)) /\ Release(u) /\ UNCHANGED <<table, timer>>
      <3>1. /\ relay[u].pc = "commit" /\ relay'[u].pc = "free"
            /\ state' = state /\ prog' = prog
        BY <1>8, <2>1, Typed DEF SendCommit, SendThen, Release, Unheld, table, work
      <3> QED
        BY <1>3, <1>6, <2>1, <3>1 DEF Gets, MessageTypes
    <2> QED
      BY <1>3, <1>8, <2>1 DEF SendCommit, SendThen, SendFails
  <1>9. CASE SendChunk(u)
    <2>1. \/ UNCHANGED wire
          \/ Sent(target[u], Message("chunk", u, prog[u].nextSeq, relay[u].len))
      BY <1>9 DEF SendChunk, ChunkSent, ChunkSendFails, SendFails
    <2>2. Late(u)
      BY DEF LateInv
    <2>3. Bytes(u) = relay[u].len
      BY <1>9, <2>2, ChunkLeavesLate DEF Bytes
    <2> QED
      BY <1>1, <1>3, <1>6, <1>9, <2>1, <2>3 DEF Gets, MessageTypes, PutsChunk
  <1>10. CASE SendCancelTarget(u)
    <2>1. relay[u].pc = "cancelTarget"
      BY <1>10 DEF SendCancelTarget
    <2> QED
      BY <1>3, <1>6, <1>10, <2>1 DEF SendCancelTarget, Gets, MessageTypes, SendFails
  <1> QED
    BY <1>5, <1>7, <1>8, <1>9, <1>10 DEF RelayStep

LEMMA StepGets ==
  ASSUME Inductive, ProgressInv, LateInv, [Next]_vars, NEW u \in Transfers, target[u] \in Sessions
  PROVE  Gets(u)
  <1>1. CASE UNCHANGED wire
    BY <1>1, SameQuiet DEF Gets
  <1>2. CASE RelayStep(u)
    BY <1>2, RelayGets
  <1>3. ASSUME NEW t \in Transfers, t # u, Puts(t) PROVE Gets(u)
    <2>1. PICK s \in Sessions, m \in [type : MessageTypes, id : {t}, seq : Nat, len : Nat] :
              wire' = [wire EXCEPT ![s] = Append(@, m)]
      BY <1>3 DEF Puts
    <2>2. TypeOK /\ m.id # u
      BY <1>3 DEF Inductive
    <2> QED
      BY <2>1, <2>2, ElsewhereQuiet DEF Gets
  <1>4. ASSUME NEW t \in Transfers, t # u, LateChunk(t) PROVE Gets(u)
    <2> DEFINE m == Message("chunk", t, prog[t].nextSeq, late[t])
    <2>1. TypeOK /\ target[t] \in Sessions
      BY <1>4, ChunkPut DEF PutsChunk, Inductive
    <2>2. wire' = [wire EXCEPT ![target[t]] = Append(@, m)] /\ m.id = t
      BY <1>4 DEF LateChunk, Message
    <2> HIDE DEF m
    <2> QED
      BY <1>4, <2>1, <2>2, ElsewhereQuiet DEF Gets
  <1>5. CASE LateChunk(u)
    <2>1. late[u] # 0 /\ Bytes(u) = late[u] /\ Reaches(target[u])
      BY <1>5, LateEnds DEF Bytes, LateInv, Late, Reaches
    <2> DEFINE m == Message("chunk", u, prog[u].nextSeq, late[u])
    <2>2. TypeOK /\ target[u] \in Sessions /\ late[u] \in Nat /\ prog[u].nextSeq \in Nat
      BY Typed DEF Inductive, TypeOK, WorkOK
    <2>3. /\ m \in [type : MessageTypes, id : {u}, seq : Nat, len : Nat]
          /\ m = Message("chunk", u, prog[u].nextSeq, Bytes(u))
      BY <2>1, <2>2 DEF Message, MessageTypes
    <2>4. wire' = [wire EXCEPT ![target[u]] = Append(@, m)]
      BY <1>5 DEF LateChunk
    <2> HIDE DEF m
    <2>5. PICK n \in Nat : Added(target[u], n, m)
      BY <2>2, <2>4, AppendAdds
    <2> QED
      BY <1>5, <2>1, <2>3, <2>5 DEF Gets, PutsChunk
  <1> QED
    BY <1>1, <1>2, <1>3, <1>4, <1>5, OnlyRelaySends, RelayPuts

LEMMA StepHeard ==
  ASSUME Inductive, ProgressInv, LateInv, [Next]_vars, NEW s \in Sessions, NEW u \in Transfers,
         Heard(s, u)'
  PROVE  Heard(s, u) \/ starter[u] \notin Early
  <1>1. CASE UNCHANGED wire
    BY <1>1 DEF Heard
  <1>2. ASSUME NEW t \in Transfers, RelayStep(t), Puts(t) PROVE Heard(s, u) \/ starter[u] \notin Early
    <2>1. relay[t].pc # "free"
      BY <1>2 DEF RelayStep, SendTargetStart, SendSourceStart, SendSend, SendCommit, SendThen, SendChunk,
             SendCancelSource, SendCancelTarget
    <2>2. CASE t = u
      BY <2>1, <2>2, PastReservation
    <2>3. CASE t # u
      <3>1. PICK r \in Sessions, m \in [type : MessageTypes, id : {t}, seq : Nat, len : Nat] :
                wire' = [wire EXCEPT ![r] = Append(@, m)]
        BY <1>2 DEF Puts
      <3>2. TypeOK /\ m.id # u
        BY <2>3 DEF Inductive
      <3>3. Quiet(s, u)
        BY <3>1, <3>2, ElsewhereQuiet
      <3> QED
        BY <3>3 DEF Quiet, Heard
    <2> QED
      BY <2>2, <2>3
  <1>3. ASSUME NEW t \in Transfers, LateChunk(t) PROVE Heard(s, u) \/ starter[u] \notin Early
    <2>1. CASE t = u
      BY <1>3, <2>1, ChunkPut DEF PutsChunk
    <2>2. CASE t # u
      <3>1. TypeOK /\ target[t] \in Sessions
        BY <1>3, ChunkPut DEF PutsChunk, Inductive
      <3> DEFINE m == Message("chunk", t, prog[t].nextSeq, late[t])
      <3>2. wire' = [wire EXCEPT ![target[t]] = Append(@, m)] /\ m.id # u
        BY <1>3, <2>2 DEF LateChunk, Message
      <3> HIDE DEF m
      <3>3. Quiet(s, u)
        BY <3>1, <3>2, ElsewhereQuiet
      <3> QED
        BY <3>3 DEF Quiet, Heard
    <2> QED
      BY <2>1, <2>2
  <1> QED
    BY <1>1, <1>2, <1>3, OnlyRelaySends, RelayPuts

\* The size is set while the transfer is prepared, and a chunk is counted when it
\* is sent.
Tally(u) ==
    \/ /\ prog'[u].nextSeq = prog[u].nextSeq /\ prog'[u].Transferred = prog[u].Transferred
       /\ prog'[u].Size = prog[u].Size \/ state[u] = "preparing"
    \/ /\ SendChunk(u)
       /\ prog'[u].nextSeq = prog[u].nextSeq + 1
       /\ prog'[u].Transferred = prog[u].Transferred + relay[u].len
       /\ prog'[u].Size = prog[u].Size
       /\ state' = state

LEMMA CoreTally ==
  ASSUME Inductive, ProgressInv, NEW s \in Sessions, NEW t \in Transfers, CoreStep(s, t),
         NEW u \in Transfers
  PROVE  Tally(u)
  <1>1. CASE UNCHANGED prog
    BY <1>1 DEF Tally
  <1>2. ASSUME NEW n \in Sizes, SourceReady(s, t, n) PROVE Tally(u)
    <2>1. /\ prog'[u].nextSeq = prog[u].nextSeq /\ prog'[u].Transferred = prog[u].Transferred
          /\ u # t => prog'[u].Size = prog[u].Size
      BY <1>2, Typed DEF SourceReady, BecomeReady
    <2>2. state[t] = "preparing"
      BY <1>2 DEF SourceReady
    <2> QED
      BY <2>1, <2>2 DEF Tally
  <1>3. CASE TargetReady(s, t)
    <2>1. /\ prog'[u].nextSeq = prog[u].nextSeq /\ prog'[u].Transferred = prog[u].Transferred
          /\ prog'[u].Size = prog[u].Size
      BY <1>3, Typed DEF TargetReady, BecomeReady
    <2> QED
      BY <2>1 DEF Tally
  <1>4. ASSUME NEW n \in Sizes, NEW h \in Digests \cup {NoDigest}, SourceFinish(s, t, n, h)
        PROVE  Tally(u)
    <2>1. CASE prog' = [prog EXCEPT ![t].SHA256 = h]
      BY <2>1, Typed DEF Tally
    <2> QED
      BY <1>1, <1>4, <2>1 DEF SourceFinish, work
  <1>5. ASSUME NEW n \in Sizes, NEW h \in Digests \cup {NoDigest}, TargetFinish(s, t, n, h)
        PROVE  Tally(u)
    <2>1. prog[t].Transferred = prog[t].Size
      BY <1>5 DEF TargetFinish, ProgressInv, ProgressAt
    <2>2. CASE prog' = [prog EXCEPT ![t].Transferred = prog[t].Size]
      BY <2>1, <2>2, Typed DEF Tally
    <2> QED
      BY <1>1, <1>5, <2>2 DEF TargetFinish, work
  <1>6. ASSUME NEW seq \in Sizes, NEW n \in Sizes, SourceChunk(s, t, seq, n) PROVE Tally(u)
    BY <1>1, <1>6 DEF SourceChunk, work
  <1>7. CASE PeerFailed(s, t)
    BY <1>1, <1>7 DEF PeerFailed, work
  <1> QED
    BY <1>2, <1>3, <1>4, <1>5, <1>6, <1>7 DEF CoreStep

LEMMA StepTallies ==
  ASSUME Inductive, ProgressInv, [Next]_vars, NEW u \in Transfers
  PROVE  Tally(u)
  <1>1. CASE UNCHANGED prog
    BY <1>1 DEF Tally
  <1>2. ASSUME NEW t \in Transfers, SendChunk(t) PROVE Tally(u)
    <2>1. CASE prog' = [prog EXCEPT ![t] = Counted(t)] /\ UNCHANGED state
      BY <1>2, <2>1, Typed DEF Counted, Tally
    <2> QED
      BY <1>1, <1>2, <2>1 DEF SendChunk, table, work
  <1>3. ASSUME NEW s \in Sessions, NEW t \in Transfers, CoreStep(s, t) PROVE Tally(u)
    BY <1>3, CoreTally
  <1>4. ASSUME NEW s \in Sessions, Attach(s) \/ ConnectionLost(s) PROVE Tally(u)
    BY <1>1, <1>4 DEF Attach, ConnectionLost, work
  <1>11. ASSUME NEW s \in Sessions, NEW w \in Detachers, DetachUnbind(s, w) \/ DetachStep(s, w)
         PROVE  Tally(u)
    BY <1>1, <1>11 DEF DetachStep, DetachUnbind, DetachClose, DetachScan, DetachFail, work
  <1>5. CASE CloseScan \/ CloseStep
    BY <1>1, <1>5 DEF CloseScan, CloseStep, CloseUnbind, CloseFail, CloseSession, work
  <1>6. ASSUME NEW t \in Transfers, NEW d \in Devices, ResolveSource(t, d) \/ ResolveTarget(t, d)
        PROVE  Tally(u)
    BY <1>1, <1>6 DEF ResolveSource, ResolveTarget, work
  <1>7. ASSUME NEW t \in Transfers, StartStep(t) \/ CancelTransfer(t) PROVE Tally(u)
    BY <1>1, <1>7 DEF StartStep, Refuse, Reserve, StartRelay, Return, CancelTransfer, work
  <1>8. ASSUME NEW t \in Transfers, RelayStep(t), ~SendChunk(t) PROVE Tally(u)
    BY <1>1, <1>8 DEF RelayStep, SendTargetStart, SendSourceStart, SendSend, SendCommit, SendThen,
       SendCancelSource, SendCancelTarget, work
  <1>9. ASSUME NEW t \in Transfers, GoIdle(t) \/ Expire(t) \/ LateChunk(t) PROVE Tally(u)
    BY <1>1, <1>9 DEF GoIdle, Expire, LateChunk, work
  <1>10. CASE UNCHANGED vars
    BY <1>1, <1>10 DEF vars, work
  <1> QED
    BY <1>2, <1>3, <1>4, <1>5, <1>6, <1>7, <1>8, <1>9, <1>10, <1>11 DEF Next

----------------------------------------------------------------------------
(* The steps keep the order. *)

LEMMA TurnedStep ==
  ASSUME Inductive, ProgressInv, DeliveryInv, [Next]_vars, NEW u \in Transfers
  PROVE  Turned(u)'
  <1>1. Turn(u) /\ LockMoves(u) /\ Turned(u) /\ Tally(u)
    BY StepTurns, StepTallies DEF DeliveryInv
  <1>2. /\ relay[u].pc # "free" \/ state[u] # "none" =>
              target[u] \in Sessions /\ target[u] # NoSession /\ starter[u] \notin Early
        /\ starter[u] \in Early => state[u] = "none" /\ relay[u].pc = "free"
    BY PastReservation, ConstantsAssumption DEF Inductive, StartOrder, Unlocked
  <1>3. Told(target[u], u, "commit") /\ state[u] = "verifying" =>
            relay[u].pc \in {"free"} \cup Cancelling
    BY <1>2 DEF DeliveryInv, Ordered, Sealed
  <1>4. state'[u] \in {"none", "preparing"} =>
            prog'[u].nextSeq = 0 /\ prog'[u].Transferred = 0
    <2>1. SUFFICES ASSUME state'[u] \in {"none", "preparing"}
                   PROVE  prog'[u].nextSeq = 0 /\ prog'[u].Transferred = 0
      OBVIOUS
    <2>2. state[u] \in {"none", "preparing"}
      BY <1>1, <2>1 DEF Turn, Aborted
    <2>3. ~SendChunk(u)
      BY <2>2 DEF SendChunk, ProgressInv, ProgressAt
    <2> QED
      BY <1>1, <2>2, <2>3 DEF Turned, Tally
  <1>5. relay'[u].pc = "commit" => state'[u] = "verifying"
    BY <1>1, <1>3 DEF Turn, Turned, Cancelling
  <1>6. relay'[u].pc \in Cancelling => state'[u] \in Aborted
    BY <1>1 DEF Turn, Turned, Cancelling, Aborted
  <1>7. relay'[u].pc = "startTarget" => starter'[u] # "lock"
    BY <1>1, <1>2 DEF Turn, LockMoves, Turned, Early
  <1> QED
    BY <1>4, <1>5, <1>6, <1>7 DEF Turned

LEMMA UnheardStep ==
  ASSUME Inductive, ProgressInv, LateInv, DeliveryInv, [Next]_vars
  PROVE  Unheard'
  <1>1. ASSUME NEW s \in Sessions, NEW u \in Transfers, Heard(s, u)' PROVE starter'[u] \notin Early
    <2>1. starter[u] \notin Early
      BY <1>1, StepHeard DEF DeliveryInv, Unheard
    <2> QED
      BY <2>1, StepMoves DEF Moves
  <1>2. \A s \in Sessions, u \in Transfers : Heard(s, u)' => starter'[u] \notin Early
    BY <1>1
  <1> QED
    BY <1>2 DEF Unheard, Early

\* The new message, if it is about u, is one that the order allows.
LEMMA OrderedStep ==
  ASSUME Inductive, ProgressInv, LateInv, ChunksInv, DeliveryInv, [Next]_vars, NEW u \in Transfers,
         NEW s \in Sessions, target[u] = s, target'[u] = s
  PROVE  Ordered(u)'
  <1>1. Turn(u) /\ LockMoves(u) /\ Turned(u) /\ Gets(u) /\ Turned(u)'
    BY StepTurns, StepGets, TurnedStep DEF DeliveryInv
  <1>2. Ordered(u)
    BY ConstantsAssumption DEF DeliveryInv
  <1>3. /\ starter[u] \in Early => relay[u].pc = "free"
        /\ \A type : Told(s, u, type) => starter[u] \notin Early
    BY DEF Inductive, StartOrder, Unlocked, DeliveryInv, Unheard, Told, Heard
  <1>4. Told(s, u, "commit") => relay[u].pc \in {"free"} \cup Cancelling
    BY <1>2 DEF Ordered, Sealed
  <1>5. relay[u].pc = "commit" => Told(s, u, "start")
    BY <1>1 DEF Turned, ProgressInv, ProgressAt, BothReady, ChunksInv, Invited
  <1>6. state[u] \in Aborted => state'[u] \in Aborted
    BY NextKeepsFinal DEF Aborted, FinalStates
  <1> DEFINE w == wire[s]
             v == wire'[s]
  <1>7. \A i \in DOMAIN w : i \in DOMAIN v /\ v[i] = w[i]
    BY <1>1 DEF Gets, Quiet, Added
  <1>8. \/ \A i \in DOMAIN v : v[i].id = u => i \in DOMAIN w
        \/ \E n \in Nat :
              /\ \A i \in DOMAIN v : i \in DOMAIN w \/ i = n
              /\ \A i \in DOMAIN w : i < n
              /\ \/ /\ v[n].type = "start"
                    /\ relay[u].pc = "startTarget" /\ relay'[u].pc = "startSource"
                 \/ v[n].type = "chunk" /\ (relay[u].pc = "chunk" \/ late[u] # 0)
                 \/ /\ v[n].type = "commit" /\ relay[u].pc = "commit" /\ relay'[u].pc = "free"
                    /\ state' = state
                 \/ v[n].type = "cancel" /\ relay[u].pc = "cancelTarget"
    <2>1. CASE Quiet(s, u)
      BY <2>1 DEF Quiet
    <2>2. CASE ~Quiet(s, u)
      <3>1. PICK n \in Nat, m \in [type : MessageTypes, id : {u}, seq : Nat, len : Nat] :
                /\ Added(s, n, m)
                /\ \/ /\ m.type = "start"
                      /\ relay[u].pc = "startTarget" /\ relay'[u].pc = "startSource"
                   \/ m = Message("chunk", u, prog[u].nextSeq, Bytes(u)) /\ PutsChunk(u)
                   \/ /\ m.type = "commit" /\ relay[u].pc = "commit" /\ relay'[u].pc = "free"
                      /\ state' = state
                   \/ m.type = "cancel" /\ relay[u].pc = "cancelTarget"
        BY <1>1, <2>2 DEF Gets
      <3>2. m = Message("chunk", u, prog[u].nextSeq, Bytes(u)) /\ PutsChunk(u) =>
                m.type = "chunk" /\ (relay[u].pc = "chunk" \/ late[u] # 0)
        BY DEF Message, PutsChunk, SendChunk, LateChunk
      <3> QED
        BY <3>1, <3>2 DEF Added
    <2> QED
      BY <2>1, <2>2
  <1>9. \A type : Told(s, u, type) <=> \E i \in DOMAIN w : w[i].type = type /\ w[i].id = u
    BY DEF Told
  <1>10. \A type : Told(s, u, type)' <=> \E i \in DOMAIN v : v[i].type = type /\ v[i].id = u
    BY DEF Told
  <1>11. \A i \in DOMAIN w, j \in DOMAIN w : w[i].id = u /\ w[j].id = u =>
            /\ w[i].type = "start" /\ w[j].type = "start" => i = j
            /\ w[i].type \in Relayed /\ w[j].type = "commit" => i <= j
            /\ state[u] \notin Aborted => w[i].type \in Relayed
    BY <1>2 DEF Ordered, OneStart, CommitLast, NoCancelYet
  <1>12. Sealed(u)
    BY <1>2 DEF Ordered
  <1> HIDE DEF w, v
  <1>14. \A i, j \in DOMAIN v :
            v[i].id = u /\ v[i].type = "start" /\ v[j].id = u /\ v[j].type = "start" => i = j
    BY <1>7, <1>8, <1>9, <1>11, <1>12 DEF Sealed
  <1>15. \A i, j \in DOMAIN v :
            v[i].id = u /\ v[i].type \in Relayed /\ v[j].id = u /\ v[j].type = "commit" => i <= j
    <2>1. ASSUME NEW i \in DOMAIN v, NEW j \in DOMAIN v, v[i].id = u, v[i].type \in Relayed,
                 v[j].id = u, v[j].type = "commit"
          PROVE  i <= j
      <3>1. CASE i \in DOMAIN w /\ j \in DOMAIN w
        BY <1>7, <1>11, <2>1, <3>1
      <3>2. CASE i \notin DOMAIN w \/ j \notin DOMAIN w
        <4>1. PICK n \in Nat :
                /\ \A k \in DOMAIN v : k \in DOMAIN w \/ k = n
                /\ \A k \in DOMAIN w : k < n
                /\ \/ /\ v[n].type \in {"start", "chunk", "commit"}
                      /\ \/ relay[u].pc \in {"startTarget", "chunk", "commit"}
                         \/ late[u] # 0
                   \/ v[n].type = "cancel"
          BY <1>8, <2>1, <3>2
        <4>2. CASE i = n /\ j \in DOMAIN w
          <5>1. Told(s, u, "commit")
            BY <1>7, <1>9, <2>1, <4>2
          <5> QED
            BY <1>4, <1>12, <2>1, <4>1, <4>2, <5>1 DEF Relayed, Cancelling, Sealed
        <4>3. CASE i \in DOMAIN w /\ j = n
          <5>1. i < n /\ i \in Int
            BY <4>1, <4>3, WirePlaces DEF w
          <5> QED
            BY <4>3, <5>1
        <4>4. CASE i = n /\ j = n
          BY <4>4
        <4> QED
          BY <2>1, <3>2, <4>1, <4>2, <4>3, <4>4
      <3> QED
        BY <3>1, <3>2
    <2> QED
      BY <2>1
  <1>16. state'[u] \notin Aborted => \A i \in DOMAIN v : v[i].id = u => v[i].type \in Relayed
    <2>1. relay[u].pc = "cancelTarget" => state[u] \in Aborted
      BY <1>1 DEF Turned, Cancelling
    <2> QED
      BY <1>6, <1>7, <1>8, <1>11, <2>1 DEF Relayed
  <1>17. \A type \in {"start", "commit"} : Told(s, u, type)' =>
            \/ Told(s, u, type)
            \/ type = "start" /\ relay[u].pc = "startTarget" /\ relay'[u].pc = "startSource"
            \/ type = "commit" /\ relay[u].pc = "commit" /\ relay'[u].pc = "free" /\ state' = state
    BY <1>7, <1>8, <1>9, <1>10
  <1>18. \A type : Told(s, u, type) => Told(s, u, type)'
    BY <1>7, <1>9, <1>10
  <1>19. Told(s, u, "start")' => starter'[u] # "lock" /\ relay'[u].pc # "startTarget"
    <2>1. CASE Told(s, u, "start")
      BY <1>1, <1>3, <1>12, <2>1 DEF Sealed, Turn, LockMoves, Early
    <2>2. CASE relay[u].pc = "startTarget" /\ relay'[u].pc = "startSource"
      BY <1>1, <1>3, <2>2 DEF Turned, LockMoves, Early
    <2> QED
      BY <1>17, <2>1, <2>2
  <1>20. Told(s, u, "commit")' =>
            /\ state'[u] \in {"verifying"} \cup FinalStates
            /\ relay'[u].pc \in {"free"} \cup Cancelling
            /\ Told(s, u, "start")'
    <2>1. CASE Told(s, u, "commit")
      <3>1. /\ state[u] \in {"verifying"} \cup FinalStates
            /\ relay[u].pc \in {"free"} \cup Cancelling
            /\ Told(s, u, "start") /\ starter[u] # "lock"
        BY <1>12, <2>1 DEF Sealed
      <3> QED
        BY <1>1, <1>18, <3>1 DEF Turn, Cancelling, FinalStates, Aborted
    <2>2. CASE relay[u].pc = "commit" /\ relay'[u].pc = "free" /\ state' = state
      BY <1>1, <1>5, <1>18, <2>2 DEF Turned
    <2> QED
      BY <1>17, <2>1, <2>2
  <1>21. state'[u] = "completed" => Told(s, u, "commit")'
    BY <1>1, <1>12, <1>18 DEF Sealed, Turn, Aborted
  <1>23. late'[u] # 0 => ~Told(s, u, "commit")'
    <2>1. CASE SendChunk(u)
      <3>1. state[u] = "transferring" /\ relay[u].pc = "chunk"
        BY <2>1 DEF SendChunk, ProgressInv, ProgressAt
      <3> QED
        BY <1>12, <1>17, <3>1 DEF Sealed, FinalStates
    <2>2. CASE late[u] # 0
      <3>1. state[u] = "failed"
        BY <2>2 DEF LateInv, Late
      <3>2. relay[u].pc # "commit"
        BY <1>1, <3>1 DEF Turned
      <3> QED
        BY <1>12, <1>17, <2>2, <3>2 DEF Sealed
    <2> QED
      BY <2>1, <2>2, StepMoves, LateEnds DEF Moves
  <1>22. Sealed(u)'
    BY <1>19, <1>20, <1>21, <1>23 DEF Sealed
  <1> QED
    BY <1>14, <1>15, <1>16, <1>22 DEF Ordered, OneStart, CommitLast, NoCancelYet, v

----------------------------------------------------------------------------
(* The steps keep the places. *)

\* One more chunk at the frontier: it is laid after the others and covers len
\* bytes more.
LEMMA LayNext ==
  ASSUME NEW at, NEW n, n \notin at, NEW size \in Nat, NEW moved \in Nat, NEW next \in Nat,
         NEW seq \in [at \cup {n} -> Nat], NEW len \in [at \cup {n} -> Nat],
         NEW offset \in [at -> 0..size],
         \A i \in at : seq[i] = 0 => offset[i] = 0,
         \A i \in at : offset[i] + len[i] <= size,
         \A i, j \in at : seq[j] = seq[i] + 1 => offset[j] = offset[i] + len[i],
         \A i \in at : seq[i] < next,
         next = 0 => moved = 0,
         \A i \in at : seq[i] + 1 = next => offset[i] + len[i] = moved,
         \A byte \in 1..moved : \E i \in at : offset[i] < byte /\ byte <= offset[i] + len[i],
         seq[n] = next, moved + len[n] <= size,
         NEW new, new = [i \in at \cup {n} |-> IF i = n THEN moved ELSE offset[i]]
  PROVE  /\ new \in [at \cup {n} -> 0..size]
         /\ \A i \in at \cup {n} : seq[i] = 0 => new[i] = 0
         /\ \A i \in at \cup {n} : new[i] + len[i] <= size
         /\ \A i, j \in at \cup {n} : seq[j] = seq[i] + 1 => new[j] = new[i] + len[i]
         /\ \A i \in at \cup {n} : seq[i] + 1 = next + 1 => new[i] + len[i] = moved + len[n]
         /\ \A byte \in 1..moved + len[n] : \E i \in at \cup {n} :
               new[i] < byte /\ byte <= new[i] + len[i]
  <1>1. new[n] = moved /\ \A i \in at : new[i] = offset[i]
    OBVIOUS
  <1>2. /\ \A i \in at : seq[i] \in Nat /\ len[i] \in Nat /\ offset[i] \in 0..size
        /\ len[n] \in Nat
    OBVIOUS
  <1>3. moved \in 0..size
    BY <1>2
  <1>4. new \in [at \cup {n} -> 0..size]
    BY <1>3
  <1>5. \A i \in at \cup {n} : seq[i] = 0 => new[i] = 0
    BY <1>1
  <1>6. \A i \in at \cup {n} : new[i] + len[i] <= size
    BY <1>1
  <1>7. \A i, j \in at \cup {n} : seq[j] = seq[i] + 1 => new[j] = new[i] + len[i]
    <2>1. ASSUME NEW i \in at \cup {n}, NEW j \in at \cup {n}, seq[j] = seq[i] + 1
          PROVE  new[j] = new[i] + len[i]
      <3>1. CASE i \in at /\ j \in at
        BY <1>1, <2>1, <3>1
      <3>2. CASE i \in at /\ j = n
        BY <1>1, <2>1, <3>2
      <3>3. CASE i = n
        <4>1. next \in Nat /\ seq[j] = next + 1 /\ (j = n => seq[j] = next) /\ (j \in at => seq[j] < next /\ seq[j] \in Nat)
          BY <2>1, <3>3
        <4> QED
          BY <4>1
      <3> QED
        BY <3>1, <3>2, <3>3
    <2> QED
      BY <2>1
  <1>8. \A i \in at \cup {n} : seq[i] + 1 = next + 1 => new[i] + len[i] = moved + len[n]
    <2>1. ASSUME NEW i \in at, seq[i] + 1 = next + 1 PROVE FALSE
      <3>1. seq[i] < next /\ seq[i] \in Nat
        BY <1>2
      <3> QED
        BY <2>1, <3>1
    <2> QED
      BY <1>1, <2>1
  <1>9. ASSUME NEW byte \in 1..moved + len[n]
        PROVE  \E i \in at \cup {n} : new[i] < byte /\ byte <= new[i] + len[i]
    <2>1. CASE byte <= moved
      <3>1. byte \in 1..moved
        BY <1>2, <1>9, <2>1
      <3>2. PICK i \in at : offset[i] < byte /\ byte <= offset[i] + len[i]
        BY <3>1
      <3> QED
        BY <1>1, <3>2
    <2>2. CASE moved < byte
      BY <1>1, <1>2, <1>9, <2>2
    <2> QED
      BY <1>2, <1>9, <2>1, <2>2
  <1> QED
    BY <1>4, <1>5, <1>6, <1>7, <1>8, <1>9

\* A target that was sent no chunk has nothing to place.
LEMMA NoChunksPlaced ==
  ASSUME Inductive', NEW u \in Transfers, ChunksAt(target[u], u)' = {},
         prog'[u].nextSeq = 0, prog'[u].Transferred = 0, ~Told(target[u], u, "commit")'
  PROVE  Placed(u)'
  <1> DEFINE none == [i \in {} |-> 0]
  <1>1. none \in [ChunksAt(target[u], u)' -> 0..prog'[u].Size] /\ DOMAIN none = {}
    OBVIOUS
  <1> HIDE DEF none
  <1>2. Laid(u, none)'
    BY <1>1 DEF Laid
  <1>3. Frontier(u, none)'
    BY <1>1 DEF Frontier, Covered
  <1> QED
    BY <1>1, <1>2, <1>3 DEF Placed

\* A chunk that reached the target is at the frontier.
LEMMA PlacedChunk ==
  ASSUME Inductive, Inductive', ProgressInv, LateInv, ChunksInv, DeliveryInv, [Next]_vars,
         NEW u \in Transfers, NEW s \in Sessions, target[u] = s, target'[u] = s,
         PutsChunk(u), Reaches(s),
         NEW n \in Nat, Added(s, n, Message("chunk", u, prog[u].nextSeq, Bytes(u)))
  PROVE  Placed(u)'
  <1> DEFINE at == ChunksAt(s, u)
             all == at \cup {n}
             P == prog[u]
             seq == [i \in all |-> wire'[s][i].seq]
             len == [i \in all |-> wire'[s][i].len]
  <1>1. PICK offset \in [at -> 0..P.Size] :
            /\ Laid(u, offset)
            /\ Moving(u) /\ Reaches(s) => Frontier(u, offset)
    BY ConstantsAssumption DEF DeliveryInv, Placed
  <1>2. /\ Moving(u) /\ P.Transferred + Bytes(u) <= P.Size
        /\ P.Size \in Nat /\ P.Transferred \in Nat /\ P.nextSeq \in Nat /\ Bytes(u) \in Nat
    BY ChunkPut, Typed
  <1>3. Frontier(u, offset)
    BY <1>1, <1>2
  <1>4. /\ n \notin at /\ wire'[s][n].seq = P.nextSeq /\ wire'[s][n].len = Bytes(u)
        /\ wire'[s][n].id = u /\ wire'[s][n].type = "chunk"
        /\ \A i \in at : wire'[s][i] = wire[s][i]
    BY DEF Added, Message, ChunksAt
  <1>5. ChunksAt(s, u)' = all
    BY <1>4 DEF Added, ChunksAt
  <1>6. \A i \in at : wire[s][i].seq < P.nextSeq
    BY <1>2, ConstantsAssumption DEF ChunksInv, LastAt
  <1>7. seq \in [all -> Nat] /\ len \in [all -> Nat]
    <2>1. \A i \in all : i \in DOMAIN wire'[s]
      BY DEF Added, ChunksAt
    <2>2. \A i \in DOMAIN wire'[s] : wire'[s][i] \in [type : MessageTypes, id : Transfers, seq : Nat, len : Nat]
      BY PrimedPlaces
    <2> QED
      BY <2>1, <2>2
  <1>8. /\ \A i \in at : wire[s][i].seq = 0 => offset[i] = 0
        /\ \A i \in at : offset[i] + wire[s][i].len <= P.Size
        /\ \A i, j \in at : wire[s][j].seq = wire[s][i].seq + 1 => offset[j] = offset[i] + wire[s][i].len
    BY <1>1 DEF Laid
  <1>9. /\ P.nextSeq = 0 => P.Transferred = 0
        /\ \A i \in at : wire[s][i].seq + 1 = P.nextSeq => offset[i] + wire[s][i].len = P.Transferred
        /\ \A byte \in 1..P.Transferred : \E i \in at :
              offset[i] < byte /\ byte <= offset[i] + wire[s][i].len
    BY <1>1, <1>3 DEF Frontier, Covered
  <1>10. /\ seq[n] = P.nextSeq /\ len[n] = Bytes(u)
         /\ \A i \in at : seq[i] = wire[s][i].seq /\ len[i] = wire[s][i].len
    BY <1>4
  <1>11. \A i \in all : seq[i] = wire'[s][i].seq /\ len[i] = wire'[s][i].len
    OBVIOUS
  <1>12. ~Told(s, u, "commit")
    <2>1. Sealed(u)
      BY ConstantsAssumption DEF DeliveryInv, Ordered
    <2>2. CASE SendChunk(u)
      BY <2>1, <2>2 DEF SendChunk, ProgressInv, ProgressAt, Sealed, FinalStates
    <2>3. CASE LateChunk(u)
      BY <2>1, <2>3 DEF LateChunk, Sealed
    <2> QED
      BY <2>2, <2>3 DEF PutsChunk
  <1>13. ~Told(s, u, "commit")'
    BY <1>4, <1>12 DEF Told, Added
  <1>14. Tally(u)
    BY StepTallies
  <1>15. prog'[u].Size = P.Size
    <2>1. state[u] # "preparing"
      BY DEF PutsChunk, SendChunk, LateChunk, ProgressInv, ProgressAt, LateInv, Late
    <2> QED
      BY <1>14, <2>1 DEF Tally
  <1>16. Moving(u)' =>
            prog'[u].nextSeq = P.nextSeq + 1 /\ prog'[u].Transferred = P.Transferred + Bytes(u)
    <2>1. ~UNCHANGED wire
      BY DEF Added
    <2>2. Moving(u)' => SendChunk(u) /\ late[u] = 0 /\ prog'[u].nextSeq = P.nextSeq + 1
      BY <2>1, ChunkPut
    <2> QED
      BY <1>2, <1>14, <2>2 DEF Tally, Bytes
  <1> HIDE DEF seq, len, at
  <1>21. PICK new : new = [i \in at \cup {n} |-> IF i = n THEN P.Transferred ELSE offset[i]]
    OBVIOUS
  <1>17. /\ new \in [all -> 0..P.Size]
         /\ \A i \in all : seq[i] = 0 => new[i] = 0
         /\ \A i \in all : new[i] + len[i] <= P.Size
         /\ \A i, j \in all : seq[j] = seq[i] + 1 => new[j] = new[i] + len[i]
         /\ \A i \in all : seq[i] + 1 = P.nextSeq + 1 => new[i] + len[i] = P.Transferred + len[n]
         /\ \A byte \in 1..P.Transferred + len[n] : \E i \in all :
               new[i] < byte /\ byte <= new[i] + len[i]
    <2>1. /\ \A i \in at : seq[i] = 0 => offset[i] = 0
          /\ \A i \in at : offset[i] + len[i] <= P.Size
          /\ \A i, j \in at : seq[j] = seq[i] + 1 => offset[j] = offset[i] + len[i]
          /\ \A i \in at : seq[i] < P.nextSeq
          /\ \A i \in at : seq[i] + 1 = P.nextSeq => offset[i] + len[i] = P.Transferred
          /\ \A byte \in 1..P.Transferred : \E i \in at :
                offset[i] < byte /\ byte <= offset[i] + len[i]
      BY <1>6, <1>8, <1>9, <1>10
    <2>2. /\ P.Size \in Nat /\ P.Transferred \in Nat /\ P.nextSeq \in Nat
          /\ n \notin at /\ seq[n] = P.nextSeq /\ P.Transferred + len[n] <= P.Size
          /\ P.nextSeq = 0 => P.Transferred = 0
      BY <1>2, <1>4, <1>9, <1>10
    <2>3. offset \in [at -> 0..P.Size]
      BY <1>1
    <2> HIDE DEF P
    <2> QED
      BY <1>7, <1>21, <2>1, <2>2, <2>3, LayNext
  <1>18. Laid(u, new)'
    <2>1. DOMAIN new = all
      BY <1>17
    <2>2. /\ \A i \in all : wire'[s][i].seq = 0 => new[i] = 0
          /\ \A i \in all : new[i] + wire'[s][i].len <= P.Size
          /\ \A i, j \in all :
                wire'[s][j].seq = wire'[s][i].seq + 1 => new[j] = new[i] + wire'[s][i].len
      BY <1>11, <1>17
    <2> QED
      BY <1>5, <1>15, <1>17, <2>1, <2>2 DEF Laid
  <1>19. Moving(u)' => Frontier(u, new)'
    <2>1. SUFFICES ASSUME Moving(u)' PROVE Frontier(u, new)'
      OBVIOUS
    <2>2. prog'[u].nextSeq = P.nextSeq + 1 /\ prog'[u].Transferred = P.Transferred + len[n]
      BY <1>10, <1>16, <2>1
    <2>3. P.nextSeq + 1 # 0 /\ DOMAIN new = all
      BY <1>2, <1>17
    <2>4. \A i \in all : wire'[s][i].seq + 1 = prog'[u].nextSeq =>
              new[i] + wire'[s][i].len = prog'[u].Transferred
      BY <1>11, <1>17, <2>2
    <2>5. \A byte \in 1..prog'[u].Transferred : \E i \in all :
              new[i] < byte /\ byte <= new[i] + wire'[s][i].len
      BY <1>11, <1>17, <2>2
    <2> QED
      BY <2>2, <2>3, <2>4, <2>5 DEF Frontier, Covered
  <1>20. new \in [ChunksAt(target[u], u)' -> 0..prog'[u].Size]
    BY <1>5, <1>15, <1>17
  <1> QED
    BY <1>13, <1>18, <1>19, <1>20 DEF Placed

\* Without a new chunk the places stay.
LEMMA PlacedKept ==
  ASSUME Inductive, Inductive', ProgressInv, LateInv, ChunksInv, DeliveryInv, [Next]_vars,
         NEW u \in Transfers, NEW s \in Sessions, target[u] = s, target'[u] = s,
         ChunksAt(s, u)' = ChunksAt(s, u), WireGrows,
         SendChunk(u) => ~Moving(u)' \/ ~Reaches(s) \/ prog'[u] = prog[u],
         Told(s, u, "commit")' => Told(s, u, "commit")
                                  \/ (relay[u].pc = "commit" /\ Reaches(s) /\ prog' = prog)
  PROVE  Placed(u)'
  <1> DEFINE at == ChunksAt(s, u)
             P == prog[u]
  <1>1. PICK offset \in [at -> 0..P.Size] :
            /\ Laid(u, offset)
            /\ Moving(u) /\ Reaches(s) => Frontier(u, offset)
            /\ Told(s, u, "commit") => Covered(u, offset, P.Size)
    BY ConstantsAssumption DEF DeliveryInv, Placed
  <1>2. Tally(u) /\ Turned(u) /\ Sealed(u) /\ LastAt(u)
    BY StepTallies, ConstantsAssumption DEF DeliveryInv, Ordered, ChunksInv
  <1>3. Moving(u)' /\ Reaches(s)' => Moving(u) /\ Reaches(s)
    BY LifeMoves, MovedBefore, ConstantsAssumption DEF ChunksInv, Attached, Reaches
  <1>4. \A i \in at : i \in DOMAIN wire[s] /\ wire'[s][i] = wire[s][i]
    BY DEF WireGrows, ChunksAt
  <1>5. /\ \A i \in at : wire[s][i].seq = 0 => offset[i] = 0
        /\ \A i \in at : offset[i] + wire[s][i].len <= P.Size
        /\ \A i, j \in at : wire[s][j].seq = wire[s][i].seq + 1 => offset[j] = offset[i] + wire[s][i].len
    BY <1>1 DEF Laid
  <1>6. CASE prog'[u].Size = P.Size
    <2>1. Laid(u, offset)'
      BY <1>1, <1>4, <1>5, <1>6 DEF Laid
    <2>2. ASSUME Moving(u)', Reaches(s)' PROVE Frontier(u, offset)'
      <3>1. Frontier(u, offset) /\ (SendChunk(u) => prog'[u] = prog[u])
        BY <1>1, <1>3, <2>2
      <3>2. prog'[u].nextSeq = P.nextSeq /\ prog'[u].Transferred = P.Transferred
        BY <1>2, <3>1 DEF Tally
      <3>3. DOMAIN offset = at
        BY <1>1
      <3> HIDE DEF at
      <3> QED
        BY <1>4, <3>1, <3>2, <3>3 DEF Frontier, Covered
    <2>3. ASSUME Told(s, u, "commit")' PROVE Covered(u, offset, prog[u].Size)'
      <3>1. Covered(u, offset, P.Size)
        <4>1. CASE relay[u].pc = "commit" /\ Reaches(s)
          <5>1. state[u] = "verifying"
            BY <1>2, <4>1 DEF Turned
          <5>2. P.Transferred = P.Size
            BY <5>1 DEF ProgressInv, ProgressAt
          <5> QED
            BY <1>1, <4>1, <5>1, <5>2 DEF Frontier, FinalStates, Moving
        <4> QED
          BY <1>1, <2>3, <4>1
      <3>2. DOMAIN offset = at
        BY <1>1
      <3> HIDE DEF at
      <3> QED
        BY <1>4, <1>6, <3>1, <3>2 DEF Covered
    <2>4. offset \in [ChunksAt(target[u], u)' -> 0..prog'[u].Size]
      BY <1>1, <1>6
    <2> QED
      BY <2>1, <2>2, <2>3, <2>4 DEF Placed
  <1>7. CASE prog'[u].Size # P.Size
    <2>1. state[u] = "preparing" /\ prog'[u].nextSeq = P.nextSeq /\ prog'[u].Transferred = P.Transferred
      BY <1>2, <1>7 DEF Tally
    <2>2. P.nextSeq = 0 /\ P.Transferred = 0
      BY <1>2, <2>1 DEF Turned
    <2>3. at = {}
      <3>1. ASSUME NEW i \in at PROVE FALSE
        <4>1. wire[s][i].seq \in Nat
          BY <1>4, WirePlaces
        <4>2. wire[s][i].seq < 0
          BY <1>2, <2>1, <2>2 DEF LastAt, FinalStates, Moving
        <4> QED
          BY <4>1, <4>2
      <3> QED
        BY <3>1
    <2>4. ~Told(s, u, "commit")'
      BY <1>2, <1>7, <2>1 DEF Sealed, FinalStates
    <2>5. prog'[u].nextSeq = 0 /\ prog'[u].Transferred = 0
      BY <2>1, <2>2
    <2> QED
      BY <2>3, <2>4, <2>5, NoChunksPlaced DEF Placed
  <1> QED
    BY <1>6, <1>7

LEMMA PlacedStep ==
  ASSUME Inductive, Inductive', ProgressInv, LateInv, ChunksInv, DeliveryInv, [Next]_vars,
         NEW u \in Transfers, NEW s \in Sessions, target[u] = s, target'[u] = s
  PROVE  Placed(u)'
  <1>1. Gets(u)
    BY StepGets
  <1>2. WireGrows /\ (~PutsChunk(u) => ChunksAt(s, u)' = ChunksAt(s, u))
    BY StepPutsOne
  <1>3. CASE Quiet(s, u)
    <2>1. ChunksAt(s, u)' = ChunksAt(s, u)
      BY <1>3 DEF Quiet, ChunksAt
    <2>2. Told(s, u, "commit")' => Told(s, u, "commit")
      BY <1>3 DEF Quiet, Told
    <2>3. SendChunk(u) => ~Moving(u)' \/ ~Reaches(s) \/ prog'[u] = prog[u]
      <3>1. SUFFICES ASSUME SendChunk(u), Moving(u)', Reaches(s), prog'[u] # prog[u] PROVE FALSE
        OBVIOUS
      <3>2. wire' = [wire EXCEPT ![s] = Append(@, Message("chunk", u, prog[u].nextSeq, Bytes(u)))]
        BY <3>1, ChunkPut DEF PutsChunk
      <3>3. PICK n \in Nat : Added(s, n, Message("chunk", u, prog[u].nextSeq, Bytes(u)))
        BY <3>2, AppendAdds DEF Inductive
      <3>4. wire'[s][n].id = u
        BY <3>3 DEF Added, Message
      <3> QED
        BY <1>3, <3>3, <3>4 DEF Quiet, Added
    <2> QED
      BY <1>2, <2>1, <2>2, <2>3, PlacedKept
  <1>4. ASSUME NEW n \in Nat, NEW m \in [type : MessageTypes, id : {u}, seq : Nat, len : Nat],
               Added(s, n, m), Reaches(s),
               \/ /\ m.type = "start"
                  /\ relay[u].pc = "startTarget" /\ relay'[u].pc = "startSource"
               \/ /\ m.type = "commit" /\ relay[u].pc = "commit" /\ relay'[u].pc = "free"
                  /\ state' = state /\ prog' = prog
               \/ m.type = "cancel" /\ relay[u].pc = "cancelTarget"
        PROVE  Placed(u)'
    <2>1. ~SendChunk(u) /\ ChunksAt(s, u)' = ChunksAt(s, u)
      BY <1>4 DEF SendChunk, Added, ChunksAt
    <2>2. Told(s, u, "commit")' =>
              Told(s, u, "commit") \/ (relay[u].pc = "commit" /\ Reaches(s) /\ prog' = prog)
      BY <1>4 DEF Added, Told
    <2> QED
      BY <1>2, <2>1, <2>2, PlacedKept
  <1> QED
    BY <1>1, <1>3, <1>4, PlacedChunk DEF Gets

LEMMA DeliveryStep ==
  ASSUME Inductive, Inductive', ProgressInv, LateInv, ChunksInv, DeliveryInv, [Next]_vars
  PROVE  DeliveryInv'
  <1>1. \A u \in Transfers : Turned(u)'
    BY TurnedStep
  <1>2. ASSUME NEW u \in Transfers, target'[u] # NoSession PROVE Ordered(u)' /\ Placed(u)'
    <2>1. target'[u] \in Sessions
      BY <1>2 DEF Inductive, TypeOK, EndsOK
    <2>2. CASE target'[u] = target[u]
      BY <2>1, <2>2, OrderedStep, PlacedStep
    <2>3. CASE target'[u] # target[u]
      <3>1. starter[u] = "resolve" /\ UNCHANGED <<wire, prog>>
        BY <2>3, StepMoves DEF Moves, Resolves
      <3>2. state[u] = "none" /\ starter[u] \in Early
        BY <3>1 DEF Inductive, StartOrder, Early
      <3>3. ~Heard(target[u], u)'
        BY <2>1, <3>1, <3>2 DEF DeliveryInv, Unheard, Heard
      <3>4. state'[u] # "completed"
        BY <3>2, StepTurns DEF Turn, Aborted
      <3>5. prog'[u].nextSeq = 0 /\ prog'[u].Transferred = 0
        BY <3>1, <3>2 DEF DeliveryInv, Turned
      <3>6. ChunksAt(target[u], u)' = {} /\ \A type : ~Told(target[u], u, type)'
        BY <3>3 DEF Heard, ChunksAt, Told
      <3>7. Placed(u)'
        BY <3>5, <3>6, NoChunksPlaced DEF Placed
      <3>8. OneStart(u)' /\ CommitLast(u)' /\ NoCancelYet(u)'
        BY <3>3 DEF Heard, OneStart, CommitLast, NoCancelYet
      <3>9. Sealed(u)'
        BY <3>4, <3>6 DEF Sealed
      <3> QED
        BY <3>7, <3>8, <3>9 DEF Ordered
    <2> QED
      BY <2>2, <2>3
  <1>3. \A u \in Transfers : target'[u] # NoSession => Ordered(u)' /\ Placed(u)'
    BY <1>2
  <1> QED
    BY <1>1, <1>3, UnheardStep DEF DeliveryInv

\* The invariant says of a completed transfer what DeliveredAsDeclared says.
LEMMA DeliveryShows ==
  ASSUME Inductive, ChunksInv, DeliveryInv
  PROVE  DeliveredAsDeclared
  <1>1. ASSUME NEW t \in Transfers, target[t] # NoSession
        PROVE  \E offset \in [ChunksAt(target[t], t) -> 0..prog[t].Size] :
                  /\ Laid(t, offset)
                  /\ state[t] = "completed" => Covered(t, offset, prog[t].Size)
    BY <1>1 DEF DeliveryInv, Placed, Ordered, Sealed
  <1>2. ASSUME NEW t \in Transfers, target[t] # NoSession, state[t] = "completed",
               NEW w, w = wire[target[t]]
        PROVE  \E first, last \in DOMAIN w :
                  /\ first < last
                  /\ w[first].type = "start" /\ w[first].id = t
                  /\ w[last].type = "commit" /\ w[last].id = t
                  /\ \A i \in DOMAIN w \ {first, last} : w[i].id = t =>
                        first < i /\ i < last /\ w[i].type = "chunk"
    <2>1. Sealed(t) /\ OneStart(t) /\ CommitLast(t) /\ NoCancelYet(t) /\ NumberedAt(t)
      BY <1>2 DEF DeliveryInv, Ordered, ChunksInv
    <2>2. PICK last \in DOMAIN w : w[last].type = "commit" /\ w[last].id = t
      BY <1>2, <2>1 DEF Sealed, Told
    <2>3. PICK first \in DOMAIN w : w[first].type = "start" /\ w[first].id = t
      BY <1>2, <2>1 DEF Sealed, Told
    <2>4. \A i \in DOMAIN w : i \in Nat
      BY <1>2, WirePlaces DEF Inductive, TypeOK, EndsOK
    <2>5. \A i, j \in DOMAIN w :
              w[i].id = t /\ w[i].type \in Relayed /\ w[j].id = t /\ w[j].type = "commit" => i <= j
      BY <1>2, <2>1 DEF CommitLast
    <2>6. first < last
      <3>1. first <= last /\ first # last
        BY <2>2, <2>3, <2>5 DEF Relayed
      <3> QED
        BY <2>4, <3>1
    <2>7. ASSUME NEW i \in DOMAIN w \ {first, last}, w[i].id = t
          PROVE  first < i /\ i < last /\ w[i].type = "chunk"
      <3>1. w[i].type \in Relayed
        BY <1>2, <2>1, <2>7 DEF NoCancelYet, Aborted
      <3>2. w[i].type # "start"
        BY <1>2, <2>1, <2>3, <2>7 DEF OneStart
      <3>3. i < last
        <4>1. i <= last /\ i # last
          BY <2>2, <2>5, <2>7, <3>1
        <4> QED
          BY <2>4, <4>1
      <3>4. w[i].type # "commit"
        <4>1. w[i].type = "commit" => last <= i
          BY <2>2, <2>5, <2>7 DEF Relayed
        <4> QED
          BY <2>4, <3>3, <4>1
      <3>5. w[i].type = "chunk"
        BY <3>1, <3>2, <3>4 DEF Relayed
      <3>6. PICK j \in DOMAIN w : j < i /\ w[j].type = "start" /\ w[j].id = t
        BY <1>2, <2>1, <2>7, <3>5 DEF NumberedAt, ChunksAt
      <3>7. j = first
        BY <1>2, <2>1, <2>3, <3>6 DEF OneStart
      <3> QED
        BY <3>3, <3>5, <3>6, <3>7
    <2> QED
      BY <2>2, <2>3, <2>6, <2>7
  <1> QED
    BY <1>1, <1>2 DEF DeliveredAsDeclared

\* Whatever races with the relay, the target is relayed no more than was
\* declared, and a transfer is completed only after its target got the start,
\* then chunks that cover the file, then the commit (transferSourceFinish,
\* transferTargetFinish, handleTransferChunk).
THEOREM CompletedIsDelivered == Spec => []DeliveredAsDeclared
  <1> DEFINE Inv == Inductive /\ ProgressInv /\ DataInv /\ ChunksInv /\ DeliveryInv
  <1>1. Init => Inv
    <2>3. ASSUME Init PROVE DeliveryInv
      <3>1. Unheard
        BY <2>3 DEF Init, Unheard, Heard
      <3>2. \A u \in Transfers : Turned(u) /\ target[u] = NoSession
        BY <2>3 DEF Init, Turned, NoProgress, Unheld, Cancelling
      <3> QED
        BY <3>1, <3>2 DEF DeliveryInv
    <2> QED
      BY <2>3, InitInductive, InitProgress, InitData, InitChunks
  <1>2. Inv /\ [Next]_vars => Inv'
    BY NextInductive, NextRefines, DataStep, ChunksStep, DeliveryStep DEF DataInv
  <1>3. Inv => DeliveredAsDeclared
    BY DeliveryShows
  <1> QED
    BY <1>1, <1>2, <1>3, PTL DEF Spec
=============================================================================
