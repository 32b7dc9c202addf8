----------------------- MODULE DeviceTransfersProofs -----------------------
(***************************************************************************)
(* Proofs about DeviceTransfers, for every value of its constants that     *)
(* satisfies ConstantsAssumption: type correctness, the match between the  *)
(* reservations and the live transfers, the finality of final states, and  *)
(* the bound of the table.                                                 *)
(***************************************************************************)
EXTENDS DeviceTransfers, FiniteSetTheorems, TLAPS

----------------------------------------------------------------------------
(* Types of the pieces of steps. *)

LEMMA InitTyped == Init => TypeOK
  <1> SUFFICES ASSUME Init PROVE TypeOK
    OBVIOUS
  <1>1. RegistryOK /\ EndsOK /\ TimerOK /\ StarterOK
    BY DEF Init, RegistryOK, EndsOK, TimerOK, StarterOK
  <1>2. DetachingOK
    BY DEF Init, DetachingOK
  <1>3. TableOK
    BY DEF Init, TableOK, Causes
  <1>4. WorkOK /\ RelayOK /\ WireOK
    BY DEF Init, WorkOK, RelayOK, WireOK, NoProgress, Unheld
  <1>5. QED
    BY <1>1, <1>2, <1>3, <1>4 DEF TypeOK

LEMMA SettleTyped ==
  ASSUME TypeOK, NEW t \in Transfers, NEW final \in FinalStates, NEW why \in Causes,
         Settle(t, final, why)
  PROVE  TableOK' /\ TimerOK'
  <1>1. history' \in Seq(Transfers)
    BY DEF Settle, TypeOK, TableOK
  <1>2. QED
    BY <1>1 DEF Settle, TypeOK, TableOK, TimerOK

LEMMA HoldTyped ==
  ASSUME RelayOK, NEW t \in Transfers, NEW step \in SendSteps,
         NEW by \in Sessions \cup {NoSession}, NEW len \in Nat, Hold(t, step, by, len)
  PROVE  RelayOK'
  BY DEF RelayOK, Hold

LEMMA ReleaseTyped ==
  ASSUME RelayOK, StarterOK, NEW t \in Transfers, Release(t)
  PROVE  RelayOK' /\ StarterOK'
  BY DEF RelayOK, StarterOK, Release, Unheld

LEMMA FailTyped ==
  ASSUME TypeOK, NEW t \in Transfers, NEW why \in Causes,
         NEW by \in Sessions \cup {NoSession}, FailRelayLocked(t, why, by)
  PROVE  TableOK' /\ TimerOK' /\ StarterOK' /\ RelayOK'
  <1>1. CASE Live(t)
    <2>1. TableOK' /\ TimerOK'
      BY <1>1, SettleTyped DEF FailRelayLocked, FinalStates
    <2>2. RelayOK'
      BY <1>1, HoldTyped DEF FailRelayLocked, TypeOK, SendSteps
    <2>3. StarterOK'
      BY <1>1 DEF FailRelayLocked, TypeOK, StarterOK
    <2>4. QED
      BY <2>1, <2>2, <2>3
  <1>2. CASE ~Live(t)
    <2>1. RelayOK' /\ StarterOK'
      BY <1>2, ReleaseTyped DEF FailRelayLocked, TypeOK
    <2>2. TableOK' /\ TimerOK'
      BY <1>2 DEF FailRelayLocked, TypeOK, TableOK, TimerOK, table
    <2>3. QED
      BY <2>1, <2>2
  <1>3. QED
    BY <1>1, <1>2

LEMMA AppendAtTyped ==
  ASSUME NEW D, NEW M, NEW f \in [D -> Seq(M)], NEW d, NEW m \in M
  PROVE  [f EXCEPT ![d] = Append(@, m)] \in [D -> Seq(M)]
  <1>1. SUFFICES ASSUME d \in D PROVE Append(f[d], m) \in Seq(M)
    OBVIOUS
  <1>2. QED
    BY <1>1

LEMMA SentTyped ==
  ASSUME WireOK, NEW s, NEW t \in Transfers, NEW type \in MessageTypes, NEW seq \in Nat, NEW len \in Nat,
         \/ Sent(s, Message(type, t, seq, len)) \/ SendFails(s)
         \/ ChunkSent(s, Message(type, t, seq, len))
         \/ s = target[t] /\ ChunkSendFails(t, Message(type, t, seq, len))
  PROVE  WireOK'
  <1> DEFINE M == [type : MessageTypes, id : Transfers, seq : Nat, len : Nat]
             m == Message(type, t, seq, len)
  <1>1. m \in M
    BY DEF Message
  <1>2. wire \in [Sessions -> Seq(M)]
    BY DEF WireOK
  <1>3. CASE UNCHANGED wire
    BY <1>3 DEF WireOK
  <1>4. CASE wire' = [wire EXCEPT ![s] = Append(@, m)]
    <2>1. wire' \in [Sessions -> Seq(M)]
      <3> HIDE DEF M, m
      <3> QED
        BY <1>1, <1>2, <1>4, AppendAtTyped
    <2>2. QED
      BY <2>1 DEF WireOK
  <1>5. QED
    BY <1>3, <1>4 DEF Sent, SendFails, ChunkSent, ChunkSendFails

----------------------------------------------------------------------------
(* Every step keeps the types. *)

\* The parts of the state that a step leaves alone keep their types.
LEMMA UnchangedTyped ==
  ASSUME TypeOK
  PROVE  /\ UNCHANGED registry => RegistryOK'
         /\ UNCHANGED detaching => DetachingOK'
         /\ UNCHANGED table => TableOK'
         /\ UNCHANGED ends => EndsOK'
         /\ UNCHANGED work => WorkOK'
         /\ UNCHANGED timer => TimerOK'
         /\ UNCHANGED starter => StarterOK'
         /\ UNCHANGED relay => RelayOK'
         /\ UNCHANGED wire => WireOK'
  BY DEF TypeOK, RegistryOK, DetachingOK, TableOK, EndsOK, WorkOK, TimerOK, StarterOK,
         RelayOK, WireOK, registry, detaching, table, ends, work

LEMMA AttachTyped ==
  ASSUME TypeOK, NEW s \in Sessions, Attach(s) \/ ConnectionLost(s)
  PROVE  TypeOK'
  <1>1. CASE Attach(s)
    BY <1>1, UnchangedTyped, ConstantsAssumption DEF Attach, TypeOK, RegistryOK
  <1>2. CASE ConnectionLost(s)
    BY <1>2, UnchangedTyped DEF ConnectionLost, TypeOK, RegistryOK
  <1>3. QED
    BY <1>1, <1>2

LEMMA DetachTyped ==
  ASSUME TypeOK, NEW s \in Sessions, NEW w \in Detachers,
         DetachUnbind(s, w) \/ DetachStep(s, w)
  PROVE  TypeOK'
  <1>1. CASE DetachUnbind(s, w)
    <2>1. RegistryOK' /\ DetachingOK'
      BY <1>1, ConstantsAssumption DEF DetachUnbind, TypeOK, RegistryOK, DetachingOK
    <2>2. QED
      BY <1>1, <2>1, UnchangedTyped DEF DetachUnbind, TypeOK
  <1>2. CASE DetachClose(s, w)
    <2>1. RegistryOK' /\ DetachingOK'
      BY <1>2 DEF DetachClose, TypeOK, RegistryOK, DetachingOK
    <2>2. QED
      BY <1>2, <2>1, UnchangedTyped DEF DetachClose, TypeOK
  <1>3. CASE DetachScan(s, w)
    <2>1. DetachingOK'
      BY <1>3 DEF DetachScan, TypeOK, TableOK, DetachingOK
    <2>2. QED
      BY <1>3, <2>1, UnchangedTyped DEF DetachScan, TypeOK
  <1>4. ASSUME NEW t \in Transfers, DetachFail(s, w, t) PROVE TypeOK'
    <2>1. DetachingOK'
      BY <1>4 DEF DetachFail, TypeOK, DetachingOK
    <2>2. TableOK' /\ TimerOK' /\ StarterOK' /\ RelayOK'
      BY <1>4, FailTyped DEF DetachFail, FailTransfer, Causes
    <2>3. QED
      BY <1>4, <2>1, <2>2, UnchangedTyped DEF DetachFail, TypeOK
  <1>5. QED
    BY <1>1, <1>2, <1>3, <1>4 DEF DetachStep

LEMMA CloseTyped ==
  ASSUME TypeOK, CloseScan \/ CloseStep
  PROVE  TypeOK'
  <1>1. CASE CloseScan
    <2>1. DetachingOK'
      BY <1>1 DEF CloseScan, TypeOK, TableOK, DetachingOK
    <2>2. QED
      BY <1>1, <2>1, UnchangedTyped DEF CloseScan, TypeOK
  <1>2. ASSUME NEW t \in Transfers, CloseFail(t) PROVE TypeOK'
    <2>1. DetachingOK'
      BY <1>2 DEF CloseFail, TypeOK, DetachingOK
    <2>2. TableOK' /\ TimerOK' /\ StarterOK' /\ RelayOK'
      BY <1>2, FailTyped DEF CloseFail, FailTransfer, Causes
    <2>3. QED
      BY <1>2, <2>1, <2>2, UnchangedTyped DEF CloseFail, TypeOK
  <1>3. CASE CloseUnbind
    <2>1. RegistryOK' /\ DetachingOK'
      BY <1>3 DEF CloseUnbind, TypeOK, RegistryOK, DetachingOK
    <2>2. QED
      BY <1>3, <2>1, UnchangedTyped DEF CloseUnbind, TypeOK
  <1>4. ASSUME NEW s \in Sessions, CloseSession(s) PROVE TypeOK'
    <2>1. RegistryOK' /\ DetachingOK'
      BY <1>4 DEF CloseSession, TypeOK, RegistryOK, DetachingOK
    <2>2. QED
      BY <1>4, <2>1, UnchangedTyped DEF CloseSession, TypeOK
  <1>5. QED
    BY <1>1, <1>2, <1>3, <1>4 DEF CloseStep

\* pruneTransferHistoryLocked deletes no more entries than are final.
LEMMA PruneCountBounded ==
  ASSUME TypeOK
  PROVE  PruneCount \in 0..Len(history)
  <1>1. Cardinality(transfers) \in Nat
    BY ConstantsAssumption, FS_CardinalityType, FS_Subset DEF TypeOK, TableOK
  <1>2. Len(history) \in Nat
    BY DEF TypeOK, TableOK
  <1>3. QED
    BY <1>1, <1>2, ConstantsAssumption DEF PruneCount

LEMMA ResolveTyped ==
  ASSUME TypeOK, NEW t \in Transfers, NEW d \in Devices,
         ResolveSource(t, d) \/ ResolveTarget(t, d)
  PROVE  TypeOK'
  <1>1. CASE ResolveSource(t, d)
    <2>1. EndsOK' /\ StarterOK'
      BY <1>1 DEF ResolveSource, TypeOK, RegistryOK, EndsOK, StarterOK
    <2>2. QED
      BY <1>1, <2>1, UnchangedTyped DEF ResolveSource, TypeOK
  <1>2. CASE ResolveTarget(t, d)
    <2>1. EndsOK' /\ StarterOK'
      BY <1>2 DEF ResolveTarget, TypeOK, RegistryOK, EndsOK, StarterOK
    <2>2. QED
      BY <1>2, <2>1, UnchangedTyped DEF ResolveTarget, TypeOK
  <1>3. QED
    BY <1>1, <1>2

LEMMA StartStepsTyped ==
  ASSUME TypeOK, NEW t \in Transfers, StartStep(t) \/ CancelTransfer(t)
  PROVE  TypeOK'
  <1>1. CASE Refuse(t)
    <2>1. StarterOK'
      BY <1>1 DEF Refuse, TypeOK, StarterOK
    <2>2. QED
      BY <1>1, <2>1, UnchangedTyped DEF Refuse, TypeOK
  <1>2. CASE Reserve(t)
    <2>1. history' \in Seq(Transfers)
      <3>1. history \in Seq(Transfers) /\ PruneCount \in 0..Len(history)
        BY PruneCountBounded DEF TypeOK, TableOK
      <3>2. QED
        BY <1>2, <3>1 DEF Reserve
    <2>2. TableOK'
      BY <1>2, <2>1 DEF Reserve, TypeOK, TableOK, ActiveStates
    <2>3. WorkOK' /\ TimerOK' /\ StarterOK'
      BY <1>2 DEF Reserve, TypeOK, WorkOK, TimerOK, StarterOK
    <2>4. QED
      BY <1>2, <2>2, <2>3, UnchangedTyped DEF Reserve, TypeOK
  <1>3. CASE StartRelay(t)
    <2>1. StarterOK'
      BY <1>3 DEF StartRelay, TypeOK, StarterOK
    <2>2. RelayOK'
      BY <1>3, HoldTyped DEF StartRelay, TypeOK, SendSteps
    <2>3. QED
      BY <1>3, <2>1, <2>2, UnchangedTyped DEF StartRelay, TypeOK
  <1>4. CASE Return(t)
    <2>1. StarterOK'
      BY <1>4 DEF Return, TypeOK, StarterOK
    <2>2. QED
      BY <1>4, <2>1, UnchangedTyped DEF Return, TypeOK
  <1>5. CASE CancelTransfer(t)
    <2>1. TableOK' /\ TimerOK'
      BY <1>5, SettleTyped DEF CancelTransfer, FinalStates, Causes
    <2>2. RelayOK'
      BY <1>5, HoldTyped DEF CancelTransfer, TypeOK, SendSteps
    <2>3. QED
      BY <1>5, <2>1, <2>2, UnchangedTyped DEF CancelTransfer, TypeOK
  <1>6. QED
    BY <1>1, <1>2, <1>3, <1>4, <1>5 DEF StartStep

LEMMA SendThenTyped ==
  ASSUME TypeOK, NEW t \in Transfers, NEW step, NEW s, NEW type \in MessageTypes,
         NEW next \in SendSteps \cup {"free"}, SendThen(t, step, s, type, next)
  PROVE  TypeOK'
  <1>1. relay[t].by \in Sessions \cup {NoSession}
    BY DEF TypeOK, RelayOK
  <1>2. WireOK'
    BY SentTyped DEF SendThen, TypeOK
  <1>3. TableOK' /\ TimerOK' /\ StarterOK' /\ RelayOK'
    <2>1. CASE FailRelayLocked(t, "send", relay[t].by)
      BY <1>1, <2>1, FailTyped DEF Causes
    <2>2. CASE UNCHANGED <<table, timer>> /\ next = "free" /\ Release(t)
      BY <2>2, ReleaseTyped, UnchangedTyped DEF TypeOK
    <2>3. CASE UNCHANGED <<table, timer>> /\ relay' = [relay EXCEPT ![t].pc = next] /\ UNCHANGED starter
      BY <2>3, UnchangedTyped DEF TypeOK, RelayOK
    <2>4. QED
      BY <2>1, <2>2, <2>3 DEF SendThen
  <1>4. QED
    BY <1>2, <1>3, UnchangedTyped DEF SendThen, TypeOK

LEMMA SendChunkTyped ==
  ASSUME TypeOK, NEW t \in Transfers, SendChunk(t)
  PROVE  TypeOK'
  <1>1. /\ relay[t].by \in Sessions \cup {NoSession} /\ relay[t].len \in Nat
        /\ prog[t].nextSeq \in Nat
    BY DEF TypeOK, RelayOK, WorkOK
  <1>2. WireOK'
    BY <1>1, SentTyped DEF SendChunk, TypeOK, MessageTypes
  <1>3. TableOK' /\ TimerOK' /\ StarterOK' /\ RelayOK' /\ WorkOK'
    <2>1. CASE /\ FailRelayLocked(t, "send", relay[t].by)
               /\ ChunkSendFails(t, Message("chunk", t, prog[t].nextSeq, relay[t].len))
               /\ UNCHANGED <<prog, fresh>>
      <3>1. late' \in [Transfers -> Nat]
        BY <1>1, <2>1 DEF ChunkSendFails, Message, TypeOK, WorkOK
      <3>2. WorkOK'
        BY <2>1, <3>1 DEF TypeOK, WorkOK
      <3>3. QED
        BY <1>1, <2>1, <3>2, FailTyped DEF Causes
    <2>2. CASE /\ prog' = [prog EXCEPT ![t] = Counted(t)]
               /\ fresh' = [fresh EXCEPT ![t] = TRUE]
               /\ Release(t)
               /\ UNCHANGED <<late, table, timer>>
      <3>1. WorkOK'
        <4> DEFINE R == [Size : Nat, Transferred : Nat, nextSeq : Nat,
                         SHA256 : Digests \cup {NoDigest},
                         sourceReady : BOOLEAN, targetReady : BOOLEAN]
        <4>1. prog \in [Transfers -> R] /\ prog[t] \in R
          BY DEF TypeOK, WorkOK
        <4>2. prog[t].nextSeq + 1 \in Nat /\ prog[t].Transferred + relay[t].len \in Nat
          BY <1>1, <4>1
        <4>3. Counted(t) \in R
          BY <4>1, <4>2 DEF Counted
        <4>4. prog' \in [Transfers -> R]
          BY <2>2, <4>1, <4>3
        <4>5. QED
          BY <2>2, <4>4 DEF TypeOK, WorkOK
      <3>2. QED
        BY <2>2, <3>1, ReleaseTyped, UnchangedTyped DEF TypeOK
    <2>3. QED
      BY <2>1, <2>2 DEF SendChunk
  <1>4. QED
    BY <1>2, <1>3, UnchangedTyped DEF SendChunk, TypeOK

LEMMA LateChunkTyped ==
  ASSUME TypeOK, NEW t \in Transfers, LateChunk(t)
  PROVE  TypeOK'
  <1> DEFINE m == Message("chunk", t, prog[t].nextSeq, late[t])
             M == [type : MessageTypes, id : Transfers, seq : Nat, len : Nat]
  <1>1. m \in M
    BY DEF Message, TypeOK, WorkOK, MessageTypes
  <1>2. WireOK'
    <2>1. wire \in [Sessions -> Seq(M)] /\ wire' = [wire EXCEPT ![target[t]] = Append(@, m)]
      BY DEF LateChunk, TypeOK, WireOK
    <2> HIDE DEF m, M
    <2>2. wire' \in [Sessions -> Seq(M)]
      BY <1>1, <2>1, AppendAtTyped
    <2> QED
      BY <2>2 DEF WireOK, M
  <1>3. WorkOK'
    BY DEF LateChunk, TypeOK, WorkOK
  <1> QED
    BY <1>2, <1>3, UnchangedTyped DEF LateChunk, TypeOK

LEMMA RelayStepsTyped ==
  ASSUME TypeOK, NEW t \in Transfers, RelayStep(t)
  PROVE  TypeOK'
  <1>1. CASE \/ SendTargetStart(t) \/ SendSourceStart(t) \/ SendSend(t) \/ SendCommit(t)
    BY <1>1, SendThenTyped
    DEF SendTargetStart, SendSourceStart, SendSend, SendCommit, SendSteps, MessageTypes
  <1>2. CASE SendChunk(t)
    BY <1>2, SendChunkTyped
  <1>3. CASE SendCancelSource(t)
    <2>1. WireOK'
      BY <1>3, SentTyped DEF SendCancelSource, TypeOK, MessageTypes
    <2>2. RelayOK'
      BY <1>3 DEF SendCancelSource, TypeOK, RelayOK, SendSteps
    <2>3. QED
      BY <1>3, <2>1, <2>2, UnchangedTyped DEF SendCancelSource, TypeOK
  <1>4. CASE SendCancelTarget(t)
    <2>1. WireOK'
      BY <1>4, SentTyped DEF SendCancelTarget, TypeOK, MessageTypes
    <2>2. RelayOK' /\ StarterOK'
      BY <1>4, ReleaseTyped DEF SendCancelTarget, TypeOK
    <2>3. QED
      BY <1>4, <2>1, <2>2, UnchangedTyped DEF SendCancelTarget, TypeOK
  <1>5. QED
    BY <1>1, <1>2, <1>3, <1>4 DEF RelayStep

LEMMA BecomeReadyTyped ==
  ASSUME TypeOK, NEW s \in Sessions, NEW t \in Transfers,
         NEW ready \in [Size : Nat, Transferred : Nat, nextSeq : Nat,
                        SHA256 : Digests \cup {NoDigest},
                        sourceReady : BOOLEAN, targetReady : BOOLEAN],
         BecomeReady(s, t, ready)
  PROVE  TypeOK'
  <1>1. WorkOK'
    BY DEF BecomeReady, TypeOK, WorkOK
  <1>2. TableOK'
    BY DEF BecomeReady, TypeOK, TableOK, ActiveStates
  <1>3. RelayOK'
    BY HoldTyped, UnchangedTyped DEF BecomeReady, TypeOK, SendSteps
  <1>4. QED
    BY <1>1, <1>2, <1>3, UnchangedTyped DEF BecomeReady, TypeOK

LEMMA CoreStepsTyped ==
  ASSUME TypeOK, NEW s \in Sessions, NEW t \in Transfers, CoreStep(s, t)
  PROVE  TypeOK'
  <1>1. Sizes \subseteq Nat
    BY ConstantsAssumption DEF Sizes
  <1>2. prog[t] \in [Size : Nat, Transferred : Nat, nextSeq : Nat,
                     SHA256 : Digests \cup {NoDigest},
                     sourceReady : BOOLEAN, targetReady : BOOLEAN]
    BY DEF TypeOK, WorkOK
  <1>3. ASSUME NEW n \in Sizes, SourceReady(s, t, n) PROVE TypeOK'
    BY <1>1, <1>2, <1>3, BecomeReadyTyped DEF SourceReady
  <1>4. CASE TargetReady(s, t)
    BY <1>2, <1>4, BecomeReadyTyped DEF TargetReady
  <1>5. ASSUME NEW seq \in Sizes, NEW n \in Sizes, SourceChunk(s, t, seq, n) PROVE TypeOK'
    <2> DEFINE by == IF s \in HTTP THEN NoSession ELSE s
    <2>1. TableOK' /\ TimerOK' /\ StarterOK' /\ RelayOK'
      <3>1. CASE Hold(t, "chunk", by, n) /\ UNCHANGED <<table, timer, starter>>
        <4>1. n \in Nat /\ by \in Sessions \cup {NoSession} /\ "chunk" \in SendSteps
          BY <1>1 DEF SendSteps
        <4>2. QED
          BY <3>1, <4>1, HoldTyped, UnchangedTyped DEF TypeOK
      <3>2. CASE FailRelayLocked(t, "protocol", by)
        BY <3>2, FailTyped DEF Causes
      <3>3. QED
        BY <1>5, <3>1, <3>2 DEF SourceChunk
    <2>2. QED
      BY <1>5, <2>1, UnchangedTyped DEF SourceChunk, TypeOK
  <1>6. ASSUME NEW n \in Sizes, NEW h \in Digests \cup {NoDigest}, SourceFinish(s, t, n, h)
        PROVE TypeOK'
    <2>1. CASE FailRelayLocked(t, "protocol", s) /\ UNCHANGED work
      <3>1. TableOK' /\ TimerOK' /\ StarterOK' /\ RelayOK' /\ WorkOK'
        BY <2>1, FailTyped, UnchangedTyped DEF Causes
      <3>2. QED
        BY <1>6, <3>1, UnchangedTyped DEF SourceFinish, TypeOK
    <2>2. CASE /\ state' = [state EXCEPT ![t] = "verifying"]
               /\ prog' = [prog EXCEPT ![t].SHA256 = h]
               /\ fresh' = [fresh EXCEPT ![t] = TRUE]
               /\ Hold(t, "commit", s, 0)
               /\ UNCHANGED <<late, transfers, activeTransfer, history, cause, timer, starter>>
      <3>1. TableOK'
        BY <2>2 DEF TypeOK, TableOK, ActiveStates
      <3>2. WorkOK'
        BY <2>2 DEF TypeOK, WorkOK
      <3>3. RelayOK' /\ TimerOK' /\ StarterOK'
        BY <2>2, HoldTyped, UnchangedTyped DEF TypeOK, SendSteps
      <3>4. QED
        BY <1>6, <3>1, <3>2, <3>3, UnchangedTyped DEF SourceFinish, TypeOK
    <2>3. QED
      BY <1>6, <2>1, <2>2 DEF SourceFinish
  <1>7. ASSUME NEW n \in Sizes, NEW h \in Digests \cup {NoDigest}, TargetFinish(s, t, n, h)
        PROVE TypeOK'
    <2>1. CASE FailTransfer(t, "protocol", s) /\ UNCHANGED work
      <3>1. TableOK' /\ TimerOK' /\ StarterOK' /\ RelayOK' /\ WorkOK'
        BY <2>1, FailTyped, UnchangedTyped DEF Causes, FailTransfer
      <3>2. QED
        BY <1>7, <3>1, UnchangedTyped DEF TargetFinish, TypeOK
    <2>2. CASE /\ Settle(t, "completed", "none")
               /\ prog' = [prog EXCEPT ![t].Transferred = prog[t].Size]
               /\ UNCHANGED <<fresh, late, relay, starter>>
      <3>1. TableOK' /\ TimerOK'
        BY <2>2, SettleTyped DEF FinalStates, Causes
      <3>2. WorkOK'
        BY <1>2, <2>2 DEF TypeOK, WorkOK
      <3>3. QED
        BY <1>7, <2>2, <3>1, <3>2, UnchangedTyped DEF TargetFinish, TypeOK
    <2>3. QED
      BY <1>7, <2>1, <2>2 DEF TargetFinish
  <1>8. CASE PeerFailed(s, t)
    <2>1. TableOK' /\ TimerOK' /\ StarterOK' /\ RelayOK'
      BY <1>8, FailTyped DEF PeerFailed, Causes
    <2>2. QED
      BY <1>8, <2>1, UnchangedTyped DEF PeerFailed, TypeOK
  <1>9. QED
    BY <1>3, <1>4, <1>5, <1>6, <1>7, <1>8 DEF CoreStep

LEMMA TimerStepsTyped ==
  ASSUME TypeOK, NEW t \in Transfers, GoIdle(t) \/ Expire(t)
  PROVE  TypeOK'
  <1>1. CASE GoIdle(t)
    <2>1. WorkOK'
      BY <1>1 DEF GoIdle, TypeOK, WorkOK
    <2>2. QED
      BY <1>1, <2>1, UnchangedTyped DEF GoIdle, TypeOK
  <1>2. CASE Expire(t)
    <2>1. TableOK' /\ TimerOK' /\ StarterOK' /\ RelayOK'
      <3>1. CASE fresh[t]
        BY <1>2, <3>1, UnchangedTyped DEF Expire, TypeOK, TimerOK
      <3>2. CASE ~fresh[t]
        BY <1>2, <3>2, FailTyped DEF Expire, Causes
      <3>3. QED
        BY <3>1, <3>2
    <2>2. QED
      BY <1>2, <2>1, UnchangedTyped DEF Expire, TypeOK
  <1>3. QED
    BY <1>1, <1>2

LEMMA NextTyped ==
  ASSUME TypeOK, [Next]_vars
  PROVE  TypeOK'
  <1>1. CASE UNCHANGED vars
    BY <1>1, UnchangedTyped DEF TypeOK, vars
  <1>2. ASSUME NEW s \in Sessions, Attach(s) \/ ConnectionLost(s) PROVE TypeOK'
    BY <1>2, AttachTyped
  <1>3. ASSUME NEW s \in Sessions, NEW w \in Detachers, DetachUnbind(s, w) \/ DetachStep(s, w)
        PROVE TypeOK'
    BY <1>3, DetachTyped
  <1>4. CASE CloseScan \/ CloseStep
    BY <1>4, CloseTyped
  <1>5. ASSUME NEW t \in Transfers, NEW d \in Devices, ResolveSource(t, d) \/ ResolveTarget(t, d)
        PROVE TypeOK'
    BY <1>5, ResolveTyped
  <1>6. ASSUME NEW t \in Transfers, StartStep(t) \/ CancelTransfer(t) PROVE TypeOK'
    BY <1>6, StartStepsTyped
  <1>7. ASSUME NEW t \in Transfers, RelayStep(t) PROVE TypeOK'
    BY <1>7, RelayStepsTyped
  <1>8. ASSUME NEW s \in Sessions, NEW t \in Transfers, CoreStep(s, t) PROVE TypeOK'
    BY <1>8, CoreStepsTyped
  <1>9. ASSUME NEW t \in Transfers, GoIdle(t) \/ Expire(t) PROVE TypeOK'
    BY <1>9, TimerStepsTyped
  <1>10. ASSUME NEW t \in Transfers, LateChunk(t) PROVE TypeOK'
    BY <1>10, LateChunkTyped
  <1>11. QED
    BY <1>1, <1>2, <1>3, <1>4, <1>5, <1>6, <1>7, <1>8, <1>9, <1>10 DEF Next

\* Every variable keeps its type in every behaviour (TypeOK).
THEOREM TypeCorrect == Spec => []TypeOK
  <1>1. Init => TypeOK
    BY InitTyped
  <1>2. TypeOK /\ [Next]_vars => TypeOK'
    BY NextTyped
  <1>3. QED
    BY <1>1, <1>2, PTL DEF Spec

----------------------------------------------------------------------------
(* Reservations. *)

LEMMA InitInductive == Init => Inductive
  <1> SUFFICES ASSUME Init PROVE Inductive
    OBVIOUS
  <1>1. TypeOK
    BY InitTyped
  <1>2. StartOrder
    BY DEF Init, StartOrder, Early, Unlocked, Unheld
  <1>3. HistoryFinal
    BY DEF Init, HistoryFinal
  <1>4. ReservationsMatch
    BY ConstantsAssumption DEF Init, ReservationsMatch, ActiveStates
  <1>5. RegisteredByName
    BY DEF Init, RegisteredByName
  <1>6. QED
    BY <1>1, <1>2, <1>3, <1>4, <1>5 DEF Inductive

\* A step that leaves the table and the ends alone keeps what is said of them.
LEMMA TableKept ==
  ASSUME Inductive, UNCHANGED <<table, ends>>
  PROVE  HistoryFinal' /\ ReservationsMatch'
  BY DEF Inductive, HistoryFinal, ReservationsMatch, table, ends, Parties, SourceDevice,
         TargetDevice

\* A step that touches only transfers past their reservation keeps StartOrder.
LEMMA OrderKept ==
  ASSUME Inductive, NEW t, starter[t] \notin Early, starter'[t] \notin Early,
         UNCHANGED ends,
         \A u \in Transfers \ {t} :
            starter'[u] = starter[u] /\ state'[u] = state[u] /\ relay'[u].pc = relay[u].pc
  PROVE  StartOrder'
  BY DEF Inductive, StartOrder, Early, Unlocked, ends, SourceDevice, TargetDevice

\* A transfer that has a state, or whose relayMu is held, is past its reservation.
LEMMA PastReservation ==
  ASSUME Inductive, NEW t \in Transfers, state[t] # "none" \/ relay[t].pc # "free"
  PROVE  /\ starter[t] \notin Early
         /\ source[t] \in Sessions /\ target[t] \in Sessions
         /\ SourceDevice(t) # TargetDevice(t)
  BY DEF Inductive, StartOrder, Early, Unlocked

\* releaseTransferDevicesLocked, together with the final state, keeps the match.
LEMMA SettleKeeps ==
  ASSUME Inductive, NEW t \in Transfers, NEW final \in FinalStates, NEW why,
         Live(t), Settle(t, final, why), UNCHANGED ends
  PROVE  HistoryFinal' /\ ReservationsMatch'
  <1>1. state \in [Transfers -> {"none"} \cup ActiveStates \cup FinalStates]
    BY DEF Inductive, TypeOK, TableOK
  <1>2. history \in Seq(Transfers)
    BY DEF Inductive, TypeOK, TableOK
  <1>3. HistoryFinal'
    <2>1. SUFFICES ASSUME NEW i \in DOMAIN history' PROVE state'[history'[i]] \in FinalStates
      BY DEF HistoryFinal
    <2>2. CASE i \in DOMAIN history
      <3>1. history'[i] = history[i] /\ history[i] \in Transfers
        BY <1>2, <2>2 DEF Settle
      <3>2. QED
        BY <1>1, <2>2, <3>1 DEF Settle, Inductive, HistoryFinal
    <2>3. CASE i = Len(history) + 1
      BY <1>1, <1>2, <2>3 DEF Settle
    <2>4. QED
      BY <1>2, <2>1, <2>2, <2>3 DEF Settle
  <1>4. ReservationsMatch'
    <2>1. SUFFICES ASSUME NEW u \in Transfers
                   PROVE  /\ state'[u] \in ActiveStates => u \in transfers'
                          /\ \A d \in Devices : activeTransfer'[d] = u
                                <=> state'[u] \in ActiveStates /\ d \in Parties(u)'
      BY DEF ReservationsMatch
    <2>2. Parties(u)' = Parties(u)
      BY DEF ends, Parties, SourceDevice, TargetDevice
    <2>3. CASE u = t
      <3>1. state'[u] \notin ActiveStates
        BY <1>1, <2>3 DEF Settle, ActiveStates, FinalStates
      <3>2. ASSUME NEW d \in Devices PROVE activeTransfer'[d] # u
        BY <2>3, ConstantsAssumption DEF Settle, Live, Inductive, ReservationsMatch
      <3>3. QED
        BY <3>1, <3>2
    <2>4. CASE u # t
      <3>1. state'[u] = state[u] /\ transfers' = transfers
        BY <1>1, <2>4 DEF Settle
      <3>2. ASSUME NEW d \in Devices PROVE activeTransfer'[d] = u <=> activeTransfer[d] = u
        BY <2>4, ConstantsAssumption DEF Settle
      <3>3. QED
        BY <2>2, <3>1, <3>2 DEF Inductive, ReservationsMatch
    <2>5. QED
      BY <2>3, <2>4
  <1>5. QED
    BY <1>3, <1>4

\* failTransferRelayLocked keeps all of it, whoever calls it.
LEMMA FailKeeps ==
  ASSUME Inductive, NEW t \in Transfers, NEW why, NEW by, FailRelayLocked(t, why, by),
         UNCHANGED ends
  PROVE  StartOrder' /\ HistoryFinal' /\ ReservationsMatch'
  <1>1. CASE Live(t)
    <2>1. HistoryFinal' /\ ReservationsMatch'
      BY <1>1, SettleKeeps DEF FailRelayLocked, FinalStates
    <2>2. starter[t] \notin Early /\ starter' = starter
      BY <1>1, PastReservation DEF FailRelayLocked, Live, ActiveStates
    <2>3. ASSUME NEW u \in Transfers \ {t}
          PROVE  state'[u] = state[u] /\ relay'[u].pc = relay[u].pc
      BY <1>1 DEF FailRelayLocked, Settle, Hold, Inductive, TypeOK, TableOK, RelayOK
    <2>4. QED
      BY <2>1, <2>2, <2>3, OrderKept
  <1>2. CASE ~Live(t)
    <2>1. HistoryFinal' /\ ReservationsMatch'
      BY <1>2, TableKept DEF FailRelayLocked
    <2>2. StartOrder'
      BY <1>2 DEF FailRelayLocked, Release, Unheld, Inductive, TypeOK, RelayOK, StarterOK, StartOrder,
                  Early, Unlocked, ends, table, SourceDevice, TargetDevice
    <2>3. QED
      BY <2>1, <2>2
  <1>3. QED
    BY <1>1, <1>2

\* A live transfer that moves to another live state keeps its reservations.
LEMMA MoveOnKeeps ==
  ASSUME Inductive, NEW t \in Transfers, NEW next \in ActiveStates,
         state[t] \in ActiveStates, state' = [state EXCEPT ![t] = next],
         UNCHANGED <<transfers, activeTransfer, history, ends>>
  PROVE  HistoryFinal' /\ ReservationsMatch'
  <1>1. state \in [Transfers -> {"none"} \cup ActiveStates \cup FinalStates]
        /\ history \in Seq(Transfers)
    BY DEF Inductive, TypeOK, TableOK
  <1>2. ASSUME NEW u \in Transfers
        PROVE  /\ state'[u] \in ActiveStates <=> state[u] \in ActiveStates
               /\ state[u] \in FinalStates => state'[u] \in FinalStates
    BY <1>1 DEF ActiveStates, FinalStates
  <1>3. HistoryFinal'
    BY <1>1, <1>2 DEF Inductive, HistoryFinal
  <1>4. ReservationsMatch'
    BY <1>2 DEF Inductive, ReservationsMatch, ends, Parties, SourceDevice, TargetDevice
  <1>5. QED
    BY <1>3, <1>4

\* A step that leaves the table, the ends, the starters and the locks alone.
LEMMA AsideKeeps ==
  ASSUME Inductive, UNCHANGED <<table, ends, starter, relay>>
  PROVE  StartOrder' /\ HistoryFinal' /\ ReservationsMatch'
  <1>1. StartOrder'
    BY DEF Inductive, StartOrder, Early, Unlocked, table, ends, SourceDevice, TargetDevice
  <1>2. QED
    BY <1>1, TableKept

LEMMA ResolveKeeps ==
  ASSUME Inductive, NEW t \in Transfers, NEW d \in Devices,
         ResolveSource(t, d) \/ ResolveTarget(t, d)
  PROVE  StartOrder' /\ HistoryFinal' /\ ReservationsMatch'
  <1>1. starter[t] \in Early /\ state[t] = "none"
    BY DEF ResolveSource, ResolveTarget, Early, Inductive, StartOrder
  <1>2. UNCHANGED table
    BY DEF ResolveSource, ResolveTarget
  <1>3. HistoryFinal'
    BY <1>2 DEF Inductive, HistoryFinal, table
  <1>4. ReservationsMatch'
    <2>1. \A u \in Transfers \ {t} : source'[u] = source[u] /\ target'[u] = target[u]
      BY DEF ResolveSource, ResolveTarget, Inductive, TypeOK, EndsOK
    <2>2. \A u \in Transfers \ {t} : Parties(u)' = Parties(u)
      BY <2>1 DEF Parties, SourceDevice, TargetDevice
    <2>3. QED
      BY <1>1, <1>2, <2>2 DEF Inductive, ReservationsMatch, table, ActiveStates
  <1>5. StartOrder'
    <2>1. CASE ResolveSource(t, d)
      BY <1>1, <2>1 DEF ResolveSource, Inductive, TypeOK, RegistryOK, EndsOK, StarterOK, StartOrder,
                        Early, Unlocked, table, SourceDevice, TargetDevice
    <2>2. CASE ResolveTarget(t, d)
      <3>1. session[d] \in Sessions /\ Name[session[d]] = d
        BY <2>2 DEF ResolveTarget, Inductive, TypeOK, RegistryOK, RegisteredByName
      <3>2. QED
        BY <1>1, <2>2, <3>1 DEF ResolveTarget, Inductive, TypeOK, EndsOK, StarterOK, StartOrder,
                                Early, Unlocked, table, SourceDevice, TargetDevice
    <2>3. QED
      BY <2>1, <2>2
  <1>6. QED
    BY <1>3, <1>4, <1>5

LEMMA ReserveKeeps ==
  ASSUME Inductive, NEW t \in Transfers, Reserve(t)
  PROVE  StartOrder' /\ HistoryFinal' /\ ReservationsMatch'
  <1>1. /\ starter[t] = "reserve" /\ state[t] = "none"
        /\ source[t] \in Sessions /\ target[t] \in Sessions
        /\ SourceDevice(t) # TargetDevice(t) /\ Unlocked(t)
    BY DEF Reserve, Early, Inductive, StartOrder
  <1>2. /\ state \in [Transfers -> {"none"} \cup ActiveStates \cup FinalStates]
        /\ history \in Seq(Transfers)
    BY DEF Inductive, TypeOK, TableOK
  <1>3. state' = [state EXCEPT ![t] = "preparing"]
    BY DEF Reserve
  <1>4. \A u \in Transfers \ {t} : state'[u] = state[u]
    BY <1>2, <1>3
  <1>5. PruneCount \in 0..Len(history)
    BY PruneCountBounded DEF Inductive
  <1>6. HistoryFinal'
    <2>1. SUFFICES ASSUME NEW i \in DOMAIN history' PROVE state'[history'[i]] \in FinalStates
      BY DEF HistoryFinal
    <2>2. i + PruneCount \in DOMAIN history /\ history'[i] = history[i + PruneCount]
      BY <1>2, <1>5 DEF Reserve
    <2>3. state[history[i + PruneCount]] \in FinalStates /\ history[i + PruneCount] \in Transfers
      BY <1>2, <2>2 DEF Inductive, HistoryFinal
    <2>4. history[i + PruneCount] # t
      BY <1>1, <2>3 DEF FinalStates
    <2>5. QED
      BY <1>4, <2>2, <2>3, <2>4
  <1>7. ReservationsMatch'
    <2>1. SUFFICES ASSUME NEW u \in Transfers
                   PROVE  /\ state'[u] \in ActiveStates => u \in transfers'
                          /\ \A d \in Devices : activeTransfer'[d] = u
                                <=> state'[u] \in ActiveStates /\ d \in Parties(u)'
      BY DEF ReservationsMatch
    <2>2. Parties(u)' = Parties(u)
      BY DEF Reserve, ends, Parties, SourceDevice, TargetDevice
    <2>3. \A d \in Devices : d \in Parties(t) => activeTransfer[d] = NoTransfer
      BY DEF Reserve, Busy
    <2>4. CASE u = t
      <3>1. state'[u] \in ActiveStates /\ u \in transfers'
        BY <1>2, <1>3, <2>4 DEF Reserve, ActiveStates
      <3>2. ASSUME NEW d \in Devices PROVE activeTransfer'[d] = u <=> d \in Parties(u)
        <4>1. activeTransfer[d] # t
          BY <1>1 DEF Inductive, ReservationsMatch, ActiveStates
        <4>2. QED
          BY <2>4, <4>1 DEF Reserve
      <3>3. QED
        BY <2>2, <3>1, <3>2
    <2>5. CASE u # t
      <3>1. state'[u] = state[u]
        BY <1>4, <2>5
      <3>2. ASSUME NEW d \in Devices PROVE activeTransfer'[d] = u <=> activeTransfer[d] = u
        BY <2>3, <2>5, ConstantsAssumption DEF Reserve
      <3>3. state[u] \in ActiveStates => u \in transfers'
        <4>1. SUFFICES ASSUME state[u] \in ActiveStates PROVE u \in transfers'
          OBVIOUS
        <4>2. u \in transfers
          BY <4>1 DEF Inductive, ReservationsMatch
        <4>3. ASSUME NEW i \in 1..PruneCount PROVE history[i] # u
          <5>1. i \in DOMAIN history
            BY <1>2, <1>5, <4>3
          <5>2. QED
            BY <4>1, <5>1 DEF Inductive, HistoryFinal, ActiveStates, FinalStates
        <4>4. QED
          BY <4>2, <4>3 DEF Reserve
      <3>4. QED
        BY <2>2, <3>1, <3>2, <3>3 DEF Inductive, ReservationsMatch
    <2>6. QED
      BY <2>4, <2>5
  <1>8. StartOrder'
    BY <1>1, <1>4 DEF Reserve, Inductive, TypeOK, StarterOK, StartOrder, Early, Unlocked, ends,
                      SourceDevice, TargetDevice
  <1>9. QED
    BY <1>6, <1>7, <1>8

LEMMA StartKeeps ==
  ASSUME Inductive, NEW t \in Transfers, StartStep(t) \/ CancelTransfer(t)
  PROVE  StartOrder' /\ HistoryFinal' /\ ReservationsMatch'
  <1>1. CASE Refuse(t) \/ StartRelay(t) \/ Return(t)
    <2>1. HistoryFinal' /\ ReservationsMatch'
      BY <1>1, TableKept DEF Refuse, StartRelay, Return
    <2>2. StartOrder'
      BY <1>1 DEF Refuse, StartRelay, Return, Hold, Inductive, TypeOK, StarterOK, RelayOK,
                  StartOrder, Early, Unlocked, table, ends, SourceDevice, TargetDevice
    <2>3. QED
      BY <2>1, <2>2
  <1>2. CASE Reserve(t)
    BY <1>2, ReserveKeeps
  <1>3. CASE CancelTransfer(t)
    <2>1. HistoryFinal' /\ ReservationsMatch'
      BY <1>3, SettleKeeps DEF CancelTransfer, FinalStates
    <2>2. starter[t] \notin Early /\ starter' = starter
      BY <1>3 DEF CancelTransfer, Early
    <2>3. ASSUME NEW u \in Transfers \ {t}
          PROVE  state'[u] = state[u] /\ relay'[u].pc = relay[u].pc
      BY <1>3 DEF CancelTransfer, Settle, Hold, Inductive, TypeOK, TableOK, RelayOK
    <2>4. QED
      BY <1>3, <2>1, <2>2, <2>3, OrderKept DEF CancelTransfer
  <1>4. QED
    BY <1>1, <1>2, <1>3 DEF StartStep

\* A step under relayMu that leaves the table alone.
LEMMA RelayOnlyKeeps ==
  ASSUME Inductive, NEW t \in Transfers, relay[t].pc # "free",
         UNCHANGED <<table, ends>>,
         \/ Release(t)
         \/ UNCHANGED starter /\ \E next : relay' = [relay EXCEPT ![t].pc = next]
  PROVE  StartOrder' /\ HistoryFinal' /\ ReservationsMatch'
  <1>1. HistoryFinal' /\ ReservationsMatch'
    BY TableKept
  <1>2. starter[t] \notin Early
    BY PastReservation
  <1>3. starter'[t] \notin Early
    BY <1>2 DEF Release, Inductive, TypeOK, StarterOK, Early
  <1>4. ASSUME NEW u \in Transfers \ {t}
        PROVE  starter'[u] = starter[u] /\ state'[u] = state[u] /\ relay'[u].pc = relay[u].pc
    BY DEF Release, Inductive, TypeOK, StarterOK, RelayOK, table
  <1>5. QED
    BY <1>1, <1>2, <1>3, <1>4, OrderKept

LEMMA RelayKeeps ==
  ASSUME Inductive, NEW t \in Transfers, RelayStep(t)
  PROVE  StartOrder' /\ HistoryFinal' /\ ReservationsMatch'
  <1>1. ASSUME NEW step \in SendSteps, NEW s, NEW type, NEW next, SendThen(t, step, s, type, next)
        PROVE  StartOrder' /\ HistoryFinal' /\ ReservationsMatch'
    <2>1. CASE FailRelayLocked(t, "send", relay[t].by)
      BY <1>1, <2>1, FailKeeps DEF SendThen
    <2>2. CASE /\ UNCHANGED <<table, timer>>
               /\ \/ Release(t)
                  \/ relay' = [relay EXCEPT ![t].pc = next] /\ UNCHANGED starter
      BY <1>1, <2>2, RelayOnlyKeeps DEF SendThen, SendSteps
    <2>3. QED
      BY <1>1, <2>1, <2>2 DEF SendThen
  <1>2. CASE SendTargetStart(t) \/ SendSourceStart(t) \/ SendSend(t) \/ SendCommit(t)
    BY <1>1, <1>2 DEF SendTargetStart, SendSourceStart, SendSend, SendCommit, SendSteps
  <1>3. CASE SendChunk(t)
    <2>1. CASE FailRelayLocked(t, "send", relay[t].by)
      BY <1>3, <2>1, FailKeeps DEF SendChunk
    <2>2. CASE UNCHANGED <<table, timer>> /\ Release(t)
      BY <1>3, <2>2, RelayOnlyKeeps DEF SendChunk
    <2>3. QED
      BY <1>3, <2>1, <2>2 DEF SendChunk
  <1>4. CASE SendCancelSource(t) \/ SendCancelTarget(t)
    BY <1>4, RelayOnlyKeeps DEF SendCancelSource, SendCancelTarget
  <1>5. QED
    BY <1>2, <1>3, <1>4 DEF RelayStep

\* What the handlers find: a live transfer past its reservation.
LEMMA HandlingLive ==
  ASSUME Inductive, NEW t \in Transfers, Live(t)
  PROVE  state[t] \in ActiveStates /\ starter[t] \notin Early
  BY PastReservation DEF Live, ActiveStates

LEMMA BecomeReadyKeeps ==
  ASSUME Inductive, NEW s, NEW t \in Transfers, NEW ready, Live(t), BecomeReady(s, t, ready)
  PROVE  StartOrder' /\ HistoryFinal' /\ ReservationsMatch'
  <1>1. state[t] \in ActiveStates /\ starter[t] \notin Early
    BY HandlingLive
  <1>2. CASE state' = [state EXCEPT ![t] = "transferring"] /\ Hold(t, "send", s, 0)
    <2>1. HistoryFinal' /\ ReservationsMatch'
      BY <1>1, <1>2, MoveOnKeeps DEF BecomeReady, ActiveStates
    <2>2. ASSUME NEW u \in Transfers \ {t}
          PROVE  state'[u] = state[u] /\ relay'[u].pc = relay[u].pc
      BY <1>2 DEF Hold, Inductive, TypeOK, TableOK, RelayOK
    <2>3. QED
      BY <1>1, <2>1, <2>2, OrderKept DEF BecomeReady
  <1>3. CASE UNCHANGED <<state, relay>>
    BY <1>3, AsideKeeps DEF BecomeReady, table
  <1>4. QED
    BY <1>2, <1>3 DEF BecomeReady

LEMMA CoreKeeps ==
  ASSUME Inductive, NEW s \in Sessions, NEW t \in Transfers, CoreStep(s, t)
  PROVE  StartOrder' /\ HistoryFinal' /\ ReservationsMatch'
  <1>1. ASSUME NEW n \in Sizes, SourceReady(s, t, n)
        PROVE  StartOrder' /\ HistoryFinal' /\ ReservationsMatch'
    BY <1>1, BecomeReadyKeeps DEF SourceReady, Handling
  <1>2. CASE TargetReady(s, t)
    BY <1>2, BecomeReadyKeeps DEF TargetReady, Handling
  <1>3. ASSUME NEW seq \in Sizes, NEW n \in Sizes, SourceChunk(s, t, seq, n)
        PROVE  StartOrder' /\ HistoryFinal' /\ ReservationsMatch'
    <2> DEFINE by == IF s \in HTTP THEN NoSession ELSE s
    <2>1. CASE FailRelayLocked(t, "protocol", by)
      BY <1>3, <2>1, FailKeeps DEF SourceChunk
    <2>2. CASE Hold(t, "chunk", by, n) /\ UNCHANGED <<table, timer, starter>>
      <3>1. starter[t] \notin Early
        BY <1>3, HandlingLive DEF SourceChunk, Handling
      <3>2. HistoryFinal' /\ ReservationsMatch'
        BY <1>3, <2>2, TableKept DEF SourceChunk
      <3>3. ASSUME NEW u \in Transfers \ {t}
            PROVE  state'[u] = state[u] /\ relay'[u].pc = relay[u].pc
        BY <2>2 DEF Hold, Inductive, TypeOK, RelayOK, table
      <3>4. QED
        BY <1>3, <2>2, <3>1, <3>2, <3>3, OrderKept DEF SourceChunk
    <2>3. QED
      BY <1>3, <2>1, <2>2 DEF SourceChunk
  <1>4. ASSUME NEW n \in Sizes, NEW h \in Digests \cup {NoDigest}, SourceFinish(s, t, n, h)
        PROVE  StartOrder' /\ HistoryFinal' /\ ReservationsMatch'
    <2>1. CASE FailRelayLocked(t, "protocol", s)
      BY <1>4, <2>1, FailKeeps DEF SourceFinish
    <2>2. CASE /\ state' = [state EXCEPT ![t] = "verifying"]
               /\ Hold(t, "commit", s, 0)
               /\ UNCHANGED <<transfers, activeTransfer, history, cause, timer, starter>>
      <3>1. state[t] \in ActiveStates /\ starter[t] \notin Early
        BY <1>4, HandlingLive DEF SourceFinish, Handling
      <3>2. HistoryFinal' /\ ReservationsMatch'
        BY <1>4, <2>2, <3>1, MoveOnKeeps DEF SourceFinish, ActiveStates
      <3>3. ASSUME NEW u \in Transfers \ {t}
            PROVE  state'[u] = state[u] /\ relay'[u].pc = relay[u].pc
        BY <2>2 DEF Hold, Inductive, TypeOK, TableOK, RelayOK
      <3>4. QED
        BY <1>4, <2>2, <3>1, <3>2, <3>3, OrderKept DEF SourceFinish
    <2>3. QED
      BY <1>4, <2>1, <2>2 DEF SourceFinish
  <1>5. ASSUME NEW n \in Sizes, NEW h \in Digests \cup {NoDigest}, TargetFinish(s, t, n, h)
        PROVE  StartOrder' /\ HistoryFinal' /\ ReservationsMatch'
    <2>1. CASE FailTransfer(t, "protocol", s)
      BY <1>5, <2>1, FailKeeps DEF TargetFinish, FailTransfer
    <2>2. CASE Settle(t, "completed", "none") /\ UNCHANGED <<fresh, relay, starter>>
      <3>1. starter[t] \notin Early
        BY <1>5, HandlingLive DEF TargetFinish
      <3>2. HistoryFinal' /\ ReservationsMatch'
        BY <1>5, <2>2, SettleKeeps DEF TargetFinish, FinalStates
      <3>3. ASSUME NEW u \in Transfers \ {t} PROVE state'[u] = state[u]
        BY <2>2 DEF Settle, Inductive, TypeOK, TableOK
      <3>4. QED
        BY <1>5, <2>2, <3>1, <3>2, <3>3, OrderKept DEF TargetFinish
    <2>3. QED
      BY <1>5, <2>1, <2>2 DEF TargetFinish
  <1>6. CASE PeerFailed(s, t)
    BY <1>6, FailKeeps DEF PeerFailed
  <1>7. QED
    BY <1>1, <1>2, <1>3, <1>4, <1>5, <1>6 DEF CoreStep

LEMMA RegistryKeeps ==
  ASSUME Inductive, [Next]_vars
  PROVE  RegisteredByName'
  <1>1. CASE UNCHANGED session
    BY <1>1 DEF Inductive, RegisteredByName
  <1>2. ASSUME NEW s \in Sessions, Attach(s) PROVE RegisteredByName'
    BY <1>2, ConstantsAssumption DEF Attach, Inductive, TypeOK, RegistryOK, RegisteredByName
  <1>3. ASSUME NEW s \in Sessions, NEW w \in Detachers, DetachUnbind(s, w) PROVE RegisteredByName'
    BY <1>3, ConstantsAssumption DEF DetachUnbind, Inductive, TypeOK, RegistryOK, RegisteredByName
  <1>4. CASE CloseUnbind
    BY <1>4 DEF CloseUnbind, RegisteredByName
  <1>5. ASSUME NEW s \in Sessions, NEW w \in Detachers, DetachStep(s, w) PROVE UNCHANGED session
    BY <1>5 DEF DetachStep, DetachClose, DetachScan, DetachFail, registry
  <1>6. ASSUME CloseScan \/ CloseStep, ~CloseUnbind PROVE UNCHANGED session
    BY <1>6 DEF CloseScan, CloseStep, CloseFail, CloseSession, registry
  <1>7. ASSUME NEW t \in Transfers, NEW d \in Devices, ResolveSource(t, d) \/ ResolveTarget(t, d)
        PROVE  UNCHANGED session
    BY <1>7 DEF ResolveSource, ResolveTarget, registry
  <1>8. ASSUME NEW t \in Transfers, StartStep(t) \/ CancelTransfer(t) PROVE UNCHANGED session
    BY <1>8 DEF StartStep, Refuse, Reserve, StartRelay, Return, CancelTransfer, registry
  <1>9. ASSUME NEW t \in Transfers, RelayStep(t) PROVE UNCHANGED session
    BY <1>9 DEF RelayStep, SendTargetStart, SendSourceStart, SendSend, SendCommit, SendThen,
                SendChunk, SendCancelSource, SendCancelTarget, registry
  <1>10. ASSUME NEW s \in Sessions, NEW t \in Transfers, CoreStep(s, t) PROVE UNCHANGED session
    BY <1>10 DEF CoreStep, SourceReady, TargetReady, BecomeReady, SourceChunk, SourceFinish,
                 TargetFinish, PeerFailed, registry
  <1>11. ASSUME NEW t \in Transfers, GoIdle(t) \/ Expire(t) PROVE UNCHANGED session
    BY <1>11 DEF GoIdle, Expire, registry
  <1>12. ASSUME NEW s \in Sessions, ConnectionLost(s) PROVE UNCHANGED session
    BY <1>12 DEF ConnectionLost
  <1>13. ASSUME NEW t \in Transfers, LateChunk(t) PROVE UNCHANGED session
    BY <1>13 DEF LateChunk, registry
  <1>14. QED
    BY <1>1, <1>2, <1>3, <1>4, <1>5, <1>6, <1>7, <1>8, <1>9, <1>10, <1>11, <1>12, <1>13
    DEF Next, vars, registry

LEMMA NextInductive ==
  ASSUME Inductive, [Next]_vars
  PROVE  Inductive'
  <1> DEFINE Kept == StartOrder' /\ HistoryFinal' /\ ReservationsMatch'
  <1> SUFFICES Kept
    BY NextTyped, RegistryKeeps DEF Inductive
  <1>1. CASE UNCHANGED vars
    BY <1>1, AsideKeeps DEF vars
  <1>2. ASSUME NEW s \in Sessions, Attach(s) \/ ConnectionLost(s) PROVE Kept
    BY <1>2, AsideKeeps DEF Attach, ConnectionLost
  <1>3. ASSUME NEW s \in Sessions, NEW w \in Detachers, DetachUnbind(s, w) \/ DetachStep(s, w)
        PROVE  Kept
    <2>1. ASSUME NEW t \in Transfers, DetachFail(s, w, t) PROVE Kept
      BY <2>1, FailKeeps DEF DetachFail, FailTransfer
    <2>2. CASE DetachUnbind(s, w) \/ DetachClose(s, w) \/ DetachScan(s, w)
      BY <2>2, AsideKeeps DEF DetachUnbind, DetachClose, DetachScan
    <2>3. QED
      BY <1>3, <2>1, <2>2 DEF DetachStep
  <1>4. CASE CloseScan \/ CloseStep
    <2>1. ASSUME NEW t \in Transfers, CloseFail(t) PROVE Kept
      BY <2>1, FailKeeps DEF CloseFail, FailTransfer
    <2>2. CASE CloseScan \/ CloseUnbind \/ \E s \in Sessions : CloseSession(s)
      <3>1. UNCHANGED <<table, ends, starter, relay>>
        BY <2>2 DEF CloseScan, CloseUnbind, CloseSession
      <3>2. QED
        BY <3>1, AsideKeeps
    <2>3. QED
      BY <1>4, <2>1, <2>2 DEF CloseStep
  <1>5. ASSUME NEW t \in Transfers, NEW d \in Devices, ResolveSource(t, d) \/ ResolveTarget(t, d)
        PROVE  Kept
    BY <1>5, ResolveKeeps
  <1>6. ASSUME NEW t \in Transfers, StartStep(t) \/ CancelTransfer(t) PROVE Kept
    BY <1>6, StartKeeps
  <1>7. ASSUME NEW t \in Transfers, RelayStep(t) PROVE Kept
    BY <1>7, RelayKeeps
  <1>8. ASSUME NEW s \in Sessions, NEW t \in Transfers, CoreStep(s, t) PROVE Kept
    BY <1>8, CoreKeeps
  <1>9. ASSUME NEW t \in Transfers, GoIdle(t) PROVE Kept
    BY <1>9, AsideKeeps DEF GoIdle
  <1>10. ASSUME NEW t \in Transfers, Expire(t) PROVE Kept
    <2>1. CASE fresh[t]
      BY <1>10, <2>1, AsideKeeps DEF Expire
    <2>2. CASE ~fresh[t]
      BY <1>10, <2>2, FailKeeps DEF Expire
    <2>3. QED
      BY <2>1, <2>2
  <1>11. ASSUME NEW t \in Transfers, LateChunk(t) PROVE Kept
    BY <1>11, AsideKeeps DEF LateChunk
  <1>12. QED
    BY <1>1, <1>2, <1>3, <1>4, <1>5, <1>6, <1>7, <1>8, <1>9, <1>10, <1>11 DEF Next

LEMMA AlwaysInductive == Spec => []Inductive
  <1>1. Init => Inductive
    BY InitInductive
  <1>2. Inductive /\ [Next]_vars => Inductive'
    BY NextInductive
  <1>3. QED
    BY <1>1, <1>2, PTL DEF Spec

\* At every moment, for any devices, sessions and transfers, the reservations are
\* those of the live transfers, and so two live transfers share no device.
THEOREM ReservationsCorrect == Spec => []ReservationsMatch
  <1>1. Inductive => ReservationsMatch
    BY DEF Inductive
  <1>2. QED
    BY <1>1, AlwaysInductive, PTL

----------------------------------------------------------------------------
(* Final states. *)

LEMMA SettleIsOnce ==
  ASSUME Inductive, NEW t \in Transfers, NEW final, NEW why, Live(t), Settle(t, final, why),
         NEW u \in Transfers, state[u] \in FinalStates
  PROVE  state'[u] = state[u] /\ cause'[u] = cause[u]
  BY DEF Inductive, TypeOK, TableOK, Live, Settle, ActiveStates, FinalStates

LEMMA FailIsOnce ==
  ASSUME Inductive, NEW t \in Transfers, NEW why, NEW by, FailRelayLocked(t, why, by),
         NEW u \in Transfers, state[u] \in FinalStates
  PROVE  state'[u] = state[u] /\ cause'[u] = cause[u]
  BY SettleIsOnce DEF FailRelayLocked, table

LEMMA NextKeepsFinal ==
  ASSUME Inductive, [Next]_vars, NEW u \in Transfers, state[u] \in FinalStates
  PROVE  state'[u] = state[u] /\ cause'[u] = cause[u]
  <1> DEFINE Same == state'[u] = state[u] /\ cause'[u] = cause[u]
  <1>1. CASE UNCHANGED <<state, cause>>
    BY <1>1
  <1>2. ASSUME NEW s \in Sessions, Attach(s) \/ ConnectionLost(s) PROVE Same
    BY <1>2 DEF Attach, ConnectionLost, table
  <1>3. ASSUME NEW s \in Sessions, NEW w \in Detachers, DetachUnbind(s, w) \/ DetachStep(s, w)
        PROVE  Same
    <2>1. ASSUME NEW t \in Transfers, DetachFail(s, w, t) PROVE Same
      BY <2>1, FailIsOnce DEF DetachFail, FailTransfer
    <2>2. QED
      BY <1>3, <2>1 DEF DetachStep, DetachUnbind, DetachClose, DetachScan, table
  <1>4. CASE CloseScan \/ CloseStep
    <2>1. ASSUME NEW t \in Transfers, CloseFail(t) PROVE Same
      BY <2>1, FailIsOnce DEF CloseFail, FailTransfer
    <2>2. QED
      BY <1>4, <2>1 DEF CloseStep, CloseScan, CloseUnbind, CloseSession, table
  <1>5. ASSUME NEW t \in Transfers, NEW d \in Devices, ResolveSource(t, d) \/ ResolveTarget(t, d)
        PROVE  Same
    BY <1>5 DEF ResolveSource, ResolveTarget, table
  <1>6. ASSUME NEW t \in Transfers, StartStep(t) \/ CancelTransfer(t) PROVE Same
    <2>1. CASE Reserve(t)
      <3>1. state[t] = "none" /\ cause' = cause
        BY <2>1 DEF Reserve, Inductive, StartOrder, Early
      <3>2. u # t
        BY <3>1 DEF FinalStates
      <3>3. QED
        BY <2>1, <3>1, <3>2 DEF Reserve, Inductive, TypeOK, TableOK
    <2>2. CASE CancelTransfer(t)
      BY <2>2, SettleIsOnce DEF CancelTransfer
    <2>3. QED
      BY <1>6, <2>1, <2>2 DEF StartStep, Refuse, StartRelay, Return, table
  <1>7. ASSUME NEW t \in Transfers, RelayStep(t) PROVE Same
    <2>1. CASE FailRelayLocked(t, "send", relay[t].by)
      BY <2>1, FailIsOnce
    <2>2. CASE UNCHANGED table
      BY <2>2 DEF table
    <2>3. QED
      BY <1>7, <2>1, <2>2 DEF RelayStep, SendTargetStart, SendSourceStart, SendSend, SendCommit,
         SendThen, SendChunk, SendCancelSource, SendCancelTarget
  <1>8. ASSUME NEW s \in Sessions, NEW t \in Transfers, CoreStep(s, t) PROVE Same
    <2>1. ASSUME NEW by, FailRelayLocked(t, "protocol", by) \/ FailRelayLocked(t, "peer", by)
          PROVE  Same
      BY <2>1, FailIsOnce
    <2>2. ASSUME Live(t), NEW next, state' = [state EXCEPT ![t] = next], UNCHANGED cause
          PROVE  Same
      <3>1. u # t
        BY <2>2 DEF Live, ActiveStates, FinalStates
      <3>2. QED
        BY <2>2, <3>1 DEF Inductive, TypeOK, TableOK
    <2>3. ASSUME Live(t), Settle(t, "completed", "none") PROVE Same
      BY <2>3, SettleIsOnce
    <2>4. ASSUME NEW ready, Live(t), BecomeReady(s, t, ready) PROVE Same
      BY <2>2, <2>4 DEF BecomeReady
    <2>5. ASSUME NEW n \in Sizes, SourceReady(s, t, n) PROVE Same
      BY <2>4, <2>5 DEF SourceReady, Handling
    <2>6. CASE TargetReady(s, t)
      BY <2>4, <2>6 DEF TargetReady, Handling
    <2>7. ASSUME NEW seq \in Sizes, NEW n \in Sizes, SourceChunk(s, t, seq, n) PROVE Same
      BY <2>1, <2>7 DEF SourceChunk, table
    <2>8. ASSUME NEW n \in Sizes, NEW h \in Digests \cup {NoDigest}, SourceFinish(s, t, n, h)
          PROVE  Same
      BY <2>1, <2>2, <2>8 DEF SourceFinish, Handling
    <2>9. ASSUME NEW n \in Sizes, NEW h \in Digests \cup {NoDigest}, TargetFinish(s, t, n, h)
          PROVE  Same
      BY <2>1, <2>3, <2>9 DEF TargetFinish, FailTransfer
    <2>10. CASE PeerFailed(s, t)
      BY <2>1, <2>10 DEF PeerFailed
    <2>11. QED
      BY <1>8, <2>5, <2>6, <2>7, <2>8, <2>9, <2>10 DEF CoreStep
  <1>9. ASSUME NEW t \in Transfers, GoIdle(t) \/ Expire(t) PROVE Same
    BY <1>9, FailIsOnce DEF GoIdle, Expire, table
  <1>10. ASSUME NEW t \in Transfers, LateChunk(t) PROVE Same
    BY <1>10 DEF LateChunk, table
  <1>11. QED
    BY <1>1, <1>2, <1>3, <1>4, <1>5, <1>6, <1>7, <1>8, <1>9, <1>10 DEF Next, vars, table

\* No step of any goroutine changes a final state or the error recorded with it.
THEOREM FinalityCorrect == Spec => FinalIsForever
  <1>1. Inductive /\ [Next]_vars =>
          [\A t \in Transfers : state[t] \in FinalStates =>
              state'[t] = state[t] /\ cause'[t] = cause[t]]_vars
    BY NextKeepsFinal
  <1>2. QED
    BY <1>1, AlwaysInductive, PTL DEF Spec, FinalIsForever

----------------------------------------------------------------------------
(* The bound of the table.  Pruning takes final entries only, so the table may *)
(* exceed its limit; then all of its entries are live.  The invariant is that  *)
(* "history" lists the entries that are not live, each once.  Live entries     *)
(* reserve two devices each and share none, which bounds them by the devices.  *)

Listed(t) == \E i \in DOMAIN history : history[i] = t

HistoryExact ==
    /\ \A t \in transfers : state[t] \in ActiveStates \/ Listed(t)
    /\ \A i \in DOMAIN history : history[i] \in transfers
    /\ \A i, j \in DOMAIN history : history[i] = history[j] => i = j

----------------------------------------------------------------------------
(* A step leaves the table alone, ends one transfer or reserves for one.    *)

Calm ==
    /\ UNCHANGED <<transfers, history>>
    /\ \A u \in Transfers : state[u] \in ActiveStates => state'[u] \in ActiveStates

Ends(t) ==
    /\ Live(t)
    /\ UNCHANGED transfers
    /\ history' = Append(history, t)
    /\ \A u \in Transfers \ {t} : state'[u] = state[u]

Kind == Calm \/ (\E t \in Transfers : Ends(t)) \/ (\E t \in Transfers : Reserve(t))

LEMMA TableAlone ==
  ASSUME UNCHANGED table
  PROVE  Kind
  BY DEF table, Kind, Calm

LEMMA SettleEnds ==
  ASSUME Inductive, NEW t \in Transfers, NEW final, NEW why, Live(t), Settle(t, final, why)
  PROVE  Kind
  BY DEF Settle, Inductive, TypeOK, TableOK, Ends, Kind

LEMMA FailEnds ==
  ASSUME Inductive, NEW t \in Transfers, NEW why, NEW by, FailRelayLocked(t, why, by)
  PROVE  Kind
  BY SettleEnds, TableAlone DEF FailRelayLocked

LEMMA ActiveIsCalm ==
  ASSUME Inductive, NEW t \in Transfers, NEW next \in ActiveStates,
         state' = [state EXCEPT ![t] = next], UNCHANGED <<transfers, history>>
  PROVE  Kind
  BY DEF Inductive, TypeOK, TableOK, Kind, Calm

LEMMA CoreStepKinds ==
  ASSUME Inductive, NEW s \in Sessions, NEW t \in Transfers, CoreStep(s, t)
  PROVE  Kind
  <1>1. ASSUME NEW by, FailRelayLocked(t, "protocol", by) \/ FailRelayLocked(t, "peer", by)
        PROVE  Kind
    BY <1>1, FailEnds
  <1>2. ASSUME NEW ready, BecomeReady(s, t, ready) PROVE Kind
    BY <1>2, ActiveIsCalm, TableAlone DEF BecomeReady, ActiveStates, table
  <1>3. ASSUME NEW n \in Sizes, SourceReady(s, t, n) PROVE Kind
    BY <1>2, <1>3 DEF SourceReady
  <1>4. CASE TargetReady(s, t)
    BY <1>2, <1>4 DEF TargetReady
  <1>5. ASSUME NEW seq \in Sizes, NEW n \in Sizes, SourceChunk(s, t, seq, n) PROVE Kind
    BY <1>1, <1>5, TableAlone DEF SourceChunk
  <1>6. ASSUME NEW n \in Sizes, NEW h \in Digests \cup {NoDigest}, SourceFinish(s, t, n, h)
        PROVE  Kind
    BY <1>1, <1>6, ActiveIsCalm DEF SourceFinish, ActiveStates
  <1>7. ASSUME NEW n \in Sizes, NEW h \in Digests \cup {NoDigest}, TargetFinish(s, t, n, h)
        PROVE  Kind
    BY <1>1, <1>7, SettleEnds DEF TargetFinish, FailTransfer
  <1>8. CASE PeerFailed(s, t)
    BY <1>1, <1>8 DEF PeerFailed
  <1> QED
    BY <1>3, <1>4, <1>5, <1>6, <1>7, <1>8 DEF CoreStep

LEMMA StepKinds ==
  ASSUME Inductive, [Next]_vars
  PROVE  Kind
  <1>1. CASE UNCHANGED table
    BY <1>1, TableAlone
  <1>2. ASSUME NEW s \in Sessions, Attach(s) \/ ConnectionLost(s) PROVE Kind
    BY <1>1, <1>2 DEF Attach, ConnectionLost
  <1>3. ASSUME NEW s \in Sessions, NEW w \in Detachers, DetachUnbind(s, w) \/ DetachStep(s, w)
        PROVE  Kind
    BY <1>1, <1>3, FailEnds
       DEF DetachStep, DetachUnbind, DetachClose, DetachScan, DetachFail, FailTransfer
  <1>4. CASE CloseScan \/ CloseStep
    BY <1>1, <1>4, FailEnds
       DEF CloseStep, CloseScan, CloseUnbind, CloseSession, CloseFail, FailTransfer
  <1>5. ASSUME NEW t \in Transfers, NEW d \in Devices, ResolveSource(t, d) \/ ResolveTarget(t, d)
        PROVE  Kind
    BY <1>1, <1>5 DEF ResolveSource, ResolveTarget
  <1>6. ASSUME NEW t \in Transfers, StartStep(t) \/ CancelTransfer(t) PROVE Kind
    <2>1. CASE Reserve(t)
      BY <2>1 DEF Kind
    <2>2. CASE CancelTransfer(t)
      BY <2>2, SettleEnds DEF CancelTransfer
    <2> QED
      BY <1>1, <1>6, <2>1, <2>2 DEF StartStep, Refuse, StartRelay, Return
  <1>7. ASSUME NEW t \in Transfers, RelayStep(t) PROVE Kind
    BY <1>1, <1>7, FailEnds
       DEF RelayStep, SendTargetStart, SendSourceStart, SendSend, SendCommit, SendThen, SendChunk,
           SendCancelSource, SendCancelTarget
  <1>8. ASSUME NEW t \in Transfers, GoIdle(t) \/ Expire(t) PROVE Kind
    BY <1>1, <1>8, FailEnds DEF GoIdle, Expire
  <1>9. ASSUME NEW t \in Transfers, LateChunk(t) PROVE Kind
    BY <1>1, <1>9 DEF LateChunk
  <1> QED
    BY <1>1, <1>2, <1>3, <1>4, <1>5, <1>6, <1>7, <1>8, <1>9, CoreStepKinds DEF Next, vars

----------------------------------------------------------------------------
(* Live transfers and their devices. *)

LEMMA LiveHaveTwo ==
  ASSUME Inductive, NEW t \in Transfers, state[t] \in ActiveStates
  PROVE  /\ SourceDevice(t) \in Devices /\ TargetDevice(t) \in Devices
         /\ SourceDevice(t) # TargetDevice(t)
         /\ activeTransfer[SourceDevice(t)] = t /\ activeTransfer[TargetDevice(t)] = t
  <1>1. starter[t] \notin Early
    BY DEF Inductive, StartOrder, ActiveStates
  <1>2. source[t] \in Sessions /\ target[t] \in Sessions /\ SourceDevice(t) # TargetDevice(t)
    BY <1>1 DEF Inductive, StartOrder, Early
  <1>3. SourceDevice(t) \in Devices /\ TargetDevice(t) \in Devices
    BY <1>2, ConstantsAssumption DEF SourceDevice, TargetDevice
  <1>4. SourceDevice(t) \in Parties(t) /\ TargetDevice(t) \in Parties(t)
    BY DEF Parties
  <1> QED
    BY <1>2, <1>3, <1>4 DEF Inductive, ReservationsMatch

\* Two devices for each live transfer.
TwoEach ==
    \A A \in SUBSET Transfers : (\A t \in A : state[t] \in ActiveStates)
        => 2 * Cardinality(A) <= Cardinality(Devices)

LEMMA LiveBounded == Inductive => TwoEach
  <1> SUFFICES ASSUME Inductive, NEW A \in SUBSET Transfers, \A t \in A : state[t] \in ActiveStates
               PROVE  2 * Cardinality(A) <= Cardinality(Devices)
    BY DEF TwoEach
  <1> DEFINE From == [t \in A |-> SourceDevice(t)]
             To   == [t \in A |-> TargetDevice(t)]
             Sources == {d \in Devices : \E t \in A : d = SourceDevice(t)}
             Targets == {d \in Devices : \E t \in A : d = TargetDevice(t)}
  <1>1. IsFiniteSet(Sources) /\ IsFiniteSet(Targets) /\ IsFiniteSet(Devices)
    BY DevicesAssumption, FS_Subset DEF DevicesAssumption
  <1>2. \A t \in A : /\ SourceDevice(t) \in Devices /\ TargetDevice(t) \in Devices
                     /\ SourceDevice(t) # TargetDevice(t)
                     /\ activeTransfer[SourceDevice(t)] = t /\ activeTransfer[TargetDevice(t)] = t
    BY LiveHaveTwo
  <1>3. Sources \cap Targets = {}
    BY <1>2
  <1>4. From \in Injection(A, Sources)
    BY <1>2 DEF Injection, IsInjective
  <1>5. To \in Injection(A, Targets)
    BY <1>2 DEF Injection, IsInjective
  <1> HIDE DEF From, To, Sources, Targets
  <1>6. Cardinality(A) <= Cardinality(Sources)
    BY <1>1, <1>4, FS_Injection
  <1>7. Cardinality(A) <= Cardinality(Targets) /\ IsFiniteSet(A)
    BY <1>1, <1>5, FS_Injection
  <1>8. IsFiniteSet(Sources \cup Targets)
        /\ Cardinality(Sources \cup Targets) = Cardinality(Sources) + Cardinality(Targets)
    <2>1. Cardinality({}) = 0
      BY FS_EmptySet
    <2>2. Cardinality(Sources \cap Targets) = 0
      BY <1>3, <2>1
    <2> QED
      BY <1>1, <2>2, FS_Union, FS_CardinalityType
  <1>9. Cardinality(Sources \cup Targets) <= Cardinality(Devices)
    BY <1>1, FS_Subset DEF Sources, Targets
  <1> QED
    BY <1>1, <1>6, <1>7, <1>8, <1>9, FS_CardinalityType

LEMMA LiveBoundedNext == Inductive' => TwoEach'
  BY LiveBounded, PTL

----------------------------------------------------------------------------
(* The history stays exact. *)

LEMMA EndsExact ==
  ASSUME Inductive, HistoryExact, NEW t \in Transfers, Ends(t)
  PROVE  HistoryExact'
  <1>1. history \in Seq(Transfers) /\ t \in transfers /\ transfers \subseteq Transfers
    BY DEF Inductive, TypeOK, TableOK, Ends, Live
  <1>2. \A i \in DOMAIN history : history[i] # t
    BY DEF Ends, Live, Inductive, HistoryFinal, ActiveStates, FinalStates
  <1>3. /\ DOMAIN history' = DOMAIN history \cup {Len(history) + 1}
        /\ \A i \in DOMAIN history : history'[i] = history[i]
        /\ history'[Len(history) + 1] = t
        /\ Len(history) + 1 \notin DOMAIN history
    BY <1>1 DEF Ends
  <1>4. \A u \in transfers : state'[u] \in ActiveStates \/ Listed(u)'
    <2>1. ASSUME NEW u \in transfers, u # t PROVE state'[u] \in ActiveStates \/ Listed(u)'
      BY <1>1, <1>3, <2>1 DEF HistoryExact, Listed, Ends
    <2>2. Listed(t)'
      BY <1>3 DEF Listed
    <2> QED
      BY <2>1, <2>2
  <1>5. transfers' = transfers
    BY DEF Ends
  <1> HIDE DEF Listed
  <1> QED
    BY <1>1, <1>2, <1>3, <1>4, <1>5 DEF HistoryExact

LEMMA ReserveExact ==
  ASSUME Inductive, HistoryExact, NEW t \in Transfers, Reserve(t)
  PROVE  HistoryExact'
  <1>1. history \in Seq(Transfers) /\ transfers \subseteq Transfers
        /\ state \in [Transfers -> {"none"} \cup ActiveStates \cup FinalStates]
    BY DEF Inductive, TypeOK, TableOK
  <1>2. PruneCount \in 0..Len(history)
    BY PruneCountBounded DEF Inductive
  <1>3. /\ \A i \in DOMAIN history' :
              i + PruneCount \in DOMAIN history /\ history'[i] = history[i + PruneCount]
        /\ \A i \in DOMAIN history :
              i \notin 1..PruneCount => i - PruneCount \in DOMAIN history'
                                        /\ history'[i - PruneCount] = history[i]
        /\ DOMAIN history' \subseteq Nat /\ DOMAIN history \subseteq Nat
    BY <1>1, <1>2 DEF Reserve
  <1>4. transfers' = (transfers \ {history[i] : i \in 1..PruneCount}) \cup {t}
    BY DEF Reserve
  <1>5. state'[t] \in ActiveStates /\ \A u \in Transfers \ {t} : state'[u] = state[u]
    BY <1>1 DEF Reserve, ActiveStates
  <1>6. 1..PruneCount \subseteq DOMAIN history
    BY <1>1, <1>2
  <1>7. ASSUME NEW u \in transfers' PROVE state'[u] \in ActiveStates \/ Listed(u)'
    <2>1. CASE u = t
      BY <1>5, <2>1
    <2>2. CASE u # t /\ Listed(u)
      <3>1. PICK i \in DOMAIN history : history[i] = u
        BY <2>2 DEF Listed
      <3>2. i \notin 1..PruneCount
        BY <1>4, <2>2, <3>1
      <3> QED
        BY <1>3, <3>1, <3>2 DEF Listed
    <2>3. CASE u # t /\ state[u] \in ActiveStates
      BY <1>1, <1>4, <1>5, <2>3
    <2> QED
      BY <1>4, <2>1, <2>2, <2>3 DEF HistoryExact
  <1>8. \A i, j \in DOMAIN history' : history'[i] = history'[j] => i = j
    BY <1>2, <1>3 DEF HistoryExact
  <1>9. ASSUME NEW i \in DOMAIN history' PROVE history'[i] \in transfers'
    <2>1. i + PruneCount \in DOMAIN history /\ i + PruneCount \notin 1..PruneCount
          /\ history'[i] = history[i + PruneCount]
      BY <1>1, <1>2, <1>3 DEF Reserve
    <2>2. \A j \in 1..PruneCount : history[j] # history[i + PruneCount]
      BY <1>6, <2>1 DEF HistoryExact
    <2> QED
      BY <1>4, <2>1, <2>2 DEF HistoryExact
  <1> QED
    BY <1>7, <1>8, <1>9 DEF HistoryExact

LEMMA ExactPreserved ==
  ASSUME Inductive, HistoryExact, [Next]_vars
  PROVE  HistoryExact'
  <1>1. CASE Calm
    BY <1>1 DEF Calm, HistoryExact, Listed, Inductive, TypeOK, TableOK
  <1> QED
    BY <1>1, EndsExact, ReserveExact, StepKinds DEF Kind

----------------------------------------------------------------------------
(* The table stays within its bound. *)

\* Pruning takes PruneCount different entries.
LEMMA PrunedTable ==
  ASSUME Inductive, HistoryExact, NEW t \in Transfers, Reserve(t)
  PROVE  /\ Cardinality(transfers) \in Nat /\ Cardinality(transfers') \in Nat
         /\ Cardinality(transfers') <= Cardinality(transfers) - PruneCount + 1
  <1> DEFINE Pruned == {history[i] : i \in 1..PruneCount}
  <1>1. IsFiniteSet(transfers) /\ Cardinality(transfers) \in Nat
    BY ConstantsAssumption, FS_Subset, FS_CardinalityType DEF Inductive, TypeOK, TableOK
  <1>2. PruneCount \in 0..Len(history) /\ Len(history) \in Nat /\ DOMAIN history = 1..Len(history)
    BY PruneCountBounded DEF Inductive, TypeOK, TableOK
  <1>3. Pruned \subseteq transfers /\ IsFiniteSet(Pruned)
    <2>1. Pruned \subseteq transfers
      BY <1>2 DEF HistoryExact
    <2> QED
      BY <1>1, <2>1, FS_Subset
  <1>4. Cardinality(Pruned) >= PruneCount
    <2> DEFINE f == [i \in 1..PruneCount |-> history[i]]
    <2>1. f \in Injection(1..PruneCount, Pruned)
      BY <1>2 DEF Injection, IsInjective, HistoryExact
    <2>2. Cardinality(1..PruneCount) = PruneCount
      <3>1. 1 \in Int /\ PruneCount \in Int
        BY <1>2
      <3>2. Cardinality(1..PruneCount) = IF 1 > PruneCount THEN 0 ELSE PruneCount - 1 + 1
        BY <3>1, FS_Interval
      <3> QED
        BY <1>2, <3>2
    <2> HIDE DEF f, Pruned
    <2>3. Cardinality(1..PruneCount) <= Cardinality(Pruned)
      BY <1>3, <2>1, FS_Injection
    <2>4. Cardinality(Pruned) \in Nat
      BY <1>3, FS_CardinalityType
    <2> QED
      BY <1>2, <2>2, <2>3, <2>4
  <1> HIDE DEF Pruned
  <1>5. /\ IsFiniteSet(transfers \ Pruned)
        /\ Cardinality(transfers \ Pruned) = Cardinality(transfers) - Cardinality(Pruned)
    <2>1. transfers \cap Pruned = Pruned
      BY <1>3
    <2>2. /\ IsFiniteSet(transfers \ Pruned)
          /\ Cardinality(transfers \ Pruned)
               = Cardinality(transfers) - Cardinality(transfers \cap Pruned)
      BY <1>1, FS_Difference
    <2> QED
      BY <2>1, <2>2
  <1>6. transfers' = (transfers \ Pruned) \cup {t}
    BY DEF Reserve, Pruned
  <1>7. /\ IsFiniteSet(transfers')
        /\ \/ Cardinality(transfers') = Cardinality(transfers \ Pruned)
           \/ Cardinality(transfers') = Cardinality(transfers \ Pruned) + 1
    BY <1>5, <1>6, FS_AddElement
  <1>8. Cardinality(transfers') \in Nat /\ Cardinality(Pruned) \in Nat
    BY <1>3, <1>7, FS_CardinalityType
  <1> QED
    BY <1>1, <1>2, <1>4, <1>5, <1>7, <1>8

LEMMA ReserveBounded ==
  ASSUME Inductive, Inductive', HistoryExact, HistoryExact', NEW t \in Transfers, Reserve(t)
  PROVE  TableBounded'
  <1>1. /\ Cardinality(transfers) \in Nat /\ Cardinality(transfers') \in Nat
        /\ Cardinality(transfers') <= Cardinality(transfers) - PruneCount + 1
    BY PrunedTable
  <1>2. Len(history) \in Nat /\ MaxHistory \in Nat \ {0}
    BY ConstantsAssumption DEF Inductive, TypeOK, TableOK
  <1>3. CASE Cardinality(transfers) < MaxHistory
    <2>1. PruneCount = 0
      BY <1>3 DEF PruneCount
    <2> QED
      BY <1>1, <1>2, <1>3, <2>1 DEF TableBounded
  <1>4. CASE /\ Cardinality(transfers) >= MaxHistory
             /\ Cardinality(transfers) + 1 - MaxHistory <= Len(history)
    <2>1. PruneCount = Cardinality(transfers) + 1 - MaxHistory
      BY <1>1, <1>2, <1>4 DEF PruneCount
    <2> QED
      BY <1>1, <1>2, <1>4, <2>1 DEF TableBounded
  <1>5. CASE /\ Cardinality(transfers) >= MaxHistory
             /\ ~(Cardinality(transfers) + 1 - MaxHistory <= Len(history))
    <2>1. PruneCount = Len(history)
      BY <1>1, <1>2, <1>5 DEF PruneCount
    <2>2. history' = <<>>
      BY <2>1 DEF Reserve, Inductive, TypeOK, TableOK
    <2>3. transfers' \in SUBSET Transfers /\ \A u \in transfers' : state'[u] \in ActiveStates
      BY <2>2 DEF HistoryExact, Listed, Inductive, TypeOK, TableOK
    <2>4. 2 * Cardinality(transfers') <= Cardinality(Devices)
      BY <2>3, LiveBoundedNext DEF TwoEach
    <2> QED
      BY <2>4 DEF TableBounded
  <1> QED
    BY <1>1, <1>2, <1>3, <1>4, <1>5

\* The table of transfers is bounded: by maxTransferHistory, or while more are live
\* than that by the devices, two for each (pruneTransferHistoryLocked).
THEOREM TableStaysBounded == Spec => []TableBounded
  <1>1. Init => HistoryExact /\ TableBounded
    <2>1. Cardinality({}) = 0
      BY FS_EmptySet
    <2>2. ASSUME Init PROVE HistoryExact
      BY <2>2 DEF Init, HistoryExact
    <2>3. ASSUME Init PROVE TableBounded
      BY <2>1, <2>3, ConstantsAssumption DEF Init, TableBounded
    <2> QED
      BY <2>2, <2>3
  <1>2. Inductive /\ HistoryExact /\ TableBounded /\ [Next]_vars => (HistoryExact /\ TableBounded)'
    <2> SUFFICES ASSUME Inductive, HistoryExact, TableBounded, [Next]_vars
                 PROVE  HistoryExact' /\ TableBounded'
      OBVIOUS
    <2>1. HistoryExact' /\ Inductive'
      BY ExactPreserved, NextInductive
    <2>2. CASE UNCHANGED transfers
      BY <2>1, <2>2 DEF TableBounded
    <2>3. ASSUME NEW t \in Transfers, Reserve(t) PROVE TableBounded'
      BY <2>1, <2>3, ReserveBounded
    <2>4. UNCHANGED transfers \/ \E t \in Transfers : Reserve(t)
      BY StepKinds DEF Kind, Calm, Ends
    <2> QED
      BY <2>1, <2>2, <2>3, <2>4
  <1> QED
    BY <1>1, <1>2, AlwaysInductive, PTL DEF Spec
=============================================================================
