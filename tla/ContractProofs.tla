--------------------------- MODULE ContractProofs ---------------------------
(***************************************************************************)
(* The relay implements FileTransfer, for every value of the constants:     *)
(* each section of each goroutine is a step of the contract or invisible.   *)
(*                                                                         *)
(* Which step it is depends on the state and on the reservations, where     *)
(* ReservationsMatch does the work, and on the progress that was recorded:  *)
(* the size shows exactly when the transfer begins, a chunk is counted only *)
(* while it moves, and verification starts with all of the bytes.           *)
(***************************************************************************)
EXTENDS DeviceTransfersProofs

BothReady(u) == prog[u].sourceReady /\ prog[u].targetReady

ProgressAt(u) ==
    /\ state[u] \in {"none", "preparing"} => ~BothReady(u)
    /\ state[u] \in {"transferring", "verifying"} => BothReady(u)
    /\ state[u] = "verifying" => prog[u].Transferred = prog[u].Size
    /\ relay[u].pc = "chunk" =>
          /\ state[u] = "transferring"
          /\ relay[u].len > 0
          /\ prog[u].Transferred + relay[u].len <= prog[u].Size

ProgressInv == \A u \in Transfers : ProgressAt(u)

Visible == Contract!vars
ContractStep == [Contract!Next]_Visible

----------------------------------------------------------------------------
(* The pieces of steps, as the contract sees them. *)

LEMMA Typed ==
  ASSUME Inductive
  PROVE  /\ relay \in [Transfers -> [pc : SendSteps \cup {"free"},
                                     by : Sessions \cup {NoSession}, len : Nat]]
         /\ state \in [Transfers -> {"none"} \cup ActiveStates \cup FinalStates]
         /\ activeTransfer \in [Devices -> Transfers \cup {NoTransfer}]
         /\ prog \in [Transfers -> [Size : Nat, Transferred : Nat, nextSeq : Nat,
                                    SHA256 : Digests \cup {NoDigest},
                                    sourceReady : BOOLEAN, targetReady : BOOLEAN]]
  BY DEF Inductive, TypeOK, RelayOK, TableOK, WorkOK

LEMMA Invisible ==
  ASSUME UNCHANGED <<state, activeTransfer, prog>>
  PROVE  ContractStep
  BY DEF ContractStep, Visible, Contract!vars, SizeSeen

\* A section that leaves states and progress alone and takes no chunk.
LEMMA CalmProgress ==
  ASSUME ProgressInv, UNCHANGED <<state, prog>>,
         \A u \in Transfers : relay'[u].pc = "chunk" => relay'[u] = relay[u]
  PROVE  ProgressInv'
  BY DEF ProgressInv, ProgressAt, BothReady

LEMMA EndHolders ==
  ASSUME Inductive, NEW t \in Transfers, Live(t), NEW final, NEW why, Settle(t, final, why)
  PROVE  activeTransfer' = [d \in Devices |-> IF activeTransfer[d] = t THEN NoTransfer
                                              ELSE activeTransfer[d]]
  <1>1. \A d \in Devices : activeTransfer[d] = t => d \in Parties(t)
    BY DEF Inductive, ReservationsMatch
  <1> QED
    BY <1>1 DEF Settle

LEMMA SettleIsAbort ==
  ASSUME Inductive, NEW t \in Transfers, Live(t), NEW final \in {"failed", "cancelled"}, NEW why,
         Settle(t, final, why), UNCHANGED prog
  PROVE  ContractStep
  <1>1. Contract!End(t, final)
    BY EndHolders DEF Contract!End, Settle, SizeSeen
  <1>2. Contract!Abort(t)
    BY <1>1 DEF Contract!Abort, Contract!Underway, Live, ActiveStates
  <1> QED
    BY <1>2 DEF ContractStep, Contract!Next

LEMMA SettleProgress ==
  ASSUME Inductive, ProgressInv, NEW t \in Transfers, NEW final \in FinalStates, NEW why,
         Settle(t, final, why), UNCHANGED prog,
         relay'[t].pc # "chunk", \A u \in Transfers \ {t} : relay'[u] = relay[u]
  PROVE  ProgressInv'
  <1>1. state'[t] = final /\ \A u \in Transfers \ {t} : state'[u] = state[u]
    BY Typed DEF Settle
  <1>2. ProgressAt(t)'
    BY <1>1 DEF ProgressAt, FinalStates
  <1>3. \A u \in Transfers \ {t} : ProgressAt(u)'
    BY <1>1 DEF ProgressInv, ProgressAt, BothReady
  <1> QED
    BY <1>2, <1>3 DEF ProgressInv

LEMMA FailRefines ==
  ASSUME Inductive, ProgressInv, NEW t \in Transfers, NEW why, NEW by,
         FailRelayLocked(t, why, by), UNCHANGED prog
  PROVE  ContractStep /\ ProgressInv'
  <1>1. CASE Live(t)
    <2>1. Settle(t, "failed", why)
      BY <1>1 DEF FailRelayLocked
    <2>2. relay'[t].pc = "cancelSource" /\ \A u \in Transfers \ {t} : relay'[u] = relay[u]
      BY <1>1, Typed DEF FailRelayLocked, Hold
    <2> QED
      BY <1>1, <2>1, <2>2, SettleIsAbort, SettleProgress DEF FinalStates
  <1>2. CASE ~Live(t)
    <2>1. UNCHANGED <<state, activeTransfer>>
      BY <1>2 DEF FailRelayLocked, table
    <2>2. relay'[t].pc = "free" /\ \A u \in Transfers \ {t} : relay'[u] = relay[u]
      BY <1>2, Typed DEF FailRelayLocked, Release, Unheld
    <2> QED
      BY <2>1, <2>2, Invisible, CalmProgress
  <1> QED
    BY <1>1, <1>2

\* relayMu is released, or kept for the next message.
LEMMA QuietRefines ==
  ASSUME Inductive, ProgressInv, NEW t \in Transfers, UNCHANGED <<state, activeTransfer, prog>>,
         \/ UNCHANGED relay \/ Release(t)
         \/ \E step, by, len : step # "chunk" /\ Hold(t, step, by, len)
         \/ \E step : step # "chunk" /\ relay' = [relay EXCEPT ![t].pc = step]
  PROVE  ContractStep /\ ProgressInv'
  <1>1. \A u \in Transfers : relay'[u].pc = "chunk" => relay'[u] = relay[u]
    <2>1. CASE UNCHANGED relay
      BY <2>1
    <2>2. CASE Release(t)
      BY <2>2, Typed DEF Release, Unheld
    <2>3. ASSUME NEW step, NEW by, NEW len, step # "chunk", Hold(t, step, by, len)
          PROVE  \A u \in Transfers : relay'[u].pc = "chunk" => relay'[u] = relay[u]
      BY <2>3, Typed DEF Hold
    <2>4. ASSUME NEW step, step # "chunk", relay' = [relay EXCEPT ![t].pc = step]
          PROVE  \A u \in Transfers : relay'[u].pc = "chunk" => relay'[u] = relay[u]
      BY <2>4, Typed
    <2> QED
      BY <2>1, <2>2, <2>3, <2>4
  <1> QED
    BY <1>1, Invisible, CalmProgress

----------------------------------------------------------------------------
(* Steps the contract sees. *)

LEMMA ReserveIsStart ==
  ASSUME Inductive, ProgressInv, NEW t \in Transfers, Reserve(t)
  PROVE  ContractStep /\ ProgressInv'
  <1> DEFINE from == SourceDevice(t)
             to == TargetDevice(t)
  <1>1. state[t] = "none" /\ source[t] \in Sessions /\ target[t] \in Sessions /\ from # to
    BY DEF Reserve, Inductive, StartOrder, Early
  <1>2. from \in Devices /\ to \in Devices
    BY <1>1, ConstantsAssumption DEF SourceDevice, TargetDevice
  <1>3. activeTransfer[from] = NoTransfer /\ activeTransfer[to] = NoTransfer
    BY DEF Reserve, Busy, Parties
  <1>4. activeTransfer' = [activeTransfer EXCEPT ![from] = t, ![to] = t]
    <2> HIDE DEF from, to
    <2>1. Parties(t) = {from, to}
      BY DEF Parties, from, to
    <2> QED
      BY <1>2, <2>1, Typed DEF Reserve
  <1>5. Contract!Start(t)
    <2> HIDE DEF from, to
    <2>1. UNCHANGED prog /\ state' = [state EXCEPT ![t] = "preparing"]
      BY DEF Reserve
    <2> QED
      BY <1>1, <1>2, <1>3, <1>4, <2>1 DEF Contract!Start, SizeSeen
  <1>6. ProgressInv'
    <2>1. /\ state'[t] = "preparing" /\ \A u \in Transfers \ {t} : state'[u] = state[u]
          /\ UNCHANGED <<prog, relay>>
      BY Typed DEF Reserve
    <2> QED
      BY <1>1, <2>1 DEF ProgressInv, ProgressAt, BothReady
  <1> QED
    BY <1>5, <1>6 DEF ContractStep, Contract!Next

LEMMA ReadyRefines ==
  ASSUME Inductive, ProgressInv, NEW s, NEW t \in Transfers, Unlocked(t), state[t] = "preparing",
         NEW ready \in [Size : Nat, Transferred : Nat, nextSeq : Nat,
                        SHA256 : Digests \cup {NoDigest},
                        sourceReady : BOOLEAN, targetReady : BOOLEAN],
         ready.Transferred = prog[t].Transferred,
         BecomeReady(s, t, ready)
  PROVE  ContractStep /\ ProgressInv'
  <1>1. /\ prog'[t] = ready /\ \A u \in Transfers \ {t} : prog'[u] = prog[u]
        /\ UNCHANGED activeTransfer
    BY Typed DEF BecomeReady
  <1>2. ~BothReady(t) /\ relay[t].pc = "free"
    BY DEF ProgressInv, ProgressAt, Unlocked
  <1>3. [u \in Transfers |-> prog'[u].Transferred] = [u \in Transfers |-> prog[u].Transferred]
    BY <1>1
  <1>4. CASE ready.sourceReady /\ ready.targetReady
    <2>1. /\ state' = [state EXCEPT ![t] = "transferring"]
          /\ relay'[t].pc = "send" /\ \A u \in Transfers \ {t} : relay'[u] = relay[u]
      BY <1>4, Typed DEF BecomeReady, Hold
    <2>2. SizeSeen' = [SizeSeen EXCEPT ![t] = ready.Size]
      BY <1>1, <1>4 DEF SizeSeen
    <2>3. SizeSeen'[t] = ready.Size /\ ready.Size \in Nat
      BY <2>2 DEF SizeSeen
    <2>4. Contract!Begin(t)
      BY <1>1, <1>3, <2>1, <2>2, <2>3 DEF Contract!Begin
    <2>5. state'[t] = "transferring" /\ \A u \in Transfers \ {t} : state'[u] = state[u]
      BY <2>1, Typed
    <2>6. ProgressInv'
      BY <1>1, <1>4, <2>1, <2>5 DEF ProgressInv, ProgressAt, BothReady
    <2> QED
      BY <2>4, <2>6 DEF ContractStep, Contract!Next
  <1>5. CASE ~(ready.sourceReady /\ ready.targetReady)
    <2>1. UNCHANGED <<state, relay>>
      BY <1>5 DEF BecomeReady
    <2>2. SizeSeen' = SizeSeen
      BY <1>1, <1>2, <1>5 DEF SizeSeen, BothReady
    <2>3. UNCHANGED Visible
      BY <1>1, <1>3, <2>1, <2>2 DEF Visible, Contract!vars
    <2>4. ProgressInv'
      BY <1>1, <1>2, <1>5, <2>1 DEF ProgressInv, ProgressAt, BothReady
    <2> QED
      BY <2>3, <2>4 DEF ContractStep
  <1> QED
    BY <1>4, <1>5

LEMMA ChunkIsMove ==
  ASSUME Inductive, ProgressInv, NEW t \in Transfers, SendChunk(t)
  PROVE  ContractStep /\ ProgressInv'
  <1>1. CASE FailRelayLocked(t, "send", relay[t].by) /\ UNCHANGED prog
    BY <1>1, FailRefines
  <1>2. CASE /\ prog' = [prog EXCEPT ![t] = Counted(t)] /\ Release(t)
             /\ UNCHANGED table
    <2> DEFINE n == relay[t].len
    <2>1. /\ state[t] = "transferring" /\ n \in Nat /\ n > 0
          /\ prog[t].Transferred + n <= prog[t].Size /\ BothReady(t)
      BY Typed DEF SendChunk, ProgressInv, ProgressAt
    <2>2. /\ prog'[t].Transferred = prog[t].Transferred + n
          /\ prog'[t].Size = prog[t].Size /\ (BothReady(t)' <=> BothReady(t))
          /\ \A u \in Transfers \ {t} : prog'[u] = prog[u]
      BY <1>2, Typed DEF Counted, BothReady
    <2>3. /\ UNCHANGED <<state, activeTransfer>>
          /\ relay'[t].pc = "free" /\ \A u \in Transfers \ {t} : relay'[u] = relay[u]
      BY <1>2, Typed DEF table, Release, Unheld
    <2> DEFINE moved == [u \in Transfers |-> prog[u].Transferred]
    <2>4. SizeSeen' = SizeSeen /\ SizeSeen[t] = prog[t].Size
      BY <2>1, <2>2 DEF SizeSeen, BothReady
    <2>5. [u \in Transfers |-> prog'[u].Transferred] = [moved EXCEPT ![t] = @ + n]
      BY <2>2
    <2>6. n \in 1..(SizeSeen[t] - moved[t])
      BY <2>1, <2>4, Typed
    <2>7. Contract!Move(t)
      BY <2>1, <2>3, <2>4, <2>5, <2>6 DEF Contract!Move
    <2>8. ProgressInv'
      BY <2>1, <2>2, <2>3 DEF ProgressInv, ProgressAt, BothReady
    <2> QED
      BY <2>7, <2>8 DEF ContractStep, Contract!Next
  <1> QED
    BY <1>1, <1>2 DEF SendChunk

LEMMA RelayStepRefines ==
  ASSUME Inductive, ProgressInv, NEW t \in Transfers, RelayStep(t)
  PROVE  ContractStep /\ ProgressInv'
  <1>1. ASSUME NEW step, NEW s, NEW type, NEW next, next # "chunk", SendThen(t, step, s, type, next)
        PROVE  ContractStep /\ ProgressInv'
    <2>1. UNCHANGED prog
      BY <1>1 DEF SendThen, work
    <2>2. CASE FailRelayLocked(t, "send", relay[t].by)
      BY <2>1, <2>2, FailRefines
    <2>3. CASE UNCHANGED table /\ (Release(t) \/ relay' = [relay EXCEPT ![t].pc = next])
      BY <1>1, <2>1, <2>3, QuietRefines DEF table
    <2> QED
      BY <1>1, <2>2, <2>3 DEF SendThen
  <1>2. CASE SendTargetStart(t) \/ SendSourceStart(t) \/ SendSend(t) \/ SendCommit(t)
    BY <1>1, <1>2 DEF SendTargetStart, SendSourceStart, SendSend, SendCommit
  <1>3. CASE SendChunk(t)
    BY <1>3, ChunkIsMove
  <1>4. CASE SendCancelSource(t) \/ SendCancelTarget(t)
    BY <1>4, QuietRefines DEF SendCancelSource, SendCancelTarget, table, work
  <1> QED
    BY <1>2, <1>3, <1>4 DEF RelayStep

LEMMA SourceFinishRefines ==
  ASSUME Inductive, ProgressInv, NEW s, NEW t \in Transfers, NEW n,
         NEW h \in Digests \cup {NoDigest}, SourceFinish(s, t, n, h)
  PROVE  ContractStep /\ ProgressInv'
  <1>1. CASE FailRelayLocked(t, "protocol", s) /\ UNCHANGED work
    BY <1>1, FailRefines DEF work
  <1>2. CASE /\ state[t] = "transferring" /\ prog[t].Transferred = prog[t].Size
             /\ state' = [state EXCEPT ![t] = "verifying"]
             /\ prog' = [prog EXCEPT ![t].SHA256 = h]
             /\ Hold(t, "commit", s, 0) /\ UNCHANGED activeTransfer
    <2>1. /\ prog'[t].Transferred = prog[t].Transferred /\ prog'[t].Size = prog[t].Size
          /\ (BothReady(t)' <=> BothReady(t))
          /\ \A u \in Transfers \ {t} : prog'[u] = prog[u] /\ state'[u] = state[u]
          /\ state'[t] = "verifying"
      BY <1>2, Typed DEF BothReady
    <2>2. relay'[t].pc = "commit" /\ \A u \in Transfers \ {t} : relay'[u] = relay[u]
      BY <1>2, Typed DEF Hold
    <2>3. BothReady(t)
      BY <1>2 DEF ProgressInv, ProgressAt
    <2>4. /\ SizeSeen' = SizeSeen /\ SizeSeen[t] = prog[t].Size
          /\ [u \in Transfers |-> prog'[u].Transferred] = [u \in Transfers |-> prog[u].Transferred]
      BY <2>1, <2>3 DEF SizeSeen, BothReady
    <2>5. Contract!Verify(t)
      BY <1>2, <2>4 DEF Contract!Verify
    <2>6. ProgressInv'
      BY <1>2, <2>1, <2>2, <2>3 DEF ProgressInv, ProgressAt, BothReady
    <2> QED
      BY <2>5, <2>6 DEF ContractStep, Contract!Next
  <1> QED
    BY <1>1, <1>2 DEF SourceFinish

LEMMA TargetFinishRefines ==
  ASSUME Inductive, ProgressInv, NEW s, NEW t \in Transfers, NEW n,
         NEW h \in Digests \cup {NoDigest}, TargetFinish(s, t, n, h)
  PROVE  ContractStep /\ ProgressInv'
  <1>1. CASE FailTransfer(t, "protocol", s) /\ UNCHANGED work
    BY <1>1, FailRefines DEF work, FailTransfer
  <1>2. CASE /\ Settle(t, "completed", "none")
             /\ prog' = [prog EXCEPT ![t].Transferred = prog[t].Size]
             /\ UNCHANGED relay
    <2>1. Live(t) /\ state[t] = "verifying"
      BY DEF TargetFinish
    <2>2. prog[t].Transferred = prog[t].Size /\ relay[t].pc # "chunk"
      BY <2>1 DEF ProgressInv, ProgressAt
    <2>3. UNCHANGED prog
      BY <1>2, <2>2, Typed
    <2>4. Contract!End(t, "completed")
      BY <1>2, <2>1, <2>3, EndHolders DEF Contract!End, Settle, SizeSeen
    <2>5. Contract!Complete(t)
      BY <2>1, <2>4 DEF Contract!Complete
    <2>6. ProgressInv'
      BY <1>2, <2>2, <2>3, SettleProgress DEF FinalStates
    <2> QED
      BY <2>5, <2>6 DEF ContractStep, Contract!Next
  <1> QED
    BY <1>1, <1>2 DEF TargetFinish

LEMMA CoreStepRefines ==
  ASSUME Inductive, ProgressInv, NEW s \in Sessions, NEW t \in Transfers, CoreStep(s, t)
  PROVE  ContractStep /\ ProgressInv'
  <1>1. ASSUME NEW n \in Sizes, SourceReady(s, t, n) PROVE ContractStep /\ ProgressInv'
    <2> DEFINE half  == [prog[t] EXCEPT !.sourceReady = TRUE]
               ready == [half EXCEPT !.Size = n]
               Progress == [Size : Nat, Transferred : Nat, nextSeq : Nat,
                            SHA256 : Digests \cup {NoDigest},
                            sourceReady : BOOLEAN, targetReady : BOOLEAN]
    <2>1. half \in Progress /\ half.Transferred = prog[t].Transferred
      BY Typed
    <2>2. n \in Nat
      BY ConstantsAssumption DEF Sizes
    <2>3. ready \in Progress /\ ready.Transferred = prog[t].Transferred
      <3> HIDE DEF half
      <3> QED
        BY <2>1, <2>2
    <2>4. Unlocked(t) /\ state[t] = "preparing" /\ BecomeReady(s, t, ready)
      BY <1>1 DEF SourceReady, Handling
    <2> HIDE DEF ready
    <2> QED
      BY <2>3, <2>4, ReadyRefines
  <1>2. CASE TargetReady(s, t)
    <2> DEFINE ready == [prog[t] EXCEPT !.targetReady = TRUE]
    <2>1. ready \in [Size : Nat, Transferred : Nat, nextSeq : Nat,
                     SHA256 : Digests \cup {NoDigest},
                     sourceReady : BOOLEAN, targetReady : BOOLEAN]
          /\ ready.Transferred = prog[t].Transferred
      BY Typed
    <2>2. Unlocked(t) /\ state[t] = "preparing" /\ BecomeReady(s, t, ready)
      BY <1>2 DEF TargetReady, Handling
    <2> HIDE DEF ready
    <2> QED
      BY <2>1, <2>2, ReadyRefines
  <1>3. ASSUME NEW seq \in Sizes, NEW n \in Sizes \ {0}, SourceChunk(s, t, seq, n)
        PROVE  ContractStep /\ ProgressInv'
    <2> DEFINE by == IF s \in HTTP THEN NoSession ELSE s
    <2>1. UNCHANGED prog /\ state[t] = "transferring"
      BY <1>3 DEF SourceChunk, work
    <2>2. CASE FailRelayLocked(t, "protocol", by)
      BY <2>1, <2>2, FailRefines
    <2>3. CASE /\ prog[t].Transferred + n <= prog[t].Size
               /\ Hold(t, "chunk", by, n) /\ UNCHANGED table
      <3>1. relay'[t].len = n /\ \A u \in Transfers \ {t} : relay'[u] = relay[u]
        BY <2>3, Typed DEF Hold
      <3>2. UNCHANGED <<state, activeTransfer>>
        BY <2>3 DEF table
      <3>3. n > 0
        BY <1>3, ConstantsAssumption DEF Sizes
      <3>4. ProgressInv'
        BY <2>1, <2>3, <3>1, <3>2, <3>3 DEF ProgressInv, ProgressAt, BothReady
      <3> QED
        BY <2>1, <3>2, <3>4, Invisible
    <2> QED
      BY <1>3, <2>2, <2>3 DEF SourceChunk
  <1>4. ASSUME NEW n \in Sizes, NEW h \in Digests \cup {NoDigest}, SourceFinish(s, t, n, h)
        PROVE  ContractStep /\ ProgressInv'
    BY <1>4, SourceFinishRefines
  <1>5. ASSUME NEW n \in Sizes, NEW h \in Digests \cup {NoDigest}, TargetFinish(s, t, n, h)
        PROVE  ContractStep /\ ProgressInv'
    BY <1>5, TargetFinishRefines
  <1>6. CASE PeerFailed(s, t)
    BY <1>6, FailRefines DEF PeerFailed, work
  <1> QED
    BY <1>1, <1>2, <1>3, <1>4, <1>5, <1>6 DEF CoreStep

LEMMA StartStepRefines ==
  ASSUME Inductive, ProgressInv, NEW t \in Transfers, StartStep(t) \/ CancelTransfer(t)
  PROVE  ContractStep /\ ProgressInv'
  <1>1. CASE Refuse(t) \/ Return(t)
    BY <1>1, QuietRefines DEF Refuse, Return, table, work
  <1>2. CASE Reserve(t)
    BY <1>2, ReserveIsStart
  <1>3. CASE StartRelay(t)
    BY <1>3, QuietRefines DEF StartRelay, table, work
  <1>4. CASE CancelTransfer(t)
    <2>1. relay'[t].pc = "cancelSource" /\ \A u \in Transfers \ {t} : relay'[u] = relay[u]
      BY <1>4, Typed DEF CancelTransfer, Hold
    <2> QED
      BY <1>4, <2>1, SettleIsAbort, SettleProgress DEF CancelTransfer, FinalStates, work
  <1> QED
    BY <1>1, <1>2, <1>3, <1>4 DEF StartStep

LEMMA NextRefines ==
  ASSUME Inductive, ProgressInv, [Next]_vars
  PROVE  ContractStep /\ ProgressInv'
  <1> DEFINE Goal == ContractStep /\ ProgressInv'
  <1>1. ASSUME UNCHANGED <<state, activeTransfer, prog, relay>> PROVE Goal
    BY <1>1, Invisible, CalmProgress
  <1>2. CASE UNCHANGED vars
    BY <1>1, <1>2 DEF vars, table, work
  <1>3. ASSUME NEW s \in Sessions, Attach(s) \/ ConnectionLost(s) PROVE Goal
    BY <1>1, <1>3 DEF Attach, ConnectionLost, table, work
  <1>4. ASSUME NEW s \in Sessions, NEW w \in Detachers, DetachUnbind(s, w) \/ DetachStep(s, w)
        PROVE  Goal
    <2>1. ASSUME NEW t \in Transfers, DetachFail(s, w, t) PROVE Goal
      BY <2>1, FailRefines DEF DetachFail, FailTransfer, work
    <2> QED
      BY <1>1, <1>4, <2>1 DEF DetachStep, DetachUnbind, DetachClose, DetachScan, table, work
  <1>5. CASE CloseScan \/ CloseStep
    <2>1. ASSUME NEW t \in Transfers, CloseFail(t) PROVE Goal
      BY <2>1, FailRefines DEF CloseFail, FailTransfer, work
    <2> QED
      BY <1>1, <1>5, <2>1 DEF CloseStep, CloseScan, CloseUnbind, CloseSession, table, work
  <1>6. ASSUME NEW t \in Transfers, NEW d \in Devices, ResolveSource(t, d) \/ ResolveTarget(t, d)
        PROVE  Goal
    BY <1>1, <1>6 DEF ResolveSource, ResolveTarget, table, work
  <1>7. ASSUME NEW t \in Transfers, StartStep(t) \/ CancelTransfer(t) PROVE Goal
    BY <1>7, StartStepRefines
  <1>8. ASSUME NEW t \in Transfers, RelayStep(t) PROVE Goal
    BY <1>8, RelayStepRefines
  <1>9. ASSUME NEW s \in Sessions, NEW t \in Transfers, CoreStep(s, t) PROVE Goal
    BY <1>9, CoreStepRefines
  <1>10. ASSUME NEW t \in Transfers, GoIdle(t) \/ Expire(t) PROVE Goal
    <2>1. UNCHANGED prog
      BY <1>10 DEF GoIdle, Expire, work
    <2> QED
      BY <1>1, <1>10, <2>1, FailRefines DEF GoIdle, Expire, table
  <1>11. ASSUME NEW t \in Transfers, LateChunk(t) PROVE Goal
    BY <1>1, <1>11 DEF LateChunk, table
  <1> QED
    BY <1>2, <1>3, <1>4, <1>5, <1>6, <1>7, <1>8, <1>9, <1>10, <1>11 DEF Next

\* The relay, with its sessions, locks and races, is an implementation of
\* FileTransfer: two devices are reserved together, no more than the declared
\* bytes move, verification begins when all did, and a transfer ends once, in the
\* step that frees both devices (StartTransfer, the handlers, expireTransfer).
THEOREM ContractHolds == Spec => ImplementsContract
  <1>1. Init => Inductive /\ ProgressInv /\ Contract!Init
    <2>1. ASSUME Init PROVE ProgressInv
      BY <2>1 DEF Init, ProgressInv, ProgressAt, BothReady, NoProgress, Unheld
    <2>2. ASSUME Init PROVE Contract!Init
      BY <2>2 DEF Init, Contract!Init, SizeSeen, NoProgress
    <2> QED
      BY <2>1, <2>2, InitInductive
  <1>2. Inductive /\ ProgressInv /\ [Next]_vars => Inductive' /\ ProgressInv' /\ ContractStep
    BY NextInductive, NextRefines
  <1>3. ContractStep => [Contract!Next]_(Contract!vars)
    BY DEF ContractStep, Visible
  <1> QED
    BY <1>1, <1>2, <1>3, PTL DEF Spec, ImplementsContract, Contract!Spec
=============================================================================
