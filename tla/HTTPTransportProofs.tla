------------------------ MODULE HTTPTransportProofs ------------------------
(***************************************************************************)
(* The polling transport for any number of messages, any of them chunks,    *)
(* and any size of the queue: what the Gateway believes delivered was       *)
(* delivered, the slot belongs to the sender at work, and the Core receives *)
(* in order.                                                               *)
(*                                                                         *)
(* A verdict is on its way through three places: the handler that accepted  *)
(* it, the channel of its chunk, and the result its sender returns; a       *)
(* message through three others: its sender, the queue, and the Core.       *)
(***************************************************************************)
EXTENDS HTTPTransport, TLAPS

\* The sender works on a message, and waits for verdicts on chunks only.
SenderInv ==
    /\ sender # "idle" => current \in Messages
    /\ sender \in {"waiting", "clearing"} => current \in Chunks

\* "ok" is on its way only for chunks the Core has.
VerdictsInv ==
    /\ \A n \in Chunks : ack[n] = "ok" => n \in held
    /\ \A n \in Chunks : <<n, "ok">> \in ackers => n \in held
    /\ AckedMeansHeld

Ascending(s) == \A i, j \in DOMAIN s : i < j => s[i] < s[j]

\* What was received is older than what is queued, and both are older than the
\* message that waits for a place in the queue.
OrderInv ==
    /\ Ascending(received) /\ Ascending(outbound)
    /\ \A i \in DOMAIN received, j \in DOMAIN outbound : received[i] < outbound[j]
    /\ \A i \in DOMAIN received : received[i] <= current
    /\ \A j \in DOMAIN outbound : outbound[j] <= current
    /\ sender = "putting" =>
          /\ \A i \in DOMAIN received : received[i] < current
          /\ \A j \in DOMAIN outbound : outbound[j] < current

----------------------------------------------------------------------------
(* Types. *)

LEMMA TypeHolds == Init => TypeOK
  <1> SUFFICES ASSUME Init PROVE TypeOK
    OBVIOUS
  <1>1. outbound \in Seq(Messages) /\ Len(outbound) <= QueueSize /\ received \in Seq(Messages)
    BY TransportAssumption DEF TransportAssumption, Init
  <1>2. ack \in [Chunks -> Verdicts \cup {"empty"}] /\ result \in [Messages -> Verdicts \cup {"none"}]
    BY DEF Init
  <1>3. current \in 0..MaxSent
    BY TransportAssumption DEF TransportAssumption, Init
  <1> QED
    BY <1>1, <1>2, <1>3 DEF Init, TypeOK

LEMMA HelloTypes ==
    ASSUME TypeOK, HelloStep \/ Close \/ Unlist
    PROVE  TypeOK'
  BY DEF TypeOK, HelloStep, Hook, List, Close, Unlist, session, chunk, sending, polls, peer

LEMMA SenderTypes ==
    ASSUME TypeOK, SenderInv, Offer \/ SenderStep
    PROVE  TypeOK'
  <1> USE TransportAssumption
      DEF TransportAssumption, TypeOK, SenderInv, Messages, Verdicts, Told,
          session, chunk, sending, polls, peer
  <1>1. CASE Offer
    <2>1. /\ current' \in 0..MaxSent /\ current' \in Messages
          /\ slot' \in Chunks \cup {0}
      BY <1>1 DEF Offer
    <2>2. result' \in [1..MaxSent -> {"ok", "error", "none"}]
      BY <1>1 DEF Offer
    <2>3. sender' \in {"idle", "putting", "waiting", "clearing"}
      BY <1>1 DEF Offer
    <2> QED
      BY <1>1, <2>1, <2>2, <2>3 DEF Offer
  <1>2. CASE Put
    <2>1. current \in Messages /\ outbound \in Seq(Messages)
      BY <1>2 DEF Put
    <2>2. outbound' \in Seq(Messages) /\ Len(outbound') <= QueueSize
      <3>1. CASE outbound' = outbound
        BY <3>1
      <3>2. CASE Len(outbound) < QueueSize /\ outbound' = Append(outbound, current)
        <4> HIDE DEF TypeOK
        <4>1. Append(outbound, current) \in Seq(Messages)
              /\ Len(Append(outbound, current)) = Len(outbound) + 1
          BY <2>1
        <4>2. Len(outbound) \in Nat
          BY <2>1
        <4> QED
          BY <3>2, <4>1, <4>2
      <3> QED
        BY <1>2, <3>1, <3>2 DEF Put
    <2>3. result' \in [1..MaxSent -> {"ok", "error", "none"}]
      <3>1. \/ UNCHANGED result
            \/ result' = [result EXCEPT ![current] = "ok"]
            \/ result' = [result EXCEPT ![current] = "error"]
        BY <1>2 DEF Put
      <3> QED
        BY <3>1
    <2>4. sender' \in {"idle", "putting", "waiting", "clearing"}
      BY <1>2 DEF Put
    <2>5. UNCHANGED <<session, chunk, current, polls, gets, ackers, peer>>
      BY <1>2 DEF Put
    <2> QED
      BY <2>2, <2>3, <2>4, <2>5
  <1>3. CASE TakeAck \/ GiveUp \/ CutOff \/ Clear
    BY <1>3 DEF TakeAck, GiveUp, CutOff, Clear
  <1> QED
    BY <1>1, <1>2, <1>3 DEF SenderStep

LEMMA PollTypes ==
    ASSUME TypeOK, Poll \/ PollStep \/ PollBreaks \/ StrayStep
    PROVE  TypeOK'
  <1> USE DEF TypeOK, session, chunk, sending, polls, peer
  <1>1. CASE Poll \/ PollTimesOut \/ PollClosed \/ PollBreaks \/ StrayLeaves \/ StrayClosed
    BY <1>1 DEF Poll, PollTimesOut, PollClosed, PollBreaks, StrayLeaves, StrayClosed
  <1>2. CASE outbound # <<>> /\ outbound' = Tail(outbound) /\ (PollTakes \/ StrayTakes)
    <2>1. Head(outbound) \in Messages /\ Tail(outbound) \in Seq(Messages)
          /\ Len(Tail(outbound)) <= QueueSize
      BY <1>2, TransportAssumption DEF TransportAssumption
    <2>2. received' \in Seq(Messages)
      <3>1. received' = received \/ received' = Append(received, Head(outbound))
        BY <1>2 DEF PollTakes, StrayTakes
      <3>2. received \in Seq(Messages)
        OBVIOUS
      <3> HIDE DEF TypeOK
      <3> QED
        BY <2>1, <3>1, <3>2
    <2>3. polling' \in BOOLEAN /\ stray' \in BOOLEAN
      BY <1>2 DEF PollTakes, StrayTakes
    <2> QED
      BY <1>2, <2>1, <2>2, <2>3 DEF PollTakes, StrayTakes
  <1> QED
    BY <1>1, <1>2 DEF PollStep, StrayStep, PollTakes, StrayTakes

LEMMA RequestTypes ==
    ASSUME TypeOK, NEW n \in Chunks, NEW verdict \in Verdicts,
           \/ Get(n) \/ GetBreaks(n) \/ GetStep(n)
           \/ Acknowledge(n, verdict) \/ AckStep(n, verdict) \/ AckGivesUp(n, verdict)
    PROVE  TypeOK'
  <1> USE DEF TypeOK, session, chunk, sending, polls, peer
  <1>1. CASE Get(n) \/ GetBreaks(n)
    <2>1. <<n, TRUE>> \in Chunks \X BOOLEAN /\ <<n, FALSE>> \in Chunks \X BOOLEAN
      OBVIOUS
    <2>2. gets' \subseteq gets \cup {<<n, TRUE>>, <<n, FALSE>>}
      BY <1>1 DEF Get, GetBreaks
    <2>3. gets' \subseteq Chunks \X BOOLEAN
      BY <2>1, <2>2
    <2> QED
      BY <1>1, <2>3 DEF Get, GetBreaks
  <1>2. CASE GetStep(n)
    BY <1>2 DEF GetStep, Written, WrittenInVain, Verdicts
  <1>3. CASE Acknowledge(n, verdict)
    BY <1>3 DEF Acknowledge
  <1>4. CASE AckStep(n, verdict) \/ AckGivesUp(n, verdict)
    BY <1>4 DEF AckStep, AckArrives, AckCutOff, AckGivesUp
  <1> QED
    BY <1>1, <1>2, <1>3, <1>4

----------------------------------------------------------------------------
(* The sender and its slot. *)

SlotInv == SenderInv /\ SlotOfTheSender

LEMMA SlotStep ==
    ASSUME TypeOK, SlotInv, [Next]_vars
    PROVE  SlotInv'
  <1> USE DEF SlotInv, SenderInv, SlotOfTheSender
  <1>1. CASE Offer
    <2>1. /\ sender = "idle" /\ slot = 0 /\ current' \in Messages
          /\ sender' \in {"idle", "putting"}
          /\ slot' # 0 => slot' = current' /\ sender' = "putting"
      BY <1>1 DEF Offer
    <2> QED
      BY <2>1
  <1>2. CASE Put
    <2>1. slot \in Chunks \cup {0}
      BY DEF TypeOK
    <2> QED
      BY <1>2, <2>1 DEF Put, chunk
  <1>3. CASE TakeAck \/ GiveUp \/ CutOff \/ Clear
    BY <1>3 DEF TakeAck, GiveUp, CutOff, Clear, chunk
  <1>4. CASE UNCHANGED <<sender, current, slot>>
    BY <1>4
  <1>5. CASE [HelloStep \/ Close \/ Unlist \/ Poll \/ PollStep \/ PollBreaks \/ StrayStep]_vars
    BY <1>4, <1>5
       DEF HelloStep, Hook, List, Close, Unlist, Poll, PollStep, PollTakes, PollTimesOut,
           PollClosed, PollBreaks, StrayStep, StrayTakes, StrayLeaves, StrayClosed, chunk, sending, vars
  <1>6. ASSUME NEW n \in Chunks, NEW verdict \in Verdicts,
               \/ Get(n) \/ GetBreaks(n) \/ GetStep(n)
               \/ Acknowledge(n, verdict) \/ AckStep(n, verdict) \/ AckGivesUp(n, verdict)
        PROVE  UNCHANGED <<sender, current, slot>>
    BY <1>6 DEF Get, GetBreaks, GetStep, Written, WrittenInVain, Acknowledge, AckStep,
                AckArrives, AckCutOff, AckGivesUp, chunk, sending
  <1> QED
    BY <1>1, <1>2, <1>3, <1>4, <1>5, <1>6 DEF Next, SenderStep, Verdicts

----------------------------------------------------------------------------
(* Verdicts. *)

LEMMA VerdictsStep ==
    ASSUME TypeOK, SlotInv, VerdictsInv, [Next]_vars
    PROVE  VerdictsInv'
  <1> USE DEF VerdictsInv, AckedMeansHeld
  <1>1. CASE UNCHANGED <<ack, ackers, result, held>>
    BY <1>1
  <1>2. CASE Offer
    BY <1>2, TransportAssumption
       DEF TransportAssumption, Offer, Told, TypeOK, Messages, Verdicts, polls, peer
  <1>3. CASE Put
    BY <1>3, TransportAssumption
       DEF TransportAssumption, Put, Told, TypeOK, SlotInv, SenderInv, Messages, chunk, peer
  <1>4. CASE TakeAck
    BY <1>4, TransportAssumption
       DEF TransportAssumption, TakeAck, Told, TypeOK, SlotInv, SenderInv, Messages, peer
  <1>5. CASE GiveUp \/ CutOff
    <2>1. UNCHANGED <<ack, ackers, held>> /\ Told(current, "error")
      BY <1>5 DEF GiveUp, CutOff, chunk, peer
    <2> QED
      BY <2>1 DEF Told, TypeOK
  <1>6. CASE Clear
    BY <1>1, <1>6 DEF Clear, peer
  <1>7. CASE [HelloStep \/ Close \/ Unlist \/ Poll \/ PollStep \/ PollBreaks \/ StrayStep]_vars
    BY <1>1, <1>7
       DEF HelloStep, Hook, List, Close, Unlist, Poll, PollStep, PollTakes, PollTimesOut,
           PollClosed, PollBreaks, StrayStep, StrayTakes, StrayLeaves, StrayClosed, chunk, sending, peer, vars
  <1>8. ASSUME NEW n \in Chunks, Get(n) \/ GetBreaks(n) \/ GetStep(n)
        PROVE  VerdictsInv'
    <2>1. CASE Get(n) \/ GetBreaks(n)
      BY <1>1, <2>1 DEF Get, GetBreaks, chunk, sending, peer
    <2>2. CASE Written(n)
      BY <2>2 DEF Written, chunk, sending
    <2>3. CASE WrittenInVain(n)
      BY <2>3 DEF WrittenInVain, TypeOK, sending, peer
    <2> QED
      BY <1>8, <2>1, <2>2, <2>3 DEF GetStep
  <1>9. ASSUME NEW n \in Chunks, NEW verdict \in Verdicts,
               Acknowledge(n, verdict) \/ AckStep(n, verdict) \/ AckGivesUp(n, verdict)
        PROVE  VerdictsInv'
    <2>1. CASE Acknowledge(n, verdict)
      BY <2>1 DEF Acknowledge, chunk, sending, peer
    <2>2. CASE AckArrives(n, verdict)
      BY <2>2 DEF AckArrives, TypeOK, sending, peer
    <2>3. CASE AckCutOff(n, verdict) \/ AckGivesUp(n, verdict)
      BY <2>3 DEF AckCutOff, AckGivesUp, chunk, sending, peer
    <2> QED
      BY <1>9, <2>1, <2>2, <2>3 DEF AckStep
  <1> QED
    BY <1>2, <1>3, <1>4, <1>5, <1>6, <1>7, <1>8, <1>9 DEF Next, SenderStep

----------------------------------------------------------------------------
(* Order. *)

LEMMA QueueGrows ==
    ASSUME TypeOK, SlotInv, OrderInv, Put, outbound' = Append(outbound, current)
    PROVE  OrderInv'
  <1> USE TransportAssumption
      DEF TransportAssumption, TypeOK, SlotInv, SenderInv, Messages, OrderInv, Ascending
  <1>1. /\ sender = "putting" /\ current \in Int
        /\ received' = received /\ current' = current /\ sender' # "putting"
    BY DEF Put, peer
  <1>2. /\ DOMAIN outbound' = 1..Len(outbound) + 1
        /\ \A j \in DOMAIN outbound : outbound'[j] = outbound[j]
        /\ outbound'[Len(outbound) + 1] = current
    BY <1>1
  <1>3. DOMAIN outbound = 1..Len(outbound) /\ Len(outbound) \in Nat
    OBVIOUS
  <1>4. \A j \in DOMAIN outbound' : j \in DOMAIN outbound \/ j = Len(outbound) + 1
    BY <1>2, <1>3
  <1>5. Ascending(outbound)'
    BY <1>1, <1>2, <1>3, <1>4
  <1> QED
    BY <1>1, <1>2, <1>3, <1>4, <1>5

LEMMA QueueShrinks ==
    ASSUME TypeOK, OrderInv, PollTakes \/ StrayTakes
    PROVE  OrderInv'
  <1> USE TransportAssumption DEF TransportAssumption, TypeOK, Messages
  <1>1. /\ outbound # <<>> /\ outbound' = Tail(outbound)
        /\ current' = current /\ sender' = sender
    BY DEF PollTakes, StrayTakes, sending
  <1>2. /\ DOMAIN outbound = 1..Len(outbound) /\ Len(outbound) \in Nat \ {0}
        /\ Head(outbound) = outbound[1]
        /\ DOMAIN outbound' = 1..Len(outbound) - 1
        /\ \A j \in DOMAIN outbound' : outbound'[j] = outbound[j + 1]
    BY <1>1
  <1>3. \A j \in DOMAIN outbound' : j \in Int /\ j + 1 \in DOMAIN outbound /\ 1 < j + 1
    BY <1>2
  <1>4. /\ Ascending(outbound)'
        /\ \A i \in DOMAIN received, j \in DOMAIN outbound' : received[i] < outbound'[j]
        /\ \A j \in DOMAIN outbound' : Head(outbound) < outbound'[j] /\ outbound'[j] <= current
        /\ sender = "putting" => \A j \in DOMAIN outbound' : outbound'[j] < current
    <2> USE DEF OrderInv, Ascending
    <2>1. ASSUME NEW i \in DOMAIN outbound', NEW j \in DOMAIN outbound', i < j
          PROVE  outbound'[i] < outbound'[j]
      <3>1. i + 1 < j + 1
        BY <1>3, <2>1
      <3> QED
        BY <1>2, <1>3, <3>1
    <2>2. 1 \in DOMAIN outbound
      BY <1>2
    <2>3. \A j \in DOMAIN outbound' : Head(outbound) < outbound'[j]
      <3>1. \A j \in DOMAIN outbound' : outbound[1] < outbound[j + 1]
        BY <1>3, <2>2
      <3> DEFINE first == outbound[1]
      <3>2. \A j \in DOMAIN outbound' : first < outbound'[j]
        BY <1>2, <3>1
      <3>3. Head(outbound) = first
        BY <1>2
      <3> HIDE DEF first
      <3> QED
        BY <3>2, <3>3
    <2>4. \A i \in DOMAIN received, j \in DOMAIN outbound' : received[i] < outbound'[j]
      BY <1>2, <1>3
    <2>5. \A j \in DOMAIN outbound' :
              outbound'[j] <= current /\ (sender = "putting" => outbound'[j] < current)
      BY <1>2, <1>3
    <2> QED
      BY <2>1, <2>3, <2>4, <2>5
  <1>5. CASE received' = received
    BY <1>1, <1>4, <1>5 DEF OrderInv, Ascending
  <1>6. CASE received' = Append(received, Head(outbound))
    <2>1. /\ DOMAIN received = 1..Len(received) /\ Len(received) \in Nat
          /\ DOMAIN received' = 1..Len(received) + 1
          /\ \A i \in DOMAIN received : received'[i] = received[i]
          /\ received'[Len(received) + 1] = Head(outbound)
      <3>1. received \in Seq(Messages)
        OBVIOUS
      <3> HIDE DEF TypeOK
      <3> QED
        BY <1>6, <3>1
    <2>2. \A i \in DOMAIN received' : i \in DOMAIN received \/ i = Len(received) + 1
      <3> HIDE DEF TypeOK
      <3> QED
        BY <2>1
    <2>3. /\ \A i \in DOMAIN received : received[i] < Head(outbound)
          /\ Head(outbound) <= current
          /\ sender = "putting" => Head(outbound) < current
      <3>1. 1 \in DOMAIN outbound /\ Head(outbound) = outbound[1]
        BY <1>2
      <3> HIDE DEF TypeOK
      <3> QED
        BY <3>1 DEF OrderInv
    <2>4. Ascending(received)'
      <3>1. ASSUME NEW i \in DOMAIN received', NEW j \in DOMAIN received', i < j
            PROVE  received'[i] < received'[j]
        <4>1. i \in DOMAIN received
          BY <2>1, <3>1
        <4>2. CASE j \in DOMAIN received
          BY <2>1, <3>1, <4>1, <4>2 DEF OrderInv, Ascending
        <4>3. CASE j = Len(received) + 1
          BY <2>1, <2>3, <4>1, <4>3
        <4> QED
          BY <2>2, <4>2, <4>3
      <3> QED
        BY <3>1 DEF Ascending
    <2>5. \A i \in DOMAIN received', j \in DOMAIN outbound' : received'[i] < outbound'[j]
      BY <1>4, <2>1, <2>2
    <2>6. \A i \in DOMAIN received' :
              received'[i] <= current /\ (sender = "putting" => received'[i] < current)
      BY <2>1, <2>2, <2>3 DEF OrderInv
    <2> QED
      BY <1>1, <1>4, <2>4, <2>5, <2>6 DEF OrderInv
  <1> QED
    BY <1>5, <1>6 DEF PollTakes, StrayTakes, peer

LEMMA OrderStep ==
    ASSUME TypeOK, SlotInv, OrderInv, [Next]_vars
    PROVE  OrderInv'
  <1>1. CASE UNCHANGED <<received, outbound, current>> /\ sender' # "putting"
    BY <1>1 DEF OrderInv, Ascending
  <1>2. CASE UNCHANGED <<received, outbound, current, sender>>
    BY <1>2 DEF OrderInv, Ascending
  <1>3. CASE Offer
    <2>1. /\ received' = received /\ outbound' = outbound
          /\ current' = current + 1 /\ current \in Nat
      BY <1>3, TransportAssumption DEF TransportAssumption, Offer, TypeOK, peer
    <2>2. /\ \A i \in DOMAIN received : received[i] \in Int
          /\ \A j \in DOMAIN outbound : outbound[j] \in Int
      BY TransportAssumption DEF TransportAssumption, TypeOK, Messages
    <2> QED
      BY <2>1, <2>2 DEF OrderInv, Ascending
  <1>4. CASE Put
    <2>1. CASE outbound' = Append(outbound, current)
      BY <1>4, <2>1, QueueGrows
    <2>2. CASE outbound' = outbound /\ sender' # "putting"
      BY <1>1, <1>4, <2>2 DEF Put, peer
    <2> QED
      BY <1>4, <2>1, <2>2 DEF Put
  <1>5. CASE TakeAck \/ GiveUp \/ CutOff \/ Clear
    BY <1>1, <1>5 DEF TakeAck, GiveUp, CutOff, Clear, peer
  <1>6. CASE PollTakes \/ StrayTakes
    BY <1>6, QueueShrinks
  <1>7. CASE [\/ HelloStep \/ Close \/ Unlist \/ Poll \/ PollTimesOut \/ PollClosed
              \/ PollBreaks \/ StrayLeaves \/ StrayClosed]_vars
    BY <1>2, <1>7
       DEF HelloStep, Hook, List, Close, Unlist, Poll, PollTimesOut, PollClosed, PollBreaks,
           StrayLeaves, StrayClosed, sending, peer, vars
  <1>8. ASSUME NEW n \in Chunks, NEW verdict \in Verdicts,
               \/ Get(n) \/ GetBreaks(n) \/ GetStep(n)
               \/ Acknowledge(n, verdict) \/ AckStep(n, verdict) \/ AckGivesUp(n, verdict)
        PROVE  UNCHANGED <<received, outbound, current, sender>>
    BY <1>8 DEF Get, GetBreaks, GetStep, Written, WrittenInVain, Acknowledge, AckStep,
                AckArrives, AckCutOff, AckGivesUp, sending, peer
  <1> QED
    BY <1>2, <1>3, <1>4, <1>5, <1>6, <1>7, <1>8 DEF Next, SenderStep, PollStep, StrayStep, Verdicts

----------------------------------------------------------------------------
IInv == TypeOK /\ SlotInv /\ VerdictsInv /\ OrderInv

LEMMA Initially == Init => IInv
  <1> SUFFICES ASSUME Init PROVE IInv
    OBVIOUS
  <1>1. SlotInv
    BY DEF Init, SlotInv, SenderInv, SlotOfTheSender
  <1>2. VerdictsInv
    BY TransportAssumption
       DEF TransportAssumption, Init, VerdictsInv, AckedMeansHeld, Messages
  <1>3. DOMAIN received = {} /\ DOMAIN outbound = {} /\ sender = "idle"
    BY DEF Init
  <1>4. OrderInv
    BY <1>3 DEF OrderInv, Ascending
  <1> QED
    BY <1>1, <1>2, <1>4, TypeHolds DEF IInv

LEMMA Invariance == IInv /\ [Next]_vars => IInv'
  <1> SUFFICES ASSUME IInv, [Next]_vars PROVE IInv'
    OBVIOUS
  <1>1. TypeOK'
    <2>1. CASE UNCHANGED vars
      BY <2>1 DEF vars, session, chunk, sending, polls, peer, IInv, TypeOK
    <2> QED
      BY <2>1, HelloTypes, SenderTypes, PollTypes, RequestTypes DEF IInv, SlotInv, Next, Verdicts
  <1> QED
    BY <1>1, SlotStep, VerdictsStep, OrderStep DEF IInv

LEMMA Always == Spec => []IInv
  BY Initially, Invariance, PTL DEF Spec

\* Every variable of the transport keeps its type; in particular the queue never
\* holds more than its size (httpOutboundQueue).
THEOREM TypeCorrect == Spec => []TypeOK
  <1>1. IInv => TypeOK
    BY DEF IInv
  <1> QED
    BY <1>1, Always, PTL

\* A chunk is reported delivered only when the Core has its bytes, and no sender
\* finds the slot taken by one that gave up (SendTransferChunk,
\* handleTransferChunkAck).
THEOREM DeliveryCorrect == Spec => [](AckedMeansHeld /\ SlotOfTheSender)
  <1>1. IInv => AckedMeansHeld /\ SlotOfTheSender
    BY DEF IInv, VerdictsInv, SlotInv
  <1> QED
    BY <1>1, Always, PTL

\* The Core receives messages in the order they were sent, none twice, whatever
\* connections break (Send, handlePoll).
THEOREM OrderCorrect == Spec => []ReceivedInOrder
  <1>1. IInv => ReceivedInOrder
    BY DEF IInv, OrderInv, Ascending, ReceivedInOrder
  <1> QED
    BY <1>1, Always, PTL
----------------------------------------------------------------------------
(* The link. *)

\* The message under way has no verdict yet, those to come have none, and every
\* other has one; a chunk is fetched after it was announced.
LinkInv ==
    /\ \A n \in Messages : n > current => result[n] = "none"
    /\ sender \in {"putting", "waiting"} => result[current] = "none"
    /\ sender \in {"idle", "clearing"} /\ current # 0 => result[current] # "none"
    /\ \A n \in Chunks : <<n, TRUE>> \in gets => n \in ToSet(received)

LEMMA LinkInvInit == Init => LinkInv
  BY TransportAssumption DEF TransportAssumption, Init, LinkInv, Messages

\* What was received stays received.
LEMMA ReceivedGrows ==
    ASSUME TypeOK, [Next]_vars
    PROVE  ToSet(received) \subseteq ToSet(received')
  <1>1. CASE received' = received
    BY <1>1
  <1>2. CASE outbound # <<>> /\ received' = Append(received, Head(outbound))
    <2>1. /\ DOMAIN received = 1..Len(received) /\ Len(received) \in Nat
          /\ DOMAIN received' = 1..Len(received) + 1
          /\ \A i \in DOMAIN received : received'[i] = received[i]
      BY <1>2 DEF TypeOK
    <2> QED
      BY <2>1 DEF ToSet
  <1> QED
    BY <1>1, <1>2
       DEF Next, HelloStep, Hook, List, Close, Unlist, Offer, SenderStep, Put, TakeAck, GiveUp, CutOff, Clear,
           Poll, PollStep, PollTakes, PollTimesOut, PollClosed, PollBreaks, StrayStep, StrayTakes,
           StrayLeaves, StrayClosed, Get, GetBreaks, GetStep, Written, WrittenInVain, Acknowledge, AckStep, AckArrives,
           AckCutOff, AckGivesUp, peer, vars

LEMMA LinkInvStep ==
    ASSUME IInv, LinkInv, [Next]_vars
    PROVE  LinkInv'
  <1> USE TransportAssumption DEF TransportAssumption, Messages
  <1>0. TypeOK /\ SlotInv /\ SenderInv
    BY DEF IInv, SlotInv
  <1>1. ToSet(received) \subseteq ToSet(received')
    BY <1>0, ReceivedGrows
  <1>2. CASE /\ UNCHANGED <<result, current, gets>>
             /\ sender' = sender \/ (sender = "clearing" /\ sender' = "idle")
    BY <1>1, <1>2 DEF LinkInv
  <1>3. CASE Offer
    <2>1. sender = "idle" /\ slot = 0 /\ current \in Nat
      BY <1>0, <1>3 DEF Offer, SlotInv, SlotOfTheSender, TypeOK
    <2>2. sender' = "putting" /\ current' = current + 1 /\ current + 1 \in 1..MaxSent
          /\ UNCHANGED <<result, gets>>
      BY <1>3, <2>1 DEF Offer
    <2>3. \A n \in 1..MaxSent : n >= current' => result'[n] = "none"
      BY <2>1, <2>2 DEF LinkInv
    <2>4. \A n \in Chunks : <<n, TRUE>> \in gets' => n \in ToSet(received')
      BY <1>1, <2>2 DEF LinkInv
    <2>5. result'[current'] = "none"
      BY <2>1, <2>2, <2>3
    <2>6. \A n \in 1..MaxSent : n > current' => result'[n] = "none"
      BY <2>1, <2>2, <2>3
    <2> QED
      BY <2>2, <2>4, <2>5, <2>6 DEF LinkInv
  <1>4. CASE SenderStep
    <2>1. CASE Clear
      BY <1>2, <2>1 DEF Clear
    <2>2. CASE Put /\ sender' = "waiting" /\ UNCHANGED result
      BY <1>1, <2>2 DEF Put, LinkInv
    <2>3. ASSUME NEW verdict \in Verdicts, Told(current, verdict),
                 sender' \in {"idle", "clearing"}, UNCHANGED <<current, gets>>, sender # "idle"
          PROVE  LinkInv'
      <3>1. current \in 1..MaxSent /\ result \in [1..MaxSent -> {"ok", "error", "none"}]
        BY <1>0, <2>3 DEF SenderInv, TypeOK, Verdicts
      <3>2. result'[current] = verdict /\ \A n \in 1..MaxSent : n # current => result'[n] = result[n]
        BY <2>3, <3>1 DEF Told
      <3>3. verdict # "none"
        BY DEF Verdicts
      <3>4. \A n \in 1..MaxSent : n > current' => result'[n] = "none"
        BY <2>3, <3>1, <3>2 DEF LinkInv
      <3>5. \A n \in Chunks : <<n, TRUE>> \in gets' => n \in ToSet(received')
        BY <1>1, <2>3 DEF LinkInv
      <3> QED
        BY <2>3, <3>2, <3>3, <3>4, <3>5 DEF LinkInv
    <2>4. TakeAck => ack[current] \in Verdicts
      BY <1>0 DEF TakeAck, SenderInv, TypeOK
    <2> QED
      BY <1>4, <2>1, <2>2, <2>3, <2>4 DEF SenderStep, Put, TakeAck, GiveUp, CutOff, Verdicts
  <1>5. CASE [HelloStep \/ Close \/ Unlist \/ Poll \/ PollStep \/ PollBreaks \/ StrayStep]_vars
    BY <1>2, <1>5
       DEF HelloStep, Hook, List, Close, Unlist, Poll, PollStep, PollTakes, PollTimesOut,
           PollClosed, PollBreaks, StrayStep, StrayTakes, StrayLeaves, StrayClosed, sending, vars
  <1>6. ASSUME NEW n \in Chunks, Get(n) \/ GetBreaks(n) \/ GetStep(n)
        PROVE  LinkInv'
    <2>1. UNCHANGED <<result, current, sender>>
      BY <1>6 DEF Get, GetBreaks, GetStep, Written, WrittenInVain, sending
    <2>2. \A m \in Chunks : <<m, TRUE>> \in gets' => <<m, TRUE>> \in gets \/ m \in ToSet(received)
      <3>1. CASE Get(n)
        BY <3>1 DEF Get
      <3>2. CASE GetBreaks(n)
        <4>1. gets' \subseteq gets \cup {<<n, FALSE>>}
          BY <3>2 DEF GetBreaks
        <4>2. \A m \in Chunks : <<m, TRUE>> # <<n, FALSE>>
          OBVIOUS
        <4> QED BY <4>1, <4>2
      <3>3. CASE GetStep(n)
        <4>1. gets' \subseteq gets
          BY <3>3 DEF GetStep, Written, WrittenInVain
        <4> QED BY <4>1
      <3> QED BY <1>6, <3>1, <3>2, <3>3
    <2> QED
      BY <1>1, <2>1, <2>2 DEF LinkInv
  <1>7. ASSUME NEW n \in Chunks, NEW verdict \in Verdicts,
               Acknowledge(n, verdict) \/ AckStep(n, verdict) \/ AckGivesUp(n, verdict)
        PROVE  LinkInv'
    BY <1>2, <1>7 DEF Acknowledge, AckStep, AckArrives, AckCutOff, AckGivesUp, sending
  <1> QED
    BY <1>3, <1>4, <1>5, <1>6, <1>7 DEF Next

\* A verdict a sender returns is a verdict of the link.
LEMMA TellRefines ==
    ASSUME IInv, LinkInv, NEW verdict \in Verdicts, Told(current, verdict),
           sender \in {"putting", "waiting"}, UNCHANGED <<current, received, held>>,
           verdict = "ok" /\ current \in Chunks => current \in held
    PROVE  Link!Tell(verdict)
  <1>1. current # 0 /\ result[current] = "none"
    BY TransportAssumption
       DEF TransportAssumption, IInv, SlotInv, SenderInv, LinkInv, Messages
  <1> QED
    BY <1>1 DEF Link!Tell, Told

LEMMA LinkStep ==
    ASSUME IInv, LinkInv, [Next]_vars
    PROVE  [Link!Next]_Link!linkVars
  <1> USE DEF Link!linkVars
  <1>0. TypeOK /\ SlotInv /\ SenderInv /\ VerdictsInv /\ OrderInv
    BY DEF IInv, SlotInv
  <1>1. CASE UNCHANGED <<current, result, received, held>>
    BY <1>1
  <1>2. CASE Offer
    <2>1. sender = "idle" /\ slot = 0 /\ current \in Nat /\ MaxSent \in Nat
      BY <1>0, <1>2, TransportAssumption
         DEF TransportAssumption, Offer, SlotInv, SlotOfTheSender, TypeOK
    <2>2. current' = current + 1 /\ current < MaxSent /\ UNCHANGED <<result, received, held>>
      BY <1>2, <2>1 DEF Offer, Messages, peer
    <2>3. Link!Begin
      BY <2>1, <2>2 DEF Link!Begin, LinkInv
    <2> QED
      BY <2>3 DEF Link!Next
  <1>3. CASE SenderStep
    <2>1. CASE Clear \/ (Put /\ UNCHANGED result)
      BY <1>1, <2>1 DEF Clear, Put, peer
    <2>2. CASE Put /\ result' # result
      <3>1. CASE Told(current, "ok") /\ current \notin Chunks
        <4>1. Link!Tell("ok")
          BY <2>2, <3>1, TellRefines DEF Put, peer, Verdicts
        <4> QED BY <4>1 DEF Link!Next
      <3>2. CASE Told(current, "error")
        <4>1. Link!Tell("error")
          BY <2>2, <3>2, TellRefines DEF Put, peer, Verdicts
        <4> QED BY <4>1 DEF Link!Next
      <3> QED
        BY <2>2, <3>1, <3>2 DEF Put
    <2>3. CASE TakeAck
      <3>1. current \in Chunks /\ ack[current] \in Verdicts
        BY <1>0, <2>3 DEF TakeAck, SenderInv, TypeOK
      <3>2. ack[current] = "ok" => current \in held
        BY <1>0, <3>1 DEF VerdictsInv
      <3>3. Link!Tell(ack[current])
        BY <2>3, <3>1, <3>2, TellRefines DEF TakeAck, peer
      <3> QED
        BY <3>1, <3>3 DEF Link!Next, Verdicts
    <2>4. CASE GiveUp \/ CutOff
      <3>1. Link!Tell("error")
        BY <2>4, TellRefines DEF GiveUp, CutOff, peer, Verdicts
      <3> QED
        BY <3>1 DEF Link!Next
    <2> QED
      BY <1>3, <2>1, <2>2, <2>3, <2>4 DEF SenderStep
  <1>4. CASE PollTakes
    <2> DEFINE n == Head(outbound)
    <2>1. /\ outbound \in Seq(Messages) /\ outbound # <<>> /\ 1 \in DOMAIN outbound
          /\ outbound[1] = Head(outbound)
      BY <1>0, <1>4 DEF PollTakes, TypeOK
    <2>2. n \in 1..MaxSent /\ n <= current /\ current \in Nat
      BY <1>0, <2>1, TransportAssumption DEF TransportAssumption, TypeOK, OrderInv, Messages
    <2>3. \A i \in DOMAIN received : received[i] < n
      BY <1>0, <2>1 DEF OrderInv
    <2>4. received' = Append(received, n) /\ UNCHANGED <<current, result, held>>
      BY <1>4 DEF PollTakes, sending
    <2>5. n \in 1..current
      BY <2>2, TransportAssumption DEF TransportAssumption
    <2> HIDE DEF n
    <2>6. Link!Arrive(n)
      BY <2>3, <2>4, <2>5 DEF Link!Arrive
    <2> QED
      BY <2>2, <2>6 DEF Link!Next
  <1>5. CASE [\/ HelloStep \/ Close \/ Unlist \/ Poll \/ PollTimesOut \/ PollClosed
              \/ PollBreaks \/ StrayStep]_vars
    BY <1>1, <1>5
       DEF HelloStep, Hook, List, Close, Unlist, Poll, PollTimesOut, PollClosed, PollBreaks, StrayStep, StrayTakes,
           StrayLeaves, StrayClosed, sending, peer, vars
  <1>6. ASSUME NEW n \in Chunks, Get(n) \/ GetBreaks(n) \/ GetStep(n)
        PROVE  [Link!Next]_Link!linkVars
    <2>1. CASE Written(n)
      <3>1. n \in ToSet(received) /\ n \in 1..MaxSent
        BY <2>1, TransportAssumption DEF TransportAssumption, Written, LinkInv
      <3>2. Link!Fetch(n)
        BY <2>1, <3>1 DEF Written, sending, Link!Fetch, Link!ToSet, ToSet
      <3> QED
        BY <3>1, <3>2 DEF Link!Next
    <2> QED
      BY <1>1, <1>6, <2>1 DEF Get, GetBreaks, GetStep, WrittenInVain, sending, peer
  <1>7. ASSUME NEW n \in Chunks, NEW verdict \in Verdicts,
               Acknowledge(n, verdict) \/ AckStep(n, verdict) \/ AckGivesUp(n, verdict)
        PROVE  UNCHANGED <<current, result, received, held>>
    BY <1>7 DEF Acknowledge, AckStep, AckArrives, AckCutOff, AckGivesUp, sending, peer
  <1> QED
    BY <1>1, <1>2, <1>3, <1>4, <1>5, <1>6, <1>7 DEF Next, PollStep

\* For any number of messages and any size of the queue, the transport implements
\* the ordered link: one message under way, each sender told once, nothing received
\* twice or out of order, no chunk reported delivered that was not fetched.
THEOREM TransportImplementsLink == Spec => ImplementsLink
  <1>1. Init => Link!Init
    BY DEF Init, Link!Init, Messages
  <1>2. Init => LinkInv
    BY LinkInvInit
  <1>3. IInv /\ LinkInv /\ [Next]_vars => LinkInv'
    BY LinkInvStep
  <1>4. IInv /\ LinkInv /\ [Next]_vars => [Link!Next]_Link!linkVars
    BY LinkStep
  <1> QED
    BY <1>1, <1>2, <1>3, <1>4, Always, PTL DEF Spec, ImplementsLink, Link!Spec
=============================================================================
