------------------------ MODULE DeviceSessionProofs ------------------------
(***************************************************************************)
(* The counter of a session's outstanding calls, for any number of calls   *)
(* and any queue: activeCalls is what Manager.Monitor trusts to tell a     *)
(* busy Core from a silent one.                                            *)
(*                                                                         *)
(* The counter moves apart from the slots, one step after registerPending  *)
(* and not at all when close has dropped them in between.  The invariant   *)
(* therefore compares it with the slots whose call has been counted: equal *)
(* until the slots are dropped, and never below from then on.  It needs    *)
(* the fact that only requests that were sent are answered.                *)
(***************************************************************************)
EXTENDS DeviceSession, FiniteSetTheorems, TLAPS

\* The slots that activeCalls stands for.
CountedSlots == {c \in Calls : c \in pending /\ caller[c] # "registered"}

Types ==
    /\ closing \in {"open", "unbound", "done", "reset"}
    /\ executing \in InFlight \cup {"none"}
    /\ outbound \in Seq(InFlight)
    /\ inbound \in Seq(InFlight)
    /\ pending \subseteq Requests
    /\ activeCalls \in Int
    /\ caller \in [Calls -> {"idle"} \cup Running \cup Returned]
    /\ answer \in [Calls -> Calls \cup {"none"}]

\* Where a call is that has been sent.
WasSent(c) == caller[c] \in {"waiting"} \cup Returned

OnlySentAnswered ==
    /\ \A i \in DOMAIN outbound : outbound[i] \in Calls => WasSent(outbound[i])
    /\ \A i \in DOMAIN inbound : inbound[i] \in Calls => WasSent(inbound[i])
    /\ executing \in Calls => WasSent(executing)

SlotOrder ==
    /\ \A c \in Calls : caller[c] \in {"idle", "resolved"} => c \notin pending
    /\ \A c \in Calls : caller[c] = "registered" /\ closing # "reset" => c \in pending

Accounted ==
    /\ activeCalls >= Cardinality(CountedSlots)
    /\ closing # "reset" => activeCalls = Cardinality(CountedSlots)

\* Also before it waits, a call has its slot, its answer or a closed session.
Answerable ==
    \A c \in Calls : caller[c] \in {"registered", "counted", "sending", "waiting"} =>
        c \in pending \/ answer[c] = c \/ Closed

Accounting == Types /\ OnlySentAnswered /\ SlotOrder /\ Accounted /\ Answerable

LEMMA CountedFinite ==
    IsFiniteSet(CountedSlots) /\ Cardinality(CountedSlots) \in Nat
  <1>1. CountedSlots \in SUBSET Calls /\ IsFiniteSet(Calls)
    BY SessionAssumption DEF CountedSlots, SessionAssumption
  <1> QED BY <1>1, FS_Subset, FS_CardinalityType

LEMMA NamesApart == "ping" \notin Calls /\ "stale" \notin Calls /\ "none" \notin Calls
  BY SessionAssumption DEF SessionAssumption

LEMMA InitAccounting == Init => Accounting
  <1> SUFFICES ASSUME Init PROVE Accounting
    OBVIOUS
  <1>1. CountedSlots = {}
    BY DEF Init, CountedSlots
  <1>2. Accounted
    BY <1>1, FS_EmptySet DEF Init, Accounted
  <1>3. Types
    BY DEF Init, Types
  <1>4. OnlySentAnswered
    BY NamesApart DEF Init, OnlySentAnswered
  <1> QED
    BY <1>2, <1>3, <1>4 DEF Init, Accounting, SlotOrder, Answerable

\* A step that leaves the slots, the counter and the callers alone.
LEMMA SlotsKept ==
    ASSUME Accounting, UNCHANGED <<slots, calls>>, Types', OnlySentAnswered',
           (closing = "reset") => (closing' = "reset"),
           (closing' = "reset") => (closing = "reset"), Closed => Closed'
    PROVE  Accounting'
  <1>1. CountedSlots' = CountedSlots
    BY DEF CountedSlots, slots, calls
  <1>2. SlotOrder'
    BY DEF Accounting, SlotOrder, slots, calls
  <1>4. Accounted'
    BY <1>1 DEF Accounting, Accounted, slots, calls
  <1>3. Answerable'
    BY DEF Accounting, Answerable, slots, calls
  <1> QED BY <1>2, <1>3, <1>4 DEF Accounting

\* A caller that moves on, without a slot coming, going or being counted.
LEMMA CallerMoves ==
    ASSUME Accounting, NEW c \in Calls, NEW to \in {"sending", "waiting"} \cup Returned,
           caller[c] \in {"counted", "sending", "waiting"},
           caller' = [caller EXCEPT ![c] = to],
           UNCHANGED <<slots, answer, closing>>, Types', OnlySentAnswered'
    PROVE  Accounting'
  <1>1. /\ caller'[c] = to /\ \A d \in Calls \ {c} : caller'[d] = caller[d]
        /\ to \notin {"idle", "resolved", "registered"}
    BY DEF Accounting, Types, Returned
  <1>2. CountedSlots' = CountedSlots
    BY <1>1 DEF CountedSlots, slots
  <1> QED
    BY <1>1, <1>2 DEF Accounting, SlotOrder, Accounted, Answerable, slots, Closed

\* Dropping the slot of a request that is not a call about to be counted keeps the
\* account.
LEMMA DropKeepsAccount ==
    ASSUME Accounting, NEW id \in InFlight, DropSlot(id),
           id \in Calls => caller[id] # "registered" /\ caller'[id] # "registered",
           \A d \in Calls : d # id => caller'[d] = caller[d],
           closing' = closing
    PROVE  Accounted'
  <1>1. CountedSlots' = CountedSlots \ {id}
    BY DEF CountedSlots, DropSlot
  <1>2. Cardinality(CountedSlots \ {id}) =
            IF id \in CountedSlots THEN Cardinality(CountedSlots) - 1 ELSE Cardinality(CountedSlots)
    BY CountedFinite, FS_RemoveElement
  <1>3. id \in CountedSlots <=> id \in pending /\ id \in Calls
    BY DEF CountedSlots
  <1>4. activeCalls \in Int /\ Cardinality(CountedSlots) \in Nat
    BY CountedFinite DEF Accounting, Types
  <1> QED BY <1>1, <1>2, <1>3, <1>4 DEF Accounted, Accounting, DropSlot

\* What is queued stays sent.
LEMMA SentStays ==
    ASSUME Types, OnlySentAnswered, UNCHANGED <<outbound, inbound, executing>>,
           \A c \in Calls : WasSent(c) => WasSent(c)'
    PROVE  OnlySentAnswered'
  BY DEF OnlySentAnswered

\* A call that is put on the transport counts as sent.
LEMMA PutSent ==
    ASSUME Types, OnlySentAnswered, NEW c \in Calls, outbound' = Append(outbound, c),
           UNCHANGED <<inbound, executing>>, WasSent(c)',
           \A d \in Calls : WasSent(d) => WasSent(d)'
    PROVE  OnlySentAnswered'
  <1>1. \A i \in DOMAIN outbound' :
            (i \in DOMAIN outbound /\ outbound'[i] = outbound[i]) \/ outbound'[i] = c
    BY DEF Types
  <1> QED BY <1>1 DEF OnlySentAnswered

LEMMA CallPreserved ==
    ASSUME Accounting, NEW c \in Calls, Resolve(c) \/ CallStep(c) \/ CancelCall(c)
    PROVE  Accounting'
  <1>1. CASE Resolve(c)
    <2>1. /\ Types' /\ \A d \in Calls : WasSent(d) => WasSent(d)'
          /\ UNCHANGED <<outbound, inbound, executing, slots, answer, closing>>
          /\ caller[c] = "idle" /\ caller'[c] = "resolved" /\ \A d \in Calls \ {c} : caller'[d] = caller[d]
      BY <1>1 DEF Resolve, Accounting, Types, WasSent, Running, Returned, slots, peer
    <2>2. CountedSlots' = CountedSlots
      BY <2>1 DEF CountedSlots, slots, Accounting, SlotOrder
    <2>3. OnlySentAnswered'
      BY <2>1, SentStays DEF Accounting
    <2> QED
      BY <2>1, <2>2, <2>3 DEF Accounting, SlotOrder, Accounted, Answerable, slots, Closed
  <1>2. CASE Register(c)
    <2>1. /\ Types' /\ \A d \in Calls : WasSent(d) => WasSent(d)'
          /\ UNCHANGED <<outbound, inbound, executing, activeCalls, answer, closing>>
          /\ caller[c] = "resolved" /\ \A d \in Calls \ {c} : caller'[d] = caller[d]
          /\ \/ caller'[c] = "failed" /\ pending' = pending
             \/ caller'[c] = "registered" /\ pending' = pending \cup {c}
      BY <1>2 DEF Register, Accounting, Types, WasSent, Running, Returned, Requests, peer
    <2>2. CountedSlots' = CountedSlots
      BY <2>1 DEF CountedSlots, Accounting, SlotOrder
    <2>3. OnlySentAnswered'
      BY <2>1, SentStays DEF Accounting
    <2> QED
      BY <2>1, <2>2, <2>3 DEF Accounting, SlotOrder, Accounted, Answerable, Closed
  <1>3. CASE Count(c)
    <2>1. /\ Types' /\ \A d \in Calls : WasSent(d) => WasSent(d)'
          /\ UNCHANGED <<outbound, inbound, executing, pending, answer, closing>>
          /\ activeCalls' = activeCalls + 1
          /\ caller[c] = "registered" /\ caller'[c] = "counted" /\ \A d \in Calls \ {c} : caller'[d] = caller[d]
      BY <1>3 DEF Count, Accounting, Types, WasSent, Running, Returned, peer
    <2>2. c \notin CountedSlots /\ CountedSlots' = IF c \in pending THEN CountedSlots \cup {c} ELSE CountedSlots
      BY <2>1 DEF CountedSlots
    <2>3. Cardinality(CountedSlots \cup {c}) = Cardinality(CountedSlots) + 1
      BY <2>2, CountedFinite, FS_AddElement
    <2>4. Accounted'
      BY <2>1, <2>2, <2>3, CountedFinite DEF Accounted, Accounting, SlotOrder, Types
    <2>5. OnlySentAnswered'
      BY <2>1, SentStays DEF Accounting
    <2> QED
      BY <2>1, <2>4, <2>5 DEF Accounting, SlotOrder, Answerable, Closed
  <1>4. CASE LockCall(c)
    <2>1. /\ Types' /\ \A d \in Calls : WasSent(d) => WasSent(d)'
          /\ UNCHANGED <<outbound, inbound, executing, slots, answer, closing>>
          /\ caller[c] = "counted" /\ caller' = [caller EXCEPT ![c] = "sending"]
      BY <1>4 DEF LockCall, Accounting, Types, WasSent, Running, Returned, slots, peer
    <2> QED BY <2>1, SentStays, CallerMoves DEF Accounting
  <1>5. CASE SendCall(c)
    <2>1. /\ UNCHANGED <<inbound, executing, answer, closing>>
          /\ caller[c] = "sending"
      BY <1>5 DEF SendCall, peer
    <2>2. CASE Put(c) /\ caller' = [caller EXCEPT ![c] = "waiting"] /\ UNCHANGED slots
      <3>1. Types' /\ \A d \in Calls : WasSent(d) => WasSent(d)'
        BY <2>1, <2>2 DEF Put, Accounting, Types, WasSent, Running, Returned, InFlight, Requests, slots
      <3>2. WasSent(c)'
        BY <2>2 DEF WasSent, Accounting, Types
      <3>3. OnlySentAnswered'
        BY <2>1, <2>2, <3>1, <3>2, PutSent DEF Put, Accounting
      <3> QED BY <2>1, <2>2, <3>1, <3>3, CallerMoves
    <2>3. CASE PutFails /\ caller' = [caller EXCEPT ![c] = "failed"] /\ DropSlot(c)
      <3>1. /\ Types' /\ \A d \in Calls : WasSent(d) => WasSent(d)'
            /\ caller'[c] = "failed" /\ \A d \in Calls \ {c} : caller'[d] = caller[d]
            /\ UNCHANGED outbound /\ pending' = pending \ {c}
        BY <2>1, <2>3 DEF PutFails, DropSlot, Accounting, Types, WasSent, Running, Returned, Requests
      <3>2. OnlySentAnswered'
        BY <2>1, <3>1, SentStays DEF Accounting
      <3>3. Accounted'
        BY <2>1, <2>3, <3>1, DropKeepsAccount DEF InFlight, Requests
      <3> QED
        BY <2>1, <3>1, <3>2, <3>3 DEF Accounting, SlotOrder, Answerable, Closed
    <2> QED BY <1>5, <2>2, <2>3 DEF SendCall
  <1>6. CASE Finish(c) \/ CancelCall(c)
    <2>1. /\ UNCHANGED <<outbound, inbound, executing, slots, answer, closing>>
          /\ caller[c] = "waiting"
          /\ \E to \in Returned : caller' = [caller EXCEPT ![c] = to]
      BY <1>6 DEF Finish, CancelCall, Returned, peer
    <2>2. Types' /\ \A d \in Calls : WasSent(d) => WasSent(d)'
      BY <2>1 DEF Accounting, Types, WasSent, Running, Returned, slots
    <2> QED BY <2>1, <2>2, SentStays, CallerMoves DEF Accounting
  <1> QED BY <1>1, <1>2, <1>3, <1>4, <1>5, <1>6 DEF CallStep

----------------------------------------------------------------------------
LEMMA CorePreserved ==
    ASSUME Accounting, CoreStep \/ CoreStops
    PROVE  Accounting'
  <1>1. UNCHANGED <<slots, calls, closing>>
    BY DEF CoreStep, CoreTakes, CoreAnswers, CoreStops
  <1>2. CASE CoreTakes
    <2>1. /\ outbound # <<>> /\ executing' = Head(outbound) /\ outbound' = Tail(outbound)
          /\ UNCHANGED <<inbound, caller>>
          /\ outbound \in Seq(InFlight)
      BY <1>2 DEF CoreTakes, calls, Accounting, Types
    <2>2. Types'
      BY <1>1, <2>1 DEF Accounting, Types, slots, calls
    <2>3. OnlySentAnswered'
      <3>1. /\ Head(outbound) = outbound[1] /\ 1 \in DOMAIN outbound
            /\ \A i \in DOMAIN Tail(outbound) : i + 1 \in DOMAIN outbound /\ Tail(outbound)[i] = outbound[i + 1]
        BY <2>1
      <3> QED BY <2>1, <3>1 DEF Accounting, OnlySentAnswered, WasSent
    <2> QED BY <1>1, <2>2, <2>3, SlotsKept DEF Closed
  <1>3. CASE CoreAnswers
    <2>1. /\ inbound' = Append(inbound, executing) /\ executing' = "none" /\ executing # "none"
          /\ UNCHANGED <<outbound, caller>>
          /\ inbound \in Seq(InFlight) /\ executing \in InFlight
      BY <1>3 DEF CoreAnswers, calls, Accounting, Types
    <2>2. Types'
      BY <1>1, <2>1 DEF Accounting, Types, slots, calls
    <2>3. OnlySentAnswered'
      <3>1. \A i \in DOMAIN inbound' :
                  (i \in DOMAIN inbound /\ inbound'[i] = inbound[i]) \/ inbound'[i] = executing
        BY <2>1
      <3> QED BY <2>1, <3>1, NamesApart DEF Accounting, OnlySentAnswered, WasSent
    <2> QED BY <1>1, <2>2, <2>3, SlotsKept DEF Closed
  <1>4. CASE CoreStops
    <2>1. Types' /\ UNCHANGED <<outbound, inbound, caller>> /\ executing' = "none"
      BY <1>1, <1>4 DEF CoreStops, calls, slots, Accounting, Types
    <2>2. OnlySentAnswered'
      BY <2>1, NamesApart DEF Accounting, OnlySentAnswered, WasSent
    <2> QED BY <1>1, <2>1, <2>2, SlotsKept DEF Closed
  <1> QED BY <1>2, <1>3, <1>4 DEF CoreStep

LEMMA ReaderPreserved ==
    ASSUME Accounting, ReaderStep
    PROVE  Accounting'
  <1>1. CASE Read
    <2> DEFINE id == Head(inbound)
    <2>1. /\ inbound # <<>> /\ inbound' = Tail(inbound) /\ Deliver(id)
          /\ UNCHANGED <<outbound, executing, caller, closing>>
          /\ inbound \in Seq(InFlight)
      BY <1>1 DEF Read, peer, Accounting, Types
    <2>2. /\ id \in InFlight /\ id = inbound[1] /\ 1 \in DOMAIN inbound
          /\ \A i \in DOMAIN Tail(inbound) : i + 1 \in DOMAIN inbound /\ Tail(inbound)[i] = inbound[i + 1]
      BY <2>1
    <2>3. id \in Calls => WasSent(id)
      BY <2>2 DEF Accounting, OnlySentAnswered
    <2> HIDE DEF id
    <2>4. /\ pending' = pending \ {id} /\ activeCalls' \in Int
          /\ answer' = IF id \in pending \cap Calls THEN [answer EXCEPT ![id] = id] ELSE answer
      BY <2>1 DEF Deliver, DropSlot, Accounting, Types
    <2>5. Types'
      BY <2>1, <2>4 DEF Accounting, Types
    <2>6. OnlySentAnswered'
      BY <2>1, <2>2 DEF Accounting, OnlySentAnswered, WasSent
    <2>7. Accounted'
      BY <2>1, <2>2, <2>3, DropKeepsAccount DEF Deliver, WasSent, Returned
    <2>8. SlotOrder'
      BY <2>1, <2>3, <2>4 DEF Accounting, SlotOrder, WasSent, Returned
    <2>9. Answerable'
      BY <2>1, <2>4 DEF Accounting, Answerable, Types, Closed
    <2> QED BY <2>5, <2>6, <2>7, <2>8, <2>9 DEF Accounting
  <1>2. CASE ReadFails
    <2>1. UNCHANGED <<outbound, inbound, executing, slots, calls, closing>>
      BY <1>2 DEF ReadFails, peer
    <2>2. Types' /\ OnlySentAnswered'
      BY <2>1 DEF Accounting, Types, OnlySentAnswered, WasSent, slots, calls
    <2> QED BY <2>1, <2>2, SlotsKept DEF Closed
  <1> QED BY <1>1, <1>2 DEF ReaderStep

LEMMA DetachPreserved ==
    ASSUME Accounting, DetachStep
    PROVE  Accounting'
  <1>1. CASE Unbind \/ CloseTransport
    <2>1. /\ UNCHANGED <<outbound, inbound, executing, slots, calls>>
          /\ closing' \in {"unbound", "done"} /\ closing \in {"open", "unbound"}
      BY <1>1 DEF Unbind, CloseTransport, peer
    <2>2. Types' /\ OnlySentAnswered'
      BY <2>1 DEF Accounting, Types, OnlySentAnswered, WasSent, slots, calls
    <2> QED BY <2>1, <2>2, SlotsKept DEF Closed
  <1>2. CASE DropSlots
    <2>1. /\ UNCHANGED <<outbound, inbound, executing, calls>>
          /\ closing' = "reset" /\ pending' = {} /\ activeCalls' = 0
      BY <1>2 DEF DropSlots, peer
    <2>2. Types' /\ OnlySentAnswered'
      BY <2>1 DEF Accounting, Types, OnlySentAnswered, WasSent, calls
    <2>3. CountedSlots' = {}
      BY <2>1 DEF CountedSlots
    <2>4. Accounted'
      BY <2>1, <2>3, FS_EmptySet DEF Accounted
    <2> QED
      BY <2>1, <2>2, <2>4 DEF Accounting, SlotOrder, Answerable, Closed, calls
  <1> QED BY <1>1, <1>2 DEF DetachStep

\* The slot of a ping is nobody's call.
LEMMA PingSlot ==
    ASSUME Accounting, UNCHANGED <<calls, closing>>, Types', OnlySentAnswered',
           activeCalls' = activeCalls,
           pending' = pending \ {"ping"} \/ pending' = pending \cup {"ping"}
    PROVE  Accounting'
  <1>1. \A c \in Calls : c \in pending' <=> c \in pending
    BY NamesApart
  <1>2. CountedSlots' = CountedSlots
    BY <1>1 DEF CountedSlots, calls
  <1> QED
    BY <1>1, <1>2 DEF Accounting, SlotOrder, Accounted, Answerable, calls, Closed

LEMMA StaleSent ==
    ASSUME NEW queue \in Seq(InFlight)
    PROVE  /\ Stale(queue) \in Seq(InFlight)
           /\ \A i \in DOMAIN Stale(queue) : i \in DOMAIN queue /\ (Stale(queue)[i] \in Calls => Stale(queue)[i] = queue[i])
  <1>1. DOMAIN queue = 1..Len(queue) /\ Len(queue) \in Nat
    OBVIOUS
  <1>2. \A i \in DOMAIN queue : (IF queue[i] = "ping" THEN "stale" ELSE queue[i]) \in InFlight
    BY DEF InFlight
  <1> QED BY <1>1, <1>2, NamesApart DEF Stale

LEMMA MonitorPreserved ==
    ASSUME Accounting, MonitorStep
    PROVE  Accounting'
  <1>1. CASE Tick \/ LockPing \/ PongArrives
    <2>1. UNCHANGED <<outbound, inbound, executing, slots, calls, closing>>
      BY <1>1 DEF Tick, LockPing, PongArrives, peer
    <2>2. Types' /\ OnlySentAnswered'
      BY <2>1 DEF Accounting, Types, OnlySentAnswered, WasSent, slots, calls
    <2> QED BY <2>1, <2>2, SlotsKept DEF Closed
  <1>2. CASE RegisterPing
    <2>1. /\ UNCHANGED <<outbound, inbound, executing, activeCalls, calls, closing>>
          /\ (pending' = pending \/ pending' = pending \cup {"ping"})
      BY <1>2 DEF RegisterPing, peer
    <2>2. Types' /\ OnlySentAnswered'
      BY <2>1 DEF Accounting, Types, Requests, OnlySentAnswered, WasSent, calls
    <2>3. CASE pending' = pending
      BY <2>1, <2>2, <2>3, SlotsKept DEF Closed, slots
    <2> QED BY <2>1, <2>2, <2>3, PingSlot
  <1>3. CASE SendPing /\ Put("ping") /\ UNCHANGED slots
    <2>1. UNCHANGED <<inbound, executing, slots, calls, closing>> /\ outbound' = Append(outbound, "ping")
      BY <1>3 DEF SendPing, Put, peer
    <2>2. Types'
      BY <2>1 DEF Accounting, Types, InFlight, Requests, slots, calls
    <2>3. OnlySentAnswered'
      <3>1. \A i \in DOMAIN outbound' :
                  (i \in DOMAIN outbound /\ outbound'[i] = outbound[i]) \/ outbound'[i] = "ping"
        BY <2>1 DEF Accounting, Types
      <3> QED BY <2>1, <3>1, NamesApart DEF Accounting, OnlySentAnswered, WasSent, calls
    <2> QED BY <2>1, <2>2, <2>3, SlotsKept DEF Closed
  <1>4. CASE SendPing /\ PutFails /\ DropSlot("ping")
    <2>1. UNCHANGED <<outbound, inbound, executing, activeCalls, calls, closing>> /\ pending' = pending \ {"ping"}
      BY <1>4, NamesApart DEF SendPing, PutFails, DropSlot, peer
    <2>2. Types' /\ OnlySentAnswered'
      BY <2>1 DEF Accounting, Types, OnlySentAnswered, WasSent, calls
    <2> QED BY <2>1, <2>2, PingSlot
  <1>5. CASE PingTimesOut \/ PingCutOff
    <2>1. /\ UNCHANGED <<activeCalls, calls, closing>> /\ pending' = pending \ {"ping"}
          /\ outbound' = Stale(outbound) /\ inbound' = Stale(inbound)
          /\ executing' = IF executing = "ping" THEN "stale" ELSE executing
      BY <1>5, NamesApart DEF PingTimesOut, PingCutOff, DropSlot, Abandoned
    <2>2. Types'
      BY <2>1, StaleSent DEF Accounting, Types, InFlight, calls
    <2>3. OnlySentAnswered'
      BY <2>1, StaleSent, NamesApart DEF Accounting, Types, OnlySentAnswered, WasSent, calls
    <2> QED BY <2>1, <2>2, <2>3, PingSlot
  <1> QED BY <1>1, <1>2, <1>3, <1>4, <1>5 DEF MonitorStep, SendPing

----------------------------------------------------------------------------
LEMMA AccountingPreserved == Accounting /\ [Next]_vars => Accounting'
  <1> SUFFICES ASSUME Accounting, [Next]_vars PROVE Accounting'
    OBVIOUS
  <1>1. CASE UNCHANGED vars
    <2>1. UNCHANGED <<outbound, inbound, executing, slots, calls, closing>>
      BY <1>1 DEF vars, peer
    <2>2. Types' /\ OnlySentAnswered'
      BY <2>1 DEF Accounting, Types, OnlySentAnswered, WasSent, slots, calls
    <2> QED BY <2>1, <2>2, SlotsKept DEF Closed
  <1> QED
    BY <1>1, CallPreserved, CorePreserved, ReaderPreserved, DetachPreserved, MonitorPreserved DEF Next

\* The account is the one Manager.Monitor needs: calls that are registered but not
\* counted are the only difference between the slots and activeCalls.
LEMMA AccountMatches == Accounting => CountMatches /\ CountNeverNegative
  <1> SUFFICES ASSUME Accounting PROVE CountMatches /\ CountNeverNegative
    OBVIOUS
  <1>1. CountNeverNegative
    BY CountedFinite DEF Accounting, Accounted, Types, CountNeverNegative
  <1>2. ASSUME closing # "reset"
        PROVE  activeCalls = Cardinality(pending \cap Calls)
                               - Cardinality({c \in Calls : caller[c] = "registered"})
    <2> DEFINE R == {c \in Calls : caller[c] = "registered"}
    <2>1. IsFiniteSet(R) /\ R \cap CountedSlots = {} /\ pending \cap Calls = CountedSlots \cup R
      <3>1. R \in SUBSET Calls /\ IsFiniteSet(Calls)
        BY SessionAssumption DEF SessionAssumption
      <3>2. IsFiniteSet(R)
        BY <3>1, FS_Subset
      <3> QED BY <1>2, <3>2 DEF CountedSlots, Accounting, SlotOrder
    <2> HIDE DEF R
    <2>2. Cardinality(CountedSlots \cup R) =
              Cardinality(CountedSlots) + Cardinality(R) - Cardinality(CountedSlots \cap R)
      BY <2>1, CountedFinite, FS_Union
    <2>3. Cardinality(CountedSlots \cap R) = 0 /\ Cardinality(R) \in Nat
      BY <2>1, FS_EmptySet, FS_CardinalityType
    <2>4. activeCalls = Cardinality(pending \cap Calls) - Cardinality(R)
      <3>1. Cardinality(pending \cap Calls) = Cardinality(CountedSlots \cup R)
        BY <2>1, Zenon
      <3>2. activeCalls = Cardinality(CountedSlots)
        BY <1>2 DEF Accounting, Accounted
      <3> QED BY <3>1, <3>2, <2>2, <2>3, CountedFinite
    <2>5. Cardinality({c \in Calls : caller[c] = "registered"}) = Cardinality(R)
      BY Zenon DEF R
    <2> QED BY <2>4, <2>5, Zenon
  <1> QED BY <1>1, <1>2 DEF CountMatches

\* For any number of calls, cancellations and closes: the counter is the number of
\* calls the Core still owes an answer, and never negative.
THEOREM CallsCounted == Spec => [](CountMatches /\ CountNeverNegative)
  <1>1. Accounting => CountMatches /\ CountNeverNegative
    BY AccountMatches
  <1> QED BY <1>1, InitAccounting, AccountingPreserved, PTL DEF Spec

\* Whatever answers arrive late on the stream the calls share, no waiting caller of
\* an open session is left without both its slot and its answer: none is lost between
\* the reader and the caller.
THEOREM WaitersAnswerable == Spec => []WaitersAreAnswerable
  <1>1. Accounting => WaitersAreAnswerable
    BY DEF Accounting, Answerable, WaitersAreAnswerable
  <1> QED BY <1>1, InitAccounting, AccountingPreserved, PTL DEF Spec

----------------------------------------------------------------------------
(* Types.  The monitor counts a missed heartbeat only while it may go on. *)

MonitorGoing == monitor \in {"tick", "register", "lock", "send", "wait"} => failures < FailLimit

Typed == TypeOK /\ MonitorGoing

LEMMA DropTyped ==
  ASSUME TypeOK, NEW id, DropSlot(id)
  PROVE  pending' \subseteq Requests /\ activeCalls' \in Int
  BY DEF TypeOK, DropSlot

LEMMA PutTyped ==
  ASSUME TypeOK, NEW id \in InFlight, Put(id)
  PROVE  outbound' \in Seq(InFlight) /\ Len(outbound') <= QueueSize
  BY SessionAssumption DEF TypeOK, Put, SessionAssumption

LEMMA CallTyped ==
  ASSUME Typed, NEW c \in Calls, Resolve(c) \/ CallStep(c) \/ CancelCall(c)
  PROVE  Typed'
  <1> USE DEF Typed, MonitorGoing, peer, slots, calls, heartbeat
  <1>1. CASE Resolve(c) \/ CancelCall(c) \/ Finish(c)
    BY <1>1 DEF TypeOK, Resolve, CancelCall, Finish, Running, Returned
  <1>2. CASE Register(c) \/ Count(c)
    BY <1>2 DEF TypeOK, Register, Count, Running, Returned, Requests
  <1>3. CASE LockCall(c)
    BY <1>3 DEF TypeOK, LockCall, Lock, Running
  <1>4. CASE SendCall(c)
    <2>1. /\ caller' \in [Calls -> {"idle"} \cup Running \cup Returned]
          /\ sendMu' \in Calls \cup {"monitor", "nobody"}
      BY <1>4 DEF TypeOK, SendCall, Unlock, Running, Returned
    <2>2. outbound' \in Seq(InFlight) /\ Len(outbound') <= QueueSize
      BY <1>4, PutTyped DEF TypeOK, SendCall, PutFails, InFlight, Requests
    <2>3. pending' \subseteq Requests /\ activeCalls' \in Int
      BY <1>4, DropTyped DEF TypeOK, SendCall
    <2> QED BY <1>4, <2>1, <2>2, <2>3 DEF TypeOK, SendCall
  <1> QED BY <1>1, <1>2, <1>3, <1>4 DEF CallStep

LEMMA CoreTyped ==
  ASSUME Typed, CoreStep \/ CoreStops \/ ReaderStep
  PROVE  Typed'
  <1> USE DEF Typed, MonitorGoing, peer, slots, calls, heartbeat
  <1>1. CASE CoreTakes
    <2>1. /\ Head(outbound) \in InFlight /\ Tail(outbound) \in Seq(InFlight)
          /\ Len(Tail(outbound)) <= QueueSize
      BY <1>1, SessionAssumption DEF TypeOK, CoreTakes, SessionAssumption
    <2> QED BY <1>1, <2>1 DEF TypeOK, CoreTakes
  <1>2. CASE CoreAnswers
    <2>1. Append(inbound, executing) \in Seq(InFlight)
      BY <1>2 DEF TypeOK, CoreAnswers
    <2> QED BY <1>2, <2>1 DEF TypeOK, CoreAnswers
  <1>3. CASE CoreStops \/ ReadFails
    BY <1>3 DEF TypeOK, CoreStops, ReadFails
  <1>4. CASE Read
    <2> DEFINE id == Head(inbound)
    <2>1. id \in InFlight /\ Tail(inbound) \in Seq(InFlight)
      BY <1>4 DEF TypeOK, Read
    <2>2. pending' \subseteq Requests /\ activeCalls' \in Int
      BY <1>4, DropTyped DEF Read, Deliver
    <2>3. answer' \in [Calls -> Calls \cup {"none"}]
      BY <1>4, <2>1 DEF TypeOK, Read, Deliver
    <2>4. pong' \in BOOLEAN
      BY <1>4 DEF TypeOK, Read, Deliver
    <2> QED BY <1>4, <2>1, <2>2, <2>3, <2>4 DEF TypeOK, Read
  <1> QED BY <1>1, <1>2, <1>3, <1>4 DEF CoreStep, ReaderStep

LEMMA DetachTyped ==
  ASSUME Typed, DetachStep
  PROVE  Typed'
  <1> USE DEF Typed, MonitorGoing, TypeOK, peer, slots, calls, heartbeat
  <1>1. CASE Unbind
    BY <1>1 DEF Unbind
  <1>2. CASE CloseTransport
    BY <1>2 DEF CloseTransport
  <1>3. CASE DropSlots
    BY <1>3 DEF DropSlots
  <1> QED BY <1>1, <1>2, <1>3 DEF DetachStep

\* A ping that is given up leaves queues of the same length.
LEMMA AbandonedTyped ==
  ASSUME TypeOK, Abandoned
  PROVE  /\ outbound' \in Seq(InFlight) /\ Len(outbound') <= QueueSize
         /\ inbound' \in Seq(InFlight)
         /\ executing' \in InFlight \cup {"none"}
  <1>1. ASSUME NEW q \in Seq(InFlight) PROVE Stale(q) \in Seq(InFlight) /\ Len(Stale(q)) = Len(q)
    BY DEF Stale, InFlight
  <1> QED BY <1>1 DEF TypeOK, Abandoned, InFlight

LEMMA MonitorTyped ==
  ASSUME Typed, MonitorStep
  PROVE  Typed'
  <1> USE SessionAssumption DEF Typed, MonitorGoing, MonitorGoes, peer, slots, calls, SessionAssumption
  <1>1. CASE Tick \/ PongArrives
    <2>1. failures' \in 0..FailLimit /\ MonitorGoing'
      BY <1>1 DEF TypeOK, Tick, PongArrives
    <2> QED BY <1>1, <2>1 DEF TypeOK, Tick, PongArrives
  <1>4. CASE RegisterPing \/ LockPing
    BY <1>4 DEF TypeOK, RegisterPing, LockPing, Lock, Requests
  <1>2. CASE SendPing
    <2>1. outbound' \in Seq(InFlight) /\ Len(outbound') <= QueueSize
      BY <1>2, PutTyped DEF TypeOK, SendPing, PutFails, InFlight, Requests
    <2>2. pending' \subseteq Requests /\ activeCalls' \in Int
      BY <1>2, DropTyped DEF TypeOK, SendPing
    <2> QED BY <1>2, <2>1, <2>2 DEF TypeOK, SendPing, Unlock
  <1>3. CASE PingTimesOut \/ PingCutOff
    <2>1. pending' \subseteq Requests /\ activeCalls' \in Int
      BY <1>3, DropTyped DEF PingTimesOut, PingCutOff
    <2>2. failures' \in 0..FailLimit /\ MonitorGoing'
      BY <1>3 DEF TypeOK, PingTimesOut, PingCutOff
    <2>3. monitor' \in {"tick", "detach"}
      BY <1>3 DEF PingTimesOut, PingCutOff
    <2> QED BY <1>3, <2>1, <2>2, <2>3, AbandonedTyped DEF TypeOK, PingTimesOut, PingCutOff
  <1> QED BY <1>1, <1>2, <1>3, <1>4 DEF MonitorStep

\* Every variable keeps its type: the transport's queue does not grow beyond its
\* size, and Monitor detaches before a missed heartbeat more than heartbeatFailLimit.
THEOREM TypeCorrect == Spec => []TypeOK
  <1>1. Init => Typed
    <2>1. <<>> \in Seq(InFlight) /\ Len(<<>>) = 0
      OBVIOUS
    <2>2. QueueSize >= 0 /\ 0 \in 0..FailLimit /\ 0 < FailLimit
      BY SessionAssumption DEF SessionAssumption
    <2>3. ASSUME Init PROVE caller \in [Calls -> {"idle"} \cup Running \cup Returned]
      BY <2>3 DEF Init
    <2>4. ASSUME Init PROVE answer \in [Calls -> Calls \cup {"none"}]
      BY <2>4 DEF Init
    <2>5. ASSUME Init PROVE Typed
      <3>1. pending \subseteq Requests /\ activeCalls \in Int /\ MonitorGoing
        BY <2>2, <2>5 DEF Init, MonitorGoing
      <3> QED BY <2>1, <2>2, <2>3, <2>4, <2>5, <3>1 DEF Init, Typed, TypeOK
    <2> QED BY <2>5
  <1>2. Typed /\ [Next]_vars => Typed'
    <2> SUFFICES ASSUME Typed, [Next]_vars PROVE Typed'
      OBVIOUS
    <2>1. CASE UNCHANGED vars
      BY <2>1 DEF vars, peer, slots, calls, heartbeat, Typed, TypeOK, MonitorGoing
    <2> QED BY <2>1, CallTyped, CoreTyped, DetachTyped, MonitorTyped DEF Next
  <1>3. Typed => TypeOK
    BY DEF Typed
  <1> QED BY <1>1, <1>2, <1>3, PTL DEF Spec
============================================================================
