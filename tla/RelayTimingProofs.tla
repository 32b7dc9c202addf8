------------------------- MODULE RelayTimingProofs -------------------------
(***************************************************************************)
(* The clocks of RelayTiming, for every value of its constants.             *)
(*                                                                         *)
(* Time passes in one action, Pass, and only while nothing is due.  Each    *)
(* deadline is proved from an invariant that adds the time already passed   *)
(* to an upper bound of the time still to go: every other action leaves the *)
(* sum alone or lowers it, and Pass moves one unit from one to the other.   *)
(***************************************************************************)
EXTENDS RelayTiming, FiniteSetTheorems, SequenceTheorems, TLAPS

----------------------------------------------------------------------------
(* Messages under way. *)

Count(q, m) == Cardinality({i \in DOMAIN q : q[i] = m})

InWork(m) == IF work.on = m THEN 1 ELSE 0

UnderWay(m) == Count(to, m) + InWork(m) + Count(from, m)

\* Appending adds the message to the count.
LEMMA AppendCounts ==
  ASSUME NEW S, NEW q \in Seq(S), NEW e \in S, NEW m
  PROVE  /\ Append(q, e) \in Seq(S)
         /\ Len(Append(q, e)) = Len(q) + 1
         /\ DOMAIN q = 1..Len(q) /\ Len(q) \in Nat
         /\ DOMAIN Append(q, e) = 1..Len(q) + 1
         /\ \A i \in 1..Len(q) : Append(q, e)[i] = q[i]
         /\ Append(q, e)[Len(q) + 1] = e
         /\ Count(q, m) \in Nat
         /\ Count(Append(q, e), m) = Count(q, m) + (IF e = m THEN 1 ELSE 0)
  <1> DEFINE at == {i \in DOMAIN q : q[i] = m}
             n == Len(q) + 1
             new == {i \in DOMAIN Append(q, e) : Append(q, e)[i] = m}
  <1>1. /\ Append(q, e) \in Seq(S)
        /\ Len(Append(q, e)) = Len(q) + 1
        /\ DOMAIN q = 1..Len(q) /\ Len(q) \in Nat
        /\ DOMAIN Append(q, e) = 1..Len(q) + 1
        /\ \A i \in 1..Len(q) : Append(q, e)[i] = q[i]
        /\ Append(q, e)[Len(q) + 1] = e
    OBVIOUS
  <1>2. IsFiniteSet(at) /\ n \notin at
    <2>1. IsFiniteSet(1..Len(q)) /\ at \subseteq 1..Len(q)
      BY <1>1, FS_Interval
    <2> QED
      BY <1>1, <2>1, FS_Subset
  <1>3. new = IF e = m THEN at \cup {n} ELSE at
    BY <1>1
  <1>4. Cardinality(at) \in Nat /\ Cardinality(at \cup {n}) = Cardinality(at) + 1
    BY <1>2, FS_AddElement, FS_CardinalityType
  <1>5. Cardinality(new) = Cardinality(at) + (IF e = m THEN 1 ELSE 0)
    <2> HIDE DEF at, new, n
    <2> QED
      BY <1>3, <1>4
  <1> QED
    BY <1>1, <1>4, <1>5 DEF Count

\* Taking the head off takes it out of the count.
LEMMA TailCounts ==
  ASSUME NEW S, NEW q \in Seq(S), q # <<>>, NEW m
  PROVE  /\ Tail(q) \in Seq(S) /\ Head(q) \in S /\ Head(q) = q[1]
         /\ Len(q) \in Nat \ {0} /\ Len(Tail(q)) = Len(q) - 1
         /\ DOMAIN q = 1..Len(q)
         /\ DOMAIN Tail(q) = 1..Len(q) - 1
         /\ \A i \in 1..Len(q) - 1 : Tail(q)[i] = q[i + 1]
         /\ Count(q, m) \in Nat /\ Count(Tail(q), m) \in Nat
         /\ Count(q, m) = Count(Tail(q), m) + (IF Head(q) = m THEN 1 ELSE 0)
  <1> DEFINE at == {i \in DOMAIN q : q[i] = m}
             rest == {i \in DOMAIN Tail(q) : Tail(q)[i] = m}
             shift == [i \in rest |-> i + 1]
  <1>1. /\ Tail(q) \in Seq(S) /\ Head(q) \in S /\ Head(q) = q[1]
        /\ Len(q) \in Nat \ {0} /\ Len(Tail(q)) = Len(q) - 1
        /\ DOMAIN q = 1..Len(q)
        /\ DOMAIN Tail(q) = 1..Len(q) - 1
        /\ \A i \in 1..Len(q) - 1 : Tail(q)[i] = q[i + 1]
    OBVIOUS
  <1>2. IsFiniteSet(rest) /\ IsFiniteSet(at)
    <2>1. IsFiniteSet(1..Len(q)) /\ at \subseteq 1..Len(q) /\ rest \subseteq 1..Len(q)
      BY <1>1, FS_Interval
    <2> QED
      BY <2>1, FS_Subset
  <1>3. shift \in Bijection(rest, at \ {1})
    <2>1. shift \in [rest -> at \ {1}]
      BY <1>1
    <2>2. \A i, j \in rest : shift[i] = shift[j] => i = j
      BY <1>1
    <2>3. \A k \in at \ {1} : \E i \in rest : shift[i] = k
      <3>1. ASSUME NEW k \in at \ {1} PROVE k - 1 \in rest /\ shift[k - 1] = k
        BY <1>1
      <3> QED
        BY <3>1
    <2> HIDE DEF at, rest, shift
    <2> QED
      BY <2>1, <2>2, <2>3 DEF Bijection, Injection, IsInjective, Surjection
  <1>4. Cardinality(rest) = Cardinality(at \ {1})
    <2>1. ExistsBijection(rest, at \ {1})
      BY <1>3 DEF ExistsBijection
    <2> HIDE DEF at, rest, shift
    <2> QED
      BY <1>2, <2>1, FS_Bijection
  <1>5. 1 \in at <=> Head(q) = m
    BY <1>1
  <1>6. /\ Cardinality(at) \in Nat /\ Cardinality(rest) \in Nat
        /\ Cardinality(at \ {1}) = IF 1 \in at THEN Cardinality(at) - 1 ELSE Cardinality(at)
    <2> HIDE DEF at, rest
    <2> QED
      BY <1>2, FS_RemoveElement, FS_CardinalityType
  <1>7. Cardinality(at) = Cardinality(rest) + (IF Head(q) = m THEN 1 ELSE 0)
    <2> HIDE DEF at, rest
    <2> QED
      BY <1>4, <1>5, <1>6
  <1> QED
    BY <1>1, <1>6, <1>7 DEF Count

LEMMA NoneCounted ==
  ASSUME NEW m
  PROVE  /\ Count(<<>>, m) = 0
         /\ \A S : \A q \in Seq(S) :
               /\ Count(q, m) \in Nat
               /\ Count(q, m) = 0 <=> \A i \in DOMAIN q : q[i] # m
  <1>1. Count(<<>>, m) = 0
    <2>1. {i \in DOMAIN <<>> : <<>>[i] = m} = {}
      OBVIOUS
    <2> QED
      BY <2>1, FS_EmptySet DEF Count
  <1>2. ASSUME NEW S, NEW q \in Seq(S)
        PROVE  Count(q, m) \in Nat /\ (Count(q, m) = 0 <=> \A i \in DOMAIN q : q[i] # m)
    <2> DEFINE at == {i \in DOMAIN q : q[i] = m}
    <2>1. IsFiniteSet(1..Len(q)) /\ at \subseteq 1..Len(q)
      BY <1>2, FS_Interval
    <2>2. IsFiniteSet(at)
      BY <2>1, FS_Subset
    <2>3. Cardinality(at) \in Nat /\ (Cardinality(at) = 0 <=> at = {})
      <3> HIDE DEF at
      <3> QED
        BY <2>2, FS_EmptySet, FS_CardinalityType
    <2> QED
      BY <2>3 DEF Count
  <1> QED
    BY <1>1, <1>2

\* A ping that is given up becomes stale where it is.
LEMMA StaleCounts ==
  ASSUME NEW S, "stale" \in S, NEW q \in Seq(S), NEW m, m # "stale"
  PROVE  /\ Stale(q) \in Seq(S) /\ Len(Stale(q)) = Len(q) /\ DOMAIN Stale(q) = DOMAIN q
         /\ \A i \in DOMAIN q : Stale(q)[i] = IF q[i] = "ping" THEN "stale" ELSE q[i]
         /\ Count(Stale(q), m) = IF m = "ping" THEN 0 ELSE Count(q, m)
  <1>1. /\ Len(q) \in Nat /\ DOMAIN q = 1..Len(q)
        /\ Stale(q) = [i \in 1..Len(q) |-> IF q[i] = "ping" THEN "stale" ELSE q[i]]
    BY DEF Stale
  <1>2. \A i \in 1..Len(q) : (IF q[i] = "ping" THEN "stale" ELSE q[i]) \in S
    BY <1>1, ElementOfSeq
  <1>3. Stale(q) \in [1..Len(q) -> S]
    BY <1>1, <1>2
  <1>4. Stale(q) \in Seq(S) /\ Len(Stale(q)) = Len(q)
    BY <1>1, <1>3
  <1>5. /\ DOMAIN Stale(q) = DOMAIN q
        /\ \A i \in DOMAIN q : Stale(q)[i] = IF q[i] = "ping" THEN "stale" ELSE q[i]
    BY <1>1
  <1>6. CASE m = "ping"
    <2>1. \A i \in DOMAIN Stale(q) : Stale(q)[i] # "ping"
      BY <1>5
    <2> QED
      BY <1>4, <1>5, <1>6, <2>1, NoneCounted
  <1>7. CASE m # "ping"
    <2>1. {i \in DOMAIN Stale(q) : Stale(q)[i] = m} = {i \in DOMAIN q : q[i] = m}
      BY <1>5, <1>7
    <2> QED
      BY <1>4, <1>5, <1>7, <2>1 DEF Count
  <1> QED
    BY <1>6, <1>7

----------------------------------------------------------------------------
(* The type invariant, and what is counted. *)

\* A call is counted from before it is sent until its answer is read.
Accounted ==
    /\ activeCalls = calls.waiting + UnderWay("call")
    /\ activeCalls + calls.left <= Calls

\* The monitor waits for the one ping that is under way.
OnePing == UnderWay("ping") = IF monitor.pc = "wait" THEN 1 ELSE 0

Typed == TypeOK /\ Accounted /\ OnePing

LEMMA Parameters ==
  /\ Interval \in Nat \ {0} /\ Timeout \in Nat \ {0} /\ FailLimit \in Nat \ {0}
  /\ AckTimeout \in Nat \ {0} /\ IdleTimeout \in Nat \ {0}
  /\ ToBuffer \in Nat \ {0} /\ FromBuffer \in Nat \ {0}
  /\ Delay \in Nat /\ Command \in Nat /\ Calls \in Nat
  /\ Timeout <= Interval
  /\ IdleCap \in Nat /\ IdleLimit \in Nat /\ IdleLimit <= IdleCap /\ IdleTimeout <= IdleLimit
  BY TimingAssumption DEF Limits, IdleCap, IdleLimit

\* TypeOK in parts, so that a step proves the ones it touches.
CoreTyped == up \in [Roles -> BOOLEAN] /\ work \in [on : Messages \cup {"none"}, age : Nat]

ToTyped == to \in Seq(Messages) /\ Len(to) <= ToBuffer

FromTyped == from \in Seq(Answered \cup {"chunk"}) /\ Len(from) <= FromBuffer

RequestsTyped == calls \in [left : 0..Calls, waiting : 0..Calls] /\ activeCalls \in 0..Calls

RelayTyped == relay \in [pc : {"free", "put", "send", "ack", "cancel"}, age : 0..AckTimeout]

ClocksTyped ==
    /\ running \in BOOLEAN /\ idle \in 0..IdleCap /\ stuck \in 0..IdleCap
    /\ timer \in 0..IdleTimeout

TickerTyped == ticker \in [phase : 1..Interval, ticked : BOOLEAN]

ExcuseTyped == excuse \in [overtaken : BOOLEAN, held : Nat]

MonitorTyped ==
    monitor \in [pc : {"select", "lock", "wait"}, age : 0..Timeout, failures : 0..FailLimit - 1]

OthersTyped ==
    /\ role \in Roles /\ carrier \in {"http", "websocket"}
    /\ attached \in BOOLEAN /\ silent \in 0..SilentBound

LEMMA TypeParts ==
  TypeOK <=> /\ CoreTyped /\ ToTyped /\ FromTyped /\ RequestsTyped /\ RelayTyped
             /\ ClocksTyped /\ TickerTyped /\ MonitorTyped /\ ExcuseTyped /\ OthersTyped
  BY DEF TypeOK, CoreTyped, ToTyped, FromTyped, RequestsTyped, RelayTyped, ClocksTyped,
         TickerTyped, MonitorTyped, ExcuseTyped, OthersTyped

LEMMA TypePartsNext ==
  TypeOK' <=> /\ CoreTyped' /\ ToTyped' /\ FromTyped' /\ RequestsTyped' /\ RelayTyped'
              /\ ClocksTyped' /\ TickerTyped' /\ MonitorTyped' /\ ExcuseTyped' /\ OthersTyped'
  BY DEF TypeOK, CoreTyped, ToTyped, FromTyped, RequestsTyped, RelayTyped, ClocksTyped,
         TickerTyped, MonitorTyped, ExcuseTyped, OthersTyped

LEMMA PartsKept ==
  ASSUME TypeOK
  PROVE  /\ UNCHANGED core => CoreTyped'
         /\ UNCHANGED to => ToTyped'
         /\ UNCHANGED from => FromTyped'
         /\ UNCHANGED requests => RequestsTyped'
         /\ UNCHANGED relay => RelayTyped'
         /\ UNCHANGED <<running, idle, stuck, timer>> => ClocksTyped'
         /\ UNCHANGED ticker => TickerTyped'
         /\ UNCHANGED monitor => MonitorTyped'
         /\ UNCHANGED excuse => ExcuseTyped'
         /\ UNCHANGED <<setting, attached, silent>> => OthersTyped'
  <1>1. UNCHANGED core => CoreTyped'
    BY TypeParts DEF core, CoreTyped
  <1>2. /\ UNCHANGED to => ToTyped'
        /\ UNCHANGED from => FromTyped'
        /\ UNCHANGED requests => RequestsTyped'
        /\ UNCHANGED relay => RelayTyped'
    BY TypeParts DEF requests, ToTyped, FromTyped, RequestsTyped, RelayTyped
  <1>3. /\ UNCHANGED <<running, idle, stuck, timer>> => ClocksTyped'
        /\ UNCHANGED ticker => TickerTyped'
        /\ UNCHANGED monitor => MonitorTyped'
        /\ UNCHANGED excuse => ExcuseTyped'
        /\ UNCHANGED <<setting, attached, silent>> => OthersTyped'
    BY TypeParts DEF setting, ClocksTyped, TickerTyped, MonitorTyped, ExcuseTyped, OthersTyped
  <1> QED
    BY <1>1, <1>2, <1>3

LEMMA UnderWayCounted ==
  ASSUME TypeOK, NEW m
  PROVE  /\ Count(to, m) \in Nat /\ Count(from, m) \in Nat /\ InWork(m) \in {0, 1}
         /\ UnderWay(m) \in Nat
  <1>1. to \in Seq(Messages) /\ from \in Seq(Answered \cup {"chunk"})
    BY DEF TypeOK
  <1>2. Count(to, m) \in Nat /\ Count(from, m) \in Nat
    BY <1>1, NoneCounted
  <1> QED
    BY <1>2 DEF UnderWay, InWork

\* A message handed to the connection is one more under way.
LEMMA PutOne ==
  ASSUME TypeOK, NEW e \in Messages, to' = Append(to, e), UNCHANGED <<work, from>>, NEW m
  PROVE  /\ to' \in Seq(Messages) /\ Len(to') = Len(to) + 1
         /\ UnderWay(m)' = UnderWay(m) + (IF e = m THEN 1 ELSE 0)
  <1>1. to \in Seq(Messages)
    BY DEF TypeOK
  <1>2. /\ to' \in Seq(Messages) /\ Len(to') = Len(to) + 1
        /\ Count(to', m) = Count(to, m) + (IF e = m THEN 1 ELSE 0)
    BY <1>1, AppendCounts
  <1> QED
    BY <1>2, UnderWayCounted DEF UnderWay, InWork

\* What the Core takes, and what it answers, stays under way.
LEMMA TakeKeeps ==
  ASSUME TypeOK, Take, NEW m \in Messages
  PROVE  /\ to' \in Seq(Messages) /\ Len(to') = Len(to) - 1 /\ work'.on \in Messages
         /\ UnderWay(m)' = UnderWay(m)
  <1>1. to \in Seq(Messages) /\ to # <<>>
    BY DEF TypeOK, Take
  <1>2. /\ to' \in Seq(Messages) /\ Len(to') = Len(to) - 1 /\ Head(to) \in Messages
        /\ Count(to, m) = Count(to', m) + (IF Head(to) = m THEN 1 ELSE 0)
        /\ Count(to', m) \in Nat
    BY <1>1, TailCounts DEF Take
  <1>3. work'.on = Head(to) /\ work.on = "none" /\ from' = from /\ m # "none"
    BY DEF Take, Messages, Answered
  <1>4. InWork(m) = 0 /\ InWork(m)' = IF Head(to) = m THEN 1 ELSE 0
    BY <1>3 DEF InWork
  <1> QED
    BY <1>2, <1>3, <1>4, UnderWayCounted DEF UnderWay

LEMMA AnswerKeeps ==
  ASSUME TypeOK, Answer, NEW m \in Messages
  PROVE  /\ from' \in Seq(Answered \cup {"chunk"}) /\ Len(from') = Len(from) + 1
         /\ UnderWay(m)' = UnderWay(m)
  <1>1. /\ from \in Seq(Answered \cup {"chunk"}) /\ work.on \in Answered \cup {"chunk"}
        /\ from' = Append(from, work.on)
    BY DEF TypeOK, Answer
  <1>2. /\ from' \in Seq(Answered \cup {"chunk"}) /\ Len(from') = Len(from) + 1
        /\ Count(from', m) = Count(from, m) + (IF work.on = m THEN 1 ELSE 0)
    BY <1>1, AppendCounts
  <1>3. work'.on = "none" /\ to' = to /\ m # "none"
    BY DEF Answer, Resting, Messages, Answered
  <1>4. InWork(m) = (IF work.on = m THEN 1 ELSE 0) /\ InWork(m)' = 0
    BY <1>3 DEF InWork
  <1> QED
    BY <1>2, <1>3, <1>4, UnderWayCounted DEF UnderWay

\* What the reader takes is under way no longer.
LEMMA ReadOne ==
  ASSUME TypeOK, from # <<>>, from' = Tail(from), UNCHANGED <<work, to>>, NEW m
  PROVE  /\ from' \in Seq(Answered \cup {"chunk"}) /\ Len(from') = Len(from) - 1
         /\ UnderWay(m) = UnderWay(m)' + (IF Head(from) = m THEN 1 ELSE 0)
         /\ UnderWay(m)' \in Nat
  <1>1. from \in Seq(Answered \cup {"chunk"})
    BY DEF TypeOK
  <1>2. /\ from' \in Seq(Answered \cup {"chunk"}) /\ Len(from') = Len(from) - 1
        /\ Count(from, m) = Count(from', m) + (IF Head(from) = m THEN 1 ELSE 0)
        /\ Count(from', m) \in Nat
    BY <1>1, TailCounts
  <1> QED
    BY <1>2, UnderWayCounted DEF UnderWay, InWork

LEMMA TypedInit ==
  Init => Typed
  <1> SUFFICES ASSUME Init PROVE Typed
    OBVIOUS
  <1>1. TypeOK
    <2>1. role \in Roles /\ carrier \in {"http", "websocket"} /\ up \in [Roles -> BOOLEAN]
      BY DEF Init
    <2>2. /\ to \in Seq(Messages) /\ Len(to) <= ToBuffer
          /\ from \in Seq(Answered \cup {"chunk"}) /\ Len(from) <= FromBuffer
          /\ work \in [on : Messages \cup {"none"}, age : Nat]
      BY Parameters DEF Init, Resting
    <2>3. /\ calls \in [left : 0..Calls, waiting : 0..Calls] /\ activeCalls \in 0..Calls
          /\ idle \in 0..IdleCap /\ stuck \in 0..IdleCap
          /\ timer \in 0..IdleTimeout /\ silent \in 0..SilentBound
      <3>1. FailLimit * Interval \in Nat
        BY Parameters
      <3> QED
        BY <3>1, Parameters DEF Init, SilentBound
    <2>4. /\ running \in BOOLEAN /\ attached \in BOOLEAN
          /\ relay \in [pc : {"free", "put", "send", "ack", "cancel"}, age : 0..AckTimeout]
          /\ monitor \in [pc : {"select", "lock", "wait"}, age : 0..Timeout,
                          failures : 0..FailLimit - 1]
      BY Parameters DEF Init, Free
    <2>5. ticker \in [phase : 1..Interval, ticked : BOOLEAN]
      <3>1. [phase : 1..Interval, ticked : {FALSE}] \subseteq [phase : 1..Interval, ticked : BOOLEAN]
        OBVIOUS
      <3> QED
        BY <3>1 DEF Init
    <2>6. excuse \in [overtaken : BOOLEAN, held : Nat]
      BY DEF Init, NoExcuse
    <2> QED
      BY <2>1, <2>2, <2>3, <2>4, <2>5, <2>6 DEF TypeOK
  <1>2. \A m \in Messages : UnderWay(m) = 0
    BY NoneCounted DEF Init, UnderWay, InWork, Resting, Messages, Answered
  <1>3. "call" \in Messages /\ "ping" \in Messages
    BY DEF Messages, Answered
  <1> QED
    BY <1>1, <1>2, <1>3, Parameters DEF Init, Typed, Accounted, OnePing

\* The steps of the Core keep the types and the counts.
LEMMA TypedCore ==
  Typed /\ CoreStep => Typed'
  <1> SUFFICES ASSUME Typed, CoreStep PROVE Typed'
    OBVIOUS
  <1> USE DEF setting, core, pipes, requests, transfer, heartbeat
  <1>t. TypeOK
    BY DEF Typed
  <1>m. "call" \in Messages /\ "ping" \in Messages
    BY DEF Messages, Answered
  <1>u. up \in [Roles -> BOOLEAN] /\ work \in [on : Messages \cup {"none"}, age : Nat]
    BY <1>t DEF TypeOK
  <1>1. CASE Take
    <2>1. /\ to' \in Seq(Messages) /\ Len(to') = Len(to) - 1 /\ work'.on \in Messages
          /\ UnderWay("call")' = UnderWay("call") /\ UnderWay("ping")' = UnderWay("ping")
      BY <1>t, <1>1, <1>m, TakeKeeps
    <2>2. ToTyped'
      BY <1>t, <2>1, Parameters DEF TypeOK, ToTyped
    <2>3. CoreTyped'
      BY <1>u, <1>1, <2>1 DEF Take, CoreTyped
    <2>4. TypeOK'
      BY <1>t, <1>1, <2>2, <2>3, PartsKept, TypePartsNext DEF Take
    <2> QED
      BY <1>1, <2>1, <2>4 DEF Take, Typed, Accounted, OnePing
  <1>2. CASE Answer
    <2>1. /\ from' \in Seq(Answered \cup {"chunk"}) /\ Len(from') = Len(from) + 1
          /\ UnderWay("call")' = UnderWay("call") /\ UnderWay("ping")' = UnderWay("ping")
      BY <1>t, <1>2, <1>m, AnswerKeeps
    <2>2. FromTyped'
      BY <1>t, <1>2, <2>1, Parameters DEF TypeOK, FromTyped, Answer, RoomFrom
    <2>3. CoreTyped'
      BY <1>u, <1>2 DEF Answer, CoreTyped, Resting
    <2>4. TypeOK'
      BY <1>t, <1>2, <2>2, <2>3, PartsKept, TypePartsNext DEF Answer
    <2> QED
      BY <1>2, <2>1, <2>4 DEF Answer, Typed, Accounted, OnePing
  <1>3. CASE Store
    <2>1. CoreTyped'
      BY <1>u, <1>3 DEF Store, CoreTyped, Resting
    <2>2. RelayTyped' /\ ClocksTyped'
      <3>1. /\ relay' = relay \/ relay' = [pc |-> "free", age |-> 0]
            /\ idle' = idle \/ idle' = 0
            /\ stuck' = stuck \/ stuck' = 0
            /\ UNCHANGED <<running, timer>>
        BY <1>3 DEF Store, Progress, Free
      <3>2. RelayTyped /\ ClocksTyped
        BY <1>t, TypeParts
      <3>3. RelayTyped'
        BY <3>1, <3>2, Parameters DEF RelayTyped
      <3>4. ClocksTyped'
        BY <3>1, <3>2, Parameters DEF ClocksTyped
      <3> QED
        BY <3>3, <3>4
    <2>3. TypeOK'
      BY <1>t, <1>3, <2>1, <2>2, PartsKept, TypePartsNext DEF Store
    <2>4. \A m \in Answered : UnderWay(m)' = UnderWay(m)
      BY <1>3 DEF Store, UnderWay, InWork, Answered, Resting
    <2> QED
      BY <1>3, <2>3, <2>4 DEF Store, Typed, Accounted, OnePing, Answered
  <1>4. CASE Stream
    <2>1. /\ from' \in Seq(Answered \cup {"chunk"}) /\ Len(from') = Len(from) + 1
          /\ \A m \in Answered : Count(from', m) = Count(from, m)
      <3>1. from \in Seq(Answered \cup {"chunk"}) /\ from' = Append(from, "chunk")
        BY <1>t, <1>4 DEF Stream, TypeOK
      <3>2. "chunk" \notin Answered
        BY DEF Answered
      <3>3. /\ from' \in Seq(Answered \cup {"chunk"}) /\ Len(from') = Len(from) + 1
            /\ \A m : /\ Count(from, m) \in Nat
                      /\ Count(from', m) = Count(from, m) + (IF "chunk" = m THEN 1 ELSE 0)
        BY <3>1, AppendCounts
      <3> QED
        BY <3>2, <3>3
    <2>2. FromTyped'
      BY <1>t, <1>4, <2>1, Parameters DEF TypeOK, FromTyped, Stream, RoomFrom
    <2>3. TypeOK'
      BY <1>t, <1>4, <2>2, PartsKept, TypePartsNext DEF Stream
    <2>4. \A m \in Answered : UnderWay(m)' = UnderWay(m)
      BY <1>4, <2>1 DEF Stream, UnderWay, InWork
    <2> QED
      BY <1>4, <2>3, <2>4 DEF Stream, Typed, Accounted, OnePing, Answered
  <1> QED
    BY <1>1, <1>2, <1>3, <1>4 DEF CoreStep

\* So do the reader and the relay.
LEMMA TypedRelay ==
  Typed /\ (ReaderStep \/ RelayStep) => Typed'
  <1> SUFFICES ASSUME Typed, ReaderStep \/ RelayStep PROVE Typed'
    OBVIOUS
  <1> USE DEF setting, core, pipes, requests, transfer, heartbeat
  <1>t. TypeOK
    BY DEF Typed
  <1>m. "call" \in Messages /\ "ping" \in Messages /\ "chunk" \in Messages /\ "cancel" \in Messages
    BY DEF Messages, Answered
  <1>n. UnderWay("call") \in Nat /\ UnderWay("ping") \in Nat
    BY <1>t, UnderWayCounted
  <1>1. CASE ReadAnswer
    <2>1. /\ from' \in Seq(Answered \cup {"chunk"}) /\ Len(from') = Len(from) - 1
          /\ UnderWay("call") = UnderWay("call")' + (IF Head(from) = "call" THEN 1 ELSE 0)
          /\ UnderWay("ping") = UnderWay("ping")' + (IF Head(from) = "ping" THEN 1 ELSE 0)
          /\ UnderWay("call")' \in Nat /\ UnderWay("ping")' \in Nat
      BY <1>t, <1>1, ReadOne DEF ReadAnswer
    <2>c. /\ calls.left \in Nat /\ calls.waiting \in Nat
          /\ activeCalls \in Nat /\ activeCalls + calls.left <= Calls
          /\ activeCalls = calls.waiting + UnderWay("call")
      BY <1>t, Parameters DEF TypeOK, Typed, Accounted
    <2>2. Accounted' /\ RequestsTyped'
      <3>1. activeCalls' \in Nat /\ activeCalls' <= activeCalls /\ calls' = calls
            /\ activeCalls' = calls.waiting + UnderWay("call")'
        BY <1>1, <2>1, <2>c DEF ReadAnswer
      <3>2. calls \in [left : 0..Calls, waiting : 0..Calls] /\ activeCalls \in 0..Calls
        BY <1>t DEF TypeOK
      <3> QED
        BY <2>c, <3>1, <3>2, Parameters DEF Accounted, RequestsTyped
    <2>3. FromTyped' /\ MonitorTyped'
      BY <1>t, <1>1, <2>1, Parameters DEF ReadAnswer, TypeOK, FromTyped, MonitorTyped
    <2>6. ExcuseTyped'
      <3>1. ExcuseTyped
        BY <1>t, TypeParts
      <3> QED
        BY <1>1, <3>1 DEF ReadAnswer, NoExcuse, ExcuseTyped
    <2>4. TypeOK'
      BY <1>t, <1>1, <2>2, <2>3, <2>6, PartsKept, TypePartsNext DEF ReadAnswer
    <2>5. OnePing'
      <3>1. monitor.pc \in {"select", "lock", "wait"}
        BY <1>t DEF TypeOK
      <3> QED
        BY <1>1, <2>1, <3>1 DEF ReadAnswer, Typed, OnePing
    <2> QED
      BY <2>2, <2>4, <2>5 DEF Typed
  <1>2. CASE ReadChunk
    <2>1. /\ from' \in Seq(Answered \cup {"chunk"}) /\ Len(from') = Len(from) - 1
          /\ UnderWay("call") = UnderWay("call")'
          /\ UnderWay("ping") = UnderWay("ping")'
      <3>1. Head(from) = "chunk" /\ "chunk" # "call" /\ "chunk" # "ping"
            /\ from # <<>> /\ from' = Tail(from) /\ UNCHANGED <<work, to>>
        BY <1>2 DEF ReadChunk
      <3>2. \A m : /\ UnderWay(m) = UnderWay(m)' + (IF Head(from) = m THEN 1 ELSE 0)
                   /\ UnderWay(m)' \in Nat
                   /\ from' \in Seq(Answered \cup {"chunk"}) /\ Len(from') = Len(from) - 1
        BY <1>t, <3>1, ReadOne
      <3> QED
        BY <3>1, <3>2
    <2>2. FromTyped' /\ RelayTyped'
      BY <1>t, <1>2, <2>1, Parameters DEF ReadChunk, TypeOK, FromTyped, RelayTyped
    <2>3. TypeOK'
      BY <1>t, <1>2, <2>2, PartsKept, TypePartsNext DEF ReadChunk
    <2> QED
      BY <1>2, <2>1, <2>3 DEF ReadChunk, Typed, Accounted, OnePing
  <1>3. CASE PutChunk \/ PutCancel
    <2>1. PICK e \in {"chunk", "cancel"} :
             /\ to' = Append(to, e) /\ RoomTo
             /\ UNCHANGED <<core, from, requests, heartbeat, setting, silent, running, timer>>
      BY <1>3 DEF PutChunk, PutCancel, CanSend, Progress
    <2>2. /\ to' \in Seq(Messages) /\ Len(to') = Len(to) + 1
          /\ UnderWay("call")' = UnderWay("call") /\ UnderWay("ping")' = UnderWay("ping")
      <3>1. e \in Messages /\ e # "call" /\ e # "ping"
        BY <1>m, <2>1
      <3>2. \A m : /\ UnderWay(m)' = UnderWay(m) + (IF e = m THEN 1 ELSE 0)
                   /\ to' \in Seq(Messages) /\ Len(to') = Len(to) + 1
        BY <1>t, <2>1, <3>1, PutOne
      <3> QED
        BY <1>n, <3>1, <3>2
    <2>3. ToTyped'
      BY <1>t, <2>1, <2>2, Parameters DEF TypeOK, ToTyped, RoomTo
    <2>4. RelayTyped' /\ ClocksTyped'
      <3>1. /\ relay' = Free \/ relay' = [pc |-> "ack", age |-> 0]
            /\ idle' = idle \/ idle' = 0
            /\ stuck' = stuck \/ stuck' = 0
        BY <1>3 DEF PutChunk, PutCancel, Progress
      <3> QED
        BY <1>t, <2>1, <3>1, Parameters, TypeParts DEF Free, RelayTyped, ClocksTyped
    <2>5. TypeOK'
      BY <1>t, <2>1, <2>3, <2>4, PartsKept, TypePartsNext
    <2> QED
      BY <2>1, <2>2, <2>5 DEF Typed, Accounted, OnePing
  <1>4. CASE PeerTakes \/ ChunkArrives \/ AckTimesOut \/ Complete \/ Expire
    <2>1. UNCHANGED <<setting, core, pipes, requests, heartbeat, silent>>
      BY <1>4 DEF PeerTakes, ChunkArrives, AckTimesOut, Complete, Expire, Progress
    <2>2. RelayTyped'
      <3>1. \/ relay' = relay
            \/ relay' = Free
            \/ \E pc \in {"put", "cancel"} : relay' = [pc |-> pc, age |-> 0]
        BY <1>4 DEF PeerTakes, ChunkArrives, AckTimesOut, Complete, Expire, Fail, Progress
      <3> QED
        BY <1>t, <3>1, Parameters DEF Free, TypeOK, RelayTyped
    <2>3. ClocksTyped'
      <3>1. running' = running \/ running' = FALSE
        BY <1>4 DEF PeerTakes, ChunkArrives, AckTimesOut, Complete, Expire, Fail, End, Progress
      <3>2. /\ idle' = idle \/ idle' = 0
            /\ stuck' = stuck \/ stuck' = 0
            /\ timer' = timer \/ timer' = 0 \/ (idle < IdleTimeout /\ timer' = IdleTimeout - idle)
        BY <1>4 DEF PeerTakes, ChunkArrives, AckTimesOut, Complete, Expire, Fail, End, Progress
      <3>3. idle' \in 0..IdleCap /\ stuck' \in 0..IdleCap /\ timer' \in 0..IdleTimeout
        <4>1. idle \in 0..IdleCap /\ stuck \in 0..IdleCap /\ timer \in 0..IdleTimeout
          BY <1>t, TypeParts DEF ClocksTyped
        <4> QED
          BY <4>1, <3>2, Parameters
      <3>4. running \in BOOLEAN
        BY <1>t DEF TypeOK
      <3> QED
        BY <3>1, <3>3, <3>4 DEF ClocksTyped
    <2>4. TypeOK'
      BY <1>t, <2>1, <2>2, <2>3, PartsKept, TypePartsNext
    <2>5. \A m \in Answered : UnderWay(m)' = UnderWay(m)
      BY <2>1 DEF UnderWay, InWork
    <2> QED
      BY <2>1, <2>4, <2>5 DEF Typed, Accounted, OnePing, Answered
  <1> QED
    BY <1>1, <1>2, <1>3, <1>4 DEF ReaderStep, RelayStep

\* A ping that was missed, or the end of the session.
LEMMA TypedMiss ==
  Typed /\ Miss => Typed'
  <1> SUFFICES ASSUME Typed, Miss PROVE Typed'
    OBVIOUS
  <1>t. TypeOK
    BY DEF Typed
  <1>r. RequestsTyped /\ MonitorTyped /\ ToTyped /\ FromTyped
    BY <1>t, TypeParts
  <1>x. ExcuseTyped'
    BY DEF Miss, MissUpTo, NoExcuse, ExcuseTyped
  <1>1. CASE monitor.failures + 1 >= FailLimit
    <2>1. /\ attached' = FALSE /\ running' = FALSE /\ idle' = 0 /\ stuck' = 0 /\ timer' = 0
          /\ to' = <<>> /\ from' = <<>> /\ work' = Resting /\ activeCalls' = 0
          /\ monitor' = [monitor EXCEPT !.pc = "select", !.age = 0]
          /\ calls' = [calls EXCEPT !.waiting = 0]
          /\ UNCHANGED <<up, relay, setting, ticker, silent>>
      BY <1>1 DEF Miss, MissUpTo, Detach, End
    <2>c. CoreTyped /\ OthersTyped
      BY <1>t, TypeParts
    <2>a. CoreTyped' /\ OthersTyped'
      BY <2>c, <2>1 DEF CoreTyped, OthersTyped, Resting, setting
    <2>b. ToTyped' /\ FromTyped'
      BY <2>1, Parameters DEF ToTyped, FromTyped
    <2>2. CoreTyped' /\ ToTyped' /\ FromTyped' /\ OthersTyped'
      BY <2>a, <2>b
    <2>d. RequestsTyped'
      BY <1>r, <2>1, Parameters DEF RequestsTyped
    <2>e. MonitorTyped'
      <3>1. monitor.failures \in 0..FailLimit - 1 /\ 0 \in 0..Timeout
        BY <1>r, Parameters DEF MonitorTyped
      <3>2. monitor' = [pc |-> "select", age |-> 0, failures |-> monitor.failures]
        BY <1>r, <2>1 DEF MonitorTyped
      <3> QED
        BY <3>1, <3>2 DEF MonitorTyped
    <2>f. ClocksTyped'
      <3>1. idle' \in 0..IdleCap /\ stuck' \in 0..IdleCap /\ timer' \in 0..IdleTimeout
        BY <2>1, Parameters
      <3> QED
        BY <2>1, <3>1 DEF ClocksTyped
    <2>3. RequestsTyped' /\ MonitorTyped' /\ ClocksTyped'
      BY <2>d, <2>e, <2>f
    <2>4. TypeOK'
      BY <1>t, <1>x, <2>1, <2>2, <2>3, PartsKept, TypePartsNext
    <2>5. UnderWay("call")' = 0 /\ UnderWay("ping")' = 0
      BY <2>1, NoneCounted DEF UnderWay, InWork, Resting
    <2> QED
      BY <1>r, <2>1, <2>4, <2>5, Parameters
         DEF Typed, Accounted, OnePing, RequestsTyped, MonitorTyped
  <1>2. CASE ~(monitor.failures + 1 >= FailLimit)
    <2>1. /\ monitor.pc = "wait"
          /\ monitor' = [pc |-> "select", age |-> 0, failures |-> monitor.failures + 1]
          /\ to' = Stale(to) /\ from' = Stale(from)
          /\ work' = IF work.on = "ping" THEN [work EXCEPT !.on = "stale"] ELSE work
          /\ UNCHANGED <<setting, up, requests, transfer, attached, ticker, silent>>
      BY <1>2 DEF Miss, MissUpTo
    <2>s. "stale" \in Messages /\ "stale" \in Answered \cup {"chunk"}
      BY DEF Messages, Answered
    <2>2. /\ to' \in Seq(Messages) /\ Len(to') = Len(to)
          /\ Count(to', "call") = Count(to, "call") /\ Count(to', "ping") = 0
      BY <1>r, <2>1, <2>s, StaleCounts DEF ToTyped
    <2>3. /\ from' \in Seq(Answered \cup {"chunk"}) /\ Len(from') = Len(from)
          /\ Count(from', "call") = Count(from, "call") /\ Count(from', "ping") = 0
      BY <1>r, <2>1, <2>s, StaleCounts DEF FromTyped
    <2>4. ToTyped' /\ FromTyped'
      BY <1>r, <2>2, <2>3 DEF ToTyped, FromTyped
    <2>5. CoreTyped' /\ InWork("call")' = InWork("call") /\ InWork("ping")' = 0
      BY <1>t, <2>1, <2>s, TypeParts DEF CoreTyped, InWork
    <2>6. MonitorTyped'
      BY <1>2, <1>r, <2>1, Parameters DEF MonitorTyped
    <2>7. TypeOK'
      BY <1>t, <1>x, <2>1, <2>4, <2>5, <2>6, PartsKept, TypePartsNext DEF requests, transfer
    <2>8. UnderWay("call")' = UnderWay("call") /\ UnderWay("ping")' = 0
      BY <2>2, <2>3, <2>5 DEF UnderWay
    <2> QED
      BY <2>1, <2>7, <2>8 DEF Typed, Accounted, OnePing, requests
  <1> QED
    BY <1>1, <1>2

LEMMA TypedMonitor ==
  Typed /\ MonitorStep => Typed'
  <1> SUFFICES ASSUME Typed, MonitorStep PROVE Typed'
    OBVIOUS
  <1> USE DEF setting, core, pipes, requests, transfer, heartbeat
  <1>t. TypeOK
    BY DEF Typed
  <1>r. MonitorTyped /\ ToTyped /\ TickerTyped
    BY <1>t, TypeParts
  <1>1. CASE Load
    <2>1. TickerTyped'
      <3>1. ticker' = [ticker EXCEPT !.ticked = FALSE]
        BY <1>1 DEF Load
      <3> QED
        BY <1>r, <3>1 DEF TickerTyped
    <2>2. MonitorTyped' /\ monitor.pc = "select" /\ monitor'.pc \in {"select", "lock"}
      BY <1>1, <1>r, Parameters DEF MonitorTyped, Load
    <2>3. TypeOK'
      BY <1>t, <1>1, <2>1, <2>2, PartsKept, TypePartsNext DEF Load
    <2>4. \A m \in Answered : UnderWay(m)' = UnderWay(m)
      BY <1>1 DEF Load, UnderWay, InWork
    <2> QED
      BY <1>1, <2>2, <2>3, <2>4 DEF Load, Typed, Accounted, OnePing, Answered
  <1>2. CASE PutPing
    <2>1. /\ to' \in Seq(Messages) /\ Len(to') = Len(to) + 1
          /\ UnderWay("call")' = UnderWay("call")
          /\ UnderWay("ping")' = UnderWay("ping") + 1
      <3>1. "ping" \in Messages /\ "ping" # "call"
            /\ to' = Append(to, "ping") /\ UNCHANGED <<work, from>>
        BY <1>2 DEF PutPing, Messages, Answered
      <3>2. \A m : /\ UnderWay(m)' = UnderWay(m) + (IF "ping" = m THEN 1 ELSE 0)
                   /\ to' \in Seq(Messages) /\ Len(to') = Len(to) + 1
        BY <1>t, <3>1, PutOne
      <3>3. UnderWay("call") \in Nat
        BY <1>t, UnderWayCounted
      <3> QED
        BY <3>1, <3>2, <3>3
    <2>2. ToTyped'
      BY <1>2, <1>r, <2>1, Parameters DEF PutPing, CanSend, RoomTo, ToTyped
    <2>3. MonitorTyped' /\ monitor.pc = "lock" /\ monitor'.pc = "wait"
      <3>1. monitor' = [monitor EXCEPT !.pc = "wait", !.age = 0] /\ monitor.pc = "lock"
        BY <1>2 DEF PutPing
      <3>2. monitor.failures \in 0..FailLimit - 1 /\ 0 \in 0..Timeout
        BY <1>r, Parameters DEF MonitorTyped
      <3>3. monitor' = [pc |-> "wait", age |-> 0, failures |-> monitor.failures]
        BY <1>r, <3>1 DEF MonitorTyped
      <3> QED
        BY <3>1, <3>2, <3>3 DEF MonitorTyped
    <2>4. TypeOK'
      BY <1>t, <1>2, <2>2, <2>3, PartsKept, TypePartsNext DEF PutPing
    <2> QED
      BY <1>2, <2>1, <2>3, <2>4 DEF PutPing, Typed, Accounted, OnePing
  <1> QED
    BY <1>1, <1>2, TypedMiss DEF MonitorStep

LEMMA TypedCalls ==
  Typed /\ (CountCall \/ PutCall) => Typed'
  <1> SUFFICES ASSUME Typed, CountCall \/ PutCall PROVE Typed'
    OBVIOUS
  <1> USE DEF setting, core, pipes, transfer, heartbeat
  <1>t. TypeOK
    BY DEF Typed
  <1>r. RequestsTyped /\ ToTyped /\ UnderWay("call") \in Nat
    BY <1>t, TypeParts, UnderWayCounted
  <1>1. CASE CountCall
    <2>1. /\ calls' = [left |-> calls.left - 1, waiting |-> calls.waiting + 1] /\ calls.left > 0
          /\ activeCalls' = activeCalls + 1
      BY <1>1 DEF CountCall
    <2>2. RequestsTyped' /\ activeCalls' + calls'.left <= Calls
          /\ activeCalls' = calls'.waiting + UnderWay("call")
      BY <1>r, <2>1, Parameters DEF Typed, Accounted, RequestsTyped
    <2>5. ExcuseTyped'
      <3>1. ExcuseTyped
        BY <1>t, TypeParts
      <3> QED
        BY <1>1, <3>1 DEF CountCall, ExcuseTyped
    <2>3. TypeOK'
      BY <1>t, <1>1, <2>2, <2>5, PartsKept, TypePartsNext DEF CountCall
    <2>4. \A m \in Answered : UnderWay(m)' = UnderWay(m)
      BY <1>1 DEF CountCall, UnderWay, InWork
    <2> QED
      BY <1>1, <2>2, <2>3, <2>4 DEF CountCall, Typed, Accounted, OnePing, Answered
  <1>2. CASE PutCall
    <2>1. /\ to' \in Seq(Messages) /\ Len(to') = Len(to) + 1
          /\ UnderWay("call")' = UnderWay("call") + 1
          /\ UnderWay("ping")' = UnderWay("ping")
      <3>1. "call" \in Messages /\ "ping" # "call"
            /\ to' = Append(to, "call") /\ UNCHANGED <<work, from>>
        BY <1>2 DEF PutCall, Messages, Answered
      <3>2. \A m : /\ UnderWay(m)' = UnderWay(m) + (IF "call" = m THEN 1 ELSE 0)
                   /\ to' \in Seq(Messages) /\ Len(to') = Len(to) + 1
        BY <1>t, <3>1, PutOne
      <3>3. UnderWay("ping") \in Nat
        BY <1>t, UnderWayCounted
      <3> QED
        BY <3>1, <3>2, <3>3
    <2>2. ToTyped'
      BY <1>2, <1>r, <2>1, Parameters DEF PutCall, CanSend, RoomTo, ToTyped
    <2>3. /\ RequestsTyped' /\ activeCalls' + calls'.left <= Calls
          /\ activeCalls' = calls'.waiting + UnderWay("call")'
      <3>1. calls' = [calls EXCEPT !.waiting = @ - 1] /\ calls.waiting > 0 /\ activeCalls' = activeCalls
        BY <1>2 DEF PutCall
      <3>2. calls \in [left : 0..Calls, waiting : 0..Calls] /\ activeCalls \in 0..Calls
        BY <1>r DEF RequestsTyped
      <3>3. calls'.waiting = calls.waiting - 1 /\ calls'.left = calls.left
            /\ calls' \in [left : 0..Calls, waiting : 0..Calls]
        BY <3>1, <3>2, Parameters
      <3>4. activeCalls = calls.waiting + UnderWay("call") /\ activeCalls + calls.left <= Calls
        BY DEF Typed, Accounted
      <3>5. RequestsTyped'
        BY <3>1, <3>2, <3>3 DEF RequestsTyped
      <3>6. activeCalls' = calls'.waiting + UnderWay("call")'
        BY <1>r, <2>1, <3>1, <3>2, <3>3, <3>4
      <3> QED
        BY <3>1, <3>3, <3>4, <3>5, <3>6
    <2>4. TypeOK'
      BY <1>t, <1>2, <2>2, <2>3, PartsKept, TypePartsNext DEF PutCall
    <2> QED
      BY <1>2, <2>1, <2>3, <2>4 DEF PutCall, Typed, Accounted, OnePing
  <1> QED
    BY <1>1, <1>2

\* The clock stops at a deadline: nothing grows past it.
LEMMA TypedPass ==
  Typed /\ Pass => Typed'
  <1> SUFFICES ASSUME Typed, Pass PROVE Typed'
    OBVIOUS
  <1>t. TypeOK
    BY DEF Typed
  <1>r. CoreTyped /\ RelayTyped /\ ClocksTyped /\ TickerTyped /\ MonitorTyped /\ OthersTyped
    BY <1>t, TypeParts
  <1>1. CoreTyped'
    <2>1. UNCHANGED up /\ work' = IF work.on = "none" THEN work
                                  ELSE [work EXCEPT !.age = Older(@, Allowed(work.on))]
      BY DEF Pass
    <2>2. Older(work.age, Allowed(work.on)) \in {work.age, work.age + 1}
      BY DEF Older
    <2>3. up \in [Roles -> BOOLEAN] /\ work \in [on : Messages \cup {"none"}, age : Nat]
      BY <1>r DEF CoreTyped
    <2>4. work' \in [on : Messages \cup {"none"}, age : Nat]
      BY <2>1, <2>2, <2>3
    <2> QED
      BY <2>1, <2>3, <2>4 DEF CoreTyped
  <1>2. RelayTyped'
    BY <1>r, Parameters DEF Pass, Older, RelayTyped
  <1>3. ClocksTyped'
    <2>1. idle' \in 0..IdleCap /\ stuck' \in 0..IdleCap /\ timer' \in 0..IdleTimeout
      BY <1>r, Parameters DEF Pass, Older, ClocksTyped
    <2> QED
      BY <1>r, <2>1 DEF Pass, ClocksTyped
  <1>4. TickerTyped'
    <2>1. CASE ticker.phase = Interval
      <3>1. ticker' = [phase |-> 1, ticked |-> TRUE]
        BY <2>1 DEF Pass
      <3> QED
        BY <3>1, Parameters DEF TickerTyped
    <2>2. CASE ticker.phase # Interval
      <3>1. ticker' = [ticker EXCEPT !.phase = @ + 1]
        BY <2>2 DEF Pass
      <3>2. ticker.phase \in 1..Interval /\ ticker.phase + 1 \in 1..Interval
        BY <1>r, <2>2, Parameters DEF TickerTyped
      <3> QED
        BY <1>r, <3>1, <3>2 DEF TickerTyped
    <2> QED
      BY <2>1, <2>2
  <1>5. MonitorTyped' /\ monitor'.pc = monitor.pc
    BY <1>r, Parameters DEF Pass, Due, MonitorTyped
  <1>6. OthersTyped'
    <2>1. SilentBound \in Nat
      <3>1. FailLimit * Interval \in Nat
        BY Parameters
      <3> QED
        BY <3>1, Parameters DEF SilentBound
    <2>2. silent \in 0..SilentBound /\ silent' \in {0, Older(silent, SilentBound)}
      BY <1>r DEF Pass, OthersTyped
    <2>3. silent' \in 0..SilentBound
      BY <2>1, <2>2 DEF Older
    <2> QED
      BY <1>r, <2>3 DEF Pass, OthersTyped, setting
  <1>9. ExcuseTyped'
    <2>1. ExcuseTyped
      BY <1>t, TypeParts
    <2> QED
      BY <2>1 DEF Pass, ExcuseTyped
  <1>7. TypeOK'
    BY <1>t, <1>1, <1>2, <1>3, <1>4, <1>5, <1>6, <1>9, PartsKept, TypePartsNext DEF Pass, pipes, requests
  <1>8. \A m \in Answered : UnderWay(m)' = UnderWay(m)
    BY <1>r DEF Pass, UnderWay, InWork, pipes, CoreTyped
  <1> QED
    BY <1>5, <1>7, <1>8 DEF Pass, Typed, Accounted, OnePing, Answered, requests

LEMMA TypedStep ==
  Typed /\ [Next]_vars => Typed'
  <1> SUFFICES ASSUME Typed, [Next]_vars PROVE Typed'
    OBVIOUS
  <1>1. CASE \E r \in {role, "target"} : Stop(r)
    <2>1. PICK r \in {role, "target"} : Stop(r)
      BY <1>1
    <2>2. TypeOK /\ CoreTyped /\ role \in Roles /\ "target" \in Roles
      BY TypeParts DEF Typed, OthersTyped, Roles
    <2>3. CoreTyped'
      BY <2>1, <2>2 DEF Stop, CoreTyped
    <2>4. TypeOK'
      BY <2>1, <2>2, <2>3, PartsKept, TypePartsNext DEF Stop, pipes, requests, transfer, heartbeat
    <2>5. \A m \in Answered : UnderWay(m)' = UnderWay(m)
      BY <2>1 DEF Stop, UnderWay, InWork, pipes
    <2> QED
      BY <2>1, <2>4, <2>5 DEF Stop, Typed, Accounted, OnePing, Answered, requests, heartbeat
  <1>2. CASE UNCHANGED vars
    BY <1>2 DEF vars, setting, core, pipes, requests, transfer, heartbeat, Typed, TypeOK,
                Accounted, OnePing, UnderWay, InWork
  <1> QED
    BY <1>1, <1>2, TypedCore, TypedRelay, TypedMonitor, TypedCalls, TypedPass DEF Next

\* TypeOK: no clock runs past its bound, no counter below zero.  A step that takes
\* an answer off the connection finds the call it belongs to counted.
THEOREM TypeCorrect == Spec => []TypeOK
  <1>1. Typed => TypeOK
    BY DEF Typed
  <1> QED
    BY <1>1, TypedInit, TypedStep, PTL DEF Spec

----------------------------------------------------------------------------
(* What the part of the observed device in the transfer rules out. *)

\* Chunks leave a source and reach a target, and only an HTTP target acknowledges
\* them; the transfer runs while one is relayed, and its cancel comes last.
RolesInv ==
    attached =>
        /\ role = "source" =>
              relay.pc \notin {"put", "ack"} /\ Count(to, "chunk") + InWork("chunk") = 0
        /\ role = "target" => relay.pc # "send" /\ Count(from, "chunk") = 0
        /\ relay.pc = "ack" => carrier = "http"
        /\ relay.pc \in {"put", "send", "ack"} => running
        /\ running => relay.pc # "cancel"
        /\ running \/ relay.pc = "cancel" => Count(to, "cancel") + InWork("cancel") = 0

LEMMA RolesStep ==
  Typed /\ RolesInv /\ [Next]_vars => RolesInv'
  <1> SUFFICES ASSUME Typed, RolesInv, [Next]_vars, attached' PROVE RolesInv'
    BY DEF RolesInv
  <1>t. TypeOK /\ role \in Roles
    BY DEF Typed, TypeOK
  <1>n. /\ \A m : Count(to, m) \in Nat /\ Count(from, m) \in Nat /\ InWork(m) \in {0, 1}
        /\ to \in Seq(Messages) /\ from \in Seq(Answered \cup {"chunk"})
    BY <1>t, UnderWayCounted DEF TypeOK
  <1> USE DEF setting, core, pipes, requests, transfer, heartbeat
  <1>0. CASE UNCHANGED vars
    BY <1>0 DEF vars, RolesInv, InWork
  <1>1. CASE Take
    <2>1. to # <<>> /\ to' = Tail(to) /\ work.on = "none" /\ work'.on = Head(to)
      BY <1>1 DEF Take
    <2>2. \A m : Count(to, m) = Count(to', m) + (IF Head(to) = m THEN 1 ELSE 0) /\ Count(to', m) \in Nat
      BY <1>n, <2>1, TailCounts
    <2>3. \A m \in {"chunk", "cancel"} : Count(to', m) + InWork(m)' = Count(to, m) + InWork(m)
      BY <2>1, <2>2 DEF InWork
    <2> QED
      BY <1>1, <2>3 DEF Take, RolesInv
  <1>2. CASE Answer
    <2>1. from' = Append(from, work.on) /\ work.on \in Answered /\ work'.on = "none" /\ work.on # "chunk"
      BY <1>2 DEF Answer, Resting, Answered
    <2>2. Count(from', "chunk") = Count(from, "chunk")
      BY <1>n, <2>1, AppendCounts
    <2>3. \A m \in {"chunk", "cancel"} : InWork(m)' = 0 /\ InWork(m) = 0
      BY <2>1 DEF InWork, Answered
    <2> QED
      BY <1>2, <2>2, <2>3 DEF Answer, RolesInv
  <1>3. CASE Store
    <2>1. \A m \in {"chunk", "cancel"} : InWork(m)' = 0
      BY <1>3 DEF Store, InWork, Resting
    <2>2. (relay' = relay \/ relay' = Free) /\ running' = running /\ UNCHANGED <<setting, pipes, attached>>
      BY <1>3 DEF Store, Progress
    <2>3. attached /\ \A m \in {"chunk", "cancel"} : Count(to, m) + InWork(m) = 0 => Count(to', m) + InWork(m)' = 0
      BY <1>n, <2>1, <2>2
    <2> QED
      BY <2>2, <2>3 DEF RolesInv, Free
  <1>4. CASE Stream
    BY <1>4, <1>t DEF Stream, RolesInv, InWork
  <1>5. CASE ReadAnswer \/ ReadChunk
    <2>1. from # <<>> /\ from' = Tail(from) /\ UNCHANGED <<setting, core, to, running, attached>>
      BY <1>5 DEF ReadAnswer, ReadChunk
    <2>2. \A m : Count(from, m) = Count(from', m) + (IF Head(from) = m THEN 1 ELSE 0) /\ Count(from', m) \in Nat
      BY <1>n, <2>1, TailCounts
    <2>3. \/ relay' = relay
          \/ relay.pc = "free" /\ running /\ relay' = [pc |-> "send", age |-> 0] /\ Head(from) = "chunk"
      BY <1>5 DEF ReadAnswer, ReadChunk
    <2>4. Count(from, "chunk") = 0 => Count(from', "chunk") = 0 /\ Head(from) # "chunk"
      BY <1>n, <2>2
    <2> QED
      BY <1>t, <2>1, <2>3, <2>4 DEF RolesInv, InWork, Roles
  <1>6. CASE PutChunk
    <2>1. /\ relay.pc = "put" /\ to' = Append(to, "chunk")
          /\ UNCHANGED <<setting, core, from, running, attached>>
          /\ relay' = IF carrier = "http" THEN [pc |-> "ack", age |-> 0] ELSE Free
      BY <1>6 DEF PutChunk, Progress
    <2>2. Count(to', "cancel") = Count(to, "cancel")
      BY <1>n, <2>1, AppendCounts DEF Messages
    <2> QED
      BY <1>t, <2>1, <2>2 DEF RolesInv, InWork, Free, Roles
  <1>7. CASE PutCancel
    <2>1. /\ relay.pc = "cancel" /\ to' = Append(to, "cancel") /\ relay' = Free
          /\ UNCHANGED <<setting, core, from, running, attached>>
      BY <1>7 DEF PutCancel
    <2>2. Count(to', "chunk") = Count(to, "chunk")
      BY <1>n, <2>1, AppendCounts DEF Messages
    <2> QED
      BY <1>t, <2>1, <2>2 DEF RolesInv, InWork, Free, Roles
  <1>8. CASE PeerTakes \/ ChunkArrives \/ AckTimesOut \/ Complete \/ Expire
    <2>1. UNCHANGED <<setting, core, pipes, attached>>
      BY <1>8 DEF PeerTakes, ChunkArrives, AckTimesOut, Complete, Expire, Progress
    <2>2. \/ UNCHANGED <<relay, running>>
          \/ relay' = Free /\ UNCHANGED running
          \/ role = "target" /\ running /\ relay' = [pc |-> "put", age |-> 0] /\ UNCHANGED running
          \/ relay.pc \in {"send", "ack", "free"} /\ running' = FALSE /\ relay' = [pc |-> "cancel", age |-> 0]
             /\ (relay.pc = "free" => running)
          \/ relay.pc = "free" /\ running' = FALSE /\ relay' = relay
      BY <1>8 DEF PeerTakes, ChunkArrives, AckTimesOut, AwaitingAck, Complete, Expire, Expired, Fail, End, Progress
    <2> QED
      BY <1>t, <2>1, <2>2 DEF RolesInv, InWork, Free, Roles
  <1>9. CASE Load \/ CountCall \/ (\E r \in {role, "target"} : Stop(r))
    BY <1>9 DEF Load, CountCall, Stop, RolesInv, InWork
  <1>10. CASE PutPing \/ PutCall
    <2>1. PICK e \in {"ping", "call"} : to' = Append(to, e)
      BY <1>10 DEF PutPing, PutCall
    <2>2. UNCHANGED <<setting, core, from, transfer, attached>>
      BY <1>10 DEF PutPing, PutCall
    <2>3. e \in Messages /\ e # "chunk" /\ e # "cancel"
      BY <2>1 DEF Messages, Answered
    <2>4. \A m : Count(to', m) = Count(to, m) + (IF e = m THEN 1 ELSE 0)
      BY <1>n, <2>1, <2>3, AppendCounts
    <2> QED
      BY <1>n, <2>2, <2>3, <2>4 DEF RolesInv, InWork
  <1>11. CASE Miss
    <2>1. /\ to' = Stale(to) /\ from' = Stale(from)
          /\ work' = IF work.on = "ping" THEN [work EXCEPT !.on = "stale"] ELSE work
          /\ UNCHANGED <<setting, transfer, attached>>
      BY <1>11 DEF Miss, MissUpTo, Detach
    <2>2. "stale" \in Messages /\ "stale" \in Answered \cup {"chunk"}
      BY DEF Messages, Answered
    <2>3. \A m \in {"chunk", "cancel"} : Count(to', m) = Count(to, m) /\ Count(from', m) = Count(from, m)
      BY <1>n, <2>1, <2>2, StaleCounts
    <2>4. work.on # "ping" => work' = work
      BY <2>1
    <2>5. work.on = "ping" => work'.on = "stale"
      BY <1>t, <2>1 DEF TypeOK
    <2>6. \A m \in {"chunk", "cancel"} : InWork(m)' = InWork(m)
      BY <2>4, <2>5 DEF InWork
    <2> QED
      BY <2>1, <2>3, <2>6 DEF RolesInv
  <1>12. CASE Pass
    <2>1. UNCHANGED <<setting, pipes, running, attached>> /\ relay'.pc = relay.pc /\ work'.on = work.on
      BY <1>t, <1>12 DEF Pass, TypeOK
    <2> QED
      BY <2>1 DEF RolesInv, InWork
  <1> QED
    BY <1>0, <1>1, <1>2, <1>3, <1>4, <1>5, <1>6, <1>7, <1>8, <1>9, <1>10, <1>11, <1>12
       DEF Next, CoreStep, ReaderStep, RelayStep, MonitorStep

----------------------------------------------------------------------------
(* A stopped Core is removed in time. *)

\* While a ping is out no tick is pending, unless the ping was sent after one.
PhaseInv == monitor.pc = "wait" /\ ~ticker.ticked => ticker.phase > monitor.age

\* Time until the ticker's next tick, or zero when one is pending.
NextTick == IF ticker.ticked THEN 0 ELSE Interval - ticker.phase + 1

\* The pong of the ping that is out is on its way.
PongComes == Count(from, "ping") > 0

\* The rounds after this one, as many as there are misses left.
Rounds == (FailLimit - monitor.failures - 1) * Interval

AllRounds == (FailLimit - 1) * Interval

Later(x, y) == IF x < y THEN y ELSE x

\* An upper bound of the time until a silent Core is removed.
ToGo ==
    CASE monitor.pc = "select" -> NextTick + Rounds + Timeout
      [] monitor.pc = "lock" -> Rounds + Timeout
      [] monitor.pc = "wait" ->
            IF PongComes THEN Later(NextTick, Timeout - monitor.age) + AllRounds + Timeout
                         ELSE Timeout - monitor.age + Rounds

\* What the one chunk that can hold sendMu has added to it.
Held ==
    IF role = "target" /\ carrier = "http"
    THEN IF relay.pc = "ack" THEN relay.age ELSE IF running THEN 0 ELSE AckTimeout
    ELSE 0

Owed == activeCalls = 0 /\ ~PingHangs

SilentInv ==
    attached /\ silent > 0 =>
        /\ ~up[role] /\ Count(from, "call") = 0
        /\ Owed => silent + ToGo <= AllRounds + Interval + Timeout + Held

\* The only product in the bounds.
LEMMA Products ==
  ASSUME NEW a \in Nat, NEW b \in Nat, NEW n \in Nat, a <= b
  PROVE  a * n \in Nat /\ b * n \in Nat /\ a * n <= b * n /\ (a + 1) * n = a * n + n
  <1>1. a * n \in Nat /\ b * n \in Nat /\ (a + 1) * n = a * n + n
    OBVIOUS
  <1>2. PICK d \in Nat : b = a + d
    <2>1. b - a \in Nat /\ b = a + (b - a)
      OBVIOUS
    <2> QED
      BY <2>1
  <1>3. (a + d) * n = a * n + d * n /\ d * n \in Nat
    OBVIOUS
  <1> QED
    BY <1>1, <1>2, <1>3

\* Sums of the bounds: what goes down on the left may go up on the right.
LEMMA Budget ==
  ASSUME NEW a \in Nat, NEW b \in Nat, NEW c \in Nat, NEW d \in Nat, NEW e \in Nat,
         NEW k \in Nat, d >= c, e <= b, a + b <= k + c
  PROVE  a + e <= k + d
  OBVIOUS

LEMMA SumsGrow ==
  ASSUME NEW a \in Int, NEW b \in Int, NEW c \in Int, NEW d \in Int, NEW k \in Int, a <= b, c <= d
  PROVE  a + c + k <= b + d + k
  OBVIOUS

LEMMA LaterBounds ==
  ASSUME NEW x \in Int, NEW y \in Int
  PROVE  Later(x, y) \in Int /\ Later(x, y) >= x /\ Later(x, y) >= y
  BY DEF Later

\* A tick comes no later than an interval after the one the ping answered to.
LEMMA RoundOver ==
  ASSUME NEW next \in Nat, NEW left \in Nat, NEW rounds \in Nat,
         left + Interval = rounds, next + Timeout <= Interval
  PROVE  next + left + Timeout <= Timeout - Timeout + rounds
  BY Parameters

LEMMA RoundsBound ==
  ASSUME TypeOK
  PROVE  /\ Rounds \in Nat /\ AllRounds \in Nat /\ Rounds <= AllRounds
         /\ FailLimit * Interval = AllRounds + Interval
         /\ \A n \in Nat : n = monitor.failures + 1 /\ n < FailLimit =>
               (FailLimit - n - 1) * Interval + Interval = Rounds
  <1>1. monitor.failures \in Nat /\ monitor.failures <= FailLimit - 1
    BY TypeParts, Parameters DEF MonitorTyped
  <1>2. FailLimit - monitor.failures - 1 \in Nat /\ FailLimit - 1 \in Nat
        /\ FailLimit - monitor.failures - 1 <= FailLimit - 1 /\ (FailLimit - 1) + 1 = FailLimit
    BY <1>1, Parameters
  <1>3. Rounds \in Nat /\ AllRounds \in Nat /\ Rounds <= AllRounds
    BY <1>2, Products, Parameters DEF Rounds, AllRounds
  <1>4. ((FailLimit - 1) + 1) * Interval = (FailLimit - 1) * Interval + Interval
    BY <1>2, Products, Parameters
  <1>5. ASSUME NEW n \in Nat, n = monitor.failures + 1, n < FailLimit
        PROVE  (FailLimit - n - 1) * Interval + Interval = Rounds
    <2>1. FailLimit - n - 1 \in Nat /\ (FailLimit - n - 1) + 1 = FailLimit - monitor.failures - 1
      BY <1>1, <1>5, Parameters
    <2>2. ((FailLimit - n - 1) + 1) * Interval = (FailLimit - n - 1) * Interval + Interval
      BY <2>1, Products, Parameters
    <2> QED
      BY <2>1, <2>2 DEF Rounds
  <1> QED
    BY <1>2, <1>3, <1>4, <1>5 DEF AllRounds

Bounded ==
    /\ monitor.pc \in {"select", "lock", "wait"} /\ monitor.age \in 0..Timeout
    /\ ticker.phase \in 1..Interval /\ ticker.ticked \in BOOLEAN
    /\ relay.age \in 0..AckTimeout
    /\ silent \in Nat /\ activeCalls \in Nat
    /\ NextTick \in 0..Interval
    /\ Rounds \in Nat
    /\ ToGo \in Nat /\ ToGo <= AllRounds + Interval + Timeout
    /\ Held \in 0..AckTimeout

LEMMA ClockFacts ==
  TypeOK => Bounded
  <1> SUFFICES ASSUME TypeOK PROVE Bounded
    OBVIOUS
  <1>1. /\ monitor.pc \in {"select", "lock", "wait"} /\ monitor.age \in 0..Timeout
        /\ relay.age \in 0..AckTimeout /\ activeCalls \in Nat
    BY TypeParts, Parameters DEF MonitorTyped, RelayTyped, RequestsTyped
  <1>2. ticker.phase \in 1..Interval /\ ticker.ticked \in BOOLEAN
    BY TypeParts DEF TickerTyped
  <1>3. silent \in Nat
    <2>1. silent \in 0..SilentBound /\ SilentBound \in Nat
      BY TypeParts, RoundsBound, Parameters DEF OthersTyped, SilentBound
    <2> QED
      BY <2>1
  <1>4. NextTick \in 0..Interval
    BY <1>2, Parameters DEF NextTick
  <1>5. ToGo \in Nat /\ ToGo <= AllRounds + Interval + Timeout
    <2>1. Later(NextTick, Timeout - monitor.age) \in 0..Interval
      BY <1>1, <1>4, Parameters DEF Later
    <2>2. Rounds \in Nat /\ AllRounds \in Nat /\ Rounds <= AllRounds
      BY RoundsBound
    <2> QED
      BY <1>1, <1>4, <2>1, <2>2, Parameters DEF ToGo
  <1>6. Held \in 0..AckTimeout
    BY <1>1, Parameters DEF Held
  <1> QED
    BY <1>1, <1>2, <1>3, <1>4, <1>5, <1>6, RoundsBound DEF Bounded

LEMMA ClockFactsNext ==
  TypeOK' => Bounded'
  BY ClockFacts, PTL

LEMMA PhaseStep ==
  Typed /\ PhaseInv /\ [Next]_vars => PhaseInv'
  <1> SUFFICES ASSUME Typed, PhaseInv, [Next]_vars PROVE PhaseInv'
    OBVIOUS
  <1> USE DEF setting, core, pipes, requests, transfer, heartbeat
  <1>1. /\ monitor.pc \in {"select", "lock", "wait"} /\ monitor.age \in 0..Timeout
        /\ ticker.phase \in 1..Interval /\ ticker.ticked \in BOOLEAN
        /\ monitor \in [pc : {"select", "lock", "wait"}, age : 0..Timeout, failures : 0..FailLimit - 1]
        /\ ticker \in [phase : 1..Interval, ticked : BOOLEAN]
    BY ClockFacts, TypeParts DEF Typed, MonitorTyped, TickerTyped, Bounded
  <1>2. CASE Pass
    <2>1. ticker.phase = Interval => ticker'.ticked
      BY <1>2 DEF Pass
    <2>2. ticker.phase # Interval => ticker'.phase = ticker.phase + 1 /\ ticker'.ticked = ticker.ticked
      BY <1>1, <1>2 DEF Pass
    <2>3. monitor.pc = "wait" => monitor'.age = monitor.age + 1
      BY <1>1, <1>2 DEF Pass
    <2>4. monitor'.pc = monitor.pc
      BY <1>1, <1>2 DEF Pass
    <2> QED
      BY <1>1, <2>1, <2>2, <2>3, <2>4, Parameters DEF PhaseInv
  <1>3. CASE PutPing
    <2>1. ticker' = ticker /\ monitor'.age = 0
      BY <1>1, <1>3 DEF PutPing
    <2> QED
      BY <1>1, <2>1, Parameters DEF PhaseInv
  <1>4. CASE \/ UNCHANGED vars \/ CoreStep \/ ReadChunk \/ RelayStep \/ CountCall \/ PutCall
             \/ \E r \in {role, "target"} : Stop(r)
    <2>1. monitor' = monitor /\ ticker' = ticker
      BY <1>4 DEF vars, CoreStep, Take, Answer, Store, Stream, ReadChunk, RelayStep, PeerTakes, ChunkArrives,
         PutChunk, AckTimesOut, PutCancel, Complete, Expire, CountCall, PutCall, Stop
    <2> QED
      BY <2>1 DEF PhaseInv
  <1>5. CASE ReadAnswer \/ Load \/ Miss
    <2>1. \/ monitor' = monitor /\ ticker' = ticker
          \/ monitor'.pc # "wait"
      <3>1. CASE ReadAnswer
        BY <3>1 DEF ReadAnswer
      <3>2. CASE Load
        <4>1. monitor.pc = "select"
          BY <3>2 DEF Load
        <4>2. monitor' = [monitor EXCEPT !.failures = 0] \/ monitor' = [monitor EXCEPT !.pc = "lock"]
          BY <3>2 DEF Load
        <4> QED
          BY <1>1, <4>1, <4>2
      <3>3. CASE Miss
        <4>1. \/ monitor' = [monitor EXCEPT !.pc = "select", !.age = 0]
              \/ monitor' = [pc |-> "select", age |-> 0, failures |-> monitor.failures + 1]
          BY <3>3 DEF Miss, MissUpTo, Detach
        <4>2. monitor \in [pc : {"select", "lock", "wait"}, age : 0..Timeout, failures : 0..FailLimit - 1]
          BY <1>1
        <4>3. /\ [monitor EXCEPT !.pc = "select", !.age = 0].pc = "select"
              /\ [pc |-> "select", age |-> 0, failures |-> monitor.failures + 1].pc = "select"
          BY <4>2
        <4>4. monitor'.pc = "select"
          BY <4>1, <4>3, Zenon
        <4> QED
          BY <4>4
      <3> QED
        BY <1>5, <3>1, <3>2, <3>3
    <2> QED
      BY <2>1 DEF PhaseInv
  <1> QED
    BY <1>2, <1>3, <1>4, <1>5 DEF Next, ReaderStep, MonitorStep

\* A step that leaves the clocks alone, and keeps or lengthens what a chunk adds.
LEMMA SilentKept ==
  ASSUME Typed, SilentInv, attached, silent > 0,
         UNCHANGED <<role, up, silent, ticker>>,
         Count(from', "call") = Count(from, "call") \/ Count(from', "call") = 0,
         activeCalls' = activeCalls \/ activeCalls' > 0,
         PingHangs' \/ ~PingHangs,
         Held' >= Held, Held' \in Nat,
         activeCalls = 0 => ToGo' <= ToGo, ToGo' \in Nat
  PROVE  SilentInv'
  <1>1. TypeOK
    BY DEF Typed
  <1>2. /\ ToGo \in Nat /\ Held \in Nat /\ silent \in Nat /\ activeCalls \in Nat
        /\ AllRounds \in Nat /\ AllRounds' = AllRounds
    BY <1>1, ClockFacts, RoundsBound DEF AllRounds, Bounded
  <1>3. ~up[role] /\ Count(from, "call") = 0
        /\ (Owed => silent + ToGo <= AllRounds + Interval + Timeout + Held)
    BY DEF SilentInv
  <1>4. ~up'[role'] /\ Count(from', "call") = 0
    BY <1>3
  <1>5. Owed' => Owed
    BY <1>2 DEF Owed
  <1>6. ASSUME Owed' PROVE silent' + ToGo' <= AllRounds + Interval + Timeout + Held'
    <2>1. silent + ToGo <= AllRounds + Interval + Timeout + Held /\ ToGo' <= ToGo
      BY <1>3, <1>5, <1>6 DEF Owed
    <2>2. silent' = silent
      OBVIOUS
    <2>3. AllRounds + Interval + Timeout \in Nat
      BY <1>2, Parameters
    <2>4. silent + ToGo' <= AllRounds + Interval + Timeout + Held'
      BY <1>2, <2>1, <2>3, Budget
    <2> QED
      BY <2>2, <2>4
  <1> QED
    BY <1>2, <1>4, <1>6 DEF SilentInv

\* No step of a goroutine costs time that was not in the bound.
LEMMA SilentStep ==
  Typed /\ RolesInv /\ PhaseInv /\ SilentInv /\ Next /\ ~Pass => SilentInv'
  <1> SUFFICES ASSUME Typed, RolesInv, PhaseInv, SilentInv, Next, ~Pass, attached', silent' > 0
               PROVE  SilentInv'
    BY DEF SilentInv
  <1> USE DEF setting, core, pipes, requests, transfer, heartbeat
  <1>t. TypeOK /\ TypeOK'
    <2>1. Typed'
      BY TypedStep
    <2> QED
      BY <2>1 DEF Typed
  <1>a. attached /\ silent' = silent /\ silent > 0
    BY DEF Next, CoreStep, Take, Answer, Store, Stream, ReaderStep, ReadAnswer, ReadChunk, RelayStep,
           PeerTakes, ChunkArrives, PutChunk, AckTimesOut, PutCancel, Complete, Expire, MonitorStep,
           Load, PutPing, Miss, MissUpTo, CountCall, PutCall, Stop
  <1>b. ~up[role] /\ Count(from, "call") = 0
    BY <1>a DEF SilentInv
  <1>c. /\ monitor.pc \in {"select", "lock", "wait"} /\ monitor.age \in 0..Timeout
        /\ ticker.phase \in 1..Interval /\ ticker.ticked \in BOOLEAN
        /\ relay.age \in 0..AckTimeout /\ role \in Roles
        /\ monitor.failures \in 0..FailLimit - 1
        /\ monitor \in [pc : {"select", "lock", "wait"}, age : 0..Timeout, failures : 0..FailLimit - 1]
        /\ relay \in [pc : {"free", "put", "send", "ack", "cancel"}, age : 0..AckTimeout]
    BY <1>t, ClockFacts, TypeParts DEF OthersTyped, MonitorTyped, RelayTyped, Bounded
  <1>d. /\ ToGo \in Nat /\ ToGo' \in Nat /\ Held \in 0..AckTimeout /\ Held' \in Nat
        /\ activeCalls \in Nat /\ activeCalls' \in Nat /\ NextTick \in 0..Interval
        /\ Rounds \in Nat /\ AllRounds \in Nat /\ Rounds <= AllRounds
    <2>1. ToGo' \in Nat /\ Held' \in 0..AckTimeout /\ activeCalls' \in Nat
      BY <1>t, ClockFactsNext DEF Bounded
    <2>2. Held' \in Nat
      BY <2>1, Parameters
    <2> QED
      BY <1>t, <2>1, <2>2, ClockFacts, RoundsBound DEF Bounded
  <1>e. UnderWay("ping") = (IF monitor.pc = "wait" THEN 1 ELSE 0)
        /\ Count(to, "ping") \in Nat /\ Count(from, "ping") \in Nat /\ InWork("ping") \in {0, 1}
    BY <1>t, UnderWayCounted DEF Typed, OnePing
  <1>1. CASE CoreStep
    BY <1>b, <1>1 DEF CoreStep, Take, Answer, Store, Stream
  <1>2. CASE ReadAnswer
    <2>1. /\ from \in Seq(Answered \cup {"chunk"}) /\ from # <<>> /\ from' = Tail(from)
      BY <1>t, <1>2 DEF TypeOK, ReadAnswer
    <2>2. \A m : Count(from, m) = Count(from', m) + (IF Head(from) = m THEN 1 ELSE 0) /\ Count(from', m) \in Nat
      BY <2>1, TailCounts
    <2>3. Head(from) # "call" /\ Count(from', "call") = 0
      BY <1>b, <2>2
    <2>4. activeCalls' = activeCalls /\ UNCHANGED <<role, carrier, up, silent, ticker, relay, running, to>>
      BY <1>2, <2>3 DEF ReadAnswer
    <2>5. Held' = Held /\ NextTick' = NextTick /\ AllRounds' = AllRounds
      BY <2>4 DEF Held, NextTick, AllRounds
    <2>6. CASE Head(from) = "ping"
      <3>1. PongComes /\ monitor.pc = "wait"
        BY <1>e, <2>2, <2>6 DEF PongComes, UnderWay
      <3>2. monitor' = [pc |-> "select", age |-> 0, failures |-> 0]
        BY <1>2, <2>6 DEF ReadAnswer
      <3>3. ToGo = Later(NextTick, Timeout - monitor.age) + AllRounds + Timeout
        BY <3>1 DEF ToGo
      <3>4. Rounds' = AllRounds
        <4>1. monitor'.failures = 0 /\ FailLimit - 0 - 1 = FailLimit - 1
          BY <3>2, Parameters
        <4> QED
          BY <4>1 DEF Rounds, AllRounds
      <3>5. ToGo' = NextTick + AllRounds + Timeout
        BY <2>5, <3>2, <3>4 DEF ToGo
      <3>6. ToGo' <= ToGo
        BY <1>c, <1>d, <3>3, <3>5, Parameters DEF Later
      <3>7. ~PingHangs
        BY <3>1 DEF PingHangs
      <3> QED
        BY <1>a, <1>d, <2>3, <2>4, <2>5, <3>6, <3>7, SilentKept
    <2>7. CASE Head(from) # "ping"
      <3>1. monitor' = monitor /\ Count(from', "ping") = Count(from, "ping")
        BY <1>2, <1>e, <2>2, <2>7 DEF ReadAnswer
      <3>2. ToGo' = ToGo /\ PingHangs' = PingHangs
        BY <2>4, <2>5, <3>1 DEF ToGo, PongComes, Rounds, PingHangs, RoomTo
      <3> QED
        BY <1>a, <1>d, <2>3, <2>4, <2>5, <3>2, SilentKept
    <2> QED
      BY <2>6, <2>7
  <1>3. CASE ReadChunk
    <2>1. from \in Seq(Answered \cup {"chunk"}) /\ from # <<>> /\ from' = Tail(from) /\ Head(from) = "chunk"
      BY <1>t, <1>3 DEF TypeOK, ReadChunk
    <2>2. \A m : Count(from, m) = Count(from', m) + (IF Head(from) = m THEN 1 ELSE 0) /\ Count(from', m) \in Nat
      BY <2>1, TailCounts
    <2>3. Count(from', "call") = Count(from, "call") /\ Count(from', "ping") = Count(from, "ping")
      BY <1>b, <1>e, <2>1, <2>2
    <2>4. UNCHANGED <<role, carrier, up, silent, ticker, running, to, activeCalls, monitor>>
          /\ relay.pc = "free" /\ relay'.pc \in {"free", "send"}
      BY <1>3 DEF ReadChunk
    <2>5. Held' = Held /\ ToGo' = ToGo /\ PingHangs' = PingHangs
      BY <2>3, <2>4 DEF Held, NextTick, AllRounds, ToGo, PongComes, Rounds, PingHangs, RoomTo
    <2> QED
      BY <1>a, <1>d, <2>3, <2>4, <2>5, SilentKept
  <1>4. CASE RelayStep
    <2>1. UNCHANGED <<role, carrier, up, silent, ticker, from, activeCalls, monitor>>
      BY <1>4 DEF RelayStep, PeerTakes, ChunkArrives, PutChunk, AckTimesOut, PutCancel, Complete, Expire, Progress
    <2>2. ToGo' = ToGo
      BY <2>1 DEF NextTick, AllRounds, ToGo, PongComes, Rounds
    <2>3. PingHangs' \/ ~PingHangs
      <3>1. to' = to \/ RoomTo
        BY <1>4 DEF RelayStep, PeerTakes, ChunkArrives, PutChunk, AckTimesOut, PutCancel, Complete, Expire, Progress, CanSend
      <3> QED
        BY <2>1, <3>1 DEF PingHangs, RoomTo
    <2>4. Held' >= Held
      <3>1. CASE PeerTakes
        BY <1>d, <3>1, Parameters DEF PeerTakes, Held
      <3>2. CASE ChunkArrives
        BY <1>d, <3>2, Parameters DEF ChunkArrives, Held
      <3>3. CASE PutChunk
        <4>1. relay.pc = "put" /\ running /\ running' = running
          BY <1>a, <3>3 DEF PutChunk, RolesInv
        <4>2. carrier = "http" => relay' = [pc |-> "ack", age |-> 0]
          BY <3>3 DEF PutChunk
        <4>3. carrier # "http" => Held = 0 /\ Held' = 0
          BY <2>1 DEF Held
        <4>4. carrier = "http" => Held = 0
          BY <4>1 DEF Held
        <4> QED
          BY <1>d, <4>3, <4>4
      <3>4. CASE AckTimesOut
        <4>1. relay.pc \in {"send", "ack"} /\ carrier = "http" /\ relay.age = AckTimeout
              /\ running' = FALSE /\ relay'.pc = "cancel"
          BY <1>c, <3>4, Parameters DEF AckTimesOut, AwaitingAck, Fail, End
        <4>2. role = "target" => Held' = AckTimeout
          BY <2>1, <4>1 DEF Held
        <4>3. role # "target" => Held = 0 /\ Held' = 0
          BY <2>1 DEF Held
        <4> QED
          BY <1>d, <4>2, <4>3, Parameters
      <3>5. CASE PutCancel
        <4>1. relay.pc = "cancel" /\ relay'.pc = "free" /\ running' = running
          BY <3>5 DEF PutCancel, Free
        <4>2. Held' = Held
          BY <2>1, <4>1 DEF Held
        <4> QED
          BY <1>d, <4>2
      <3>6. CASE Complete \/ Expire
        <4>1. relay.pc = "free" /\ running /\ relay'.pc \in {"free", "cancel"}
          <5>1. CASE Complete
            BY <5>1 DEF Complete
          <5>2. CASE Expire
            <6>1. relay.pc = "free" /\ running
              BY <5>2 DEF Expire, Expired
            <6>2. relay' = relay \/ relay' = [pc |-> "cancel", age |-> 0]
              BY <5>2 DEF Expire, Fail
            <6> QED
              BY <6>1, <6>2
          <5> QED
            BY <3>6, <5>1, <5>2
        <4>2. Held = 0
          BY <4>1 DEF Held
        <4> QED
          BY <1>d, <4>2
      <3> QED
        BY <1>4, <3>1, <3>2, <3>3, <3>4, <3>5, <3>6 DEF RelayStep
    <2> QED
      BY <1>a, <1>d, <2>1, <2>2, <2>3, <2>4, SilentKept
  <1>5. CASE Load
    <2>1. UNCHANGED <<role, carrier, up, silent, from, activeCalls, to, relay, running>>
      BY <1>5 DEF Load
    <2>2. Held' = Held /\ ~PingHangs
      BY <1>5, <2>1 DEF Load, Held, PingHangs
    <2>3. ASSUME activeCalls = 0 PROVE ToGo' = ToGo
      <3>1. monitor.pc = "select" /\ ticker.ticked /\ monitor'.pc = "lock" /\ monitor'.failures = monitor.failures
        BY <1>5, <1>c, <2>3 DEF Load
      <3>2. Rounds' = Rounds
        BY <3>1 DEF Rounds
      <3> QED
        BY <1>d, <3>1, <3>2, Parameters DEF ToGo, NextTick
    <2>4. SilentInv => (Owed => silent + ToGo <= AllRounds + Interval + Timeout + Held)
      BY <1>a DEF SilentInv
    <2>5. Owed' => activeCalls = 0
      BY <2>1 DEF Owed
    <2>6. Owed' => Owed
      BY <2>2, <2>5 DEF Owed
    <2> QED
      BY <1>b, <2>1, <2>2, <2>3, <2>4, <2>5, <2>6 DEF SilentInv, AllRounds
  <1>6. CASE PutPing
    <2>1. UNCHANGED <<role, carrier, up, silent, from, activeCalls, relay, running, ticker>>
          /\ monitor.pc = "lock" /\ RoomTo
      BY <1>6 DEF PutPing, CanSend
    <2>2. Held' = Held /\ ~PingHangs
      BY <2>1 DEF Held, PingHangs
    <2>3. monitor'.pc = "wait" /\ monitor'.age = 0 /\ monitor'.failures = monitor.failures
      BY <1>c, <1>6 DEF PutPing
    <2>4. ~PongComes'
      BY <1>e, <2>1 DEF PongComes, UnderWay
    <2>5. ToGo' = Timeout - 0 + Rounds /\ ToGo = Rounds + Timeout
      BY <2>1, <2>3, <2>4 DEF ToGo, Rounds
    <2>6. ToGo' = ToGo
      BY <1>d, <2>5, Parameters
    <2> QED
      BY <1>a, <1>d, <2>1, <2>2, <2>6, SilentKept
  <1>7. CASE Miss
    <2>1. /\ monitor.pc = "wait" /\ monitor.age = Timeout /\ monitor.failures + 1 < FailLimit
          /\ monitor' = [pc |-> "select", age |-> 0, failures |-> monitor.failures + 1]
          /\ from' = Stale(from)
          /\ UNCHANGED <<role, carrier, up, silent, activeCalls, relay, running, ticker>>
      <3>1. monitor.pc = "wait" /\ monitor.age >= Timeout /\ monitor.failures + 1 < FailLimit
        <4>1. monitor.pc = "wait" /\ monitor.age >= Timeout
          BY <1>7 DEF Miss, MissUpTo
        <4>2. ~(monitor.failures + 1 >= FailLimit)
          BY <1>7 DEF Miss, MissUpTo, Detach
        <4> QED
          BY <1>c, <4>1, <4>2, Parameters
      <3>2. monitor.age = Timeout /\ ~(monitor.failures + 1 >= FailLimit)
        BY <1>c, <3>1, Parameters
      <3> QED
        BY <1>7, <3>1, <3>2 DEF Miss, MissUpTo
    <2>2. Held' = Held /\ ~PingHangs /\ NextTick' = NextTick
      BY <2>1 DEF Held, PingHangs, NextTick
    <2>3. Count(from', "call") = Count(from, "call")
      <3>1. from \in Seq(Answered \cup {"chunk"}) /\ "stale" \in Answered \cup {"chunk"}
        BY <1>t DEF TypeOK, Answered
      <3> QED
        BY <2>1, <3>1, StaleCounts
    <2>4. Rounds' + Interval = Rounds
      <3>1. monitor.failures + 1 \in Nat /\ monitor'.failures = monitor.failures + 1
        BY <1>c, <2>1, Parameters
      <3>2. (FailLimit - (monitor.failures + 1) - 1) * Interval + Interval = Rounds
        BY <1>t, <2>1, <3>1, RoundsBound
      <3> QED
        BY <3>1, <3>2 DEF Rounds
    <2>5. Rounds' \in Nat
      BY <1>t, ClockFactsNext DEF Bounded
    <2>6. ToGo' = NextTick + Rounds' + Timeout
      BY <2>1, <2>2 DEF ToGo
    <2>7. CASE PongComes
      <3>1. ToGo = Later(NextTick, Timeout - monitor.age) + AllRounds + Timeout
        BY <2>1, <2>7 DEF ToGo
      <3>2. ToGo' <= ToGo
        <4>1. Rounds' <= AllRounds
          <5>1. Rounds' <= Rounds
            BY <2>4, <2>5, Parameters
          <5> QED
            BY <1>d, <2>5, <5>1
        <4>2. /\ Later(NextTick, Timeout - monitor.age) >= NextTick
              /\ Later(NextTick, Timeout - monitor.age) \in Int
          <5>1. NextTick \in Int /\ Timeout - monitor.age \in Int
            BY <1>c, <1>d, Parameters
          <5> QED
            BY <5>1, LaterBounds
        <4> QED
          BY <1>d, <2>5, <2>6, <3>1, <4>1, <4>2, SumsGrow, Parameters
      <3> QED
        BY <1>a, <1>d, <2>1, <2>2, <2>3, <3>2, SilentKept
    <2>8. CASE ~PongComes
      <3>1. ToGo = Timeout - monitor.age + Rounds
        BY <2>1, <2>8 DEF ToGo
      <3>2. NextTick + Timeout <= Interval
        BY <1>c, <2>1, Parameters DEF PhaseInv, NextTick
      <3>3. ToGo' <= ToGo
        BY <1>d, <2>1, <2>4, <2>5, <2>6, <3>1, <3>2, RoundOver
      <3> QED
        BY <1>a, <1>d, <2>1, <2>2, <2>3, <3>3, SilentKept
    <2> QED
      BY <2>7, <2>8
  <1>8. CASE CountCall
    <2>1. UNCHANGED <<role, carrier, up, silent, from, relay, running, ticker, monitor, to>>
          /\ activeCalls' = activeCalls + 1
      BY <1>8 DEF CountCall
    <2>2. Held' = Held /\ ToGo' = ToGo /\ PingHangs' = PingHangs
      BY <2>1 DEF Held, NextTick, AllRounds, ToGo, PongComes, Rounds, PingHangs, RoomTo
    <2> QED
      BY <1>a, <1>d, <2>1, <2>2, SilentKept
  <1>9. CASE PutCall \/ (\E r \in {role, "target"} : Stop(r))
    <2>1. UNCHANGED <<role, carrier, silent, from, relay, running, ticker, monitor, activeCalls>>
          /\ (to' = to \/ RoomTo)
      BY <1>9 DEF PutCall, Stop, CanSend
    <2>2. Held' = Held /\ ToGo' = ToGo /\ (PingHangs' \/ ~PingHangs)
      BY <2>1 DEF Held, NextTick, AllRounds, ToGo, PongComes, Rounds, PingHangs, RoomTo
    <2>3. CASE up' = up
      BY <1>a, <1>d, <2>1, <2>2, <2>3, SilentKept
    <2>4. CASE up' # up
      <3>1. PICK r \in {role, "target"} : Stop(r)
        BY <1>9, <2>4 DEF PutCall
      <3>2. to' = to /\ up' = [up EXCEPT ![r] = FALSE] /\ up \in [Roles -> BOOLEAN] /\ role \in Roles
        BY <1>t, <3>1 DEF Stop, TypeOK
      <3>3. ~up'[role]
        BY <1>b, <3>2
      <3>4. PingHangs' = PingHangs /\ AllRounds' = AllRounds /\ Owed' = Owed
        BY <2>1, <3>2 DEF PingHangs, RoomTo, AllRounds, Owed
      <3> QED
        BY <1>a, <1>b, <2>1, <2>2, <3>3, <3>4 DEF SilentInv
    <2> QED
      BY <2>3, <2>4
  <1> QED
    BY <1>1, <1>2, <1>3, <1>4, <1>5, <1>6, <1>7, <1>8, <1>9 DEF Next, ReaderStep, MonitorStep

LEMMA Moved ==
  ASSUME NEW a \in Nat, NEW b \in Nat, NEW c \in Nat, NEW d \in Nat, NEW e \in Nat,
         NEW k \in Nat, a + b <= k + c, e + 1 + c <= b + d
  PROVE  (a + 1) + e <= k + d
  OBVIOUS

LEMMA BothLess ==
  ASSUME NEW x \in Nat, NEW y \in Nat \ {0}, NEW k \in Nat
  PROVE  /\ x > 0 => Later(x - 1, y - 1) + k + 1 <= Later(x, y) + k
         /\ Later(0, y - 1) + k + 1 <= Later(0, y) + k
  BY DEF Later

LEMMA Shorter ==
  ASSUME NEW a \in Nat, NEW b \in Nat, NEW c \in Nat, NEW d \in Nat, NEW k \in Nat, a <= b, b + c <= k + d
  PROVE  a + c <= k + d
  OBVIOUS

LEMMA OneLess ==
  ASSUME NEW a \in Nat, NEW b \in Nat, NEW c \in Nat, NEW d \in Nat, a + 1 <= b, c <= d
  PROVE  a + 1 + c <= b + d
  OBVIOUS

\* A unit of time is taken from what is left, or added by a chunk that is held.
LEMMA PassTakes ==
  ASSUME Typed, RolesInv, Pass, activeCalls = 0, ~up[role], ~PingHangs, silent' > 0
  PROVE  ToGo' + 1 + Held <= ToGo + Held'
  <1> USE DEF setting, pipes, requests
  <1>t. TypeOK /\ TypeOK'
    <2>1. Typed'
      BY TypedPass
    <2> QED
      BY <2>1 DEF Typed
  <1>b. Bounded /\ Bounded'
    BY <1>t, ClockFacts, ClockFactsNext
  <1>c. /\ monitor.pc \in {"select", "lock", "wait"} /\ monitor.age \in 0..Timeout
        /\ ticker.phase \in 1..Interval /\ ticker.ticked \in BOOLEAN
        /\ relay.age \in 0..AckTimeout /\ Rounds \in Nat /\ AllRounds \in Nat
        /\ ToGo \in Nat /\ ToGo' \in Nat /\ NextTick \in Nat
        /\ monitor \in [pc : {"select", "lock", "wait"}, age : 0..Timeout, failures : 0..FailLimit - 1]
        /\ relay \in [pc : {"free", "put", "send", "ack", "cancel"}, age : 0..AckTimeout]
    BY <1>b, <1>t, TypeParts, RoundsBound, Parameters DEF Bounded, MonitorTyped, RelayTyped
  <1>d. Held \in Nat /\ Held' \in Nat
    <2>1. Held \in 0..AckTimeout /\ Held' \in 0..AckTimeout
      BY <1>b DEF Bounded
    <2> QED
      BY <2>1, Parameters
  <1>e. /\ attached /\ ~Due
        /\ UNCHANGED <<role, carrier, running, to, from, activeCalls>>
        /\ relay.pc \notin {"send", "ack"} => relay' = relay
        /\ relay.pc \in {"send", "ack"} => relay' = [relay EXCEPT !.age = Older(@, AckTimeout)]
        /\ monitor.pc # "wait" => monitor' = monitor
        /\ monitor.pc = "wait" => monitor' = [monitor EXCEPT !.age = @ + 1]
    BY DEF Pass
  <1>f. /\ monitor'.pc = monitor.pc /\ monitor'.failures = monitor.failures /\ relay'.pc = relay.pc
        /\ monitor.pc = "wait" => monitor'.age = monitor.age + 1
        /\ PongComes' = PongComes
    BY <1>c, <1>e DEF PongComes
  <1>g. Rounds' = Rounds /\ AllRounds' = AllRounds
    BY <1>f DEF Rounds, AllRounds
  <1>1. Held' >= Held
    <2>1. CASE relay.pc = "ack"
      <3>1. relay'.age >= relay.age
        <4>1. relay'.age = Older(relay.age, AckTimeout)
          BY <1>c, <1>e, <2>1
        <4> QED
          BY <1>c, <4>1, Parameters DEF Older
      <3> QED
        BY <1>d, <1>e, <1>f, <2>1, <3>1 DEF Held
    <2>2. CASE relay.pc # "ack"
      BY <1>d, <1>e, <1>f, <2>2 DEF Held
    <2> QED
      BY <2>1, <2>2
  <1>2. ticker.ticked => NextTick = 0 /\ NextTick' = 0
    <2>1. ticker.ticked => ticker'.ticked
      <3>1. CASE ticker.phase = Interval
        BY <3>1 DEF Pass
      <3>2. CASE ticker.phase # Interval
        <4>1. ticker' = [ticker EXCEPT !.phase = @ + 1] /\ ticker \in [phase : 1..Interval, ticked : BOOLEAN]
          BY <3>2, <1>t, TypeParts DEF Pass, TickerTyped
        <4> QED
          BY <4>1
      <3> QED
        BY <3>1, <3>2
    <2> QED
      BY <2>1 DEF NextTick
  <1>3. ~ticker.ticked => NextTick > 0 /\ NextTick' = NextTick - 1
    <2>1. CASE ticker.phase = Interval
      <3>1. ticker'.ticked
        BY <2>1 DEF Pass
      <3>2. ~ticker.ticked => NextTick = 1
        BY <2>1, Parameters DEF NextTick
      <3> QED
        BY <3>1, <3>2 DEF NextTick
    <2>2. CASE ticker.phase # Interval
      <3>1. ticker' = [ticker EXCEPT !.phase = @ + 1] /\ ticker \in [phase : 1..Interval, ticked : BOOLEAN]
        BY <2>2, <1>t, TypeParts DEF Pass, TickerTyped
      <3>2. ticker'.phase = ticker.phase + 1 /\ ticker'.ticked = ticker.ticked
        BY <3>1
      <3> QED
        BY <1>c, <2>2, <3>2, Parameters DEF NextTick
    <2> QED
      BY <2>1, <2>2
  <1>4. CASE monitor.pc = "select"
    <2>1. ~ticker.ticked
      BY <1>4, <1>e DEF Due
    <2>2. ToGo = NextTick + Rounds + Timeout /\ ToGo' = NextTick' + Rounds' + Timeout
      BY <1>4, <1>f DEF ToGo
    <2>3. ToGo' + 1 <= ToGo
      BY <1>3, <1>c, <1>g, <2>1, <2>2, Parameters
    <2> QED
      BY <1>1, <1>c, <1>d, <2>3, OneLess
  <1>5. CASE monitor.pc = "lock"
    <2>1. ~CanSend /\ RoomTo
      BY <1>5, <1>e DEF Due, PingHangs
    <2>2. role = "target" /\ relay.pc = "ack" /\ carrier = "http"
      BY <1>e, <2>1 DEF CanSend, RolesInv
    <2>3. relay.age < AckTimeout
      BY <1>c, <1>e, <2>2, Parameters DEF Due, AwaitingAck
    <2>4. relay'.age = relay.age + 1
      BY <1>c, <1>e, <2>2, <2>3 DEF Older
    <2>5. Held = relay.age /\ Held' = relay.age + 1
      BY <1>e, <1>f, <2>2, <2>4 DEF Held
    <2>6. ToGo' = ToGo
      BY <1>5, <1>f, <1>g DEF ToGo
    <2> QED
      BY <1>c, <2>5, <2>6
  <1>6. CASE monitor.pc = "wait"
    <2>1. monitor.age < Timeout
      BY <1>6, <1>c, <1>e, Parameters DEF Due
    <2>2. CASE PongComes
      <3>1. /\ ToGo = Later(NextTick, Timeout - monitor.age) + AllRounds + Timeout
            /\ ToGo' = Later(NextTick', Timeout - monitor'.age) + AllRounds + Timeout
        BY <1>6, <1>f, <1>g, <2>2 DEF ToGo
      <3>2. /\ AllRounds + Timeout \in Nat /\ Timeout - monitor.age \in Nat \ {0}
            /\ Timeout - monitor'.age = (Timeout - monitor.age) - 1
        BY <1>6, <1>c, <1>f, <2>1, Parameters
      <3>3. ToGo' + 1 <= ToGo
        <4>1. /\ Later(NextTick, Timeout - monitor.age) \in Int
              /\ Later(NextTick', Timeout - monitor'.age) \in Int
          <5>1. NextTick \in Int /\ NextTick' \in Int
            BY <1>2, <1>3, <1>c
          <5>2. Timeout - monitor.age \in Int /\ Timeout - monitor'.age \in Int
            BY <3>2
          <5> QED
            BY <5>1, <5>2, LaterBounds
        <4>2. Later(NextTick', Timeout - monitor'.age) + (AllRounds + Timeout) + 1
                 <= Later(NextTick, Timeout - monitor.age) + (AllRounds + Timeout)
          <5>1. CASE ticker.ticked
            BY <1>2, <3>2, <5>1, BothLess
          <5>2. CASE ~ticker.ticked
            BY <1>3, <1>c, <3>2, <5>2, BothLess
          <5> QED
            BY <5>1, <5>2
        <4> QED
          BY <1>c, <3>1, <4>1, <4>2, Parameters
      <3> QED
        BY <1>1, <1>c, <1>d, <3>3, OneLess
    <2>3. CASE ~PongComes
      <3>1. ToGo = Timeout - monitor.age + Rounds /\ ToGo' = Timeout - monitor'.age + Rounds
        BY <1>6, <1>f, <1>g, <2>3 DEF ToGo
      <3>2. ToGo' + 1 <= ToGo
        BY <1>6, <1>c, <1>f, <2>1, <3>1, Parameters
      <3> QED
        BY <1>1, <1>c, <1>d, <3>2, OneLess
    <2> QED
      BY <2>2, <2>3
  <1> QED
    BY <1>4, <1>5, <1>6, <1>c

LEMMA SilentPass ==
  Typed /\ RolesInv /\ PhaseInv /\ SilentInv /\ Pass => SilentInv'
  <1> SUFFICES ASSUME Typed, RolesInv, PhaseInv, SilentInv, Pass, silent' > 0 PROVE SilentInv'
    BY DEF SilentInv
  <1>t. TypeOK /\ TypeOK'
    <2>1. Typed'
      BY TypedPass
    <2> QED
      BY <2>1 DEF Typed
  <1>b. Bounded /\ Bounded'
    BY <1>t, ClockFacts, ClockFactsNext
  <1>1. /\ ~up[role] /\ activeCalls = 0 /\ attached
        /\ UNCHANGED <<role, carrier, up, to, from, calls, activeCalls>>
        /\ silent' = Older(silent, SilentBound)
    <2>1. /\ silent' = IF up[role] \/ activeCalls > 0 THEN 0 ELSE Older(silent, SilentBound)
          /\ attached /\ UNCHANGED <<role, carrier, up, to, from, calls, activeCalls>>
      BY DEF Pass, setting, pipes, requests
    <2>2. activeCalls \in Nat
      BY <1>b DEF Bounded
    <2>3. ~(up[role] \/ activeCalls > 0)
      BY <2>1
    <2> QED
      BY <2>1, <2>2, <2>3
  <1>2. Count(from, "call") = 0
    <2>1. activeCalls = calls.waiting + UnderWay("call") /\ calls.waiting \in Nat
      BY <1>t, TypeParts, Parameters DEF Typed, Accounted, RequestsTyped
    <2>2. Count(to, "call") \in Nat /\ Count(from, "call") \in Nat /\ InWork("call") \in {0, 1}
      BY <1>t, UnderWayCounted
    <2> QED
      BY <1>1, <2>1, <2>2 DEF UnderWay
  <1>3. ASSUME Owed' PROVE silent' + ToGo' <= AllRounds + Interval + Timeout + Held'
    <2>1. Owed
      <3>1. ~PingHangs
        <4>1. monitor'.pc = monitor.pc
          BY <1>t, TypeParts DEF Pass, MonitorTyped
        <4> QED
          BY <1>1, <1>3, <4>1 DEF Owed, PingHangs, RoomTo
      <3> QED
        BY <1>1, <3>1 DEF Owed
    <2>2. ToGo' + 1 + Held <= ToGo + Held'
      BY <1>1, <2>1, PassTakes DEF Owed
    <2>3. /\ ToGo \in Nat /\ ToGo' \in Nat /\ silent \in Nat
          /\ Held \in Nat /\ Held' \in Nat
          /\ AllRounds + Interval + Timeout \in Nat
      <3>1. Held \in 0..AckTimeout /\ Held' \in 0..AckTimeout
        BY <1>b DEF Bounded
      <3> QED
        BY <1>b, <1>t, <3>1, RoundsBound, Parameters DEF Bounded
    <2>4. silent + ToGo <= AllRounds + Interval + Timeout + Held
      <3>1. CASE silent > 0
        BY <1>1, <2>1, <3>1 DEF SilentInv
      <3>2. CASE silent = 0
        <4>1. ToGo <= AllRounds + Interval + Timeout
          BY <1>b DEF Bounded
        <4> QED
          BY <2>3, <3>2, <4>1
      <3> QED
        BY <2>3, <3>1, <3>2
    <2>5. (silent + 1) + ToGo' <= AllRounds + Interval + Timeout + Held'
      BY <2>2, <2>3, <2>4, Moved
    <2>6. silent' = silent + 1 \/ silent' = silent
      BY <1>1 DEF Older
    <2>7. silent + ToGo' <= AllRounds + Interval + Timeout + Held'
      <3>1. silent <= silent + 1 /\ silent + 1 \in Nat
        BY <2>3
      <3> QED
        BY <2>3, <2>5, <3>1, Shorter
    <2> QED
      BY <2>5, <2>6, <2>7
  <1> QED
    BY <1>1, <1>2, <1>3 DEF SilentInv

DeadInv == Typed /\ RolesInv /\ PhaseInv /\ SilentInv

LEMMA DeadInvInit ==
  Init => DeadInv
  <1> SUFFICES ASSUME Init PROVE DeadInv
    OBVIOUS
  <1>1. Typed
    BY TypedInit
  <1>2. \A m : Count(<<>>, m) = 0
    BY NoneCounted
  <1>3. RolesInv
    BY <1>2 DEF Init, RolesInv, InWork, Resting, Free
  <1>4. PhaseInv /\ SilentInv
    BY DEF Init, PhaseInv, SilentInv
  <1> QED
    BY <1>1, <1>3, <1>4 DEF DeadInv

LEMMA DeadInvStep ==
  DeadInv /\ [Next]_vars => DeadInv'
  <1> SUFFICES ASSUME DeadInv, [Next]_vars PROVE DeadInv'
    OBVIOUS
  <1>1. Typed' /\ RolesInv' /\ PhaseInv'
    BY TypedStep, RolesStep, PhaseStep DEF DeadInv
  <1>2. CASE UNCHANGED vars
    BY <1>1, <1>2 DEF vars, setting, core, pipes, requests, transfer, heartbeat, DeadInv, SilentInv, Owed,
       PingHangs, RoomTo, ToGo, NextTick, Rounds, AllRounds, PongComes, Held
  <1>3. CASE Next
    BY <1>1, <1>3, SilentStep, SilentPass DEF DeadInv
  <1> QED
    BY <1>2, <1>3

\* Once the time has run out nothing is left of it: so the session is gone.
LEMMA DeadInvSuffices ==
  DeadInv => DeadCoreRemovedInTime
  <1> SUFFICES ASSUME DeadInv, attached, silent > RemovalLimit, ~(activeCalls > 0), ~PingHangs PROVE FALSE
    BY DEF DeadCoreRemovedInTime
  <1>1. TypeOK /\ Bounded
    BY ClockFacts DEF DeadInv, Typed
  <1>2. /\ silent \in Nat /\ activeCalls = 0 /\ ToGo \in Nat /\ Held \in 0..AckTimeout /\ AllRounds \in Nat
        /\ FailLimit * Interval = AllRounds + Interval
    BY <1>1, RoundsBound DEF Bounded
  <1>3. Owed
    BY <1>2 DEF Owed
  <1>4. Held <= (IF role = "target" /\ carrier = "http" THEN AckTimeout ELSE 0)
    BY <1>2, Parameters DEF Held
  <1>5. RemovalLimit = AllRounds + Interval + Timeout
                          + (IF role = "target" /\ carrier = "http" THEN AckTimeout ELSE 0)
    BY <1>2 DEF RemovalLimit
  <1>6. silent > 0
    BY <1>2, <1>5, Parameters
  <1>7. silent + ToGo <= AllRounds + Interval + Timeout + Held
    BY <1>3, <1>6 DEF DeadInv, SilentInv
  <1>8. AllRounds + Interval + Timeout \in Nat
    BY <1>2, Parameters
  <1> QED
    BY <1>2, <1>4, <1>5, <1>7, <1>8, Parameters

\* DeadCoreRemovedInTime: the ticks of FailLimit pings, the wait for the last and,
\* for an HTTP target, one acknowledgement are all the time a silent Core has,
\* whatever pings and pongs were on their way when it stopped (Manager.Monitor).
THEOREM SilentCoresGo == Spec => []DeadCoreRemovedInTime
  BY DeadInvInit, DeadInvStep, DeadInvSuffices, PTL DEF Spec

----------------------------------------------------------------------------
(* A transfer that makes no progress ends. *)

\* The timer fires two minutes after the last progress, or has fired and waits.
TimerInv ==
    running => IF timer > 0 THEN idle + timer <= IdleTimeout
                            ELSE idle <= IdleTimeout \/ relay.pc # "free"

HeldInv == Typed /\ RolesInv /\ TimerInv

LEMMA PartOf ==
  ASSUME NEW a \in Nat, NEW b \in Nat, NEW c \in Nat, a + b <= c
  PROVE  a <= c
  OBVIOUS

LEMMA HeldInvInit ==
  Init => HeldInv
  <1> SUFFICES ASSUME Init PROVE HeldInv
    OBVIOUS
  <1>1. Typed /\ RolesInv
    BY DeadInvInit DEF DeadInv
  <1>2. idle = 0 /\ timer = IdleTimeout /\ IdleTimeout \in Nat \ {0}
    BY Parameters DEF Init
  <1> QED
    BY <1>1, <1>2 DEF HeldInv, TimerInv

\* Only the clock lowers the timer and raises the idle time, both by one.
LEMMA TimerStep ==
  Typed /\ RolesInv /\ TimerInv /\ [Next]_vars => TimerInv'
  <1> SUFFICES ASSUME Typed, RolesInv, TimerInv, [Next]_vars PROVE TimerInv'
    OBVIOUS
  <1> USE DEF setting, core, pipes, requests, transfer, heartbeat
  <1>t. /\ idle \in Nat /\ timer \in Nat /\ timer <= IdleTimeout /\ IdleTimeout \in Nat \ {0}
        /\ relay.pc \in {"free", "put", "send", "ack", "cancel"}
        /\ relay \in [pc : {"free", "put", "send", "ack", "cancel"}, age : 0..AckTimeout]
    <2>1. ClocksTyped /\ RelayTyped
      BY TypeParts DEF Typed
    <2>2. IdleCap \in Nat
      BY Parameters
    <2> QED
      BY <2>1, <2>2, Parameters DEF ClocksTyped, RelayTyped
  <1>1. CASE UNCHANGED <<running, idle, timer, relay>>
    BY <1>1 DEF TimerInv
  <1>2. CASE Progress /\ UNCHANGED <<running, timer>>
    <2>1. idle' = 0 /\ timer' = timer /\ relay' = Free
      BY <1>2 DEF Progress
    <2> QED
      BY <1>t, <2>1 DEF TimerInv
  <1>3. CASE running' = FALSE
    BY <1>3 DEF TimerInv
  <1>4. CASE UNCHANGED <<running, idle, timer>> /\ relay'.pc # "free"
    BY <1>4 DEF TimerInv
  <1>5. CASE Expire /\ running' /\ idle < IdleTimeout
    <2>1. timer' = IdleTimeout - idle /\ idle' = idle
      BY <1>5 DEF Expire
    <2> QED
      BY <1>5, <1>t, <2>1 DEF TimerInv
  <1>6. CASE Pass
    <2>1. /\ running' = running /\ relay'.pc = relay.pc
          /\ ~(running /\ timer = 0 /\ relay.pc = "free")
      BY <1>6, <1>t DEF Pass, Due, Expired
    <2>2. ASSUME running
          PROVE  /\ idle' = idle + 1 \/ idle' = idle
                 /\ timer' = IF timer > 0 THEN timer - 1 ELSE timer
      BY <1>6, <2>2 DEF Pass, Older
    <2>3. CASE running /\ timer > 0
      <3>1. idle + timer <= IdleTimeout /\ (idle' = idle + 1 \/ idle' = idle) /\ timer' = timer - 1
        BY <2>2, <2>3 DEF TimerInv
      <3>2. idle' + timer' <= IdleTimeout /\ timer' \in Nat /\ idle' \in Nat
        BY <1>t, <2>3, <3>1
      <3>3. idle' <= IdleTimeout
        BY <1>t, <3>2, PartOf
      <3> QED
        BY <3>2, <3>3 DEF TimerInv
    <2>4. CASE running /\ ~(timer > 0)
      <3>1. timer = 0 /\ timer' = 0
        BY <1>t, <2>2, <2>4
      <3> QED
        BY <2>1, <2>4, <3>1 DEF TimerInv
    <2>5. CASE ~running
      BY <2>1, <2>5 DEF TimerInv
    <2> QED
      BY <2>3, <2>4, <2>5
  <1>7. CASE UNCHANGED vars \/ CoreStep \/ ReaderStep
    BY <1>1, <1>2, <1>4, <1>7 DEF vars, CoreStep, Take, Answer, Store, Stream, ReaderStep, ReadAnswer, ReadChunk
  <1>8. CASE attached /\ RelayStep
    <2>1. CASE PeerTakes
      BY <1>2, <2>1 DEF PeerTakes
    <2>2. CASE ChunkArrives
      BY <1>4, <2>2 DEF ChunkArrives
    <2>3. CASE PutChunk
      BY <1>2, <1>4, <2>3 DEF PutChunk
    <2>4. CASE AckTimesOut \/ Complete
      BY <1>3, <2>4 DEF AckTimesOut, Complete, Fail, End
    <2>5. CASE PutCancel
      <3>1. running' = running /\ relay.pc = "cancel"
        BY <2>5 DEF PutCancel
      <3>2. ~running \/ ~attached
        BY <3>1 DEF RolesInv
      <3> QED
        BY <1>8, <3>1, <3>2 DEF TimerInv
    <2>6. CASE Expire
      BY <1>3, <1>5, <2>6 DEF Expire, Expired, Fail, End
    <2> QED
      BY <1>8, <2>1, <2>2, <2>3, <2>4, <2>5, <2>6 DEF RelayStep
  <1>9. CASE MonitorStep \/ CountCall \/ PutCall \/ \E r \in {role, "target"} : Stop(r)
    BY <1>1, <1>3, <1>9 DEF MonitorStep, Load, PutPing, Miss, MissUpTo, Detach, End, CountCall, PutCall, Stop
  <1> QED
    BY <1>6, <1>7, <1>8, <1>9 DEF Next

LEMMA HeldInvStep ==
  HeldInv /\ [Next]_vars => HeldInv'
  BY TypedStep, RolesStep, TimerStep DEF HeldInv

\* A transfer that is idle too long is held: the timer has fired, and fires no more.
LEMMA HeldInvSuffices ==
  HeldInv => HeldWhenIdle
  <1> SUFFICES ASSUME HeldInv, running, idle > IdleTimeout PROVE relay.pc # "free"
    BY DEF HeldWhenIdle
  <1>1. idle \in Nat /\ timer \in Nat /\ IdleTimeout \in Nat
    <2>1. IdleCap \in Nat /\ ClocksTyped
      BY Parameters, TypeParts DEF HeldInv, Typed
    <2> QED
      BY <2>1, Parameters DEF ClocksTyped
  <1>2. IF timer > 0 THEN idle + timer <= IdleTimeout ELSE idle <= IdleTimeout \/ relay.pc # "free"
    BY DEF HeldInv, TimerInv
  <1> QED
    BY <1>1, <1>2

\* HeldWhenIdle: the timer is armed while the transfer runs and is armed again for
\* what is left of the two minutes, so a transfer idle for longer waits only for
\* the send that holds relayMu (expireTransfer, touchTransferLocked).
THEOREM IdleTransfersAreHeld == Spec => []HeldWhenIdle
  BY HeldInvInit, HeldInvStep, HeldInvSuffices, PTL DEF Spec

\* While one send goes on, the connection and the wait for the acknowledgement are
\* all that adds to the idle time.
SendInv ==
    running => /\ attached
               /\ relay.pc # "free" =>
                     idle <= IdleTimeout + stuck + (IF AwaitingAck THEN relay.age ELSE 0)

IdleInv == HeldInv /\ SendInv

LEMMA MoreRoom ==
  ASSUME NEW a \in Nat, NEW b \in Nat, NEW c \in Nat, a <= b
  PROVE  a <= b + c
  OBVIOUS

LEMMA SendShape ==
  ASSUME IdleInv, running
  PROVE  /\ attached
         /\ idle \in Nat /\ idle <= IdleCap /\ stuck \in Nat /\ stuck <= IdleCap
         /\ IdleCap \in Nat /\ IdleTimeout \in Nat /\ AckTimeout \in Nat
         /\ relay \in [pc : {"free", "put", "send", "ack", "cancel"}, age : 0..AckTimeout]
         /\ relay.age \in Nat /\ relay.age <= AckTimeout
         /\ relay.pc = "free" => idle <= IdleTimeout
         /\ relay.pc # "free" =>
               idle <= IdleTimeout + stuck + (IF AwaitingAck THEN relay.age ELSE 0)
         /\ carrier \in {"http", "websocket"}
         /\ relay.pc # "cancel" /\ (relay.pc = "ack" => carrier = "http")
  <1>1. ClocksTyped /\ RelayTyped /\ OthersTyped
    BY TypeParts DEF IdleInv, HeldInv, Typed
  <1>2. IdleCap \in Nat /\ IdleTimeout \in Nat /\ AckTimeout \in Nat
    BY Parameters
  <1>3. idle \in Nat /\ idle <= IdleCap /\ stuck \in Nat /\ stuck <= IdleCap
    BY <1>1, <1>2 DEF ClocksTyped
  <1>4. /\ relay \in [pc : {"free", "put", "send", "ack", "cancel"}, age : 0..AckTimeout]
        /\ relay.age \in Nat /\ relay.age <= AckTimeout
    BY <1>1, <1>2 DEF RelayTyped
  <1>5. relay.pc = "free" => idle <= IdleTimeout
    BY <1>2, <1>3, HeldInvSuffices DEF IdleInv, HeldWhenIdle
  <1>6. /\ attached
        /\ relay.pc # "free" =>
              idle <= IdleTimeout + stuck + (IF AwaitingAck THEN relay.age ELSE 0)
    BY DEF IdleInv, SendInv
  <1>7. relay.pc # "cancel" /\ (relay.pc = "ack" => carrier = "http")
    BY <1>6 DEF IdleInv, HeldInv, RolesInv
  <1> QED
    BY <1>1, <1>2, <1>3, <1>4, <1>5, <1>6, <1>7 DEF OthersTyped

\* The clock raises the idle time with the time of the wait that goes on.
LEMMA SendPass ==
  IdleInv /\ Pass => SendInv'
  <1> SUFFICES ASSUME IdleInv, Pass, running, relay'.pc # "free"
               PROVE  /\ attached'
                      /\ idle' <= IdleTimeout + stuck'
                                    + (IF AwaitingAck' THEN relay'.age ELSE 0)
    BY DEF SendInv, Pass
  <1>1. /\ idle \in Nat /\ idle <= IdleCap /\ stuck \in Nat /\ stuck <= IdleCap
        /\ IdleCap \in Nat /\ IdleTimeout \in Nat /\ AckTimeout \in Nat
        /\ relay \in [pc : {"free", "put", "send", "ack", "cancel"}, age : 0..AckTimeout]
        /\ relay.age \in Nat /\ relay.age <= AckTimeout
        /\ carrier \in {"http", "websocket"}
        /\ relay.pc # "cancel" /\ (relay.pc = "ack" => carrier = "http")
    BY SendShape
  <1>2. /\ relay'.pc = relay.pc /\ carrier' = carrier /\ attached'
        /\ relay' = IF relay.pc \in {"send", "ack"}
                    THEN [relay EXCEPT !.age = Older(@, AckTimeout)] ELSE relay
        /\ idle' = Older(idle, IdleCap)
        /\ stuck' = IF OnConnection THEN Older(stuck, IdleCap) ELSE stuck
    BY <1>1 DEF Pass, setting
  <1>3. AwaitingAck' <=> AwaitingAck
    BY <1>2 DEF AwaitingAck
  <1>4. idle <= IdleTimeout + stuck + (IF AwaitingAck THEN relay.age ELSE 0)
    BY <1>2, SendShape
  <1>5. idle' \in Nat /\ idle' <= idle + 1 /\ idle' <= IdleCap
    BY <1>1, <1>2 DEF Older
  <1>6. CASE AwaitingAck
    <2>1. relay.age < AckTimeout
      BY <1>1, <1>6 DEF Pass, Due
    <2>2. relay'.age = relay.age + 1
      BY <1>1, <1>2, <1>6, <2>1 DEF AwaitingAck, Older
    <2>3. ~OnConnection
      BY <1>6 DEF OnConnection, AwaitingAck
    <2>4. idle <= IdleTimeout + stuck + relay.age
      BY <1>4, <1>6
    <2> QED
      BY <1>1, <1>2, <1>3, <1>5, <1>6, <2>2, <2>3, <2>4
  <1>7. CASE ~AwaitingAck
    <2>1. OnConnection
      BY <1>1, <1>2, <1>7 DEF OnConnection, AwaitingAck
    <2>2. stuck' = Older(stuck, IdleCap) /\ idle <= IdleTimeout + stuck
      BY <1>1, <1>2, <1>4, <1>7, <2>1
    <2>3. idle' <= IdleTimeout + stuck' /\ stuck' \in Nat
      BY <1>1, <1>5, <2>2 DEF Older
    <2> QED
      BY <1>1, <1>2, <1>3, <1>7, <2>3
  <1> QED
    BY <1>6, <1>7

LEMMA SendStep ==
  IdleInv /\ [Next]_vars => SendInv'
  <1> SUFFICES ASSUME IdleInv, [Next]_vars, running'
               PROVE  /\ attached'
                      /\ relay'.pc # "free" =>
                            idle' <= IdleTimeout + stuck'
                                       + (IF AwaitingAck' THEN relay'.age ELSE 0)
    BY DEF SendInv
  <1> USE DEF setting, core, pipes, requests, transfer, heartbeat
  <1>s. running => /\ attached
                   /\ idle \in Nat /\ stuck \in Nat /\ IdleTimeout \in Nat
                   /\ relay.age \in Nat
                   /\ relay.pc = "free" => idle <= IdleTimeout
                   /\ relay.pc # "free" =>
                         idle <= IdleTimeout + stuck + (IF AwaitingAck THEN relay.age ELSE 0)
    BY SendShape
  <1>1. CASE UNCHANGED <<carrier, attached, transfer>>
    BY <1>1, <1>s DEF AwaitingAck
  <1>2. CASE UNCHANGED <<running, attached>> /\ relay' = Free
    BY <1>2, <1>s DEF Free
  <1>3. CASE running' = FALSE
    BY <1>3
  <1>4. CASE /\ UNCHANGED <<carrier, attached, running, idle, stuck>> /\ relay.pc = "free"
             /\ relay'.age = 0
    <2>1. idle' <= IdleTimeout /\ idle' \in Nat /\ stuck' \in Nat /\ IdleTimeout \in Nat
      BY <1>4, <1>s
    <2>2. idle' <= IdleTimeout + stuck'
      BY ONLY <2>1, MoreRoom
    <2> QED
      BY <1>4, <1>s, <2>1, <2>2
  <1>5. CASE PutChunk
    <2>1. UNCHANGED <<carrier, attached, running>> /\ relay.pc = "put"
      BY <1>5 DEF PutChunk
    <2>2. CASE carrier = "http"
      <3>1. relay' = [pc |-> "ack", age |-> 0] /\ UNCHANGED <<idle, stuck>>
        BY <1>5, <2>2 DEF PutChunk
      <3>2. ~AwaitingAck /\ running
        BY <2>1 DEF AwaitingAck
      <3>3. idle' <= IdleTimeout + stuck'
        BY <1>s, <2>1, <3>1, <3>2
      <3> QED
        BY <1>s, <2>1, <3>1, <3>2, <3>3
    <2>3. CASE carrier # "http"
      BY <1>2, <1>5, <2>1, <2>3 DEF PutChunk, Progress
    <2> QED
      BY <2>2, <2>3
  <1>6. CASE CoreStep \/ ReaderStep
    <2>1. CASE Take \/ Answer \/ Stream \/ ReadAnswer
      BY <1>1, <2>1 DEF Take, Answer, Stream, ReadAnswer
    <2>2. CASE Store
      BY <1>1, <1>2, <2>2 DEF Store, Progress
    <2>3. CASE ReadChunk
      BY <1>1, <1>4, <2>3 DEF ReadChunk
    <2> QED
      BY <1>6, <2>1, <2>2, <2>3 DEF CoreStep, ReaderStep
  <1>7. CASE RelayStep
    <2>1. CASE PeerTakes
      BY <1>2, <2>1 DEF PeerTakes, Progress
    <2>2. CASE ChunkArrives
      BY <1>4, <2>2 DEF ChunkArrives
    <2>3. CASE AckTimesOut \/ Complete
      BY <1>3, <2>3 DEF AckTimesOut, Complete, Fail, End
    <2>4. CASE PutCancel
      BY <1>2, <2>4 DEF PutCancel
    <2>5. CASE Expire
      <3>1. UNCHANGED <<carrier, attached>> /\ relay.pc = "free"
        BY <2>5 DEF Expire, Expired
      <3>2. running' = FALSE \/ UNCHANGED <<running, relay, idle, stuck>>
        BY <2>5 DEF Expire, Fail, End
      <3> QED
        BY <1>s, <1>3, <3>1, <3>2
    <2> QED
      BY <1>5, <1>7, <2>1, <2>2, <2>3, <2>4, <2>5 DEF RelayStep
  <1>8. CASE MonitorStep \/ CountCall \/ PutCall \/ \E r \in {role, "target"} : Stop(r)
    BY <1>1, <1>3, <1>8
       DEF MonitorStep, Load, PutPing, Miss, MissUpTo, Detach, End, CountCall, PutCall, Stop
  <1>9. CASE Pass
    BY <1>9, SendPass DEF SendInv
  <1>10. CASE UNCHANGED vars
    BY <1>1, <1>10 DEF vars
  <1> QED
    BY <1>6, <1>7, <1>8, <1>9, <1>10 DEF Next

LEMMA IdleInvInit ==
  Init => IdleInv
  <1> SUFFICES ASSUME Init PROVE IdleInv
    OBVIOUS
  <1>1. attached /\ relay.pc = "free"
    BY DEF Init, Free
  <1> QED
    BY <1>1, HeldInvInit DEF IdleInv, SendInv

LEMMA IdleInvStep ==
  IdleInv /\ [Next]_vars => IdleInv'
  BY HeldInvStep, SendStep DEF IdleInv

LEMMA IdleInvSuffices ==
  IdleInv => IdleTransfersEnd
  <1> SUFFICES ASSUME IdleInv, running PROVE idle <= IdleLimit + stuck
    BY HeldInvSuffices DEF IdleInv, IdleTransfersEnd
  <1>1. /\ idle \in Nat /\ stuck \in Nat /\ IdleTimeout \in Nat /\ AckTimeout \in Nat
        /\ relay.age \in Nat /\ relay.age <= AckTimeout
        /\ relay.pc = "free" => idle <= IdleTimeout
        /\ relay.pc # "free" =>
              idle <= IdleTimeout + stuck + (IF AwaitingAck THEN relay.age ELSE 0)
    BY SendShape
  <1> QED
    BY <1>1 DEF IdleLimit

\* IdleTransfersEnd: two minutes without progress, then the rest of the send that
\* holds relayMu: at most the time of an acknowledgement, and what that send waited
\* for the connection (expireTransfer, sendTransferChunk).
THEOREM IdleTransfersStop == Spec => []IdleTransfersEnd
  BY IdleInvInit, IdleInvStep, IdleInvSuffices, PTL DEF Spec

----------------------------------------------------------------------------
(* A Core that answers is kept. *)

\* No call stands before the ping, on the connection or at the Core.
NoCallAhead ==
    \A j \in DOMAIN to : to[j] = "ping" =>
        work.on # "call" /\ \A k \in DOMAIN to : k < j => to[k] # "call"

\* A ping is sent while nothing is owed, unless a call overtook it; and while the Core
\* runs, it ages only in the time the transfer holds it up.
PingInv ==
    attached =>
        /\ monitor.pc = "select" => excuse = NoExcuse
        /\ monitor.pc = "lock" =>
              excuse.held = 0 /\ (~excuse.overtaken => activeCalls = 0)
        /\ monitor.pc = "wait" /\ ~excuse.overtaken =>
              NoCallAhead /\ (up[role] => monitor.age <= excuse.held)

KeptInv == Typed /\ RolesInv /\ PingInv

\* A message behind the ping, and any but a ping, leaves the ping's place in line.
LEMMA AheadPut ==
  ASSUME Typed, NEW e \in Messages, to' = Append(to, e), UNCHANGED work,
         NoCallAhead, e # "ping"
  PROVE  NoCallAhead'
  <1>1. /\ DOMAIN to = 1..Len(to) /\ Len(to) \in Nat
        /\ DOMAIN to' = 1..Len(to) + 1
        /\ \A i \in 1..Len(to) : to'[i] = to[i]
        /\ to'[Len(to) + 1] = e
    <2>1. to \in Seq(Messages)
      BY DEF Typed, TypeOK
    <2> QED
      BY <2>1, AppendCounts
  <1>2. ASSUME NEW j \in DOMAIN to', to'[j] = "ping"
        PROVE  work.on # "call" /\ \A k \in DOMAIN to' : k < j => to'[k] # "call"
    <2>1. j \in DOMAIN to /\ to[j] = "ping"
      BY <1>1, <1>2
    <2>2. work.on # "call" /\ \A k \in DOMAIN to : k < j => to[k] # "call"
      BY <2>1 DEF NoCallAhead
    <2>3. ASSUME NEW k \in DOMAIN to', k < j PROVE to'[k] # "call"
      BY <1>1, <2>1, <2>2, <2>3
    <2> QED
      BY <2>2, <2>3
  <1> QED
    BY <1>2 DEF NoCallAhead

\* A ping that leaves while no call is counted has none before it.
LEMMA AheadPing ==
  ASSUME Typed, activeCalls = 0, to' = Append(to, "ping"), UNCHANGED work
  PROVE  NoCallAhead'
  <1>1. to \in Seq(Messages) /\ "ping" \in Messages /\ calls.waiting \in Nat
    <2>1. calls \in [left : 0..Calls, waiting : 0..Calls] /\ Calls \in Nat
      BY Parameters DEF Typed, TypeOK
    <2> QED
      BY <2>1 DEF Typed, TypeOK, Messages, Answered
  <1>2. /\ Count(to, "call") \in Nat /\ InWork("call") \in {0, 1} /\ Count(from, "call") \in Nat
        /\ activeCalls = calls.waiting + UnderWay("call")
    BY UnderWayCounted DEF Typed, Accounted
  <1>3. Count(to, "call") = 0 /\ InWork("call") = 0
    BY <1>1, <1>2 DEF UnderWay
  <1>4. work.on # "call" /\ \A k \in DOMAIN to : to[k] # "call"
    BY <1>1, <1>3, NoneCounted DEF InWork
  <1>5. /\ DOMAIN to = 1..Len(to) /\ Len(to) \in Nat
        /\ DOMAIN to' = 1..Len(to) + 1
        /\ \A i \in 1..Len(to) : to'[i] = to[i]
        /\ to'[Len(to) + 1] = "ping"
    BY <1>1, AppendCounts
  <1>6. \A k \in DOMAIN to' : to'[k] # "call"
    BY <1>4, <1>5
  <1> QED
    BY <1>4, <1>6 DEF NoCallAhead

LEMMA AheadTake ==
  ASSUME Typed, NoCallAhead, Take
  PROVE  NoCallAhead'
  <1>1. to \in Seq(Messages) /\ to # <<>> /\ to' = Tail(to) /\ work'.on = Head(to)
    BY DEF Typed, TypeOK, Take
  <1>2. /\ Head(to) = to[1] /\ Len(to) \in Nat \ {0}
        /\ DOMAIN to = 1..Len(to) /\ DOMAIN to' = 1..Len(to) - 1
        /\ \A i \in 1..Len(to) - 1 : to'[i] = to[i + 1]
    BY <1>1, TailCounts
  <1>3. ASSUME NEW j \in DOMAIN to', to'[j] = "ping"
        PROVE  work'.on # "call" /\ \A k \in DOMAIN to' : k < j => to'[k] # "call"
    <2>1. j + 1 \in DOMAIN to /\ to[j + 1] = "ping" /\ 1 \in DOMAIN to /\ 1 < j + 1
      BY <1>2, <1>3
    <2>2. \A k \in DOMAIN to : k < j + 1 => to[k] # "call"
      BY <2>1 DEF NoCallAhead
    <2>3. work'.on # "call"
      BY <1>1, <1>2, <2>1, <2>2
    <2>4. ASSUME NEW k \in DOMAIN to', k < j PROVE to'[k] # "call"
      <3>1. k + 1 \in DOMAIN to /\ k + 1 < j + 1 /\ to'[k] = to[k + 1]
        BY <1>2, <1>3, <2>4
      <3> QED
        BY <2>2, <3>1
    <2> QED
      BY <2>3, <2>4
  <1> QED
    BY <1>3 DEF NoCallAhead

\* When time passes at a Core that runs, a ping is late only behind the transfer: the
\* reader is away, or the Core works on a chunk.
LEMMA HeldByTransfer ==
  ASSUME Typed, RolesInv, attached, monitor.pc = "wait", NoCallAhead, up[role], ~Due
  PROVE  HeldUp
  <1>1. /\ to \in Seq(Messages) /\ from \in Seq(Answered \cup {"chunk"})
        /\ work \in [on : Messages \cup {"none"}, age : Nat]
        /\ role \in Roles
        /\ relay.pc \in {"free", "put", "send", "ack", "cancel"}
    BY DEF Typed, TypeOK
  <1> SUFFICES ASSUME ~HeldUp PROVE FALSE
    OBVIOUS
  <1>2. ReaderFree /\ (role = "source" => relay.pc = "free")
    BY <1>1 DEF HeldUp, ReaderFree, RolesInv
  <1>3. from = <<>>
    <2> SUFFICES ASSUME from # <<>> PROVE FALSE
      OBVIOUS
    <2>1. 1 \in DOMAIN from /\ Head(from) = from[1] /\ Head(from) \in Answered \cup {"chunk"}
      BY <1>1, TailCounts
    <2>2. CASE role = "source"
      BY <1>2, <2>2 DEF Due
    <2>3. CASE role = "target"
      <3>1. Count(from, "chunk") = 0
        BY <2>3 DEF RolesInv
      <3>2. Head(from) # "chunk"
        BY <1>1, <2>1, <3>1, NoneCounted
      <3> QED
        BY <1>2, <3>2 DEF Due
    <2> QED
      BY <1>1, <2>2, <2>3 DEF Roles
  <1>4. RoomFrom
    <2>1. FromBuffer \in Nat \ {0} /\ Len(<<>>) = 0
      BY Parameters
    <2> QED
      BY <1>3, <2>1 DEF RoomFrom
  <1>5. work.on \in {"none", "call"}
    <2>1. ~Worked
      BY <1>4 DEF Due
    <2>2. work.on \in {"ping", "stale", "cancel"} => Worked
      BY <1>1 DEF Worked, Allowed
    <2>3. work.on \in {"ping", "stale", "call", "chunk", "cancel", "none"}
      BY <1>1 DEF Messages, Answered
    <2>4. work.on # "chunk"
      BY DEF HeldUp
    <2> QED
      BY <2>1, <2>2, <2>3, <2>4
  <1>6. \E j \in DOMAIN to : to[j] = "ping"
    <2>1. Count(from, "ping") = 0 /\ InWork("ping") = 0 /\ Count(to, "ping") \in Nat
      BY <1>3, <1>5, NoneCounted, UnderWayCounted DEF InWork, Typed
    <2>2. Count(to, "ping") = 1
      BY <2>1 DEF Typed, OnePing, UnderWay
    <2>3. Count(to, "ping") = 0 <=> \A j \in DOMAIN to : to[j] # "ping"
      BY <1>1, NoneCounted
    <2> QED
      BY <2>2, <2>3
  <1>7. to # <<>> /\ work.on # "call"
    <2>1. DOMAIN <<>> = {}
      OBVIOUS
    <2> QED
      BY <1>6, <2>1 DEF NoCallAhead
  <1> QED
    BY <1>5, <1>7 DEF Due

LEMMA PingStep ==
  KeptInv /\ [Next]_vars => PingInv'
  <1> SUFFICES ASSUME KeptInv, [Next]_vars, attached' PROVE PingInv'
    BY DEF PingInv
  <1> USE DEF setting, core, pipes, requests, transfer, heartbeat
  <1>t. Typed /\ RolesInv /\ PingInv
    BY DEF KeptInv
  <1>n. /\ excuse \in [overtaken : BOOLEAN, held : Nat]
        /\ monitor \in [pc : {"select", "lock", "wait"}, age : 0..Timeout,
                        failures : 0..FailLimit - 1]
        /\ up \in [Roles -> BOOLEAN] /\ role \in Roles
    BY <1>t DEF Typed, TypeOK
  <1>0. CASE UNCHANGED vars
    BY <1>t, <1>0 DEF vars, PingInv, NoCallAhead
  <1>1. CASE Take
    BY <1>t, <1>1, AheadTake DEF Take, PingInv
  <1>2. CASE Answer \/ Store \/ Stream \/ ReadChunk
    <2>1. /\ UNCHANGED <<up, role, to, activeCalls, monitor, excuse, attached>>
          /\ work' = work \/ work' = Resting
      BY <1>2 DEF Answer, Store, Stream, ReadChunk
    <2>2. NoCallAhead => NoCallAhead'
      BY <2>1 DEF NoCallAhead, Resting
    <2> QED
      BY <1>t, <2>1, <2>2 DEF PingInv
  <1>3. CASE ReadAnswer
    <2>1. /\ UNCHANGED <<up, role, to, work, attached>>
          /\ \/ monitor'.pc = "select" /\ excuse' = NoExcuse
             \/ UNCHANGED <<monitor, excuse>>
      BY <1>3 DEF ReadAnswer
    <2>2. activeCalls = 0 => activeCalls' = 0
      <3>1. activeCalls' \in 0..Calls /\ Calls \in Nat
        BY <1>t, TypedStep, Parameters DEF Typed, TypeOK
      <3>2. activeCalls' = activeCalls \/ activeCalls' = activeCalls - 1
        BY <1>3 DEF ReadAnswer
      <3> QED
        BY <3>1, <3>2
    <2>3. NoCallAhead => NoCallAhead'
      BY <2>1 DEF NoCallAhead
    <2> QED
      BY <1>t, <2>1, <2>2, <2>3 DEF PingInv
  <1>4. CASE PutChunk \/ PutCancel \/ PutCall
    <2>1. PICK e \in {"chunk", "cancel", "call"} : to' = Append(to, e)
      BY <1>4 DEF PutChunk, PutCancel, PutCall
    <2>2. UNCHANGED <<up, role, work, activeCalls, monitor, excuse, attached>>
      BY <1>4 DEF PutChunk, PutCancel, PutCall
    <2>3. e \in Messages /\ e # "ping"
      BY <2>1 DEF Messages, Answered
    <2>4. NoCallAhead => NoCallAhead'
      BY <1>t, <2>1, <2>2, <2>3, AheadPut
    <2> QED
      BY <1>t, <2>2, <2>4 DEF PingInv
  <1>5. CASE PeerTakes \/ ChunkArrives \/ AckTimesOut \/ Complete \/ Expire
    <2>1. UNCHANGED <<setting, core, pipes, requests, heartbeat>>
      BY <1>5 DEF PeerTakes, ChunkArrives, AckTimesOut, Complete, Expire, Progress
    <2> QED
      BY <1>t, <2>1 DEF PingInv, NoCallAhead
  <1>6. CASE CountCall
    <2>1. /\ UNCHANGED <<up, role, to, work, monitor, attached>>
          /\ excuse' = [excuse EXCEPT !.overtaken = @ \/ monitor.pc = "lock"]
      BY <1>6 DEF CountCall
    <2>2. excuse'.held = excuse.held
          /\ (excuse'.overtaken <=> excuse.overtaken \/ monitor.pc = "lock")
      BY <1>n, <2>1
    <2>3. monitor.pc = "select" => excuse' = NoExcuse
      <3>1. ASSUME monitor.pc = "select" PROVE excuse' = NoExcuse
        <4>1. excuse = NoExcuse /\ ~(monitor.pc = "lock")
          BY <1>t, <2>1, <3>1 DEF PingInv
        <4>2. excuse' = [excuse EXCEPT !.overtaken = FALSE]
          BY <2>1, <4>1 DEF NoExcuse
        <4> QED
          BY <4>1, <4>2 DEF NoExcuse
      <3> QED
        BY <3>1
    <2>4. NoCallAhead => NoCallAhead'
      BY <2>1 DEF NoCallAhead
    <2> QED
      BY <1>t, <2>1, <2>2, <2>3, <2>4 DEF PingInv
  <1>7. CASE Load
    <2>1. /\ UNCHANGED <<up, role, to, work, activeCalls, excuse, attached>>
          /\ monitor.pc = "select"
          /\ monitor' = IF activeCalls > 0 THEN [monitor EXCEPT !.failures = 0]
                                           ELSE [monitor EXCEPT !.pc = "lock"]
      BY <1>7 DEF Load
    <2>2. \/ monitor'.pc = "select"
          \/ monitor'.pc = "lock" /\ ~(activeCalls > 0)
      BY <1>n, <2>1
    <2>3. ~(activeCalls > 0) => activeCalls = 0
      BY <1>t, Parameters DEF Typed, TypeOK
    <2>4. excuse = NoExcuse
      BY <1>t, <2>1 DEF PingInv
    <2> QED
      BY <2>1, <2>2, <2>3, <2>4 DEF PingInv, NoExcuse
  <1>8. CASE PutPing
    <2>1. /\ UNCHANGED <<up, role, work, activeCalls, excuse, attached>>
          /\ monitor.pc = "lock" /\ to' = Append(to, "ping")
          /\ monitor' = [monitor EXCEPT !.pc = "wait", !.age = 0]
      BY <1>8 DEF PutPing
    <2>2. monitor'.pc = "wait" /\ monitor'.age = 0
      BY <1>n, <2>1
    <2>3. excuse.held = 0 /\ (~excuse.overtaken => activeCalls = 0)
      BY <1>t, <2>1 DEF PingInv
    <2>4. ~excuse.overtaken => NoCallAhead'
      BY <1>t, <2>1, <2>3, AheadPing
    <2> QED
      BY <2>1, <2>2, <2>3, <2>4 DEF PingInv
  <1>9. CASE Miss
    <2>1. excuse' = NoExcuse
      BY <1>9 DEF Miss, MissUpTo
    <2>2. monitor' = [pc |-> "select", age |-> 0, failures |-> monitor.failures + 1]
      BY <1>9 DEF Miss, MissUpTo, Detach
    <2>3. monitor'.pc = "select"
      BY <2>2
    <2> QED
      BY <2>1, <2>3 DEF PingInv
  <1>10. CASE \E r \in {role, "target"} : Stop(r)
    <2>1. PICK r \in {role, "target"} : up' = [up EXCEPT ![r] = FALSE]
      BY <1>10 DEF Stop
    <2>2. UNCHANGED <<role, to, work, activeCalls, monitor, excuse, attached>>
      BY <1>10 DEF Stop
    <2>3. up'[role] => up[role]
      BY <1>n, <2>1
    <2>4. NoCallAhead => NoCallAhead'
      BY <2>2 DEF NoCallAhead
    <2> QED
      BY <1>t, <2>2, <2>3, <2>4 DEF PingInv
  <1>11. CASE Pass
    <2>1. /\ UNCHANGED <<up, role, to, activeCalls, attached>> /\ work'.on = work.on
          /\ monitor' = IF monitor.pc = "wait" THEN [monitor EXCEPT !.age = @ + 1] ELSE monitor
          /\ excuse' = IF monitor.pc = "wait" /\ HeldUp
                       THEN [excuse EXCEPT !.held = @ + 1] ELSE excuse
          /\ ~Due /\ attached
      BY <1>t, <1>11 DEF Pass, Typed, TypeOK
    <2>2. NoCallAhead => NoCallAhead'
      BY <2>1 DEF NoCallAhead
    <2>3. CASE monitor.pc # "wait"
      BY <1>t, <2>1, <2>3 DEF PingInv
    <2>4. CASE monitor.pc = "wait"
      <3>1. /\ monitor'.pc = "wait" /\ monitor'.age = monitor.age + 1
            /\ excuse'.overtaken = excuse.overtaken
            /\ HeldUp => excuse'.held = excuse.held + 1
        BY <1>n, <2>1, <2>4
      <3>2. ASSUME ~excuse.overtaken
            PROVE  NoCallAhead' /\ (up[role] => monitor'.age <= excuse'.held)
        <4>1. NoCallAhead /\ (up[role] => monitor.age <= excuse.held)
          BY <1>t, <2>1, <2>4, <3>2 DEF PingInv
        <4>2. up[role] => HeldUp
          BY <1>t, <2>1, <2>4, <4>1, HeldByTransfer
        <4>3. monitor.age \in Nat /\ excuse.held \in Nat
          BY <1>n, Parameters
        <4> QED
          BY <2>2, <3>1, <4>1, <4>2, <4>3
      <3> QED
        BY <2>1, <3>1, <3>2 DEF PingInv
    <2> QED
      BY <2>3, <2>4
  <1> QED
    BY <1>0, <1>1, <1>2, <1>3, <1>4, <1>5, <1>6, <1>7, <1>8, <1>9, <1>10, <1>11
       DEF Next, CoreStep, ReaderStep, RelayStep, MonitorStep

LEMMA KeptInvInit ==
  Init => KeptInv
  <1> SUFFICES ASSUME Init PROVE KeptInv
    OBVIOUS
  <1>1. monitor.pc = "select" /\ excuse = NoExcuse
    BY DEF Init
  <1> QED
    BY <1>1, DeadInvInit DEF KeptInv, DeadInv, PingInv

LEMMA KeptInvStep ==
  KeptInv /\ [Next]_vars => KeptInv'
  BY TypedStep, RolesStep, PingStep DEF KeptInv

\* Only a miss raises the failures or detaches the session.
LEMMA KeptInvSuffices ==
  KeptInv /\ [Next]_vars =>
      [(\A r \in Roles : up[r]) => \/ attached' /\ monitor'.failures <= monitor.failures
                                   \/ excuse.overtaken
                                   \/ excuse.held >= Timeout]_vars
  <1> SUFFICES ASSUME KeptInv, Next, \A r \in Roles : up[r],
                      ~excuse.overtaken, ~(excuse.held >= Timeout)
               PROVE  attached' /\ monitor'.failures <= monitor.failures
    OBVIOUS
  <1> USE DEF setting, core, pipes, requests, transfer, heartbeat
  <1>1. /\ monitor \in [pc : {"select", "lock", "wait"}, age : 0..Timeout,
                        failures : 0..FailLimit - 1]
        /\ monitor.failures \in Nat /\ monitor.age \in Nat /\ Timeout \in Nat
        /\ excuse.held \in Nat /\ up[role] /\ attached
    <2>1. MonitorTyped /\ ExcuseTyped /\ OthersTyped
      BY TypeParts DEF KeptInv, Typed
    <2> QED
      BY <2>1, Parameters DEF MonitorTyped, ExcuseTyped, OthersTyped, Next
  <1>2. ~Miss
    <2> SUFFICES ASSUME Miss PROVE FALSE
      OBVIOUS
    <2>1. monitor.pc = "wait" /\ monitor.age >= Timeout
      BY DEF Miss, MissUpTo
    <2>2. monitor.age <= excuse.held
      BY <1>1, <2>1 DEF KeptInv, PingInv
    <2> QED
      BY <1>1, <2>1, <2>2
  <1>3. CASE CoreStep \/ RelayStep \/ ReadChunk \/ PutCall \/ CountCall
               \/ \E r \in {role, "target"} : Stop(r)
    <2>1. UNCHANGED <<monitor, attached>>
      BY <1>3 DEF CoreStep, Take, Answer, Store, Stream, RelayStep, PeerTakes, ChunkArrives,
                  PutChunk, AckTimesOut, PutCancel, Complete, Expire, ReadChunk, PutCall,
                  CountCall, Stop
    <2> QED
      BY <1>1, <2>1
  <1>4. CASE ReadAnswer
    <2>1. UNCHANGED attached /\ (monitor' = monitor \/ monitor'.failures = 0)
      BY <1>4 DEF ReadAnswer
    <2> QED
      BY <1>1, <2>1
  <1>5. CASE Load \/ PutPing \/ Pass
    <2>1. UNCHANGED attached /\ monitor'.failures \in {monitor.failures, 0}
      BY <1>1, <1>5 DEF Load, PutPing, Pass
    <2> QED
      BY <1>1, <2>1
  <1> QED
    BY <1>2, <1>3, <1>4, <1>5 DEF Next, ReaderStep, MonitorStep

\* KeptWhileAnswering: a ping that no call overtook is answered in time by a Core that
\* runs, but for the time the transfer keeps the Core from it or the reader from the
\* pong, however many commands it executes (Manager.Monitor, Session.readLoop).
THEOREM RunningCoresStay == Spec => KeptWhileAnswering
  BY KeptInvInit, KeptInvStep, KeptInvSuffices, PTL DEF Spec, KeptWhileAnswering
==============================================================================
