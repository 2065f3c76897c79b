------------------------ MODULE DataServicesProofs ------------------------
(***************************************************************************)
(* Proofs about DataServices, for any set of clients and any bounds: the   *)
(* data call and its handle stay together, and the machine is in Acquired  *)
(* only with a call.  The invariant relates the machine's state to the     *)
(* call and to the events of the call that the MsgTask thread has yet to   *)
(* handle.                                                                 *)
(***************************************************************************)
EXTENDS DataServices, SequenceTheorems, TLAPS

Events == {"OPENED", "CLOSED"}

Has(q, type) == \E i \in DOMAIN q : q[i].type = type

\* The end of a call is the last that is heard of it.
ClosedLast(q) ==
    \A i, j \in DOMAIN q :
        q[i].type = "CLOSED" /\ q[j].type \in Events => j <= i

\* Nothing is left of a call, and nothing is to come, when the machine is Released.
ReleasedQuiet ==
    mStatePtr = "Released" =>
        ~ Has(queue, "OPENED") /\ ~ Has(queue, "CLOSED") /\ data.call = "down"

LiveCall == data.call # "down" => data.handle = "held" /\ ~ Has(queue, "CLOSED")

OpenedIsCurrent ==
    Has(queue, "OPENED") => data.call \in {"up", "stopping"} \/ Has(queue, "CLOSED")

NotStopped == mStatePtr \in {"Pending", "Acquired"} => data.call # "stopping"

AcquiredLive == mStatePtr = "Acquired" => data.call = "up" \/ Has(queue, "CLOSED")

CallInv ==
    /\ ReleasedQuiet
    /\ LiveCall
    /\ ClosedLast(queue)
    /\ OpenedIsCurrent
    /\ NotStopped
    /\ AcquiredLive
    /\ ~ data.lost

IInv == TypeOK /\ CallInv
---------------------------------------------------------------------------
(* The queue: what an append and a removal do to the events in it.         *)

LEMMA AppendOther ==
    ASSUME NEW q \in Seq(Messages), NEW m \in Messages, m.type \notin Events
    PROVE  /\ \A t \in Events : Has(Append(q, m), t) <=> Has(q, t)
           /\ ClosedLast(q) => ClosedLast(Append(q, m))
<1> DEFINE a == Append(q, m)
<1>1. /\ DOMAIN q = 1 .. Len(q) /\ Len(q) \in Nat
      /\ DOMAIN a = 1 .. Len(q) + 1
      /\ \A i \in 1 .. Len(q) : a[i] = q[i]
      /\ a[Len(q) + 1] = m
  BY AppendProperties
<1>2. \A i \in DOMAIN a : a[i].type \in Events => i \in DOMAIN q /\ a[i] = q[i]
  BY <1>1
<1>3. \A i \in DOMAIN q : i \in DOMAIN a /\ a[i] = q[i]
  BY <1>1
<1> HIDE DEF a
<1>4. \A t \in Events : Has(a, t) <=> Has(q, t)
  BY <1>2, <1>3 DEF Has
<1>5. ASSUME ClosedLast(q) PROVE ClosedLast(a)
  BY <1>2, <1>5 DEF ClosedLast, Events
<1>6. QED
  BY <1>4, <1>5 DEF a

LEMMA TailFacts ==
    ASSUME NEW q \in Seq(Messages), q # <<>>
    PROVE  /\ \A t : Has(Tail(q), t) => Has(q, t)
           /\ \A t : Has(q, t) /\ Head(q).type # t => Has(Tail(q), t)
           /\ ClosedLast(q) => ClosedLast(Tail(q))
           /\ ClosedLast(q) /\ Head(q).type = "CLOSED"
                => ~ Has(Tail(q), "OPENED") /\ ~ Has(Tail(q), "CLOSED")
<1> DEFINE r == Tail(q)
<1>1. /\ DOMAIN q = 1 .. Len(q) /\ Len(q) \in Nat \ {0}
      /\ DOMAIN r = 1 .. Len(q) - 1
      /\ \A i \in 1 .. Len(q) - 1 : r[i] = q[i + 1]
      /\ Head(q) = q[1]
  BY HeadTailProperties, EmptySeq
<1> HIDE DEF r
<1>2. \A i \in DOMAIN r : i + 1 \in DOMAIN q /\ r[i] = q[i + 1]
  BY <1>1
<1>3. \A i \in DOMAIN q : i # 1 => i - 1 \in DOMAIN r /\ r[i - 1] = q[i]
  BY <1>1
<1>4. \A t : Has(r, t) => Has(q, t)
  BY <1>2 DEF Has
<1>5. \A t : Has(q, t) /\ Head(q).type # t => Has(r, t)
  BY <1>1, <1>3 DEF Has
<1>6. ClosedLast(q) => ClosedLast(r)
  BY <1>1, <1>2 DEF ClosedLast
<1>7. ASSUME ClosedLast(q), Head(q).type = "CLOSED", NEW i \in DOMAIN r
      PROVE  r[i].type \notin Events
  <2>1. i + 1 \in DOMAIN q /\ 1 \in DOMAIN q /\ ~ (i + 1 <= 1)
    BY <1>1, <1>7
  <2>2. q[i + 1].type \notin Events
    BY <1>1, <1>7, <2>1 DEF ClosedLast
  <2>3. QED
    BY <1>2, <2>2
<1>8. QED
  BY <1>4, <1>5, <1>6, <1>7 DEF r, Has, Events

LEMMA FallBackFacts ==
    ASSUME queue \in Seq(Messages), queue # <<>>,
           NEW ids \in SUBSET Clients, FallBack(ids)
    PROVE  /\ queue' \in Seq(Messages)
           /\ \A t \in Events : Has(queue', t) <=> Has(Tail(queue), t)
           /\ ClosedLast(queue) => ClosedLast(queue')
<1>1. Tail(queue) \in Seq(Messages)
  BY HeadTailProperties
<1>2. ClosedLast(queue) => ClosedLast(Tail(queue))
  BY TailFacts
<1> DEFINE m == [type |-> "REQUEST_ATL", ids |-> ids]
<1>3. m \in Messages /\ m.type \notin Events
  BY DEF Messages, Events
<1>4. CASE ids = {}
  BY <1>1, <1>2, <1>4 DEF FallBack
<1>5. CASE ids # {}
  <2>1. queue' = Append(Tail(queue), m)
    BY <1>5 DEF FallBack
  <2> HIDE DEF m
  <2>2. QED
    BY <1>1, <1>2, <1>3, <2>1, AppendOther, AppendProperties
<1>6. QED
  BY <1>4, <1>5
---------------------------------------------------------------------------
(* The data call: what an attempt and the two ways to end it leave.        *)

LEMMA AttemptFacts ==
    ASSUME NEW a \in Attempts
    PROVE  /\ a.ret \in {"SUCCESS", "BUSY", "UNSUPPORTED"}
           /\ a.session \in {"held", "empty", "same"}
           /\ a.ret = "SUCCESS" => a.session = "held"
<1>1. PICK s \in Situations : a = openAndStartDataCall(s)
  BY DEF Attempts
<1>2. ds_client_open_call(s) \in {"SUCCESS", "RETRY_LATER", "FAILURE"}
  BY Zenon DEF ds_client_open_call
<1>3. QED
  BY <1>1, <1>2 DEF openAndStartDataCall

\* An attempt that meets no call loses none, and has one only if it succeeds.
LEMMA AttemptedFacts ==
    ASSUME NEW d \in DataCalls, d.call = "down", NEW a \in Attempts
    PROVE  /\ Attempted(d, a) \in DataCalls
           /\ Attempted(d, a).lost = d.lost
           /\ Attempted(d, a).call = IF a.ret = "SUCCESS" THEN "starting" ELSE "down"
           /\ a.ret = "SUCCESS" => Attempted(d, a).handle = "held"
<1>1. CASE a.session = "same"
  BY <1>1, AttemptFacts DEF Attempted, DataCalls
<1>2. CASE a.session # "same"
  BY <1>2, AttemptFacts DEF Attempted, DataCalls
<1>3. QED
  BY <1>1, <1>2

LEMMA AttemptedType ==
    ASSUME NEW d \in DataCalls, NEW a \in Attempts
    PROVE  Attempted(d, a) \in DataCalls
<1>1. CASE a.session = "same"
  BY <1>1 DEF Attempted
<1>2. CASE a.session # "same"
  BY <1>2, AttemptFacts DEF Attempted, DataCalls
<1>3. QED
  BY <1>1, <1>2

LEMMA StopFacts ==
    ASSUME NEW d \in DataCalls
    PROVE  /\ stopDataCall(d) \in DataCalls
           /\ stopDataCall(d).lost = d.lost
           /\ stopDataCall(d).handle = d.handle
           /\ stopDataCall(d).call = "down" <=> d.call = "down"
           /\ d.call \in {"up", "stopping"} => stopDataCall(d).call \in {"up", "stopping"}
  BY DEF stopDataCall, DataCalls

LEMMA CloseFacts ==
    ASSUME NEW d \in DataCalls
    PROVE  /\ closeDataCall(d) \in DataCalls
           /\ closeDataCall(d).call = "down"
           /\ d.call = "down" => closeDataCall(d).lost = d.lost
  BY DEF closeDataCall, DataCalls

\* sendRsrcRequest on handle d: what it leaves of the call and of the queue.
LEMMA RequestFacts ==
    ASSUME TypeOK, queue # <<>>, NEW d \in DataCalls,
           NEW a \in Attempts, NEW list \in [Clients -> Listing],
           sendRsrcRequest(d, a, list)
    PROVE  /\ data' = Attempted(d, a)
           /\ mRetries' \in 0 .. MaxRetries
           /\ timers' \in Nat
           /\ \E ids \in SUBSET Clients : FallBack(ids)
<1>1. mRetries \in 0 .. MaxRetries /\ timers \in Nat /\ MaxRetries \in Nat
  BY DataAssumption DEF TypeOK
<1>2. CASE a.ret = "SUCCESS" /\ UNCHANGED <<mRetries, timers>> /\ FallBack({})
  BY <1>1, <1>2 DEF sendRsrcRequest
<1>3. CASE /\ a.ret = "BUSY" /\ mRetries < MaxRetries
           /\ mRetries' = mRetries + 1
           /\ timers' = timers + 1
           /\ FallBack({})
  BY <1>1, <1>3 DEF sendRsrcRequest
<1>4. CASE /\ mRetries' = 0
           /\ UNCHANGED timers
           /\ \E c \in Active(list) : FallBack({c})
  BY <1>1, <1>4 DEF sendRsrcRequest, Active
<1>5. QED
  BY <1>2, <1>3, <1>4 DEF sendRsrcRequest---------------------------------------------------------------------------
(* Each step preserves the invariant.                                      *)

SameEvents ==
    /\ queue' \in Seq(Messages)
    /\ \A t \in Events : Has(queue', t) <=> Has(queue, t)
    /\ ClosedLast(queue) => ClosedLast(queue')

LEMMA HeadFacts ==
    ASSUME TypeOK, queue # <<>>
    PROVE  /\ Head(queue) \in Messages
           /\ Head(queue).type \in {"SUPL_ES", "RELEASE_ATL"} => Head(queue).id \in Clients
           /\ Head(queue).type = "REQUEST_ATL" => Head(queue).ids \in SUBSET Clients
<1>1. Head(queue) \in Messages
  BY HeadTailProperties DEF TypeOK
<1>2. QED
  BY <1>1 DEF Messages

LEMMA SkipOther ==
    ASSUME TypeOK, queue # <<>>, Head(queue).type \notin Events,
           NEW ids \in SUBSET Clients, FallBack(ids)
    PROVE  SameEvents
<1>1. queue \in Seq(Messages)
  BY DEF TypeOK
<1>2. \A t \in Events : Has(Tail(queue), t) <=> Has(queue, t)
  BY <1>1, TailFacts
<1>3. QED
  BY <1>1, <1>2, FallBackFacts DEF SameEvents

LEMMA Next1Falls == Next1 => queue # <<>> /\ FallBack({})
  BY DEF Next1, FallBack

LEMMA PostOther ==
    ASSUME TypeOK, NEW m \in Messages, m.type \notin Events,
           queue' = Append(queue, m)
    PROVE  SameEvents
<1>1. queue \in Seq(Messages)
  BY DEF TypeOK
<1>2. QED
  BY <1>1, AppendOther, AppendProperties DEF SameEvents

\* A step that leaves the machine, the call and the events alone.
LEMMA Undisturbed ==
    ASSUME CallInv, SameEvents, UNCHANGED <<mStatePtr, data>>
    PROVE  CallInv'
  BY DEF CallInv, SameEvents, ReleasedQuiet, LiveCall, OpenedIsCurrent, NotStopped,
         AcquiredLive, Events

LEMMA ModemStep ==
    ASSUME IInv, NEW c \in Clients, ModemOpens(c) \/ ModemCloses(c)
    PROVE  IInv'
<1> USE DEF IInv
<1>1. CASE ModemOpens(c)
  <2> DEFINE m == [type |-> "SUPL_ES", id |-> c]
  <2>1. m \in Messages /\ m.type \notin Events
    BY DEF Messages, Events
  <2>2. queue' = Append(queue, m)
    BY <1>1 DEF ModemOpens
  <2> HIDE DEF m
  <2>3. SameEvents
    BY <2>1, <2>2, PostOther
  <2>4. QED
    BY <1>1, <2>3, Undisturbed DEF ModemOpens, machine, TypeOK, SameEvents, Views
<1>2. CASE ModemCloses(c)
  <2> DEFINE m == [type |-> "RELEASE_ATL", id |-> c]
  <2>1. m \in Messages /\ m.type \notin Events
    BY DEF Messages, Events
  <2>2. queue' = Append(queue, m)
    BY <1>2 DEF ModemCloses
  <2> HIDE DEF m
  <2>3. SameEvents
    BY <2>1, <2>2, PostOther
  <2>4. QED
    BY <1>2, <2>3, Undisturbed DEF ModemCloses, machine, TypeOK, SameEvents, Views
<1>3. QED
  BY <1>1, <1>2

LEMMA RetryStep == ASSUME IInv, retryCallback PROVE IInv'
<1> USE DEF IInv
<1>1. SameEvents
  <2>1. CASE UNCHANGED queue
    BY <2>1 DEF SameEvents, TypeOK
  <2>2. ASSUME NEW c \in Clients, queue' = Append(queue, [type |-> "SUPL_ES", id |-> c])
        PROVE  SameEvents
    BY <2>2, PostOther DEF Messages, Events
  <2>3. QED
    BY <2>1, <2>2 DEF retryCallback, Active
<1>2. timers' \in Nat
  BY DEF retryCallback, TypeOK
<1>3. QED
  BY <1>1, <1>2, Undisturbed DEF retryCallback, machine, TypeOK, SameEvents

LEMMA RestartStep == ASSUME IInv, EngineUp PROVE IInv'
<1> USE DEF IInv
<1>1. SameEvents
  BY DEF EngineUp, SameEvents, TypeOK
<1>2. TypeOK'
  BY DEF EngineUp, machine, TypeOK, Views
<1>3. QED
  BY <1>1, <1>2, Undisturbed DEF EngineUp, machine---------------------------------------------------------------------------
(* The data services' events.                                              *)

LEMMA AppendEvent ==
    ASSUME NEW q \in Seq(Messages), ~ Has(q, "CLOSED"), NEW m \in Messages,
           m.type \in Events
    PROVE  /\ Append(q, m) \in Seq(Messages)
           /\ ClosedLast(Append(q, m))
           /\ Has(Append(q, m), m.type)
           /\ \A t : t # m.type => (Has(Append(q, m), t) <=> Has(q, t))
<1> DEFINE a == Append(q, m)
<1>1. /\ DOMAIN q = 1 .. Len(q) /\ Len(q) \in Nat
      /\ DOMAIN a = 1 .. Len(q) + 1
      /\ \A i \in 1 .. Len(q) : a[i] = q[i]
      /\ a[Len(q) + 1] = m
      /\ a \in Seq(Messages)
  BY AppendProperties
<1> HIDE DEF a
<1>2. \A i \in DOMAIN a : i <= Len(q) + 1
  BY <1>1
<1>3. \A i \in DOMAIN a : a[i].type = "CLOSED" => i = Len(q) + 1
  BY <1>1 DEF Has
<1>4. ClosedLast(a)
  BY <1>2, <1>3 DEF ClosedLast
<1>5. Has(a, m.type)
  BY <1>1 DEF Has
<1>6. ASSUME NEW t, t # m.type PROVE Has(a, t) <=> Has(q, t)
  BY <1>1, <1>6 DEF Has
<1>7. QED
  BY <1>1, <1>4, <1>5, <1>6 DEF a

LEMMA UpStep == ASSUME IInv, CallUp PROVE IInv'
<1> USE DEF IInv
<1> DEFINE m == [type |-> "OPENED"]
<1>1. queue \in Seq(Messages) /\ m \in Messages /\ m.type = "OPENED"
  BY DEF TypeOK, Messages
<1>2. ~ Has(queue, "CLOSED")
  BY DEF CallUp, CallInv, LiveCall
<1>3. queue' = Append(queue, m) \/ queue' = Append(Append(queue, m), m)
  BY <1>1 DEF CallUp
<1> HIDE DEF m
<1>4. queue' \in Seq(Messages) /\ ClosedLast(queue') /\ ~ Has(queue', "CLOSED")
  <2>1. CASE queue' = Append(queue, m)
    BY <1>1, <1>2, <2>1, AppendEvent DEF Events
  <2>2. CASE queue' = Append(Append(queue, m), m)
    <3>1. Append(queue, m) \in Seq(Messages) /\ ~ Has(Append(queue, m), "CLOSED")
      BY <1>1, <1>2, AppendEvent DEF Events
    <3>2. QED
      BY <1>1, <3>1, <2>2, AppendEvent DEF Events
  <2>3. QED
    BY <1>3, <2>1, <2>2
<1>5. data' \in DataCalls /\ data'.call = "up" /\ data'.handle = data.handle
      /\ data'.lost = data.lost
  BY DEF CallUp, TypeOK, DataCalls
<1>6. TypeOK'
  BY <1>4, <1>5 DEF TypeOK, CallUp, machine
<1>7. QED
  BY <1>4, <1>5, <1>6 DEF CallUp, machine, CallInv, ReleasedQuiet, LiveCall,
     OpenedIsCurrent, NotStopped, AcquiredLive

LEMMA OverStep == ASSUME IInv, CallOver PROVE IInv'
<1> USE DEF IInv
<1> DEFINE m == [type |-> "CLOSED"]
<1>1. queue \in Seq(Messages) /\ m \in Messages /\ m.type = "CLOSED"
  BY DEF TypeOK, Messages
<1>2. ~ Has(queue, "CLOSED")
  BY DEF CallOver, CallInv, LiveCall
<1>3. queue' = Append(queue, m)
  BY DEF CallOver
<1> HIDE DEF m
<1>4. queue' \in Seq(Messages) /\ ClosedLast(queue') /\ Has(queue', "CLOSED")
  BY <1>1, <1>2, <1>3, AppendEvent DEF Events
<1>5. data' \in DataCalls /\ data'.call = "down" /\ data'.lost = data.lost
  BY DEF CallOver, TypeOK, DataCalls
<1>6. TypeOK'
  BY <1>4, <1>5 DEF TypeOK, CallOver, machine
<1>7. QED
  BY <1>4, <1>5, <1>6 DEF CallOver, machine, CallInv, ReleasedQuiet, LiveCall,
     OpenedIsCurrent, NotStopped, AcquiredLive
---------------------------------------------------------------------------
(* The handlers.                                                           *)

LEMMA GrantedType == ASSUME TypeOK, NEW group, Granted(group) PROVE view' \in [Clients -> Views]
  BY DEF Granted, TypeOK, Views

LEMMA AddType ==
    ASSUME TypeOK, NEW c \in Clients, AddSubscriber(c)
    PROVE  mSubscribers' \in [Clients -> Listing]
  BY DEF AddSubscriber, TypeOK, Listing

LEMMA DropType ==
    ASSUME TypeOK, NEW group, Drop(group)
    PROVE  mSubscribers' \in [Clients -> Listing]
  BY DEF Drop, TypeOK, Listing

LEMMA SuplEsStep == ASSUME IInv, LocEngRequestSuplEs PROVE IInv'
<1> USE DEF IInv
<1> DEFINE c == Head(queue).id
<1>1. queue # <<>> /\ Head(queue).type = "SUPL_ES" /\ Head(queue).type \notin Events
  BY DEF LocEngRequestSuplEs, Is, Events
<1>2. c \in Clients
  BY <1>1, HeadFacts
<1>3. CASE SubscribeReleased(c)
  <2>1. mSubscribers' \in [Clients -> Listing]
    BY <1>2, <1>3, AddType DEF SubscribeReleased
  <2>2. mStatePtr = "Released" /\ data \in DataCalls
    BY <1>3 DEF SubscribeReleased, TypeOK
  <2>3. PICK a \in Attempts :
           /\ sendRsrcRequest(data, a, mSubscribers')
           /\ mStatePtr' = IF a.ret = "SUCCESS" THEN "Pending" ELSE "Released"
    BY <1>3 DEF SubscribeReleased
  <2>4. /\ data' = Attempted(data, a)
        /\ mRetries' \in 0 .. MaxRetries /\ timers' \in Nat
        /\ \E ids \in SUBSET Clients : FallBack(ids)
    BY <1>1, <2>1, <2>2, <2>3, RequestFacts
  <2>5. SameEvents
    BY <1>1, <2>4, SkipOther
  <2>6. data.call = "down" /\ ~ Has(queue, "OPENED") /\ ~ Has(queue, "CLOSED")
    BY <2>2 DEF CallInv, ReleasedQuiet
  <2>7. /\ data' \in DataCalls /\ data'.lost = data.lost
        /\ data'.call = IF a.ret = "SUCCESS" THEN "starting" ELSE "down"
        /\ a.ret = "SUCCESS" => data'.handle = "held"
    BY <2>2, <2>4, <2>6, AttemptedFacts
  <2>8. TypeOK'
    BY <1>3, <2>1, <2>3, <2>4, <2>5, <2>7 DEF SubscribeReleased, TypeOK, SameEvents, States
  <2>9. QED
    BY <2>3, <2>5, <2>6, <2>7, <2>8 DEF CallInv, SameEvents, ReleasedQuiet, LiveCall,
       OpenedIsCurrent, NotStopped, AcquiredLive, Events
<1>4. CASE SubscribeOther(c)
  <2>1. SameEvents
    BY <1>1, <1>4, Next1Falls, SkipOther DEF SubscribeOther
  <2>2. mSubscribers' \in [Clients -> Listing]
    BY <1>2, <1>4, AddType DEF SubscribeOther
  <2>3. view' \in [Clients -> Views]
    BY <1>4, GrantedType DEF SubscribeOther
  <2>4. TypeOK'
    BY <1>4, <2>1, <2>2, <2>3 DEF SubscribeOther, TypeOK, SameEvents
  <2>5. QED
    BY <1>4, <2>1, <2>4, Undisturbed DEF SubscribeOther
<1>5. QED
  BY <1>3, <1>4 DEF LocEngRequestSuplEs

LEMMA AtlStep == ASSUME IInv, LocEngRequestATL PROVE IInv'
<1> USE DEF IInv
<1>1. queue # <<>> /\ Head(queue).type = "REQUEST_ATL" /\ Head(queue).type \notin Events
  BY DEF LocEngRequestATL, Is, Events
<1>2. SameEvents
  BY <1>1, Next1Falls, SkipOther DEF LocEngRequestATL
<1>3. agnss' \subseteq Clients
  BY <1>1, HeadFacts DEF LocEngRequestATL, TypeOK
<1>4. view' \in [Clients -> Views]
  BY DEF LocEngRequestATL, TypeOK, Views
<1>5. TypeOK'
  BY <1>2, <1>3, <1>4 DEF LocEngRequestATL, machine, TypeOK, SameEvents
<1>6. QED
  BY <1>2, <1>5, Undisturbed DEF LocEngRequestATL, machine
\* The machine's half of a release; the call may be told to stop.
LEMMA UnsubscribeFacts ==
    ASSUME IInv, NEW c \in Clients, Unsubscribe(c)
    PROVE  /\ mSubscribers' \in [Clients -> Listing]
           /\ \/ UNCHANGED <<mStatePtr, data>>
              \/ /\ mStatePtr \in {"Pending", "Acquired"}
                 /\ mStatePtr' = "Releasing"
                 /\ data' = stopDataCall(data)
  BY DEF Unsubscribe, machine, IInv, TypeOK, Listing, States

LEMMA ReleaseStep == ASSUME IInv, LocEngReleaseATL PROVE IInv'
<1> USE DEF IInv
<1> DEFINE c == Head(queue).id
<1>1. queue # <<>> /\ Head(queue).type = "RELEASE_ATL" /\ Head(queue).type \notin Events
  BY DEF LocEngReleaseATL, Is, Events
<1>2. c \in Clients
  BY <1>1, HeadFacts
<1>3. SameEvents
  BY <1>1, Next1Falls, SkipOther DEF LocEngReleaseATL
<1>4. agnss' \subseteq Clients
  BY DEF LocEngReleaseATL, TypeOK
<1>5. /\ mSubscribers' \in [Clients -> Listing]
      /\ \/ UNCHANGED <<mStatePtr, data>>
         \/ /\ mStatePtr \in {"Pending", "Acquired"}
            /\ mStatePtr' = "Releasing"
            /\ data' = stopDataCall(data)
  BY <1>2, UnsubscribeFacts DEF LocEngReleaseATL, machine, TypeOK
<1> HIDE DEF c
<1>6. CASE UNCHANGED <<mStatePtr, data>>
  <2>1. TypeOK'
    BY <1>3, <1>4, <1>5, <1>6 DEF LocEngReleaseATL, TypeOK, SameEvents
  <2>2. QED
    BY <1>3, <1>6, <2>1, Undisturbed
<1>7. CASE /\ mStatePtr \in {"Pending", "Acquired"}
           /\ mStatePtr' = "Releasing"
           /\ data' = stopDataCall(data)
  <2>1. data \in DataCalls
    BY DEF TypeOK
  <2>2. TypeOK'
    BY <1>3, <1>4, <1>5, <1>7, <2>1, StopFacts
       DEF LocEngReleaseATL, TypeOK, SameEvents, States
  <2>3. QED
    BY <1>3, <1>7, <2>1, <2>2, StopFacts DEF CallInv, SameEvents, ReleasedQuiet,
       LiveCall, OpenedIsCurrent, NotStopped, AcquiredLive, Events
<1>8. QED
  BY <1>5, <1>6, <1>7

LEMMA OpenedStep == ASSUME IInv, LocEngSuplEsOpened PROVE IInv'
<1> USE DEF IInv
<1>1. queue \in Seq(Messages) /\ queue # <<>> /\ Head(queue).type = "OPENED"
  BY DEF LocEngSuplEsOpened, Is, TypeOK
<1>2. queue' = Tail(queue)
  BY DEF LocEngSuplEsOpened, Next1
<1>3. /\ queue' \in Seq(Messages) /\ ClosedLast(queue')
      /\ Has(queue', "CLOSED") <=> Has(queue, "CLOSED")
      /\ Has(queue', "OPENED") => Has(queue, "OPENED")
      /\ Has(queue, "OPENED")
  <2>1. Has(queue, "OPENED")
    BY <1>1, HeadTailProperties, EmptySeq DEF Has
  <2>2. QED
    BY <1>1, <1>2, <2>1, TailFacts, HeadTailProperties DEF CallInv
<1>4. view' \in [Clients -> Views]
  BY GrantedType DEF LocEngSuplEsOpened
<1>5. TypeOK'
  BY <1>3, <1>4 DEF LocEngSuplEsOpened, TypeOK, States
<1>6. QED
  BY <1>3, <1>5 DEF LocEngSuplEsOpened, CallInv, ReleasedQuiet, LiveCall,
     OpenedIsCurrent, NotStopped, AcquiredLive

LEMMA ClosedStep == ASSUME IInv, LocEngSuplEsClosed PROVE IInv'
<1> USE DEF IInv
<1>1. queue \in Seq(Messages) /\ queue # <<>> /\ Head(queue).type = "CLOSED"
  BY DEF LocEngSuplEsClosed, Is, TypeOK
<1>2. ~ Has(Tail(queue), "OPENED") /\ ~ Has(Tail(queue), "CLOSED")
  BY <1>1, TailFacts DEF CallInv
<1>3. data \in DataCalls /\ data.call = "down"
  <2>1. Has(queue, "CLOSED")
    BY <1>1, HeadTailProperties, EmptySeq DEF Has
  <2>2. QED
    BY <2>1 DEF CallInv, LiveCall, TypeOK
<1>4. mStatePtr # "Released"
  BY <1>1, HeadTailProperties, EmptySeq DEF CallInv, ReleasedQuiet, Has
<1>5. /\ mSubscribers' \in [Clients -> Listing]
      /\ mRetries' \in 0 .. MaxRetries /\ timers' \in Nat
      /\ data' \in DataCalls /\ data'.lost = data.lost
      /\ \/ data'.call = "down" /\ mStatePtr' \in {"Released", "Pending"}
         \/ data'.call = "starting" /\ data'.handle = "held" /\ mStatePtr' = "Pending"
      /\ \E ids \in SUBSET Clients : FallBack(ids)
  <2>1. CASE ClosedPending
    <3>1. mSubscribers' \in [Clients -> Listing]
      BY <2>1, DropType DEF ClosedPending
    <3>2. Listed(mSubscribers) \in SUBSET Clients
      BY DEF Listed, Active, Inactive
    <3>3. 0 \in 0 .. MaxRetries
      BY DataAssumption
    <3>4. QED
      BY <1>3, <2>1, <3>1, <3>2, <3>3 DEF ClosedPending, TypeOK
  <2>2. CASE ClosedAcquired
    <3>1. mSubscribers' \in [Clients -> Listing]
      BY <2>2, DropType DEF ClosedAcquired
    <3>2. QED
      BY <1>3, <2>2, <3>1, CloseFacts DEF ClosedAcquired, TypeOK
  <2>3. CASE ClosedReleasing
    <3>1. mSubscribers' \in [Clients -> Listing]
      BY <2>3, DropType DEF ClosedReleasing
    <3> DEFINE d == closeDataCall(data)
    <3>2. d \in DataCalls /\ d.call = "down" /\ d.lost = data.lost
      BY <1>3, CloseFacts
    <3>3. CASE data' = d /\ mStatePtr' = "Released" /\ FallBack({})
               /\ UNCHANGED <<mRetries, timers>>
      BY <3>1, <3>2, <3>3 DEF TypeOK
    <3>4. ASSUME mStatePtr' = "Pending", NEW a \in Attempts,
                 sendRsrcRequest(d, a, mSubscribers')
          PROVE  <1>5
      <4> HIDE DEF d
      <4>1. /\ data' = Attempted(d, a)
            /\ mRetries' \in 0 .. MaxRetries /\ timers' \in Nat
            /\ \E ids \in SUBSET Clients : FallBack(ids)
        BY <1>1, <3>1, <3>2, <3>4, RequestFacts
      <4>2. QED
        BY <3>1, <3>2, <3>4, <4>1, AttemptedFacts
    <3>5. QED
      BY <2>3, <3>3, <3>4 DEF ClosedReleasing
  <2>4. QED
    BY <1>4, <2>1, <2>2, <2>3 DEF LocEngSuplEsClosed, ClosedReleased
<1>6. queue' \in Seq(Messages) /\ ClosedLast(queue')
      /\ ~ Has(queue', "OPENED") /\ ~ Has(queue', "CLOSED")
  BY <1>1, <1>2, <1>5, FallBackFacts DEF CallInv, Events
<1>7. TypeOK'
  BY <1>5, <1>6 DEF LocEngSuplEsClosed, TypeOK, States
<1>8. QED
  BY <1>5, <1>6, <1>7 DEF CallInv, ReleasedQuiet, LiveCall, OpenedIsCurrent,
     NotStopped, AcquiredLive
---------------------------------------------------------------------------
(* The theorems.                                                           *)

LEMMA InitInv == ASSUME Init PROVE IInv
<1>1. TypeOK
  BY DataAssumption DEF Init, TypeOK, States, Listing, Views, DataCalls
<1>2. CallInv
  BY DEF Init, CallInv, ReleasedQuiet, LiveCall, ClosedLast, OpenedIsCurrent,
     NotStopped, AcquiredLive, Has
<1>3. QED
  BY <1>1, <1>2 DEF IInv

LEMMA StepInv == ASSUME IInv, [Next]_vars PROVE IInv'
<1>1. CASE UNCHANGED vars
  BY <1>1 DEF vars, machine, IInv, TypeOK, CallInv, ReleasedQuiet, LiveCall,
     OpenedIsCurrent, NotStopped, AcquiredLive
<1>2. CASE MsgTask
  BY <1>2, SuplEsStep, AtlStep, ReleaseStep, OpenedStep, ClosedStep DEF MsgTask
<1>3. QED
  BY <1>1, <1>2, ModemStep, RetryStep, UpStep, OverStep, RestartStep DEF Next

LEMMA Invariance == Spec => []IInv
<1>1. QED
  BY InitInv, StepInv, PTL DEF Spec

\* Every variable keeps its type: the retries stay within MAX_START_DATA_CALL_RETRIES
\* and the handle and its call are one of the pairs that ds_client knows.
THEOREM TypeCorrect == Spec => []TypeOK
<1>1. IInv => TypeOK
  BY DEF IInv
<1>2. QED
  BY <1>1, Invariance, PTL

\* No attempt of sendRsrcRequest and no close cuts a live call off from
\* dsClientHandle, and a Released machine has no call.
THEOREM CallStaysOwned == Spec => []CallOwned
<1>1. IInv => CallOwned
  BY DEF IInv, CallInv, CallOwned, ReleasedQuiet, LiveCall
<1>2. QED
  BY <1>1, Invariance, PTL

\* DSStateMachine is in Acquired only with its call, or with the end of the call
\* in the MsgTask queue.
THEOREM AcquiredHasCall == Spec => []AcquiredIsUp
<1>1. IInv => AcquiredIsUp
  BY DEF IInv, CallInv, AcquiredIsUp, AcquiredLive, Has, Queued
<1>2. QED
  BY <1>1, Invariance, PTL
===========================================================================
