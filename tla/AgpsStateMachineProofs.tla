---------------------- MODULE AgpsStateMachineProofs ----------------------
(***************************************************************************)
(* Proofs about AgpsStateMachine, for any set of clients, with or without  *)
(* the single-subscriber rule, with or without waiting for the close.      *)
(* The invariant has two halves that do not depend on each other: ListInv  *)
(* relates the state, the subscriber list and what clients were told;      *)
(* WireInv relates the state to what is in flight to and from the          *)
(* framework.                                                              *)
(***************************************************************************)
EXTENDS AgpsStateMachine, SequenceTheorems, TLAPS

ListInv ==
    /\ ReleasedEmpty
    /\ ToldTrue
    /\ \A c \in Clients :
          /\ mSubscribers[c] = "active" => view[c] \in {"asked", "granted"}
          /\ mSubscribers[c] = "inactive" => view[c] = "closing"

\* An open NIF is closed only with a RELEASED posted behind its GRANTED.
GrantIsCurrent ==
    \A i \in 1 .. Len(fromFw) : fromFw[i] = "GRANTED" =>
        \/ fw = "open"
        \/ \E j \in 1 .. Len(fromFw) : j > i /\ fromFw[j] = "RELEASED"

AcquiredWire ==
    mStatePtr = "Acquired" =>
        /\ fw = "open" \/ Posted({"RELEASED"})
        /\ toFw = <<>> \/ LastOrder("REQUEST")

\* A release that ends Releasing without being answered itself finds an answer
\* already posted.
ReleasingWire ==
    mStatePtr = "Releasing" =>
        \/ Posted({"RELEASED", "DENIED"})
        \/ /\ LastOrder("RELEASE")
           /\ Len(toFw) = 1 => fw # "closed"
           /\ Len(toFw) > 1 => toFw[Len(toFw) - 1] = "REQUEST"

WireInv == PendingAnswered /\ AcquiredWire /\ ReleasingWire /\ GrantIsCurrent

IInv == TypeOK /\ ListInv /\ WireInv
---------------------------------------------------------------------------
(* Types.                                                                  *)

LEMMA InitType == ASSUME Init PROVE TypeOK
  BY AgpsAssumption DEF Init, TypeOK, States, Listing, Views

\* Every order sent is appended to a well-typed channel.
LEMMA SendType ==
    ASSUME toFw \in Seq(Orders), NEW action \in Orders, NEW list,
           SendRsrcRequest(action, list)
    PROVE  toFw' \in Seq(Orders)
  BY DEF SendRsrcRequest

\* The handler that runs is the one of the answer at the head of the channel.
LEMMA EventCases ==
    ASSUME TypeOK, OnRsrcEvent
    PROVE  \/ Head(fromFw) = "GRANTED" /\ OnGranted
           \/ Head(fromFw) = "DENIED" /\ OnDenied
           \/ Head(fromFw) = "RELEASED" /\ OnReleased
<1>1. Head(fromFw) \in Answers
  BY HeadTailProperties DEF OnRsrcEvent, TypeOK
<1>2. QED
  BY <1>1 DEF OnRsrcEvent, Answers

LEMMA StepType == ASSUME TypeOK, [Next]_vars PROVE TypeOK'
<1> USE AgpsAssumption DEF TypeOK, States, Listing, Views, fwVars
<1>1. ASSUME NEW c \in Clients, SubscribeRsrc(c) PROVE TypeOK'
  <2>1. CASE SubscribeDenied
    BY <1>1, <2>1 DEF SubscribeRsrc, SubscribeDenied
  <2>2. CASE SubscribeReleased(c)
    <3>1. toFw' \in Seq(Orders)
      BY <2>2, SendType DEF SubscribeReleased, Orders
    <3>2. QED
      BY <1>1, <2>2, <3>1 DEF SubscribeRsrc, SubscribeReleased, AddSubscriber
  <2>3. CASE SubscribeAcquired(c)
    BY <1>1, <2>3 DEF SubscribeRsrc, SubscribeAcquired, AddSubscriber
  <2>4. CASE SubscribeWaiting(c)
    BY <1>1, <2>4 DEF SubscribeRsrc, SubscribeWaiting, AddSubscriber
  <2>5. QED
    BY <1>1, <2>1, <2>2, <2>3, <2>4 DEF SubscribeRsrc
<1>2. ASSUME NEW c \in Clients, UnsubscribeRsrc(c) PROVE TypeOK'
  <2>1. CASE UnsubscribeUnknown(c)
    BY <1>2, <2>1 DEF UnsubscribeRsrc, UnsubscribeUnknown
  <2>2. CASE UnsubscribeHolding(c)
    <3>1. toFw' \in Seq(Orders)
      BY <2>2, SendType DEF UnsubscribeHolding, Orders
    <3>2. QED
      BY <1>2, <2>2, <3>1 DEF UnsubscribeRsrc, UnsubscribeHolding, Leave
  <2>3. CASE UnsubscribeReleasing(c)
    BY <1>2, <2>3 DEF UnsubscribeRsrc, UnsubscribeReleasing, Leave
  <2>4. CASE UnsubscribeReleased(c)
    BY <1>2, <2>4 DEF UnsubscribeRsrc, UnsubscribeReleased
  <2>5. QED
    BY <1>2, <2>1, <2>2, <2>3, <2>4 DEF UnsubscribeRsrc
<1>3. ASSUME OnRsrcEvent PROVE TypeOK'
  <2>1. fromFw' \in Seq(Answers) /\ fw' = fw /\ restarts' = restarts
    BY <1>3 DEF OnRsrcEvent
  <2>2. OnGranted \/ OnDenied \/ OnReleased
    BY <1>3, EventCases
  <2>3. CASE OnGranted
    BY <2>1, <2>3 DEF OnGranted
  <2>4. CASE EndReleasing
    <3>1. toFw' \in Seq(Orders)
      BY <2>4, SendType DEF EndReleasing, Orders
    <3>2. QED
      BY <2>1, <2>4, <3>1 DEF EndReleasing, RemoveAll
  <2>5. ASSUME NEW state, EndFor(state) PROVE TypeOK'
    BY <2>1, <2>5 DEF EndFor, RemoveAll
  <2>6. ASSUME NEW states, Ignore(states) PROVE TypeOK'
    BY <2>1, <2>6 DEF Ignore
  <2>7. QED
    BY <2>2, <2>3, <2>4, <2>5, <2>6 DEF OnDenied, OnReleased
<1>4. ASSUME EngineUp PROVE TypeOK'
  BY <1>4 DEF EngineUp
<1>5. ASSUME Framework PROVE TypeOK'
  <2>1. /\ toFw' \in Seq(Orders)
        /\ fw' \in {"closed", "opening", "open"}
        /\ \/ fromFw' = fromFw
           \/ \E answer \in Answers : fromFw' = Append(fromFw, answer)
    <3> USE DEF Post, Answers
    <3>1. CASE FwRequest
      BY <3>1, HeadTailProperties DEF FwRequest
    <3>2. CASE FwRelease
      BY <3>2, HeadTailProperties DEF FwRelease
    <3>3. CASE FwOpen
      BY <3>3 DEF FwOpen
    <3>4. CASE FwFail
      BY <3>4 DEF FwFail
    <3>5. CASE FwLoss
      BY <3>5 DEF FwLoss
    <3>6. QED
      BY <1>5, <3>1, <3>2, <3>3, <3>4, <3>5 DEF Framework, FwReact
  <2>2. fromFw' \in Seq(Answers)
    BY <2>1, AppendProperties
  <2>3. QED
    BY <1>5, <2>1, <2>2 DEF Framework
<1>6. CASE UNCHANGED vars
  BY <1>6 DEF vars
<1>7. QED
  BY <1>1, <1>2, <1>3, <1>4, <1>5, <1>6 DEF Next

\* The state, the list, what clients were told and both channels stay well
\* typed.
THEOREM TypeCorrect == Spec => []TypeOK
<1>1. Init => TypeOK
  BY InitType
<1>2. TypeOK /\ [Next]_vars => TypeOK'
  BY StepType
<1>3. QED
  BY <1>1, <1>2, PTL DEF Spec
---------------------------------------------------------------------------
(* The subscriber list.                                                    *)

LEMMA InitList == ASSUME Init PROVE ListInv
  BY DEF Init, ListInv, ReleasedEmpty, ToldTrue, Tracked,
         HasSubscribers

\* What a client that leaves, and a group that is told and dropped, change.
LEMMA LeaveEffect ==
    ASSUME TypeOK, NEW c \in Clients, Leave(c)
    PROVE  /\ \A d \in Clients : d # c =>
                 mSubscribers'[d] = mSubscribers[d] /\ view'[d] = view[d]
           /\ \/ mSubscribers'[c] = "inactive" /\ view'[c] = "closing"
              \/ mSubscribers'[c] = "absent" /\ view'[c] = "idle"
  BY DEF Leave, TypeOK

LEMMA RemoveAllEffect ==
    ASSUME NEW group, RemoveAll(group), NEW d \in Clients
    PROVE  \/ mSubscribers'[d] = "absent" /\ view'[d] = "idle"
           \/ /\ d \notin group
              /\ mSubscribers'[d] = mSubscribers[d] /\ view'[d] = view[d]
  BY DEF RemoveAll

LEMMA SubscribeList ==
    ASSUME TypeOK, ListInv, NEW c \in Clients, SubscribeRsrc(c)
    PROVE  ListInv'
<1> USE DEF TypeOK, Listing, Views, ListInv, ReleasedEmpty,
            ToldTrue, Tracked, HasSubscribers
<1>0. restarts' = restarts /\ view[c] = "idle"
  BY DEF SubscribeRsrc
<1>1. CASE SubscribeDenied
  BY <1>0, <1>1 DEF SubscribeDenied
<1>2. CASE SubscribeReleased(c)
  BY <1>0, <1>2 DEF SubscribeReleased, AddSubscriber
<1>3. CASE SubscribeAcquired(c)
  BY <1>0, <1>3 DEF SubscribeAcquired, AddSubscriber
<1>4. CASE SubscribeWaiting(c)
  BY <1>0, <1>4 DEF SubscribeWaiting, AddSubscriber
<1>5. QED
  BY <1>1, <1>2, <1>3, <1>4 DEF SubscribeRsrc

LEMMA UnsubscribeList ==
    ASSUME TypeOK, ListInv, NEW c \in Clients, UnsubscribeRsrc(c)
    PROVE  ListInv'
<1> USE AgpsAssumption DEF TypeOK, States, Listing, Views, ListInv, ReleasedEmpty,
            ToldTrue, Tracked, HasSubscribers
<1>0. restarts' = restarts /\ view[c] \in {"asked", "granted"}
  BY DEF UnsubscribeRsrc
<1>1. CASE UnsubscribeUnknown(c)
  BY <1>0, <1>1 DEF UnsubscribeUnknown
<1>2. CASE UnsubscribeHolding(c)
  \* A holder of an Acquired machine, or one waiting in Pending, that stays keeps
  \* the state where it is.
  <2>0. Leave(c) /\ mStatePtr \in {"Pending", "Acquired"}
    BY <1>2 DEF UnsubscribeHolding
  <2>1. CASE HasActiveSubscribers(mSubscribers')
    <3>1. mStatePtr' = mStatePtr
      BY <1>2, <2>1 DEF UnsubscribeHolding
    <3>2. QED
      BY <1>0, <2>0, <3>1, LeaveEffect
  <2>2. CASE ~ HasActiveSubscribers(mSubscribers')
    <3>1. mStatePtr' = IF HasSubscribers(mSubscribers') THEN "Releasing" ELSE "Released"
      BY <1>2, <2>2 DEF UnsubscribeHolding
    <3>2. QED
      BY <1>0, <2>0, <2>2, <3>1, LeaveEffect DEF HasActiveSubscribers
  <2>3. QED
    BY <2>1, <2>2
<1>3. CASE UnsubscribeReleasing(c)
  BY <1>0, <1>3, LeaveEffect DEF UnsubscribeReleasing
<1>4. CASE UnsubscribeReleased(c)
  BY <1>0, <1>4 DEF UnsubscribeReleased
<1>5. QED
  BY <1>1, <1>2, <1>3, <1>4 DEF UnsubscribeRsrc

LEMMA RsrcEventList ==
    ASSUME TypeOK, ListInv, OnRsrcEvent
    PROVE  ListInv'
<1> USE AgpsAssumption DEF TypeOK, States, Listing, Views, ListInv, ReleasedEmpty,
            ToldTrue, Tracked, HasSubscribers
<1>0. restarts' = restarts /\ (OnGranted \/ OnDenied \/ OnReleased)
  BY EventCases DEF OnRsrcEvent
<1>1. CASE OnGranted
  BY <1>0, <1>1 DEF OnGranted
<1>2. CASE EndReleasing
  \* Only the inactive leave, and an inactive client holds nothing.
  BY <1>0, <1>2, RemoveAllEffect DEF EndReleasing, Inactive, HasActiveSubscribers
<1>3. ASSUME NEW state, EndFor(state) PROVE ListInv'
  BY <1>0, <1>3, RemoveAllEffect DEF EndFor, Listed
<1>4. ASSUME NEW states, Ignore(states) PROVE ListInv'
  BY <1>0, <1>4 DEF Ignore
<1>5. QED
  BY <1>0, <1>1, <1>2, <1>3, <1>4 DEF OnDenied, OnReleased

LEMMA EngineUpList ==
    ASSUME TypeOK, ListInv, EngineUp
    PROVE  ListInv'
  BY AgpsAssumption
     DEF EngineUp, TypeOK, Listing, ListInv, ReleasedEmpty, ToldTrue,
         Tracked, HasSubscribers

LEMMA StepList == ASSUME TypeOK, ListInv, [Next]_vars PROVE ListInv'
<1>1. ASSUME UNCHANGED <<mStatePtr, mSubscribers, view, restarts>> PROVE ListInv'
  BY <1>1 DEF ListInv, ReleasedEmpty, ToldTrue, Tracked,
              HasSubscribers
<1>2. CASE Framework
  BY <1>1, <1>2 DEF Framework
<1>3. CASE UNCHANGED vars
  BY <1>1, <1>3 DEF vars
<1>4. QED
  BY <1>2, <1>3, SubscribeList, UnsubscribeList, RsrcEventList, EngineUpList
     DEF Next

\* No transition forgets a holder or a waiting client: ReleasedEmpty and ToldTrue
\* hold in every reachable state.
THEOREM ListCorrect == Spec => [](ReleasedEmpty /\ ToldTrue)
<1>1. Init => ListInv
  BY InitList
<1>2. TypeOK /\ ListInv /\ [Next]_vars => ListInv'
  BY StepList
<1>3. ListInv => ReleasedEmpty /\ ToldTrue
  BY DEF ListInv
<1>4. QED
  BY <1>1, <1>2, <1>3, TypeCorrect, PTL DEF Spec
---------------------------------------------------------------------------
(* The two channels.                                                       *)

LEMMA PostEffect ==
    ASSUME TypeOK, NEW a \in Answers, fromFw' = Append(fromFw, a)
    PROVE  /\ \A S : Posted(S)' <=> Posted(S) \/ a \in S
           /\ GrantIsCurrent /\ fw' = fw /\ (a = "GRANTED" => fw = "open")
                 => GrantIsCurrent'
<1>1. /\ Len(fromFw') = Len(fromFw) + 1
      /\ \A i \in 1 .. Len(fromFw) : fromFw'[i] = fromFw[i]
      /\ fromFw'[Len(fromFw) + 1] = a
      /\ Len(fromFw) \in Nat
  BY AppendProperties DEF TypeOK
<1>2. ASSUME NEW S PROVE Posted(S)' <=> Posted(S) \/ a \in S
  BY <1>1 DEF Posted
<1>3. ASSUME GrantIsCurrent, fw' = fw, a = "GRANTED" => fw = "open"
      PROVE  GrantIsCurrent'
  BY <1>1, <1>3 DEF GrantIsCurrent
<1>4. QED
  BY <1>2, <1>3

\* A NIF that closes does so with a RELEASED, unless it was not open.
LEMMA CloseEffect ==
    ASSUME TypeOK, GrantIsCurrent, NEW a \in Answers \ {"GRANTED"},
           fromFw' = Append(fromFw, a), a = "RELEASED" \/ fw # "open"
    PROVE  GrantIsCurrent'
<1>1. /\ Len(fromFw) \in Nat /\ Len(fromFw') = Len(fromFw) + 1
      /\ \A i \in 1 .. Len(fromFw) : fromFw'[i] = fromFw[i]
      /\ fromFw'[Len(fromFw) + 1] = a
  BY AppendProperties DEF TypeOK
<1>2. QED
  BY <1>1 DEF GrantIsCurrent

LEMMA PopEffect ==
    ASSUME TypeOK, fromFw # <<>>, fromFw' = Tail(fromFw)
    PROVE  /\ \A S : Head(fromFw) \notin S => (Posted(S)' <=> Posted(S))
           /\ GrantIsCurrent /\ fw' = fw =>
                 /\ GrantIsCurrent'
                 /\ Head(fromFw) = "GRANTED" => fw = "open" \/ Posted({"RELEASED"})'
<1>1. /\ Len(fromFw) \in Nat
      /\ Len(fromFw') = Len(fromFw) - 1
      /\ \A i \in 1 .. Len(fromFw') : fromFw'[i] = fromFw[i + 1]
      /\ fromFw[1] = Head(fromFw)
      /\ Len(fromFw) > 0
  BY HeadTailProperties DEF TypeOK
<1>2. \A i \in 1 .. Len(fromFw) :
          i # 1 => i - 1 \in 1 .. Len(fromFw') /\ fromFw'[i - 1] = fromFw[i]
  BY <1>1
<1>3. ASSUME NEW S, Head(fromFw) \notin S PROVE Posted(S)' <=> Posted(S)
  <2>1. ASSUME Posted(S) PROVE Posted(S)'
    BY <1>1, <1>2, <1>3, <2>1 DEF Posted
  <2>2. ASSUME Posted(S)' PROVE Posted(S)
    <3>1. PICK i \in 1 .. Len(fromFw') : fromFw'[i] \in S
      BY <2>2 DEF Posted
    <3>2. i + 1 \in 1 .. Len(fromFw) /\ fromFw[i + 1] \in S
      BY <1>1, <3>1
    <3>3. QED
      BY <3>2 DEF Posted
  <2>3. QED
    BY <2>1, <2>2
<1>4. ASSUME GrantIsCurrent, fw' = fw PROVE GrantIsCurrent'
  <2>1. SUFFICES ASSUME NEW i \in 1 .. Len(fromFw'), fromFw'[i] = "GRANTED", fw # "open"
                 PROVE  \E j \in 1 .. Len(fromFw') : j > i /\ fromFw'[j] = "RELEASED"
    BY <1>4 DEF GrantIsCurrent
  <2>2. i + 1 \in 1 .. Len(fromFw) /\ fromFw[i + 1] = "GRANTED"
    BY <1>1, <2>1
  <2>3. PICK j \in 1 .. Len(fromFw) : j > i + 1 /\ fromFw[j] = "RELEASED"
    BY <1>4, <2>1, <2>2 DEF GrantIsCurrent
  <2>4. j - 1 \in 1 .. Len(fromFw') /\ j - 1 > i /\ fromFw'[j - 1] = "RELEASED"
    BY <1>1, <1>2, <2>1, <2>3
  <2>5. QED
    BY <2>4
<1>5. ASSUME GrantIsCurrent, Head(fromFw) = "GRANTED", fw # "open"
      PROVE  Posted({"RELEASED"})'
  <2>1. PICK j \in 1 .. Len(fromFw) : j > 1 /\ fromFw[j] = "RELEASED"
    BY <1>1, <1>5 DEF GrantIsCurrent
  <2>2. j - 1 \in 1 .. Len(fromFw') /\ fromFw'[j - 1] = "RELEASED"
    BY <1>1, <1>2, <2>1
  <2>3. QED
    BY <2>2 DEF Posted
<1>6. QED
  BY <1>3, <1>4, <1>5

\* A posted answer that is a GRANTED of a NIF not open has a RELEASED behind it.
LEMMA GrantedPosted ==
    ASSUME TypeOK, GrantIsCurrent, Posted({"GRANTED", "DENIED"}), fw # "open"
    PROVE  Posted({"RELEASED", "DENIED"})
  BY DEF Posted, GrantIsCurrent

LEMMA AppendOrder ==
    ASSUME TypeOK, NEW o \in Orders, toFw' = Append(toFw, o)
    PROVE  /\ Len(toFw) \in Nat /\ Len(toFw') = Len(toFw) + 1
           /\ LastOrder(o)'
           /\ toFw # <<>> => toFw'[Len(toFw') - 1] = toFw[Len(toFw)]
           /\ Len(toFw) > 0 => toFw # <<>>
  BY AppendProperties DEF TypeOK, LastOrder

LEMMA TailOrder ==
    ASSUME TypeOK, toFw # <<>>, toFw' = Tail(toFw)
    PROVE  /\ Len(toFw) \in Nat /\ Len(toFw) > 0
           /\ Len(toFw') = Len(toFw) - 1
           /\ Len(toFw) = 1 => toFw' = <<>> /\ toFw[Len(toFw)] = Head(toFw)
           /\ Len(toFw) = 2 => toFw[Len(toFw) - 1] = Head(toFw)
           /\ Len(toFw) > 1 => /\ toFw' # <<>>
                               /\ toFw'[Len(toFw')] = toFw[Len(toFw)]
           /\ Len(toFw) > 2 => toFw'[Len(toFw') - 1] = toFw[Len(toFw) - 1]
<1>1. /\ Len(toFw) \in Nat /\ Len(toFw) > 0
      /\ toFw' \in Seq(Orders)
      /\ Len(toFw') = Len(toFw) - 1
      /\ \A i \in 1 .. Len(toFw') : toFw'[i] = toFw[i + 1]
  BY HeadTailProperties DEF TypeOK
<1>2. Head(toFw) = toFw[1]
  BY DEF TypeOK
<1>3. Len(toFw) = 1 => toFw' = <<>>
  BY <1>1, EmptySeq
<1>4. QED
  BY <1>1, <1>2, <1>3
---------------------------------------------------------------------------
(* What is in flight answers the state.                                    *)

\* Steps of the clients and restarts leave the answers and the NIF alone.
LEMMA SameAnswers ==
    ASSUME fw' = fw, fromFw' = fromFw
    PROVE  /\ \A S : Posted(S)' <=> Posted(S)
           /\ GrantIsCurrent' <=> GrantIsCurrent
  BY DEF Posted, GrantIsCurrent

LEMMA SameWire ==
    ASSUME WireInv, UNCHANGED <<mStatePtr, toFw, fw, fromFw>>
    PROVE  WireInv'
  BY SameAnswers DEF WireInv, PendingAnswered, AcquiredWire, ReleasingWire, LastOrder

\* A release without active subscribers is sent.
LEMMA ReleaseSent ==
    ASSUME NEW list, ~ HasActiveSubscribers(list), SendRsrcRequest("RELEASE", list)
    PROVE  toFw' = Append(toFw, "RELEASE")
<1>1. HasActiveSubscribers(list) = FALSE
  BY DEF HasActiveSubscribers
<1>2. QED
  BY <1>1 DEF SendRsrcRequest

LEMMA SubscribeWire ==
    ASSUME TypeOK, ListInv, WireInv, NEW c \in Clients, SubscribeRsrc(c)
    PROVE  WireInv'
<1>1. CASE SubscribeReleased(c)
  <2>1. HasActiveSubscribers(mSubscribers')
    BY <1>1 DEF SubscribeReleased, AddSubscriber, HasActiveSubscribers, ListInv,
                ReleasedEmpty, HasSubscribers, TypeOK
  <2>2. toFw' = Append(toFw, "REQUEST")
    BY <1>1, <2>1 DEF SubscribeReleased, SendRsrcRequest
  <2>3. mStatePtr' = "Pending" /\ LastOrder("REQUEST")'
    BY <1>1, <2>2, AppendOrder DEF SubscribeReleased, Orders
  <2>4. GrantIsCurrent'
    BY SameAnswers DEF SubscribeRsrc, WireInv
  <2>5. QED
    BY <2>3, <2>4 DEF WireInv, PendingAnswered, AcquiredWire, ReleasingWire
<1>2. CASE mStatePtr' = mStatePtr /\ toFw' = toFw
  BY <1>2, SameWire DEF SubscribeRsrc
<1>3. QED
  BY <1>1, <1>2 DEF SubscribeRsrc, SubscribeDenied, SubscribeAcquired,
                    SubscribeWaiting

LEMMA UnsubscribeWire ==
    ASSUME TypeOK, WireInv, NEW c \in Clients, UnsubscribeRsrc(c)
    PROVE  WireInv'
<1>0. fw' = fw /\ fromFw' = fromFw /\ GrantIsCurrent'
  BY SameAnswers DEF UnsubscribeRsrc, WireInv
<1>1. ASSUME mStatePtr' = "Released" PROVE WireInv'
  BY <1>0, <1>1 DEF WireInv, PendingAnswered, AcquiredWire, ReleasingWire
<1>2. ASSUME mStatePtr' = mStatePtr, toFw' = toFw PROVE WireInv'
  BY <1>0, <1>2, SameWire
<1>3. ASSUME mStatePtr \in {"Pending", "Acquired"}, mStatePtr' = "Releasing",
             toFw' = Append(toFw, "RELEASE")
      PROVE  WireInv'
  \* The release follows a request, or finds the NIF opening or open, or finds
  \* the answer that will end Releasing posted.
  <2>1. toFw = <<>> => fw # "closed" \/ Posted({"RELEASED", "DENIED"})
    BY <1>3, GrantedPosted
       DEF WireInv, PendingAnswered, AcquiredWire, LastOrder, Posted
  <2>2. toFw # <<>> => toFw[Len(toFw)] = "REQUEST"
    BY <1>3 DEF WireInv, PendingAnswered, AcquiredWire, LastOrder
  <2>3. /\ LastOrder("RELEASE")'
        /\ Len(toFw') = 1 => toFw = <<>>
        /\ Len(toFw') > 1 => toFw'[Len(toFw') - 1] = "REQUEST"
    BY <1>3, <2>2, AppendOrder, EmptySeq DEF Orders, TypeOK
  <2>4. ReleasingWire'
    BY <1>0, <2>1, <2>3, SameAnswers DEF ReleasingWire
  <2>5. QED
    BY <1>0, <1>3, <2>4 DEF WireInv, PendingAnswered, AcquiredWire
<1>4. CASE UnsubscribeHolding(c)
  <2>1. mStatePtr \in {"Pending", "Acquired"}
    BY <1>4 DEF UnsubscribeHolding
  <2>2. \/ mStatePtr' = mStatePtr /\ toFw' = toFw
        \/ /\ mStatePtr' \in {"Releasing", "Released"}
           /\ toFw' = Append(toFw, "RELEASE")
    BY <1>4, ReleaseSent DEF UnsubscribeHolding
  <2>3. QED
    BY <1>1, <1>2, <1>3, <2>1, <2>2
<1>5. CASE UnsubscribeReleasing(c)
  BY <1>1, <1>2, <1>5 DEF UnsubscribeReleasing
<1>6. QED
  BY <1>2, <1>4, <1>5 DEF UnsubscribeRsrc, UnsubscribeUnknown, UnsubscribeReleased

LEMMA RsrcEventWire ==
    ASSUME TypeOK, WireInv, OnRsrcEvent
    PROVE  WireInv'
<1>0. /\ fw' = fw
      /\ \A S : Head(fromFw) \notin S => (Posted(S)' <=> Posted(S))
      /\ GrantIsCurrent'
      /\ Head(fromFw) = "GRANTED" => fw = "open" \/ Posted({"RELEASED"})'
  BY PopEffect DEF OnRsrcEvent, WireInv
<1>1. ASSUME mStatePtr' = "Released" PROVE WireInv'
  BY <1>0, <1>1 DEF WireInv, PendingAnswered, AcquiredWire, ReleasingWire
<1>2. CASE EndReleasing
  <2>1. CASE HasActiveSubscribers(mSubscribers')
    <3>1. mStatePtr' = "Pending" /\ toFw' = Append(toFw, "REQUEST")
      BY <1>2, <2>1 DEF EndReleasing, SendRsrcRequest
    <3>2. LastOrder("REQUEST")'
      BY <3>1, AppendOrder DEF Orders
    <3>3. QED
      BY <1>0, <3>1, <3>2 DEF WireInv, PendingAnswered, AcquiredWire, ReleasingWire
  <2>2. QED
    BY <1>1, <1>2, <2>1 DEF EndReleasing
<1>3. CASE Head(fromFw) = "GRANTED" /\ OnGranted
  <2>1. CASE mStatePtr = "Pending"
    <3>1. mStatePtr' = "Acquired" /\ toFw' = toFw
      BY <1>3, <2>1 DEF OnGranted
    <3>2. AcquiredWire'
      BY <1>0, <1>3, <2>1, <3>1
         DEF WireInv, PendingAnswered, AcquiredWire, LastOrder
    <3>3. QED
      BY <1>0, <3>1, <3>2 DEF WireInv, PendingAnswered, ReleasingWire
  <2>2. CASE mStatePtr # "Pending"
    BY <1>0, <1>3, <2>2
       DEF OnGranted, WireInv, PendingAnswered, AcquiredWire, ReleasingWire, LastOrder
  <2>3. QED
    BY <2>1, <2>2
<1>4. CASE Head(fromFw) = "DENIED" /\ Ignore({"Released", "Acquired"})
  BY <1>0, <1>4
     DEF Ignore, WireInv, PendingAnswered, AcquiredWire, ReleasingWire, LastOrder
<1>5. CASE Head(fromFw) = "RELEASED" /\ Ignore({"Released", "Pending"})
  BY <1>0, <1>5
     DEF Ignore, WireInv, PendingAnswered, AcquiredWire, ReleasingWire, LastOrder
<1>6. QED
  BY <1>1, <1>2, <1>3, <1>4, <1>5, EventCases DEF OnDenied, OnReleased, EndFor

LEMMA FrameworkWire ==
    ASSUME TypeOK, WireInv, Framework
    PROVE  WireInv'
<1> USE DEF WireInv
<1>0. mStatePtr' = mStatePtr
  BY DEF Framework
<1>1. ASSUME NEW a \in Answers, Post(a)
      PROVE  /\ \A S : Posted(S)' <=> Posted(S) \/ a \in S
             /\ GrantIsCurrent /\ fw' = fw /\ (a = "GRANTED" => fw = "open")
                   => GrantIsCurrent'
  BY <1>1, PostEffect DEF Post
<1>2. CASE FwRequest
  <2>1. toFw # <<>> /\ Head(toFw) = "REQUEST" /\ toFw' = Tail(toFw)
    BY <1>2 DEF FwRequest
  <2>2. CASE fw # "open" /\ fw' = "opening" /\ UNCHANGED fromFw
    <3>1. \A S : Posted(S)' <=> Posted(S)
      BY <2>2 DEF Posted
    <3>2. GrantIsCurrent'
      BY <2>2 DEF GrantIsCurrent
    <3>3. PendingAnswered'
      BY <1>0, <2>1, <2>2, TailOrder DEF PendingAnswered, LastOrder
    <3>4. AcquiredWire'
      BY <1>0, <2>1, <2>2, <3>1, TailOrder DEF AcquiredWire, LastOrder
    <3>5. ReleasingWire'
      BY <1>0, <2>1, <2>2, <3>1, TailOrder DEF ReleasingWire, LastOrder
    <3>6. QED
      BY <3>2, <3>3, <3>4, <3>5
  <2>3. CASE fw = "open" /\ UNCHANGED fw /\ Post("GRANTED")
    <3>1. /\ \A S : Posted(S)' <=> Posted(S) \/ "GRANTED" \in S
          /\ GrantIsCurrent'
      BY <1>1, <2>3 DEF Answers
    <3>2. PendingAnswered'
      BY <1>0, <2>1, <2>3, <3>1, TailOrder DEF PendingAnswered, LastOrder
    <3>3. AcquiredWire'
      BY <1>0, <2>1, <2>3, <3>1, TailOrder DEF AcquiredWire, LastOrder
    <3>4. ReleasingWire'
      BY <1>0, <2>1, <2>3, <3>1, TailOrder DEF ReleasingWire, LastOrder
    <3>5. QED
      BY <3>1, <3>2, <3>3, <3>4
  <2>4. QED
    BY <1>2, <2>2, <2>3 DEF FwRequest
<1>3. CASE FwRelease
  <2>1. /\ toFw # <<>> /\ Head(toFw) = "RELEASE" /\ toFw' = Tail(toFw)
        /\ fw' = "closed"
    BY <1>3 DEF FwRelease
  \* Either the release is answered, or the NIF was closed already.
  <2>2. /\ \A S : Posted(S) => Posted(S)'
        /\ Posted({"RELEASED", "DENIED"})' \/ fw = "closed"
        /\ Posted({"RELEASED"})' \/ fw = "closed"
    <3>1. CASE Post("RELEASED")
      BY <1>1, <3>1 DEF Answers
    <3>2. CASE fw = "closed" /\ UNCHANGED fromFw
      BY <3>2 DEF Posted
    <3>3. QED
      BY <1>3, <3>1, <3>2 DEF FwRelease
  <2>3. GrantIsCurrent'
    <3>1. CASE fromFw' = Append(fromFw, "RELEASED")
      BY <2>1, <3>1, CloseEffect DEF Answers
    <3>2. CASE fw = "closed" /\ UNCHANGED fromFw
      BY <2>1, <3>2 DEF GrantIsCurrent
    <3>3. QED
      BY <1>3, <3>1, <3>2 DEF FwRelease, Post
  <2>4. PendingAnswered'
    BY <1>0, <2>1, TailOrder DEF PendingAnswered, LastOrder
  <2>5. AcquiredWire'
    BY <1>0, <2>1, <2>2, TailOrder DEF AcquiredWire, LastOrder
  \* An unanswered release is not the last order, nor the one before the last.
  <2>6. ReleasingWire'
    BY <1>0, <2>1, <2>2, TailOrder DEF ReleasingWire, LastOrder
  <2>7. QED
    BY <2>3, <2>4, <2>5, <2>6
<1>4. CASE FwOpen
  <2>1. /\ \A S : Posted(S)' <=> Posted(S) \/ "GRANTED" \in S
        /\ toFw' = toFw /\ fw' = "open"
    BY <1>1, <1>4 DEF FwOpen, Answers
  <2>2. GrantIsCurrent'
    BY <2>1 DEF GrantIsCurrent
  <2>3. QED
    BY <1>0, <2>1, <2>2 DEF PendingAnswered, AcquiredWire, ReleasingWire, LastOrder
<1>5. CASE FwFail
  <2>1. /\ \A S : Posted(S)' <=> Posted(S) \/ "DENIED" \in S
        /\ toFw' = toFw /\ fw = "opening" /\ fw' = "closed"
        /\ fromFw' = Append(fromFw, "DENIED")
    BY <1>1, <1>5 DEF FwFail, Answers, Post
  <2>2. GrantIsCurrent'
    BY <2>1, CloseEffect DEF Answers
  <2>3. QED
    BY <1>0, <2>1, <2>2 DEF PendingAnswered, AcquiredWire, ReleasingWire, LastOrder
<1>6. CASE FwLoss
  <2>1. /\ \A S : Posted(S)' <=> Posted(S) \/ "RELEASED" \in S
        /\ toFw' = toFw /\ fw = "open" /\ fw' = "closed"
        /\ fromFw' = Append(fromFw, "RELEASED")
    BY <1>1, <1>6 DEF FwLoss, Answers, Post
  <2>2. GrantIsCurrent'
    BY <2>1, CloseEffect DEF Answers
  <2>3. QED
    BY <1>0, <2>1, <2>2 DEF PendingAnswered, AcquiredWire, ReleasingWire, LastOrder
<1>7. QED
  BY <1>2, <1>3, <1>4, <1>5, <1>6 DEF Framework, FwReact

LEMMA StepWire ==
    ASSUME TypeOK, ListInv, WireInv, [Next]_vars
    PROVE  WireInv'
<1>1. CASE EngineUp
  BY <1>1, SameWire DEF EngineUp, fwVars
<1>2. CASE UNCHANGED vars
  BY <1>2, SameWire DEF vars
<1>3. QED
  BY <1>1, <1>2, SubscribeWire, UnsubscribeWire, RsrcEventWire, FrameworkWire
     DEF Next

LEMMA InitWire == ASSUME Init PROVE WireInv
  BY DEF Init, WireInv, PendingAnswered, AcquiredWire, ReleasingWire, GrantIsCurrent

\* IInv is inductive.
THEOREM Inductive == Spec => []IInv
<1>1. Init => IInv
  BY InitType, InitList, InitWire DEF IInv
<1>2. IInv /\ [Next]_vars => IInv'
  BY StepType, StepList, StepWire DEF IInv
<1>3. QED
  BY <1>1, <1>2, PTL DEF Spec

\* The two waiting states are never left without the answer that ends them on
\* its way, whatever earlier requests, releases and losses are still in flight.
THEOREM Answered == Spec => [](PendingAnswered /\ ReleasingAnswered)
<1>1. IInv => PendingAnswered /\ ReleasingAnswered
  BY DEF IInv, WireInv, ReleasingWire, ReleasingAnswered
<1>2. QED
  BY <1>1, Inductive, PTL

\* A settled machine that grants new subscribers at once holds an open NIF.
THEOREM AcquiredHasNif == Spec => []AcquiredIsOpen
<1>1. IInv => AcquiredIsOpen
  BY DEF IInv, TypeOK, WireInv, AcquiredWire, AcquiredIsOpen, Quiescent, Posted
<1>2. QED
  BY <1>1, Inductive, PTL

\* Releasing is never left without the answer that ends it on its way.
THEOREM ReleasingIsAnswered == Spec => []ReleasingAnswered
<1>1. QED
  BY Answered, PTL
---------------------------------------------------------------------------
(* The machine is a shared lease of the connection.                        *)

\* For the clients that last, the list and what they were told say the same.
LeaseInv ==
    /\ WaitClose => restarts = 0
    /\ \A c \in Lasting :
          /\ mSubscribers[c] = "active" <=> view[c] \in {"asked", "granted"}
          /\ mSubscribers[c] = "inactive" <=> view[c] = "closing"

LEMMA LastingTracked ==
    ASSUME LeaseInv
    PROVE  Lasting \subseteq Clients /\ Lasting \subseteq Tracked
  BY AgpsAssumption DEF LeaseInv, Lasting, Tracked

LEMMA StepLease ==
    ASSUME TypeOK, ListInv, LeaseInv, [Next]_vars
    PROVE  /\ WaitClose => restarts' = 0
           /\ \A c \in Lasting : view'[c] = "closing" => mSubscribers'[c] = "inactive"
<1> DEFINE Stays == \A d \in Lasting : view'[d] = "closing" => mSubscribers'[d] = "inactive"
<1> Lasting \subseteq Clients
  BY LastingTracked
<1> USE DEF TypeOK, Views, Listing, LeaseInv
<1>1. ASSUME UNCHANGED <<mSubscribers, view>> PROVE Stays
  BY <1>1
<1>2. ASSUME NEW c \in Clients, SubscribeRsrc(c) PROVE Stays
  BY <1>2 DEF SubscribeRsrc, SubscribeDenied, SubscribeReleased, SubscribeAcquired,
              SubscribeWaiting, AddSubscriber
<1>3. ASSUME NEW c \in Clients, UnsubscribeRsrc(c) PROVE Stays
  <2>1. CASE UnsubscribeUnknown(c)
    BY <1>3, <2>1 DEF UnsubscribeRsrc, UnsubscribeUnknown
  <2>2. CASE Leave(c)
    BY <2>2, LeaveEffect
  <2>3. CASE mSubscribers[c] # "absent" /\ UnsubscribeReleased(c)
    BY <2>3 DEF UnsubscribeReleased, ListInv, ReleasedEmpty, HasSubscribers
  <2>4. QED
    BY <1>3, <2>1, <2>2, <2>3
       DEF UnsubscribeRsrc, UnsubscribeHolding, UnsubscribeReleasing
<1>4. ASSUME OnRsrcEvent PROVE Stays
  <2>1. CASE OnGranted
    BY <2>1 DEF OnGranted
  <2>2. ASSUME NEW group, RemoveAll(group), Inactive \subseteq group PROVE Stays
    BY <2>2, RemoveAllEffect DEF Inactive
  <2>3. Inactive \subseteq Listed
    BY DEF Inactive, Listed
  <2>4. QED
    BY <1>1, <1>4, <2>1, <2>2, <2>3, EventCases
       DEF OnDenied, OnReleased, EndReleasing, EndFor, Ignore
<1>5. ASSUME EngineUp PROVE Stays
  BY <1>5 DEF EngineUp, Lasting
<1>6. Stays
  BY <1>1, <1>2, <1>3, <1>4, <1>5 DEF Next, Framework, vars
<1>7. WaitClose => restarts' = 0
  BY DEF Next, SubscribeRsrc, UnsubscribeRsrc, OnRsrcEvent, EngineUp, Framework, vars
<1>8. QED
  BY <1>6, <1>7

\* What the users were told, client by client.
LEMMA UsersTold ==
    /\ \A c \in Lasting : LeaseUsers[c] = view[c] /\ LeaseUsers'[c] = view'[c]
    /\ LeaseUsers = [c \in Lasting |-> view[c]]
    /\ LeaseUsers' = [c \in Lasting |-> view'[c]]
  BY DEF LeaseUsers, Lasting

\* The lease that a state stands for.
LEMMA LeaseIs ==
    /\ mStatePtr = "Acquired" => LeaseState = "held"
    /\ mStatePtr = "Pending" => LeaseState = "wanted"
    /\ mStatePtr = "Released" => LeaseState = "free"
    /\ mStatePtr = "Releasing" =>
          LeaseState = IF HasActiveSubscribers(mSubscribers) THEN "wanted" ELSE "free"
    /\ mStatePtr' = "Acquired" => LeaseState' = "held"
    /\ mStatePtr' = "Pending" => LeaseState' = "wanted"
    /\ mStatePtr' = "Released" => LeaseState' = "free"
    /\ mStatePtr' = "Releasing" =>
          LeaseState' = IF HasActiveSubscribers(mSubscribers') THEN "wanted" ELSE "free"
  BY DEF LeaseState

\* Nobody's listing and nobody's view changes: the lease stutters.
LEMMA StutterMaps ==
    ASSUME \A d \in Lasting : view'[d] = view[d], LeaseState' = LeaseState
    PROVE  UNCHANGED Lease!leaseVars
  BY UsersTold DEF Lease!leaseVars

\* A lease that a step keeps, or gives up when the list has no active subscriber.
LEMMA KeepMaps ==
    ASSUME LeaseInv', Lasting \subseteq Clients,
           \/ LeaseState' = LeaseState
           \/ LeaseState' = "free" /\ ~ HasActiveSubscribers(mSubscribers')
    PROVE  Lease!Keep(LeaseUsers')
  BY UsersTold DEF Lease!Keep, Lease!Needing, LeaseInv, HasActiveSubscribers, Lasting

LEMMA OthersMaps ==
    ASSUME \A d \in Lasting : view'[d] = view[d],
           \/ LeaseState = "free" /\ LeaseState' = "wanted"
           \/ Lease!Keep(LeaseUsers')
    PROVE  Lease!LeaseNext
<1>1. LeaseUsers' = LeaseUsers
  BY UsersTold
<1>2. Lease!Others
  BY <1>1 DEF Lease!Others, Lease!Keep
<1>3. QED
  BY <1>2 DEF Lease!LeaseNext

LEMMA SubscribeMaps ==
    ASSUME TypeOK, ListInv, LeaseInv, NEW c \in Clients, SubscribeRsrc(c)
    PROVE  [Lease!LeaseNext]_(Lease!leaseVars)
<1> Lasting \subseteq Clients
  BY LastingTracked
<1> USE DEF TypeOK, States, Listing, Views
<1>0. view[c] = "idle" /\ mSubscribers[c] = "absent"
  BY DEF SubscribeRsrc, ListInv
<1>1. CASE SubscribeDenied
  BY <1>1, StutterMaps DEF SubscribeDenied, LeaseState
<1>2. ASSUME ~ SubscribeDenied
      PROVE  \/ /\ LeaseState = "held" /\ LeaseState' = "held"
                /\ view' = [view EXCEPT ![c] = "granted"]
             \/ /\ LeaseState \in {"free", "wanted"} /\ LeaseState' = "wanted"
                /\ view' = [view EXCEPT ![c] = "asked"]
  <2>1. mSubscribers' = AddSubscriber(c) => HasActiveSubscribers(mSubscribers')
    BY <1>0 DEF AddSubscriber, HasActiveSubscribers
  <2>2. QED
    BY <1>2, <2>1, LeaseIs
       DEF SubscribeRsrc, SubscribeReleased, SubscribeAcquired, SubscribeWaiting
<1>3. ASSUME ~ SubscribeDenied, c \in Lasting PROVE Lease!LeaseNext
  <2>1. Lease!Ask(c)
    BY <1>0, <1>2, <1>3, UsersTold DEF Lease!Ask
  <2>2. QED
    BY <1>3, <2>1 DEF Lease!LeaseNext
<1>4. ASSUME ~ SubscribeDenied, c \notin Lasting PROVE Lease!LeaseNext
  BY <1>2, <1>4, OthersMaps DEF Lease!Keep
<1>5. QED
  BY <1>1, <1>3, <1>4

LEMMA UnsubscribeMaps ==
    ASSUME TypeOK, ListInv, LeaseInv, LeaseInv', NEW c \in Clients, UnsubscribeRsrc(c)
    PROVE  [Lease!LeaseNext]_(Lease!leaseVars)
<1> Lasting \subseteq Clients
  BY LastingTracked
<1> USE DEF TypeOK, States, Listing, Views
<1>0. view[c] \in {"asked", "granted"}
  BY DEF UnsubscribeRsrc
<1>1. CASE UnsubscribeUnknown(c)
  \* Only a client that a restart has cut loose is not in the list.
  <2>1. c \notin Lasting
    BY <1>0, <1>1 DEF UnsubscribeUnknown, LeaseInv
  <2>2. QED
    BY <1>1, <2>1, StutterMaps DEF UnsubscribeUnknown, LeaseState
<1>2. CASE UnsubscribeHolding(c) \/ UnsubscribeReleasing(c)
  <2>1. Leave(c)
    BY <1>2 DEF UnsubscribeHolding, UnsubscribeReleasing
  <2>2. \/ LeaseState' = LeaseState
        \/ LeaseState' = "free" /\ ~ HasActiveSubscribers(mSubscribers')
    <3>1. CASE UnsubscribeHolding(c)
      BY <3>1, LeaseIs DEF UnsubscribeHolding
    <3>2. CASE UnsubscribeReleasing(c)
      <4>1. HasActiveSubscribers(mSubscribers') => HasActiveSubscribers(mSubscribers)
        BY <2>1, LeaveEffect DEF HasActiveSubscribers
      <4>2. HasActiveSubscribers(mSubscribers') => HasSubscribers(mSubscribers')
        BY DEF HasActiveSubscribers, HasSubscribers
      <4>3. QED
        BY <3>2, <4>1, <4>2, LeaseIs DEF UnsubscribeReleasing
    <3>3. QED
      BY <1>2, <3>1, <3>2
  <2>3. Lease!Keep(LeaseUsers')
    BY <2>2, KeepMaps
  <2>4. CASE c \in Lasting
    <3>1. PICK done \in {"idle", "closing"} :
             /\ view'[c] = done
             /\ \A d \in Clients : d # c => view'[d] = view[d]
      BY <2>1, LeaveEffect
    <3>2. LeaseUsers' = [LeaseUsers EXCEPT ![c] = done]
      BY <2>4, <3>1, UsersTold
    <3>3. Lease!Return(c)
      BY <1>0, <2>3, <2>4, <3>2, UsersTold DEF Lease!Return
    <3>4. QED
      BY <2>4, <3>3 DEF Lease!LeaseNext
  <2>5. CASE c \notin Lasting
    BY <2>1, <2>3, <2>5, LeaveEffect, OthersMaps
  <2>6. QED
    BY <2>4, <2>5
<1>3. CASE mSubscribers[c] # "absent" /\ UnsubscribeReleased(c)
  BY <1>3 DEF UnsubscribeReleased, ListInv, ReleasedEmpty, HasSubscribers
<1>4. QED
  BY <1>1, <1>2, <1>3 DEF UnsubscribeRsrc

LEMMA RsrcEventMaps ==
    ASSUME TypeOK, ListInv, LeaseInv, OnRsrcEvent
    PROVE  [Lease!LeaseNext]_(Lease!leaseVars)
<1> Lasting \subseteq Clients
  BY LastingTracked
<1> USE DEF TypeOK, States, Listing, Views
<1>1. CASE OnGranted /\ mStatePtr = "Pending"
  \* The active subscribers of a pending machine are those who asked.
  <2>1. \A d \in Lasting : mSubscribers[d] = "active" <=> view[d] = "asked"
    BY <1>1, LastingTracked DEF LeaseInv, ListInv, ToldTrue
  <2>2. LeaseState = "wanted" /\ LeaseState' = "held"
    BY <1>1, LeaseIs DEF OnGranted
  <2>3. LeaseUsers' = [d \in Lasting |-> IF d \in Lease!Waiting
                                         THEN "granted" ELSE LeaseUsers[d]]
    BY <1>1, <2>1, UsersTold DEF OnGranted, Lease!Waiting
  <2>4. QED
    BY <2>2, <2>3 DEF Lease!LeaseNext, Lease!Grant
<1>2. CASE EndReleasing
  <2>1. LeaseState # "held"
    BY <1>2, LeaseIs DEF EndReleasing
  <2>2. LeaseState' = LeaseState
    <3>1. HasActiveSubscribers(mSubscribers') <=> HasActiveSubscribers(mSubscribers)
      BY <1>2, RemoveAllEffect
         DEF EndReleasing, RemoveAll, HasActiveSubscribers, Inactive
    <3>2. QED
      BY <1>2, <3>1, LeaseIs DEF EndReleasing
  <2>3. LeaseUsers' = [d \in Lasting |-> IF LeaseUsers[d] = "closing"
                                         THEN "idle" ELSE LeaseUsers[d]]
    BY <1>2, UsersTold DEF EndReleasing, RemoveAll, Inactive, LeaseInv
  <2>4. QED
    BY <2>1, <2>2, <2>3 DEF Lease!LeaseNext, Lease!Closed
<1>3. ASSUME NEW state \in {"Pending", "Acquired"}, EndFor(state)
      PROVE  Lease!LeaseNext
  <2>1. LeaseState \in {"wanted", "held"} /\ LeaseState' = "free"
    BY <1>3, LeaseIs DEF EndFor
  <2>2. \A d \in Lasting : view'[d] = "idle"
    BY <1>3 DEF EndFor, RemoveAll, Listed, LeaseInv
  <2>3. LeaseUsers' = [d \in Lasting |-> "idle"]
    BY <2>2, UsersTold
  <2>4. QED
    BY <2>1, <2>3 DEF Lease!LeaseNext, Lease!End
<1>4. ASSUME UNCHANGED <<mStatePtr, mSubscribers, view>>
      PROVE  UNCHANGED Lease!leaseVars
  BY <1>4, StutterMaps DEF LeaseState
<1>5. QED
  BY <1>1, <1>2, <1>3, <1>4, EventCases DEF OnGranted, OnDenied, OnReleased, Ignore

LEMMA EngineUpMaps ==
    ASSUME TypeOK, LeaseInv, LeaseInv', EngineUp
    PROVE  Lease!LeaseNext
<1>1. \A d \in Lasting : view'[d] = "idle"
  BY AgpsAssumption DEF EngineUp, Lasting
<1>2. LeaseUsers' = [d \in Lasting |-> "idle"]
  BY <1>1, UsersTold
<1>3. ~ HasActiveSubscribers(mSubscribers')
  BY DEF EngineUp, HasActiveSubscribers
<1>4. LeaseState' = LeaseState \/ LeaseState' = "free"
  BY <1>3, LeaseIs DEF EngineUp, TypeOK, States
<1>5. Lease!Keep(LeaseUsers')
  BY <1>3, <1>4, KeepMaps, LastingTracked
<1>6. QED
  BY <1>2, <1>5 DEF Lease!LeaseNext, Lease!Restart

LEMMA StepMaps ==
    ASSUME TypeOK, ListInv, LeaseInv, LeaseInv', [Next]_vars
    PROVE  [Lease!LeaseNext]_(Lease!leaseVars)
<1>1. CASE Framework
  BY <1>1, StutterMaps DEF Framework, LeaseState
<1>2. CASE UNCHANGED vars
  BY <1>2, StutterMaps DEF vars, LeaseState
<1>3. QED
  BY <1>1, <1>2, SubscribeMaps, UnsubscribeMaps, RsrcEventMaps, EngineUpMaps DEF Next

\* Refinement: every handler, in whatever order requests, answers and restarts
\* reach the thread, is a step of a shared lease of the connection or a stutter.
THEOREM SharedLease == Spec => ImplementsLease
<1>1. Init => LeaseInv /\ Lease!LeaseInit
  BY AgpsAssumption
     DEF Init, LeaseInv, Lease!LeaseInit, LeaseState, LeaseUsers, Lasting
<1>2. IInv /\ IInv' /\ LeaseInv /\ [Next]_vars => LeaseInv'
  <2> SUFFICES ASSUME IInv, IInv', LeaseInv, [Next]_vars PROVE LeaseInv'
    OBVIOUS
  <2>1. /\ WaitClose => restarts' = 0
        /\ \A c \in Lasting : view'[c] = "closing" => mSubscribers'[c] = "inactive"
    BY StepLease DEF IInv
  <2>2. QED
    BY <2>1, AgpsAssumption DEF IInv, TypeOK, Listing, Views, LeaseInv, ListInv,
                                ToldTrue, Tracked, Lasting
<1>3. IInv /\ LeaseInv /\ LeaseInv' /\ [Next]_vars
         => [Lease!LeaseNext]_(Lease!leaseVars)
  BY StepMaps DEF IInv
<1>4. QED
  BY <1>1, <1>2, <1>3, Inductive, PTL DEF Spec, ImplementsLease, Lease!LeaseSpec
===========================================================================
