------------------------- MODULE AgpsStateMachine -------------------------
(***************************************************************************)
(* One AgpsStateMachine of the location engine: it shares one data         *)
(* connection (a "NIF") of the framework between the clients that need it  *)
(* for assisted GPS.  All its handlers run on the engine's MsgTask thread, *)
(* so a handler is one action; what interleaves is the order in which the  *)
(* clients' messages, the framework's answers and a modem restart reach    *)
(* that thread.  The framework answers asynchronously: `toFw` is what      *)
(* agps_status_cb has told it and it has not looked at yet, `fromFw` the   *)
(* answers it has posted and the MsgTask thread has not processed yet.     *)
(***************************************************************************)
EXTENDS Naturals, Sequences

CONSTANTS
    Clients,         \* the IDs of the possible subscribers
    ModemClients,    \* those that live in the modem and die with it (ATL)
    EnforceSingle,   \* mEnforceSingleSubscriber: TRUE for wifi_nif only
    WaitClose,       \* Subscriber::waitForCloseComplete(): TRUE for WIFI
    MaxCh,           \* bound: messages in flight in each direction
    MaxRestart       \* bound: modem restarts in a behaviour

ASSUME AgpsAssumption ==
    /\ ModemClients \subseteq Clients
    /\ EnforceSingle \in BOOLEAN
    /\ WaitClose \in BOOLEAN
    /\ MaxCh \in Nat
    /\ MaxRestart \in Nat

VARIABLES
    mStatePtr,     \* the current AgpsState object
    mSubscribers,  \* per client: not in the list, or in it, active or inactive
    view,          \* per client: what it has been told last
    toFw, fw, fromFw,
    restarts

vars == <<mStatePtr, mSubscribers, view, toFw, fw, fromFw, restarts>>
fwVars == <<toFw, fw, fromFw>>

States == {"Released", "Pending", "Acquired", "Releasing"}
Listing == {"absent", "active", "inactive"}
Views == {"idle", "asked", "granted", "closing"}
Orders == {"REQUEST", "RELEASE"}
Answers == {"GRANTED", "DENIED", "RELEASED"}

TypeOK ==
    /\ mStatePtr \in States
    /\ mSubscribers \in [Clients -> Listing]
    /\ view \in [Clients -> Views]
    /\ toFw \in Seq(Orders)
    /\ fw \in {"closed", "opening", "open"}
    /\ fromFw \in Seq(Answers)
    /\ restarts \in Nat

Init ==
    /\ mStatePtr = "Released"
    /\ mSubscribers = [c \in Clients |-> "absent"]
    /\ view = [c \in Clients |-> "idle"]
    /\ toFw = <<>>
    /\ fw = "closed"
    /\ fromFw = <<>>
    /\ restarts = 0
---------------------------------------------------------------------------
(* Operations on the subscriber list and on the channel to the framework.  *)

HasSubscribers(list) == \E c \in Clients : list[c] # "absent"

HasActiveSubscribers(list) == \E c \in Clients : list[c] = "active"

\* addSubscriber: clone the subscriber into the list unless an equal one,
\* active or not, is already there.
AddSubscriber(c) ==
    [mSubscribers EXCEPT ![c] = IF @ = "absent" THEN "active" ELSE @]

\* notifySubscribers with postNotifyDelete: the subscribers notified leave
\* the list, and their clients learn the outcome.
RemoveAll(group) ==
    /\ mSubscribers' =
          [c \in Clients |-> IF c \in group THEN "absent" ELSE mSubscribers[c]]
    /\ view' = [c \in Clients |-> IF c \in group THEN "idle" ELSE view[c]]

Listed == {c \in Clients : mSubscribers[c] # "absent"}
Inactive == {c \in Clients : mSubscribers[c] = "inactive"}

\* Mutant: the two conditions swapped.
SendRsrcRequestSwapped(action, list) ==
    toFw' = IF HasActiveSubscribers(list) = (action = "RELEASE")
            THEN Append(toFw, action) ELSE toFw

\* sendRsrcRequest(action) with subscriber list `list`: a release is sent only
\* without active subscribers, a request only with one.
SendRsrcRequest(action, list) ==
    toFw' = IF HasActiveSubscribers(list) = (action = "REQUEST")
            THEN Append(toFw, action) ELSE toFw
---------------------------------------------------------------------------
(* subscribeRsrc: a client asks for the connection.                        *)

SubscribeReleased(c) ==
    /\ mStatePtr = "Released"
    /\ mSubscribers' = AddSubscriber(c)
    /\ SendRsrcRequest("REQUEST", mSubscribers')
    /\ mStatePtr' = "Pending"
    /\ view' = [view EXCEPT ![c] = "asked"]

SubscribeAcquired(c) ==
    /\ mStatePtr = "Acquired"
    /\ view' = [view EXCEPT ![c] = "granted"]
    /\ mSubscribers' = AddSubscriber(c)
    /\ UNCHANGED <<mStatePtr, toFw>>

\* Pending and Releasing do the same: the answer comes later.
SubscribeWaiting(c) ==
    /\ mStatePtr \in {"Pending", "Releasing"}
    /\ mSubscribers' = AddSubscriber(c)
    /\ view' = [view EXCEPT ![c] = "asked"]
    /\ UNCHANGED <<mStatePtr, toFw>>

\* A second subscriber of the single-subscriber machine is denied at once.
SubscribeDenied ==
    /\ EnforceSingle /\ HasSubscribers(mSubscribers)
    /\ UNCHANGED <<mStatePtr, mSubscribers, view, toFw>>

SubscribeRsrc(c) ==
    /\ view[c] = "idle"
    /\ Len(toFw) < MaxCh
    /\ \/ SubscribeDenied
       \/ /\ ~ (EnforceSingle /\ HasSubscribers(mSubscribers))
          /\ \/ SubscribeReleased(c)
             \/ SubscribeAcquired(c)
             \/ SubscribeWaiting(c)
    /\ UNCHANGED <<fw, fromFw, restarts>>
---------------------------------------------------------------------------
(* unsubscribeRsrc: a client gives the connection back.                    *)

\* The part common to Pending, Acquired and Releasing: a subscriber that waits
\* for the close stays in the list as inactive, any other leaves it.
Leave(c) ==
    IF WaitClose
    THEN /\ mSubscribers' = [mSubscribers EXCEPT ![c] = "inactive"]
         /\ view' = [view EXCEPT ![c] = "closing"]
    ELSE /\ mSubscribers' = [mSubscribers EXCEPT ![c] = "absent"]
         /\ view' = [view EXCEPT ![c] = "idle"]

\* Mutant: the subscribers that remain are not looked at.
UnsubscribeHoldingAlone(c) ==
    /\ mStatePtr \in {"Pending", "Acquired"}
    /\ Leave(c)
    /\ mStatePtr' = "Released"
    /\ SendRsrcRequest("RELEASE", mSubscribers')

UnsubscribeHolding(c) ==
    /\ mStatePtr \in {"Pending", "Acquired"}
    /\ Leave(c)
    /\ \/ /\ HasActiveSubscribers(mSubscribers')
          /\ UNCHANGED <<mStatePtr, toFw>>
       \/ /\ ~ HasActiveSubscribers(mSubscribers')
          /\ mStatePtr' = IF HasSubscribers(mSubscribers')
                          THEN "Releasing" ELSE "Released"
          /\ SendRsrcRequest("RELEASE", mSubscribers')

UnsubscribeReleasing(c) ==
    /\ mStatePtr = "Releasing"
    /\ Leave(c)
    /\ mStatePtr' = IF HasSubscribers(mSubscribers')
                    THEN "Releasing" ELSE "Released"
    /\ UNCHANGED toFw

\* Released tells the client, and keeps whatever is in the list.
UnsubscribeReleased(c) ==
    /\ mStatePtr = "Released"
    /\ view' = [view EXCEPT ![c] = IF WaitClose THEN "closing" ELSE "idle"]
    /\ UNCHANGED <<mStatePtr, mSubscribers, toFw>>

\* Not in the list: an ATL handle gets a failed close status, the daemon that
\* asked for a BIT or WIFI connection gets no answer.
UnsubscribeUnknown(c) ==
    /\ mSubscribers[c] = "absent"
    /\ view' = [view EXCEPT ![c] = IF c \in ModemClients THEN "idle" ELSE "closing"]
    /\ UNCHANGED <<mStatePtr, mSubscribers, toFw>>

UnsubscribeRsrc(c) ==
    /\ view[c] \in {"asked", "granted"}
    /\ Len(toFw) < MaxCh
    /\ \/ UnsubscribeUnknown(c)
       \/ /\ mSubscribers[c] # "absent"
          /\ \/ UnsubscribeHolding(c)
             \/ UnsubscribeReleasing(c)
             \/ UnsubscribeReleased(c)
    /\ UNCHANGED <<fw, fromFw, restarts>>
---------------------------------------------------------------------------
(* onRsrcEvent: the next answer of the framework.                          *)

\* Mutant: the subscribers are not notified.
OnGrantedSilent ==
    /\ mStatePtr' = IF mStatePtr = "Pending" THEN "Acquired" ELSE mStatePtr
    /\ UNCHANGED <<mSubscribers, view, toFw>>

OnGranted ==
    /\ UNCHANGED <<mSubscribers, toFw>>
    /\ \/ /\ mStatePtr = "Pending"
          /\ mStatePtr' = "Acquired"
          /\ view' = [c \in Clients |-> IF mSubscribers[c] = "active"
                                        THEN "granted" ELSE view[c]]
       \/ /\ mStatePtr # "Pending"
          /\ UNCHANGED <<mStatePtr, view>>

\* Releasing, on RELEASED and, for the race with an unsubscribe, on DENIED.
EndReleasing ==
    /\ mStatePtr = "Releasing"
    /\ RemoveAll(Inactive)
    /\ \/ /\ HasActiveSubscribers(mSubscribers')
          /\ mStatePtr' = "Pending"
          /\ SendRsrcRequest("REQUEST", mSubscribers')
       \/ /\ ~ HasActiveSubscribers(mSubscribers')
          /\ mStatePtr' = "Released"
          /\ UNCHANGED toFw

\* Mutant: notified without postNotifyDelete.
EndForKeeping(state) ==
    /\ mStatePtr = state
    /\ mStatePtr' = "Released"
    /\ view' = [c \in Clients |-> IF c \in Listed THEN "idle" ELSE view[c]]
    /\ UNCHANGED <<mSubscribers, toFw>>

\* A state that the event ends: every subscriber is told and dropped.
EndFor(state) ==
    /\ mStatePtr = state
    /\ mStatePtr' = "Released"
    /\ RemoveAll(Listed)
    /\ UNCHANGED toFw

Ignore(states) ==
    /\ mStatePtr \in states
    /\ UNCHANGED <<mStatePtr, mSubscribers, view, toFw>>

\* Mutants: an event that must end the state is ignored in it.
OnDeniedLost == Ignore(States)
OnReleasedLost == Ignore(States)

OnDenied == EndReleasing \/ EndFor("Pending") \/ Ignore({"Released", "Acquired"})

OnReleased == EndReleasing \/ EndFor("Acquired") \/ Ignore({"Released", "Pending"})

OnRsrcEvent ==
    /\ fromFw # <<>>
    /\ fromFw' = Tail(fromFw)
    /\ CASE Head(fromFw) = "GRANTED"  -> OnGranted
         [] Head(fromFw) = "DENIED"   -> OnDenied
         [] Head(fromFw) = "RELEASED" -> OnReleased
    /\ UNCHANGED <<fw, restarts>>

\* Mutant: the modem's handles are taken out of the table, not marked absent.
EngineUpForgets ==
    /\ ~ WaitClose
    /\ restarts < MaxRestart
    /\ restarts' = restarts + 1
    /\ mSubscribers' = [c \in Clients \ ModemClients |-> "absent"]
    /\ view' = [c \in Clients |-> IF c \in ModemClients THEN "idle" ELSE view[c]]
    /\ UNCHANGED <<mStatePtr, fwVars>>

\* loc_eng_handle_engine_up: dropAllSubscribers on agnss_nif and internet_nif,
\* whatever their state (wifi_nif is not touched); the modem's handles are gone.
EngineUp ==
    /\ ~ WaitClose
    /\ restarts < MaxRestart
    /\ restarts' = restarts + 1
    /\ mSubscribers' = [c \in Clients |-> "absent"]
    /\ view' = [c \in Clients |-> IF c \in ModemClients THEN "idle" ELSE view[c]]
    /\ UNCHANGED <<mStatePtr, fwVars>>
---------------------------------------------------------------------------
(* The framework (external): the Java location provider behind             *)
(* agps_status_cb, which answers through loc_eng_agps_open, _open_failed   *)
(* and _closed.  It takes its orders in sequence, confirms a connection    *)
(* that is open already, and may lose an open one at any time.             *)

Post(answer) ==
    /\ Len(fromFw) < MaxCh
    /\ fromFw' = Append(fromFw, answer)

FwRequest ==
    /\ toFw # <<>> /\ Head(toFw) = "REQUEST"
    /\ toFw' = Tail(toFw)
    /\ \/ fw # "open" /\ fw' = "opening" /\ UNCHANGED fromFw
       \/ fw = "open" /\ UNCHANGED fw /\ Post("GRANTED")

\* A release of a connection that is already closed need not be answered.
FwRelease ==
    /\ toFw # <<>> /\ Head(toFw) = "RELEASE"
    /\ toFw' = Tail(toFw)
    /\ fw' = "closed"
    /\ \/ Post("RELEASED")
       \/ fw = "closed" /\ UNCHANGED fromFw

FwOpen ==
    /\ fw = "opening"
    /\ fw' = "open"
    /\ Post("GRANTED")
    /\ UNCHANGED toFw

FwFail ==
    /\ fw = "opening"
    /\ fw' = "closed"
    /\ Post("DENIED")
    /\ UNCHANGED toFw

FwLoss ==
    /\ fw = "open"
    /\ fw' = "closed"
    /\ Post("RELEASED")
    /\ UNCHANGED toFw

FwReact == FwRequest \/ FwRelease \/ FwOpen \/ FwFail

Framework ==
    /\ FwReact \/ FwLoss
    /\ UNCHANGED <<mStatePtr, mSubscribers, view, restarts>>
---------------------------------------------------------------------------
Next ==
    \/ \E c \in Clients : SubscribeRsrc(c) \/ UnsubscribeRsrc(c)
    \/ OnRsrcEvent
    \/ EngineUp
    \/ Framework

Spec == Init /\ [][Next]_vars

\* The MsgTask thread keeps processing and the framework keeps reacting; a
\* client need never ask for, nor give back, a connection.
FairSpec ==
    /\ Spec
    /\ WF_vars(OnRsrcEvent)
    /\ WF_vars(FwReact /\ UNCHANGED <<mStatePtr, mSubscribers, view, restarts>>)
---------------------------------------------------------------------------
(* Properties                                                              *)

\* The clients whose bookkeeping no modem restart has cut loose: a restart
\* drops a BIT daemon's subscription without telling the daemon.
Tracked == IF restarts = 0 THEN Clients ELSE ModemClients

\* AgpsReleasedState logs "subscriber list not empty!!!" and has no recovery
\* for it: a machine in Released never lists a subscriber.
ReleasedEmpty == mStatePtr = "Released" => ~ HasSubscribers(mSubscribers)

\* What a client was told is true of the machine until it is told otherwise.  A
\* client told GRANTED is an active subscriber of an Acquired machine: no
\* transition forgets a holder, so none loses the connection silently.  One that
\* still waits is an active subscriber of a machine that is going to be answered:
\* neither swallowed by addSubscriber, nor left behind in Acquired.
ToldTrue ==
    \A c \in Tracked :
        /\ view[c] = "granted" =>
              mStatePtr = "Acquired" /\ mSubscribers[c] = "active"
        /\ view[c] = "asked" =>
              mStatePtr \in {"Pending", "Releasing"} /\ mSubscribers[c] = "active"

\* Pending ignores RELEASED, so it is left only by a GRANTED or a DENIED: one
\* is on its way whenever the machine is Pending, over every race of earlier
\* requests, releases and losses.
Posted(answers) == \E i \in 1 .. Len(fromFw) : fromFw[i] \in answers
LastOrder(order) == toFw # <<>> /\ toFw[Len(toFw)] = order

PendingAnswered ==
    mStatePtr = "Pending" =>
        \/ LastOrder("REQUEST")
        \/ toFw = <<>> /\ (fw = "opening" \/ Posted({"GRANTED", "DENIED"}))

\* Releasing is left only by RELEASED or DENIED: one is on its way.
ReleasingAnswered ==
    mStatePtr = "Releasing" =>
        LastOrder("RELEASE") \/ Posted({"RELEASED", "DENIED"})

\* Nothing is in flight between the engine and the framework.
Quiescent == toFw = <<>> /\ fromFw = <<>> /\ fw # "opening"

\* "we already have the NIF resource": once everything in flight is settled, an
\* Acquired machine, which grants new subscribers at once, has an open NIF.
AcquiredIsOpen == Quiescent /\ mStatePtr = "Acquired" => fw = "open"

\* Every request of a modem client is eventually granted, denied or dropped.
RequestAnswered ==
    \A c \in ModemClients : view[c] = "asked" ~> view[c] # "asked"

\* Every client that waits for the close is eventually told RELEASED.
CloseAnswered ==
    \A c \in Clients : view[c] = "closing" ~> view[c] # "closing"

\* The clients that no restart parts from what they were told.
Lasting == IF WaitClose THEN Clients ELSE ModemClients

LeaseState ==
    CASE mStatePtr = "Acquired" -> "held"
      [] mStatePtr = "Pending" -> "wanted"
      [] mStatePtr = "Releasing" /\ HasActiveSubscribers(mSubscribers) -> "wanted"
      [] OTHER -> "free"

LeaseUsers == [c \in Lasting |-> view[c]]

Lease == INSTANCE ConnectionLease WITH
    Users <- Lasting, lease <- LeaseState, user <- LeaseUsers

\* The machine is a shared lease of the connection: every handler, in whatever
\* order requests, answers and restarts reach the thread, does to its clients
\* what a lease may do, and releases the connection under none of them.
ImplementsLease == Lease!LeaseSpec
===========================================================================
