--------------------------- MODULE DataServices ---------------------------
(***************************************************************************)
(* The data services state machine of the location engine (ds_nif): an     *)
(* emergency SUPL session of the modem gets a data call of the data        *)
(* services instead of a connection of the framework.  DSStateMachine      *)
(* inherits the states of AgpsStateMachine, but its request is synchronous *)
(* and may fail: a busy data service is tried again after a delay, and     *)
(* what cannot be served falls back on the ordinary AGNSS connection.      *)
(*                                                                         *)
(* The machine runs on the engine's MsgTask thread, one message of `queue` *)
(* at a time; the modem, the data services' callback thread and the timer  *)
(* thread only post messages.  The timer thread also reads mSubscribers.   *)
(***************************************************************************)
EXTENDS Naturals, Sequences

CONSTANTS
    Clients,       \* connection handles of the modem, each used for one session
    MaxRetries,    \* MAX_START_DATA_CALL_RETRIES
    MaxList,       \* bound: service polls and profiles that an attempt meets
    MaxRestart     \* bound: modem restarts in a behaviour

ASSUME DataAssumption ==
    MaxRetries \in Nat /\ MaxList \in Nat /\ MaxRestart \in Nat

VARIABLES
    mStatePtr,     \* the current AgpsState object
    mSubscribers,  \* per client: not in the list, or in it, active or inactive
    mRetries,
    timers,        \* retry timers that are running
    data,          \* dsClientHandle and its data call
    agnss,         \* the subscribers of agnss_nif (see AgpsStateMachine)
    queue,         \* the MsgTask messages that concern the machine
    view,          \* per client: where its session stands
    restarts

machine == <<mStatePtr, mSubscribers>>
vars == <<machine, mRetries, timers, data, agnss, queue, view, restarts>>

States == {"Released", "Pending", "Acquired", "Releasing"}
Listing == {"absent", "active", "inactive"}
Views == {"new", "asked", "granted", "fallback", "left"}
Messages ==
    [type : {"SUPL_ES", "RELEASE_ATL"}, id : Clients]
        \cup [type : {"REQUEST_ATL"}, ids : SUBSET Clients]
        \cup [type : {"OPENED", "CLOSED"}]

\* A handle is null, a session without a dsi handle, or one that holds it; `lost`
\* is history: a live call was cut off from its handle.
DataCalls ==
    [handle : {"null", "empty", "held"},
     call : {"down", "starting", "up", "stopping"},
     lost : BOOLEAN]

TypeOK ==
    /\ mStatePtr \in States
    /\ mSubscribers \in [Clients -> Listing]
    /\ mRetries \in 0 .. MaxRetries
    /\ timers \in Nat
    /\ data \in DataCalls
    /\ agnss \subseteq Clients
    /\ queue \in Seq(Messages)
    /\ view \in [Clients -> Views]
    /\ restarts \in Nat

Init ==
    /\ mStatePtr = "Released"
    /\ mSubscribers = [c \in Clients |-> "absent"]
    /\ mRetries = 0
    /\ timers = 0
    /\ data = [handle |-> "null", call |-> "down", lost |-> FALSE]
    /\ agnss = {}
    /\ queue = <<>>
    /\ view = [c \in Clients |-> "new"]
    /\ restarts = 0
---------------------------------------------------------------------------
(* ds_client: an attempt to bring the call up, and what it meets.          *)

\* The sequences of at most MaxList elements of S.
UpTo(S) == UNION {[1 .. n -> S] : n \in 0 .. MaxList}

\* A search that passes over `skip` and stops at the first other element.
StopsAt(list, want, skip) ==
    \E i \in DOMAIN list :
        /\ list[i] = want
        /\ \A j \in 1 .. i - 1 : list[j] \in skip

\* Asking for the list of WDS services, again after every wait that times out; a
\* signal ends the wait for good, whether or not the service is listed then.
ds_client_qmi_ctrl_point_init(polls) == StopsAt(polls, "found", {"silence"})

\* The profiles are read in order until one supports emergency calls; one that
\* cannot be read ends the attempt.
EmergencyProfile(profiles) == StopsAt(profiles, "emergency", {"plain"})

ds_client_open_call(s) ==
    CASE ~ ds_client_qmi_ctrl_point_init(s.polls) -> "FAILURE"
      [] ds_client_qmi_ctrl_point_init(s.polls)
            /\ ~ EmergencyProfile(s.profiles)     -> "FAILURE"
      [] ds_client_qmi_ctrl_point_init(s.polls)
            /\ EmergencyProfile(s.profiles)       ->
            IF s.dsi THEN "SUCCESS" ELSE "RETRY_LATER"

\* openAndStartDataCall: what it returns, and the session it leaves in
\* dsClientHandle ("same" when ds_client_open_call gave none).
openAndStartDataCall(s) ==
    LET opened == ds_client_open_call(s) IN
    [ret     |-> CASE opened = "SUCCESS"     -> IF s.start THEN "SUCCESS" ELSE "UNSUPPORTED"
                   [] opened = "RETRY_LATER" -> "BUSY"
                   [] opened = "FAILURE"     -> "UNSUPPORTED",
     session |-> CASE opened = "SUCCESS"     -> "held"
                   [] opened = "RETRY_LATER" -> "empty"
                   [] opened = "FAILURE"     -> "same"]

Situations ==
    [polls : UpTo({"found", "silence", "signal"}),
     profiles : UpTo({"emergency", "plain", "unreadable"}),
     dsi : BOOLEAN, start : BOOLEAN]

Attempts == {openAndStartDataCall(s) : s \in Situations}

\* The attempt's effect on handle d and its call: a new session overwrites it.
Attempted(d, a) ==
    IF a.session = "same" THEN d
    ELSE [handle |-> a.session,
          call   |-> IF a.ret = "SUCCESS" THEN "starting" ELSE "down",
          lost   |-> d.lost \/ d.call # "down"]

\* stopDataCall: a session whose call is not up has nothing to stop.
stopDataCall(d) ==
    IF d.handle = "held" /\ d.call # "down" THEN [d EXCEPT !.call = "stopping"] ELSE d

\* closeDataCall releases the handle and whatever is on it.
closeDataCall(d) ==
    [handle |-> "null", call |-> "down", lost |-> d.lost \/ d.call # "down"]
---------------------------------------------------------------------------
(* The modem's side, and the threads that post to the MsgTask thread.      *)

\* reportAtlRequest: an emergency session asks for a connection, ...
ModemOpens(c) ==
    /\ view[c] = "new"
    /\ view' = [view EXCEPT ![c] = "asked"]
    /\ queue' = Append(queue, [type |-> "SUPL_ES", id |-> c])
    /\ UNCHANGED <<machine, mRetries, timers, data, agnss, restarts>>

\* ... and gives it back, which it may do before it has been answered.
ModemCloses(c) ==
    /\ view[c] \in {"asked", "granted", "fallback"}
    /\ view' = [view EXCEPT ![c] = "left"]
    /\ queue' = Append(queue, [type |-> "RELEASE_ATL", id |-> c])
    /\ UNCHANGED <<machine, mRetries, timers, data, agnss, restarts>>

Active(list) == {c \in Clients : list[c] = "active"}
Inactive(list) == {c \in Clients : list[c] = "inactive"}
Listed(list) == Active(list) \cup Inactive(list)

\* retryCallback, on the timer thread: the request of an active subscriber is
\* repeated; the first of the list, which this list does not order.
retryCallback ==
    /\ timers > 0
    /\ timers' = timers - 1
    /\ \/ Active(mSubscribers) = {} /\ UNCHANGED queue
       \/ \E c \in Active(mSubscribers) :
             queue' = Append(queue, [type |-> "SUPL_ES", id |-> c])
    /\ UNCHANGED <<machine, mRetries, data, agnss, view, restarts>>

\* net_ev_cb: the call comes up (with one or both of the two events that say
\* so), or is over.
CallUp ==
    /\ data.call = "starting"
    /\ data' = [data EXCEPT !.call = "up"]
    /\ \/ queue' = queue \o <<[type |-> "OPENED"]>>
       \/ queue' = queue \o <<[type |-> "OPENED"], [type |-> "OPENED"]>>
    /\ UNCHANGED <<machine, mRetries, timers, agnss, view, restarts>>

CallOver ==
    /\ data.call # "down"
    /\ data' = [data EXCEPT !.call = "down"]
    /\ queue' = Append(queue, [type |-> "CLOSED"])
    /\ UNCHANGED <<machine, mRetries, timers, agnss, view, restarts>>
---------------------------------------------------------------------------
(* The handlers of the MsgTask thread.                                     *)

Next1 == queue # <<>> /\ queue' = Tail(queue)

Is(type) == queue # <<>> /\ Head(queue).type = type

\* requestATL(ids, AGPS_TYPE_SUPL), behind what the queue holds already.
FallBack(ids) ==
    queue' = IF ids = {} THEN Tail(queue)
             ELSE Append(Tail(queue), [type |-> "REQUEST_ATL", ids |-> ids])

\* Mutant: the retries are not counted.
sendRsrcRequestEndless(d, a, list) ==
    /\ data' = Attempted(d, a)
    /\ UNCHANGED mRetries
    /\ timers' = IF a.ret = "BUSY" THEN timers + 1 ELSE timers
    /\ \/ a.ret \in {"SUCCESS", "BUSY"} /\ FallBack({})
       \/ a.ret = "UNSUPPORTED" /\ \E c \in Active(list) : FallBack({c})

\* sendRsrcRequest(GPS_REQUEST_AGPS_DATA_CONN) on handle d, with subscriber list
\* `list`: busy is tried again later, MaxRetries times; otherwise one active subscriber, which
\* stays in the list, falls back.
sendRsrcRequest(d, a, list) ==
    /\ data' = Attempted(d, a)
    /\ \/ /\ a.ret = "SUCCESS"
          /\ UNCHANGED <<mRetries, timers>>
          /\ FallBack({})
       \/ /\ a.ret = "BUSY" /\ mRetries < MaxRetries
          /\ mRetries' = mRetries + 1
          /\ timers' = timers + 1
          /\ FallBack({})
       \/ /\ a.ret = "UNSUPPORTED" \/ (a.ret = "BUSY" /\ mRetries = MaxRetries)
          /\ mRetries' = 0
          /\ UNCHANGED timers
          /\ \E c \in Active(list) : FallBack({c})

Granted(group) ==
    view' = [c \in Clients |-> IF c \in group /\ view[c] = "asked"
                               THEN "granted" ELSE view[c]]

AddSubscriber(c) ==
    mSubscribers' = [mSubscribers EXCEPT ![c] = IF @ = "absent" THEN "active" ELSE @]

\* LocEngRequestSuplEs::proc: subscribeRsrc in each of the states.  A failed
\* attempt leaves a Released machine in Released.
SubscribeReleased(c) ==
    /\ mStatePtr = "Released"
    /\ AddSubscriber(c)
    /\ \E a \in Attempts :
          /\ sendRsrcRequest(data, a, mSubscribers')
          /\ mStatePtr' = IF a.ret = "SUCCESS" THEN "Pending" ELSE "Released"
    /\ UNCHANGED <<view, agnss, restarts>>

SubscribeOther(c) ==
    /\ mStatePtr # "Released"
    /\ Next1
    /\ AddSubscriber(c)
    /\ Granted(IF mStatePtr = "Acquired" THEN {c} ELSE {})
    /\ UNCHANGED <<mStatePtr, mRetries, timers, data, agnss, restarts>>

LocEngRequestSuplEs ==
    /\ Is("SUPL_ES")
    /\ SubscribeReleased(Head(queue).id) \/ SubscribeOther(Head(queue).id)

\* LocEngRequestATL::proc: agnss_nif takes the client over.
LocEngRequestATL ==
    /\ Is("REQUEST_ATL")
    /\ Next1
    /\ agnss' = agnss \cup Head(queue).ids
    /\ view' = [c \in Clients |-> IF c \in Head(queue).ids /\ view[c] = "asked"
                                  THEN "fallback" ELSE view[c]]
    /\ UNCHANGED <<machine, mRetries, timers, data, restarts>>

\* Mutant: the machine does not wait for the close.
UnsubscribeAtOnce(c) ==
    /\ mSubscribers' = [mSubscribers EXCEPT ![c] = "absent"]
    /\ IF mStatePtr # "Released" /\ Active(mSubscribers') = {}
       THEN mStatePtr' = "Released" /\ data' = stopDataCall(data)
       ELSE UNCHANGED <<mStatePtr, data>>

\* UNSUBSCRIBE of a listed subscriber: it is told at once (setInactive) and stays
\* in the list; the last active one stops the call.  Released only tells it.
Unsubscribe(c) ==
    \/ /\ mStatePtr = "Released"
       /\ UNCHANGED <<machine, data>>
    \/ /\ mStatePtr # "Released"
       /\ mSubscribers' = [mSubscribers EXCEPT ![c] = "inactive"]
       /\ IF mStatePtr # "Releasing" /\ Active(mSubscribers') = {}
          THEN mStatePtr' = "Releasing" /\ data' = stopDataCall(data)
          ELSE UNCHANGED <<mStatePtr, data>>

\* LocEngReleaseATL::proc: agnss_nif is asked first, then ds_nif; a handle that
\* neither knows is told that the close failed.
LocEngReleaseATL ==
    /\ Is("RELEASE_ATL")
    /\ Next1
    /\ LET c == Head(queue).id IN
       \/ /\ c \in agnss
          /\ agnss' = agnss \ {c}
          /\ UNCHANGED <<machine, data>>
       \/ /\ c \notin agnss
          /\ mSubscribers[c] # "absent"
          /\ Unsubscribe(c)
          /\ UNCHANGED agnss
       \/ /\ c \notin agnss
          /\ mSubscribers[c] = "absent"
          /\ UNCHANGED <<machine, data, agnss>>
    /\ UNCHANGED <<mRetries, timers, view, restarts>>

\* LocEngSuplEsOpened::proc: RSRC_GRANTED, which only Pending waits for.
LocEngSuplEsOpened ==
    /\ Is("OPENED")
    /\ Next1
    /\ mStatePtr' = IF mStatePtr = "Pending" THEN "Acquired" ELSE mStatePtr
    /\ Granted(IF mStatePtr = "Pending" THEN Active(mSubscribers) ELSE {})
    /\ UNCHANGED <<mSubscribers, mRetries, timers, data, agnss, restarts>>

Drop(group) ==
    mSubscribers' = [c \in Clients |-> IF c \in group THEN "absent" ELSE mSubscribers[c]]

\* RSRC_RELEASED leaves Pending as it is and is given to it again as DENIED:
\* every subscriber falls back, and the handle is not closed.
ClosedPending ==
    /\ mStatePtr = "Pending"
    /\ mStatePtr' = "Released"
    /\ Drop(Clients)
    /\ FallBack(Listed(mSubscribers))
    /\ mRetries' = IF Listed(mSubscribers) = {} THEN mRetries ELSE 0
    /\ UNCHANGED <<timers, data>>

\* Mutant: only Pending and Releasing look at the event.
ClosedAcquiredIgnored ==
    /\ mStatePtr = "Acquired"
    /\ FallBack({})
    /\ UNCHANGED <<machine, mRetries, timers, data>>

ClosedAcquired ==
    /\ mStatePtr = "Acquired"
    /\ mStatePtr' = "Released"
    /\ Drop(Clients)
    /\ data' = closeDataCall(data)
    /\ FallBack({})
    /\ UNCHANGED <<mRetries, timers>>

\* Releasing ends; subscribers that came meanwhile make it ask again, and here
\* the machine goes to Pending whatever the attempt returns.
ClosedReleasing ==
    /\ mStatePtr = "Releasing"
    /\ Drop(Inactive(mSubscribers))
    /\ \/ /\ Active(mSubscribers) = {}
          /\ data' = closeDataCall(data)
          /\ mStatePtr' = "Released"
          /\ FallBack({})
          /\ UNCHANGED <<mRetries, timers>>
       \/ /\ Active(mSubscribers) # {}
          /\ mStatePtr' = "Pending"
          /\ \E a \in Attempts :
                sendRsrcRequest(closeDataCall(data), a, mSubscribers')

ClosedReleased ==
    /\ mStatePtr = "Released"
    /\ FallBack({})
    /\ UNCHANGED <<machine, mRetries, timers, data>>

\* LocEngSuplEsClosed::proc
LocEngSuplEsClosed ==
    /\ Is("CLOSED")
    /\ ClosedPending \/ ClosedAcquired \/ ClosedReleasing \/ ClosedReleased
    /\ UNCHANGED <<agnss, view, restarts>>

\* loc_eng_handle_engine_up: the modem's sessions are gone and agnss_nif is
\* emptied; ds_nif is not touched.
EngineUp ==
    /\ restarts < MaxRestart
    /\ restarts' = restarts + 1
    /\ agnss' = {}
    /\ view' = [c \in Clients |-> IF view[c] = "new" THEN "new" ELSE "left"]
    /\ UNCHANGED <<machine, mRetries, timers, data, queue>>
---------------------------------------------------------------------------
MsgTask ==
    \/ LocEngRequestSuplEs
    \/ LocEngRequestATL
    \/ LocEngReleaseATL
    \/ LocEngSuplEsOpened
    \/ LocEngSuplEsClosed

Next ==
    \/ \E c \in Clients : ModemOpens(c) \/ ModemCloses(c)
    \/ retryCallback
    \/ CallUp
    \/ CallOver
    \/ MsgTask
    \/ EngineUp

Spec == Init /\ [][Next]_vars

\* Timers expire, the MsgTask thread handles what is queued, and the data
\* services bring a call up or down.  The modem need do nothing.
FairSpec ==
    /\ Spec
    /\ WF_vars(retryCallback)
    /\ WF_vars(MsgTask)
    /\ WF_vars(data.call # "up" /\ (CallUp \/ CallOver))
---------------------------------------------------------------------------
(* Properties                                                              *)

Queued(type) == \E i \in DOMAIN queue : queue[i].type = type

\* dsClientHandle is one variable that every attempt overwrites and every release
\* clears: over all orders of requests, retries of the timer thread, releases and
\* late events, no call is ever cut off from it while it lives, and a machine in
\* Released, which would open another, has none.
CallOwned ==
    /\ ~ data.lost
    /\ data.call # "down" => mStatePtr # "Released" /\ data.handle = "held"

\* A machine in Acquired, which grants at once, has its call, or the news that the
\* call is over is in the queue: no late event of an earlier call brings it there.
AcquiredIsUp ==
    mStatePtr = "Acquired" => data.call = "up" \/ Queued("CLOSED")

\* The request that a Releasing machine repeats when its old call is over is sent
\* without looking at the result: after a failure the machine waits in Pending (or,
\* left by its subscribers, in Releasing) for a call that nobody has started.
Wedged ==
    mStatePtr \in {"Pending", "Releasing"} /\ data.call = "down" /\ ~ Queued("CLOSED")

\* A request that meets no other subscriber is granted, or falls back on AGNSS,
\* or is given up, unless it met a wedged machine: neither a busy data service nor
\* the retries of the timer thread leave it waiting.
Sole(c) == view[c] = "asked" /\ Listed(mSubscribers) \subseteq {c}

SoleRequestServed ==
    \A c \in Clients : Sole(c) ~> ~ Sole(c) \/ Wedged
===========================================================================
