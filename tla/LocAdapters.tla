---------------------------- MODULE LocAdapters ----------------------------
(***************************************************************************)
(* The adapters of a context and the QMI client that they share.  An       *)
(* adapter wants events; LocApiBase ors the masks of its adapters and the  *)
(* MsgTask thread opens or registers the client with them, while the       *)
(* modem's service goes and comes back.  Adapters come and go on threads   *)
(* of their own, and only post messages; the QMI thread reports the loss   *)
(* of the service; the MsgTask thread blocks in locClientOpen until the    *)
(* service is there.                                                       *)
(*                                                                         *)
(* The engine's adapter is never deleted (loc_eng_cleanup leaves it), so   *)
(* that the list never becomes empty.  A mask is the set of its bits, and  *)
(* mMask stands for its QMI form mQmiMask too; which bits are withheld     *)
(* out of a session is the matter of LocSession.                           *)
(***************************************************************************)
EXTENDS Naturals, Sequences, FiniteSets

CONSTANTS
    Adapters,
    Engine,        \* the LocEngAdapter, which is always there
    Events,        \* bits of LOC_API_ADAPTER_EVENT_MASK_T
    Measurement,   \* LOC_API_ADAPTER_BIT_GNSS_MEASUREMENT
    mExcludedMask, \* the bits this context does not register
    MaxAdapters,   \* MAX_ADAPTERS
    MaxRetries,    \* LOC_CLIENT_MAX_OPEN_RETRIES
    MaxOp,         \* bound: changes by adapters in a behaviour
    MaxCrash,      \* bound: losses of the service in a behaviour
    MaxRefuse      \* bound: requests refused although the service is there

ASSUME AdapterAssumption ==
    /\ Engine \in Adapters /\ Measurement \in Events
    /\ mExcludedMask \subseteq Events
    /\ IsFiniteSet(Adapters)
    /\ MaxAdapters \in Nat \ {0} /\ MaxRetries \in Nat
    /\ MaxOp \in Nat /\ MaxCrash \in Nat /\ MaxRefuse \in Nat

VARIABLES
    mLocAdapters,  \* the adapters in the list
    mEvtMask,      \* per adapter: the events it wants
    measuring,     \* gps_measurement_cb is set
    queue,         \* the messages of the MsgTask thread
    pc,            \* the MsgTask thread: between messages, or in locClientOpen
    newMask,       \* open(): the mask that is being opened
    tries,         \* locClientOpen: the attempt it is at
    mMask,         \* LocApiBase: the mask of the client
    conn,          \* clientHandle: none, or a client of a live or a dead service
    callbacks,     \* the client's callbacks are filled in
    registered,    \* the modem: the events the live client registered
    service,       \* the modem's service is there
    signal,        \* the notifier's signal (os_params)
    errorCb,       \* the QMI library has yet to report the loss of the service
    missed,        \* history: an open or a registration failed since the last SSR
    ops, crashes, refusals

adapterVars == <<mLocAdapters, mEvtMask, measuring>>
openVars == <<pc, newMask, tries, mMask, callbacks, missed>>
modemVars == <<conn, registered, errorCb>>
vars == <<adapterVars, queue, openVars, modemVars, service, signal, ops, crashes, refusals>>

Messages ==
    [op : {"open"}, mask : SUBSET Events]
        \cup [op : {"registration"}, on : BOOLEAN]
        \cup [op : {"ssr"}]

Places == {"idle", "clear", "lookup", "wait", "init", "register", "finish"}

TypeOK ==
    /\ mLocAdapters \subseteq Adapters
    /\ mEvtMask \in [Adapters -> SUBSET Events]
    /\ measuring \in BOOLEAN
    /\ queue \in Seq(Messages)
    /\ pc \in Places
    /\ newMask \subseteq Events
    /\ tries \in 0 .. MaxRetries + 1
    /\ mMask \subseteq Events
    /\ conn \in {"none", "live", "dead"}
    /\ callbacks \in BOOLEAN
    /\ registered \subseteq Events
    /\ service \in BOOLEAN /\ signal \in BOOLEAN
    /\ errorCb \in BOOLEAN /\ missed \in BOOLEAN
    /\ ops \in Nat /\ crashes \in Nat /\ refusals \in Nat

\* The engine's adapter has been constructed, and its message is on its way.
Init ==
    /\ mLocAdapters = {Engine}
    /\ \E mask \in [Adapters -> SUBSET (Events \ {Measurement})] :
          /\ mEvtMask = mask
          /\ queue = <<[op |-> "open", mask |-> mask[Engine]]>>
    /\ measuring = FALSE
    /\ pc = "idle" /\ newMask = {} /\ tries = 0 /\ mMask = {}
    /\ conn = "none" /\ callbacks = FALSE /\ registered = {}
    /\ service \in BOOLEAN /\ signal = FALSE
    /\ errorCb = FALSE /\ missed = FALSE
    /\ ops = 0 /\ crashes = 0 /\ refusals = 0
---------------------------------------------------------------------------
(* The adapters, on their own threads.                                     *)

MaskOf(group, mask) == UNION {mask[a] : a \in group}

\* LocApiBase::getEvtMask
getEvtMask(group, mask) == MaskOf(group, mask) \ mExcludedMask

Open(mask) == [op |-> "open", mask |-> mask]

Change ==
    /\ ops < MaxOp
    /\ ops' = ops + 1
    /\ UNCHANGED <<openVars, modemVars, service, signal, crashes, refusals>>

\* An adapter that finds the list full is not added, and nobody tells it.
addAdapter(a) ==
    /\ Change
    /\ a \notin mLocAdapters
    /\ IF Cardinality(mLocAdapters) < MaxAdapters
       THEN /\ mLocAdapters' = mLocAdapters \cup {a}
            /\ queue' = Append(queue, Open(mEvtMask[a]))
       ELSE UNCHANGED <<mLocAdapters, queue>>
    /\ UNCHANGED <<mEvtMask, measuring>>

removeAdapter(a) ==
    /\ Change
    /\ a \in mLocAdapters \ {Engine}
    /\ mLocAdapters' = mLocAdapters \ {a}
    /\ queue' = Append(queue, Open(getEvtMask(mLocAdapters', mEvtMask)))
    /\ UNCHANGED <<mEvtMask, measuring>>

\* LocAdapterBase::updateEvtMask, of an adapter in the list or not.
updateEvtMask(a, event, isEnabled) ==
    /\ Change
    /\ mEvtMask' = [mEvtMask EXCEPT ![a] = IF isEnabled THEN @ \cup {event} ELSE @ \ {event}]
    /\ queue' = Append(queue, Open(getEvtMask(mLocAdapters, mEvtMask')))
    /\ UNCHANGED <<mLocAdapters, measuring>>

\* loc_eng_gps_measurement_init and _close, which do not touch mEvtMask.
loc_eng_gps_measurement(isEnabled) ==
    /\ Change
    /\ isEnabled => ~ measuring
    /\ measuring' = isEnabled
    /\ queue' = Append(queue, [op |-> "registration", on |-> isEnabled])
    /\ UNCHANGED <<mLocAdapters, mEvtMask>>
---------------------------------------------------------------------------
(* The modem's service and the QMI library.                                *)

ServiceDown ==
    /\ crashes < MaxCrash
    /\ service
    /\ crashes' = crashes + 1
    /\ service' = FALSE
    /\ IF conn = "live" THEN conn' = "dead" /\ registered' = {} /\ errorCb' = TRUE
       ELSE UNCHANGED modemVars
    /\ UNCHANGED <<adapterVars, queue, openVars, signal, ops, refusals>>

ServiceUp ==
    /\ ~ service
    /\ service' = TRUE
    /\ signal' = TRUE
    /\ UNCHANGED <<adapterVars, queue, openVars, modemVars, ops, crashes, refusals>>

\* locClientErrorCb: a client whose callbacks are not filled in yet is not told;
\* otherwise LocApiV02::errorCb reports the engine down and up again at once.
locClientErrorCb ==
    /\ errorCb
    /\ errorCb' = FALSE
    /\ queue' = IF callbacks THEN Append(queue, [op |-> "ssr"]) ELSE queue
    /\ UNCHANGED <<adapterVars, openVars, conn, registered, service, signal, ops,
                   crashes, refusals>>
---------------------------------------------------------------------------
(* The MsgTask thread: a message.                                          *)

Received(op) == pc = "idle" /\ queue # <<>> /\ Head(queue).op = op

Refused == refusals < MaxRefuse /\ refusals' = refusals + 1
Accepted == UNCHANGED refusals

\* Mutant: the mask replaces the one of the client.
OrMaskReplaced(old, mask) == mask \ mExcludedMask

OrMask(old, mask) == old \cup (mask \ mExcludedMask)

StartOpen(mask) ==
    /\ pc' = "clear"
    /\ newMask' = mask
    /\ tries' = 1

\* LocApiV02::open(mask) on a client that is there.
RegisterOpen(mask) ==
    /\ \/ /\ mask # mMask /\ conn = "live" /\ Accepted
          /\ mMask' = mask /\ registered' = mask
          /\ UNCHANGED missed
       \/ /\ mask # mMask /\ conn = "live" /\ Refused
          /\ missed' = TRUE
          /\ UNCHANGED <<mMask, registered>>
       \/ /\ mask = mMask \/ conn = "dead"
          /\ Accepted
          /\ UNCHANGED <<mMask, registered, missed>>
    /\ UNCHANGED <<pc, newMask, tries>>

\* LocApiV02::open(mask)
open(mask) ==
    LET new == OrMask(mMask, mask) IN
    \/ /\ conn = "none"
       /\ StartOpen(new)
       /\ UNCHANGED <<mMask, registered, missed, refusals>>
    \/ /\ conn # "none"
       /\ RegisterOpen(new)

LocOpenMsg ==
    /\ Received("open")
    /\ queue' = Tail(queue)
    /\ open(Head(queue).mask)
    /\ UNCHANGED <<adapterVars, callbacks, conn, errorCb, service, signal, ops, crashes>>

\* LocEngUpdateRegistrationMask; open() has no way to take a bit back.
LocEngUpdateRegistrationMask ==
    /\ Received("registration")
    /\ queue' = Tail(queue)
    /\ open(IF Head(queue).on THEN mMask \cup {Measurement} ELSE mMask \ {Measurement})
    /\ UNCHANGED <<adapterVars, callbacks, conn, errorCb, service, signal, ops, crashes>>

\* LocSsrMsg: close(), and open() with the adapters' masks as they are now.
LocSsrMsg ==
    /\ Received("ssr")
    /\ queue' = Tail(queue)
    /\ conn' = "none" /\ callbacks' = FALSE /\ registered' = {} /\ errorCb' = FALSE
    /\ mMask' = {}
    /\ missed' = FALSE
    /\ StartOpen(OrMask({}, getEvtMask(mLocAdapters, mEvtMask)))
    /\ UNCHANGED <<adapterVars, service, signal, ops, crashes, refusals>>
---------------------------------------------------------------------------
(* The MsgTask thread: in locClientOpen.                                   *)

\* locClientQmiCtrlPointInit: the signal is cleared, the service looked up, and
\* the signal waited for, without a timeout, if it is not there.
ClearSignal ==
    /\ pc = "clear"
    /\ signal' = FALSE
    /\ pc' = "lookup"
    /\ UNCHANGED <<adapterVars, queue, newMask, tries, mMask, callbacks, missed,
                   modemVars, service, ops, crashes, refusals>>

Lookup ==
    /\ pc = "lookup"
    /\ pc' = IF service THEN "init" ELSE "wait"
    /\ UNCHANGED <<adapterVars, queue, newMask, tries, mMask, callbacks, missed,
                   modemVars, service, signal, ops, crashes, refusals>>

\* Mutant: the signal is cleared between the lookup and the wait.
WaitSignalCleared ==
    /\ pc = "wait"
    /\ signal
    /\ signal' = FALSE
    /\ pc' \in {"wait", "clear"}
    /\ UNCHANGED <<adapterVars, queue, newMask, tries, mMask, callbacks, missed,
                   modemVars, service, ops, crashes, refusals>>

WaitSignal ==
    /\ pc = "wait"
    /\ signal
    /\ pc' = "clear"
    /\ UNCHANGED <<adapterVars, queue, newMask, tries, mMask, callbacks, missed,
                   modemVars, service, signal, ops, crashes, refusals>>

\* An attempt that failed releases its client; after the last one open() gives up
\* and the mask is lost.
Retry ==
    /\ conn' = "none" /\ registered' = {} /\ errorCb' = FALSE
    /\ \/ /\ tries <= MaxRetries
          /\ tries' = tries + 1
          /\ pc' = "clear"
          /\ UNCHANGED <<mMask, missed>>
       \/ /\ tries > MaxRetries
          /\ pc' = "idle"
          /\ mMask' = {}
          /\ missed' = TRUE
          /\ UNCHANGED tries

\* qmi_client_init and qmi_client_register_error_cb
InitClient ==
    /\ pc = "init"
    /\ \/ /\ service /\ Accepted
          /\ conn' = "live"
          /\ pc' = "register"
          /\ UNCHANGED <<registered, errorCb, tries, mMask, missed>>
       \/ /\ ~ service /\ Accepted /\ Retry
       \/ /\ service /\ Refused /\ Retry
    /\ UNCHANGED <<adapterVars, queue, newMask, callbacks, service, signal, ops, crashes>>

\* locClientRegisterEventMask
RegisterMask ==
    /\ pc = "register"
    /\ \/ /\ conn = "live" /\ Accepted
          /\ registered' = newMask
          /\ pc' = "finish"
          /\ UNCHANGED <<conn, errorCb, tries, mMask, missed>>
       \/ /\ conn = "dead" /\ Accepted /\ Retry
       \/ /\ conn = "live" /\ Refused /\ Retry
    /\ UNCHANGED <<adapterVars, queue, newMask, callbacks, service, signal, ops, crashes>>

\* The callbacks are filled in last; the client may be dead by now.
FinishOpen ==
    /\ pc = "finish"
    /\ callbacks' = TRUE
    /\ mMask' = newMask
    /\ pc' = "idle"
    /\ UNCHANGED <<adapterVars, queue, newMask, tries, missed, modemVars, service,
                   signal, ops, crashes, refusals>>
---------------------------------------------------------------------------
MsgTask ==
    \/ LocOpenMsg
    \/ LocEngUpdateRegistrationMask
    \/ LocSsrMsg
    \/ ClearSignal
    \/ Lookup
    \/ WaitSignal
    \/ InitClient
    \/ RegisterMask
    \/ FinishOpen

Next ==
    \/ \E a \in Adapters :
          \/ addAdapter(a)
          \/ removeAdapter(a)
          \/ \E event \in Events, isEnabled \in BOOLEAN : updateEvtMask(a, event, isEnabled)
    \/ \E isEnabled \in BOOLEAN : loc_eng_gps_measurement(isEnabled)
    \/ ServiceDown
    \/ ServiceUp
    \/ locClientErrorCb
    \/ MsgTask

Spec == Init /\ [][Next]_vars

\* The threads run, and a modem that went down comes back.
FairSpec ==
    /\ Spec
    /\ WF_vars(MsgTask)
    /\ WF_vars(locClientErrorCb)
    /\ WF_vars(ServiceUp)
---------------------------------------------------------------------------
(* Properties                                                              *)

\* Over all orders of additions, removals, changes of a mask and restarts of the
\* modem, each message carrying a mask computed when it was posted: a thread that
\* has handled them all leaves a live client that is registered for every event
\* of every adapter in the list.  The exception is the code's own: an open that
\* gave up or a registration that was refused is never repeated.
EventsKept ==
    pc = "idle" /\ queue = <<>> /\ conn = "live" /\ ~ missed =>
        getEvtMask(mLocAdapters, mEvtMask) \subseteq registered

\* The loss of the service goes unreported: it came while the callbacks of the
\* client were not filled in.
Unheard == conn = "dead" /\ pc = "idle" /\ ~ errorCb
    /\ \A i \in DOMAIN queue : queue[i].op # "ssr"

\* A client that lost its service is replaced, unless nobody heard of it or the
\* retries are used up: the MsgTask thread does not sleep through the return of
\* the service, however it comes between the lookup and the wait.
Reopened == conn = "dead" ~> pc = "idle" /\ (conn # "dead" \/ Unheard)

\* Measurements that the framework asked for ("event masks updated successfully")
\* are registered once the thread has handled everything.
MeasurementsKept ==
    pc = "idle" /\ queue = <<>> /\ conn = "live" /\ ~ missed /\ measuring =>
        Measurement \in registered
===========================================================================
