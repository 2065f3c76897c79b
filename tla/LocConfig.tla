----------------------------- MODULE LocConfig -----------------------------
(***************************************************************************)
(* The configuration that the engine keeps and the modem runs with.  The   *)
(* framework's thread changes gps_conf and the server buffers and posts    *)
(* messages that send the changes; the MsgTask thread sends everything     *)
(* again after a restart of the modem (loc_eng_reinit), reading the same   *)
(* variables with no lock.                                                 *)
(*                                                                         *)
(* The framework makes one call at a time, and its calls and the handlers  *)
(* of LocEngInit and LocEngUp take one step per read or post of a value    *)
(* that the other thread may change.  A message of the QMI client other    *)
(* than a setter, and how a client is opened, is the matter of LocSession  *)
(* and LocAdapters; here a client that was lost is reopened by LocSsrMsg.  *)
(***************************************************************************)
EXTENDS Naturals, Sequences, Functions

CONSTANTS
    ParamOrder,    \* the parameters, in the order in which loc_eng_reinit sends them
    CarrierOrder,  \* those that loc_eng_configuration_update sends, in its order
    Values,        \* values of a parameter: "0" and "1" among them
    Configs,       \* what the carrier's configuration may set: functions to Values
    Addresses,     \* per server: the addresses it may be given, of a host and a port
    Supported,     \* LocApiV02 has mGnssMeasurementSupported = sup_yes
    AgpsCapable,   \* gps_conf.CAPABILITIES has GPS_CAPABILITY_MSA or _MSB
    MaxCalls,      \* bound: updates and servers set in a behaviour (loc_eng_init and
                   \* loc_eng_agps_init happen once each)
    MaxCrash,      \* bound: restarts of the modem in a behaviour
    MaxRefuse      \* bound: requests refused, and names unresolved, in a behaviour

Params == Range(ParamOrder)
Carrier == Range(CarrierOrder)
ServerOrder == <<"supl", "c2k">>
Servers == Range(ServerOrder)
Keys == Params \cup Servers
Fields == Params \cup {"CAPABILITIES"}   \* of gps_conf
None == "none"
NoMessage == [op |-> None]
NoAddress == [host |-> None, port |-> None]
Unset(key) == IF key \in Servers THEN NoAddress ELSE None

ASSUME ConfigAssumption ==
    /\ ParamOrder \in Seq(STRING) /\ CarrierOrder \in Seq(Params)
    /\ Params \cap {"CAPABILITIES", "constellation", "capabilities", "agps", "supl", "c2k"} = {}
    /\ {"0", "1"} \subseteq Values
    /\ \A t \in Servers : \A a \in Addresses[t] : a = [host |-> a.host, port |-> a.port]
    /\ \A changes \in Configs : changes \in [DOMAIN changes -> Values]
    /\ Supported \in BOOLEAN /\ AgpsCapable \in BOOLEAN
    /\ MaxCalls \in Nat /\ MaxCrash \in Nat /\ MaxRefuse \in Nat

VARIABLES
    gps_conf,      \* CAPABILITIES stands for its bit GPS_CAPABILITY_MEASUREMENTS
    server_buf,    \* supl_host_buf, supl_port_buf, c2k_host_buf, c2k_port_buf
    host_set,      \* the servers with supl_host_set or c2k_host_set
    adapter,       \* loc_eng_data.adapter is there
    agps,          \* agps_status_cb is set
    at,            \* the framework's thread: where it is in a call
    tmp,           \* gps_conf_tmp
    arg,           \* the arguments of its call
    todo,          \* what its call may still have to post
    queue,         \* the messages of the MsgTask thread
    job,           \* the MsgTask thread: what its handler has yet to post
    draft,         \* the message that it has composed and not posted yet
    conn,          \* the QMI client: none, live or dead
    errorCb,       \* the QMI library has yet to report the loss of the service
    modem,         \* what the modem was told since its start
    told,          \* what set_capabilities_cb was told
    failed,        \* history: keys whose last request was refused
    stale,         \* history: keys the MsgTask thread posted with an outdated value
    calls, crashes, refusals

callVars == <<at, tmp, arg, todo>>
confVars == <<gps_conf, server_buf, host_set, adapter, agps>>
taskVars == <<job, draft>>
modemVars == <<conn, errorCb, modem, told, failed>>
boundVars == <<calls, crashes, refusals>>
vars == <<confVars, callVars, queue, taskVars, modemVars, stale, boundVars>>

\* What a buffer may hold: it is written host first.
Address ==
    LET all == UNION {Addresses[t] : t \in Servers}
    IN [host : {a.host : a \in all} \cup {None}, port : {a.port : a \in all} \cup {None}]

\* A setter's message (LocEngSuplVer, LocEngSetServerUrl, ...), or another one.
Setting(key, value) == [op |-> "set", key |-> key, value |-> value]
Other(op) == [op |-> op]

Messages ==
    [op : {"set"}, key : Params, value : Values]
        \cup [op : {"set"}, key : Servers, value : Address]
        \cup [op : {"open", "init", "ssr", "up", "constellation", "capabilities"}]

TypeOK ==
    /\ gps_conf \in [Fields -> Values] /\ tmp \in [Fields -> Values]
    /\ server_buf \in [Servers -> Address] /\ host_set \subseteq Servers
    /\ adapter \in BOOLEAN /\ agps \in BOOLEAN
    /\ at \in {"idle", "parse", "post", "port", "send", "agps"}
    /\ todo \in Seq(Keys)
    /\ queue \in Seq(Messages)
    /\ job \in Seq(Keys \cup {"constellation", "capabilities", "agps"})
    /\ draft \in Messages \cup {NoMessage}
    /\ conn \in {"none", "live", "dead"} /\ errorCb \in BOOLEAN
    /\ DOMAIN modem = Keys
    /\ \A p \in Params : modem[p] \in Values \cup {None}
    /\ \A t \in Servers : modem[t] \in Address
    /\ told \in Values \cup {None}
    /\ failed \subseteq Keys /\ stale \subseteq Keys \cup Fields
    /\ calls \in Nat /\ crashes \in Nat /\ refusals \in Nat

\* What a call leaves in its variables is of no use to the next one.
NoArg == <<>>
NoConf == [f \in Fields |-> "0"]

NoServers == [t \in Servers |-> NoAddress]

\* gps.conf has been read; nothing has been called yet.
Init ==
    /\ gps_conf = NoConf /\ tmp = NoConf
    /\ server_buf = NoServers /\ host_set = {}
    /\ adapter = FALSE /\ agps = FALSE
    /\ at = "idle" /\ arg = NoArg /\ todo = <<>>
    /\ queue = <<>> /\ job = <<>> /\ draft = NoMessage
    /\ conn = "none" /\ errorCb = FALSE
    /\ modem = [k \in Keys |-> Unset(k)]
    /\ told = None
    /\ failed = {} /\ stale = {}
    /\ calls = 0 /\ crashes = 0 /\ refusals = 0

Refused == refusals < MaxRefuse /\ refusals' = refusals + 1
Accepted == UNCHANGED refusals
---------------------------------------------------------------------------
(* The framework's thread.                                                 *)

Call ==
    /\ at = "idle"
    /\ UNCHANGED <<taskVars, modemVars, stale, crashes, refusals>>

\* The calls that the framework may repeat.
Repeat == calls < MaxCalls /\ calls' = calls + 1

\* loc_eng_init clears the whole of loc_eng_data, the server buffers included; the
\* adapter's constructor and LocEngInit post the first messages.
loc_eng_init ==
    /\ Call
    /\ ~ adapter
    /\ adapter' = TRUE
    /\ server_buf' = NoServers /\ host_set' = {}
    /\ queue' = <<Other("open"), Other("init")>>
    /\ UNCHANGED <<gps_conf, agps, callVars, calls>>

\* loc_eng_configuration_update, until it has its copy of gps_conf.
loc_eng_configuration_update(changes) ==
    /\ Call
    /\ Repeat
    /\ at' = "parse" /\ tmp' = gps_conf /\ arg' = changes /\ todo' = CarrierOrder
    /\ UNCHANGED <<confVars, queue>>

\* loc_eng_set_server_proxy, until it has copied the host.
loc_eng_set_server_proxy(type, address) ==
    /\ Call
    /\ Repeat
    /\ at' = "port" /\ arg' = [type |-> type, address |-> address]
    /\ server_buf' = [server_buf EXCEPT ![type].host = address.host]
    /\ UNCHANGED <<tmp, todo, gps_conf, host_set, adapter, agps, queue>>

\* loc_eng_agps_init, until loc_eng_agps_reinit.
loc_eng_agps_init ==
    /\ Call
    /\ adapter /\ ~ agps
    /\ agps' = TRUE
    /\ IF AgpsCapable THEN at' = "agps" /\ todo' = ServerOrder ELSE UNCHANGED <<at, todo>>
    /\ UNCHANGED <<tmp, arg, gps_conf, server_buf, host_set, adapter, queue, calls>>

Continue(place) ==
    /\ at = place
    /\ UNCHANGED <<taskVars, modemVars, calls, crashes>>

\* UTIL_UPDATE_CONF
ParseConfig ==
    /\ Continue("parse")
    /\ at' = "post"
    /\ gps_conf' = [f \in Fields |-> IF f \in DOMAIN arg THEN arg[f] ELSE gps_conf[f]]
    /\ arg' = NoArg
    /\ UNCHANGED <<server_buf, host_set, adapter, agps, tmp, todo, queue, stale, refusals>>

\* Mutant: the message takes its value from the copy.
PostChangeOfCopy ==
    /\ Continue("post")
    /\ todo # <<>>
    /\ todo' = Tail(todo)
    /\ LET p == Head(todo) IN
       IF adapter /\ tmp[p] # gps_conf[p]
       THEN queue' = Append(queue, Setting(p, tmp[p])) /\ stale' = stale \ {p}
       ELSE UNCHANGED <<queue, stale>>
    /\ UNCHANGED <<confVars, at, tmp, arg, refusals>>

\* A parameter that the carrier changed is sent to the modem, if HAL is there.
PostChange ==
    /\ Continue("post")
    /\ todo # <<>>
    /\ todo' = Tail(todo)
    /\ LET p == Head(todo) IN
       IF adapter /\ tmp[p] # gps_conf[p]
       THEN queue' = Append(queue, Setting(p, gps_conf[p])) /\ stale' = stale \ {p}
       ELSE UNCHANGED <<queue, stale>>
    /\ UNCHANGED <<confVars, at, tmp, arg, refusals>>

\* Only the carrier's fields keep their new values: the rest is what it was when
\* the call began.
Restored(conf) == [f \in Fields |-> IF f \in Carrier THEN conf[f] ELSE tmp[f]]

RestoreConfig ==
    /\ Continue("post")
    /\ todo = <<>>
    /\ at' = "idle"
    /\ gps_conf' = Restored(gps_conf)
    /\ tmp' = NoConf
    /\ UNCHANGED <<server_buf, host_set, adapter, agps, arg, todo, queue, stale, refusals>>

SetPort ==
    /\ Continue("port")
    /\ at' = "send"
    /\ server_buf' = [server_buf EXCEPT ![arg.type].port = arg.address.port]
    /\ host_set' = host_set \cup {arg.type}
    /\ UNCHANGED <<gps_conf, adapter, agps, tmp, arg, todo, queue, stale, refusals>>

\* loc_eng_set_server; the name of a c2k server must be resolved first.
SetServer(type, address) ==
    \/ /\ Accepted
       /\ queue' = Append(queue, Setting(type, address))
       /\ stale' = stale \ {type}
    \/ /\ type = "c2k" /\ Refused
       /\ stale' = stale \cup {type}
       /\ UNCHANGED queue

SendServer ==
    /\ Continue("send")
    /\ at' = "idle"
    /\ arg' = NoArg
    /\ IF adapter THEN SetServer(arg.type, arg.address) ELSE UNCHANGED <<queue, stale, refusals>>
    /\ UNCHANGED <<confVars, tmp, todo>>

\* loc_eng_agps_reinit on the framework's thread
AgpsReinit ==
    /\ Continue("agps")
    /\ at' = IF Len(todo) = 1 THEN "idle" ELSE "agps"
    /\ todo' = Tail(todo)
    /\ LET type == Head(todo) IN
       IF type \in host_set
       THEN SetServer(type, server_buf[type])
       ELSE UNCHANGED <<queue, stale, refusals>>
    /\ UNCHANGED <<confVars, tmp, arg>>

Framework ==
    \/ loc_eng_init
    \/ \E changes \in Configs : loc_eng_configuration_update(changes)
    \/ \E type \in Servers : \E address \in Addresses[type] :
          loc_eng_set_server_proxy(type, address)
    \/ loc_eng_agps_init

FrameworkGoesOn ==
    \/ ParseConfig
    \/ PostChange
    \/ RestoreConfig
    \/ SetPort
    \/ SendServer
    \/ AgpsReinit
---------------------------------------------------------------------------
(* The modem and the QMI library.                                          *)

\* A modem that restarts has forgotten what it was told.
ServiceDown ==
    /\ crashes < MaxCrash
    /\ conn = "live"
    /\ crashes' = crashes + 1
    /\ conn' = "dead" /\ errorCb' = TRUE
    /\ modem' = [k \in Keys |-> Unset(k)]
    /\ UNCHANGED <<confVars, callVars, queue, taskVars, stale, told, failed,
                   calls, refusals>>

\* LocApiV02::errorCb, by way of the adapter: LocSsrMsg, then LocEngUp.
locClientErrorCb ==
    /\ errorCb
    /\ errorCb' = FALSE
    /\ queue' = queue \o <<Other("ssr"), Other("up")>>
    /\ UNCHANGED <<confVars, callVars, taskVars, stale, conn, modem, told, failed,
                   boundVars>>
---------------------------------------------------------------------------
(* The MsgTask thread.                                                     *)

Received(op) ==
    /\ job = <<>> /\ queue # <<>> /\ Head(queue).op = op
    /\ queue' = Tail(queue)
    /\ UNCHANGED <<callVars, draft, errorCb, calls, crashes>>

\* LocOpenMsg and LocSsrMsg
OpenClient ==
    /\ Received("open") \/ Received("ssr")
    /\ conn' = "live"
    /\ UNCHANGED <<confVars, job, modem, told, failed, stale, refusals>>

Reinit == <<"constellation">> \o ParamOrder

\* Mutant: the framework is told before the modem's measurements are known of.
LocEngInitTold ==
    /\ Received("init")
    /\ job' = <<"capabilities">> \o Reinit
    /\ UNCHANGED <<confVars, conn, modem, told, failed, stale, refusals>>

\* LocEngInit: loc_eng_reinit, and what the framework is to be told.
LocEngInit ==
    /\ Received("init")
    /\ job' = Reinit \o <<"capabilities">>
    /\ UNCHANGED <<confVars, conn, modem, told, failed, stale, refusals>>

\* Mutants: one of the two functions that send everything again is not called.
LocEngUpNoReinit ==
    /\ Received("up")
    /\ job' = <<"agps">>
    /\ UNCHANGED <<confVars, conn, modem, told, failed, stale, refusals>>

LocEngUpNoAgpsReinit ==
    /\ Received("up")
    /\ job' = Reinit
    /\ UNCHANGED <<confVars, conn, modem, told, failed, stale, refusals>>

\* LocEngUp, loc_eng_handle_engine_up: loc_eng_reinit and loc_eng_agps_reinit.
LocEngUp ==
    /\ Received("up")
    /\ job' = Reinit \o <<"agps">>
    /\ UNCHANGED <<confVars, conn, modem, told, failed, stale, refusals>>

InHandler ==
    /\ job # <<>>
    /\ UNCHANGED <<confVars, callVars, modemVars, calls, crashes>>

\* What gps_conf will be once the framework's call is over, and the servers.
Current(key) ==
    IF key \in Servers THEN server_buf[key]
    ELSE IF at = "post" THEN Restored(gps_conf)[key] ELSE gps_conf[key]

\* The value of a message is read before the message is posted.
Compose ==
    /\ InHandler
    /\ draft = NoMessage
    /\ LET item == Head(job) IN
       \/ /\ item \in Params
          /\ draft' = Setting(item, gps_conf[item])
          /\ UNCHANGED <<queue, job, stale, refusals>>
       \/ /\ item \in {"constellation", "capabilities"}
          /\ queue' = Append(queue, Other(item))
          /\ job' = Tail(job)
          /\ UNCHANGED <<draft, stale, refusals>>
       \/ /\ item = "agps"
          /\ job' = IF agps THEN ServerOrder ELSE <<>>
          /\ UNCHANGED <<queue, draft, stale, refusals>>
       \/ /\ item \in host_set
          /\ draft' = Setting(item, server_buf[item])
          /\ UNCHANGED <<queue, job, stale>> /\ Accepted
       \/ /\ item \in host_set \cap {"c2k"}
          /\ job' = Tail(job)
          /\ stale' = stale \cup {item}
          /\ UNCHANGED <<queue, draft>> /\ Refused
       \/ /\ item \in Servers \ host_set
          /\ job' = Tail(job)
          /\ UNCHANGED <<queue, draft, stale, refusals>>

PostDraft ==
    /\ InHandler
    /\ draft # NoMessage
    /\ queue' = Append(queue, draft)
    /\ draft' = NoMessage
    /\ job' = Tail(job)
    /\ stale' = IF draft.value # Current(draft.key) THEN stale \cup {draft.key}
                ELSE stale \ {draft.key}
    /\ UNCHANGED refusals

\* LocApiV02's setters: a request that fails is logged and forgotten, and the modem
\* may have taken a request that timed out.
Set ==
    /\ Received("set")
    /\ LET key == Head(queue).key
           value == Head(queue).value
       IN \/ /\ conn = "live" /\ Accepted
             /\ modem' = [modem EXCEPT ![key] = value]
             /\ failed' = failed \ {key}
          \/ /\ conn = "live" /\ Refused
             /\ modem' \in {modem, [modem EXCEPT ![key] = value]}
             /\ failed' = failed \cup {key}
          \/ /\ conn # "live"
             /\ UNCHANGED <<modem, failed, refusals>>
    /\ UNCHANGED <<confVars, job, conn, told, stale>>

\* LocEngGnssConstellationConfig adds a bit to a mask that a call of the framework
\* may be about to put back.
LocEngGnssConstellationConfig ==
    /\ Received("constellation")
    /\ IF Supported
       THEN /\ gps_conf' = [gps_conf EXCEPT !["CAPABILITIES"] = "1"]
            /\ stale' = IF at \in {"parse", "post"} /\ tmp["CAPABILITIES"] # "1"
                        THEN stale \cup {"CAPABILITIES"} ELSE stale
       ELSE UNCHANGED <<gps_conf, stale>>
    /\ UNCHANGED <<server_buf, host_set, adapter, agps, job, conn, modem, told, failed,
                   refusals>>

LocEngSetCapabilities ==
    /\ Received("capabilities")
    /\ told' = gps_conf["CAPABILITIES"]
    /\ stale' = IF Current("CAPABILITIES") # gps_conf["CAPABILITIES"]
                THEN stale \cup {"CAPABILITIES"} ELSE stale
    /\ UNCHANGED <<confVars, job, conn, modem, failed, refusals>>

MsgTask ==
    \/ OpenClient
    \/ LocEngInit
    \/ LocEngUp
    \/ Compose
    \/ PostDraft
    \/ Set
    \/ LocEngGnssConstellationConfig
    \/ LocEngSetCapabilities
---------------------------------------------------------------------------
Next == Framework \/ FrameworkGoesOn \/ ServiceDown \/ locClientErrorCb \/ MsgTask

Spec == Init /\ [][Next]_vars

\* The threads run.
FairSpec ==
    /\ Spec
    /\ WF_vars(FrameworkGoesOn)
    /\ WF_vars(locClientErrorCb)
    /\ WF_vars(MsgTask)
---------------------------------------------------------------------------
(* Properties                                                              *)

\* Nothing is on its way to a modem whose loss has been reported, if there was one.
Settled ==
    /\ at = "idle" /\ job = <<>> /\ queue = <<>> /\ conn = "live"

Followed(key) == modem[key] = Current(key) \/ key \in failed \cup stale

\* A modem, restarted in the middle of whatever call, ends up with the parameters
\* that gps_conf holds.  The exceptions are the code's own: a refused request is not
\* repeated, and the MsgTask thread posts a value that it read before the framework's
\* thread changed it.
ConfigKept == Settled => \A p \in Params : Followed(p)

\* So it does, once the AGPS interface has been initialised, with the servers set
\* since loc_eng_init.  (That call clears the buffers: a server set before it is gone,
\* although loc_eng_set_server_proxy is said to keep it until the client is open.)  A
\* restart may have the MsgTask thread read the host of one address and the port of
\* another, or an address that the framework is replacing: what it has read is
\* overtaken by the framework's own message, unless it is posted after that one, which
\* is the code's own exception again.
ServerKept == Settled /\ agps /\ AgpsCapable => \A type \in host_set : Followed(type)

\* The framework is told that the modem measures, unless a configuration update
\* wrote CAPABILITIES back while the engine was being initialised.
MeasurementsTold ==
    told # None /\ Supported /\ "CAPABILITIES" \notin stale => told = "1"

\* What the carrier set reaches the modem, whether it set it before HAL was there,
\* while the modem restarted or while an earlier change was on its way.
SettingArrives == \A p \in Carrier : adapter ~> Followed(p)
===========================================================================
