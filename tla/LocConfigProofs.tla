-------------------------- MODULE LocConfigProofs --------------------------
(***************************************************************************)
(* Proofs about LocConfig, for any parameters, servers' addresses and      *)
(* carrier's configurations and any number of calls, restarts and          *)
(* refusals.                                                               *)
(***************************************************************************)
EXTENDS LocConfig, SequenceTheorems, TLAPS

Items == Keys \cup {"constellation", "capabilities", "agps"}
Ops == {"open", "init", "ssr", "up", "constellation", "capabilities"}

\* The framework's call, at the place where it is.
CallType ==
    /\ at = "parse" => arg \in Configs
    /\ at \in {"parse", "post"} => todo \in Seq(Params)
    /\ at \in {"port", "send"} => arg.type \in Servers /\ arg.address \in Address
    /\ at = "agps" => todo \in Seq(Servers) /\ todo # <<>>

\* A draft is the one of the first item of the job.
DraftType ==
    draft # NoMessage =>
        job # <<>> /\ Head(job) \in Keys /\ draft = Setting(Head(job), draft.value)

TypeInv == TypeOK /\ CallType /\ DraftType
---------------------------------------------------------------------------
(* Constants and messages.                                                 *)

LEMMA ConstantFacts ==
    /\ ParamOrder \in Seq(Params) /\ CarrierOrder \in Seq(Params)
    /\ Carrier \subseteq Params /\ Params \subseteq Keys
    /\ Servers = {"supl", "c2k"} /\ ServerOrder \in Seq(Servers)
    /\ Params \cap Servers = {}
    /\ Keys \cap {"constellation", "capabilities", "agps", "CAPABILITIES"} = {}
    /\ Items \cap {"CAPABILITIES"} = {}
<1>1. Servers = {"supl", "c2k"}
  BY DEF Servers, ServerOrder, Range
<1>2. ParamOrder \in Seq(Params)
  BY ConfigAssumption DEF Params, Range
<1>3. CarrierOrder \in Seq(Params) /\ Carrier \subseteq Params
  BY ConfigAssumption DEF Carrier, Range
<1>4. ServerOrder \in Seq(Servers)
  BY <1>1 DEF ServerOrder
<1>5. QED
  BY <1>1, <1>2, <1>3, <1>4, ConfigAssumption DEF Keys, Items

LEMMA OtherMessage ==
    ASSUME NEW op \in Ops
    PROVE  Other(op) \in Messages /\ Other(op).op = op
  BY DEF Other, Messages, Ops

LEMMA ParamMessage ==
    ASSUME NEW p \in Params, NEW v \in Values
    PROVE  Setting(p, v) \in Messages
  BY DEF Setting, Messages

LEMMA ServerMessage ==
    ASSUME NEW t \in Servers, NEW a \in Address
    PROVE  Setting(t, a) \in Messages
  BY DEF Setting, Messages

LEMMA SettingFields ==
    ASSUME NEW k, NEW v
    PROVE  /\ Setting(k, v).op = "set" /\ Setting(k, v).key = k /\ Setting(k, v).value = v
           /\ Setting(k, v) # NoMessage
  BY DEF Setting, NoMessage, None

LEMMA SettingMessage ==
    ASSUME NEW m \in Messages, m.op = "set"
    PROVE  \/ m.key \in Params /\ m.value \in Values
           \/ m.key \in Servers /\ m.value \in Address
  BY DEF Messages

LEMMA AddressFacts ==
    /\ NoAddress \in Address
    /\ \A t \in Servers : Addresses[t] \subseteq Address
    /\ \A a, b \in Address : [a EXCEPT !.host = b.host] \in Address
                             /\ [a EXCEPT !.port = b.port] \in Address
  BY ConfigAssumption DEF Address, NoAddress
---------------------------------------------------------------------------
(* Types.                                                                  *)

LEMMA CallStep ==
    ASSUME TypeInv, Call
    PROVE  /\ UNCHANGED <<job, draft, conn, errorCb, modem, told, failed, stale, crashes, refusals>>
           /\ DraftType' /\ at = "idle"
  BY DEF Call, taskVars, modemVars, TypeInv, TypeOK, DraftType

LEMMA InitType == Init => TypeInv
<1> SUFFICES ASSUME Init PROVE TypeInv
  OBVIOUS
<1>1. gps_conf \in [Fields -> Values] /\ tmp \in [Fields -> Values]
  BY ConfigAssumption DEF Init, NoConf
<1>2. server_buf \in [Servers -> Address]
  BY AddressFacts DEF Init, NoServers
<1>3. /\ DOMAIN modem = Keys
      /\ \A p \in Params : modem[p] \in Values \cup {None}
      /\ \A t \in Servers : modem[t] \in Address
  BY ConstantFacts, AddressFacts DEF Init, Unset, Keys
<1>4. CallType /\ DraftType
  BY DEF Init, CallType, DraftType
<1>5. todo \in Seq(Keys) /\ queue \in Seq(Messages) /\ job \in Seq(Items)
  BY DEF Init
<1>6. QED
  BY <1>1, <1>2, <1>3, <1>4, <1>5 DEF Init, TypeInv, TypeOK, Items

LEMMA FrameworkType == ASSUME TypeInv, Framework PROVE TypeInv'
<1> USE DEF TypeInv, TypeOK
<1>1. CASE loc_eng_init
  <2>1. queue' \in Seq(Messages)
    BY <1>1, OtherMessage DEF loc_eng_init, Ops
  <2>2. server_buf' \in [Servers -> Address]
    BY <1>1, AddressFacts DEF loc_eng_init, NoServers
  <2>3. Call
    BY <1>1 DEF loc_eng_init
  <2>4. QED
    BY <1>1, <2>1, <2>2, <2>3, CallStep DEF loc_eng_init, callVars, CallType
<1>2. CASE \E changes \in Configs : loc_eng_configuration_update(changes)
  <2>1. Call
    BY <1>2 DEF loc_eng_configuration_update
  <2>2. todo' \in Seq(Params) /\ todo' \in Seq(Keys)
    BY <1>2, ConstantFacts DEF loc_eng_configuration_update
  <2>3. QED
    BY <1>2, <2>1, <2>2, CallStep DEF loc_eng_configuration_update, confVars, CallType, Repeat
<1>3. CASE \E type \in Servers : \E address \in Addresses[type] :
               loc_eng_set_server_proxy(type, address)
  <2> PICK type \in Servers : \E address \in Addresses[type] :
               loc_eng_set_server_proxy(type, address)
    BY <1>3
  <2> PICK address \in Addresses[type] : loc_eng_set_server_proxy(type, address)
    OBVIOUS
  <2>1. address \in Address
    BY AddressFacts
  <2>2. loc_eng_set_server_proxy(type, address)
    OBVIOUS
  <2>3. server_buf' \in [Servers -> Address]
    <3>1. server_buf' = [server_buf EXCEPT ![type] = [server_buf[type] EXCEPT !.host = address.host]]
      BY <2>2 DEF loc_eng_set_server_proxy
    <3>2. server_buf[type] \in Address
      OBVIOUS
    <3>3. [server_buf[type] EXCEPT !.host = address.host] \in Address
      BY <2>1, <3>2, AddressFacts
    <3>4. QED
      BY <3>1, <3>3
  <2>4. Call
    BY <2>2 DEF loc_eng_set_server_proxy
  <2>5. QED
    BY <2>1, <2>2, <2>3, <2>4, CallStep DEF loc_eng_set_server_proxy, CallType, Repeat
<1>4. CASE loc_eng_agps_init
  <2>1. Call
    BY <1>4 DEF loc_eng_agps_init
  <2>2. ServerOrder \in Seq(Servers) /\ ServerOrder \in Seq(Keys) /\ ServerOrder # <<>>
    BY ConstantFacts DEF ServerOrder, Keys
  <2>3. CASE AgpsCapable
    BY <1>4, <2>1, <2>2, <2>3, CallStep DEF loc_eng_agps_init, CallType
  <2>4. CASE ~ AgpsCapable
    BY <1>4, <2>1, <2>4, CallStep DEF loc_eng_agps_init, CallType
  <2>5. QED
    BY <2>3, <2>4
<1>5. QED
  BY <1>1, <1>2, <1>3, <1>4 DEF Framework

LEMMA SetServerType ==
    ASSUME TypeInv, NEW t \in Servers, NEW a \in Address, SetServer(t, a)
    PROVE  queue' \in Seq(Messages) /\ stale' \subseteq Keys \cup Fields /\ refusals' \in Nat
<1>1. CASE Accepted /\ queue' = Append(queue, Setting(t, a)) /\ stale' = stale \ {t}
  BY <1>1, ServerMessage, AppendProperties DEF Accepted, TypeInv, TypeOK
<1>2. CASE Refused /\ stale' = stale \cup {t} /\ UNCHANGED queue
  BY <1>2, ConstantFacts DEF Refused, TypeInv, TypeOK, Keys
<1>3. QED
  BY <1>1, <1>2 DEF SetServer

LEMMA ContinueStep ==
    ASSUME TypeInv, NEW place, Continue(place)
    PROVE  /\ at = place
           /\ UNCHANGED <<job, draft, conn, errorCb, modem, told, failed, calls, crashes>>
           /\ DraftType'
  BY DEF Continue, taskVars, modemVars, TypeInv, DraftType

LEMMA FrameworkGoesOnType == ASSUME TypeInv, FrameworkGoesOn PROVE TypeInv'
<1> USE DEF TypeInv, TypeOK
<1>1. CASE ParseConfig
  <2>1. Continue("parse")
    BY <1>1 DEF ParseConfig
  <2>2. arg \in Configs
    BY <2>1 DEF Continue, CallType
  <2>3. gps_conf' \in [Fields -> Values]
    BY <1>1, <2>2, ConfigAssumption DEF ParseConfig
  <2>4. QED
    BY <1>1, <2>1, <2>3, ContinueStep DEF ParseConfig, CallType
<1>2. CASE PostChange
  <2>1. Continue("post")
    BY <1>2 DEF PostChange
  <2>2. todo \in Seq(Params) /\ todo # <<>>
    BY <1>2, <2>1 DEF PostChange, Continue, CallType
  <2>3. Head(todo) \in Params /\ todo' \in Seq(Params) /\ todo' \in Seq(Keys)
    BY <1>2, <2>2, ConstantFacts, HeadTailProperties DEF PostChange
  <2>4. gps_conf[Head(todo)] \in Values
    BY <2>3 DEF Fields
  <2>5. queue' \in Seq(Messages) /\ stale' \subseteq Keys \cup Fields
    <3>1. Setting(Head(todo), gps_conf[Head(todo)]) \in Messages
      BY <2>3, <2>4, ParamMessage
    <3>2. Append(queue, Setting(Head(todo), gps_conf[Head(todo)])) \in Seq(Messages)
      BY <3>1, AppendProperties
    <3>3. QED
      BY <1>2, <3>2 DEF PostChange
  <2>6. QED
    BY <1>2, <2>1, <2>3, <2>5, ContinueStep DEF PostChange, confVars, CallType
<1>3. CASE RestoreConfig
  <2>1. Continue("post")
    BY <1>3 DEF RestoreConfig
  <2>2. gps_conf' \in [Fields -> Values] /\ tmp' \in [Fields -> Values]
    BY <1>3, ConfigAssumption DEF RestoreConfig, Restored, NoConf
  <2>3. QED
    BY <1>3, <2>1, <2>2, ContinueStep DEF RestoreConfig, CallType
<1>4. CASE SetPort
  <2>1. Continue("port")
    BY <1>4 DEF SetPort
  <2>2. arg.type \in Servers /\ arg.address \in Address
    BY <2>1 DEF Continue, CallType
  <2>3. server_buf' \in [Servers -> Address] /\ host_set' \subseteq Servers
    BY <1>4, <2>2, AddressFacts DEF SetPort
  <2>4. QED
    BY <1>4, <2>1, <2>2, <2>3, ContinueStep DEF SetPort, CallType
<1>5. CASE SendServer
  <2>1. Continue("send")
    BY <1>5 DEF SendServer
  <2>2. arg.type \in Servers /\ arg.address \in Address
    BY <2>1 DEF Continue, CallType
  <2>3. queue' \in Seq(Messages) /\ stale' \subseteq Keys \cup Fields /\ refusals' \in Nat
    BY <1>5, <2>2, SetServerType DEF SendServer
  <2>4. QED
    BY <1>5, <2>1, <2>3, ContinueStep DEF SendServer, confVars, CallType
<1>6. CASE AgpsReinit
  <2>1. Continue("agps")
    BY <1>6 DEF AgpsReinit
  <2>2. todo \in Seq(Servers) /\ todo # <<>>
    BY <2>1 DEF Continue, CallType
  <2>3. /\ Head(todo) \in Servers /\ todo' \in Seq(Servers) /\ todo' \in Seq(Keys)
        /\ Len(todo') = Len(todo) - 1
    BY <1>6, <2>2, HeadTailProperties DEF AgpsReinit, Keys
  <2>4. Len(todo) # 1 => todo' # <<>>
    BY <2>2, <2>3, EmptySeq
  <2>5. server_buf[Head(todo)] \in Address
    BY <2>3
  <2>6. queue' \in Seq(Messages) /\ stale' \subseteq Keys \cup Fields /\ refusals' \in Nat
    BY <1>6, <2>3, <2>5, SetServerType DEF AgpsReinit
  <2>7. QED
    BY <1>6, <2>1, <2>3, <2>4, <2>6, ContinueStep DEF AgpsReinit, confVars, CallType
<1>7. QED
  BY <1>1, <1>2, <1>3, <1>4, <1>5, <1>6 DEF FrameworkGoesOn

LEMMA ModemType == ASSUME TypeInv, ServiceDown \/ locClientErrorCb PROVE TypeInv'
<1> USE DEF TypeInv, TypeOK
<1>1. CASE ServiceDown
  <2>1. /\ DOMAIN modem' = Keys
        /\ \A p \in Params : modem'[p] \in Values \cup {None}
        /\ \A t \in Servers : modem'[t] \in Address
    BY <1>1, ConstantFacts, AddressFacts DEF ServiceDown, Unset, Keys
  <2>2. QED
    BY <1>1, <2>1 DEF ServiceDown, confVars, callVars, taskVars, CallType, DraftType
<1>2. CASE locClientErrorCb
  <2> DEFINE posted == <<Other("ssr"), Other("up")>>
  <2>1. posted \in Seq(Messages) /\ queue' = queue \o posted
    BY <1>2, OtherMessage DEF Ops, locClientErrorCb
  <2> HIDE DEF posted
  <2>2. queue' \in Seq(Messages)
    BY <2>1, ConcatProperties
  <2>3. /\ errorCb' = FALSE
        /\ UNCHANGED <<gps_conf, server_buf, host_set, adapter, agps, at, tmp, arg, todo, job,
                       draft, stale, conn, modem, told, failed, calls, crashes, refusals>>
    BY <1>2 DEF locClientErrorCb, confVars, callVars, taskVars, boundVars
  <2> HIDE DEF TypeInv, TypeOK
  <2>4. TypeOK'
    BY <2>2, <2>3 DEF TypeInv, TypeOK
  <2>5. CallType' /\ DraftType'
    BY <2>3 DEF TypeInv, CallType, DraftType
  <2>6. QED
    BY <2>4, <2>5 DEF TypeInv
<1>3. QED
  BY <1>1, <1>2

LEMMA ReceivedStep ==
    ASSUME TypeInv, NEW op, Received(op)
    PROVE  /\ queue' \in Seq(Messages) /\ Head(queue) \in Messages /\ Head(queue).op = op
           /\ job = <<>> /\ draft = NoMessage
           /\ UNCHANGED <<at, tmp, arg, todo, draft, errorCb, calls, crashes>>
           /\ CallType'
<1>1. queue # <<>> /\ queue \in Seq(Messages)
  BY DEF Received, TypeInv, TypeOK
<1>2. queue' \in Seq(Messages) /\ Head(queue) \in Messages
  BY <1>1, HeadTailProperties DEF Received
<1>3. UNCHANGED callVars /\ CallType'
  BY DEF Received, callVars, TypeInv, CallType
<1>4. QED
  BY <1>2, <1>3 DEF Received, TypeInv, DraftType, callVars

LEMMA ReinitType ==
    /\ Reinit \in Seq(Items)
    /\ Reinit \o <<"capabilities">> \in Seq(Items)
    /\ Reinit \o <<"agps">> \in Seq(Items)
<1>1. ParamOrder \in Seq(Items) /\ <<"constellation">> \in Seq(Items)
      /\ <<"capabilities">> \in Seq(Items) /\ <<"agps">> \in Seq(Items)
  BY ConstantFacts DEF Items
<1>2. QED
  BY <1>1, ConcatProperties DEF Reinit

LEMMA MessageType ==
    ASSUME TypeInv,
           OpenClient \/ LocEngInit \/ LocEngUp \/ LocEngGnssConstellationConfig
               \/ LocEngSetCapabilities
    PROVE  TypeInv'
<1> USE DEF TypeInv, TypeOK
<1>1. CASE OpenClient
  BY <1>1, ReceivedStep DEF OpenClient, confVars, DraftType
<1>2. CASE LocEngInit
  BY <1>2, ReceivedStep, ReinitType DEF LocEngInit, confVars, DraftType, Items
<1>3. CASE LocEngUp
  BY <1>3, ReceivedStep, ReinitType DEF LocEngUp, confVars, DraftType, Items
<1>4. CASE LocEngGnssConstellationConfig
  <2>1. Received("constellation")
    BY <1>4 DEF LocEngGnssConstellationConfig
  <2>2. gps_conf' \in [Fields -> Values] /\ stale' \subseteq Keys \cup Fields
    BY <1>4, ConfigAssumption DEF LocEngGnssConstellationConfig, Fields
  <2>3. QED
    BY <1>4, <2>1, <2>2, ReceivedStep DEF LocEngGnssConstellationConfig, DraftType
<1>5. CASE LocEngSetCapabilities
  <2>1. Received("capabilities")
    BY <1>5 DEF LocEngSetCapabilities
  <2>2. told' \in Values \cup {None} /\ stale' \subseteq Keys \cup Fields
    BY <1>5 DEF LocEngSetCapabilities, Fields
  <2>3. QED
    BY <1>5, <2>1, <2>2, ReceivedStep DEF LocEngSetCapabilities, confVars, DraftType
<1>6. QED
  BY <1>1, <1>2, <1>3, <1>4, <1>5

LEMMA SetType == ASSUME TypeInv, Set PROVE TypeInv'
<1> USE DEF TypeInv, TypeOK
<1> DEFINE key == Head(queue).key
           value == Head(queue).value
           updated == [modem EXCEPT ![key] = value]
<1>1. Received("set")
  BY DEF Set
<1>2. \/ key \in Params /\ value \in Values
      \/ key \in Servers /\ value \in Address
  BY <1>1, ReceivedStep, SettingMessage
<1>3. key \in Keys
  BY <1>2, ConstantFacts DEF Keys
<1>4. /\ DOMAIN updated = Keys
      /\ \A p \in Params : updated[p] \in Values \cup {None}
      /\ \A t \in Servers : updated[t] \in Address
  BY <1>2, ConstantFacts DEF Keys
<1>5. modem' = updated \/ modem' = modem
  BY DEF Set
<1>6. failed' \subseteq Keys
  BY <1>3 DEF Set
<1>7. refusals' \in Nat
  BY DEF Set, Refused, Accepted
<1> HIDE DEF key, value, updated
<1>8. /\ DOMAIN modem' = Keys
      /\ \A p \in Params : modem'[p] \in Values \cup {None}
      /\ \A t \in Servers : modem'[t] \in Address
  BY <1>4, <1>5
<1>9. UNCHANGED <<confVars, job, conn, told, stale>>
  BY DEF Set
<1>10. QED
  BY <1>1, <1>6, <1>7, <1>8, <1>9, ReceivedStep DEF confVars, DraftType

LEMMA HandlerStep ==
    ASSUME TypeInv, InHandler
    PROVE  /\ job # <<>> /\ Head(job) \in Items /\ Tail(job) \in Seq(Items)
           /\ CallType'
           /\ UNCHANGED <<gps_conf, server_buf, host_set, adapter, agps, at, tmp, arg, todo,
                          conn, errorCb, modem, told, failed, calls, crashes>>
  BY HeadTailProperties
     DEF InHandler, TypeInv, TypeOK, Items, CallType, confVars, callVars, modemVars

LEMMA ComposeType == ASSUME TypeInv, Compose PROVE TypeInv'
<1> USE DEF TypeInv, TypeOK
<1> DEFINE item == Head(job)
<1>1. InHandler /\ draft = NoMessage
  BY DEF Compose
<1>2. item \in Items /\ Tail(job) \in Seq(Items)
  BY <1>1, HandlerStep
<1>3. /\ job' \in Seq(Items) /\ queue' \in Seq(Messages)
      /\ draft' \in Messages \cup {NoMessage} /\ DraftType'
      /\ stale' \subseteq Keys \cup Fields /\ refusals' \in Nat
  <2>1. CASE item \in Params /\ draft' = Setting(item, gps_conf[item])
             /\ UNCHANGED <<queue, job, stale, refusals>>
    <3>1. gps_conf[item] \in Values
      BY <2>1 DEF Fields
    <3>2. draft' \in Messages
      BY <2>1, <3>1, ParamMessage
    <3>3. QED
      BY <1>1, <2>1, <3>2, SettingFields DEF DraftType, InHandler, Keys, Items
  <2>2. CASE item \in {"constellation", "capabilities"} /\ job' = Tail(job)
             /\ queue' = Append(queue, Other(item)) /\ UNCHANGED <<draft, stale, refusals>>
    <3>1. queue' \in Seq(Messages)
      BY <2>2, OtherMessage, AppendProperties DEF Ops
    <3>2. QED
      BY <1>1, <1>2, <2>2, <3>1 DEF DraftType
  <2>3. CASE /\ item = "agps" /\ job' = IF agps THEN ServerOrder ELSE <<>>
             /\ UNCHANGED <<queue, draft, stale, refusals>>
    <3>1. ServerOrder \in Seq(Items) /\ <<>> \in Seq(Items)
      BY ConstantFacts DEF Items, Keys
    <3>2. QED
      BY <1>1, <2>3, <3>1 DEF DraftType
  <2>4. CASE item \in host_set /\ draft' = Setting(item, server_buf[item])
             /\ UNCHANGED <<queue, job, stale>> /\ Accepted
    <3>1. draft' \in Messages
      BY <2>4, ServerMessage
    <3>2. QED
      BY <1>1, <2>4, <3>1, SettingFields DEF DraftType, InHandler, Keys, Items, Accepted
  <2>5. CASE /\ item \in host_set \cap {"c2k"} /\ job' = Tail(job)
             /\ stale' = stale \cup {item} /\ UNCHANGED <<queue, draft>> /\ Refused
    BY <1>1, <1>2, <2>5 DEF DraftType, Refused, Keys
  <2>6. CASE /\ item \in Servers \ host_set /\ job' = Tail(job)
             /\ UNCHANGED <<queue, draft, stale, refusals>>
    BY <1>1, <1>2, <2>6 DEF DraftType
  <2>7. QED
    BY <2>1, <2>2, <2>3, <2>4, <2>5, <2>6 DEF Compose
<1>4. QED
  BY <1>1, <1>3, HandlerStep DEF Items

LEMMA PostDraftType == ASSUME TypeInv, PostDraft PROVE TypeInv'
<1> USE DEF TypeInv, TypeOK
<1>1. InHandler
  BY DEF PostDraft
<1>2. draft \in Messages /\ queue' \in Seq(Messages)
  BY AppendProperties DEF PostDraft
<1>3. draft.key \in Keys
  BY SettingFields DEF PostDraft, DraftType
<1>4. stale' \subseteq Keys \cup Fields /\ DraftType'
  BY <1>3 DEF PostDraft, DraftType
<1>5. QED
  BY <1>1, <1>2, <1>4, HandlerStep DEF PostDraft, Items

LEMMA NextType == ASSUME TypeInv, [Next]_vars PROVE TypeInv'
<1>1. CASE Next
  BY <1>1, FrameworkType, FrameworkGoesOnType, ModemType, MessageType, SetType, ComposeType,
     PostDraftType DEF Next, MsgTask
<1>2. CASE UNCHANGED vars
  BY <1>2 DEF vars, confVars, callVars, taskVars, modemVars, boundVars, TypeInv, TypeOK,
     CallType, DraftType
<1>3. QED
  BY <1>1, <1>2

\* Type correctness: every variable keeps its kind of value, a message is posted only
\* with a value of its key, and the handlers never look into an empty job.
THEOREM TypeCorrect == Spec => []TypeOK
<1>1. Init => TypeInv
  BY InitType
<1>2. TypeInv /\ [Next]_vars => TypeInv'
  BY NextType
<1>3. TypeInv => TypeOK
  BY DEF TypeInv
<1>4. QED
  BY <1>1, <1>2, <1>3, PTL DEF Spec
---------------------------------------------------------------------------
(* The measurements.  Until the bit is known, a message that tells the     *)
(* framework has one before it that adds the bit.                          *)

CAP == "CAPABILITIES"

Known ==
    /\ at # "post" => gps_conf[CAP] = "1"
    /\ at \in {"parse", "post"} => tmp[CAP] = "1"

Has(q, op) == \E i \in DOMAIN q : q[i].op = op

InOrder(q) ==
    \A i \in DOMAIN q : q[i].op = "capabilities" =>
        \E j \in DOMAIN q : j < i /\ q[j].op = "constellation"

ToldInOrder ==
    /\ told = None /\ InOrder(queue)
    /\ "capabilities" \in Range(job) => Has(queue, "constellation") \/ Head(job) = "constellation"

ToldInv ==
    Supported /\ CAP \notin stale => (Known \/ ToldInOrder) /\ told \in {None, "1"}

\* Sequences of messages or items.
LEMMA AppendFacts ==
    ASSUME NEW S, NEW q \in Seq(S), NEW m \in S, NEW a, a = Append(q, m)
    PROVE  /\ a \in Seq(S) /\ Len(q) \in Nat /\ Len(a) = Len(q) + 1
           /\ DOMAIN q = 1 .. Len(q) /\ DOMAIN a = 1 .. Len(q) + 1
           /\ \A i \in DOMAIN q : i \in DOMAIN a /\ a[i] = q[i]
           /\ a[Len(q) + 1] = m /\ Len(q) + 1 \in DOMAIN a
           /\ \A i \in DOMAIN a : i \in DOMAIN q \/ i = Len(q) + 1
<1>1. /\ DOMAIN q = 1 .. Len(q) /\ Len(q) \in Nat /\ Len(a) = Len(q) + 1
      /\ DOMAIN a = 1 .. Len(q) + 1
      /\ \A i \in 1 .. Len(q) : a[i] = q[i]
      /\ a[Len(q) + 1] = m
      /\ a \in Seq(S)
  BY AppendProperties
<1>2. QED
  BY <1>1

LEMMA TailFacts ==
    ASSUME NEW S, NEW q \in Seq(S), q # <<>>, NEW r, r = Tail(q)
    PROVE  /\ r \in Seq(S) /\ Head(q) \in S /\ Head(q) = q[1] /\ 1 \in DOMAIN q
           /\ DOMAIN q = 1 .. Len(q) /\ Len(q) \in Nat \ {0} /\ DOMAIN r = 1 .. Len(q) - 1
           /\ \A i \in DOMAIN q : i # 1 => i - 1 \in DOMAIN r /\ r[i - 1] = q[i]
           /\ \A i \in DOMAIN r : i + 1 \in DOMAIN q /\ r[i] = q[i + 1]
           /\ \A x \in Range(q) : x = Head(q) \/ x \in Range(r)
           /\ Range(r) \subseteq Range(q)
<1>1. /\ DOMAIN q = 1 .. Len(q) /\ Len(q) \in Nat \ {0}
      /\ DOMAIN r = 1 .. Len(q) - 1
      /\ \A i \in 1 .. Len(q) - 1 : r[i] = q[i + 1]
      /\ Head(q) = q[1]
      /\ r \in Seq(S) /\ Head(q) \in S
  BY HeadTailProperties, EmptySeq
<1>2. /\ \A i \in DOMAIN q : i # 1 => i - 1 \in DOMAIN r /\ r[i - 1] = q[i]
      /\ \A i \in DOMAIN r : i + 1 \in DOMAIN q /\ r[i] = q[i + 1]
  BY <1>1
<1>3. ASSUME NEW i \in DOMAIN q PROVE q[i] = Head(q) \/ \E j \in DOMAIN r : r[j] = q[i]
  BY <1>1, <1>2
<1>4. \A x \in Range(q) : x = Head(q) \/ x \in Range(r)
  BY <1>3 DEF Range
<1>5. Range(r) \subseteq Range(q)
  BY <1>2 DEF Range
<1>6. 1 \in DOMAIN q
  BY <1>1
<1>7. QED
  BY <1>1, <1>2, <1>4, <1>5, <1>6

LEMMA InOrderAppend ==
    ASSUME NEW q \in Seq(Messages), NEW m \in Messages, InOrder(q),
           m.op = "capabilities" => Has(q, "constellation")
    PROVE  InOrder(Append(q, m))
<1> DEFINE a == Append(q, m)
<1>1. /\ DOMAIN q = 1 .. Len(q) /\ Len(q) \in Nat /\ DOMAIN a = 1 .. Len(q) + 1
      /\ \A i \in DOMAIN q : i \in DOMAIN a /\ a[i] = q[i]
      /\ a[Len(q) + 1] = m
  BY AppendFacts
<1> HIDE DEF a
<1>2. SUFFICES ASSUME NEW i \in DOMAIN a, a[i].op = "capabilities"
               PROVE  \E j \in DOMAIN a : j < i /\ a[j].op = "constellation"
  BY DEF InOrder, a
<1>3. CASE i \in DOMAIN q
  BY <1>1, <1>2, <1>3 DEF InOrder
<1>4. CASE i = Len(q) + 1
  BY <1>1, <1>2, <1>4 DEF Has
<1>5. QED
  BY <1>1, <1>3, <1>4

LEMMA HasAppend ==
    ASSUME NEW q \in Seq(Messages), NEW m \in Messages
    PROVE  /\ \A op : Has(q, op) => Has(Append(q, m), op)
           /\ Has(Append(q, m), m.op)
<1> DEFINE a == Append(q, m)
<1>1. /\ \A i \in DOMAIN q : i \in DOMAIN a /\ a[i] = q[i]
      /\ a[Len(q) + 1] = m /\ Len(q) + 1 \in DOMAIN a
  BY AppendFacts
<1> HIDE DEF a
<1>2. QED
  BY <1>1 DEF Has, a

LEMMA InOrderTail ==
    ASSUME NEW q \in Seq(Messages), q # <<>>, InOrder(q)
    PROVE  /\ Head(q).op # "capabilities"
           /\ Head(q).op # "constellation" => InOrder(Tail(q))
<1> DEFINE r == Tail(q)
<1>1. /\ Head(q) = q[1] /\ 1 \in DOMAIN q
      /\ DOMAIN q = 1 .. Len(q) /\ Len(q) \in Nat \ {0} /\ DOMAIN r = 1 .. Len(q) - 1
      /\ \A i \in DOMAIN q : i # 1 => i - 1 \in DOMAIN r /\ r[i - 1] = q[i]
      /\ \A i \in DOMAIN r : i + 1 \in DOMAIN q /\ r[i] = q[i + 1]
  BY TailFacts
<1> HIDE DEF r
<1>2. Head(q).op # "capabilities"
  BY <1>1 DEF InOrder
<1>3. ASSUME Head(q).op # "constellation", NEW i \in DOMAIN r, r[i].op = "capabilities"
      PROVE  \E j \in DOMAIN r : j < i /\ r[j].op = "constellation"
  <2>1. PICK j \in DOMAIN q : j < i + 1 /\ q[j].op = "constellation"
    BY <1>1, <1>3 DEF InOrder
  <2>2. j # 1
    BY <1>1, <1>3, <2>1
  <2>3. j - 1 \in DOMAIN r /\ r[j - 1].op = "constellation" /\ j - 1 < i
    BY <1>1, <2>1, <2>2
  <2>4. QED
    BY <2>3
<1>4. QED
  BY <1>2, <1>3 DEF InOrder, r

LEMMA HasTail ==
    ASSUME NEW q \in Seq(Messages), q # <<>>, NEW op, Has(q, op), Head(q).op # op
    PROVE  Has(Tail(q), op)
<1> DEFINE r == Tail(q)
<1>1. /\ Head(q) = q[1]
      /\ \A i \in DOMAIN q : i # 1 => i - 1 \in DOMAIN r /\ r[i - 1] = q[i]
  BY TailFacts
<1> HIDE DEF r
<1>2. QED
  BY <1>1 DEF Has, r

LEMMA ReinitItems ==
    /\ Head(Reinit \o <<"capabilities">>) = "constellation"
    /\ "capabilities" \notin Range(Reinit \o <<"agps">>)
    /\ \A p \in Params : /\ p \in Range(Reinit \o <<"capabilities">>)
                         /\ p \in Range(Reinit \o <<"agps">>)
    /\ "agps" \in Range(Reinit \o <<"agps">>)
    /\ "agps" \notin Range(Reinit \o <<"capabilities">>)
    /\ \A i \in DOMAIN (Reinit \o <<"agps">>) :
          (Reinit \o <<"agps">>)[i] = "agps" => i = Len(Reinit \o <<"agps">>)
<1> DEFINE n == Len(ParamOrder)
<1>1. ParamOrder \in Seq(Params) /\ n \in Nat /\ DOMAIN ParamOrder = 1 .. n
  BY ConstantFacts, LenProperties
<1>2. Params \cap {"constellation", "capabilities", "agps"} = {}
  BY ConfigAssumption
<1>3. ASSUME NEW x
      PROVE  /\ DOMAIN (Reinit \o <<x>>) = 1 .. n + 2 /\ Len(Reinit \o <<x>>) = n + 2
             /\ (Reinit \o <<x>>)[1] = "constellation" /\ (Reinit \o <<x>>)[n + 2] = x
             /\ \A i \in 1 .. n : (Reinit \o <<x>>)[i + 1] = ParamOrder[i]
  BY <1>1 DEF Reinit
<1>4. ASSUME NEW x
      PROVE  Range(Reinit \o <<x>>) = {"constellation", x} \cup Params
  <2> DEFINE s == Reinit \o <<x>>
  <2>1. /\ DOMAIN s = 1 .. n + 2 /\ s[1] = "constellation" /\ s[n + 2] = x
        /\ \A i \in 1 .. n : s[i + 1] = ParamOrder[i]
    BY <1>3
  <2> HIDE DEF s
  <2>2. \A i \in 1 .. n + 2 : i = 1 \/ i = n + 2 \/ (i - 1 \in 1 .. n /\ s[i] = ParamOrder[i - 1])
    BY <1>1, <2>1
  <2>3. \A i \in 1 .. n : i + 1 \in DOMAIN s /\ s[i + 1] = ParamOrder[i]
    BY <1>1, <2>1
  <2>4. 1 \in DOMAIN s /\ n + 2 \in DOMAIN s
    BY <1>1, <2>1
  <2>5. Params = {ParamOrder[i] : i \in 1 .. n}
    BY <1>1 DEF Params, Range
  <2>6. ASSUME NEW y \in Range(s) PROVE y \in {"constellation", x} \cup Params
    <3>1. PICK i \in DOMAIN s : y = s[i]
      BY DEF Range
    <3>2. i = 1 \/ i = n + 2 \/ (i - 1 \in 1 .. n /\ s[i] = ParamOrder[i - 1])
      BY <2>1, <2>2
    <3>3. QED
      BY <2>1, <2>5, <3>1, <3>2
  <2>7. ASSUME NEW y \in {"constellation", x} \cup Params PROVE y \in Range(s)
    <3>1. CASE y \in Params
      <4>1. PICK i \in 1 .. n : y = ParamOrder[i]
        BY <2>5, <3>1
      <4>2. i + 1 \in DOMAIN s /\ s[i + 1] = y
        BY <2>3, <4>1
      <4>3. QED
        BY <4>2 DEF Range
    <3>2. CASE y \in {"constellation", x}
      BY <2>1, <2>4, <3>2 DEF Range
    <3>3. QED
      BY <2>7, <3>1, <3>2
  <2>8. QED
    BY <2>6, <2>7 DEF s
<1>5. \A i \in 1 .. n + 2 : (Reinit \o <<"agps">>)[i] = "agps" => i = n + 2
  <2> DEFINE s == Reinit \o <<"agps">>
  <2>1. /\ s[1] = "constellation" /\ \A i \in 1 .. n : s[i + 1] = ParamOrder[i]
    BY <1>3
  <2> HIDE DEF s
  <2>2. \A i \in 1 .. n + 2 : i = 1 \/ i = n + 2 \/ (i - 1 \in 1 .. n /\ s[i] = ParamOrder[i - 1])
    BY <1>1, <2>1
  <2>3. \A i \in 1 .. n : ParamOrder[i] \in Params
    BY <1>1
  <2>4. QED
    BY <1>2, <2>1, <2>2, <2>3 DEF s
<1>6. Head(Reinit \o <<"capabilities">>) = "constellation"
  BY <1>3 DEF Reinit
<1>7. QED
  BY <1>2, <1>3, <1>4, <1>5, <1>6

\* Before HAL is there, nothing has been posted.
NotYet ==
    /\ ~ adapter =>
          conn = "none" /\ queue = <<>> /\ job = <<>> /\ ~ errorCb /\ ~ agps
    /\ at = "agps" => adapter

LEMMA NotYetStep == ASSUME TypeInv, NotYet, [Next]_vars PROVE NotYet'
<1> USE DEF NotYet
<1>1. CASE Framework
  BY <1>1 DEF Framework, loc_eng_init, loc_eng_configuration_update, loc_eng_set_server_proxy,
     loc_eng_agps_init, Call, taskVars, modemVars, callVars, confVars
<1>2. CASE FrameworkGoesOn
  <2>1. UNCHANGED <<job, conn, errorCb, adapter, agps>>
    BY <1>2 DEF FrameworkGoesOn, ParseConfig, PostChange, RestoreConfig, SetPort, SendServer,
       AgpsReinit, Continue, taskVars, modemVars, confVars
  <2>2. ~ adapter => UNCHANGED queue
    BY <1>2 DEF FrameworkGoesOn, ParseConfig, PostChange, RestoreConfig, SetPort, SendServer,
       AgpsReinit, Continue
  <2>3. at' = "agps" => at = "agps"
    BY <1>2 DEF FrameworkGoesOn, ParseConfig, PostChange, RestoreConfig, SetPort, SendServer,
       AgpsReinit, Continue, confVars
  <2>4. QED
    BY <2>1, <2>2, <2>3
<1>3. CASE ServiceDown
  BY <1>3 DEF ServiceDown, confVars, callVars, taskVars
<1>4. CASE locClientErrorCb
  <2>1. errorCb /\ UNCHANGED <<adapter, at>>
    BY <1>4 DEF locClientErrorCb, confVars, callVars
  <2>2. QED
    BY <2>1
<1>5. CASE MsgTask
  <2>1. queue # <<>> \/ job # <<>>
    BY <1>5 DEF MsgTask, OpenClient, LocEngInit, LocEngUp, Compose, PostDraft, Set,
       LocEngGnssConstellationConfig, LocEngSetCapabilities, Received, InHandler
  <2>2. UNCHANGED <<adapter, at>>
    BY <1>5 DEF MsgTask, OpenClient, LocEngInit, LocEngUp, Compose, PostDraft, Set,
       LocEngGnssConstellationConfig, LocEngSetCapabilities, Received, InHandler,
       confVars, callVars
  <2>3. QED
    BY <2>1, <2>2
<1>6. CASE UNCHANGED vars
  BY <1>6 DEF vars, confVars, callVars, taskVars, modemVars
<1>7. QED
  BY <1>1, <1>2, <1>3, <1>4, <1>5, <1>6 DEF Next

LEMMA ToldFrame ==
    ASSUME ToldInv, CAP \in stale => CAP \in stale', told' = told,
           Known => Known', ToldInOrder => Known' \/ ToldInOrder'
    PROVE  ToldInv'
  BY DEF ToldInv

\* A message that tells nothing is posted.
LEMMA ToldAppend ==
    ASSUME TypeInv, ToldInOrder, NEW m \in Messages, m.op # "capabilities",
           queue' = Append(queue, m), UNCHANGED <<job, told>>
    PROVE  ToldInOrder'
<1>1. queue \in Seq(Messages)
  BY DEF TypeInv, TypeOK
<1>2. InOrder(queue')
  BY <1>1, InOrderAppend DEF ToldInOrder
<1>3. Has(queue, "constellation") => Has(queue', "constellation")
  BY <1>1, HasAppend
<1>4. QED
  BY <1>2, <1>3 DEF ToldInOrder

LEMMA CapFacts == CAP \in Fields /\ CAP \notin Keys /\ CAP \notin Carrier
  BY ConstantFacts DEF CAP, Fields

LEMMA ToldFramework == ASSUME TypeInv, NotYet, ToldInv, Framework PROVE ToldInv'
<1>1. CASE loc_eng_init
  <2>1. UNCHANGED <<at, tmp, gps_conf, told, job, stale>> /\ job = <<>>
    BY <1>1 DEF loc_eng_init, Call, taskVars, modemVars, callVars, NotYet
  <2> DEFINE q == <<Other("open"), Other("init")>>
  <2>2. DOMAIN q = {1, 2} /\ q[1].op # "capabilities" /\ q[2].op # "capabilities"
    BY DEF Other
  <2>3. queue' = q
    BY <1>1 DEF loc_eng_init
  <2> HIDE DEF q
  <2>4. InOrder(queue')
    BY <2>2, <2>3 DEF InOrder
  <2>5. QED
    BY <2>1, <2>4, ToldFrame DEF Known, ToldInOrder, Range
<1>2. CASE ~ loc_eng_init
  <2>1. UNCHANGED <<gps_conf, told, job, stale, queue>> /\ at = "idle" /\ at' # "post"
    BY <1>2 DEF Framework, loc_eng_configuration_update, loc_eng_set_server_proxy,
       loc_eng_agps_init, Call, taskVars, modemVars, confVars
  <2>2. at' = "parse" => tmp' = gps_conf
    BY <1>2 DEF Framework, loc_eng_configuration_update, loc_eng_set_server_proxy,
       loc_eng_agps_init, Call
  <2>3. QED
    BY <2>1, <2>2, ToldFrame DEF Known, ToldInOrder
<1>3. QED
  BY <1>1, <1>2

LEMMA ToldSetServer ==
    ASSUME TypeInv, NEW t \in Servers, NEW a \in Address, SetServer(t, a),
           UNCHANGED <<job, told>>
    PROVE  /\ CAP \in stale => CAP \in stale'
           /\ ToldInOrder => ToldInOrder'
<1>1. CASE queue' = Append(queue, Setting(t, a)) /\ stale' = stale \ {t}
  <2>1. t # CAP
    BY CapFacts DEF Keys
  <2>2. QED
    BY <1>1, <2>1, ServerMessage, SettingFields, ToldAppend
<1>2. CASE stale' = stale \cup {t} /\ UNCHANGED queue
  BY <1>2 DEF ToldInOrder
<1>3. QED
  BY <1>1, <1>2 DEF SetServer

LEMMA ToldGoesOn == ASSUME TypeInv, ToldInv, FrameworkGoesOn PROVE ToldInv'
<1>1. CASE ParseConfig
  <2>1. at = "parse" /\ at' = "post" /\ UNCHANGED <<tmp, told, job, stale, queue>>
    BY <1>1 DEF ParseConfig, Continue, taskVars, modemVars
  <2>2. QED
    BY <2>1, ToldFrame DEF Known, ToldInOrder
<1>2. CASE PostChange
  <2>1. at = "post" /\ UNCHANGED <<at, tmp, gps_conf, told, job>> /\ todo # <<>>
    BY <1>2 DEF PostChange, Continue, taskVars, modemVars, confVars
  <2> DEFINE p == Head(todo)
  <2>2. p \in Params /\ p # CAP /\ gps_conf[p] \in Values
    <3>1. todo \in Seq(Params)
      BY <2>1 DEF TypeInv, CallType
    <3>2. p \in Params
      BY <2>1, <3>1, HeadTailProperties
    <3>3. QED
      BY <3>2, CapFacts DEF Keys, TypeInv, TypeOK, Fields
  <2>3. CASE queue' = Append(queue, Setting(p, gps_conf[p])) /\ stale' = stale \ {p}
    <3>1. ToldInOrder => ToldInOrder'
      BY <2>1, <2>2, <2>3, ParamMessage, SettingFields, ToldAppend
    <3>2. QED
      BY <2>1, <2>2, <2>3, <3>1, ToldFrame DEF Known
  <2>4. CASE UNCHANGED <<queue, stale>>
    BY <2>1, <2>4, ToldFrame DEF Known, ToldInOrder
  <2>5. QED
    BY <1>2, <2>3, <2>4 DEF PostChange
<1>3. CASE RestoreConfig
  <2>1. at = "post" /\ at' = "idle" /\ UNCHANGED <<told, job, stale, queue>>
    BY <1>3 DEF RestoreConfig, Continue, taskVars, modemVars
  <2>2. gps_conf'[CAP] = tmp[CAP]
    BY <1>3, CapFacts DEF RestoreConfig, Restored
  <2>3. QED
    BY <2>1, <2>2, ToldFrame DEF Known, ToldInOrder
<1>4. CASE SetPort
  <2>1. at = "port" /\ at' = "send" /\ UNCHANGED <<gps_conf, told, job, stale, queue>>
    BY <1>4 DEF SetPort, Continue, taskVars, modemVars
  <2>2. QED
    BY <2>1, ToldFrame DEF Known, ToldInOrder
<1>5. CASE SendServer
  <2>1. at = "send" /\ at' = "idle" /\ UNCHANGED <<gps_conf, told, job>>
    BY <1>5 DEF SendServer, Continue, taskVars, modemVars, confVars
  <2>2. /\ CAP \in stale => CAP \in stale'
        /\ ToldInOrder => ToldInOrder'
    <3>1. arg.type \in Servers /\ arg.address \in Address
      BY <2>1 DEF TypeInv, CallType
    <3>2. CASE SetServer(arg.type, arg.address)
      BY <2>1, <3>1, <3>2, ToldSetServer
    <3>3. CASE UNCHANGED <<queue, stale>>
      BY <2>1, <3>3 DEF ToldInOrder
    <3>4. QED
      BY <1>5, <3>2, <3>3 DEF SendServer
  <2>3. QED
    BY <2>1, <2>2, ToldFrame DEF Known
<1>6. CASE AgpsReinit
  <2>1. at = "agps" /\ at' \in {"idle", "agps"} /\ UNCHANGED <<gps_conf, told, job>>
    BY <1>6 DEF AgpsReinit, Continue, taskVars, modemVars, confVars
  <2>2. /\ CAP \in stale => CAP \in stale'
        /\ ToldInOrder => ToldInOrder'
    <3> DEFINE t == Head(todo)
    <3>1. t \in Servers /\ server_buf[t] \in Address
      <4>1. todo \in Seq(Servers) /\ todo # <<>>
        BY <2>1 DEF TypeInv, CallType
      <4>2. t \in Servers
        BY <4>1, HeadTailProperties
      <4>3. QED
        BY <4>2 DEF TypeInv, TypeOK
    <3>2. CASE SetServer(t, server_buf[t])
      BY <2>1, <3>1, <3>2, ToldSetServer
    <3>3. CASE UNCHANGED <<queue, stale>>
      BY <2>1, <3>3 DEF ToldInOrder
    <3>4. QED
      BY <1>6, <3>2, <3>3 DEF AgpsReinit
  <2>3. QED
    BY <2>1, <2>2, ToldFrame DEF Known
<1>7. QED
  BY <1>1, <1>2, <1>3, <1>4, <1>5, <1>6 DEF FrameworkGoesOn

LEMMA ToldModem == ASSUME TypeInv, ToldInv, ServiceDown \/ locClientErrorCb PROVE ToldInv'
<1>1. UNCHANGED <<gps_conf, tmp, at, told, job, stale>>
  BY DEF ServiceDown, locClientErrorCb, confVars, callVars, taskVars
<1>2. CASE ServiceDown
  <2>1. UNCHANGED queue
    BY <1>2 DEF ServiceDown
  <2>2. QED
    BY <1>1, <2>1, ToldFrame DEF Known, ToldInOrder
<1>3. CASE locClientErrorCb
  <2> DEFINE posted == <<Other("ssr"), Other("up")>>
             once == Append(queue, Other("ssr"))
  <2>1. queue' = queue \o posted /\ posted = <<Other("ssr"), Other("up")>>
    BY <1>3 DEF locClientErrorCb
  <2>2. queue \in Seq(Messages) /\ Other("ssr") \in Messages /\ Other("up") \in Messages
        /\ Other("ssr").op = "ssr" /\ Other("up").op = "up"
    BY OtherMessage DEF Ops, TypeInv, TypeOK
  <2>3. queue' = Append(once, Other("up"))
    BY <2>1, <2>2
  <2>4. once \in Seq(Messages)
    BY <2>2, AppendProperties
  <2> HIDE DEF posted, once
  <2>5. ToldInOrder => InOrder(once)
    BY <2>2, InOrderAppend DEF ToldInOrder, once
  <2>6. InOrder(once) => InOrder(queue')
    BY <2>2, <2>3, <2>4, InOrderAppend
  <2>7. Has(queue, "constellation") => Has(queue', "constellation")
    BY <2>2, <2>3, <2>4, HasAppend DEF once
  <2>8. QED
    BY <1>1, <2>5, <2>6, <2>7, ToldFrame DEF Known, ToldInOrder
<1>4. QED
  BY <1>2, <1>3

\* A message is taken; its handler leaves the bit alone.
LEMMA ToldReceived ==
    ASSUME TypeInv, ToldInv, NEW op, Received(op), op # "constellation", op # "capabilities",
           UNCHANGED <<gps_conf, told, stale>>,
           "capabilities" \in Range(job') => Head(job') = "constellation"
    PROVE  ToldInv'
<1>1. queue \in Seq(Messages) /\ queue # <<>> /\ queue' = Tail(queue) /\ Head(queue).op = op
      /\ UNCHANGED <<at, tmp>>
  BY DEF TypeInv, TypeOK, Received, callVars
<1>2. InOrder(queue) => InOrder(queue')
  BY <1>1, InOrderTail
<1>3. QED
  BY <1>1, <1>2, ToldFrame DEF Known, ToldInOrder

LEMMA ToldMessage ==
    ASSUME TypeInv, ToldInv, OpenClient \/ LocEngInit \/ LocEngUp \/ Set
    PROVE  ToldInv'
<1>1. CASE OpenClient
  <2>1. UNCHANGED <<gps_conf, told, stale, job>> /\ (Received("open") \/ Received("ssr"))
    BY <1>1 DEF OpenClient, confVars
  <2>2. job' = <<>>
    BY <2>1 DEF Received
  <2>3. QED
    BY <2>1, <2>2, ToldReceived DEF Range
<1>2. CASE LocEngInit
  <2>1. /\ UNCHANGED <<gps_conf, told, stale>> /\ Received("init")
        /\ job' = Reinit \o <<"capabilities">>
    BY <1>2 DEF LocEngInit, confVars
  <2>2. Head(job') = "constellation"
    BY <2>1, ReinitItems
  <2>3. QED
    BY <2>1, <2>2, ToldReceived
<1>3. CASE LocEngUp
  <2>1. UNCHANGED <<gps_conf, told, stale>> /\ Received("up") /\ job' = Reinit \o <<"agps">>
    BY <1>3 DEF LocEngUp, confVars
  <2>2. "capabilities" \notin Range(job')
    BY <2>1, ReinitItems
  <2>3. QED
    BY <2>1, <2>2, ToldReceived
<1>4. CASE Set
  <2>1. UNCHANGED <<gps_conf, told, stale, job>> /\ Received("set")
    BY <1>4 DEF Set, confVars
  <2>2. job' = <<>>
    BY <2>1 DEF Received
  <2>3. QED
    BY <2>1, <2>2, ToldReceived DEF Range
<1>5. QED
  BY <1>1, <1>2, <1>3, <1>4

LEMMA ToldConstellation ==
    ASSUME TypeInv, ToldInv, LocEngGnssConstellationConfig
    PROVE  ToldInv'
<1>1. /\ queue \in Seq(Messages) /\ queue # <<>> /\ queue' = Tail(queue)
      /\ Head(queue).op = "constellation" /\ UNCHANGED <<at, tmp, told, job>>
  BY DEF LocEngGnssConstellationConfig, TypeInv, TypeOK, Received, callVars
<1>2. CASE Supported
  <2>1. gps_conf'[CAP] = "1"
    BY <1>2, CapFacts DEF LocEngGnssConstellationConfig, CAP, TypeInv, TypeOK
  <2>2. CAP \notin stale' => CAP \notin stale /\ (at \in {"parse", "post"} => tmp[CAP] = "1")
    BY <1>2 DEF LocEngGnssConstellationConfig, CAP
  <2>3. QED
    BY <1>1, <2>1, <2>2 DEF ToldInv, Known
<1>3. CASE ~ Supported
  BY <1>3 DEF ToldInv
<1>4. QED
  BY <1>2, <1>3

LEMMA ToldCapabilities == ASSUME TypeInv, ToldInv, LocEngSetCapabilities PROVE ToldInv'
<1>1. /\ queue \in Seq(Messages) /\ queue # <<>> /\ queue' = Tail(queue)
      /\ Head(queue).op = "capabilities" /\ UNCHANGED <<at, tmp, gps_conf, job>>
  BY DEF LocEngSetCapabilities, TypeInv, TypeOK, Received, callVars, confVars
<1>2. ~ InOrder(queue)
  BY <1>1, InOrderTail
<1>3. CAP \notin stale' => CAP \notin stale /\ told' = Current(CAP)
  BY DEF LocEngSetCapabilities, CAP
<1>4. Known => Current(CAP) = "1"
  BY CapFacts DEF Known, Current, Restored, Keys
<1>5. QED
  BY <1>1, <1>2, <1>3, <1>4 DEF ToldInv, ToldInOrder, Known

LEMMA ToldCompose == ASSUME TypeInv, ToldInv, Compose PROVE ToldInv'
<1> DEFINE item == Head(job)
<1>1. /\ UNCHANGED <<at, tmp, gps_conf, told>> /\ item \in Items /\ job # <<>>
      /\ job \in Seq(Items) /\ queue \in Seq(Messages)
  BY HandlerStep DEF Compose, TypeInv, TypeOK, Items
<1>2. Known => Known'
  BY <1>1 DEF Known
<1>3. \A x \in Range(Tail(job)) : x \in Range(job)
  BY <1>1, TailFacts
<1>4. CASE UNCHANGED <<queue, job, stale>>
  BY <1>1, <1>2, <1>4, ToldFrame DEF ToldInOrder
<1>5. CASE item = "constellation" /\ queue' = Append(queue, Other(item)) /\ job' = Tail(job)
           /\ UNCHANGED stale
  <2>1. Other(item) \in Messages /\ Other(item).op = "constellation"
    BY <1>5, OtherMessage DEF Ops
  <2>2. Has(queue', "constellation") /\ (InOrder(queue) => InOrder(queue'))
    BY <1>1, <1>5, <2>1, HasAppend, InOrderAppend
  <2>3. QED
    BY <1>1, <1>2, <1>5, <2>2, ToldFrame DEF ToldInOrder
<1>6. CASE item = "capabilities" /\ queue' = Append(queue, Other(item)) /\ job' = Tail(job)
           /\ UNCHANGED stale
  <2>1. Other(item) \in Messages
    BY <1>6, OtherMessage DEF Ops
  <2>2. item \in Range(job)
    BY <1>1, TailFacts DEF Range
  <2>3. ToldInOrder => Has(queue, "constellation")
    BY <1>6, <2>2 DEF ToldInOrder
  <2>4. ToldInOrder => InOrder(queue') /\ Has(queue', "constellation")
    BY <1>1, <1>6, <2>1, <2>3, HasAppend, InOrderAppend DEF ToldInOrder
  <2>5. QED
    BY <1>1, <1>2, <1>6, <2>4, ToldFrame DEF ToldInOrder
<1>7. CASE item = "agps" /\ job' = (IF agps THEN ServerOrder ELSE <<>>)
           /\ UNCHANGED <<queue, stale>>
  <2>1. "capabilities" \notin Range(job')
    BY <1>7, ConstantFacts DEF Range, ServerOrder
  <2>2. QED
    BY <1>1, <1>2, <1>7, <2>1, ToldFrame DEF ToldInOrder
<1>8. CASE item \in Servers /\ job' = Tail(job) /\ UNCHANGED queue
           /\ stale' \in {stale, stale \cup {item}}
  <2>1. item # "constellation"
    BY <1>8, ConstantFacts
  <2>2. QED
    BY <1>1, <1>2, <1>3, <1>8, <2>1, ToldFrame DEF ToldInOrder
<1>9. host_set \subseteq Servers
  BY DEF TypeInv, TypeOK
<1>10. QED
  BY <1>4, <1>5, <1>6, <1>7, <1>8, <1>9 DEF Compose

LEMMA ToldPost == ASSUME TypeInv, ToldInv, PostDraft PROVE ToldInv'
<1>1. /\ UNCHANGED <<at, tmp, gps_conf, told>> /\ job # <<>>
      /\ job \in Seq(Items) /\ queue \in Seq(Messages) /\ queue' = Append(queue, draft)
      /\ job' = Tail(job) /\ draft \in Messages
  BY HandlerStep DEF PostDraft, TypeInv, TypeOK, Items
<1>2. draft.op = "set" /\ draft.key \in Keys /\ Head(job) \in Keys
  BY SettingFields DEF PostDraft, TypeInv, DraftType
<1>3. Known => Known'
  BY <1>1 DEF Known
<1>4. \A x \in Range(Tail(job)) : x \in Range(job)
  BY <1>1, TailFacts
<1>5. CAP \in stale => CAP \in stale'
  BY <1>2, CapFacts DEF PostDraft
<1>6. /\ InOrder(queue) => InOrder(queue')
      /\ Has(queue, "constellation") => Has(queue', "constellation")
  BY <1>1, <1>2, InOrderAppend, HasAppend
<1>7. Head(job) # "constellation"
  BY <1>2, ConstantFacts
<1>8. QED
  BY <1>1, <1>3, <1>4, <1>5, <1>6, <1>7, ToldFrame DEF ToldInOrder

LEMMA ToldStep == ASSUME TypeInv, NotYet, ToldInv, [Next]_vars PROVE ToldInv'
<1>1. CASE Next
  BY <1>1, ToldFramework, ToldGoesOn, ToldModem, ToldMessage, ToldConstellation,
     ToldCapabilities, ToldCompose, ToldPost DEF Next, MsgTask
<1>2. CASE UNCHANGED vars
  BY <1>2 DEF vars, confVars, callVars, taskVars, modemVars, ToldInv, Known, ToldInOrder
<1>3. QED
  BY <1>1, <1>2

\* The framework is told of the measurements: the message that tells it is behind the
\* one that adds the bit, and no configuration update takes the bit away unnoticed.
THEOREM MeasurementsAreTold == Spec => []MeasurementsTold
<1>1. Init => TypeInv /\ NotYet /\ ToldInv
  BY InitType DEF Init, NotYet, ToldInv, ToldInOrder, InOrder, Range
<1>2. TypeInv /\ NotYet /\ ToldInv /\ [Next]_vars => (TypeInv /\ NotYet /\ ToldInv)'
  BY NextType, NotYetStep, ToldStep
<1>3. ToldInv => MeasurementsTold
  BY DEF ToldInv, MeasurementsTold, CAP, None
<1>4. QED
  BY <1>1, <1>2, <1>3, PTL DEF Spec
---------------------------------------------------------------------------
(* The connection.  Of the messages that open the client there is one at   *)
(* most, and what it opens is told everything after it.                    *)

Opens == {"open", "ssr"}
NoOpen(q) == \A i \in DOMAIN q : q[i].op \notin Opens

Reopening(q) ==
    \E i \in DOMAIN q :
        /\ q[i].op = "ssr" \/ (q[i].op = "open" /\ i = 1)
        /\ \A j \in DOMAIN q : j # i => q[j].op \notin Opens
        /\ \E j \in DOMAIN q :
              j > i /\ (q[j].op = "up" \/ (q[j].op = "init" /\ q[i].op = "open"))

ConnInv ==
    /\ errorCb => conn = "dead"
    /\ conn = "live" \/ errorCb => NoOpen(queue)
    /\ conn # "live" /\ adapter /\ ~ errorCb => Reopening(queue)

LEMMA OpenAppend ==
    ASSUME NEW q \in Seq(Messages), NEW m \in Messages, m.op \notin Opens
    PROVE  /\ NoOpen(q) => NoOpen(Append(q, m))
           /\ Reopening(q) => Reopening(Append(q, m))
<1> DEFINE a == Append(q, m)
<1>1. /\ DOMAIN q = 1 .. Len(q) /\ Len(q) \in Nat /\ DOMAIN a = 1 .. Len(q) + 1
      /\ \A i \in DOMAIN q : i \in DOMAIN a /\ a[i] = q[i]
      /\ a[Len(q) + 1] = m
      /\ \A i \in DOMAIN a : i \in DOMAIN q \/ i = Len(q) + 1
  BY AppendFacts
<1> HIDE DEF a
<1>2. NoOpen(q) => NoOpen(a)
  BY <1>1 DEF NoOpen
<1>3. ASSUME Reopening(q) PROVE Reopening(a)
  <2>1. PICK i \in DOMAIN q :
        /\ q[i].op = "ssr" \/ (q[i].op = "open" /\ i = 1)
        /\ \A j \in DOMAIN q : j # i => q[j].op \notin Opens
        /\ \E j \in DOMAIN q :
              j > i /\ (q[j].op = "up" \/ (q[j].op = "init" /\ q[i].op = "open"))
    BY <1>3 DEF Reopening
  <2>2. i \in DOMAIN a /\ a[i] = q[i]
    BY <1>1
  <2>3. \A j \in DOMAIN a : j # i => a[j].op \notin Opens
    BY <1>1, <2>1
  <2>4. \E j \in DOMAIN a :
           j > i /\ (a[j].op = "up" \/ (a[j].op = "init" /\ a[i].op = "open"))
    BY <1>1, <2>1, <2>2
  <2>5. QED
    BY <2>1, <2>2, <2>3, <2>4 DEF Reopening
<1>4. QED
  BY <1>2, <1>3 DEF a

LEMMA OpenTail ==
    ASSUME NEW q \in Seq(Messages), q # <<>>
    PROVE  /\ NoOpen(q) => NoOpen(Tail(q)) /\ Head(q).op \notin Opens
           /\ Reopening(q) /\ Head(q).op \notin Opens =>
                 Reopening(Tail(q)) /\ Has(Tail(q), "up")
           /\ Reopening(q) /\ Head(q).op \in Opens => NoOpen(Tail(q))
<1> DEFINE r == Tail(q)
<1>1. /\ Head(q) = q[1] /\ 1 \in DOMAIN q
      /\ DOMAIN q = 1 .. Len(q) /\ Len(q) \in Nat \ {0} /\ DOMAIN r = 1 .. Len(q) - 1
      /\ \A i \in DOMAIN q : i # 1 => i - 1 \in DOMAIN r /\ r[i - 1] = q[i]
      /\ \A i \in DOMAIN r : i + 1 \in DOMAIN q /\ r[i] = q[i + 1]
  BY TailFacts
<1> HIDE DEF r
<1>2. NoOpen(q) => NoOpen(r) /\ Head(q).op \notin Opens
  BY <1>1 DEF NoOpen
<1>3. ASSUME Reopening(q)
      PROVE  /\ Head(q).op \notin Opens => Reopening(r) /\ Has(r, "up")
             /\ Head(q).op \in Opens => NoOpen(r)
  <2>1. PICK i \in DOMAIN q :
        /\ q[i].op = "ssr" \/ (q[i].op = "open" /\ i = 1)
        /\ \A j \in DOMAIN q : j # i => q[j].op \notin Opens
        /\ \E j \in DOMAIN q :
              j > i /\ (q[j].op = "up" \/ (q[j].op = "init" /\ q[i].op = "open"))
    BY <1>3 DEF Reopening
  <2>2. ASSUME Head(q).op \notin Opens PROVE Reopening(r) /\ Has(r, "up")
    <3>1. i # 1 /\ q[i].op = "ssr"
      BY <1>1, <2>1, <2>2 DEF Opens
    <3>2. PICK j \in DOMAIN q : j > i /\ q[j].op = "up"
      BY <2>1, <3>1
    <3>3. /\ i - 1 \in DOMAIN r /\ r[i - 1].op = "ssr"
          /\ j - 1 \in DOMAIN r /\ r[j - 1].op = "up" /\ j - 1 > i - 1
      BY <1>1, <3>1, <3>2
    <3>4. \A n \in DOMAIN r : n # i - 1 => r[n].op \notin Opens
      BY <1>1, <2>1
    <3>5. QED
      BY <3>3, <3>4 DEF Reopening, Has
  <2>3. ASSUME Head(q).op \in Opens PROVE NoOpen(r)
    <3>1. i = 1
      BY <1>1, <2>1, <2>3
    <3>2. QED
      BY <1>1, <2>1, <3>1 DEF NoOpen
  <2>4. QED
    BY <2>2, <2>3
<1>4. QED
  BY <1>2, <1>3 DEF r

LEMMA ConnAppend ==
    ASSUME TypeInv, ConnInv, NEW m \in Messages, m.op \notin Opens,
           queue' = Append(queue, m), UNCHANGED <<conn, errorCb, adapter>>
    PROVE  ConnInv'
<1>1. queue \in Seq(Messages)
  BY DEF TypeInv, TypeOK
<1>2. /\ NoOpen(queue) => NoOpen(queue')
      /\ Reopening(queue) => Reopening(queue')
  BY <1>1, OpenAppend
<1>3. QED
  BY <1>2 DEF ConnInv

LEMMA ConnSetServer ==
    ASSUME TypeInv, ConnInv, NEW t \in Servers, NEW a \in Address, SetServer(t, a),
           UNCHANGED <<conn, errorCb, adapter>>
    PROVE  ConnInv'
<1>1. CASE queue' = Append(queue, Setting(t, a))
  BY <1>1, ServerMessage, SettingFields, ConnAppend DEF Opens
<1>2. CASE UNCHANGED queue
  BY <1>2 DEF ConnInv
<1>3. QED
  BY <1>1, <1>2 DEF SetServer

LEMMA ConnFramework ==
    ASSUME TypeInv, NotYet, ConnInv, Framework \/ FrameworkGoesOn
    PROVE  ConnInv'
<1>1. CASE loc_eng_init
  <2> DEFINE q == <<Other("open"), Other("init")>>
  <2>1. conn' = "none" /\ ~ errorCb'
    BY <1>1 DEF loc_eng_init, Call, modemVars, NotYet
  <2>2. DOMAIN q = {1, 2} /\ q[1].op = "open" /\ q[2].op = "init"
    BY DEF Other
  <2>3. queue' = q
    BY <1>1 DEF loc_eng_init
  <2> HIDE DEF q
  <2>4. Reopening(queue')
    BY <2>2, <2>3 DEF Reopening, Opens
  <2>5. QED
    BY <2>1, <2>4 DEF ConnInv
<1>2. CASE Framework /\ ~ loc_eng_init
  BY <1>2 DEF Framework, loc_eng_configuration_update, loc_eng_set_server_proxy,
     loc_eng_agps_init, Call, modemVars, confVars, ConnInv
<1>3. CASE ParseConfig \/ RestoreConfig \/ SetPort
  BY <1>3 DEF ParseConfig, RestoreConfig, SetPort, Continue, modemVars, ConnInv
<1>4. CASE PostChange
  <2>1. UNCHANGED <<conn, errorCb, adapter>>
    BY <1>4 DEF PostChange, Continue, modemVars, confVars
  <2> DEFINE p == Head(todo)
  <2>2. p \in Params /\ gps_conf[p] \in Values
    <3>1. todo \in Seq(Params) /\ todo # <<>>
      BY <1>4 DEF PostChange, Continue, TypeInv, CallType
    <3>2. QED
      BY <3>1, HeadTailProperties DEF TypeInv, TypeOK, Fields
  <2>3. CASE queue' = Append(queue, Setting(p, gps_conf[p]))
    BY <2>1, <2>2, <2>3, ParamMessage, SettingFields, ConnAppend DEF Opens
  <2>4. CASE UNCHANGED queue
    BY <2>1, <2>4 DEF ConnInv
  <2>5. QED
    BY <1>4, <2>3, <2>4 DEF PostChange
<1>5. CASE SendServer
  <2>1. UNCHANGED <<conn, errorCb, adapter>> /\ arg.type \in Servers /\ arg.address \in Address
    BY <1>5 DEF SendServer, Continue, modemVars, confVars, TypeInv, CallType
  <2>2. CASE SetServer(arg.type, arg.address)
    BY <2>1, <2>2, ConnSetServer
  <2>3. CASE UNCHANGED queue
    BY <2>1, <2>3 DEF ConnInv
  <2>4. QED
    BY <1>5, <2>2, <2>3 DEF SendServer
<1>6. CASE AgpsReinit
  <2> DEFINE t == Head(todo)
  <2>1. UNCHANGED <<conn, errorCb, adapter>> /\ t \in Servers /\ server_buf[t] \in Address
    <3>1. todo \in Seq(Servers) /\ todo # <<>> /\ UNCHANGED <<conn, errorCb, adapter>>
      BY <1>6 DEF AgpsReinit, Continue, modemVars, confVars, TypeInv, CallType
    <3>2. t \in Servers
      BY <3>1, HeadTailProperties
    <3>3. QED
      BY <3>1, <3>2 DEF TypeInv, TypeOK
  <2>2. CASE SetServer(t, server_buf[t])
    BY <2>1, <2>2, ConnSetServer
  <2>3. CASE UNCHANGED queue
    BY <2>1, <2>3 DEF ConnInv
  <2>4. QED
    BY <1>6, <2>2, <2>3 DEF AgpsReinit
<1>7. QED
  BY <1>1, <1>2, <1>3, <1>4, <1>5, <1>6 DEF FrameworkGoesOn

LEMMA ConnModem ==
    ASSUME TypeInv, NotYet, ConnInv, ServiceDown \/ locClientErrorCb
    PROVE  ConnInv'
<1>1. CASE ServiceDown
  BY <1>1 DEF ServiceDown, confVars, ConnInv
<1>2. CASE locClientErrorCb
  <2> DEFINE n == Len(queue)
             q == queue \o <<Other("ssr"), Other("up")>>
  <2>1. queue \in Seq(Messages) /\ NoOpen(queue)
    BY <1>2 DEF locClientErrorCb, TypeInv, TypeOK, ConnInv
  <2>2. Other("ssr").op = "ssr" /\ Other("up").op = "up"
    BY DEF Other
  <2>3. /\ DOMAIN queue = 1 .. n /\ n \in Nat /\ DOMAIN q = 1 .. n + 2
        /\ \A i \in 1 .. n : q[i] = queue[i]
        /\ q[n + 1] = Other("ssr") /\ q[n + 2] = Other("up")
    BY <2>1
  <2>4. queue' = q
    BY <1>2 DEF locClientErrorCb
  <2> HIDE DEF q, n
  <2>5. n + 1 \in DOMAIN q /\ n + 2 \in DOMAIN q /\ n + 2 > n + 1
    BY <2>3
  <2>6. \A i \in DOMAIN q : i # n + 1 => q[i].op \notin Opens
    BY <2>1, <2>2, <2>3 DEF NoOpen, Opens
  <2>7. Reopening(q)
    BY <2>2, <2>3, <2>5, <2>6 DEF Reopening
  <2>8. conn' = "dead" /\ errorCb' = FALSE
    BY <1>2 DEF locClientErrorCb, ConnInv
  <2>9. QED
    BY <2>4, <2>7, <2>8 DEF ConnInv
<1>3. QED
  BY <1>1, <1>2

LEMMA ConnMsgTask == ASSUME TypeInv, NotYet, ConnInv, MsgTask PROVE ConnInv'
<1>1. queue \in Seq(Messages)
  BY DEF TypeInv, TypeOK
<1>2. CASE OpenClient
  <2>1. /\ queue # <<>> /\ queue' = Tail(queue) /\ Head(queue).op \in Opens
        /\ conn' = "live" /\ UNCHANGED <<errorCb, adapter>>
    BY <1>2 DEF OpenClient, Received, confVars, Opens
  <2>2. ~ NoOpen(queue) /\ adapter
    BY <1>1, <2>1, OpenTail DEF NotYet
  <2>3. NoOpen(queue') /\ ~ errorCb
    BY <1>1, <2>1, <2>2, OpenTail DEF ConnInv
  <2>4. QED
    BY <2>1, <2>3 DEF ConnInv
<1>3. CASE LocEngInit \/ LocEngUp \/ Set \/ LocEngGnssConstellationConfig \/ LocEngSetCapabilities
  <2>1. /\ queue # <<>> /\ queue' = Tail(queue) /\ Head(queue).op \notin Opens
        /\ UNCHANGED <<conn, errorCb, adapter>>
    BY <1>3 DEF LocEngInit, LocEngUp, Set, LocEngGnssConstellationConfig,
       LocEngSetCapabilities, Received, confVars, Opens
  <2>2. /\ NoOpen(queue) => NoOpen(queue')
        /\ Reopening(queue) => Reopening(queue')
    BY <1>1, <2>1, OpenTail
  <2>3. QED
    BY <2>1, <2>2 DEF ConnInv
<1>4. CASE Compose
  <2>1. UNCHANGED <<conn, errorCb, adapter>>
    BY <1>4, HandlerStep DEF Compose
  <2>2. CASE UNCHANGED queue
    BY <2>1, <2>2 DEF ConnInv
  <2>3. CASE Head(job) \in {"constellation", "capabilities"}
             /\ queue' = Append(queue, Other(Head(job)))
    <3>1. Other(Head(job)) \in Messages /\ Other(Head(job)).op \notin Opens
      BY <2>3, OtherMessage DEF Ops, Opens
    <3>2. QED
      BY <2>1, <2>3, <3>1, ConnAppend
  <2>4. QED
    BY <1>4, <2>2, <2>3 DEF Compose
<1>5. CASE PostDraft
  <2>1. UNCHANGED <<conn, errorCb, adapter>> /\ queue' = Append(queue, draft)
    BY <1>5, HandlerStep DEF PostDraft
  <2>2. draft \in Messages /\ draft.op \notin Opens
    BY <1>5, SettingFields DEF PostDraft, TypeInv, TypeOK, DraftType, Opens
  <2>3. QED
    BY <2>1, <2>2, ConnAppend
<1>6. QED
  BY <1>2, <1>3, <1>4, <1>5 DEF MsgTask

LEMMA ConnStep == ASSUME TypeInv, NotYet, ConnInv, [Next]_vars PROVE ConnInv'
<1>1. CASE Next
  BY <1>1, ConnFramework, ConnModem, ConnMsgTask DEF Next
<1>2. CASE UNCHANGED vars
  BY <1>2 DEF vars, confVars, modemVars, ConnInv
<1>3. QED
  BY <1>1, <1>2
---------------------------------------------------------------------------
(* The framework's calls and the job.                                      *)

CallInv ==
    /\ at \in {"parse", "post"} => Range(todo) \subseteq Carrier
    /\ at = "parse" => todo = CarrierOrder /\ \A p \in Params : tmp[p] = gps_conf[p]
    /\ at \in {"port", "send"} => server_buf[arg.type].host = arg.address.host
    /\ at = "send" => server_buf[arg.type] = arg.address

AgpsLast == \A i \in DOMAIN job : job[i] = "agps" => i = Len(job)

LEMMA SameAddress ==
    ASSUME NEW a \in Address, NEW b \in Address, a.host = b.host
    PROVE  [a EXCEPT !.port = b.port] = b
  BY DEF Address

LEMMA CallInvFramework ==
    ASSUME TypeInv, CallInv, Framework \/ FrameworkGoesOn
    PROVE  CallInv'
<1> USE DEF CallInv
<1>1. CASE loc_eng_init
  BY <1>1 DEF loc_eng_init, Call, callVars
<1>2. CASE \E changes \in Configs : loc_eng_configuration_update(changes)
  BY <1>2 DEF loc_eng_configuration_update, Call, confVars, Carrier
<1>3. CASE \E type \in Servers : \E address \in Addresses[type] :
               loc_eng_set_server_proxy(type, address)
  <2> PICK type \in Servers : \E address \in Addresses[type] :
               loc_eng_set_server_proxy(type, address)
    BY <1>3
  <2> PICK address \in Addresses[type] : loc_eng_set_server_proxy(type, address)
    OBVIOUS
  <2>1. loc_eng_set_server_proxy(type, address)
    OBVIOUS
  <2>2. /\ at' = "port" /\ arg'.type = type /\ arg'.address = address
        /\ server_buf' = [server_buf EXCEPT ![type] = [server_buf[type] EXCEPT !.host = address.host]]
    <3>1. at' = "port" /\ arg' = [type |-> type, address |-> address]
      BY <2>1 DEF loc_eng_set_server_proxy
    <3>2. server_buf' = [server_buf EXCEPT ![type] = [server_buf[type] EXCEPT !.host = address.host]]
      BY <2>1 DEF loc_eng_set_server_proxy
    <3>3. QED
      BY <3>1, <3>2
  <2>3. server_buf[type] \in Address /\ server_buf \in [Servers -> Address]
    BY DEF TypeInv, TypeOK
  <2>4. server_buf'[type].host = address.host
    BY <2>2, <2>3 DEF Address
  <2>5. QED
    BY <2>2, <2>4
<1>4. CASE loc_eng_agps_init
  BY <1>4 DEF loc_eng_agps_init, Call
<1>5. CASE ParseConfig
  BY <1>5 DEF ParseConfig, Continue
<1>6. CASE PostChange
  <2>1. at = "post" /\ at' = "post" /\ todo' = Tail(todo) /\ todo \in Seq(Params) /\ todo # <<>>
    BY <1>6 DEF PostChange, Continue, TypeInv, CallType
  <2>2. Range(todo') \subseteq Range(todo)
    BY <2>1, TailFacts
  <2>3. QED
    BY <2>1, <2>2
<1>7. CASE RestoreConfig
  BY <1>7 DEF RestoreConfig
<1>8. CASE SetPort
  <2>1. /\ at = "port" /\ at' = "send" /\ UNCHANGED arg
        /\ server_buf' = [server_buf EXCEPT ![arg.type] = [server_buf[arg.type] EXCEPT !.port = arg.address.port]]
    BY <1>8 DEF SetPort, Continue
  <2>2. /\ arg.type \in Servers /\ arg.address \in Address /\ server_buf[arg.type] \in Address
        /\ server_buf \in [Servers -> Address]
    BY <2>1 DEF TypeInv, TypeOK, CallType
  <2>3. server_buf'[arg.type] = [server_buf[arg.type] EXCEPT !.port = arg.address.port]
    BY <2>1, <2>2
  <2>4. server_buf'[arg.type] = arg.address
    BY <2>1, <2>2, <2>3, SameAddress
  <2>5. QED
    BY <2>1, <2>4
<1>9. CASE SendServer
  BY <1>9 DEF SendServer
<1>10. CASE AgpsReinit
  BY <1>10 DEF AgpsReinit
<1>11. QED
  BY <1>1, <1>2, <1>3, <1>4, <1>5, <1>6, <1>7, <1>8, <1>9, <1>10 DEF Framework, FrameworkGoesOn

LEMMA CallInvOther ==
    ASSUME TypeInv, CallInv, ServiceDown \/ locClientErrorCb \/ MsgTask
    PROVE  CallInv'
<1>1. UNCHANGED <<at, todo, tmp, arg, server_buf>>
  BY DEF ServiceDown, locClientErrorCb, MsgTask, OpenClient, LocEngInit, LocEngUp, Compose,
     PostDraft, Set, LocEngGnssConstellationConfig, LocEngSetCapabilities, Received, InHandler,
     confVars, callVars
<1>2. \A p \in Params : gps_conf'[p] = gps_conf[p]
  <2>1. \A p \in Params : p # "CAPABILITIES" /\ p \in Fields
    BY ConstantFacts DEF Fields, Keys
  <2>2. CASE LocEngGnssConstellationConfig
    BY <2>1, <2>2 DEF LocEngGnssConstellationConfig, TypeInv, TypeOK
  <2>3. CASE ~ LocEngGnssConstellationConfig
    BY <2>3 DEF ServiceDown, locClientErrorCb, MsgTask, OpenClient, LocEngInit, LocEngUp, Compose,
       PostDraft, Set, LocEngSetCapabilities, Received, InHandler, confVars, callVars
  <2>4. QED
    BY <2>2, <2>3
<1>3. QED
  BY <1>1, <1>2 DEF CallInv

LEMMA AgpsLastStep == ASSUME TypeInv, AgpsLast, [Next]_vars PROVE AgpsLast'
<1> USE DEF AgpsLast
<1>1. CASE UNCHANGED job
  BY <1>1
<1>2. CASE LocEngInit
  <2>1. job' = Reinit \o <<"capabilities">>
    BY <1>2 DEF LocEngInit
  <2>2. "agps" \notin Range(job')
    BY <2>1, ReinitItems
  <2>3. QED
    BY <2>2 DEF Range
<1>3. CASE LocEngUp
  <2>1. job' = Reinit \o <<"agps">>
    BY <1>3 DEF LocEngUp
  <2>2. QED
    BY <2>1, ReinitItems
<1>4. CASE job # <<>> /\ job' = Tail(job)
  <2>1. job \in Seq(Items)
    BY DEF TypeInv, TypeOK, Items
  <2>2. /\ \A i \in DOMAIN job' : i + 1 \in DOMAIN job /\ job'[i] = job[i + 1]
        /\ DOMAIN job = 1 .. Len(job) /\ Len(job) \in Nat \ {0} /\ DOMAIN job' = 1 .. Len(job) - 1
        /\ job' \in Seq(Items)
    BY <1>4, <2>1, TailFacts
  <2>3. Len(job') = Len(job) - 1
    BY <1>4, <2>1, HeadTailProperties
  <2>4. QED
    BY <2>2, <2>3
<1>5. CASE Compose /\ Head(job) = "agps"
  <2>1. job' \in {ServerOrder, <<>>}
    <3>1. /\ Head(job) \notin Params /\ Head(job) \notin Servers /\ host_set \subseteq Servers
          /\ Head(job) \notin {"constellation", "capabilities"}
      BY <1>5, ConstantFacts DEF TypeInv, TypeOK, Keys
    <3>2. QED
      BY <1>5, <3>1 DEF Compose
  <2>2. \A i \in DOMAIN ServerOrder : ServerOrder[i] # "agps"
    BY DEF ServerOrder
  <2>3. QED
    BY <2>1, <2>2
<1>6. QED
  <2>1. CASE Next
    <3>1. CASE Compose
      BY <1>1, <1>4, <1>5, <3>1 DEF Compose, InHandler
    <3>2. CASE PostDraft
      BY <1>4, <3>2 DEF PostDraft, InHandler
    <3>3. CASE ~ Compose /\ ~ PostDraft /\ ~ LocEngInit /\ ~ LocEngUp
      <4>1. UNCHANGED job
        BY <2>1, <3>3 DEF Next, Framework, FrameworkGoesOn, MsgTask, ServiceDown,
           locClientErrorCb, loc_eng_init, loc_eng_configuration_update,
           loc_eng_set_server_proxy, loc_eng_agps_init, Call, ParseConfig, PostChange,
           RestoreConfig, SetPort, SendServer, AgpsReinit, Continue, OpenClient, Set,
           LocEngGnssConstellationConfig, LocEngSetCapabilities, taskVars
      <4>2. QED
        BY <1>1, <4>1
    <3>4. QED
      BY <1>2, <1>3, <3>1, <3>2, <3>3
  <2>2. CASE UNCHANGED vars
    BY <1>1, <2>2 DEF vars, taskVars
  <2>3. QED
    BY <2>1, <2>2

LEMMA CallInvStep == ASSUME TypeInv, CallInv, [Next]_vars PROVE CallInv'
<1>1. CASE Next
  BY <1>1, CallInvFramework, CallInvOther DEF Next
<1>2. CASE UNCHANGED vars
  BY <1>2 DEF vars, confVars, callVars, CallInv
<1>3. QED
  BY <1>1, <1>2
---------------------------------------------------------------------------
(* A key of the configuration, from the variable to the modem.             *)

IsSet(m, k) == m.op = "set" /\ m.key = k
NoSet(q, k) == \A i \in DOMAIN q : ~ IsSet(q[i], k)

\* The last message of the key carries the value.
LastSet(q, k, v) ==
    \E i \in DOMAIN q :
        /\ IsSet(q[i], k) /\ q[i].value = v
        /\ \A j \in DOMAIN q : j > i => ~ IsSet(q[j], k)

Claimed(k) == k \in Params \/ (k \in host_set /\ agps /\ AgpsCapable)

\* Everything will be sent again, is being sent again.
Coming(k) ==
    \/ errorCb \/ Has(queue, "up")
    \/ k \in Params /\ (~ adapter \/ Has(queue, "init"))
Resend(k) == k \in Range(job) \/ (k \in Servers /\ "agps" \in Range(job))

\* A call is about to post the value.
Changing(k) ==
    \/ k \in Params /\ at = "post" /\ k \in Range(todo) /\ tmp[k] # gps_conf[k]
    \/ k \in Servers /\ at \in {"port", "send"} /\ arg.type = k
    \/ k \in Servers /\ at = "agps" /\ k \in Range(todo)

Sent(k) ==
    \/ LastSet(queue, k, Current(k))
    \/ NoSet(queue, k) /\ (k \in failed \/ (conn = "live" /\ modem[k] = Current(k)))

KeyInv(k) ==
    Claimed(k) => k \in stale \/ Coming(k) \/ Resend(k) \/ Changing(k) \/ Sent(k)

LEMMA SetAppend ==
    ASSUME NEW q \in Seq(Messages), NEW m \in Messages, NEW k
    PROVE  /\ ~ IsSet(m, k) => /\ NoSet(q, k) => NoSet(Append(q, m), k)
                               /\ \A v : LastSet(q, k, v) => LastSet(Append(q, m), k, v)
           /\ IsSet(m, k) => LastSet(Append(q, m), k, m.value)
<1> DEFINE a == Append(q, m)
<1>1. /\ DOMAIN q = 1 .. Len(q) /\ Len(q) \in Nat /\ DOMAIN a = 1 .. Len(q) + 1
      /\ \A i \in DOMAIN q : i \in DOMAIN a /\ a[i] = q[i]
      /\ a[Len(q) + 1] = m /\ Len(q) + 1 \in DOMAIN a
      /\ \A i \in DOMAIN a : i \in DOMAIN q \/ i = Len(q) + 1
  BY AppendFacts
<1> HIDE DEF a
<1>2. ~ IsSet(m, k) /\ NoSet(q, k) => NoSet(a, k)
  BY <1>1 DEF NoSet
<1>3. ASSUME ~ IsSet(m, k), NEW v, LastSet(q, k, v) PROVE LastSet(a, k, v)
  <2>1. PICK i \in DOMAIN q : /\ IsSet(q[i], k) /\ q[i].value = v
                              /\ \A j \in DOMAIN q : j > i => ~ IsSet(q[j], k)
    BY <1>3 DEF LastSet
  <2>2. i \in DOMAIN a /\ a[i] = q[i] /\ \A j \in DOMAIN a : j > i => ~ IsSet(a[j], k)
    BY <1>1, <1>3, <2>1
  <2>3. QED
    BY <2>1, <2>2 DEF LastSet
<1>4. ASSUME IsSet(m, k) PROVE LastSet(a, k, m.value)
  <2>1. \A j \in DOMAIN a : ~ (j > Len(q) + 1)
    BY <1>1
  <2>2. QED
    BY <1>1, <1>4, <2>1 DEF LastSet
<1>5. QED
  BY <1>2, <1>3, <1>4 DEF a

LEMMA SetTail ==
    ASSUME NEW q \in Seq(Messages), q # <<>>, NEW k
    PROVE  /\ NoSet(q, k) => NoSet(Tail(q), k) /\ ~ IsSet(Head(q), k)
           /\ \A v : LastSet(q, k, v) =>
                 \/ LastSet(Tail(q), k, v)
                 \/ IsSet(Head(q), k) /\ Head(q).value = v /\ NoSet(Tail(q), k)
<1> DEFINE r == Tail(q)
<1>1. /\ Head(q) = q[1] /\ 1 \in DOMAIN q
      /\ DOMAIN q = 1 .. Len(q) /\ Len(q) \in Nat \ {0} /\ DOMAIN r = 1 .. Len(q) - 1
      /\ \A i \in DOMAIN q : i # 1 => i - 1 \in DOMAIN r /\ r[i - 1] = q[i]
      /\ \A i \in DOMAIN r : i + 1 \in DOMAIN q /\ r[i] = q[i + 1]
  BY TailFacts
<1> HIDE DEF r
<1>2. NoSet(q, k) => NoSet(r, k) /\ ~ IsSet(Head(q), k)
  BY <1>1 DEF NoSet
<1>3. ASSUME NEW v, LastSet(q, k, v)
      PROVE  LastSet(r, k, v) \/ (IsSet(Head(q), k) /\ Head(q).value = v /\ NoSet(r, k))
  <2>1. PICK i \in DOMAIN q : /\ IsSet(q[i], k) /\ q[i].value = v
                              /\ \A j \in DOMAIN q : j > i => ~ IsSet(q[j], k)
    BY <1>3 DEF LastSet
  <2>2. CASE i = 1
    <3>1. \A j \in DOMAIN r : j + 1 > 1 /\ j + 1 \in DOMAIN q /\ r[j] = q[j + 1]
      BY <1>1
    <3>2. NoSet(r, k)
      BY <2>1, <2>2, <3>1 DEF NoSet
    <3>3. QED
      BY <1>1, <2>1, <2>2, <3>2
  <2>3. CASE i # 1
    <3>1. i - 1 \in DOMAIN r /\ r[i - 1] = q[i]
      BY <1>1, <2>3
    <3>2. \A j \in DOMAIN r : j > i - 1 => j + 1 > i /\ j + 1 \in DOMAIN q /\ r[j] = q[j + 1]
      BY <1>1
    <3>3. \A j \in DOMAIN r : j > i - 1 => ~ IsSet(r[j], k)
      BY <2>1, <3>2
    <3>4. QED
      BY <2>1, <3>1, <3>3 DEF LastSet
  <2>4. QED
    BY <2>2, <2>3
<1>4. QED
  BY <1>2, <1>3 DEF r

\* Nothing of the key but its place changes.
LEMMA KeyFrame ==
    ASSUME NEW k, KeyInv(k), Claimed(k)' => Claimed(k), k \in stale => k \in stale',
           Coming(k) => Coming(k)', Resend(k) => Coming(k)' \/ Resend(k)' \/ Sent(k)',
           Changing(k) => Changing(k)' \/ Coming(k)' \/ Sent(k)', Sent(k) => Sent(k)'
    PROVE  KeyInv(k)'
  BY DEF KeyInv

LEMMA SentSame ==
    ASSUME NEW k, Current(k)' = Current(k), UNCHANGED <<queue, failed, conn, modem>>
    PROVE  Sent(k) => Sent(k)'
  BY DEF Sent

LEMMA SentAppend ==
    ASSUME NEW k, TypeInv, NEW m \in Messages, ~ IsSet(m, k), queue' = Append(queue, m),
           Current(k)' = Current(k), UNCHANGED <<failed, conn, modem>>
    PROVE  Sent(k) => Sent(k)'
<1>1. queue \in Seq(Messages)
  BY DEF TypeInv, TypeOK
<1>2. /\ NoSet(queue, k) => NoSet(queue', k)
      /\ \A v : LastSet(queue, k, v) => LastSet(queue', k, v)
  BY <1>1, SetAppend
<1>3. QED
  BY <1>2 DEF Sent

LEMMA SentPosted ==
    ASSUME NEW k, TypeInv, Setting(k, Current(k)') \in Messages,
           queue' = Append(queue, Setting(k, Current(k)'))
    PROVE  Sent(k)'
<1> DEFINE m == Setting(k, Current(k)')
<1>1. queue \in Seq(Messages) /\ IsSet(m, k) /\ m.value = Current(k)'
  BY SettingFields DEF TypeInv, TypeOK, IsSet
<1> HIDE DEF m
<1>2. LastSet(queue', k, Current(k)')
  BY <1>1, SetAppend DEF m
<1>3. QED
  BY <1>2 DEF Sent

LEMMA SentTail ==
    ASSUME NEW k, TypeInv, queue # <<>>, ~ IsSet(Head(queue), k), queue' = Tail(queue),
           Current(k)' = Current(k), UNCHANGED <<failed, modem>>,
           conn = "live" => conn' = "live"
    PROVE  Sent(k) => Sent(k)'
<1>1. queue \in Seq(Messages)
  BY DEF TypeInv, TypeOK
<1>2. /\ NoSet(queue, k) => NoSet(queue', k)
      /\ \A v : LastSet(queue, k, v) => LastSet(queue', k, v)
  BY <1>1, SetTail
<1>3. QED
  BY <1>2 DEF Sent

LEMMA ComingAppend ==
    ASSUME NEW k, TypeInv, NEW m \in Messages, queue' = Append(queue, m),
           UNCHANGED <<errorCb, adapter>>
    PROVE  Coming(k) => Coming(k)'
<1>1. queue \in Seq(Messages)
  BY DEF TypeInv, TypeOK
<1>2. \A op : Has(queue, op) => Has(queue', op)
  BY <1>1, HasAppend
<1>3. QED
  BY <1>2 DEF Coming

LEMMA ComingTail ==
    ASSUME NEW k, TypeInv, queue # <<>>, queue' = Tail(queue), UNCHANGED <<errorCb, adapter>>,
           Head(queue).op # "up", k \in Params => Head(queue).op # "init"
    PROVE  Coming(k) => Coming(k)'
<1>1. queue \in Seq(Messages)
  BY DEF TypeInv, TypeOK
<1>2. /\ Has(queue, "up") => Has(queue', "up")
      /\ k \in Params /\ Has(queue, "init") => Has(queue', "init")
  BY <1>1, HasTail
<1>3. QED
  BY <1>2 DEF Coming

LEMMA KeyFramework ==
    ASSUME TypeInv, CallInv, NEW k \in Keys, KeyInv(k), Framework
    PROVE  KeyInv(k)'
<1>1. CASE loc_eng_init
  <2>1. CASE k \in Params
    <3> DEFINE q == <<Other("open"), Other("init")>>
    <3>1. 2 \in DOMAIN q /\ q[2].op = "init"
      BY DEF Other
    <3>2. queue' = q
      BY <1>1 DEF loc_eng_init
    <3> HIDE DEF q
    <3>3. Coming(k)'
      BY <2>1, <3>1, <3>2 DEF Coming, Has
    <3>4. QED
      BY <3>3 DEF KeyInv
  <2>2. CASE k \notin Params
    BY <1>1, <2>2 DEF loc_eng_init, Claimed, KeyInv
  <2>3. QED
    BY <2>1, <2>2
<1>2. ASSUME Call, UNCHANGED <<queue, adapter>> PROVE
      /\ at = "idle" /\ UNCHANGED <<stale, job, failed, conn, modem, errorCb>>
      /\ Coming(k)' = Coming(k) /\ Resend(k)' = Resend(k) /\ ~ Changing(k)
  BY <1>2 DEF Call, taskVars, modemVars, Coming, Resend, Changing
<1>3. CASE \E changes \in Configs : loc_eng_configuration_update(changes)
  <2>1. Call /\ UNCHANGED <<queue, adapter, gps_conf, server_buf, host_set, agps>> /\ at' = "parse"
    BY <1>3 DEF loc_eng_configuration_update, confVars
  <2>2. Current(k)' = Current(k) /\ Claimed(k)' = Claimed(k)
    BY <1>2, <2>1 DEF Current, Claimed
  <2>3. QED
    BY <1>2, <2>1, <2>2, SentSame, KeyFrame
<1>4. CASE \E type \in Servers : \E address \in Addresses[type] :
               loc_eng_set_server_proxy(type, address)
  <2> PICK type \in Servers : \E address \in Addresses[type] :
               loc_eng_set_server_proxy(type, address)
    BY <1>4
  <2> PICK address \in Addresses[type] : loc_eng_set_server_proxy(type, address)
    OBVIOUS
  <2>1. loc_eng_set_server_proxy(type, address)
    OBVIOUS
  <2>2. /\ Call /\ UNCHANGED <<queue, adapter, gps_conf, host_set, agps>>
        /\ at' = "port" /\ arg' = [type |-> type, address |-> address]
    BY <2>1 DEF loc_eng_set_server_proxy
  <2>3. CASE k = type
    <3>1. Changing(k)'
      BY <2>2, <2>3 DEF Changing
    <3>2. QED
      BY <3>1 DEF KeyInv
  <2>4. CASE k # type
    <3>1. server_buf'[k] = server_buf[k] \/ k \notin Servers
      BY <2>1, <2>4 DEF loc_eng_set_server_proxy, TypeInv, TypeOK
    <3>2. Current(k)' = Current(k) /\ Claimed(k)' = Claimed(k)
      BY <1>2, <2>2, <3>1 DEF Current, Claimed
    <3>3. QED
      BY <1>2, <2>2, <3>2, SentSame, KeyFrame
  <2>5. QED
    BY <2>3, <2>4
<1>5. CASE loc_eng_agps_init
  <2>1. Call /\ UNCHANGED <<queue, adapter, gps_conf, server_buf, host_set, tmp>> /\ at' # "post"
    BY <1>5 DEF loc_eng_agps_init, Call
  <2>2. Current(k)' = Current(k)
    BY <1>2, <2>1 DEF Current
  <2>3. CASE AgpsCapable /\ k \in Servers
    <3>1. at' = "agps" /\ todo' = ServerOrder
      BY <1>5, <2>3 DEF loc_eng_agps_init
    <3>2. Changing(k)'
      BY <2>3, <3>1 DEF Changing, Servers
    <3>3. QED
      BY <3>2 DEF KeyInv
  <2>4. CASE ~ AgpsCapable \/ k \in Params
    <3>1. Claimed(k)' => Claimed(k)
      BY <2>4 DEF Claimed
    <3>2. QED
      BY <1>2, <2>1, <2>2, <3>1, SentSame, KeyFrame
  <2>5. QED
    BY <2>3, <2>4 DEF Keys
<1>6. QED
  BY <1>1, <1>3, <1>4, <1>5 DEF Framework

\* loc_eng_set_server, for its own key and for another one
LEMMA KeySetServer ==
    ASSUME TypeInv, NEW k \in Keys, NEW t \in Servers, NEW a \in Address, SetServer(t, a),
           UNCHANGED <<failed, conn, modem, errorCb, adapter>>,
           Current(k)' = Current(k), k = t => Current(k) = a
    PROVE  /\ k = t => k \in stale' \/ Sent(k)'
           /\ k # t => (k \in stale => k \in stale') /\ (Sent(k) => Sent(k)')
           /\ Coming(k) => Coming(k)'
<1> DEFINE m == Setting(t, a)
<1>1. m \in Messages /\ (k # t => ~ IsSet(m, k))
  BY ServerMessage, SettingFields DEF IsSet
<1>2. CASE queue' = Append(queue, m) /\ stale' = stale \ {t}
  <2>1. k = t => Sent(k)'
    BY <1>1, <1>2, SentPosted
  <2> HIDE DEF m
  <2>2. k # t => (Sent(k) => Sent(k)')
    BY <1>1, <1>2, SentAppend
  <2>3. Coming(k) => Coming(k)'
    BY <1>1, <1>2, ComingAppend
  <2>4. QED
    BY <1>2, <2>1, <2>2, <2>3
<1>3. CASE UNCHANGED queue /\ stale' = stale \cup {t}
  <2>1. Coming(k) => Coming(k)'
    BY <1>3 DEF Coming
  <2>2. Sent(k) => Sent(k)'
    BY <1>3, SentSame
  <2>3. QED
    BY <1>3, <2>1, <2>2
<1>4. QED
  BY <1>2, <1>3 DEF SetServer

LEMMA KeyGoesOn ==
    ASSUME TypeInv, NotYet, CallInv, NEW k \in Keys, KeyInv(k), FrameworkGoesOn
    PROVE  KeyInv(k)'
<1>1. /\ UNCHANGED <<job, conn, errorCb, modem, failed, adapter, agps>>
      /\ Resend(k)' = Resend(k)
  BY DEF FrameworkGoesOn, ParseConfig, PostChange, RestoreConfig, SetPort, SendServer,
     AgpsReinit, Continue, taskVars, modemVars, confVars, Resend
<1>2. k \in Params => k \notin Servers /\ k \in Fields
  BY ConstantFacts DEF Fields
<1>3. CASE ParseConfig
  <2>1. /\ at = "parse" /\ at' = "post" /\ UNCHANGED <<queue, stale, server_buf, host_set, tmp, todo>>
    BY <1>3 DEF ParseConfig, Continue
  <2>2. Claimed(k)' = Claimed(k) /\ Coming(k)' = Coming(k) /\ ~ Changing(k)
    BY <1>1, <2>1 DEF Claimed, Coming, Changing
  <2>3. CASE Current(k)' = Current(k)
    BY <1>1, <2>1, <2>2, <2>3, SentSame, KeyFrame
  <2>4. CASE k \in Params /\ Current(k)' # Current(k)
    <3>1. Current(k) = gps_conf[k] /\ tmp[k] = gps_conf[k]
      BY <1>2, <2>1, <2>4 DEF Current, CallInv
    <3>2. Current(k)' = IF k \in Carrier THEN gps_conf'[k] ELSE tmp[k]
      BY <1>2, <2>1, <2>4 DEF Current, Restored
    <3>3. k \in Carrier /\ gps_conf'[k] # tmp'[k]
      BY <2>1, <2>4, <3>1, <3>2
    <3>4. k \in Range(todo')
      BY <2>1, <3>3 DEF CallInv, Carrier
    <3>5. Changing(k)'
      BY <2>1, <2>4, <3>3, <3>4 DEF Changing
    <3>6. QED
      BY <3>5 DEF KeyInv
  <2>5. CASE k \in Servers
    <3>1. Current(k)' = Current(k)
      BY <2>1, <2>5 DEF Current
    <3>2. QED
      BY <2>3, <3>1
  <2>6. QED
    BY <2>3, <2>4, <2>5 DEF Keys
<1>4. CASE PostChange
  <2> DEFINE p == Head(todo)
  <2>1. /\ at = "post" /\ at' = "post" /\ todo # <<>> /\ todo \in Seq(Params) /\ todo' = Tail(todo)
        /\ Range(todo) \subseteq Carrier
        /\ UNCHANGED <<gps_conf, server_buf, host_set, tmp, arg>>
    BY <1>4 DEF PostChange, Continue, confVars, TypeInv, CallType, CallInv
  <2>2. p \in Params /\ p \in Carrier /\ gps_conf[p] \in Values
    <3>1. p \in Params /\ p = todo[1] /\ 1 \in DOMAIN todo
      BY <2>1, TailFacts
    <3>2. p \in Range(todo)
      BY <3>1 DEF Range
    <3>3. QED
      BY <2>1, <3>1, <3>2 DEF TypeInv, TypeOK, Fields
  <2>3. Current(k)' = Current(k) /\ Claimed(k)' = Claimed(k)
    BY <1>1, <2>1 DEF Current, Claimed, Restored
  <2>4. CASE adapter /\ tmp[p] # gps_conf[p]
    <3>1. queue' = Append(queue, Setting(p, gps_conf[p])) /\ stale' = stale \ {p}
      BY <1>4, <2>4 DEF PostChange
    <3> DEFINE m == Setting(p, gps_conf[p])
    <3>2. m \in Messages /\ (k # p => ~ IsSet(m, k))
      BY <2>2, ParamMessage, SettingFields DEF IsSet
    <3>3. CASE k = p
      <4>1. Current(k)' = gps_conf[p]
        BY <2>1, <2>2, <2>3, <3>3, ConstantFacts DEF Current, Restored, Fields
      <4>2. Sent(k)'
        BY <3>1, <3>2, <3>3, <4>1, SentPosted
      <4>3. QED
        BY <4>2 DEF KeyInv
    <3>4. CASE k # p
      <4> HIDE DEF m
      <4>1. queue' = Append(queue, m)
        BY <3>1 DEF m
      <4>2. Sent(k) => Sent(k)'
        BY <1>1, <2>3, <3>2, <3>4, <4>1, SentAppend
      <4>3. Coming(k) => Coming(k)'
        BY <1>1, <3>2, <4>1, ComingAppend
      <4>4. k \in Range(todo) => k \in Range(todo')
        BY <2>1, <3>4, TailFacts
      <4>5. Changing(k) => Changing(k)'
        BY <2>1, <4>4 DEF Changing
      <4>6. QED
        BY <1>1, <2>3, <3>1, <3>4, <4>2, <4>3, <4>5, KeyFrame
    <3>5. QED
      BY <3>3, <3>4
  <2>5. CASE ~ (adapter /\ tmp[p] # gps_conf[p])
    <3>1. UNCHANGED <<queue, stale>>
      BY <1>4, <2>5 DEF PostChange
    <3>2. Coming(k)' = Coming(k)
      BY <1>1, <3>1 DEF Coming
    <3>3. Changing(k) => Changing(k)' \/ Coming(k)'
      <4>1. k \in Range(todo) => k = p \/ k \in Range(todo')
        BY <2>1, TailFacts
      <4>2. k \in Params /\ ~ adapter => Coming(k)
        BY DEF Coming
      <4>3. QED
        BY <2>1, <2>5, <3>2, <4>1, <4>2 DEF Changing
    <3>4. QED
      BY <1>1, <2>3, <3>1, <3>2, <3>3, SentSame, KeyFrame
  <2>6. QED
    BY <2>4, <2>5
<1>5. CASE RestoreConfig
  <2>1. /\ at = "post" /\ at' = "idle" /\ todo = <<>> /\ gps_conf' = Restored(gps_conf)
        /\ UNCHANGED <<queue, stale, server_buf, host_set>>
    BY <1>5 DEF RestoreConfig, Continue
  <2>2. Claimed(k)' = Claimed(k) /\ Coming(k)' = Coming(k)
    BY <1>1, <2>1 DEF Claimed, Coming
  <2>3. ~ Changing(k)
    BY <2>1 DEF Changing, Range
  <2>4. Current(k)' = Current(k)
    BY <2>1 DEF Current
  <2>5. QED
    BY <1>1, <2>1, <2>2, <2>3, <2>4, SentSame, KeyFrame
<1>6. CASE SetPort
  <2>1. /\ at = "port" /\ at' = "send" /\ host_set' = host_set \cup {arg.type}
        /\ server_buf' = [server_buf EXCEPT ![arg.type].port = arg.address.port]
        /\ UNCHANGED <<queue, stale, gps_conf, tmp, arg, todo>>
    BY <1>6 DEF SetPort, Continue
  <2>2. arg.type \in Servers
    BY <2>1 DEF TypeInv, CallType
  <2>3. CASE k = arg.type
    <3>1. Changing(k)'
      BY <2>1, <2>2, <2>3 DEF Changing
    <3>2. QED
      BY <3>1 DEF KeyInv
  <2>4. CASE k # arg.type
    <3>1. /\ Claimed(k)' = Claimed(k) /\ Coming(k)' = Coming(k)
          /\ Changing(k) => Changing(k)'
      BY <1>1, <2>1, <2>4 DEF Claimed, Coming, Changing
    <3>2. Current(k)' = Current(k)
      BY <2>1, <2>4 DEF Current, TypeInv, TypeOK
    <3>3. QED
      BY <1>1, <2>1, <3>1, <3>2, SentSame, KeyFrame
  <2>5. QED
    BY <2>3, <2>4
<1>7. CASE SendServer
  <2>1. /\ at = "send" /\ at' = "idle" /\ UNCHANGED <<gps_conf, server_buf, host_set, tmp, todo>>
        /\ arg.type \in Servers /\ arg.address \in Address
        /\ server_buf[arg.type] = arg.address
    BY <1>7 DEF SendServer, Continue, confVars, TypeInv, CallType, CallInv
  <2>2. /\ Claimed(k)' = Claimed(k) /\ Current(k)' = Current(k)
        /\ k = arg.type => Current(k) = arg.address
        /\ Changing(k) => k = arg.type
    BY <1>1, <1>2, <2>1 DEF Claimed, Current, Changing
  <2>3. CASE adapter
    <3>1. SetServer(arg.type, arg.address)
      BY <1>7, <2>3 DEF SendServer
    <3>2. /\ k = arg.type => k \in stale' \/ Sent(k)'
          /\ k # arg.type => (k \in stale => k \in stale') /\ (Sent(k) => Sent(k)')
          /\ Coming(k) => Coming(k)'
      BY <1>1, <2>1, <2>2, <3>1, KeySetServer
    <3>3. QED
      BY <1>1, <2>2, <3>2 DEF KeyInv
  <2>4. CASE ~ adapter
    <3>1. UNCHANGED <<queue, stale>> /\ ~ agps
      BY <1>7, <2>4 DEF SendServer, NotYet
    <3>2. CASE k \in Params
      <4>1. Coming(k)'
        BY <1>1, <2>4, <3>2 DEF Coming
      <4>2. QED
        BY <4>1 DEF KeyInv
    <3>3. CASE k \notin Params
      BY <1>1, <3>1, <3>3 DEF KeyInv, Claimed
    <3>4. QED
      BY <3>2, <3>3
  <2>5. QED
    BY <2>3, <2>4
<1>8. CASE AgpsReinit
  <2> DEFINE t == Head(todo)
  <2>1. /\ at = "agps" /\ at' = (IF Len(todo) = 1 THEN "idle" ELSE "agps") /\ todo' = Tail(todo)
        /\ todo \in Seq(Servers) /\ todo # <<>>
        /\ UNCHANGED <<gps_conf, server_buf, host_set, tmp>>
    BY <1>8 DEF AgpsReinit, Continue, confVars, TypeInv, CallType
  <2>2. t \in Servers /\ server_buf[t] \in Address
    <3>1. t \in Servers
      BY <2>1, HeadTailProperties
    <3>2. QED
      BY <3>1 DEF TypeInv, TypeOK
  <2>3. /\ Claimed(k)' = Claimed(k) /\ Current(k)' = Current(k)
        /\ k = t => Current(k) = server_buf[t]
    BY <1>1, <2>1, <2>2 DEF Claimed, Current
  <2>4. Changing(k) => k = t \/ Changing(k)'
    <3>1. k \in Range(todo) => k = t \/ k \in Range(todo')
      BY <2>1, TailFacts
    <3>2. Len(todo) = 1 => Range(todo') = {}
      <4>1. DOMAIN todo' = 1 .. Len(todo) - 1
        BY <2>1, TailFacts
      <4>2. QED
        BY <4>1 DEF Range
    <3>3. QED
      BY <1>2, <2>1, <3>1, <3>2 DEF Changing
  <2>5. CASE t \in host_set
    <3>1. SetServer(t, server_buf[t])
      BY <1>8, <2>5 DEF AgpsReinit
    <3>2. /\ k = t => k \in stale' \/ Sent(k)'
          /\ k # t => (k \in stale => k \in stale') /\ (Sent(k) => Sent(k)')
          /\ Coming(k) => Coming(k)'
      BY <1>1, <2>2, <2>3, <3>1, KeySetServer
    <3>3. QED
      BY <1>1, <2>3, <2>4, <3>2 DEF KeyInv
  <2>6. CASE t \notin host_set
    <3>1. UNCHANGED <<queue, stale>>
      BY <1>8, <2>6 DEF AgpsReinit
    <3>2. Coming(k)' = Coming(k)
      BY <1>1, <3>1 DEF Coming
    <3>3. k = t => ~ Claimed(k)
      BY <1>2, <2>2, <2>6 DEF Claimed
    <3>4. Sent(k) => Sent(k)'
      BY <1>1, <2>3, <3>1, SentSame
    <3>5. QED
      BY <1>1, <2>3, <2>4, <3>1, <3>2, <3>3, <3>4 DEF KeyInv
  <2>7. QED
    BY <2>5, <2>6
<1>9. QED
  BY <1>3, <1>4, <1>5, <1>6, <1>7, <1>8 DEF FrameworkGoesOn

LEMMA KeyModem ==
    ASSUME TypeInv, NEW k \in Keys, ServiceDown \/ locClientErrorCb
    PROVE  KeyInv(k)'
<1>1. CASE ServiceDown
  <2>1. Coming(k)'
    BY <1>1 DEF ServiceDown, Coming
  <2>2. QED
    BY <2>1 DEF KeyInv
<1>2. CASE locClientErrorCb
  <2> DEFINE n == Len(queue)
             q == queue \o <<Other("ssr"), Other("up")>>
  <2>1. queue \in Seq(Messages) /\ n \in Nat
    BY LenProperties DEF TypeInv, TypeOK
  <2>2. n + 2 \in DOMAIN q /\ q[n + 2] = Other("up")
    BY <2>1
  <2>3. queue' = q /\ Other("up").op = "up"
    BY <1>2 DEF locClientErrorCb, Other
  <2> HIDE DEF q, n
  <2>4. Has(queue', "up")
    BY <2>2, <2>3 DEF Has
  <2>5. Coming(k)'
    BY <2>4 DEF Coming
  <2>6. QED
    BY <2>5 DEF KeyInv
<1>3. QED
  BY <1>1, <1>2

\* A message other than a setter is taken.
LEMMA KeyReceived ==
    ASSUME TypeInv, NEW k \in Keys, KeyInv(k), NEW op, Received(op), op # "set", op # "up",
           k \in Params => op # "init", Current(k)' = Current(k),
           stale \subseteq stale', conn' \in {conn, "live"},
           Changing(k) => Changing(k)',
           UNCHANGED <<host_set, adapter, agps, failed, modem>>
    PROVE  KeyInv(k)'
<1>1. /\ queue # <<>> /\ queue' = Tail(queue) /\ Head(queue).op = op /\ UNCHANGED errorCb
      /\ job = <<>>
  BY DEF Received
<1>2. Claimed(k)' = Claimed(k) /\ ~ Resend(k)
  BY <1>1 DEF Claimed, Resend, Range
<1>3. Coming(k) => Coming(k)'
  BY <1>1, ComingTail
<1>4. ~ IsSet(Head(queue), k)
  BY <1>1 DEF IsSet
<1>5. Sent(k) => Sent(k)'
  BY <1>1, <1>4, SentTail
<1>6. QED
  BY <1>2, <1>3, <1>5, KeyFrame

LEMMA KeyMessage ==
    ASSUME TypeInv, NEW k \in Keys, KeyInv(k),
           OpenClient \/ LocEngInit \/ LocEngUp \/ LocEngGnssConstellationConfig
               \/ LocEngSetCapabilities
    PROVE  KeyInv(k)'
<1>1. /\ UNCHANGED <<host_set, adapter, agps, failed, modem, server_buf, at, tmp, arg, todo>>
      /\ stale \subseteq stale' /\ conn' \in {conn, "live"}
  BY DEF OpenClient, LocEngInit, LocEngUp, LocEngGnssConstellationConfig,
     LocEngSetCapabilities, Received, confVars, callVars
<1>2. \A p \in Params : gps_conf'[p] = gps_conf[p]
  <2>1. \A p \in Params : p # "CAPABILITIES" /\ p \in Fields
    BY ConstantFacts DEF Fields, Keys
  <2>2. QED
    BY <2>1 DEF OpenClient, LocEngInit, LocEngUp, LocEngGnssConstellationConfig,
       LocEngSetCapabilities, confVars, TypeInv, TypeOK
<1>3. Current(k)' = Current(k) /\ (Changing(k) => Changing(k)')
  <2>1. k \in Params \/ k \in Servers
    BY DEF Keys
  <2>2. k \in Params => k \in Fields
    BY DEF Fields
  <2>3. QED
    BY <1>1, <1>2, <2>1, <2>2, ConstantFacts DEF Current, Restored, Changing
<1>4. CASE LocEngInit
  <2>1. CASE k \in Params
    <3>1. job' = Reinit \o <<"capabilities">>
      BY <1>4 DEF LocEngInit
    <3>2. k \in Range(job')
      BY <2>1, <3>1, ReinitItems
    <3>3. QED
      BY <3>2 DEF KeyInv, Resend
  <2>2. CASE k \notin Params
    <3>1. Received("init")
      BY <1>4 DEF LocEngInit
    <3>2. QED
      BY <1>1, <1>3, <2>2, <3>1, KeyReceived
  <2>3. QED
    BY <2>1, <2>2
<1>5. CASE LocEngUp
  <2>1. job' = Reinit \o <<"agps">>
    BY <1>5 DEF LocEngUp
  <2>2. (k \in Params => k \in Range(job')) /\ "agps" \in Range(job')
    BY <2>1, ReinitItems
  <2>3. QED
    BY <2>2 DEF KeyInv, Resend, Keys
<1>6. CASE OpenClient
  <2>1. Received("open") \/ Received("ssr")
    BY <1>6 DEF OpenClient
  <2>2. QED
    BY <1>1, <1>3, <2>1, KeyReceived
<1>7. CASE LocEngGnssConstellationConfig
  <2>1. Received("constellation")
    BY <1>7 DEF LocEngGnssConstellationConfig
  <2>2. QED
    BY <1>1, <1>3, <2>1, KeyReceived
<1>8. CASE LocEngSetCapabilities
  <2>1. Received("capabilities")
    BY <1>8 DEF LocEngSetCapabilities
  <2>2. QED
    BY <1>1, <1>3, <2>1, KeyReceived
<1>9. QED
  BY <1>4, <1>5, <1>6, <1>7, <1>8

LEMMA KeySet ==
    ASSUME TypeInv, NotYet, ConnInv, NEW k \in Keys, KeyInv(k), Set
    PROVE  KeyInv(k)'
<1> DEFINE m == Head(queue)
<1>1. /\ queue \in Seq(Messages) /\ queue # <<>> /\ queue' = Tail(queue) /\ job = <<>>
      /\ m \in Messages /\ m.op = "set"
      /\ UNCHANGED <<gps_conf, server_buf, host_set, adapter, agps, at, tmp, arg, todo, conn,
                     errorCb, stale>>
  <2>1. Received("set")
    BY DEF Set
  <2>2. QED
    BY <2>1, ReceivedStep DEF Set, Received, confVars, callVars, TypeInv, TypeOK
<1>2. /\ Claimed(k)' = Claimed(k) /\ Current(k)' = Current(k) /\ ~ Resend(k)
      /\ Changing(k) => Changing(k)'
  BY <1>1 DEF Claimed, Current, Restored, Resend, Range, Changing
<1>3. Coming(k) => Coming(k)'
  BY <1>1, ComingTail
<1>4. DOMAIN modem = Keys
  BY DEF TypeInv, TypeOK
<1>5. CASE ~ IsSet(m, k)
  <2>1. m.key # k
    BY <1>1, <1>5 DEF IsSet
  <2>2. modem'[k] = modem[k] /\ (k \in failed => k \in failed')
    BY <1>4, <2>1 DEF Set
  <2>3. /\ NoSet(queue, k) => NoSet(queue', k)
        /\ \A v : LastSet(queue, k, v) => LastSet(queue', k, v)
    BY <1>1, <1>5, SetTail
  <2>4. Sent(k) => Sent(k)'
    BY <1>1, <1>2, <2>2, <2>3 DEF Sent
  <2>5. QED
    BY <1>1, <1>2, <1>3, <2>4, KeyFrame
<1>6. CASE IsSet(m, k)
  <2>1. m.key = k
    BY <1>6 DEF IsSet
  <2>2. ASSUME Sent(k) PROVE Sent(k)' \/ Coming(k)'
    <3>1. LastSet(queue, k, Current(k))
      BY <1>1, <1>6, <2>2, SetTail DEF Sent
    <3>2. CASE LastSet(queue', k, Current(k))
      BY <1>2, <3>2 DEF Sent
    <3>3. CASE m.value = Current(k) /\ NoSet(queue', k)
      <4>1. CASE conn = "live" /\ modem' = [modem EXCEPT ![k] = m.value]
        BY <1>1, <1>2, <1>4, <3>3, <4>1 DEF Sent
      <4>2. CASE k \in failed'
        BY <3>3, <4>2 DEF Sent
      <4>3. CASE conn # "live"
        <5>1. adapter
          BY <1>1 DEF NotYet
        <5>2. CASE errorCb
          BY <1>1, <5>2 DEF Coming
        <5>3. CASE ~ errorCb
          <6>1. Reopening(queue) /\ m.op \notin Opens
            BY <1>1, <4>3, <5>1, <5>3 DEF ConnInv, Opens
          <6>2. Has(queue', "up")
            BY <1>1, <6>1, OpenTail
          <6>3. QED
            BY <6>2 DEF Coming
        <5>4. QED
          BY <5>2, <5>3
      <4>4. QED
        BY <2>1, <4>1, <4>2, <4>3 DEF Set
    <3>4. QED
      BY <1>1, <3>1, <3>2, <3>3, SetTail
  <2>3. QED
    BY <1>1, <1>2, <1>3, <2>2 DEF KeyInv
<1>7. QED
  BY <1>5, <1>6

LEMMA KeyCompose ==
    ASSUME TypeInv, AgpsLast, NEW k \in Keys, KeyInv(k), Compose
    PROVE  KeyInv(k)'
<1> DEFINE item == Head(job)
<1>1. /\ job # <<>> /\ job \in Seq(Items) /\ item = job[1] /\ 1 \in DOMAIN job
      /\ UNCHANGED <<gps_conf, server_buf, host_set, adapter, agps, at, tmp, arg, todo,
                     conn, errorCb, modem, failed>>
  <2>1. job # <<>> /\ job \in Seq(Items)
    BY DEF Compose, InHandler, TypeInv, TypeOK, Items
  <2>2. QED
    BY <2>1, HandlerStep, TailFacts DEF Compose
<1>2. /\ Claimed(k)' = Claimed(k) /\ Current(k)' = Current(k)
      /\ Changing(k) => Changing(k)'
  BY <1>1 DEF Claimed, Current, Restored, Changing
<1>3. \A x \in Range(job) : x = item \/ x \in Range(Tail(job))
  BY <1>1, TailFacts
<1>4. k \notin {"constellation", "capabilities", "agps"}
  BY ConstantFacts
<1>5. CASE UNCHANGED <<queue, job, stale>>
  <2>1. (Coming(k) => Coming(k)') /\ (Resend(k) => Resend(k)')
    BY <1>1, <1>5 DEF Coming, Resend
  <2>2. QED
    BY <1>1, <1>2, <1>5, <2>1, SentSame, KeyFrame
<1>6. CASE /\ item \in {"constellation", "capabilities"} /\ queue' = Append(queue, Other(item))
           /\ job' = Tail(job) /\ UNCHANGED stale
  <2> DEFINE m == Other(item)
  <2>1. m \in Messages /\ ~ IsSet(m, k)
    BY <1>6, OtherMessage DEF Ops, IsSet
  <2>2. Resend(k) => Resend(k)'
    BY <1>3, <1>4, <1>6 DEF Resend
  <2> HIDE DEF m
  <2>3. queue' = Append(queue, m)
    BY <1>6 DEF m
  <2>4. Coming(k) => Coming(k)'
    BY <1>1, <2>1, <2>3, ComingAppend
  <2>5. Sent(k) => Sent(k)'
    BY <1>1, <1>2, <2>1, <2>3, SentAppend
  <2>6. QED
    BY <1>2, <1>6, <2>2, <2>4, <2>5, KeyFrame
<1>7. CASE /\ item = "agps" /\ job' = (IF agps THEN ServerOrder ELSE <<>>)
           /\ UNCHANGED <<queue, stale>>
  <2>1. Range(job) = {"agps"}
    <3>1. Len(job) = 1 /\ DOMAIN job = 1 .. Len(job)
      BY <1>1, <1>7, LenProperties DEF AgpsLast
    <3>2. QED
      BY <1>1, <1>7, <3>1 DEF Range
  <2>2. Resend(k) => k \in Servers
    BY <1>4, <2>1 DEF Resend
  <2>3. k \in Servers /\ agps => Resend(k)'
    BY <1>7 DEF Resend, Servers
  <2>4. k \in Servers /\ Claimed(k)' => agps
    BY ConstantFacts, <1>2 DEF Claimed
  <2>5. Coming(k) => Coming(k)'
    BY <1>1, <1>7 DEF Coming
  <2>6. Sent(k) => Sent(k)'
    BY <1>1, <1>2, <1>7, SentSame
  <2>7. QED
    BY <1>2, <1>7, <2>2, <2>3, <2>4, <2>5, <2>6 DEF KeyInv
<1>8. CASE /\ item \in Servers /\ job' = Tail(job) /\ UNCHANGED queue
           /\ (stale' = stale /\ item \notin host_set) \/ stale' = stale \cup {item}
  <2>1. Resend(k) => k = item \/ Resend(k)'
    BY <1>3, <1>8, ConstantFacts DEF Resend
  <2>2. k = item /\ Claimed(k)' => k \in stale'
    BY <1>2, <1>8, ConstantFacts DEF Claimed
  <2>3. Coming(k) => Coming(k)'
    BY <1>1, <1>8 DEF Coming
  <2>4. Sent(k) => Sent(k)'
    BY <1>1, <1>2, <1>8, SentSame
  <2>5. QED
    BY <1>2, <1>8, <2>1, <2>2, <2>3, <2>4 DEF KeyInv
<1>9. host_set \subseteq Servers
  BY DEF TypeInv, TypeOK
<1>10. QED
  BY <1>5, <1>6, <1>7, <1>8, <1>9 DEF Compose

LEMMA KeyPostDraft ==
    ASSUME TypeInv, NEW k \in Keys, KeyInv(k), PostDraft
    PROVE  KeyInv(k)'
<1>1. /\ job # <<>> /\ job \in Seq(Items) /\ job' = Tail(job) /\ queue' = Append(queue, draft)
      /\ draft \in Messages
      /\ UNCHANGED <<gps_conf, server_buf, host_set, adapter, agps, at, tmp, arg, todo,
                     conn, errorCb, modem, failed>>
  <2>1. job # <<>> /\ job \in Seq(Items) /\ draft \in Messages
    BY DEF PostDraft, InHandler, TypeInv, TypeOK, Items
  <2>2. QED
    BY <2>1, HandlerStep DEF PostDraft
<1>2. /\ draft = Setting(Head(job), draft.value) /\ draft.key = Head(job)
      /\ Head(job) \in Keys /\ draft.op = "set"
  BY SettingFields DEF PostDraft, TypeInv, DraftType
<1>3. /\ Claimed(k)' = Claimed(k) /\ Current(k)' = Current(k)
      /\ Changing(k) => Changing(k)'
  BY <1>1 DEF Claimed, Current, Restored, Changing
<1>4. Coming(k) => Coming(k)'
  BY <1>1, ComingAppend
<1>5. CASE k = Head(job)
  <2>1. CASE draft.value # Current(k)
    <3>1. k \in stale'
      BY <1>2, <1>5, <2>1 DEF PostDraft
    <3>2. QED
      BY <3>1 DEF KeyInv
  <2>2. CASE draft.value = Current(k)
    <3>1. queue' = Append(queue, Setting(k, Current(k)')) /\ Setting(k, Current(k)') \in Messages
      BY <1>1, <1>2, <1>3, <1>5, <2>2
    <3>2. Sent(k)'
      BY <3>1, SentPosted
    <3>3. QED
      BY <3>2 DEF KeyInv
  <2>3. QED
    BY <2>1, <2>2
<1>6. CASE k # Head(job)
  <2>1. ~ IsSet(draft, k)
    BY <1>2, <1>6 DEF IsSet
  <2>2. Sent(k) => Sent(k)'
    BY <1>1, <1>3, <2>1, SentAppend
  <2>3. Resend(k) => Resend(k)'
    <3>1. \A x \in Range(job) : x = Head(job) \/ x \in Range(job')
      BY <1>1, TailFacts
    <3>2. Head(job) # "agps"
      BY <1>2, ConstantFacts
    <3>3. QED
      BY <1>6, <3>1, <3>2 DEF Resend
  <2>4. k \in stale => k \in stale'
    BY <1>2, <1>6 DEF PostDraft
  <2>5. QED
    BY <1>3, <1>4, <2>2, <2>3, <2>4, KeyFrame
<1>7. QED
  BY <1>5, <1>6

ConfInv ==
    /\ TypeInv /\ NotYet /\ ConnInv /\ CallInv /\ AgpsLast
    /\ \A k \in Keys : KeyInv(k)

LEMMA ConfStep == ASSUME ConfInv, [Next]_vars PROVE ConfInv'
<1> USE DEF ConfInv
<1>1. (TypeInv /\ NotYet /\ ConnInv /\ CallInv /\ AgpsLast)'
  BY NextType, NotYetStep, ConnStep, CallInvStep, AgpsLastStep
<1>2. ASSUME NEW k \in Keys PROVE KeyInv(k)'
  <2>1. KeyInv(k)
    OBVIOUS
  <2>2. CASE Next
    BY <2>1, <2>2, KeyFramework, KeyGoesOn, KeyModem, KeyMessage, KeySet, KeyCompose,
       KeyPostDraft DEF Next, MsgTask
  <2>3. CASE UNCHANGED vars
    BY <2>1, <2>3 DEF vars, confVars, callVars, taskVars, modemVars, KeyInv, Claimed, Coming,
       Resend, Changing, Sent, Current, Restored
  <2>4. QED
    BY <2>2, <2>3
<1>3. Keys' = Keys
  OBVIOUS
<1>4. QED
  BY <1>1, <1>2

LEMMA ConfInit == Init => ConfInv
<1> SUFFICES ASSUME Init PROVE ConfInv
  OBVIOUS
<1>1. NotYet /\ ConnInv /\ CallInv /\ AgpsLast
  BY DEF Init, NotYet, ConnInv, NoOpen, CallInv, AgpsLast
<1>2. ASSUME NEW k \in Keys PROVE KeyInv(k)
  BY DEF Init, KeyInv, Claimed, Coming
<1>3. QED
  BY <1>1, <1>2, InitType DEF ConfInv

LEMMA ConfAlways == Spec => []ConfInv
  BY ConfInit, ConfStep, PTL DEF Spec

LEMMA SettledKey ==
    ASSUME ConfInv, Settled, NEW k \in Keys, Claimed(k)
    PROVE  Followed(k)
<1>1. /\ at = "idle" /\ job = <<>> /\ queue = <<>> /\ conn = "live"
  BY DEF Settled
<1>2. KeyInv(k) /\ NotYet /\ ConnInv
  BY DEF ConfInv
<1>3. ~ Coming(k)
  BY <1>1, <1>2 DEF Coming, Has, NotYet, ConnInv
<1>4. ~ Resend(k) /\ ~ Changing(k)
  BY <1>1 DEF Resend, Range, Changing
<1>5. Sent(k) => k \in failed \/ modem[k] = Current(k)
  BY <1>1 DEF Sent, LastSet
<1>6. QED
  BY <1>2, <1>3, <1>4, <1>5 DEF KeyInv, Followed

\* Whatever the framework does while the modem restarts, loc_eng_reinit and the carrier's
\* calls leave the modem with the parameters of gps_conf.
THEOREM ConfigStaysKept == Spec => []ConfigKept
<1>1. ConfInv => ConfigKept
  <2>1. \A p \in Params : p \in Keys /\ Claimed(p)
    BY DEF Keys, Claimed
  <2>2. QED
    BY <2>1, SettledKey DEF ConfigKept
<1>2. QED
  BY <1>1, ConfAlways, PTL

\* So do loc_eng_agps_reinit and loc_eng_set_server_proxy with the servers.
THEOREM ServersStayKept == Spec => []ServerKept
<1>1. ASSUME ConfInv PROVE ServerKept
  <2>1. SUFFICES ASSUME Settled, agps, AgpsCapable, NEW t \in host_set PROVE Followed(t)
    BY DEF ServerKept
  <2>2. t \in Keys /\ Claimed(t)
    BY <1>1, <2>1 DEF Keys, Claimed, ConfInv, TypeInv, TypeOK
  <2>3. QED
    BY <1>1, <2>1, <2>2, SettledKey
<1>2. QED
  BY <1>1, ConfAlways, PTL
===========================================================================
