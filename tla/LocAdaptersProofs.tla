------------------------- MODULE LocAdaptersProofs -------------------------
(***************************************************************************)
(* Proofs about LocAdapters, for any adapters, masks and excluded bits and *)
(* any number of changes, restarts and refusals: no event that an adapter  *)
(* of the list wants gets lost between its message and the registration.   *)
(* The invariant follows an event from the queue through the open that is  *)
(* under way to the mask of the client.                                    *)
(***************************************************************************)
EXTENDS LocAdapters, SequenceTheorems, TLAPS

InQueue(q, e) == \E i \in DOMAIN q : q[i].op = "open" /\ e \in q[i].mask

\* The mask of the client, or of the open that is under way.
HeldMask == IF pc = "idle" THEN mMask ELSE newMask

\* An event that is owed is held or queued, except that a dead client has
\* everything ahead of it.
OwedEvents ==
    ~ missed /\ ~ (pc = "idle" /\ conn = "dead") =>
        \A e \in getEvtMask(mLocAdapters, mEvtMask) : e \in HeldMask \/ InQueue(queue, e)

RegisteredMask ==
    /\ conn = "live" /\ pc = "idle" => registered = mMask
    /\ conn = "live" /\ pc = "finish" => registered = newMask

IInv == TypeOK /\ OwedEvents /\ RegisteredMask
---------------------------------------------------------------------------
(* Masks and the queue.                                                    *)

LEMMA MaskFacts ==
    ASSUME NEW group, NEW mask, NEW e
    PROVE  e \in getEvtMask(group, mask)
             <=> e \notin mExcludedMask /\ \E a \in group : e \in mask[a]
  BY DEF getEvtMask, MaskOf

LEMMA MaskType ==
    ASSUME NEW group \in SUBSET Adapters, NEW mask \in [Adapters -> SUBSET Events]
    PROVE  getEvtMask(group, mask) \in SUBSET Events
  BY MaskFacts

LEMMA AppendMask ==
    ASSUME NEW q \in Seq(Messages), NEW m \in Messages
    PROVE  /\ Append(q, m) \in Seq(Messages)
           /\ \A e : InQueue(q, e) => InQueue(Append(q, m), e)
           /\ m.op = "open" => \A e \in m.mask : InQueue(Append(q, m), e)
<1> DEFINE a == Append(q, m)
<1>1. /\ DOMAIN q = 1 .. Len(q) /\ Len(q) \in Nat
      /\ DOMAIN a = 1 .. Len(q) + 1
      /\ \A i \in 1 .. Len(q) : a[i] = q[i]
      /\ a[Len(q) + 1] = m
      /\ a \in Seq(Messages)
  BY AppendProperties
<1> HIDE DEF a
<1>2. \A i \in DOMAIN q : i \in DOMAIN a /\ a[i] = q[i]
  BY <1>1
<1>3. Len(q) + 1 \in DOMAIN a
  BY <1>1
<1>4. QED
  BY <1>1, <1>2, <1>3 DEF InQueue, a

LEMMA TailMask ==
    ASSUME NEW q \in Seq(Messages), q # <<>>
    PROVE  /\ Tail(q) \in Seq(Messages)
           /\ Head(q) \in Messages
           /\ \A e : InQueue(q, e) =>
                 InQueue(Tail(q), e) \/ (Head(q).op = "open" /\ e \in Head(q).mask)
<1> DEFINE r == Tail(q)
<1>1. /\ DOMAIN q = 1 .. Len(q) /\ Len(q) \in Nat \ {0}
      /\ DOMAIN r = 1 .. Len(q) - 1
      /\ \A i \in 1 .. Len(q) - 1 : r[i] = q[i + 1]
      /\ Head(q) = q[1]
      /\ r \in Seq(Messages) /\ Head(q) \in Messages
  BY HeadTailProperties, EmptySeq
<1> HIDE DEF r
<1>2. \A i \in DOMAIN q : i # 1 => i - 1 \in DOMAIN r /\ r[i - 1] = q[i]
  BY <1>1
<1>3. QED
  BY <1>1, <1>2 DEF InQueue, r
---------------------------------------------------------------------------
(* The adapters.                                                           *)

LEMMA ChangeKeeps ==
    ASSUME TypeOK, RegisteredMask, Change
    PROVE  /\ RegisteredMask'
           /\ HeldMask' = HeldMask
           /\ ops' \in Nat
           /\ UNCHANGED <<pc, newMask, tries, mMask, callbacks, missed, conn, registered,
                          errorCb, service, signal, crashes, refusals>>
  BY DEF Change, openVars, modemVars, RegisteredMask, HeldMask, TypeOK

LEMMA OpenMessage ==
    ASSUME NEW mask \in SUBSET Events
    PROVE  Open(mask) \in Messages /\ Open(mask).op = "open" /\ Open(mask).mask = mask
  BY DEF Open, Messages

LEMMA AddStep == ASSUME IInv, NEW a \in Adapters, addAdapter(a) PROVE IInv'
<1> USE DEF IInv
<1>1. Change /\ UNCHANGED <<mEvtMask, measuring>>
  BY DEF addAdapter
<1>2. mEvtMask[a] \in SUBSET Events /\ queue \in Seq(Messages)
  BY DEF TypeOK
<1>3. CASE UNCHANGED <<mLocAdapters, queue>>
  BY <1>1, <1>3, ChangeKeeps DEF TypeOK, OwedEvents, getEvtMask, MaskOf
<1>4. CASE /\ mLocAdapters' = mLocAdapters \cup {a}
           /\ queue' = Append(queue, Open(mEvtMask[a]))
  <2>1. /\ queue' \in Seq(Messages)
        /\ \A e : InQueue(queue, e) => InQueue(queue', e)
        /\ \A e \in mEvtMask[a] : InQueue(queue', e)
    BY <1>2, <1>4, OpenMessage, AppendMask
  <2>2. TypeOK'
    BY <1>1, <1>4, <2>1, ChangeKeeps DEF TypeOK
  <2>3. OwedEvents'
    BY <1>1, <1>4, <2>1, ChangeKeeps, MaskFacts DEF OwedEvents
  <2>4. QED
    BY <1>1, <2>2, <2>3, ChangeKeeps
<1>5. QED
  BY <1>3, <1>4 DEF addAdapter

LEMMA RemoveStep == ASSUME IInv, NEW a \in Adapters, removeAdapter(a) PROVE IInv'
<1> USE DEF IInv
<1>1. /\ Change /\ UNCHANGED <<mEvtMask, measuring>>
      /\ mLocAdapters' = mLocAdapters \ {a}
      /\ queue' = Append(queue, Open(getEvtMask(mLocAdapters', mEvtMask)))
  BY DEF removeAdapter
<1>2. PICK mask \in SUBSET Events : mask = getEvtMask(mLocAdapters', mEvtMask)
  BY <1>1, MaskType DEF TypeOK
<1>3. /\ queue' \in Seq(Messages)
      /\ \A e \in mask : InQueue(queue', e)
  <2>1. Open(mask) \in Messages /\ queue \in Seq(Messages)
    BY OpenMessage DEF TypeOK
  <2>2. queue' = Append(queue, Open(mask))
    BY <1>1, <1>2
  <2>3. QED
    BY <2>1, <2>2, OpenMessage, AppendMask
<1>4. TypeOK'
  BY <1>1, <1>3, ChangeKeeps DEF TypeOK
<1>5. OwedEvents'
  BY <1>1, <1>2, <1>3 DEF OwedEvents
<1>6. QED
  BY <1>1, <1>4, <1>5, ChangeKeeps

LEMMA UpdateStep ==
    ASSUME IInv, NEW a \in Adapters, NEW event \in Events, NEW isEnabled \in BOOLEAN,
           updateEvtMask(a, event, isEnabled)
    PROVE  IInv'
<1> USE DEF IInv
<1>1. /\ Change /\ UNCHANGED <<mLocAdapters, measuring>>
      /\ queue' = Append(queue, Open(getEvtMask(mLocAdapters, mEvtMask')))
  BY DEF updateEvtMask
<1>2. mEvtMask' \in [Adapters -> SUBSET Events]
  BY DEF updateEvtMask, TypeOK
<1>3. getEvtMask(mLocAdapters, mEvtMask') \in SUBSET Events /\ queue \in Seq(Messages)
  BY <1>2, MaskType DEF TypeOK
<1>4. /\ queue' \in Seq(Messages)
      /\ \A e \in getEvtMask(mLocAdapters, mEvtMask') : InQueue(queue', e)
  BY <1>1, <1>3, OpenMessage, AppendMask
<1>5. TypeOK'
  BY <1>1, <1>2, <1>4, ChangeKeeps DEF TypeOK
<1>6. OwedEvents'
  BY <1>1, <1>4 DEF OwedEvents
<1>7. QED
  BY <1>1, <1>5, <1>6, ChangeKeeps

LEMMA MeasurementStep ==
    ASSUME IInv, NEW isEnabled \in BOOLEAN, loc_eng_gps_measurement(isEnabled)
    PROVE  IInv'
<1> USE DEF IInv
<1> DEFINE m == [op |-> "registration", on |-> isEnabled]
<1>1. /\ Change /\ UNCHANGED <<mLocAdapters, mEvtMask>> /\ measuring' = isEnabled
      /\ queue' = Append(queue, m)
  BY DEF loc_eng_gps_measurement
<1>2. m \in Messages /\ queue \in Seq(Messages)
  BY DEF Messages, TypeOK
<1> HIDE DEF m
<1>3. /\ queue' \in Seq(Messages)
      /\ \A e : InQueue(queue, e) => InQueue(queue', e)
  BY <1>1, <1>2, AppendMask
<1>4. TypeOK'
  BY <1>1, <1>3, ChangeKeeps DEF TypeOK
<1>5. OwedEvents'
  BY <1>1, <1>3, ChangeKeeps, MaskFacts DEF OwedEvents
<1>6. QED
  BY <1>1, <1>4, <1>5, ChangeKeeps
---------------------------------------------------------------------------
Exempt == missed \/ (pc = "idle" /\ conn = "dead")

LEMMA OwedKept ==
    ASSUME OwedEvents, UNCHANGED <<mLocAdapters, mEvtMask>>,
           \A e : InQueue(queue, e) => InQueue(queue', e),
           Exempt => Exempt',
           ~ Exempt' => HeldMask \subseteq HeldMask'
    PROVE  OwedEvents'
<1>1. CASE Exempt'
  BY <1>1 DEF OwedEvents, Exempt
<1>2. CASE ~ Exempt'
  <2>1. SUFFICES ASSUME NEW e \in getEvtMask(mLocAdapters, mEvtMask)
                 PROVE  e \in HeldMask' \/ InQueue(queue', e)
    BY DEF OwedEvents
  <2>2. e \in HeldMask \/ InQueue(queue, e)
    BY <1>2, <2>1 DEF OwedEvents, Exempt
  <2>3. QED
    BY <1>2, <2>2
<1>3. QED
  BY <1>1, <1>2
---------------------------------------------------------------------------
(* The service.                                                            *)

LEMMA DownStep == ASSUME IInv, ServiceDown PROVE IInv'
<1> USE DEF IInv
<1>1. TypeOK'
  <2>0. crashes \in Nat
    BY DEF TypeOK
  <2>1. crashes' \in Nat /\ service' = FALSE
    BY <2>0 DEF ServiceDown
  <2>2. /\ conn' \in {"none", "live", "dead"} /\ errorCb' \in BOOLEAN
        /\ registered' \in SUBSET Events
    BY DEF ServiceDown, modemVars, TypeOK
  <2>3. UNCHANGED <<adapterVars, queue, openVars, signal, ops, refusals>>
    BY DEF ServiceDown
  <2>4. service' \in BOOLEAN
    BY <2>1
  <2>5. QED
    BY <2>1, <2>2, <2>3, <2>4 DEF adapterVars, openVars, TypeOK
<1>2. HeldMask' = HeldMask /\ (Exempt => Exempt')
  BY DEF ServiceDown, openVars, modemVars, HeldMask, Exempt
<1>3. UNCHANGED <<mLocAdapters, mEvtMask, queue>>
  BY DEF ServiceDown, adapterVars
<1>4. OwedEvents'
  BY <1>2, <1>3, OwedKept
<1>5. RegisteredMask'
  BY DEF ServiceDown, openVars, modemVars, RegisteredMask
<1>6. QED
  BY <1>1, <1>4, <1>5

LEMMA UpStep == ASSUME IInv, ServiceUp PROVE IInv'
<1> USE DEF IInv
<1>1. TypeOK'
  BY DEF ServiceUp, adapterVars, openVars, modemVars, TypeOK
<1>2. HeldMask' = HeldMask /\ (Exempt => Exempt') /\ RegisteredMask'
  BY DEF ServiceUp, openVars, modemVars, HeldMask, Exempt, RegisteredMask
<1>3. UNCHANGED <<mLocAdapters, mEvtMask, queue>>
  BY DEF ServiceUp, adapterVars
<1>4. QED
  BY <1>1, <1>2, <1>3, OwedKept

LEMMA ErrorStep == ASSUME IInv, locClientErrorCb PROVE IInv'
<1> USE DEF IInv
<1> DEFINE m == [op |-> "ssr"]
<1>1. m \in Messages /\ queue \in Seq(Messages)
  BY DEF Messages, TypeOK
<1>2. queue' = Append(queue, m) \/ queue' = queue
  BY DEF locClientErrorCb
<1> HIDE DEF m
<1>3. queue' \in Seq(Messages) /\ \A e : InQueue(queue, e) => InQueue(queue', e)
  <2>1. CASE queue' = Append(queue, m)
    BY <1>1, <2>1, AppendMask
  <2>2. CASE queue' = queue
    BY <1>1, <2>2
  <2>3. QED
    BY <1>2, <2>1, <2>2
<1>4. TypeOK'
  <2>1. errorCb' \in BOOLEAN /\ UNCHANGED <<adapterVars, openVars, conn, registered, service,
                                          signal, ops, crashes, refusals>>
    BY DEF locClientErrorCb
  <2>2. QED
    BY <1>3, <2>1 DEF adapterVars, openVars, TypeOK
<1>5. HeldMask' = HeldMask /\ (Exempt => Exempt') /\ RegisteredMask'
  BY DEF locClientErrorCb, openVars, HeldMask, Exempt, RegisteredMask
<1>6. UNCHANGED <<mLocAdapters, mEvtMask>>
  BY DEF locClientErrorCb, adapterVars
<1>7. QED
  BY <1>3, <1>4, <1>5, <1>6, OwedKept
---------------------------------------------------------------------------
(* The messages of the MsgTask thread.                                     *)

\* open(mask) in the idle thread holds what was held, and mask, unless it reports
\* a failure or the client is dead.
LEMMA OpenFacts ==
    ASSUME TypeOK, RegisteredMask, pc = "idle", NEW mask \in SUBSET Events, open(mask),
           UNCHANGED <<callbacks, conn>>
    PROVE  /\ pc' \in Places /\ newMask' \in SUBSET Events /\ mMask' \in SUBSET Events
           /\ tries' \in 0 .. MaxRetries + 1
           /\ registered' \in SUBSET Events /\ missed' \in BOOLEAN /\ refusals' \in Nat
           /\ RegisteredMask'
           /\ missed => missed'
           /\ conn = "dead" => pc' = "idle"
           /\ ~ missed' /\ conn # "dead" =>
                 /\ mMask \subseteq HeldMask'
                 /\ mask \ mExcludedMask \subseteq HeldMask'
<1> DEFINE new == OrMask(mMask, mask)
<1>1. /\ new \in SUBSET Events /\ mMask \subseteq new /\ mask \ mExcludedMask \subseteq new
      /\ MaxRetries \in Nat
  BY AdapterAssumption DEF OrMask, TypeOK
<1>2. \/ /\ conn = "none" /\ StartOpen(new)
         /\ UNCHANGED <<mMask, registered, missed, refusals>>
      \/ conn # "none" /\ RegisterOpen(new)
  BY DEF open
<1> HIDE DEF new
<1>3. CASE conn = "none" /\ StartOpen(new) /\ UNCHANGED <<mMask, registered, missed, refusals>>
  BY <1>1, <1>3 DEF StartOpen, TypeOK, Places, RegisteredMask, HeldMask
<1>4. CASE conn # "none" /\ RegisterOpen(new)
  <2>1. CASE /\ conn = "live" /\ Accepted
             /\ mMask' = new /\ registered' = new
             /\ UNCHANGED <<pc, newMask, tries, missed>>
    BY <1>1, <2>1 DEF Accepted, TypeOK, RegisteredMask, HeldMask
  <2>2. CASE /\ conn = "live" /\ Refused
             /\ missed' = TRUE
             /\ UNCHANGED <<pc, newMask, tries, mMask, registered>>
    BY <1>1, <2>2 DEF Refused, TypeOK, RegisteredMask, HeldMask
  <2>3. CASE /\ new = mMask \/ conn = "dead"
             /\ Accepted
             /\ UNCHANGED <<pc, newMask, tries, mMask, registered, missed>>
    BY <1>1, <2>3 DEF Accepted, TypeOK, RegisteredMask, HeldMask
  <2>4. QED
    BY <1>4, <2>1, <2>2, <2>3 DEF RegisterOpen
<1>5. QED
  BY <1>2, <1>3, <1>4

LEMMA OpenMsgStep == ASSUME IInv, LocOpenMsg PROVE IInv'
<1> USE DEF IInv
<1> DEFINE mask == Head(queue).mask
<1>1. /\ queue \in Seq(Messages) /\ queue # <<>> /\ Head(queue).op = "open" /\ pc = "idle"
      /\ queue' = Tail(queue) /\ open(mask)
      /\ UNCHANGED <<adapterVars, callbacks, conn, errorCb, service, signal, ops, crashes>>
  BY DEF LocOpenMsg, Received, TypeOK
<1>2. /\ queue' \in Seq(Messages) /\ Head(queue) \in Messages
      /\ \A e : InQueue(queue, e) => InQueue(queue', e) \/ e \in mask
  BY <1>1, TailMask
<1>3. mask \in SUBSET Events
  BY <1>1, <1>2 DEF Messages
<1> HIDE DEF mask
<1>4. TypeOK' /\ RegisteredMask'
  BY <1>1, <1>2, <1>3, OpenFacts DEF TypeOK, adapterVars
<1>5. OwedEvents'
  <2>1. SUFFICES ASSUME ~ missed', ~ (pc' = "idle" /\ conn' = "dead"),
                        NEW e \in getEvtMask(mLocAdapters, mEvtMask)
                 PROVE  e \in HeldMask' \/ InQueue(queue', e)
    BY <1>1 DEF OwedEvents, adapterVars
  <2>2. ~ missed /\ conn # "dead"
    BY <1>1, <1>3, <2>1, OpenFacts
  <2>3. e \in mMask \/ InQueue(queue, e)
    BY <1>1, <2>1, <2>2 DEF OwedEvents, HeldMask
  <2>4. e \notin mExcludedMask
    BY <2>1, MaskFacts
  <2>5. QED
    BY <1>1, <1>2, <1>3, <2>1, <2>2, <2>3, <2>4, OpenFacts
<1>6. QED
  BY <1>4, <1>5

LEMMA RegistrationStep == ASSUME IInv, LocEngUpdateRegistrationMask PROVE IInv'
<1> USE DEF IInv
<1> DEFINE mask == IF Head(queue).on THEN mMask \cup {Measurement} ELSE mMask \ {Measurement}
<1>1. /\ queue \in Seq(Messages) /\ queue # <<>> /\ Head(queue).op # "open" /\ pc = "idle"
      /\ queue' = Tail(queue) /\ open(mask)
      /\ UNCHANGED <<adapterVars, callbacks, conn, errorCb, service, signal, ops, crashes>>
  BY DEF LocEngUpdateRegistrationMask, Received, TypeOK
<1>2. queue' \in Seq(Messages) /\ \A e : InQueue(queue, e) => InQueue(queue', e)
  BY <1>1, TailMask
<1>3. mask \in SUBSET Events
  BY AdapterAssumption DEF TypeOK
<1> HIDE DEF mask
<1>4. TypeOK' /\ RegisteredMask'
  BY <1>1, <1>2, <1>3, OpenFacts DEF TypeOK, adapterVars
<1>5. OwedEvents'
  <2>1. SUFFICES ASSUME ~ missed', ~ (pc' = "idle" /\ conn' = "dead"),
                        NEW e \in getEvtMask(mLocAdapters, mEvtMask)
                 PROVE  e \in HeldMask' \/ InQueue(queue', e)
    BY <1>1 DEF OwedEvents, adapterVars
  <2>2. ~ missed /\ conn # "dead"
    BY <1>1, <1>3, <2>1, OpenFacts
  <2>3. e \in mMask \/ InQueue(queue, e)
    BY <1>1, <2>1, <2>2 DEF OwedEvents, HeldMask
  <2>4. QED
    BY <1>1, <1>2, <1>3, <2>1, <2>2, <2>3, OpenFacts
<1>6. QED
  BY <1>4, <1>5

LEMMA SsrStep == ASSUME IInv, LocSsrMsg PROVE IInv'
<1> USE DEF IInv
<1> DEFINE mask == getEvtMask(mLocAdapters, mEvtMask)
<1>1. queue' \in Seq(Messages)
  BY TailMask DEF LocSsrMsg, Received, TypeOK
<1>2. newMask' = mask
  BY MaskFacts DEF LocSsrMsg, StartOpen, OrMask
<1>3. mask \in SUBSET Events
  BY MaskType DEF TypeOK
<1>4. TypeOK'
  <2>1. /\ conn' = "none" /\ registered' = {} /\ mMask' = {} /\ pc' = "clear"
        /\ callbacks' \in BOOLEAN /\ errorCb' \in BOOLEAN /\ missed' \in BOOLEAN
        /\ tries' = 1
        /\ UNCHANGED <<adapterVars, service, signal, ops, crashes, refusals>>
    BY DEF LocSsrMsg, StartOpen
  <2>2. tries' \in 0 .. MaxRetries + 1
    BY <2>1, AdapterAssumption
  <2> HIDE DEF mask
  <2>3. QED
    BY <1>1, <1>2, <1>3, <2>1, <2>2 DEF adapterVars, TypeOK, Places
<1>5. OwedEvents'
  BY <1>2 DEF LocSsrMsg, StartOpen, adapterVars, OwedEvents, HeldMask
<1>6. RegisteredMask'
  BY DEF LocSsrMsg, RegisteredMask
<1>7. QED
  BY <1>4, <1>5, <1>6
---------------------------------------------------------------------------
(* The MsgTask thread in locClientOpen.                                    *)

\* An open that goes on holds the same mask.
LEMMA OpeningKeeps ==
    ASSUME OwedEvents, pc # "idle",
           UNCHANGED <<mLocAdapters, mEvtMask, queue, newMask>>,
           missed => missed',
           pc' # "idle" \/ missed' \/ mMask' = newMask
    PROVE  OwedEvents'
<1>1. CASE missed'
  BY <1>1 DEF OwedEvents
<1>2. CASE ~ missed'
  <2>1. HeldMask' = HeldMask
    BY <1>2 DEF HeldMask
  <2>2. Exempt => Exempt'
    BY <1>2 DEF Exempt
  <2>3. QED
    BY <2>1, <2>2, OwedKept
<1>3. QED
  BY <1>1, <1>2

LEMMA RetryFacts ==
    ASSUME TypeOK, tries \in Nat, Retry
    PROVE  /\ conn' = "none" /\ registered' = {}
           /\ errorCb' \in BOOLEAN /\ missed' \in BOOLEAN
           /\ tries' \in 0 .. MaxRetries + 1
           /\ mMask' \in SUBSET Events
           /\ pc' \in Places
           /\ missed => missed'
           /\ pc' # "idle" \/ missed'
<1>1. conn' = "none" /\ registered' = {} /\ errorCb' \in BOOLEAN
  BY DEF Retry
<1>2. CASE tries <= MaxRetries /\ tries' = tries + 1 /\ pc' = "clear" /\ UNCHANGED <<mMask, missed>>
  <2>1. tries' \in 0 .. MaxRetries + 1
    BY <1>2, AdapterAssumption
  <2>2. missed' \in BOOLEAN /\ mMask' \in SUBSET Events
    BY <1>2 DEF TypeOK
  <2>3. QED
    BY <1>1, <1>2, <2>1, <2>2 DEF Places
<1>3. CASE pc' = "idle" /\ mMask' = {} /\ missed' = TRUE /\ UNCHANGED tries
  <2>1. tries' \in 0 .. MaxRetries + 1
    BY <1>3 DEF TypeOK
  <2>2. missed' \in BOOLEAN
    BY <1>3
  <2>3. QED
    BY <1>1, <1>3, <2>1, <2>2 DEF Places
<1>4. QED
  BY <1>2, <1>3 DEF Retry

LEMMA WaitStep == ASSUME IInv, ClearSignal \/ Lookup \/ WaitSignal PROVE IInv'
<1> USE DEF IInv
<1>1. /\ UNCHANGED <<adapterVars, queue, newMask, tries, mMask, callbacks, missed,
                     modemVars, service, ops, crashes, refusals>>
      /\ pc \in {"clear", "lookup", "wait"}
      /\ pc' \in {"clear", "lookup", "wait", "init"}
  BY DEF ClearSignal, Lookup, WaitSignal
<1>2. signal' \in BOOLEAN
  BY DEF ClearSignal, Lookup, WaitSignal, TypeOK
<1>3. TypeOK'
  BY <1>1, <1>2 DEF TypeOK, Places, adapterVars, modemVars
<1>4. OwedEvents'
  BY <1>1, OpeningKeeps DEF adapterVars
<1>5. RegisteredMask'
  BY <1>1 DEF RegisteredMask
<1>6. QED
  BY <1>3, <1>4, <1>5

\* The part that InitClient and RegisterMask share.
LEMMA AttemptStep ==
    ASSUME IInv, pc # "idle",
           UNCHANGED <<adapterVars, queue, newMask, callbacks, service, signal, ops, crashes>>,
           Accepted \/ Refused,
           \/ Retry
           \/ /\ conn' \in {"none", "live", "dead"} /\ registered' \in SUBSET Events
              /\ UNCHANGED <<errorCb, tries, mMask, missed>>
              /\ pc' \in Places \ {"idle"}
              /\ pc' = "finish" => registered' = newMask
    PROVE  IInv'
<1> USE DEF IInv
<1>1. refusals' \in Nat
  BY DEF Accepted, Refused, TypeOK
<1>2. tries \in Nat
  BY AdapterAssumption DEF TypeOK
<1>3. /\ conn' \in {"none", "live", "dead"} /\ registered' \in SUBSET Events
      /\ errorCb' \in BOOLEAN /\ missed' \in BOOLEAN
      /\ tries' \in 0 .. MaxRetries + 1
      /\ mMask' \in SUBSET Events
      /\ pc' \in Places
      /\ missed => missed'
      /\ pc' # "idle" \/ missed'
  <2>1. CASE Retry
    BY <1>2, <2>1, RetryFacts
  <2>2. CASE ~ Retry
    BY <2>2 DEF TypeOK
  <2>3. QED
    BY <2>1, <2>2
<1>4. TypeOK'
  BY <1>1, <1>3 DEF TypeOK, adapterVars
<1>5. OwedEvents'
  BY <1>3, OpeningKeeps DEF adapterVars
<1>6. RegisteredMask'
  <2>1. CASE Retry
    BY <2>1 DEF Retry, RegisteredMask
  <2>2. CASE ~ Retry
    BY <2>2 DEF RegisteredMask
  <2>3. QED
    BY <2>1, <2>2
<1>7. QED
  BY <1>4, <1>5, <1>6

LEMMA InitClientStep == ASSUME IInv, InitClient PROVE IInv'
<1>1. Retry \/ (/\ conn' = "live" /\ pc' = "register"
                /\ UNCHANGED <<registered, errorCb, tries, mMask, missed>>)
  BY DEF InitClient
<1>2. /\ pc # "idle" /\ (Accepted \/ Refused)
      /\ UNCHANGED <<adapterVars, queue, newMask, callbacks, service, signal, ops, crashes>>
  BY DEF InitClient
<1>3. registered \in SUBSET Events
  BY DEF IInv, TypeOK
<1>4. QED
  BY <1>1, <1>2, <1>3, AttemptStep DEF Places, InitClient

LEMMA RegisterMaskStep == ASSUME IInv, RegisterMask PROVE IInv'
<1>1. Retry \/ (/\ registered' = newMask /\ pc' = "finish"
                /\ UNCHANGED <<conn, errorCb, tries, mMask, missed>>)
  BY DEF RegisterMask
<1>2. /\ pc # "idle" /\ (Accepted \/ Refused)
      /\ UNCHANGED <<adapterVars, queue, newMask, callbacks, service, signal, ops, crashes>>
  BY DEF RegisterMask
<1>3. newMask \in SUBSET Events /\ conn \in {"none", "live", "dead"}
  BY DEF IInv, TypeOK
<1>4. QED
  BY <1>1, <1>2, <1>3, AttemptStep DEF Places, RegisterMask

LEMMA FinishStep == ASSUME IInv, FinishOpen PROVE IInv'
<1> USE DEF IInv
<1>1. /\ pc = "finish" /\ pc' = "idle" /\ mMask' = newMask /\ callbacks' \in BOOLEAN
      /\ UNCHANGED <<adapterVars, queue, newMask, tries, missed, modemVars, service,
                     signal, ops, crashes, refusals>>
  BY DEF FinishOpen
<1>2. TypeOK'
  BY <1>1 DEF TypeOK, Places, adapterVars, modemVars
<1>3. OwedEvents'
  BY <1>1, OpeningKeeps DEF adapterVars
<1>4. RegisteredMask'
  BY <1>1 DEF RegisteredMask, modemVars
<1>5. QED
  BY <1>2, <1>3, <1>4
---------------------------------------------------------------------------
LEMMA InitInv == ASSUME Init PROVE IInv
<1>1. PICK mask \in [Adapters -> SUBSET (Events \ {Measurement})] :
          mEvtMask = mask /\ queue = <<Open(mask[Engine])>>
  BY DEF Init, Open
<1>2. Engine \in Adapters /\ mask[Engine] \in SUBSET Events
  BY <1>1, AdapterAssumption
<1>3. Open(mask[Engine]) \in Messages
  BY <1>2, OpenMessage
<1> DEFINE m == Open(mask[Engine])
<1>4. m \in Messages /\ queue = <<m>> /\ m.op = "open" /\ m.mask = mask[Engine]
  BY <1>1, <1>2, <1>3, OpenMessage
<1> HIDE DEF m
<1>5. queue \in Seq(Messages) /\ 1 \in DOMAIN queue /\ queue[1] = m
  BY <1>4
<1>6. TypeOK
  <2>1. tries \in 0 .. MaxRetries + 1 /\ ops \in Nat /\ crashes \in Nat /\ refusals \in Nat
    BY AdapterAssumption DEF Init
  <2>2. mEvtMask \in [Adapters -> SUBSET Events]
    BY <1>1
  <2>3. QED
    BY <1>2, <1>5, <2>1, <2>2 DEF Init, TypeOK, Places
<1>7. OwedEvents
  <2>1. SUFFICES ASSUME NEW e \in getEvtMask(mLocAdapters, mEvtMask) PROVE InQueue(queue, e)
    BY DEF OwedEvents
  <2>2. e \in mask[Engine]
    BY <1>1, <2>1, MaskFacts DEF Init
  <2>3. QED
    BY <1>4, <1>5, <2>2 DEF InQueue
<1>8. QED
  BY <1>6, <1>7 DEF Init, RegisteredMask, IInv

LEMMA StepInv == ASSUME IInv, [Next]_vars PROVE IInv'
<1>1. CASE UNCHANGED vars
  <2>1. TypeOK'
    BY <1>1 DEF IInv, TypeOK, vars, adapterVars, openVars, modemVars
  <2>2. OwedEvents'
    BY <1>1 DEF IInv, OwedEvents, HeldMask, vars, adapterVars, openVars, modemVars
  <2>3. RegisteredMask'
    BY <1>1 DEF IInv, RegisteredMask, vars, adapterVars, openVars, modemVars
  <2>4. QED
    BY <2>1, <2>2, <2>3 DEF IInv
<1>2. CASE MsgTask
  BY <1>2, OpenMsgStep, RegistrationStep, SsrStep, WaitStep, InitClientStep,
     RegisterMaskStep, FinishStep DEF MsgTask
<1>3. CASE \E a \in Adapters :
              \/ addAdapter(a)
              \/ removeAdapter(a)
              \/ \E event \in Events, isEnabled \in BOOLEAN : updateEvtMask(a, event, isEnabled)
  BY <1>3, AddStep, RemoveStep, UpdateStep
<1>4. CASE ServiceDown \/ ServiceUp \/ locClientErrorCb
              \/ \E isEnabled \in BOOLEAN : loc_eng_gps_measurement(isEnabled)
  BY <1>4, DownStep, UpStep, ErrorStep, MeasurementStep
<1>5. QED
  BY <1>1, <1>2, <1>3, <1>4 DEF Next

LEMMA Invariance == Spec => []IInv
  BY InitInv, StepInv, PTL DEF Spec

\* The variables keep their types, however many adapters, messages and restarts.
THEOREM TypeCorrect == Spec => []TypeOK
<1>1. IInv => TypeOK
  BY DEF IInv
<1>2. QED
  BY <1>1, Invariance, PTL

\* No order of messages, each with a mask computed when it was posted, loses an
\* event that an adapter in the list wants (LocOpenMsg, LocSsrMsg, updateEvtMask):
\* the safety half of what LocApiBase promises its adapters.
THEOREM EventsStayKept == Spec => []EventsKept
<1>1. ASSUME IInv PROVE EventsKept
  <2>1. SUFFICES ASSUME pc = "idle", queue = <<>>, conn = "live", ~ missed,
                        NEW e \in getEvtMask(mLocAdapters, mEvtMask)
                 PROVE  e \in registered
    BY DEF EventsKept
  <2>2. ~ InQueue(queue, e)
    BY <2>1 DEF InQueue
  <2>3. e \in HeldMask
    BY <1>1, <2>1, <2>2 DEF IInv, OwedEvents
  <2>4. QED
    BY <1>1, <2>1, <2>3 DEF IInv, RegisteredMask, HeldMask
<1>2. QED
  BY <1>1, Invariance, PTL
===========================================================================
