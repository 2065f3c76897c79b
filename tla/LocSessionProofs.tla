-------------------------- MODULE LocSessionProofs --------------------------
(***************************************************************************)
(* For any modes and any number of calls, and as long as the modem neither *)
(* restarts nor refuses, the adapter, LocApiV02 and the modem agree on     *)
(* whether a session runs at every moment, and a deletion waits only for   *)
(* an engine that was reported on.  The strengthening says that without a  *)
(* restart no message of one is queued and the client stays live.          *)
(***************************************************************************)
EXTENDS LocSession, TLAPS

Restarts == {"down", "ssr", "up"}

Undisturbed ==
    crashes = 0 =>
        /\ errorCb = <<>> /\ client = "live"
        /\ \A i \in 1 .. Len(queue) : queue[i].op \notin Restarts

IInv == TypeOK /\ Undisturbed /\ LayersAgree /\ DeletionNotHeldUp

---------------------------------------------------------------------------
(* Messages and queues. *)

\* What a queued message carries.
LEMMA Carries ==
    ASSUME NEW m \in Messages
    PROVE  /\ m.op = "mode" => m.mode \in Modes
           /\ m.op \in {"engine", "status"} => m.on \in BOOLEAN
  BY DEF Messages

\* What the handlers and the framework post are messages.
LEMMA Posted ==
    /\ \A m \in Modes : [op |-> "mode", mode |-> m] \in Messages
    /\ \A on \in BOOLEAN : /\ [op |-> "engine", on |-> on] \in Messages
                           /\ [op |-> "status", on |-> on] \in Messages
    /\ \A o \in {"start", "stop", "delete", "down", "ssr", "up"} :
          [op |-> o] \in Messages
  BY DEF Messages

\* Taking a message leaves a queue, and taking or posting keeps it free of
\* the messages of a restart.
LEMMA QueueFacts ==
    ASSUME NEW q \in Seq(Messages)
    PROVE  /\ q # <<>> => /\ Head(q) \in Messages /\ Head(q) = q[1]
                          /\ Tail(q) \in Seq(Messages)
                          /\ Len(Tail(q)) = Len(q) - 1
                          /\ \A i \in 1 .. Len(q) - 1 : Tail(q)[i] = q[i + 1]
           /\ \A m \in Messages :
                /\ Append(q, m) \in Seq(Messages)
                /\ Len(Append(q, m)) = Len(q) + 1
                /\ \A i \in 1 .. Len(q) : Append(q, m)[i] = q[i]
                /\ Append(q, m)[Len(q) + 1] = m
           /\ Len(q) \in Nat
           /\ q # <<>> => Len(q) > 0
  OBVIOUS

Calm(q) == \A i \in 1 .. Len(q) : q[i].op \notin Restarts

LEMMA TailCalm ==
    ASSUME NEW q \in Seq(Messages), q # <<>>, Calm(q)
    PROVE  Calm(Tail(q)) /\ Head(q).op \notin Restarts
  BY QueueFacts DEF Calm

LEMMA AppendCalm ==
    ASSUME NEW q \in Seq(Messages), Calm(q),
           NEW m \in Messages, m.op \notin Restarts
    PROVE  Calm(Append(q, m))
<1>1. SUFFICES ASSUME NEW i \in 1 .. Len(Append(q, m))
               PROVE  Append(q, m)[i].op \notin Restarts
  BY DEF Calm
<1>2. i \in 1 .. Len(q) \/ i = Len(q) + 1
  BY QueueFacts
<1>3. QED
  BY <1>2, QueueFacts DEF Calm

---------------------------------------------------------------------------
(* Types. *)

LEMMA InitType == Init => TypeOK
<1> SUFFICES ASSUME Init PROVE TypeOK OBVIOUS
<1> USE DEF Init
<1>1. want \in [run: BOOLEAN, mode: Modes \cup {None}] OBVIOUS
<1>2. queue \in Seq(Messages) /\ errorCb \in Seq(Messages) OBVIOUS
<1>3. calls \in Nat /\ crashes \in Nat /\ refusals \in Nat OBVIOUS
<1>4. QED
  BY <1>1, <1>2, <1>3 DEF TypeOK

LEMMA RefusalsType ==
    ASSUME refusals \in Nat, Refused \/ Accepted
    PROVE  refusals' \in Nat
  BY DEF Refused, Accepted

LEMMA MaskType ==
    ASSUME registered \in BOOLEAN, NEW in \in BOOLEAN, registerEventMask(in)
    PROVE  registered' \in BOOLEAN
  BY DEF registerEventMask

\* The requests to the modem keep the types of what they change.
LEMMA RequestType ==
    ASSUME TypeOK
    PROVE  /\ \A mode \in Modes \cup {None}, held \in BOOLEAN :
                 startFix(mode, held) =>
                    /\ mInSession' \in BOOLEAN /\ registered' \in BOOLEAN
                    /\ session' \in Modes \cup {None} /\ refusals' \in Nat
           /\ stopFix =>
                    /\ mInSession' \in BOOLEAN /\ registered' \in BOOLEAN
                    /\ session' \in Modes \cup {None} /\ refusals' \in Nat
<1> USE DEF TypeOK
<1>1. ASSUME NEW mode \in Modes \cup {None}, NEW held \in BOOLEAN,
             startFix(mode, held)
      PROVE  /\ mInSession' \in BOOLEAN /\ registered' \in BOOLEAN
             /\ session' \in Modes \cup {None} /\ refusals' \in Nat
  <2>1. Refused \/ Accepted
    BY <1>1 DEF startFix
  <2>2. session' \in Modes \cup {None}
    BY <1>1, SessionAssumption DEF startFix, ModeToRun
  <2>3. mInSession' = TRUE /\ registerEventMask(TRUE)
    BY <1>1 DEF startFix
  <2>4. QED
    BY <2>1, <2>2, <2>3, RefusalsType, MaskType
<1>2. ASSUME stopFix
      PROVE  /\ mInSession' \in BOOLEAN /\ registered' \in BOOLEAN
             /\ session' \in Modes \cup {None} /\ refusals' \in Nat
  <2>1. Refused \/ Accepted
    BY <1>2 DEF stopFix
  <2>2. session' \in Modes \cup {None}
    BY <1>2 DEF stopFix
  <2>3. mInSession' = FALSE /\ (registered' = registered \/ registerEventMask(FALSE))
    BY <1>2 DEF stopFix
  <2>4. QED
    BY <2>1, <2>2, <2>3, RefusalsType, MaskType
<1>3. QED
  BY <1>1, <1>2

LEMMA CallType ==
    ASSUME TypeOK, Framework
    PROVE  TypeOK'
<1> USE DEF Call, Post, handlerVars, apiVars, modemVars
<1>1. ASSUME NEW m \in Messages, Call(m), want' \in [run: BOOLEAN, mode: Modes \cup {None}]
      PROVE  TypeOK'
  <2>1. queue' \in Seq(Messages)
    BY <1>1, QueueFacts DEF TypeOK
  <2>2. calls' \in Nat
    BY <1>1 DEF TypeOK
  <2>3. QED
    BY <1>1, <2>1, <2>2 DEF TypeOK
<1>2. ASSUME NEW m \in Modes, loc_eng_set_position_mode(m) PROVE TypeOK'
  <2>1. want' \in [run: BOOLEAN, mode: Modes \cup {None}]
    BY <1>2 DEF loc_eng_set_position_mode, TypeOK
  <2>2. QED
    BY <1>1, <1>2, <2>1, Posted DEF loc_eng_set_position_mode
<1>3. ASSUME loc_eng_start PROVE TypeOK'
  <2>1. want' \in [run: BOOLEAN, mode: Modes \cup {None}]
    BY <1>3 DEF loc_eng_start, TypeOK
  <2>2. QED
    BY <1>1, <1>3, <2>1, Posted DEF loc_eng_start
<1>4. ASSUME loc_eng_stop PROVE TypeOK'
  <2>1. want' \in [run: BOOLEAN, mode: Modes \cup {None}]
    BY <1>4 DEF loc_eng_stop, TypeOK
  <2>2. QED
    BY <1>1, <1>4, <2>1, Posted DEF loc_eng_stop
<1>5. ASSUME loc_eng_delete_aiding_data PROVE TypeOK'
  <2>1. want' \in [run: BOOLEAN, mode: Modes \cup {None}]
    BY <1>5 DEF loc_eng_delete_aiding_data, TypeOK
  <2>2. QED
    BY <1>1, <1>5, <2>1, Posted DEF loc_eng_delete_aiding_data
<1>6. QED
  BY <1>2, <1>3, <1>4, <1>5 DEF Framework

\* What a handler takes, and what it leaves behind.
LEMMA TakeType ==
    ASSUME TypeOK, NEW op, Received(op)
    PROVE  /\ Head(queue) \in Messages /\ Head(queue).op = op
           /\ Tail(queue) \in Seq(Messages)
           /\ \A m \in Messages : Append(Tail(queue), m) \in Seq(Messages)
  BY QueueFacts DEF TypeOK, Received

LEMMA HandlerType ==
    ASSUME TypeOK, MsgTask
    PROVE  TypeOK'
<1> USE DEF handlerVars, apiVars, modemVars, boundVars, Done, DoneAndPost
<1>1. ASSUME loc_eng_start_handler PROVE TypeOK'
  <2> USE <1>1 DEF loc_eng_start_handler
  <2>1. queue' \in Seq(Messages) BY TakeType
  <2>2. /\ mInSession' \in BOOLEAN /\ registered' \in BOOLEAN /\ mNavigating' \in BOOLEAN
        /\ session' \in Modes \cup {None} /\ refusals' \in Nat
    BY RequestType DEF TypeOK
  <2>3. mFixCriteria' = mFixCriteria OBVIOUS
  <2>4. QED BY <2>1, <2>2, <2>3 DEF TypeOK
<1>2. ASSUME loc_eng_stop_handler PROVE TypeOK'
  <2> USE <1>2 DEF loc_eng_stop_handler
  <2>1. queue' \in Seq(Messages) BY TakeType
  <2>2. /\ mInSession' \in BOOLEAN /\ registered' \in BOOLEAN
        /\ session' \in Modes \cup {None} /\ refusals' \in Nat
    BY RequestType DEF TypeOK
  <2>3. mFixCriteria' \in Modes \cup {None} /\ mNavigating' \in BOOLEAN
    BY DEF TypeOK, setInSession
  <2>4. QED BY <2>1, <2>2, <2>3 DEF TypeOK
<1>3. ASSUME setPositionMode PROVE TypeOK'
  <2> USE <1>3 DEF setPositionMode
  <2>1. queue' \in Seq(Messages) BY TakeType
  <2>2. mFixCriteria' \in Modes
    BY TakeType, Carries
  <2>3. /\ mInSession' \in BOOLEAN /\ registered' \in BOOLEAN
        /\ session' \in Modes \cup {None} /\ refusals' \in Nat
    BY <2>2, RequestType DEF TypeOK
  <2>4. QED BY <2>1, <2>2, <2>3 DEF TypeOK
<1>4. ASSUME MsgUpdateEngineState PROVE TypeOK'
  <2> USE <1>4 DEF MsgUpdateEngineState
  <2>1. Head(queue).on \in BOOLEAN
    BY TakeType, Carries
  <2>2. queue' \in Seq(Messages)
    BY <2>1, TakeType, Posted
  <2>3. registered' \in BOOLEAN /\ mEngineOn' \in BOOLEAN
    BY <2>1 DEF registerEventMask, TypeOK
  <2>4. QED BY <2>2, <2>3 DEF TypeOK
<1>5. ASSUME LocEngReportStatus PROVE TypeOK'
  <2> USE <1>5 DEF LocEngReportStatus
  <2>1. queue' \in Seq(Messages) BY TakeType
  <2>2. engine_status' \in BOOLEAN
    BY TakeType, Carries
  <2>3. aiding' \in BOOLEAN
    BY DEF update_aiding_data_for_deletion
  <2>4. QED BY <2>1, <2>2, <2>3 DEF TypeOK
<1>6. ASSUME LocEngDelAidData PROVE TypeOK'
  <2> USE <1>6 DEF LocEngDelAidData
  <2>1. queue' \in Seq(Messages) BY TakeType
  <2>2. aiding' \in BOOLEAN
    BY DEF update_aiding_data_for_deletion
  <2>3. QED BY <2>1, <2>2 DEF TypeOK
<1>7. ASSUME loc_eng_handle_engine_down PROVE TypeOK'
  <2>1. queue' \in Seq(Messages) BY <1>7, TakeType DEF loc_eng_handle_engine_down
  <2>2. /\ engine_status' \in BOOLEAN
        /\ UNCHANGED <<want, mNavigating, mFixCriteria, aiding, mInSession, mEngineOn,
                       client, registered, session, engine, errorCb, calls, crashes,
                       refusals>>
    BY <1>7 DEF loc_eng_handle_engine_down
  <2> HIDE DEF handlerVars, apiVars, modemVars, boundVars, Done, DoneAndPost
  <2>3. QED BY <2>1, <2>2 DEF TypeOK
<1>8. ASSUME LocSsrMsg PROVE TypeOK'
  <2> USE <1>8 DEF LocSsrMsg
  <2>1. queue' \in Seq(Messages) BY TakeType
  <2>2. /\ client' \in {"live", "none"} /\ registered' \in BOOLEAN
        /\ refusals' \in Nat
    BY RefusalsType DEF open, TypeOK
  <2>3. QED BY <2>1, <2>2 DEF TypeOK
<1>9. ASSUME loc_eng_handle_engine_up PROVE TypeOK'
  <2> USE <1>9 DEF loc_eng_handle_engine_up
  <2>1. queue' \in Seq(Messages)
    BY TakeType, Posted
  <2>2. mFixCriteria' \in Modes \cup {None} /\ mNavigating' \in BOOLEAN
    BY DEF TypeOK, setInSession
  <2>3. QED BY <2>1, <2>2 DEF TypeOK
<1>10. QED
  BY <1>1, <1>2, <1>3, <1>4, <1>5, <1>6, <1>7, <1>8, <1>9 DEF MsgTask

LEMMA ModemType ==
    ASSUME TypeOK, EngineFollows \/ Crash \/ ErrorCbPosts
    PROVE  TypeOK'
<1> USE DEF handlerVars, apiVars, modemVars, boundVars, Post
<1>1. ASSUME EngineFollows PROVE TypeOK'
  <2> USE <1>1 DEF EngineFollows
  <2>1. engine' \in BOOLEAN BY DEF TypeOK
  <2>2. [op |-> "engine", on |-> engine'] \in Messages
    BY <2>1, Posted
  <2>3. queue' = queue \/ queue' = Append(queue, [op |-> "engine", on |-> engine'])
    <3>1. reportEngineState(engine') OBVIOUS
    <3>2. QED BY <3>1 DEF reportEngineState
  <2>4. queue' \in Seq(Messages)
    <3>1. queue \in Seq(Messages) BY DEF TypeOK
    <3>2. Append(queue, [op |-> "engine", on |-> engine']) \in Seq(Messages)
      BY ONLY <2>2, <3>1, QueueFacts
    <3>3. QED BY ONLY <2>3, <3>1, <3>2
  <2>5. QED BY <2>1, <2>4 DEF TypeOK
<1>2. ASSUME Crash PROVE TypeOK'
  <2> USE <1>2 DEF Crash
  <2>1. <<[op |-> "down"], [op |-> "ssr"], [op |-> "up"]>> \in Seq(Messages)
    BY Posted
  <2>2. errorCb' \in Seq(Messages) /\ crashes' \in Nat
    BY <2>1 DEF TypeOK
  <2>3. QED BY <2>2 DEF TypeOK
<1>3. ASSUME ErrorCbPosts PROVE TypeOK'
  <2> USE <1>3 DEF ErrorCbPosts
  <2>1. Head(errorCb) \in Messages /\ errorCb' \in Seq(Messages)
    BY QueueFacts DEF TypeOK
  <2>2. queue' \in Seq(Messages)
    BY <2>1, QueueFacts DEF TypeOK
  <2>3. QED BY <2>1, <2>2 DEF TypeOK
<1>4. QED BY <1>1, <1>2, <1>3

LEMMA StepType == TypeOK /\ [Next]_vars => TypeOK'
<1>1. ASSUME TypeOK, UNCHANGED vars PROVE TypeOK'
  BY <1>1 DEF TypeOK, vars, handlerVars, apiVars, modemVars, boundVars
<1>2. QED
  BY <1>1, CallType, HandlerType, ModemType DEF Next

---------------------------------------------------------------------------
(* The invariant. *)

LEMMA InitInv == Init => IInv
<1> SUFFICES ASSUME Init PROVE IInv OBVIOUS
<1>1. TypeOK BY InitType
<1>2. Undisturbed BY DEF Init, Undisturbed
<1>3. LayersAgree BY DEF Init, LayersAgree
<1>4. DeletionNotHeldUp BY DEF Init, DeletionNotHeldUp
<1>5. QED BY <1>1, <1>2, <1>3, <1>4 DEF IInv

LEMMA CallInv ==
    ASSUME IInv, Framework
    PROVE  (Undisturbed /\ LayersAgree /\ DeletionNotHeldUp)'
<1>1. PICK m \in Messages : m.op \notin Restarts /\ Call(m)
  BY Posted DEF Framework, loc_eng_set_position_mode, loc_eng_start,
     loc_eng_stop, loc_eng_delete_aiding_data, Restarts
<1> USE <1>1 DEF Call, Post, handlerVars, apiVars, modemVars
<1>2. Undisturbed'
  <2>1. SUFFICES ASSUME crashes' = 0 PROVE errorCb' = <<>> /\ client' = "live" /\ Calm(queue')
    BY DEF Undisturbed, Calm
  <2>2. errorCb = <<>> /\ client = "live" /\ Calm(queue)
    BY <2>1 DEF IInv, Undisturbed, Calm
  <2>3. QED
    BY <2>2, AppendCalm DEF IInv, TypeOK
<1>3. (LayersAgree /\ DeletionNotHeldUp)'
  BY DEF IInv, LayersAgree, DeletionNotHeldUp, Healthy
<1>4. QED BY <1>2, <1>3

\* Without a restart the handlers of one never run, and the others leave the
\* queue free of its messages.
LEMMA HandlerCalm ==
    ASSUME IInv, MsgTask
    PROVE  /\ Undisturbed'
           /\ crashes = 0 => /\ ~loc_eng_handle_engine_down
                             /\ ~LocSsrMsg /\ ~loc_eng_handle_engine_up
<1>1. crashes' = crashes /\ errorCb' = errorCb
  BY DEF MsgTask, loc_eng_start_handler, loc_eng_stop_handler, setPositionMode,
     MsgUpdateEngineState, LocEngReportStatus, LocEngDelAidData,
     loc_eng_handle_engine_down, LocSsrMsg, loc_eng_handle_engine_up, boundVars
<1>2. SUFFICES ASSUME crashes = 0
               PROVE  /\ client' = "live" /\ errorCb' = <<>> /\ Calm(queue')
                      /\ ~loc_eng_handle_engine_down
                      /\ ~LocSsrMsg /\ ~loc_eng_handle_engine_up
  BY <1>1 DEF Undisturbed, Calm
<1>3. /\ errorCb = <<>> /\ client = "live" /\ Calm(queue)
      /\ queue \in Seq(Messages)
  BY <1>2 DEF IInv, TypeOK, Undisturbed, Calm
<1>4. queue # <<>>
  BY DEF MsgTask, loc_eng_start_handler, loc_eng_stop_handler, setPositionMode,
     MsgUpdateEngineState, LocEngReportStatus, LocEngDelAidData, Received,
     loc_eng_handle_engine_down, LocSsrMsg, loc_eng_handle_engine_up
<1>5. /\ Calm(Tail(queue)) /\ Head(queue).op \notin Restarts
      /\ Tail(queue) \in Seq(Messages) /\ Head(queue) \in Messages
  BY <1>3, <1>4, TailCalm, QueueFacts
<1>6. ~loc_eng_handle_engine_down /\ ~LocSsrMsg /\ ~loc_eng_handle_engine_up
  BY <1>5 DEF loc_eng_handle_engine_down, LocSsrMsg, loc_eng_handle_engine_up,
     Received, Restarts
<1>7. client' = client
  BY <1>6 DEF MsgTask, loc_eng_start_handler, loc_eng_stop_handler,
     setPositionMode, MsgUpdateEngineState, LocEngReportStatus,
     LocEngDelAidData, modemVars
<1>8. queue' = Tail(queue) \/ MsgUpdateEngineState
  BY <1>6 DEF MsgTask, loc_eng_start_handler, loc_eng_stop_handler,
     setPositionMode, LocEngReportStatus, LocEngDelAidData, Done
<1>9. ASSUME MsgUpdateEngineState PROVE Calm(queue')
  <2>1. Head(queue).on \in BOOLEAN
    BY <1>5, <1>9, Carries DEF MsgUpdateEngineState, Received
  <2>2. PICK m \in Messages : /\ m.op = "status"
                              /\ queue' \in {Tail(queue), Append(Tail(queue), m)}
    <3>1. [op |-> "status", on |-> Head(queue).on] \in Messages
      BY <2>1, Posted
    <3>2. QED BY <1>9, <3>1 DEF MsgUpdateEngineState, Done, DoneAndPost
  <2>3. QED BY <1>5, <2>2, AppendCalm DEF Restarts
<1>10. QED
  BY <1>1, <1>3, <1>5, <1>6, <1>7, <1>8, <1>9

\* The requests to a live modem that does not refuse.
LEMMA RequestEffect ==
    ASSUME TypeOK, refusals' = 0, client = "live"
    PROVE  /\ \A mode \in Modes \cup {None}, held \in BOOLEAN :
                 startFix(mode, held) =>
                    /\ held /\ mInSession' /\ registered'
                    /\ session' \in Modes
           /\ stopFix => ~mInSession' /\ session' = None
           /\ Refused => FALSE
<1>1. ~Refused
  BY DEF Refused, TypeOK
<1>2. ASSUME NEW mode \in Modes \cup {None}, NEW held \in BOOLEAN,
             startFix(mode, held)
      PROVE  held /\ mInSession' /\ registered' /\ session' \in Modes
  BY <1>1, <1>2, SessionAssumption DEF startFix, registerEventMask, ModeToRun
<1>3. ASSUME stopFix PROVE ~mInSession' /\ session' = None
  BY <1>1, <1>3 DEF stopFix
<1>4. QED BY <1>1, <1>2, <1>3

LEMMA HandlerInv ==
    ASSUME IInv, MsgTask
    PROVE  (Undisturbed /\ LayersAgree /\ DeletionNotHeldUp)'
<1>1. Undisturbed' BY HandlerCalm
<1>2. LayersAgree'
  <2>1. crashes' = crashes /\ (refusals' = 0 => refusals = 0)
    <3>1. crashes' = crashes /\ (Refused \/ refusals' = refusals)
      BY DEF MsgTask, loc_eng_start_handler, loc_eng_stop_handler,
         setPositionMode, MsgUpdateEngineState, LocEngReportStatus,
         LocEngDelAidData, loc_eng_handle_engine_down, LocSsrMsg, open,
         loc_eng_handle_engine_up, boundVars, startFix, stopFix, Accepted
    <3>2. ASSUME Refused PROVE refusals' # 0
      BY <3>2 DEF Refused, IInv, TypeOK
    <3>3. QED BY <3>1, <3>2
  <2>2. SUFFICES ASSUME refusals' = 0, crashes = 0
                 PROVE  /\ mNavigating' = (session' # None)
                        /\ mInSession' = mNavigating'
                        /\ mNavigating' => registered'
    BY <2>1 DEF LayersAgree, Healthy
  <2>3. /\ mNavigating = (session # None)
        /\ mInSession = mNavigating
        /\ mNavigating => registered
        /\ client = "live" /\ TypeOK
    BY <2>1, <2>2 DEF IInv, LayersAgree, Healthy, Undisturbed
  <2>4. CASE loc_eng_start_handler
    <3>1. CASE mNavigating
      BY <2>3, <2>4, <3>1 DEF loc_eng_start_handler
    <3>2. CASE ~mNavigating
      <4>1. PICK held \in BOOLEAN : startFix(mFixCriteria, held) /\ mNavigating' = held
        BY <2>4, <3>2 DEF loc_eng_start_handler
      <4>2. held /\ mInSession' /\ registered' /\ session' \in Modes
        BY <2>2, <2>3, <4>1, RequestEffect DEF TypeOK
      <4>3. QED BY <2>3, <4>1, <4>2, RequestType, SessionAssumption DEF TypeOK
    <3>3. QED BY <3>1, <3>2
  <2>5. CASE loc_eng_stop_handler
    <3>1. CASE mNavigating
      BY <2>2, <2>3, <2>5, <3>1, RequestEffect, RequestType
      DEF loc_eng_stop_handler, setInSession
    <3>2. CASE ~mNavigating
      BY <2>3, <2>5, <3>2 DEF loc_eng_stop_handler
    <3>3. QED BY <3>1, <3>2
  <2>6. CASE setPositionMode
    <3>1. CASE mNavigating
      <4>1. mFixCriteria' \in Modes
        BY <2>3, <2>6, TakeType, Carries DEF setPositionMode
      <4>2. PICK held \in BOOLEAN : startFix(mFixCriteria', held)
        BY <2>6, <3>1 DEF setPositionMode
      <4>3. mInSession' /\ registered' /\ session' \in Modes
        BY <2>2, <2>3, <4>1, <4>2, RequestEffect
      <4>4. mNavigating' = mNavigating
        BY <2>6 DEF setPositionMode
      <4>5. QED BY <2>3, <3>1, <4>1, <4>2, <4>3, <4>4, RequestType, SessionAssumption
    <3>2. CASE ~mNavigating
      BY <2>3, <2>6, <3>2 DEF setPositionMode
    <3>3. QED BY <3>1, <3>2
  <2>7. CASE MsgUpdateEngineState
    BY <2>3, <2>7 DEF MsgUpdateEngineState, handlerVars
  <2>8. CASE LocEngReportStatus \/ LocEngDelAidData
    BY <2>3, <2>8 DEF LocEngReportStatus, LocEngDelAidData, apiVars, modemVars
  <2>9. QED
    BY <2>2, <2>4, <2>5, <2>6, <2>7, <2>8, HandlerCalm DEF MsgTask
<1>3. DeletionNotHeldUp'
  <2>1. SUFFICES ASSUME crashes' = 0, aiding' PROVE engine_status'
    BY DEF DeletionNotHeldUp
  <2>2. crashes = 0
    BY <2>1 DEF MsgTask, loc_eng_start_handler, loc_eng_stop_handler,
       setPositionMode, MsgUpdateEngineState, LocEngReportStatus,
       LocEngDelAidData, loc_eng_handle_engine_down, LocSsrMsg,
       loc_eng_handle_engine_up, boundVars
  <2>3. aiding => engine_status
    BY <2>2 DEF IInv, DeletionNotHeldUp
  <2>4. CASE LocEngReportStatus \/ LocEngDelAidData
    <3>1. ASSUME LocEngReportStatus PROVE aiding' = (aiding /\ engine_status')
      BY <3>1 DEF LocEngReportStatus, update_aiding_data_for_deletion
    <3>2. ASSUME LocEngDelAidData PROVE aiding' = engine_status' /\ engine_status' = engine_status
      <4>1. aiding' = (TRUE /\ engine_status) /\ engine_status' = engine_status
        BY <3>2 DEF LocEngDelAidData, update_aiding_data_for_deletion
      <4>2. engine_status \in BOOLEAN BY DEF IInv, TypeOK
      <4>3. QED BY ONLY <4>1, <4>2
    <3>3. QED BY ONLY <2>1, <2>4, <3>1, <3>2
  <2>5. CASE \/ loc_eng_start_handler \/ loc_eng_stop_handler
             \/ setPositionMode \/ MsgUpdateEngineState
    BY <2>1, <2>3, <2>5 DEF loc_eng_start_handler, loc_eng_stop_handler,
       setPositionMode, MsgUpdateEngineState, handlerVars
  <2>6. QED
    BY <2>2, <2>4, <2>5, HandlerCalm DEF MsgTask
<1>4. QED BY <1>1, <1>2, <1>3

LEMMA ModemInv ==
    ASSUME IInv, EngineFollows \/ Crash \/ ErrorCbPosts
    PROVE  (Undisturbed /\ LayersAgree /\ DeletionNotHeldUp)'
<1>1. CASE EngineFollows
  <2> USE <1>1 DEF EngineFollows, handlerVars, apiVars, boundVars
  <2>1. engine' \in BOOLEAN BY DEF IInv, TypeOK
  <2>2. PICK m \in Messages : /\ m.op = "engine"
                              /\ queue' \in {queue, Append(queue, m)}
    <3>1. [op |-> "engine", on |-> engine'] \in Messages
      BY <2>1, Posted
    <3>2. reportEngineState(engine') OBVIOUS
    <3>3. QED BY <3>1, <3>2 DEF reportEngineState, Post
  <2>3. ASSUME Calm(queue) PROVE Calm(queue')
    BY <2>2, <2>3, AppendCalm DEF IInv, TypeOK, Restarts
  <2>4. Undisturbed'
    BY <2>3 DEF IInv, Undisturbed, Calm
  <2>5. (LayersAgree /\ DeletionNotHeldUp)'
    BY DEF IInv, LayersAgree, DeletionNotHeldUp, Healthy
  <2>6. QED BY <2>4, <2>5
<1>2. CASE Crash
  <2>1. crashes' # 0
    BY <1>2 DEF Crash, IInv, TypeOK
  <2>2. QED BY <2>1 DEF Undisturbed, LayersAgree, DeletionNotHeldUp
<1>3. CASE ErrorCbPosts
  <2> USE <1>3 DEF ErrorCbPosts, handlerVars, apiVars, modemVars, boundVars
  <2>1. crashes # 0
    BY DEF IInv, Undisturbed
  <2>2. QED
    BY <2>1 DEF Undisturbed, LayersAgree, DeletionNotHeldUp
<1>4. QED BY <1>1, <1>2, <1>3

LEMMA StepInv == IInv /\ [Next]_vars => IInv'
<1>1. ASSUME IInv, UNCHANGED vars PROVE (Undisturbed /\ LayersAgree /\ DeletionNotHeldUp)'
  BY <1>1 DEF IInv, Undisturbed, LayersAgree, DeletionNotHeldUp, Healthy, vars,
     handlerVars, apiVars, modemVars, boundVars
<1>2. QED
  BY <1>1, StepType, CallInv, HandlerInv, ModemInv DEF IInv, Next

---------------------------------------------------------------------------
(* Theorems. *)

\* The invariant of the engine's MsgTask thread and the modem: in every state
\* the types, the quiet of a modem that never restarted, and both properties.
THEOREM Inductive == Spec => []IInv
<1>1. QED
  BY InitInv, StepInv, PTL DEF Spec

\* Every variable keeps its type through every handler.
THEOREM TypeCorrect == Spec => []TypeOK
<1>1. IInv => TypeOK BY DEF IInv
<1>2. QED BY <1>1, Inductive, PTL

\* mNavigating, mInSession and the modem's session agree, and the tracking
\* events are registered, at every moment without restart and refusal.
THEOREM Agreement == Spec => []LayersAgree
<1>1. IInv => LayersAgree BY DEF IInv
<1>2. QED BY <1>1, Inductive, PTL

\* A pending deletion of aiding data waits for an engine reported on.
THEOREM DeletionReleased == Spec => []DeletionNotHeldUp
<1>1. IInv => DeletionNotHeldUp BY DEF IInv
<1>2. QED BY <1>1, Inductive, PTL

---------------------------------------------------------------------------
(* The calls that are queued lead from what the adapter does to what the   *)
(* framework asked for, one message at a time.                             *)

Intents == [run : BOOLEAN, mode : Modes \cup {None}]

\* What a message makes of what is asked for.
After(w, m) ==
    IF m.op = "mode" THEN [w EXCEPT !.mode = m.mode]
    ELSE IF m.op = "start" THEN [w EXCEPT !.run = TRUE]
    ELSE IF m.op = "stop" /\ w.run THEN [run |-> FALSE, mode |-> None]
    ELSE w

Leads(q, first, last) ==
    \E f \in [1 .. Len(q) + 1 -> Intents] :
        /\ f[1] = first /\ f[Len(q) + 1] = last
        /\ \A i \in 1 .. Len(q) : f[i + 1] = After(f[i], q[i])

Current == [run |-> mNavigating, mode |-> mFixCriteria]

Follows ==
    Healthy /\ crashes = 0 =>
        /\ Leads(queue, Current, want)
        /\ mNavigating => session = ModeToRun(mFixCriteria)

LEMMA AfterType ==
    ASSUME NEW w \in Intents, NEW m \in Messages
    PROVE  After(w, m) \in Intents
<1>1. m.op = "mode" => m.mode \in Modes
  BY Carries
<1>2. ASSUME NEW mode \in Modes PROVE [w EXCEPT !.mode = mode] \in Intents
  BY DEF Intents
<1>3. [w EXCEPT !.run = TRUE] \in Intents /\ [run |-> FALSE, mode |-> None] \in Intents
  BY DEF Intents
<1>4. QED
  BY <1>1, <1>2, <1>3 DEF After

LEMMA LeadsAppend ==
    ASSUME NEW q \in Seq(Messages), NEW m \in Messages, NEW first, NEW last,
           Leads(q, first, last)
    PROVE  Leads(Append(q, m), first, After(last, m))
<1> DEFINE n == Len(q) + 1
<1>1. PICK f \in [1 .. n -> Intents] :
         /\ f[1] = first /\ f[n] = last
         /\ \A i \in 1 .. Len(q) : f[i + 1] = After(f[i], q[i])
  BY DEF Leads
<1>2. /\ Len(q) \in Nat /\ n \in Nat /\ Len(Append(q, m)) = n
      /\ \A i \in 1 .. Len(q) : Append(q, m)[i] = q[i]
      /\ Append(q, m)[n] = m
  BY QueueFacts
<1>3. last \in Intents
  BY <1>1, <1>2
<1> DEFINE g == [i \in 1 .. n + 1 |-> IF i = n + 1 THEN After(last, m) ELSE f[i]]
<1>4. g \in [1 .. n + 1 -> Intents]
  BY <1>1, <1>2, <1>3, AfterType
<1>5. g[1] = first /\ g[n + 1] = After(last, m)
  BY <1>1, <1>2
<1>6. ASSUME NEW i \in 1 .. n PROVE g[i + 1] = After(g[i], Append(q, m)[i])
  <2>1. g[i] = f[i] /\ i \in Nat
    BY <1>2
  <2>2. CASE i = n
    BY <1>1, <1>2, <2>1, <2>2
  <2>3. CASE i # n
    <3>1. i \in 1 .. Len(q) /\ i + 1 # n + 1 /\ i + 1 \in 1 .. n + 1
      BY <1>2, <2>3
    <3>2. g[i + 1] = f[i + 1]
      BY <3>1
    <3>3. QED
      BY <1>1, <1>2, <2>1, <3>1, <3>2
  <2>4. QED
    BY <2>2, <2>3
<1> HIDE DEF g
<1>7. QED
  BY <1>2, <1>4, <1>5, <1>6 DEF Leads

LEMMA LeadsTail ==
    ASSUME NEW q \in Seq(Messages), q # <<>>, NEW first, NEW last, Leads(q, first, last)
    PROVE  Leads(Tail(q), After(first, Head(q)), last)
<1> DEFINE n == Len(q)
<1>1. PICK f \in [1 .. n + 1 -> Intents] :
         /\ f[1] = first /\ f[n + 1] = last
         /\ \A i \in 1 .. n : f[i + 1] = After(f[i], q[i])
  BY DEF Leads
<1>2. /\ n \in Nat /\ n > 0 /\ Head(q) = q[1] /\ Len(Tail(q)) = n - 1
      /\ \A i \in 1 .. n - 1 : Tail(q)[i] = q[i + 1]
  BY QueueFacts
<1> DEFINE g == [i \in 1 .. n |-> f[i + 1]]
<1>3. g \in [1 .. n -> Intents] /\ g[1] = f[2] /\ g[n] = last
  BY <1>1, <1>2
<1>4. g[1] = After(first, Head(q))
  BY <1>1, <1>2, <1>3
<1>5. ASSUME NEW i \in 1 .. n - 1 PROVE g[i + 1] = After(g[i], Tail(q)[i])
  BY <1>1, <1>2
<1>6. Len(Tail(q)) + 1 = n
  BY <1>2
<1> HIDE DEF g
<1>7. QED
  BY <1>2, <1>3, <1>4, <1>5, <1>6 DEF Leads

LEMMA LeadsNowhere ==
    ASSUME NEW first, NEW last, Leads(<<>>, first, last)
    PROVE  first = last
  BY DEF Leads

LEMMA CallFollows == ASSUME IInv, Follows, Framework PROVE Follows'
<1>1. PICK m \in Messages : Call(m) /\ want' = After(want, m)
  <2>1. ASSUME NEW m \in Modes, loc_eng_set_position_mode(m)
        PROVE  \E n \in Messages : Call(n) /\ want' = After(want, n)
    BY <2>1, Posted DEF loc_eng_set_position_mode, After
  <2>2. CASE loc_eng_start
    BY <2>2, Posted DEF loc_eng_start, After
  <2>3. CASE loc_eng_stop
    BY <2>3, Posted DEF loc_eng_stop, After
  <2>4. CASE loc_eng_delete_aiding_data
    BY <2>4, Posted DEF loc_eng_delete_aiding_data, After
  <2>5. QED
    BY <2>1, <2>2, <2>3, <2>4 DEF Framework
<1>2. /\ queue' = Append(queue, m) /\ queue \in Seq(Messages)
      /\ UNCHANGED <<mNavigating, mFixCriteria, session, crashes, refusals>>
  BY <1>1 DEF Call, Post, handlerVars, modemVars, IInv, TypeOK
<1>3. Leads(queue, Current, want) => Leads(queue', Current, want')
  BY <1>1, <1>2, LeadsAppend
<1>4. QED
  BY <1>2, <1>3 DEF Follows, Healthy, Current

\* A message that a handler or the modem posts asks for nothing.
LEMMA StatusFollows ==
    ASSUME NEW q \in Seq(Messages), NEW on \in BOOLEAN, NEW op \in {"engine", "status"},
           NEW first, NEW last, Leads(q, first, last)
    PROVE  Leads(Append(q, [op |-> op, on |-> on]), first, last)
<1>1. [op |-> op, on |-> on] \in Messages
  BY Posted
<1>2. After(last, [op |-> op, on |-> on]) = last
  BY DEF After
<1>3. QED
  BY <1>1, <1>2, LeadsAppend

LEMMA HandlerFollows == ASSUME IInv, Follows, MsgTask PROVE Follows'
<1>1. /\ crashes' = crashes /\ (Refused \/ refusals' = refusals)
  BY DEF MsgTask, loc_eng_start_handler, loc_eng_stop_handler,
     setPositionMode, MsgUpdateEngineState, LocEngReportStatus,
     LocEngDelAidData, loc_eng_handle_engine_down, LocSsrMsg, open,
     loc_eng_handle_engine_up, boundVars, startFix, stopFix, Accepted
<1>2. Refused => refusals' # 0
  BY DEF Refused, IInv, TypeOK
<1>3. SUFFICES ASSUME refusals' = 0, crashes = 0
               PROVE  /\ Leads(queue', Current', want')
                      /\ mNavigating' => session' = ModeToRun(mFixCriteria')
  BY <1>1 DEF Follows, Healthy
<1>4. /\ Leads(queue, Current, want) /\ (mNavigating => session = ModeToRun(mFixCriteria))
      /\ client = "live" /\ TypeOK /\ queue \in Seq(Messages)
      /\ mNavigating = (session # None)
  BY <1>1, <1>2, <1>3 DEF Follows, Healthy, IInv, Undisturbed, LayersAgree, TypeOK
<1>5. want' = want /\ queue # <<>>
  BY DEF MsgTask, loc_eng_start_handler, loc_eng_stop_handler,
     setPositionMode, MsgUpdateEngineState, LocEngReportStatus, Received,
     LocEngDelAidData, loc_eng_handle_engine_down, LocSsrMsg, loc_eng_handle_engine_up
<1> DEFINE m == Head(queue)
<1>6. Leads(Tail(queue), After(Current, m), want) /\ m \in Messages /\ Tail(queue) \in Seq(Messages)
  BY <1>4, <1>5, LeadsTail, QueueFacts
<1>7. CASE loc_eng_start_handler
  <2>1. m.op = "start" /\ queue' = Tail(queue) /\ mFixCriteria' = mFixCriteria
    BY <1>7 DEF loc_eng_start_handler, Received, Done
  <2>2. After(Current, m) = [run |-> TRUE, mode |-> mFixCriteria]
    BY <2>1 DEF After, Current
  <2>3. mNavigating' /\ session' = ModeToRun(mFixCriteria)
    <3>1. CASE mNavigating
      BY <1>4, <1>7, <3>1 DEF loc_eng_start_handler
    <3>2. CASE ~mNavigating
      <4>1. PICK held \in BOOLEAN : startFix(mFixCriteria, held) /\ mNavigating' = held
        BY <1>7, <3>2 DEF loc_eng_start_handler
      <4>2. held /\ session' = ModeToRun(mFixCriteria)
        BY <1>2, <1>3, <1>4, <4>1 DEF startFix
      <4>3. QED
        BY <4>1, <4>2
    <3>3. QED
      BY <1>4, <3>1, <3>2 DEF TypeOK
  <2>4. mNavigating' = TRUE
    <3>1. TypeOK'
      BY StepType DEF IInv, Next
    <3>2. QED
      BY <2>3, <3>1 DEF TypeOK
  <2>5. QED
    BY <1>5, <1>6, <2>1, <2>2, <2>3, <2>4 DEF Current
<1>8. CASE loc_eng_stop_handler
  <2>1. m.op = "stop" /\ queue' = Tail(queue)
    BY <1>8 DEF loc_eng_stop_handler, Received, Done
  <2>2. CASE mNavigating
    <3>1. After(Current, m) = [run |-> FALSE, mode |-> None]
      BY <2>1, <2>2 DEF After, Current
    <3>2. mNavigating' = FALSE /\ mFixCriteria' = None
      BY <1>8, <2>2 DEF loc_eng_stop_handler, setInSession
    <3>3. QED
      BY <1>5, <1>6, <2>1, <3>1, <3>2 DEF Current
  <2>3. CASE ~mNavigating
    <3>1. After(Current, m) = Current
      BY <2>1, <2>3 DEF After, Current
    <3>2. mNavigating' = mNavigating /\ mFixCriteria' = mFixCriteria
      BY <1>8, <2>3 DEF loc_eng_stop_handler
    <3>3. QED
      BY <1>5, <1>6, <2>1, <2>3, <3>1, <3>2 DEF Current
  <2>4. QED
    BY <2>2, <2>3
<1>9. CASE setPositionMode
  <2>1. /\ m.op = "mode" /\ queue' = Tail(queue) /\ mFixCriteria' = m.mode
        /\ mNavigating' = mNavigating
    BY <1>9 DEF setPositionMode, Received, Done
  <2>2. After(Current, m) = [run |-> mNavigating, mode |-> m.mode]
    BY <2>1 DEF After, Current
  <2>3. mNavigating' => session' = ModeToRun(mFixCriteria')
    <3>1. SUFFICES ASSUME mNavigating PROVE session' = ModeToRun(mFixCriteria')
      BY <2>1
    <3>2. PICK held \in BOOLEAN : startFix(mFixCriteria', held)
      BY <1>9, <3>1 DEF setPositionMode
    <3>3. QED
      BY <1>2, <1>3, <1>4, <3>2 DEF startFix
  <2>4. QED
    BY <1>5, <1>6, <2>1, <2>2, <2>3 DEF Current
<1>10. CASE MsgUpdateEngineState
  <2>1. /\ m.op = "engine" /\ m.on \in BOOLEAN
        /\ UNCHANGED <<mNavigating, mFixCriteria, session>>
        /\ queue' \in {Tail(queue), Append(Tail(queue), [op |-> "status", on |-> m.on])}
    BY <1>6, <1>10, Carries DEF MsgUpdateEngineState, Received, Done, DoneAndPost, handlerVars
  <2>2. After(Current, m) = Current
    BY <2>1 DEF After
  <2>3. Leads(queue', Current, want)
    BY <1>6, <2>1, <2>2, StatusFollows
  <2>4. QED
    BY <1>4, <1>5, <2>1, <2>3 DEF Current
<1>11. CASE LocEngReportStatus \/ LocEngDelAidData
  <2>1. /\ m.op \in {"status", "delete"} /\ queue' = Tail(queue)
        /\ UNCHANGED <<mNavigating, mFixCriteria, session>>
    BY <1>11 DEF LocEngReportStatus, LocEngDelAidData, Received, Done, modemVars
  <2>2. After(Current, m) = Current
    BY <2>1 DEF After
  <2>3. QED
    BY <1>4, <1>5, <1>6, <2>1, <2>2 DEF Current
<1>12. QED
  BY <1>3, <1>7, <1>8, <1>9, <1>10, <1>11, HandlerCalm DEF MsgTask

LEMMA ModemFollowsStep ==
    ASSUME IInv, Follows, EngineFollows \/ Crash \/ ErrorCbPosts
    PROVE  Follows'
<1>1. CASE EngineFollows
  <2>1. /\ UNCHANGED <<want, mNavigating, mFixCriteria, session, crashes, refusals>>
        /\ queue' \in {queue, Append(queue, [op |-> "engine", on |-> engine'])}
        /\ engine' \in BOOLEAN /\ queue \in Seq(Messages)
    BY <1>1 DEF EngineFollows, reportEngineState, Post, handlerVars, boundVars, IInv, TypeOK
  <2>2. Leads(queue, Current, want) => Leads(queue', Current, want)
    BY <2>1, StatusFollows
  <2>3. QED
    BY <2>1, <2>2 DEF Follows, Healthy, Current
<1>2. CASE Crash
  BY <1>2 DEF Crash, IInv, TypeOK, Follows
<1>3. CASE ErrorCbPosts
  BY <1>3 DEF ErrorCbPosts, IInv, Undisturbed, Follows, boundVars
<1>4. QED
  BY <1>1, <1>2, <1>3

\* While the modem neither restarts nor refuses, a settled modem runs what the
\* framework's calls ask for when taken in order, for any modes and calls: the
\* queued messages always lead from what the adapter does to what is wanted.
THEOREM ModemFollowsWant == Spec => []ModemFollows
<1>1. Init => Follows
  <2>1. SUFFICES ASSUME Init PROVE Leads(queue, Current, want) /\ ~mNavigating
    BY DEF Follows
  <2> DEFINE f == [i \in 1 .. Len(queue) + 1 |-> want]
  <2>2. queue = <<>> /\ Current = want /\ want \in Intents /\ ~mNavigating
    BY <2>1 DEF Init, Current, Intents
  <2>3. /\ f \in [1 .. Len(queue) + 1 -> Intents]
        /\ f[1] = want /\ f[Len(queue) + 1] = want /\ Len(queue) = 0
    BY <2>2
  <2> HIDE DEF f
  <2>4. QED
    BY <2>2, <2>3 DEF Leads
<1>2. IInv /\ Follows /\ [Next]_vars => Follows'
  <2>1. ASSUME Follows, UNCHANGED vars PROVE Follows'
    BY <2>1 DEF Follows, Healthy, Current, Leads, vars, handlerVars, modemVars, boundVars
  <2>2. QED
    BY <2>1, CallFollows, HandlerFollows, ModemFollowsStep DEF Next
<1>3. IInv /\ Follows => ModemFollows
  <2>1. SUFFICES ASSUME IInv, Follows, Settled, Healthy, crashes = 0
                 PROVE  session = IF want.run THEN ModeToRun(want.mode) ELSE None
    BY DEF ModemFollows
  <2>2. want = Current
    BY <2>1, LeadsNowhere DEF Follows, Settled
  <2>3. want.run = mNavigating /\ want.mode = mFixCriteria
    BY <2>2 DEF Current
  <2>4. mNavigating = (session # None)
    BY <2>1 DEF IInv, LayersAgree
  <2>5. QED
    BY <2>1, <2>3, <2>4 DEF Follows
<1>4. QED
  BY <1>1, <1>2, <1>3, Inductive, PTL DEF Spec
---------------------------------------------------------------------------
(* Restarts: whatever the modem has lost is started again, because an      *)
(* engine-up message comes behind every loss, and a start behind it.       *)

Ups(q) == \E i \in 1 .. Len(q) : q[i].op = "up"
Ssrs(q) == \E i \in 1 .. Len(q) : q[i].op = "ssr"
NoStop(q) == \A i \in 1 .. Len(q) : q[i].op # "stop"

\* A start is queued and no stop behind it.
StartLast(q) ==
    \E i \in 1 .. Len(q) :
        q[i].op = "start" /\ \A j \in 1 .. Len(q) : j > i => q[j].op # "stop"

\* An engine-up comes behind every reopening in q, in q itself or in `later`.
Covered(q, later) ==
    \A i \in 1 .. Len(q) : q[i].op = "ssr" =>
        Ups(later) \/ \E j \in 1 .. Len(q) : j > i /\ q[j].op = "up"

UpPending == Ups(queue) \/ Ups(errorCb)

Running ==
    mNavigating =>
        mInSession /\ (UpPending \/ (session # None /\ registered /\ client = "live"))

Recovers ==
    Healthy =>
        /\ client # "none"
        /\ client = "stale" => Ssrs(queue) \/ Ssrs(errorCb)
        /\ Covered(queue, errorCb) /\ Covered(errorCb, <<>>) /\ NoStop(errorCb)
        /\ Running
        /\ want.run => StartLast(queue) \/ (mNavigating /\ NoStop(queue))

LEMMA TailFacts ==
    ASSUME NEW q \in Seq(Messages), q # <<>>
    PROVE  /\ Ups(q) /\ Head(q).op # "up" => Ups(Tail(q))
           /\ Ssrs(q) /\ Head(q).op # "ssr" => Ssrs(Tail(q))
           /\ NoStop(q) => NoStop(Tail(q))
           /\ StartLast(q) => StartLast(Tail(q)) \/ (Head(q).op = "start" /\ NoStop(Tail(q)))
<1> DEFINE n == Len(q)
<1>1. /\ n \in Nat /\ n > 0 /\ Head(q) = q[1] /\ Len(Tail(q)) = n - 1
      /\ \A i \in 1 .. n - 1 : Tail(q)[i] = q[i + 1]
  BY QueueFacts
<1>2. \A i \in 1 .. n : i # 1 => i - 1 \in 1 .. n - 1 /\ Tail(q)[i - 1] = q[i]
  BY <1>1
<1> HIDE DEF n
<1>3. /\ Ups(q) /\ Head(q).op # "up" => Ups(Tail(q))
      /\ Ssrs(q) /\ Head(q).op # "ssr" => Ssrs(Tail(q))
  BY <1>1, <1>2 DEF Ups, Ssrs, n
<1>4. NoStop(q) => NoStop(Tail(q))
  BY <1>1 DEF NoStop, n
<1>5. ASSUME StartLast(q)
      PROVE  StartLast(Tail(q)) \/ (Head(q).op = "start" /\ NoStop(Tail(q)))
  <2>1. PICK i \in 1 .. n : q[i].op = "start" /\ \A j \in 1 .. n : j > i => q[j].op # "stop"
    BY <1>5 DEF StartLast, n
  <2>2. \A j \in 1 .. n - 1 : j + 1 > i => Tail(q)[j].op # "stop"
    BY <1>1, <2>1
  <2>3. CASE i = 1
    BY <1>1, <2>1, <2>2, <2>3 DEF NoStop, n
  <2>4. CASE i # 1
    <3>1. i - 1 \in 1 .. n - 1 /\ Tail(q)[i - 1].op = "start"
      BY <1>2, <2>1, <2>4
    <3>2. \A j \in 1 .. n - 1 : j > i - 1 => Tail(q)[j].op # "stop"
      BY <1>1, <2>2
    <3> DEFINE k == i - 1
    <3>3. k \in 1 .. Len(Tail(q)) /\ Tail(q)[k].op = "start"
          /\ \A j \in 1 .. Len(Tail(q)) : j > k => Tail(q)[j].op # "stop"
      BY <1>1, <3>1, <3>2
    <3> HIDE DEF k
    <3>4. QED
      BY <3>3 DEF StartLast
  <2>5. QED
    BY <2>3, <2>4
<1>6. QED
  BY <1>3, <1>4, <1>5

LEMMA TailCovered ==
    ASSUME NEW q \in Seq(Messages), q # <<>>, NEW later, Covered(q, later)
    PROVE  /\ Covered(Tail(q), later)
           /\ Head(q).op = "ssr" => Ups(later) \/ Ups(Tail(q))
<1> DEFINE n == Len(q)
<1>1. /\ n \in Nat /\ n > 0 /\ Head(q) = q[1] /\ Len(Tail(q)) = n - 1
      /\ \A i \in 1 .. n - 1 : Tail(q)[i] = q[i + 1]
  BY QueueFacts
<1>2. \A i \in 1 .. n : i # 1 => i - 1 \in 1 .. n - 1 /\ Tail(q)[i - 1] = q[i]
  BY <1>1
<1> HIDE DEF n
<1>3. \A i \in 1 .. n : q[i].op = "ssr" =>
         Ups(later) \/ \E j \in 1 .. n : j > i /\ q[j].op = "up"
  BY DEF Covered, n
<1>4. ASSUME NEW i \in 1 .. n - 1, Tail(q)[i].op = "ssr", ~ Ups(later)
      PROVE  \E j \in 1 .. n - 1 : j > i /\ Tail(q)[j].op = "up"
  <2>1. PICK j \in 1 .. n : j > i + 1 /\ q[j].op = "up"
    BY <1>1, <1>3, <1>4
  <2>2. j - 1 \in 1 .. n - 1 /\ j - 1 > i /\ Tail(q)[j - 1].op = "up"
    BY <1>1, <1>2, <2>1
  <2>3. QED
    BY <2>2
<1>5. Head(q).op = "ssr" => Ups(later) \/ Ups(Tail(q))
  BY <1>1, <1>2, <1>3 DEF Ups, n
<1>6. QED
  BY <1>1, <1>4, <1>5 DEF Covered

LEMMA AppendFacts ==
    ASSUME NEW q \in Seq(Messages), NEW m \in Messages
    PROVE  /\ Ups(q) \/ m.op = "up" => Ups(Append(q, m))
           /\ Ssrs(q) \/ m.op = "ssr" => Ssrs(Append(q, m))
           /\ NoStop(q) /\ m.op # "stop" => NoStop(Append(q, m))
           /\ (StartLast(q) /\ m.op # "stop") \/ m.op = "start" => StartLast(Append(q, m))
<1> DEFINE n == Len(q)
           a == Append(q, m)
<1>1. /\ n \in Nat /\ Len(a) = n + 1 /\ a[n + 1] = m
      /\ \A i \in 1 .. n : a[i] = q[i] /\ i \in 1 .. n + 1
      /\ \A i \in 1 .. n + 1 : i \in 1 .. n \/ i = n + 1
      /\ n + 1 \in 1 .. n + 1 /\ \A i \in 1 .. n : n + 1 > i
      /\ \A i \in 1 .. n + 1 : ~ (i > n + 1)
  BY QueueFacts
<1> HIDE DEF n, a
<1>2. Ups(q) \/ m.op = "up" => Ups(a)
  BY <1>1 DEF Ups, n
<1>3. Ssrs(q) \/ m.op = "ssr" => Ssrs(a)
  BY <1>1 DEF Ssrs, n
<1>4. NoStop(q) /\ m.op # "stop" => NoStop(a)
  BY <1>1 DEF NoStop, n
<1>5. (StartLast(q) /\ m.op # "stop") \/ m.op = "start" => StartLast(a)
  BY <1>1 DEF StartLast, n
<1>6. QED
  BY <1>2, <1>3, <1>4, <1>5 DEF a

LEMMA AppendCovered ==
    ASSUME NEW q \in Seq(Messages), NEW m \in Messages, NEW before, NEW later,
           Covered(q, before), Ups(before) => Ups(later) \/ m.op = "up",
           m.op = "ssr" => Ups(later)
    PROVE  Covered(Append(q, m), later)
<1> DEFINE n == Len(q)
           a == Append(q, m)
<1>1. /\ n \in Nat /\ Len(a) = n + 1 /\ a[n + 1] = m
      /\ \A i \in 1 .. n : a[i] = q[i] /\ i \in 1 .. n + 1
      /\ \A i \in 1 .. n + 1 : i \in 1 .. n \/ i = n + 1
      /\ n + 1 \in 1 .. n + 1 /\ \A i \in 1 .. n : n + 1 > i
  BY QueueFacts
<1> HIDE DEF n, a
<1>2. Covered(a, later)
  BY <1>1 DEF Covered, n
<1>3. QED
  BY <1>2 DEF a

LEMMA SingleUp == ~ Ups(<<>>) /\ Ups(<<[op |-> "up"]>>)
  BY DEF Ups

LEMMA CallRecovers == ASSUME IInv, Recovers, Framework PROVE Recovers'
<1>1. PICK m \in Messages :
         /\ Call(m) /\ m.op \notin Restarts
         /\ want'.run => m.op = "start" \/ (want.run /\ m.op # "stop")
  <2>1. ASSUME NEW m \in Modes, loc_eng_set_position_mode(m)
        PROVE  \E n \in Messages : /\ Call(n) /\ n.op \notin Restarts
                                   /\ want'.run => n.op = "start" \/ (want.run /\ n.op # "stop")
    BY <2>1, Posted DEF loc_eng_set_position_mode, Restarts, IInv, TypeOK
  <2>2. CASE loc_eng_start
    BY <2>2, Posted DEF loc_eng_start, Restarts
  <2>3. CASE loc_eng_stop
    <3>1. want'.run = FALSE
      BY <2>3 DEF loc_eng_stop, IInv, TypeOK
    <3>2. QED
      BY <2>3, <3>1, Posted DEF loc_eng_stop, Restarts
  <2>4. CASE loc_eng_delete_aiding_data
    BY <2>4, Posted DEF loc_eng_delete_aiding_data, Restarts
  <2>5. QED
    BY <2>1, <2>2, <2>3, <2>4 DEF Framework
<1>2. /\ queue' = Append(queue, m) /\ queue \in Seq(Messages)
      /\ UNCHANGED <<mNavigating, mInSession, session, registered, client, errorCb, refusals>>
  BY <1>1 DEF Call, Post, handlerVars, modemVars, apiVars, IInv, TypeOK
<1>3. SUFFICES ASSUME Healthy
               PROVE  /\ Ssrs(queue) => Ssrs(queue')
                      /\ Ups(queue) => Ups(queue')
                      /\ Covered(queue, errorCb) => Covered(queue', errorCb)
                      /\ want'.run => StartLast(queue') \/ (mNavigating /\ NoStop(queue'))
  BY <1>2 DEF Recovers, Healthy, Running, UpPending
<1>4. (Ssrs(queue) => Ssrs(queue')) /\ (Ups(queue) => Ups(queue'))
  BY <1>2, AppendFacts
<1>5. Covered(queue, errorCb) => Covered(queue', errorCb)
  <2>1. m.op # "ssr"
    BY <1>1 DEF Restarts
  <2>2. QED
    BY <1>2, <2>1, AppendCovered
<1>6. want'.run => StartLast(queue') \/ (mNavigating /\ NoStop(queue'))
  <2>1. CASE m.op = "start"
    BY <1>2, <2>1, AppendFacts
  <2>2. CASE want.run /\ m.op # "stop"
    <3>1. StartLast(queue) \/ (mNavigating /\ NoStop(queue))
      BY <1>3, <2>2 DEF Recovers
    <3>2. QED
      BY <1>2, <2>2, <3>1, AppendFacts
  <2>3. QED
    BY <1>1, <2>1, <2>2
<1>7. QED
  BY <1>4, <1>5, <1>6

LEMMA HandlerRecovers == ASSUME IInv, Recovers, MsgTask PROVE Recovers'
<1>1. Refused \/ refusals' = refusals
  BY DEF MsgTask, loc_eng_start_handler, loc_eng_stop_handler,
     setPositionMode, MsgUpdateEngineState, LocEngReportStatus,
     LocEngDelAidData, loc_eng_handle_engine_down, LocSsrMsg, open,
     loc_eng_handle_engine_up, boundVars, startFix, stopFix, Accepted
<1>2. Refused => refusals' # 0
  BY DEF Refused, IInv, TypeOK
<1>3. SUFFICES ASSUME refusals' = 0
               PROVE  /\ client' # "none"
                      /\ client' = "stale" => Ssrs(queue') \/ Ssrs(errorCb')
                      /\ Covered(queue', errorCb') /\ Covered(errorCb', <<>>)
                      /\ NoStop(errorCb') /\ Running'
                      /\ want'.run => StartLast(queue') \/ (mNavigating' /\ NoStop(queue'))
  BY DEF Recovers, Healthy
<1> DEFINE q == Tail(queue)
           m == Head(queue)
<1>4. /\ client # "none"
      /\ client = "stale" => Ssrs(queue) \/ Ssrs(errorCb)
      /\ Covered(queue, errorCb) /\ Covered(errorCb, <<>>) /\ NoStop(errorCb)
      /\ Running
      /\ want.run => StartLast(queue) \/ (mNavigating /\ NoStop(queue))
  BY <1>1, <1>2, <1>3 DEF Recovers, Healthy
<1>5. /\ want' = want /\ errorCb' = errorCb /\ queue # <<>> /\ queue \in Seq(Messages)
      /\ ~ Refused
  BY <1>2, <1>3 DEF MsgTask, loc_eng_start_handler, loc_eng_stop_handler,
     setPositionMode, MsgUpdateEngineState, LocEngReportStatus, Received,
     LocEngDelAidData, loc_eng_handle_engine_down, LocSsrMsg, loc_eng_handle_engine_up,
     IInv, TypeOK
<1>6. q \in Seq(Messages) /\ m \in Messages
  BY <1>5, QueueFacts
<1>7. /\ Ups(queue) /\ m.op # "up" => Ups(q)
      /\ Ssrs(queue) /\ m.op # "ssr" => Ssrs(q)
      /\ NoStop(queue) => NoStop(q)
      /\ StartLast(queue) => StartLast(q) \/ (m.op = "start" /\ NoStop(q))
      /\ Covered(q, errorCb)
      /\ m.op = "ssr" => Ups(errorCb) \/ Ups(q)
  BY <1>4, <1>5, TailFacts, TailCovered DEF q, m
\* A stale client has its engine-up coming.
<1>8. client = "stale" => UpPending
  <2>1. Ssrs(queue) => UpPending
    BY <1>4 DEF Ssrs, Covered, UpPending, Ups
  <2>2. Ssrs(errorCb) => UpPending
    BY <1>4 DEF Ssrs, Covered, UpPending, Ups
  <2>3. QED
    BY <1>4, <2>1, <2>2
<1>9. client = "live" \/ client = "stale"
  BY <1>4 DEF IInv, TypeOK
<1> HIDE DEF q, m
<1>10. ASSUME NEW mode, NEW held \in BOOLEAN, startFix(mode, held), mode \in Modes \cup {None}
       PROVE  held /\ mInSession' /\ (UpPending \/ (session' # None /\ registered' /\ client = "live"))
  <2>1. ModeToRun(mode) # None
    BY <1>10, SessionAssumption DEF ModeToRun
  <2>2. mInSession'
    BY <1>10 DEF startFix
  <2>3. CASE client = "live"
    <3>1. held /\ session' = ModeToRun(mode)
      BY <1>5, <1>10, <2>3 DEF startFix
    <3>2. registered' = TRUE
      BY <1>10, <2>3 DEF startFix, registerEventMask
    <3>3. QED
      BY <2>1, <2>2, <2>3, <3>1, <3>2
  <2>4. CASE client = "stale"
    <3>1. held
      BY <1>10, <2>4 DEF startFix
    <3>2. QED
      BY <1>8, <2>2, <2>4, <3>1
  <2>5. QED
    BY <1>9, <2>3, <2>4
<1>11. CASE loc_eng_start_handler
  <2>1. m.op = "start" /\ queue' = q /\ client' = client
    BY <1>11 DEF loc_eng_start_handler, Received, Done, m, q
  <2>2. /\ mNavigating'
        /\ mInSession' /\ (UpPending \/ (session' # None /\ registered' /\ client = "live"))
    <3>1. CASE mNavigating
      BY <1>4, <1>11, <3>1 DEF loc_eng_start_handler, Running
    <3>2. CASE ~mNavigating
      <4>1. PICK held \in BOOLEAN : startFix(mFixCriteria, held) /\ mNavigating' = held
        BY <1>11, <3>2 DEF loc_eng_start_handler
      <4>2. QED
        BY <1>10, <4>1 DEF IInv, TypeOK
    <3>3. QED
      BY <3>1, <3>2
  <2>3. QED
    BY <1>4, <1>5, <1>7, <2>1, <2>2 DEF Running, UpPending
<1>12. CASE loc_eng_stop_handler
  <2>1. m.op = "stop" /\ queue' = q /\ client' = client
    BY <1>12 DEF loc_eng_stop_handler, Received, Done, m, q
  <2>2. ~ mNavigating'
    BY <1>12 DEF loc_eng_stop_handler, setInSession
  <2>3. ~ NoStop(queue)
    <3>1. queue[1] = m /\ 1 \in 1 .. Len(queue)
      BY <1>5, QueueFacts DEF m
    <3>2. QED
      BY <2>1, <3>1 DEF NoStop
  <2>4. QED
    BY <1>4, <1>5, <1>7, <2>1, <2>2, <2>3 DEF Running
<1>13. CASE setPositionMode
  <2>1. /\ m.op = "mode" /\ queue' = q /\ client' = client /\ mNavigating' = mNavigating
        /\ mFixCriteria' \in Modes
    BY <1>6, <1>13, Carries DEF setPositionMode, Received, Done, m, q
  <2>2. mNavigating =>
           mInSession' /\ (UpPending \/ (session' # None /\ registered' /\ client = "live"))
    BY <1>10, <1>13, <2>1 DEF setPositionMode
  <2>3. QED
    BY <1>4, <1>5, <1>7, <2>1, <2>2 DEF Running, UpPending
<1>14. CASE MsgUpdateEngineState
  <2>1. /\ m.op = "engine" /\ m.on \in BOOLEAN
        /\ UNCHANGED <<mNavigating, mInSession, session, client>>
        /\ mInSession => registered' = registered
        /\ queue' \in {q, Append(q, [op |-> "status", on |-> m.on])}
    BY <1>6, <1>14, Carries
       DEF MsgUpdateEngineState, Received, Done, DoneAndPost, handlerVars, m, q
  <2>2. /\ Ups(q) => Ups(queue')
        /\ Ssrs(q) => Ssrs(queue')
        /\ NoStop(q) => NoStop(queue')
        /\ StartLast(q) => StartLast(queue')
        /\ Covered(queue', errorCb)
    <3>1. [op |-> "status", on |-> m.on] \in Messages
      BY <2>1, Posted
    <3>2. Covered(queue', errorCb)
      BY <1>6, <1>7, <2>1, <3>1, AppendCovered
    <3>3. QED
      BY <1>6, <2>1, <3>1, <3>2, AppendFacts
  <2>3. client' # "none" /\ (client' = "stale" => Ssrs(queue') \/ Ssrs(errorCb'))
    BY <1>4, <1>5, <1>7, <2>1, <2>2
  <2>4. Covered(queue', errorCb') /\ Covered(errorCb', <<>>)
    BY <1>4, <1>5, <2>2
  <2>5. Running'
    BY <1>4, <1>5, <1>7, <2>1, <2>2 DEF Running, UpPending
  <2>6. want'.run => StartLast(queue') \/ (mNavigating' /\ NoStop(queue'))
    BY <1>4, <1>5, <1>7, <2>1, <2>2
  <2>7. QED
    BY <1>4, <1>5, <2>3, <2>4, <2>5, <2>6
<1>15. CASE LocEngReportStatus \/ LocEngDelAidData \/ loc_eng_handle_engine_down
  <2>1. /\ m.op \in {"status", "delete", "down"} /\ queue' = q
        /\ UNCHANGED <<mNavigating, mInSession, session, registered, client>>
    BY <1>15 DEF LocEngReportStatus, LocEngDelAidData, loc_eng_handle_engine_down, Received,
       Done, apiVars, modemVars, m, q
  <2>2. QED
    BY <1>4, <1>5, <1>7, <2>1 DEF Running, UpPending
<1>16. CASE LocSsrMsg
  <2>1. /\ m.op = "ssr" /\ queue' = q /\ client' = "live"
        /\ UNCHANGED <<mNavigating, mInSession, session>>
    BY <1>5, <1>16 DEF LocSsrMsg, Received, Done, open, handlerVars, apiVars, m, q
  <2>2. Covered(queue', errorCb') /\ Covered(errorCb', <<>>)
    BY <1>4, <1>5, <1>7, <2>1
  <2>3. Ups(q) \/ Ups(errorCb)
    BY <1>7, <2>1
  <2>4. Running'
    BY <1>4, <1>5, <2>1, <2>3 DEF Running, UpPending
  <2>5. want'.run => StartLast(queue') \/ (mNavigating' /\ NoStop(queue'))
    BY <1>4, <1>5, <1>7, <2>1
  <2>6. QED
    BY <1>4, <1>5, <2>1, <2>2, <2>4, <2>5
<1>17. CASE loc_eng_handle_engine_up
  <2>1. m.op = "up" /\ client' = client /\ mNavigating' = FALSE
    BY <1>17 DEF loc_eng_handle_engine_up, Received, setInSession, modemVars, m, IInv, TypeOK
  <2>2. CASE mNavigating
    <3>1. queue' = Append(q, [op |-> "start"]) /\ [op |-> "start"] \in Messages
      BY <1>17, <2>2, Posted DEF loc_eng_handle_engine_up, DoneAndPost, q
    <3>2. StartLast(queue') /\ (Ssrs(q) => Ssrs(queue'))
      BY <1>6, <3>1, AppendFacts
    <3>3. Covered(queue', errorCb)
      BY <1>6, <1>7, <3>1, AppendCovered
    <3>4. Covered(queue', errorCb') /\ Covered(errorCb', <<>>)
      BY <1>4, <1>5, <3>3
    <3>5. QED
      BY <1>4, <1>5, <1>7, <2>1, <3>2, <3>4 DEF Running
  <2>3. CASE ~mNavigating
    <3>1. queue' = q
      BY <1>17, <2>3 DEF loc_eng_handle_engine_up, Done, q
    <3>2. QED
      BY <1>4, <1>5, <1>7, <2>1, <2>3, <3>1 DEF Running
  <2>4. QED
    BY <2>2, <2>3
<1>18. QED
  BY <1>11, <1>12, <1>13, <1>14, <1>15, <1>16, <1>17 DEF MsgTask

LEMMA ModemRecovers ==
    ASSUME IInv, Recovers, EngineFollows \/ Crash \/ ErrorCbPosts
    PROVE  Recovers'
<1> USE DEF IInv, TypeOK
<1>1. CASE EngineFollows
  <2>1. /\ UNCHANGED <<want, mNavigating, mInSession, session, registered, client, errorCb,
                       refusals>>
        /\ queue' \in {queue, Append(queue, [op |-> "engine", on |-> engine'])}
        /\ [op |-> "engine", on |-> engine'] \in Messages
    BY <1>1, Posted DEF EngineFollows, reportEngineState, Post, handlerVars, apiVars, boundVars
  <2>2. /\ Ups(queue) => Ups(queue')
        /\ Ssrs(queue) => Ssrs(queue')
        /\ NoStop(queue) => NoStop(queue')
        /\ StartLast(queue) => StartLast(queue')
        /\ Covered(queue, errorCb) => Covered(queue', errorCb)
    <3>1. Covered(queue, errorCb) => Covered(queue', errorCb)
      BY <2>1, AppendCovered
    <3>2. QED
      BY <2>1, <3>1, AppendFacts
  <2>3. QED
    BY <2>1, <2>2 DEF Recovers, Healthy, Running, UpPending
<1>2. CASE Crash
  <2> DEFINE down == [op |-> "down"]
             ssr == [op |-> "ssr"]
             up == [op |-> "up"]
             e1 == Append(errorCb, down)
             e2 == Append(e1, ssr)
             e3 == Append(e2, up)
  <2>1. /\ UNCHANGED <<want, queue, mNavigating, mInSession, refusals>>
        /\ client' = "stale" /\ errorCb' = errorCb \o <<down, ssr, up>>
    BY <1>2 DEF Crash, handlerVars, apiVars
  <2>2. errorCb' = e3
    BY <2>1
  <2>3. /\ down \in Messages /\ ssr \in Messages /\ up \in Messages
        /\ e1 \in Seq(Messages) /\ e2 \in Seq(Messages)
    BY Posted
  <2>4. Ups(e3) /\ Ssrs(e2)
    BY <2>3, AppendFacts
  <2>5. Ssrs(e3)
    BY <2>3, <2>4, AppendFacts
  <2>6. Covered(errorCb, <<>>) => Covered(e3, <<>>)
    <3>1. SUFFICES ASSUME Covered(errorCb, <<>>) PROVE Covered(e3, <<>>)
      OBVIOUS
    <3>2. Covered(e1, <<up>>)
      BY <2>3, <3>1, AppendCovered, SingleUp
    <3>3. Covered(e2, <<up>>)
      BY <2>3, <3>2, AppendCovered, SingleUp
    <3>4. up \in Messages /\ up.op = "up" /\ e2 \in Seq(Messages)
      BY <2>3
    <3> HIDE DEF e2, up
    <3>5. Covered(Append(e2, up), <<>>)
      BY <3>3, <3>4, AppendCovered
    <3>6. QED
      BY <3>5
  <2>7. Covered(queue, errorCb) => Covered(queue, e3)
    BY <2>4 DEF Covered
  <2>8. NoStop(errorCb) => NoStop(e3)
    BY <2>3, AppendFacts
  <2> HIDE DEF e1, e2, e3
  <2>9. ASSUME Healthy PROVE Recovers'
    <3>1. /\ Covered(queue, errorCb) /\ Covered(errorCb, <<>>) /\ NoStop(errorCb)
          /\ Running /\ (want.run => StartLast(queue) \/ (mNavigating /\ NoStop(queue)))
      BY <2>9 DEF Recovers
    <3>2. Ups(errorCb') /\ Ssrs(errorCb') /\ NoStop(errorCb') /\ Covered(errorCb', <<>>)
      BY <2>2, <2>4, <2>5, <2>6, <2>8, <3>1
    <3>3. Covered(queue', errorCb')
      BY <2>1, <2>2, <2>7, <3>1
    <3>4. Running'
      BY <2>1, <3>1, <3>2 DEF Running, UpPending
    <3>5. want'.run => StartLast(queue') \/ (mNavigating' /\ NoStop(queue'))
      BY <2>1, <3>1
    <3>6. QED
      BY <2>1, <3>2, <3>3, <3>4, <3>5 DEF Recovers
  <2>10. QED
    BY <2>1, <2>9 DEF Recovers, Healthy
<1>3. CASE ErrorCbPosts
  <2> DEFINE m == Head(errorCb)
             e == Tail(errorCb)
  <2>1. /\ UNCHANGED <<want, mNavigating, mInSession, session, registered, client, refusals>>
        /\ queue' = Append(queue, m) /\ errorCb' = e /\ errorCb # <<>>
        /\ m \in Messages /\ m = errorCb[1] /\ 1 \in 1 .. Len(errorCb)
        /\ queue \in Seq(Messages) /\ errorCb \in Seq(Messages)
    BY <1>3, QueueFacts DEF ErrorCbPosts, Post, handlerVars, apiVars, modemVars, boundVars
  <2>2. SUFFICES ASSUME Healthy PROVE Recovers'
    BY <2>1 DEF Recovers, Healthy
  <2>3. /\ client # "none" /\ (client = "stale" => Ssrs(queue) \/ Ssrs(errorCb))
        /\ Covered(queue, errorCb) /\ Covered(errorCb, <<>>) /\ NoStop(errorCb)
        /\ Running /\ (want.run => StartLast(queue) \/ (mNavigating /\ NoStop(queue)))
    BY <2>2 DEF Recovers
  <2>4. m.op # "stop" /\ NoStop(e)
    BY <2>1, <2>3, TailFacts DEF NoStop
  <2>5. /\ Ups(errorCb) /\ m.op # "up" => Ups(e)
        /\ Ssrs(errorCb) /\ m.op # "ssr" => Ssrs(e)
        /\ Covered(e, <<>>)
        /\ m.op = "ssr" => Ups(e)
    <3>1. Covered(e, <<>>) /\ (m.op = "ssr" => Ups(e))
      BY <2>1, <2>3, TailCovered, SingleUp
    <3>2. QED
      BY <2>1, <3>1, TailFacts
  <2>6. /\ Ups(queue) \/ m.op = "up" => Ups(queue')
        /\ Ssrs(queue) \/ m.op = "ssr" => Ssrs(queue')
        /\ NoStop(queue) => NoStop(queue')
        /\ StartLast(queue) => StartLast(queue')
    BY <2>1, <2>4, AppendFacts
  <2>7. Covered(queue', e)
    BY <2>1, <2>3, <2>5, AppendCovered
  <2>8. Covered(queue', errorCb') /\ Covered(errorCb', <<>>)
    BY <2>1, <2>5, <2>7
  <2>9. Running'
    BY <2>1, <2>3, <2>5, <2>6 DEF Running, UpPending
  <2>10. client' # "none" /\ (client' = "stale" => Ssrs(queue') \/ Ssrs(errorCb'))
    BY <2>1, <2>3, <2>5, <2>6
  <2>11. want'.run => StartLast(queue') \/ (mNavigating' /\ NoStop(queue'))
    BY <2>1, <2>3, <2>6
  <2>12. QED
    BY <2>1, <2>4, <2>8, <2>9, <2>10, <2>11 DEF Recovers
<1>4. QED
  BY <1>1, <1>2, <1>3

\* A session the framework asked for runs once everything has settled, whatever
\* restarts came in between and wherever their messages fell among its calls: the
\* engine-up message comes behind every loss and starts again what was lost.
THEOREM SessionRunsAgain == Spec => []SessionRuns
<1>1. Init => Recovers
  BY DEF Init, Recovers, Covered, NoStop, Running
<1>2. IInv /\ Recovers /\ [Next]_vars => Recovers'
  <2>1. ASSUME Recovers, UNCHANGED vars PROVE Recovers'
    BY <2>1 DEF Recovers, Healthy, Running, UpPending, vars, handlerVars, apiVars, modemVars,
       boundVars
  <2>2. QED
    BY <2>1, CallRecovers, HandlerRecovers, ModemRecovers DEF Next
<1>3. IInv /\ Recovers => SessionRuns
  <2>1. SUFFICES ASSUME IInv, Recovers, Settled, Healthy, want.run
                 PROVE  session # None /\ registered /\ mNavigating /\ mInSession
    BY DEF SessionRuns
  <2>2. ~ Ups(<<>>) /\ ~ StartLast(<<>>)
    BY DEF Ups, StartLast
  <2>3. mNavigating /\ ~ UpPending
    BY <2>1, <2>2 DEF Recovers, Settled, UpPending
  <2>4. QED
    BY <2>1, <2>3 DEF Recovers, Running
<1>4. QED
  BY <1>1, <1>2, <1>3, Inductive, PTL DEF Spec
=============================================================================
